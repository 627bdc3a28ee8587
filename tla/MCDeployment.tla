----------------------------- MODULE MCDeployment -----------------------------
(* A student of two degrees, one of the foundation centre, and a user who is *)
(* no student; the old database is empty, or holds the two students' rows, of *)
(* one second, and maybe a row the new one refuses.                          *)
EXTENDS Deployment, TLC
CONSTANTS s1, s2, staff, r1, r2
MCYear == (s1 :> 2021) @@ (s2 :> 2022)
MCDigits == (s1 :> 7) @@ (s2 :> 6)
MCUserNames == {[who |-> s1, five |-> TRUE, padded |-> TRUE]}
Rows == {[name |-> Plain(s1), rank |-> 1, readable |-> TRUE],
         [name |-> Plain(s2), rank |-> 1, readable |-> FALSE]}
Unfit == [name |-> Plain(staff), rank |-> 2, readable |-> TRUE]
MCOldRows == {{}, Rows, Rows \cup {Unfit}}
=============================================================================
