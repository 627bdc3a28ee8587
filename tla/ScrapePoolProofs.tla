-------------------------- MODULE ScrapePoolProofs --------------------------
(***************************************************************************)
(* The pool of workers, for every number of sessions and of workers, with  *)
(* faults and panics or without.                                           *)
(*                                                                         *)
(* The properties count; counting is not inductive.  The invariant says    *)
(* where each session is instead (PlaceInv): the sessions taken from the   *)
(* channel are those in work, replied to, received and lost, no two of     *)
(* these sets meet, and none holds a session twice.  The numbers follow    *)
(* from it at the end, by counting finite sets.                            *)
(***************************************************************************)
EXTENDS ScrapePool, SequenceTheorems, FiniteSetTheorems, TLAPS

-----------------------------------------------------------------------------
(* The inductive invariant: where every session is.                        *)

Active == {w \in Workers : at[w] \notin {"take", "exit"}}
InWork == {job[w] : w \in Active}
SessionsOf(seq) == {seq[i].session : i \in DOMAIN seq}
Distinct(seq) == \A i, j \in DOMAIN seq : seq[i].session = seq[j].session => i = j

\* The channel of sessions is what is left of 1, 2, ... in that order.
JobsInv == /\ Len(jobs) <= sent
           /\ \A i \in DOMAIN jobs : jobs[i] = (sent - Len(jobs)) + i

\* The sessions that were taken.
Taken == 1..(sent - Len(jobs))

\* Each is in one place, and once in it.
PlaceInv ==
    /\ \A v, w \in Active : job[v] = job[w] => v = w
    /\ Distinct(results) /\ Distinct(collected)
    /\ InWork \cap SessionsOf(results) = {}
    /\ InWork \cap SessionsOf(collected) = {}
    /\ SessionsOf(results) \cap SessionsOf(collected) = {}
    /\ lost \cap (InWork \cup SessionsOf(results) \cup SessionsOf(collected)) = {}
    /\ InWork \cup SessionsOf(results) \cup SessionsOf(collected) \cup lost = Taken

\* The login form never goes unflagged: an empty reply comes after the flag.
FlagInv ==
    ~stale => /\ \A w \in Workers : at[w] = "send" => reply[w] # "empty"
              /\ \A i \in DOMAIN results : results[i].kind # "empty"
              /\ \A i \in DOMAIN collected : collected[i].kind # "empty"

\* What the handler has when it returns ok, and keeps.
OkInv == outcome = "ok" =>
             Len(collected) = N /\ \A i \in DOMAIN collected : collected[i].kind = "data"

Inv == TypeOK /\ JobsInv /\ PlaceInv /\ FlagInv /\ OkInv

-----------------------------------------------------------------------------
(* The two channels of replies.                                            *)

LEMMA AppendReply ==
    ASSUME NEW seq \in Seq(Reply), NEW m \in Reply
    PROVE  /\ Append(seq, m) \in Seq(Reply) /\ Len(Append(seq, m)) = Len(seq) + 1
           /\ \A i \in DOMAIN seq : i \in DOMAIN Append(seq, m) /\ Append(seq, m)[i] = seq[i]
           /\ Append(seq, m)[Len(seq) + 1] = m
           /\ SessionsOf(Append(seq, m)) = SessionsOf(seq) \cup {m.session}
           /\ Distinct(seq) /\ m.session \notin SessionsOf(seq) => Distinct(Append(seq, m))
<1> DEFINE next == Append(seq, m)
<1>1. /\ next \in Seq(Reply) /\ Len(next) = Len(seq) + 1 /\ Len(seq) \in Nat
      /\ DOMAIN seq = 1..Len(seq) /\ DOMAIN next = 1..(Len(seq) + 1)
      /\ \A i \in 1..Len(seq) : next[i] = seq[i]
      /\ next[Len(seq) + 1] = m
  BY AppendProperties, LenProperties
<1> HIDE DEF next
<1>2. SessionsOf(next) = SessionsOf(seq) \cup {m.session}
  <2>1. \A s \in SessionsOf(next) : s \in SessionsOf(seq) \cup {m.session}
    BY <1>1 DEF SessionsOf
  <2>2. \A i \in DOMAIN seq : i \in DOMAIN next /\ next[i].session = seq[i].session
    BY <1>1
  <2>3. Len(seq) + 1 \in DOMAIN next /\ next[Len(seq) + 1].session = m.session
    BY <1>1
  <2> QED BY <2>1, <2>2, <2>3 DEF SessionsOf
<1>3. Distinct(seq) /\ m.session \notin SessionsOf(seq) => Distinct(next)
  BY <1>1 DEF Distinct, SessionsOf
<1> QED BY <1>1, <1>2, <1>3 DEF next

LEMMA TailReply ==
    ASSUME NEW seq \in Seq(Reply), seq # <<>>
    PROVE  /\ Head(seq) \in Reply /\ Tail(seq) \in Seq(Reply) /\ Len(Tail(seq)) = Len(seq) - 1
           /\ 1 \in DOMAIN seq /\ Head(seq) = seq[1]
           /\ \A i \in DOMAIN Tail(seq) : i + 1 \in DOMAIN seq /\ Tail(seq)[i] = seq[i + 1]
           /\ Distinct(seq) => /\ Distinct(Tail(seq))
                               /\ SessionsOf(Tail(seq)) = SessionsOf(seq) \ {Head(seq).session}
                               /\ Head(seq).session \in SessionsOf(seq)
<1> DEFINE rest == Tail(seq)
<1>1. /\ Head(seq) \in Reply /\ rest \in Seq(Reply) /\ Len(rest) = Len(seq) - 1
      /\ Len(seq) \in Nat \ {0} /\ Head(seq) = seq[1]
      /\ DOMAIN seq = 1..Len(seq) /\ DOMAIN rest = 1..(Len(seq) - 1)
      /\ \A i \in 1..(Len(seq) - 1) : rest[i] = seq[i + 1]
  <2>1. Len(seq) \in Nat \ {0}
    BY EmptySeq, LenProperties
  <2> QED BY <2>1, HeadTailProperties, LenProperties, ElementOfSeq
<1> HIDE DEF rest
<1>2. ASSUME Distinct(seq)
      PROVE  /\ Distinct(rest)
             /\ SessionsOf(rest) = SessionsOf(seq) \ {Head(seq).session}
             /\ Head(seq).session \in SessionsOf(seq)
  <2>1. Distinct(rest)
    <3> SUFFICES ASSUME NEW i \in DOMAIN rest, NEW j \in DOMAIN rest,
                        rest[i].session = rest[j].session
                 PROVE  i = j
      BY DEF Distinct
    <3>1. i \in Nat /\ j \in Nat /\ i + 1 \in DOMAIN seq /\ j + 1 \in DOMAIN seq
      BY <1>1
    <3>2. seq[i + 1].session = seq[j + 1].session
      BY <1>1
    <3>3. i + 1 = j + 1
      BY <1>2, <3>1, <3>2 DEF Distinct
    <3> QED BY <3>1, <3>3
  <2>2. \A i \in DOMAIN rest : /\ i + 1 \in DOMAIN seq /\ i + 1 # 1
                               /\ rest[i].session = seq[i + 1].session
    BY <1>1
  <2>3. \A j \in DOMAIN seq : j # 1 => /\ j - 1 \in DOMAIN rest
                                       /\ rest[j - 1].session = seq[j].session
    BY <1>1
  <2>4. 1 \in DOMAIN seq /\ Head(seq).session = seq[1].session
    BY <1>1
  <2>5. \A j \in DOMAIN seq : j # 1 => seq[j].session # seq[1].session
    BY <1>2, <2>4 DEF Distinct
  <2>6. SessionsOf(rest) \subseteq SessionsOf(seq) \ {seq[1].session}
    BY <2>2, <2>5 DEF SessionsOf
  <2>7. SessionsOf(seq) \ {seq[1].session} \subseteq SessionsOf(rest)
    BY <2>3 DEF SessionsOf
  <2> QED BY <2>1, <2>4, <2>6, <2>7 DEF SessionsOf
<1> QED BY <1>1, <1>2 DEF rest

-----------------------------------------------------------------------------
(* What every step keeps.                                                  *)

LEMMA Types ==
    ASSUME TypeOK
    PROVE  /\ dead \in BOOLEAN /\ closed \in BOOLEAN /\ stale \in BOOLEAN
           /\ sent \in Nat /\ sent <= N /\ N \in Nat
           /\ jobs \in Seq(Sessions) /\ Len(jobs) \in Nat /\ DOMAIN jobs = 1..Len(jobs)
           /\ results \in Seq(Reply) /\ Len(results) \in Nat /\ DOMAIN results = 1..Len(results)
           /\ collected \in Seq(Reply) /\ Len(collected) \in Nat
           /\ DOMAIN collected = 1..Len(collected)
  BY ScrapePoolAssumption, LenProperties DEF TypeOK

LEMMA InitInv == Init => Inv
<1> SUFFICES ASSUME Init PROVE Inv
  OBVIOUS
<1> USE ScrapePoolAssumption DEF Init
<1>1. /\ <<>> \in Seq(Sessions) /\ <<>> \in Seq(Reply) /\ Len(<<>>) = 0
      /\ DOMAIN jobs = {} /\ DOMAIN results = {} /\ DOMAIN collected = {}
  BY EmptySeq
<1>2. TypeOK
  <2>1. {dead, closed, stale} \subseteq BOOLEAN
    OBVIOUS
  <2>2. job \in [Workers -> Sessions] /\ reply \in [Workers -> Kinds] /\ at \in [Workers -> Places]
    BY DEF Sessions, Kinds, Places
  <2>3. sent \in 0..N /\ 0 <= N
    OBVIOUS
  <2> QED BY <1>1, <2>1, <2>2, <2>3 DEF TypeOK
<1>3. JobsInv /\ FlagInv /\ OkInv
  BY <1>1 DEF JobsInv, FlagInv, OkInv
<1>4. Active = {} /\ Taken = {}
  BY <1>1 DEF Active, Taken
<1>5. PlaceInv
  BY <1>1, <1>4 DEF PlaceInv, InWork, SessionsOf, Distinct
<1> QED BY <1>2, <1>3, <1>5 DEF Inv

\* A step that moves no session.
LEMMA NothingMoves ==
    ASSUME Inv, UNCHANGED <<job, results, collected, lost>>, Active' = Active, Taken' = Taken
    PROVE  PlaceInv'
<1>1. InWork' = InWork
  BY DEF InWork
<1>2. SessionsOf(results)' = SessionsOf(results) /\ SessionsOf(collected)' = SessionsOf(collected)
  OBVIOUS
<1>3. Distinct(results)' /\ Distinct(collected)'
  BY DEF Inv, PlaceInv
<1> QED BY <1>1, <1>2, <1>3 DEF Inv, PlaceInv

\* A worker that goes on with the session it has.
LEMMA StaysActive ==
    ASSUME TypeOK, NEW w \in Workers, NEW from \in {"page", "data", "map"},
           NEW to \in {"page", "data", "map", "send"}, Goto(w, from, to)
    PROVE  /\ Active' = Active /\ at' \in [Workers -> Places] /\ at'[w] = to
           /\ \A v \in Workers : v # w => at'[v] = at[v]
  BY DEF Goto, Active, TypeOK, Places

-----------------------------------------------------------------------------
(* The feeder and the handler's goroutine.                                 *)

LEMMA FeedInv == ASSUME Inv, Feed PROVE Inv'
<1> USE DEF Feed, world, worker, handler
<1>1. TypeOK
  BY DEF Inv
<1>2. /\ sent + 1 \in Sessions /\ jobs' \in Seq(Sessions) /\ Len(jobs') = Len(jobs) + 1
      /\ DOMAIN jobs' = 1..(Len(jobs) + 1)
      /\ \A i \in 1..Len(jobs) : jobs'[i] = jobs[i]
      /\ jobs'[Len(jobs) + 1] = sent + 1
  <2>1. sent + 1 \in Sessions
    BY <1>1, Types DEF Sessions
  <2> QED BY <1>1, <2>1, Types, AppendProperties, LenProperties
<1>3. TypeOK'
  BY <1>1, <1>2, Types DEF TypeOK
<1>4. JobsInv'
  BY <1>1, <1>2, Types DEF Inv, JobsInv
<1>5. PlaceInv'
  <2>1. Active' = Active
    BY DEF Active
  <2>2. Taken' = Taken
    BY <1>1, <1>2, Types DEF Taken
  <2> QED BY <2>1, <2>2, NothingMoves
<1>6. FlagInv' /\ OkInv'
  BY DEF Inv, FlagInv, OkInv
<1> QED BY <1>3, <1>4, <1>5, <1>6 DEF Inv

LEMMA CollectInv == ASSUME Inv, Collect PROVE Inv'
<1> USE DEF Collect, world, feeder, worker
<1>1. TypeOK
  BY DEF Inv
<1> DEFINE m == Head(results)
<1>2. /\ m \in Reply /\ results' \in Seq(Reply) /\ Len(results') = Len(results) - 1
      /\ 1 \in DOMAIN results /\ m = results[1]
      /\ \A i \in DOMAIN results' : i + 1 \in DOMAIN results /\ results'[i] = results[i + 1]
      /\ Distinct(results')
      /\ SessionsOf(results') = SessionsOf(results) \ {m.session}
      /\ m.session \in SessionsOf(results)
  BY <1>1, Types, TailReply DEF Inv, PlaceInv
<1>3. m.session \notin SessionsOf(collected)
  BY <1>2 DEF Inv, PlaceInv
<1>4. /\ collected' \in Seq(Reply) /\ Len(collected') = Len(collected) + 1
      /\ SessionsOf(collected') = SessionsOf(collected) \cup {m.session}
      /\ Distinct(collected')
  BY <1>1, <1>2, <1>3, Types, AppendReply DEF Inv, PlaceInv
<1>5. \A i \in DOMAIN collected' :
         collected'[i] = m \/ \E j \in DOMAIN collected : collected'[i] = collected[j]
  <2>1. DOMAIN collected' = 1..(Len(collected) + 1)
    BY <1>4, LenProperties
  <2>2. /\ \A i \in DOMAIN collected : collected'[i] = collected[i]
        /\ collected'[Len(collected) + 1] = m
    BY <1>1, <1>2, Types, AppendReply
  <2> QED BY <1>1, <2>1, <2>2, Types
<1> HIDE DEF m
<1>6. TypeOK'
  BY <1>1, <1>2, <1>4, Types DEF TypeOK
<1>7. JobsInv'
  BY DEF Inv, JobsInv
<1>8. PlaceInv'
  <2>1. Active' = Active /\ InWork' = InWork /\ Taken' = Taken
    BY DEF Active, InWork, Taken
  <2> QED BY <1>2, <1>4, <2>1 DEF Inv, PlaceInv
<1>9. FlagInv'
  <2> SUFFICES ASSUME ~stale PROVE FlagInv'
    BY DEF FlagInv
  <2>1. m.kind # "empty"
    BY <1>2 DEF Inv, FlagInv
  <2>2. \A i \in DOMAIN results' : results'[i].kind # "empty"
    BY <1>2 DEF Inv, FlagInv
  <2>3. \A i \in DOMAIN collected' : collected'[i].kind # "empty"
    BY <1>5, <2>1 DEF Inv, FlagInv
  <2> QED BY <2>2, <2>3 DEF Inv, FlagInv
<1>10. OkInv'
  BY <1>1, Types DEF Inv, OkInv
<1> QED BY <1>6, <1>7, <1>8, <1>9, <1>10 DEF Inv

LEMMA ReturnInv == ASSUME Inv, Return PROVE Inv'
<1> USE DEF Return, world, feeder, worker
<1>1. TypeOK'
  BY DEF Inv, TypeOK
<1>2. JobsInv' /\ PlaceInv' /\ FlagInv'
  <2>1. Active' = Active /\ Taken' = Taken
    BY DEF Active, Taken
  <2> QED BY <2>1, NothingMoves DEF Inv, JobsInv, FlagInv
<1>3. OkInv'
  <2> SUFFICES ASSUME outcome' = "ok" PROVE OkInv'
    BY DEF OkInv
  <2>1. ~Failed /\ ~stale
    OBVIOUS
  <2>2. \A i \in DOMAIN collected : collected[i].kind \in Kinds
    <3>1. \A i \in DOMAIN collected : collected[i] \in Reply
      BY Types, ElementOfSeq DEF Inv
    <3> QED BY <3>1 DEF Reply
  <2> QED BY <2>1, <2>2 DEF Inv, FlagInv, OkInv, Failed, Kinds
<1> QED BY <1>1, <1>2, <1>3 DEF Inv

\* A step that touches neither a worker nor a channel nor the handler.
LEMMA AsideInv ==
    ASSUME Inv, UNCHANGED <<pool, sent, jobs, worker, results, handler, lost>>,
           dead' \in BOOLEAN, closed' \in BOOLEAN, UNCHANGED stale
    PROVE  Inv'
<1> USE DEF worker, handler
<1>1. TypeOK'
  BY DEF Inv, TypeOK
<1>2. Active' = Active /\ Taken' = Taken
  BY DEF Active, Taken
<1> QED BY <1>1, <1>2, NothingMoves DEF Inv, JobsInv, FlagInv, OkInv

-----------------------------------------------------------------------------
(* The workers.                                                            *)

LEMMA TakeInv == ASSUME Inv, NEW w \in Workers, Take(w) PROVE Inv'
<1> USE DEF Take, Goto, world, feeder, handler
<1>1. TypeOK
  BY DEF Inv
<1> DEFINE s == Head(jobs)
<1>2. /\ s \in Sessions /\ s = jobs[1] /\ 1 \in DOMAIN jobs
      /\ jobs' \in Seq(Sessions) /\ Len(jobs') = Len(jobs) - 1 /\ DOMAIN jobs' = 1..(Len(jobs) - 1)
      /\ \A i \in 1..(Len(jobs) - 1) : jobs'[i] = jobs[i + 1]
  <2>1. Len(jobs) \in Nat \ {0}
    BY <1>1, Types, EmptySeq
  <2> QED BY <1>1, <2>1, Types, HeadTailProperties, LenProperties
<1>3. s = sent - Len(jobs) + 1
  BY <1>1, <1>2, Types DEF Inv, JobsInv
<1>4. /\ at' \in [Workers -> Places] /\ job' \in [Workers -> Sessions]
      /\ at'[w] = "page" /\ job'[w] = s /\ at[w] = "take"
      /\ \A v \in Workers : v # w => at'[v] = at[v] /\ job'[v] = job[v]
  BY <1>1, <1>2 DEF TypeOK, Places
<1> HIDE DEF s
<1>5. TypeOK'
  BY <1>1, <1>2, <1>4, Types DEF TypeOK
<1>6. JobsInv'
  <2>1. Len(jobs') <= sent
    BY <1>1, <1>2, Types DEF Inv, JobsInv
  <2>2. ASSUME NEW i \in DOMAIN jobs' PROVE jobs'[i] = (sent - Len(jobs')) + i
    <3>1. i \in Nat /\ i + 1 \in DOMAIN jobs /\ jobs'[i] = jobs[i + 1]
      BY <1>1, <1>2, Types
    <3>2. jobs[i + 1] = (sent - Len(jobs)) + (i + 1)
      BY <3>1 DEF Inv, JobsInv
    <3> QED BY <1>1, <1>2, <3>1, <3>2, Types
  <2> QED BY <2>1, <2>2 DEF JobsInv
<1>7. PlaceInv'
  <2>1. Active' = Active \cup {w} /\ w \notin Active
    BY <1>4 DEF Active
  <2>2. InWork' = InWork \cup {s}
    BY <1>4, <2>1 DEF InWork, Active
  <2>3. Taken' = Taken \cup {s} /\ s \notin Taken
    BY <1>1, <1>2, <1>3, Types DEF Taken, Inv, JobsInv
  <2>4. s \notin InWork /\ s \notin SessionsOf(results) /\ s \notin SessionsOf(collected) /\ s \notin lost
    BY <2>3 DEF Inv, PlaceInv
  <2>5. \A u, v \in Active' : job'[u] = job'[v] => u = v
    BY <1>4, <2>1, <2>4 DEF Inv, PlaceInv, InWork, Active
  <2>6. SessionsOf(results)' = SessionsOf(results) /\ SessionsOf(collected)' = SessionsOf(collected)
    OBVIOUS
  <2>7. Distinct(results)' /\ Distinct(collected)'
    BY DEF Inv, PlaceInv
  <2> QED BY <2>2, <2>3, <2>4, <2>5, <2>6, <2>7 DEF Inv, PlaceInv
<1>8. FlagInv' /\ OkInv'
  BY <1>4 DEF Inv, FlagInv, OkInv
<1> QED BY <1>5, <1>6, <1>7, <1>8 DEF Inv

LEMMA ExitInv == ASSUME Inv, NEW w \in Workers, Exit(w) PROVE Inv'
<1> USE DEF Exit, Goto, world, feeder, handler
<1>1. /\ at' \in [Workers -> Places] /\ at'[w] = "exit" /\ at[w] = "take"
      /\ \A v \in Workers : v # w => at'[v] = at[v]
  BY DEF Inv, TypeOK, Places
<1>2. TypeOK'
  BY <1>1 DEF Inv, TypeOK
<1>3. Active' = Active /\ Taken' = Taken
  BY <1>1 DEF Active, Taken
<1>4. PlaceInv'
  BY <1>3, NothingMoves
<1> QED BY <1>1, <1>2, <1>4 DEF Inv, JobsInv, FlagInv, OkInv

\* A worker fetches, decodes or maps, and goes on with the session it has: it may
\* raise the flag, and an empty reply it gets ready comes with the flag.
LEMMA GoesOnInv ==
    ASSUME Inv, NEW w \in Workers, NEW from \in {"page", "data", "map"},
           NEW to \in {"page", "data", "map", "send"}, Goto(w, from, to),
           stale' \in BOOLEAN, stale => stale',
           reply' \in [Workers -> Kinds], \A v \in Workers : v # w => reply'[v] = reply[v],
           to = "send" /\ ~stale' => reply'[w] # "empty",
           UNCHANGED <<world, feeder, jobs, job, results, handler, lost>>
    PROVE  Inv'
<1> USE DEF world, feeder, handler
<1>1. TypeOK
  BY DEF Inv
<1>2. /\ Active' = Active /\ at' \in [Workers -> Places] /\ at'[w] = to
      /\ \A v \in Workers : v # w => at'[v] = at[v]
  BY <1>1, StaysActive
<1>3. TypeOK'
  BY <1>1, <1>2 DEF TypeOK
<1>4. PlaceInv'
  <2>1. Taken' = Taken
    BY DEF Taken
  <2> QED BY <1>2, <2>1, NothingMoves
<1>5. FlagInv'
  BY <1>2 DEF Inv, FlagInv
<1> QED BY <1>3, <1>4, <1>5 DEF Inv, JobsInv, OkInv

\* A worker leaves its session, replied to or lost.
LEMMA LeavesWork ==
    ASSUME Inv, NEW w \in Workers, w \in Active, UNCHANGED job,
           at' = [at EXCEPT ![w] = "take"]
    PROVE  /\ Active' = Active \ {w} /\ at' \in [Workers -> Places]
           /\ InWork' = InWork \ {job[w]} /\ job[w] \in InWork
           /\ \A u, v \in Active' : job[u] = job[v] => u = v
<1>1. at' \in [Workers -> Places] /\ \A v \in Workers : at'[v] = IF v = w THEN "take" ELSE at[v]
  BY DEF Inv, TypeOK, Places
<1>2. Active' = Active \ {w}
  BY <1>1 DEF Active
<1>3. \A u, v \in Active : job[u] = job[v] => u = v
  BY DEF Inv, PlaceInv
<1>4. InWork' = InWork \ {job[w]} /\ job[w] \in InWork
  BY <1>2, <1>3 DEF InWork
<1> QED BY <1>1, <1>2, <1>3, <1>4

LEMMA PanicInv == ASSUME Inv, NEW w \in Workers, Panic(w) PROVE Inv'
<1> USE DEF Panic, Goto, world, feeder, handler
<1>1. w \in Active
  BY DEF Active
<1>2. /\ Active' = Active \ {w} /\ at' \in [Workers -> Places]
      /\ InWork' = InWork \ {job[w]} /\ job[w] \in InWork
      /\ \A u, v \in Active' : job[u] = job[v] => u = v
  BY <1>1, LeavesWork
<1>3. TypeOK'
  <2>1. job[w] \in Sessions
    BY DEF Inv, TypeOK
  <2> QED BY <1>2, <2>1 DEF Inv, TypeOK
<1>4. PlaceInv'
  <2>1. Taken' = Taken /\ lost' = lost \cup {job[w]}
    BY DEF Taken
  <2>2. SessionsOf(results)' = SessionsOf(results) /\ SessionsOf(collected)' = SessionsOf(collected)
    OBVIOUS
  <2>3. Distinct(results)' /\ Distinct(collected)'
    BY DEF Inv, PlaceInv
  <2> QED BY <1>2, <2>1, <2>2, <2>3 DEF Inv, PlaceInv
<1>5. FlagInv'
  BY <1>1 DEF Inv, FlagInv, TypeOK
<1> QED BY <1>3, <1>4, <1>5 DEF Inv, JobsInv, OkInv

LEMMA SendInv == ASSUME Inv, NEW w \in Workers, Send(w) PROVE Inv'
<1> USE DEF Send, Goto, world, feeder, handler
<1>1. TypeOK /\ w \in Active /\ at[w] = "send"
  BY DEF Active, Inv
<1> DEFINE m == [session |-> job[w], kind |-> reply[w]]
<1>2. m \in Reply /\ m.session = job[w] /\ m.kind = reply[w]
  BY <1>1 DEF TypeOK, Reply
<1>3. /\ Active' = Active \ {w} /\ at' \in [Workers -> Places]
      /\ InWork' = InWork \ {job[w]} /\ job[w] \in InWork
      /\ \A u, v \in Active' : job[u] = job[v] => u = v
  BY <1>1, LeavesWork
<1> HIDE DEF m
<1>4. results' = Append(results, m)
  BY DEF m
<1>5. job[w] \notin SessionsOf(results) \cup SessionsOf(collected) \cup lost
  BY <1>3 DEF Inv, PlaceInv
<1>6. /\ results' \in Seq(Reply) /\ Len(results') = Len(results) + 1
      /\ \A i \in DOMAIN results : results'[i] = results[i]
      /\ results'[Len(results) + 1] = m
      /\ SessionsOf(results') = SessionsOf(results) \cup {job[w]}
      /\ Distinct(results')
  BY <1>1, <1>2, <1>4, <1>5, Types, AppendReply DEF Inv, PlaceInv
<1>7. TypeOK'
  BY <1>1, <1>3, <1>6, Types DEF TypeOK
<1>8. PlaceInv'
  <2>1. Taken' = Taken
    BY DEF Taken
  <2>2. Distinct(collected)' /\ SessionsOf(collected)' = SessionsOf(collected)
    BY DEF Inv, PlaceInv
  <2> QED BY <1>3, <1>5, <1>6, <2>1, <2>2 DEF Inv, PlaceInv
<1>9. FlagInv'
  <2> SUFFICES ASSUME ~stale PROVE FlagInv'
    BY DEF FlagInv
  <2>1. m.kind # "empty"
    BY <1>1, <1>2 DEF Inv, FlagInv
  <2>2. DOMAIN results' = 1..(Len(results) + 1)
    BY <1>6, LenProperties
  <2>3. \A i \in DOMAIN results' : results'[i].kind # "empty"
    BY <1>1, <1>6, <2>1, <2>2, Types DEF Inv, FlagInv
  <2>4. \A v \in Workers : at'[v] = "send" => at[v] = "send"
    BY <1>1 DEF TypeOK
  <2> QED BY <2>3, <2>4 DEF Inv, FlagInv
<1> QED BY <1>7, <1>8, <1>9 DEF Inv, JobsInv, OkInv

-----------------------------------------------------------------------------

LEMMA NextInv == Inv /\ [Next]_vars => Inv'
<1> SUFFICES ASSUME Inv, [Next]_vars PROVE Inv'
  OBVIOUS
<1>1. dead \in BOOLEAN /\ closed \in BOOLEAN /\ stale \in BOOLEAN
  BY Types DEF Inv
<1>2. CASE Feed
  BY <1>2, FeedInv
<1>3. CASE Close
  BY <1>1, <1>3, AsideInv DEF Close, world
<1>4. CASE Collect
  BY <1>4, CollectInv
<1>5. CASE Return
  BY <1>5, ReturnInv
<1>6. CASE SessionEnds
  BY <1>1, <1>6, AsideInv DEF SessionEnds, feeder
<1>7. ASSUME NEW w \in Workers, Take(w) PROVE Inv'
  BY <1>7, TakeInv
<1>8. ASSUME NEW w \in Workers, Exit(w) PROVE Inv'
  BY <1>8, ExitInv
<1>9. ASSUME NEW w \in Workers, NEW from \in {"page", "data"}, Fail(w, from) PROVE Inv'
  <2>1. Goto(w, from, "send") /\ reply' = [reply EXCEPT ![w] = "error"]
    BY <1>9 DEF Fail
  <2>2. /\ reply' \in [Workers -> Kinds] /\ reply'[w] = "error"
        /\ \A v \in Workers : v # w => reply'[v] = reply[v]
    BY <2>1 DEF Inv, TypeOK, Kinds
  <2> QED BY <1>1, <1>9, <2>1, <2>2, GoesOnInv DEF Fail
<1>10. ASSUME NEW w \in Workers, Page(w) PROVE Inv'
  <2>1. stale' \in BOOLEAN /\ (stale => stale')
    BY <1>1, <1>10 DEF Page
  <2>2. CASE dead \/ (pool = "schedule" /\ stale)
    <3>1. stale' /\ Goto(w, "page", "send") /\ reply' = [reply EXCEPT ![w] = "empty"]
      BY <1>10, <2>2 DEF Page
    <3>2. /\ reply' \in [Workers -> Kinds]
          /\ \A v \in Workers : v # w => reply'[v] = reply[v]
      BY <3>1 DEF Inv, TypeOK, Kinds
    <3> QED BY <1>10, <2>1, <3>1, <3>2, GoesOnInv DEF Page
  <2>3. CASE ~(dead \/ (pool = "schedule" /\ stale))
    <3>1. PICK to \in {"data", "map"} : Goto(w, "page", to)
      BY <1>10, <2>3 DEF Page
    <3>2. UNCHANGED reply /\ reply \in [Workers -> Kinds]
      BY <1>10, <2>3 DEF Page, Inv, TypeOK
    <3> QED BY <1>10, <2>1, <3>1, <3>2, GoesOnInv DEF Page
  <2> QED BY <2>2, <2>3
<1>11. ASSUME NEW w \in Workers, Data(w) PROVE Inv'
  <2>1. PICK to \in {"send", "map"} : Goto(w, "data", to) /\ (to = "send" <=> dead)
    BY <1>11 DEF Data
  <2>2. /\ reply' \in [Workers -> Kinds] /\ (dead => reply'[w] = "error")
        /\ \A v \in Workers : v # w => reply'[v] = reply[v]
    BY <1>11 DEF Data, Inv, TypeOK, Kinds
  <2> QED BY <1>1, <1>11, <2>1, <2>2, GoesOnInv DEF Data
<1>12. ASSUME NEW w \in Workers, Map(w) PROVE Inv'
  <2>1. /\ reply' \in [Workers -> Kinds] /\ reply'[w] = "data"
        /\ \A v \in Workers : v # w => reply'[v] = reply[v]
    BY <1>12 DEF Map, Inv, TypeOK, Kinds
  <2> QED BY <1>1, <1>12, <2>1, GoesOnInv DEF Map
<1>13. ASSUME NEW w \in Workers, Panic(w) PROVE Inv'
  BY <1>13, PanicInv
<1>14. ASSUME NEW w \in Workers, Send(w) PROVE Inv'
  BY <1>14, SendInv
<1>15. CASE UNCHANGED vars
  BY <1>1, <1>15, AsideInv DEF vars, world, feeder
<1> QED BY <1>2, <1>3, <1>4, <1>5, <1>6, <1>7, <1>8, <1>9, <1>10, <1>11, <1>12,
           <1>13, <1>14, <1>15 DEF Next, Work

LEMMA Invariance == Spec => []Inv
<1> QED BY InitInv, NextInv, PTL DEF Spec

-----------------------------------------------------------------------------
(* The properties: from places to numbers.                                 *)

LEMMA AtMostOne ==
    ASSUME NEW S, \A x, y \in S : x = y
    PROVE  Cardinality(S) = IF S = {} THEN 0 ELSE 1
<1>1. CASE S = {}
  BY <1>1, FS_EmptySet
<1>2. CASE S # {}
  <2>1. PICK x \in S : S = {x}
    BY <1>2
  <2> QED BY <1>2, <2>1, FS_Singleton
<1> QED BY <1>1, <1>2

LEMMA InvEachSessionOnce == Inv => EachSessionOnce
<1> SUFFICES ASSUME Inv, NEW s \in Sessions
             PROVE  Cardinality({i \in DOMAIN jobs : jobs[i] = s}) + Cardinality(Busy(s))
                      + Cardinality(Positions(results, s)) + Cardinality(Positions(collected, s))
                      + (IF s \in lost THEN 1 ELSE 0)
                    = IF s <= sent THEN 1 ELSE 0
  BY DEF EachSessionOnce
<1> DEFINE Waiting == {i \in DOMAIN jobs : jobs[i] = s}
<1>1. TypeOK /\ PlaceInv /\ s \in Nat \ {0}
  BY ScrapePoolAssumption DEF Inv, Sessions
<1>2. (\A x, y \in Waiting : x = y) /\ (Waiting # {} <=> sent - Len(jobs) < s /\ s <= sent)
  <2>1. \A i \in DOMAIN jobs : i \in 1..Len(jobs) /\ jobs[i] = (sent - Len(jobs)) + i
    BY <1>1, Types DEF Inv, JobsInv
  <2>2. \A x, y \in Waiting : x = y
    BY <1>1, <2>1, Types
  <2>3. ASSUME sent - Len(jobs) < s, s <= sent PROVE Waiting # {}
    <3>1. s - (sent - Len(jobs)) \in DOMAIN jobs
      BY <1>1, <2>3, Types
    <3>2. jobs[s - (sent - Len(jobs))] = s
      BY <1>1, <2>1, <3>1, Types
    <3> QED BY <3>1, <3>2
  <2>4. Waiting # {} => sent - Len(jobs) < s /\ s <= sent
    BY <1>1, <2>1, Types
  <2> QED BY <2>2, <2>3, <2>4
<1>3. (\A x, y \in Busy(s) : x = y) /\ (Busy(s) # {} <=> s \in InWork)
  BY <1>1 DEF PlaceInv, Busy, Active, InWork
<1>4. /\ \A x, y \in Positions(results, s) : x = y
      /\ Positions(results, s) # {} <=> s \in SessionsOf(results)
  BY <1>1 DEF PlaceInv, Distinct, Positions, SessionsOf
<1>5. /\ \A x, y \in Positions(collected, s) : x = y
      /\ Positions(collected, s) # {} <=> s \in SessionsOf(collected)
  BY <1>1 DEF PlaceInv, Distinct, Positions, SessionsOf
<1>6. /\ Cardinality(Waiting) = IF sent - Len(jobs) < s /\ s <= sent THEN 1 ELSE 0
      /\ Cardinality(Busy(s)) = IF s \in InWork THEN 1 ELSE 0
      /\ Cardinality(Positions(results, s)) = IF s \in SessionsOf(results) THEN 1 ELSE 0
      /\ Cardinality(Positions(collected, s)) = IF s \in SessionsOf(collected) THEN 1 ELSE 0
  <2> HIDE DEF Waiting
  <2> QED BY <1>2, <1>3, <1>4, <1>5, AtMostOne
<1>7. s \in Taken <=> s <= sent - Len(jobs)
  BY <1>1, Types DEF Taken
<1>8. sent - Len(jobs) \in Int /\ sent \in Int /\ sent - Len(jobs) <= sent
  BY <1>1, Types
<1> HIDE DEF Waiting
<1>9. CASE s <= sent - Len(jobs)
  <2>1. s \in Taken /\ s <= sent /\ Cardinality(Waiting) = 0
    BY <1>1, <1>6, <1>7, <1>8, <1>9
  <2> QED BY <1>1, <1>6, <2>1 DEF PlaceInv, Waiting
<1>10. CASE ~(s <= sent - Len(jobs))
  <2>1. s \notin Taken /\ Cardinality(Waiting) = IF s <= sent THEN 1 ELSE 0
    BY <1>1, <1>6, <1>7, <1>8, <1>10
  <2> QED BY <1>1, <1>6, <2>1 DEF PlaceInv, Waiting
<1> QED BY <1>9, <1>10

LEMMA InvRoomForReplies == Inv => RoomForReplies
<1> SUFFICES ASSUME Inv
             PROVE  Len(results) + Cardinality({w \in Workers : at[w] = "send"}) <= N
  BY DEF RoomForReplies
<1> DEFINE Senders == {w \in Workers : at[w] = "send"}
<1> DEFINE Ready == {job[w] : w \in Senders}
<1>1. TypeOK /\ PlaceInv
  BY DEF Inv
<1>2. IsFiniteSet(Sessions) /\ Cardinality(Sessions) = N
  BY ScrapePoolAssumption, FS_Interval DEF Sessions
<1>3. IsFiniteSet(Ready) /\ Cardinality(Ready) = Cardinality(Senders)
  <2>1. IsFiniteSet(Senders)
    BY ScrapePoolAssumption, FS_Subset
  <2> DEFINE f == [w \in Senders |-> job[w]]
  <2>2. \A v, w \in Senders : job[v] = job[w] => v = w
    BY <1>1 DEF PlaceInv, Active
  <2>3. f \in Bijection(Senders, Ready)
    BY <2>2 DEF Bijection, Injection, Surjection, IsInjective
  <2>4. ExistsBijection(Senders, Ready)
    BY <2>3 DEF ExistsBijection
  <2> QED BY <2>1, <2>4, FS_Bijection
<1>4. IsFiniteSet(SessionsOf(results)) /\ Cardinality(SessionsOf(results)) = Len(results)
  <2>1. Len(results) \in Nat /\ DOMAIN results = 1..Len(results)
    BY <1>1, Types
  <2>2. IsFiniteSet(DOMAIN results) /\ Cardinality(DOMAIN results) = Len(results)
    <3>1. /\ IsFiniteSet(1..Len(results))
          /\ Cardinality(1..Len(results)) =
                IF 1 > Len(results) THEN 0 ELSE Len(results) - 1 + 1
      BY <2>1, FS_Interval
    <3> QED BY <2>1, <3>1
  <2> DEFINE f == [i \in DOMAIN results |-> results[i].session]
  <2>3. f \in Bijection(DOMAIN results, SessionsOf(results))
    BY <1>1 DEF PlaceInv, Distinct, SessionsOf, Bijection, Injection, Surjection, IsInjective
  <2>4. ExistsBijection(DOMAIN results, SessionsOf(results))
    BY <2>3 DEF ExistsBijection
  <2> QED BY <2>2, <2>4, FS_Bijection
<1>5. Ready \subseteq Sessions /\ SessionsOf(results) \subseteq Sessions
  <2>1. \A i \in DOMAIN results : results[i] \in Reply
    BY <1>1, Types, ElementOfSeq
  <2> QED BY <1>1, <2>1 DEF TypeOK, SessionsOf, Reply
<1>6. SessionsOf(results) \cap Ready = {}
  BY <1>1 DEF PlaceInv, InWork, Active
<1> HIDE DEF Ready
<1>7. Cardinality(SessionsOf(results) \cup Ready) = Len(results) + Cardinality(Senders)
  <2>1. Cardinality(SessionsOf(results) \cap Ready) = 0
    BY <1>6, FS_EmptySet, Zenon
  <2>2. Cardinality(Senders) \in Nat /\ Len(results) \in Nat
    BY <1>1, <1>3, FS_CardinalityType, Types
  <2>3. Cardinality(SessionsOf(results) \cup Ready)
          = Cardinality(SessionsOf(results)) + Cardinality(Ready)
              - Cardinality(SessionsOf(results) \cap Ready)
    BY <1>3, <1>4, FS_Union
  <2> HIDE DEF Senders
  <2> QED BY <1>3, <1>4, <2>1, <2>2, <2>3
<1>8. SessionsOf(results) \cup Ready \in SUBSET Sessions
  BY <1>5
<1> QED BY <1>2, <1>7, <1>8, FS_Subset

LEMMA InvOkIsComplete == Inv => OkIsComplete
<1> SUFFICES ASSUME Inv, outcome = "ok"
             PROVE  {collected[i] : i \in DOMAIN collected} = [session : Sessions, kind : {"data"}]
  BY DEF OkIsComplete
<1>1. TypeOK /\ PlaceInv /\ Len(collected) = N
  BY DEF Inv, OkInv
<1>2. DOMAIN collected = 1..N /\ N \in Nat
  BY <1>1, Types
<1>3. \A i \in DOMAIN collected : collected[i] \in [session : Sessions, kind : {"data"}]
  <2>1. \A i \in DOMAIN collected : collected[i] \in Reply
    BY <1>1, Types, ElementOfSeq
  <2> QED BY <2>1 DEF Reply, Inv, OkInv
<1> DEFINE f == [i \in 1..N |-> collected[i].session]
<1>4. f \in Surjection(1..N, Sessions)
  <2>1. f \in Injection(1..N, Sessions)
    BY <1>1, <1>2, <1>3 DEF PlaceInv, Distinct, Injection, IsInjective
  <2>2. IsFiniteSet(Sessions) /\ Cardinality(1..N) = Cardinality(Sessions)
    BY <1>2, FS_Interval DEF Sessions
  <2> HIDE DEF f
  <2> QED BY <2>1, <2>2, FS_Injection
<1>5. \A s \in Sessions : \E i \in DOMAIN collected : collected[i].session = s
  BY <1>2, <1>4 DEF Surjection
<1>6. ASSUME NEW m \in [session : Sessions, kind : {"data"}]
      PROVE  \E i \in DOMAIN collected : collected[i] = m
  <2>1. PICK i \in DOMAIN collected : collected[i].session = m.session
    BY <1>5
  <2> QED BY <1>3, <2>1
<1> QED BY <1>3, <1>6

\* Every state of a pool is well typed, for every number of sessions and workers.
THEOREM PoolTypes == Spec => []TypeOK
<1>1. Inv => TypeOK
  BY DEF Inv
<1> QED BY <1>1, Invariance, PTL

\* The channels hand over every session exactly once, whichever worker takes it,
\* and whether it is answered, fails, or is lost to a panic.
THEOREM SessionsMoveOnce == Spec => []EachSessionOnce
<1> QED BY InvEachSessionOnce, Invariance, PTL

\* The buffer of results, one place per session, is enough for every worker that
\* has a reply, also when the handler has stopped receiving: no worker leaks.
THEOREM RepliesFit == Spec => []RoomForReplies
<1> QED BY InvRoomForReplies, Invariance, PTL

\* "ok" means all of the sessions, each fetched with a live cookie: the shared
\* flag and the check of errors leave no way for a login form to be taken for one.
THEOREM OkServesEverySession == Spec => []OkIsComplete
<1> QED BY InvOkIsComplete, Invariance, PTL
=============================================================================
