---------------------------- MODULE MCScrapePool ----------------------------
(* Three sessions and two workers: a worker takes more than one session.   *)
EXTENDS ScrapePool
CONSTANTS w1, w2
MCWorkers == {w1, w2}
=============================================================================
