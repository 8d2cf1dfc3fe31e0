---------------------------- MODULE MCSyncQueue ----------------------------
(* Two producers, one of which also polls and clears, a consumer that      *)
(* waits and one that may also wait with a time limit or not at all; a     *)
(* producer and a consumer may be killed.                                  *)
EXTENDS SyncQueue

CONSTANTS p1, p2, c1, c2

MCProcs == {p1, p2, c1, c2}
MCCalls == [p \in MCProcs |->
              CASE p = p1 -> {"push"}
                [] p = p2 -> {"push", "clear", "is_empty", "pop_try"}
                [] p = c1 -> {"pop_wait"}
                [] p = c2 -> {"pop_wait", "pop_timed_wait", "pop"}]
MCMortal == {p1, c2}
=============================================================================
