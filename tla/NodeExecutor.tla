---------------------------- MODULE NodeExecutor ----------------------------
(***************************************************************************)
(* What ActorRuntime promises for one node, without its slots, caches,      *)
(* threads and channels: requests are numbered as they are made; at most    *)
(* one is being evaluated; at most one waits, and it is the latest one;     *)
(* results are delivered in the order of the requests.                      *)
(***************************************************************************)
EXTENDS Naturals

VARIABLES
  asked,      \* number of requests made
  waiting,    \* the request that waits, 0 if none
  current,    \* the request being evaluated, 0 if none
  delivered   \* the request of the last result delivered, 0 if none

vars == <<asked, waiting, current, delivered>>

Init == asked = 0 /\ waiting = 0 /\ current = 0 /\ delivered = 0

\* A new request starts at once or waits; an older waiting one is dropped.
Submit ==
  /\ asked' = asked + 1
  /\ \/ current = 0 /\ current' = asked' /\ waiting' = 0
     \/ waiting' = asked' /\ UNCHANGED current
  /\ UNCHANGED delivered

Start ==
  /\ current = 0
  /\ waiting # 0
  /\ current' = waiting
  /\ waiting' = 0
  /\ UNCHANGED <<asked, delivered>>

\* A result is delivered and the waiting request, if any, starts.
Deliver ==
  /\ current # 0
  /\ delivered' = current
  /\ current' = waiting
  /\ waiting' = 0
  /\ UNCHANGED asked

\* What waits is dropped, and perhaps the evaluation's result too.
Cancel ==
  /\ waiting' = 0
  /\ current' \in {0, current}
  /\ UNCHANGED <<asked, delivered>>

Next == Submit \/ Start \/ Deliver \/ Cancel

Spec == Init /\ [][Next]_vars

-----------------------------------------------------------------------------
\* The latest request is the one that waits, and what is evaluated is newer
\* than everything delivered before.
LatestWaits ==
  /\ waiting \in {0, asked}
  /\ current # 0 => delivered < current /\ current <= asked
  /\ waiting # 0 /\ current # 0 => current < waiting
  /\ delivered <= asked
  /\ waiting # 0 => delivered < waiting
=============================================================================
