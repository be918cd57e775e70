---------------------------- MODULE SessionStream ----------------------------
(***************************************************************************)
(* What the host page promises a game about the on-chain sessions in its   *)
(* snapshots: a session that has appeared stays, only goes forward, and    *)
(* ends once, with a result that does not change.                          *)
(*                                                                         *)
(* Of a session a game sees the phase and the state of some step.  Step -1 *)
(* is that of a session not shown yet, step 0 of one without a state, and  *)
(* Final of one that is over.  One push may move several sessions.         *)
(***************************************************************************)
EXTENDS Integers

CONSTANTS
  Sessions,
  Final         \* a number beyond every step

VARIABLE stream     \* what was last pushed of every session

Absent == [phase |-> "ABSENT", step |-> -1]
Known == [phase : {"WAITING_RANDOMNESS", "WAITING_PLAYER_ACTION"}, step : 1..(Final - 1)]
Views == {Absent, [phase |-> "OPEN", step |-> 0], [phase |-> "OVER", step |-> Final]} \cup Known

Init == stream = [s \in Sessions |-> Absent]
Push ==
  /\ stream' \in [Sessions -> Views]
  /\ \A s \in Sessions : stream'[s] = stream[s] \/ stream'[s].step > stream[s].step
Spec == Init /\ [][Push]_stream
=============================================================================
