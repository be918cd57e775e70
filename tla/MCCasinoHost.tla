--------------------------- MODULE MCCasinoHost -----------------------------
(***************************************************************************)
(* CasinoHost for TLC: two players, one game that may misbehave in every   *)
(* way the host must withstand, two sessions of up to two steps.         *)
(***************************************************************************)
EXTENDS CasinoHost, TLC

CONSTANTS p1, p2, g1, gs

Result(delta, reserve, phase, request, payout) ==
  [state |-> gs, escrowDelta |-> delta, reservedDelta |-> reserve,
   phase |-> phase, request |-> request, payout |-> payout]

\* Answers that go on (asking for more stake, giving some back, reserving or
\* releasing profit), answers that end the session with a last change of stake or
\* reserve and payouts up to one above the largest budget, and answers that contradict themselves.
MCStepResults ==
  {Result(d, 1 - d, "WAITING_RANDOMNESS", TRUE, 0) : d \in {0, 1}}
  \cup {Result(d, r, "WAITING_PLAYER_ACTION", FALSE, 0) : d \in {0, 1}, r \in {-1, 1}}
  \cup {Result(0, 0, "SETTLED", FALSE, 0), Result(0, 1, "SETTLED", FALSE, 3),
        Result(1, 0, "SETTLED", FALSE, 4)}
  \cup {Result(-1, 0, "CANCELLED", FALSE, 1),
        Result(0, 0, "WAITING_RANDOMNESS", FALSE, 0)}

MCCapQuotes == {[escrow |-> 2, reserved |-> 1]}

MCInitialBalance ==
  [a \in Accounts |-> IF a = Host THEN 0 ELSE 2]

Symmetry == Permutations(Players)
=============================================================================
