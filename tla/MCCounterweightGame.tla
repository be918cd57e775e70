------------------------ MODULE MCCounterweightGame -------------------------
(***************************************************************************)
(* One player and two rounds, a stake of 3 base units (so that the         *)
(* multipliers round), bytes of every payout band, and a vault that can    *)
(* pay some wins but not all of them.                                      *)
(*                                                                         *)
(* Beside them, from the initial state, the probes of the parts that keep  *)
(* no state, among them all 3 * 256 * 2 rounds of the game.                *)
(***************************************************************************)
EXTENDS CounterweightGame, StatelessParts

CONSTANTS p1, g1

MCEntropies == {0, 40, 70}

MCGameStates ==
  {StartState(p) : p \in Presets}
  \cup {RoundState(p, e, d, w) :
          p \in Presets, e \in MCEntropies, d \in Directions, w \in Wagers}
MCStepResults ==
  {SessionStart(w, p) : w \in Wagers, p \in Presets}
  \cup {RandomnessResult(w, StartState(p), e, d) :
          w \in Wagers, p \in Presets, e \in MCEntropies, d \in Directions}
MCCapQuotes == {QuoteCaps(w) : w \in Wagers}
MCInitialBalance ==
  [a \in Accounts |-> IF a = Host THEN 0 ELSE IF a = Vault THEN 12 ELSE 14]

-----------------------------------------------------------------------------
Play(action) == probe = NoProbe /\ action /\ UNCHANGED probe
MCSpec ==
  /\ Init /\ probe = NoProbe
  /\ [][\/ Play(GameNext)
        \/ Init /\ TakeUp /\ UNCHANGED vars
        \/ PutBack /\ UNCHANGED vars]_<<vars, probe>>
  /\ WF_<<vars, probe>>(Play(Mine))
  /\ WF_<<vars, probe>>(Play(\E s \in emitted : CancelRound(s)))
=============================================================================
