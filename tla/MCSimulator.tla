----------------------------- MODULE MCSimulator -----------------------------
(***************************************************************************)
(* Two parts of the simulator that share no state, one of which runs: the  *)
(* local node with the page that follows its deployment, and the coinflip  *)
(* game in its frame.                                                      *)
(***************************************************************************)
EXTENDS LocalStack, CoinflipGuest

CONSTANT Parts         \* those that are checked

VARIABLE part

MCGamesIn == [r \in Revisions \ Broken |-> IF r = "both" THEN 2 ELSE 1]

\* The folder is empty or holds a file with two games and one that is broken; the
\* page has saved addresses where a file was left as well.
MCInit ==
  /\ part \in Parts /\ StackInit /\ FlipInit
  /\ folder \in {[f \in ContractFiles |-> Missing],
                 [f \in ContractFiles |-> IF f = 1 THEN "both" ELSE "broken"]}
  /\ proxy = file.host
  /\ part = "coinflip" => folder[1] = Missing /\ file = NoFile
Stack(action) == part = "stack" /\ action /\ UNCHANGED <<flipVars, part>>
Coinflip(action) == part = "coinflip" /\ action /\ UNCHANGED <<stackVars, part>>
MCNext == Stack(StackNext) \/ Coinflip(FlipNext)

mcVars == <<stackVars, flipVars, part>>

\* The timers of the node and the promises that it awaits come to their end,
\* if it is not stopped; the page polls for ever, each answer arrives, and
\* every call for a runtime resolves or fails.  Rendering, timers and messages
\* of the coinflip page are not delayed for ever, and its rounds end.
Fairness ==
  /\ WF_mcVars(Stack(NodeStep))
  /\ WF_mcVars(Stack(Poll))
  /\ WF_mcVars(Stack(\E answer \in fetches : Answered(answer)))
  /\ WF_mcVars(Stack(\E call \in pending : Created(call) \/ NotCreated(call)))
  /\ WF_mcVars(Coinflip(Connect)) /\ WF_mcVars(Coinflip(PushChange))
  /\ WF_mcVars(Coinflip(SetState)) /\ WF_mcVars(Coinflip(Landed))
  /\ \A b \in BetIds : WF_mcVars(Coinflip(ShowOpen(b))) /\ WF_mcVars(Coinflip(ShowOver(b)))

MCSpec == MCInit /\ [][MCNext]_mcVars /\ Fairness
=============================================================================
