-------------------------- MODULE CasinoHostProofs --------------------------
(***************************************************************************)
(* Theorems about CasinoHost, for every set of players, games and wagers,  *)
(* every game, and every number of sessions and steps.                     *)
(*                                                                         *)
(* Every action of the host does one of four things to the records it      *)
(* keeps of sessions: nothing, commit a new snapshot (Continues), settle a *)
(* session (Closes), or settle two (the batch of forfeits).  The lemmas    *)
(* StepCases and NextCases say which, and the invariants follow from that. *)
(***************************************************************************)
EXTENDS CasinoHost, FiniteSetTheorems, TLAPS

-----------------------------------------------------------------------------
(* Balances.                                                               *)

\* Pulling n from a player that has it (or paying -n back from the host's own
\* tokens) leaves every balance a natural number.
LEMMA PulledType ==
  ASSUME NEW bal \in [Accounts -> Nat], NEW p \in Players, NEW n \in Int,
         n > 0 => n <= bal[p], 0 <= bal[Host] + n
  PROVE  Pulled(bal, p, n) \in [Accounts -> Nat]
<1>1. p \in Accounts /\ Host \in Accounts /\ p # Host
  BY HostAssumption DEF Accounts
<1>2. bal[p] \in Nat /\ bal[Host] \in Nat
  BY <1>1
<1>3. bal[p] - n \in Nat /\ bal[Host] + n \in Nat
  BY <1>2
<1>. QED
  BY <1>1, <1>3 DEF Pulled

\* A payment that the host and the vault can afford leaves every balance a
\* natural number.
LEMMA PaidType ==
  ASSUME NEW bal \in [Accounts -> Nat], NEW s \in Session, NEW payout \in Nat,
         CanPay(bal, s, payout)
  PROVE  Paid(bal, s, payout) \in [Accounts -> Nat]
<1>1. /\ s.player \in Players /\ s.escrow \in Nat
      /\ s.player \in Accounts /\ Host \in Accounts /\ Vault \in Accounts
      /\ s.player # Host /\ s.player # Vault
  BY HostAssumption DEF Accounts, Session
<1>2. bal[Host] \in Nat /\ bal[Vault] \in Nat /\ bal[s.player] \in Nat
  BY <1>1
<1>3. bal[Host] - s.escrow \in Nat
  BY <1>1, <1>2 DEF CanPay
<1>4. bal[s.player] + payout \in Nat
  BY <1>2
<1>5. bal[Vault] + s.escrow - payout \in Nat
  BY <1>1, <1>2 DEF CanPay, VaultShare, LesserOf
<1>. QED
  BY <1>1, <1>3, <1>4, <1>5 DEF Paid

\* The 10% cut never makes a forfeit pay more than the session's budget.
LEMMA ForfeitPayoutBounded ==
  ASSUME NEW s \in Session, NEW q \in Nat
  PROVE  ForfeitPayout(s, q) \in Nat /\ ForfeitPayout(s, q) <= MaxPayout(s)
<1>1. s.escrow \in Nat /\ s.reserved \in Nat
  BY DEF Session
<1>. DEFINE x == LesserOf(q, MaxPayout(s))
<1>2. x \in Nat /\ x <= MaxPayout(s) /\ MaxPayout(s) \in Nat
  BY <1>1 DEF LesserOf, MaxPayout
<1>3. (x * 9000) \div 10000 \in Nat /\ (x * 9000) \div 10000 <= x
  BY <1>2
<1>. QED
  BY <1>2, <1>3 DEF ForfeitPayout

\* What the tokens of a player, the host and the vault are after the host pulled
\* n from player p.
LEMMA PulledAmounts ==
  ASSUME NEW bal \in [Accounts -> Nat], NEW p \in Players, NEW n \in Int
  PROVE  /\ Pulled(bal, p, n)[Host] = bal[Host] + n
         /\ Pulled(bal, p, n)[Vault] = bal[Vault]
         /\ \A q \in Players :
              Pulled(bal, p, n)[q] = IF q = p THEN bal[q] - n ELSE bal[q]
<1>1. /\ p \in Accounts /\ Host \in Accounts /\ Vault \in Accounts
      /\ Players \subseteq Accounts
      /\ \A q \in Players : q # Host /\ q # Vault
      /\ Host # Vault
  BY HostAssumption DEF Accounts
<1>. QED
  BY <1>1 DEF Pulled

\* The same after a payment: the whole escrow leaves the host, the vault loses
\* at most the part of the payout above it, and no player loses anything.
LEMMA PaidAmounts ==
  ASSUME NEW bal \in [Accounts -> Nat], NEW s \in Session, NEW payout \in Nat,
         payout <= MaxPayout(s)
  PROVE  /\ Paid(bal, s, payout)[Host] = bal[Host] - s.escrow
         /\ Paid(bal, s, payout)[Vault] >= bal[Vault] - s.reserved
         /\ \A q \in Players : Paid(bal, s, payout)[q] >= bal[q]
<1>1. /\ s.player \in Players /\ s.escrow \in Nat /\ s.reserved \in Nat
      /\ s.player \in Accounts /\ Host \in Accounts /\ Vault \in Accounts
      /\ Players \subseteq Accounts
      /\ \A q \in Players : q # Host /\ q # Vault
      /\ Host # Vault
  BY HostAssumption DEF Accounts, Session
<1>2. \A a \in Accounts : bal[a] \in Nat
  OBVIOUS
<1>3. Paid(bal, s, payout)[Host] = bal[Host] - s.escrow
  BY <1>1 DEF Paid
<1>4. Paid(bal, s, payout)[Vault] = bal[Vault] + s.escrow - payout
  BY <1>1 DEF Paid
<1>5. \A q \in Players :
        Paid(bal, s, payout)[q] = IF q = s.player THEN bal[q] + payout ELSE bal[q]
  BY <1>1 DEF Paid
<1>6. bal[Vault] + s.escrow - payout >= bal[Vault] - s.reserved
  BY <1>1, <1>2 DEF MaxPayout
<1>7. \A q \in Players : bal[q] \in Nat
  BY <1>1, <1>2
<1>. QED
  BY <1>3, <1>4, <1>5, <1>6, <1>7

-----------------------------------------------------------------------------
(* Totals.                                                                 *)

\* One more entry adds its units to the total.
LEMMA TotalGains ==
  ASSUME NEW a, NEW b, NEW i, i \notin DOMAIN a,
         DOMAIN b = DOMAIN a \cup {i},
         \A j \in DOMAIN a : b[j] = a[j],
         b[i] \in Nat
  PROVE  /\ IsFiniteSet(Units(a)) <=> IsFiniteSet(Units(b))
         /\ IsFiniteSet(Units(a)) => Total(b) = Total(a) + b[i]
<1>. DEFINE U == {i} \X (1..b[i])
<1>1. /\ Units(b) = Units(a) \cup U
      /\ Units(a) \cap U = {}
      /\ Units(a) \subseteq Units(b)
  <2>1. \A u : u \in Units(a) <=> \E j \in DOMAIN a : u \in {j} \X (1..a[j])
    BY DEF Units
  <2>2. \A u : u \in Units(b) <=> \E j \in DOMAIN b : u \in {j} \X (1..b[j])
    BY DEF Units
  <2>3. \A u : u \in Units(b) <=> (u \in Units(a) \/ u \in U)
    BY <2>1, <2>2
  <2>4. \A u : ~(u \in Units(a) /\ u \in U)
    BY <2>1
  <2>. QED
    BY <2>3, <2>4
<1>2. IsFiniteSet(U) /\ Cardinality(U) = b[i]
  <2>1. IsFiniteSet({i}) /\ Cardinality({i}) = 1
    BY FS_Singleton
  <2>2. IsFiniteSet(1..b[i]) /\ Cardinality(1..b[i]) = b[i]
    BY FS_Interval
  <2>3. /\ IsFiniteSet(U)
        /\ Cardinality(U) = Cardinality({i}) * Cardinality(1..b[i])
    <3>. HIDE DEF U
    <3>1. U = {i} \X (1..b[i])
      BY DEF U
    <3>. QED
      BY ONLY <2>1, <2>2, <3>1, FS_Product
  <2>. QED
    BY <2>1, <2>2, <2>3
<1>3. ASSUME IsFiniteSet(Units(a))
      PROVE  IsFiniteSet(Units(b)) /\ Total(b) = Total(a) + b[i]
  <2>1. /\ IsFiniteSet(Units(a) \cup U)
        /\ Cardinality(Units(a) \cup U)
             = Cardinality(Units(a)) + Cardinality(U) - Cardinality(Units(a) \cap U)
    BY <1>2, <1>3, FS_Union
  <2>2. Cardinality(Units(a) \cap U) = 0 /\ Cardinality(Units(a)) \in Nat
    BY <1>1, <1>3, FS_EmptySet, FS_CardinalityType
  <2>. QED
    BY <1>1, <1>2, <2>1, <2>2 DEF Total
<1>4. ASSUME IsFiniteSet(Units(b)) PROVE IsFiniteSet(Units(a))
  BY <1>1, <1>4, FS_Subset
<1>. QED
  BY <1>3, <1>4

\* Nothing has a total of nothing.
LEMMA TotalNone ==
  ASSUME NEW a, DOMAIN a = {}
  PROVE  IsFiniteSet(Units(a)) /\ Total(a) = 0
<1>1. Units(a) = {}
  BY DEF Units
<1>. QED
  BY <1>1, FS_EmptySet DEF Total

\* The stakes behind commitments c, and that of one commitment.
StakesIn(c) == [i \in {j \in SessionIds : c[j] # NoSession} |-> c[i].escrow]
StakeOf(s) == IF s = NoSession THEN 0 ELSE s.escrow

Recommitted(c, id, s) == [c EXCEPT ![id] = s]

\* Replacing one commitment replaces its stake in the total.
LEMMA TotalReplaced ==
  ASSUME NEW c \in [SessionIds -> Session \cup {NoSession}],
         NEW id \in SessionIds, NEW s \in Session \cup {NoSession},
         IsFiniteSet(Units(StakesIn(c)))
  PROVE  /\ IsFiniteSet(Units(StakesIn(Recommitted(c, id, s))))
         /\ Total(StakesIn(Recommitted(c, id, s)))
              = Total(StakesIn(c)) - StakeOf(c[id]) + StakeOf(s)
<1>. DEFINE d == Recommitted(c, id, s)
            none == [c EXCEPT ![id] = NoSession]
            rest == StakesIn(none)
<1>1. \A j \in SessionIds :
        /\ d[j] = IF j = id THEN s ELSE c[j]
        /\ none[j] = IF j = id THEN NoSession ELSE c[j]
  BY DEF Recommitted
<1>2. /\ DOMAIN rest = {j \in SessionIds : j # id /\ c[j] # NoSession}
      /\ id \notin DOMAIN rest
      /\ \A j \in DOMAIN rest : rest[j] = c[j].escrow
  BY <1>1 DEF StakesIn
<1>3. ASSUME NEW e \in [SessionIds -> Session \cup {NoSession}],
             \A j \in SessionIds : j # id => e[j] = c[j]
      PROVE  /\ IsFiniteSet(Units(rest)) <=> IsFiniteSet(Units(StakesIn(e)))
             /\ IsFiniteSet(Units(rest))
                  => /\ Total(StakesIn(e)) = Total(rest) + StakeOf(e[id])
                     /\ StakeOf(e[id]) \in Nat
  <2>1. CASE e[id] = NoSession
    <3>1. StakesIn(e) = rest
      BY <1>1, <1>3, <2>1 DEF StakesIn
    <3>2. IsFiniteSet(Units(rest)) => Total(rest) \in Nat
      BY FS_CardinalityType DEF Total
    <3>. QED
      BY <2>1, <3>1, <3>2 DEF StakeOf
  <2>2. CASE e[id] # NoSession
    <3>1. e[id] \in Session /\ e[id].escrow \in Nat
      BY <2>2 DEF Session
    <3>2. /\ DOMAIN StakesIn(e) = DOMAIN rest \cup {id}
          /\ \A j \in DOMAIN rest : StakesIn(e)[j] = rest[j]
          /\ StakesIn(e)[id] = e[id].escrow
      BY <1>2, <1>3, <2>2 DEF StakesIn
    <3>3. /\ IsFiniteSet(Units(rest)) <=> IsFiniteSet(Units(StakesIn(e)))
          /\ IsFiniteSet(Units(rest))
               => Total(StakesIn(e)) = Total(rest) + StakesIn(e)[id]
      <4>1. StakesIn(e)[id] \in Nat
        BY <3>1, <3>2
      <4>2. id \notin DOMAIN rest
        BY <1>2
      <4>. DEFINE b == StakesIn(e)
      <4>3. /\ DOMAIN b = DOMAIN rest \cup {id}
            /\ \A j \in DOMAIN rest : b[j] = rest[j]
            /\ b[id] \in Nat
        BY <3>2, <4>1
      <4>. HIDE DEF rest, b
      <4>4. /\ IsFiniteSet(Units(rest)) <=> IsFiniteSet(Units(b))
            /\ IsFiniteSet(Units(rest)) => Total(b) = Total(rest) + b[id]
        BY ONLY <4>2, <4>3, TotalGains
      <4>. QED
        BY <4>4 DEF b
    <3>. QED
      BY <2>2, <3>1, <3>2, <3>3 DEF StakeOf
  <2>. QED
    BY <2>1, <2>2
<1>4. /\ IsFiniteSet(Units(rest))
      /\ Total(StakesIn(c)) = Total(rest) + StakeOf(c[id])
      /\ StakeOf(c[id]) \in Nat
  BY <1>3
<1>5. /\ IsFiniteSet(Units(StakesIn(d)))
      /\ Total(StakesIn(d)) = Total(rest) + StakeOf(s)
      /\ StakeOf(s) \in Nat
  <2>1. d \in [SessionIds -> Session \cup {NoSession}] /\ d[id] = s
    BY DEF Recommitted
  <2>. HIDE DEF d, rest
  <2>. QED
    BY <1>1, <1>3, <1>4, <2>1
<1>6. Total(rest) \in Nat
  BY <1>4, FS_CardinalityType DEF Total
<1>. QED
  BY <1>4, <1>5, <1>6

-----------------------------------------------------------------------------
(* What a step of a game does to one session.                              *)

\* `held' is what the host held of the session's stake before the step.
Continues(next, held) ==
  /\ next \in Session
  /\ next.phase \in WaitingPhases
  /\ WithinCaps(next)
  /\ commitment' = [commitment EXCEPT ![next.id] = next]
  /\ emitted' = emitted \cup {next}
  /\ settlements' = settlements
  /\ balance'[Host] = balance[Host] + next.escrow - held
  /\ balance'[Vault] = balance[Vault]

Closes(t, phase, payout, held) ==
  /\ t \in Session
  /\ phase \in TerminalPhases
  /\ payout \in Nat
  /\ WithinCaps(t)
  /\ payout <= MaxPayout(t)
  /\ commitment' = Deleted(commitment, t)
  /\ settlements' = Logged(settlements, t, phase, payout)
  /\ emitted' = emitted
  /\ balance'[Host] = balance[Host] - held
  /\ balance'[Vault] >= balance[Vault] - t.maxReserved

\* The session of player p of which the host held `held' and that was at `step'
\* goes on or ends.
ContinuesOrCloses(p, id, step, held) ==
  \/ \E next : /\ Continues(next, held)
               /\ step < MaxStep
               /\ next.id = id /\ next.step = step + 1 /\ next.player = p
  \/ \E t, phase, payout : /\ Closes(t, phase, payout, held)
                           /\ t.id = id /\ t.player = p

\* No player but p has less after the step, and p only where it may be charged.
ChargesOnly(p, may) ==
  \A q \in Players : balance'[q] < balance[q] => q = p /\ may

\* A result that the host accepts leaves well-typed balances and allowances,
\* and either commits the session's next snapshot or settles the session.  The
\* step starts from `bal': what the host got beyond its balance is the part of
\* the session's escrow that it did not hold yet.
LEMMA StepCases ==
  ASSUME NEW s \in Session, NEW r \in StepResults, NEW allow \in BOOLEAN,
         NEW bal \in [Accounts -> Nat], NEW alw \in [Players -> Nat],
         NEW held \in Nat,
         block \in Nat, balance \in [Accounts -> Nat],
         bal[Host] = balance[Host] + s.escrow - held,
         bal[Vault] = balance[Vault],
         \A q \in Players : bal[q] < balance[q] => q = s.player /\ allow,
         ProcessStepResult(s, r, allow, bal, alw)
  PROVE  /\ balance' \in [Accounts -> Nat]
         /\ allowance' \in [Players -> Nat]
         /\ ContinuesOrCloses(s.player, s.id, s.step, held)
         /\ ChargesOnly(s.player, allow)
<1>. DEFINE t == Stepped(s, r)
            moved == Pulled(bal, s.player, r.escrowDelta)
<1>1. /\ r \in StepResult
      /\ r.escrowDelta \in Int /\ r.reservedDelta \in Int
      /\ r.phase \in Phases /\ r.payout \in Nat /\ r.state \in GameStates
  BY HostAssumption DEF StepResult
<1>2. /\ s.escrow \in Nat /\ s.reserved \in Nat /\ s.step \in Nat
      /\ s.player \in Players
  BY DEF Session
<1>2a. /\ Host \in Accounts /\ Vault \in Accounts /\ Players \subseteq Accounts
       /\ balance[Host] \in Nat /\ balance[Vault] \in Nat
       /\ \A q \in Players : balance[q] \in Nat /\ bal[q] \in Nat
  BY DEF Accounts
<1>3. /\ s.step < MaxStep
      /\ DeltasAllowed(s, r, allow, bal, alw)
      /\ WithinCaps(t)
      /\ allowance' = Spent(alw, s.player, r.escrowDelta)
      /\ Await(t, r, moved) \/ Terminate(t, r, moved)
  BY DEF ProcessStepResult
<1>4. /\ t \in Session /\ t.id = s.id /\ t.step = s.step + 1
      /\ t.player = s.player /\ t.escrow = s.escrow + r.escrowDelta
  <2>1. /\ s.escrow + r.escrowDelta \in Nat
        /\ s.reserved + r.reservedDelta \in Nat
        /\ s.step + 1 \in Nat
    BY <1>1, <1>2, <1>3 DEF DeltasAllowed
  <2>. QED
    BY <1>1, <2>1 DEF Stepped, Session
<1>5. moved \in [Accounts -> Nat]
  BY <1>1, <1>2, <1>3, PulledType DEF DeltasAllowed, CanPull
<1>6. allowance' \in [Players -> Nat]
  BY <1>1, <1>2, <1>3 DEF DeltasAllowed, CanPull, Spent
<1>6a. /\ moved[Host] = balance[Host] + t.escrow - held
       /\ moved[Vault] = balance[Vault]
  BY <1>1, <1>2, <1>2a, <1>4, PulledAmounts
<1>6b. \A q \in Players :
         moved[q] \in Nat /\ (moved[q] < balance[q] => q = s.player /\ allow)
  <2>. SUFFICES ASSUME NEW q \in Players
                PROVE  /\ moved[q] \in Nat
                       /\ moved[q] < balance[q] => q = s.player /\ allow
    OBVIOUS
  <2>1. moved[q] = IF q = s.player THEN bal[q] - r.escrowDelta ELSE bal[q]
    BY <1>1, <1>2, PulledAmounts
  <2>2. moved[q] \in Nat
    BY <1>2a, <1>5
  <2>3. CASE r.escrowDelta > 0
    BY <1>2a, <1>3, <2>1, <2>2, <2>3 DEF DeltasAllowed
  <2>4. CASE ~(r.escrowDelta > 0)
    <3>1. moved[q] >= bal[q]
      BY <1>1, <1>2a, <2>1, <2>4
    <3>. QED
      BY <1>2a, <2>2, <3>1
  <2>. QED
    BY <2>3, <2>4
<1>7. CASE Await(t, r, moved)
  <2>. DEFINE next == [t EXCEPT !.phase = r.phase,
                                !.deadline = block + Timeout(r.phase)]
  <2>1. /\ next \in Session /\ next.phase = r.phase
        /\ next.id = t.id /\ next.step = t.step /\ next.player = t.player
        /\ next.escrow = t.escrow /\ next.maxEscrow = t.maxEscrow
        /\ next.reserved = t.reserved /\ next.maxReserved = t.maxReserved
    <3>1. block + Timeout(r.phase) \in Nat
      BY HostAssumption DEF Timeout
    <3>. QED
      BY <1>1, <1>4, <3>1 DEF Session
  <2>2. balance' = moved
    BY <1>7 DEF Await
  <2>3. Continues(next, held)
    BY <1>3, <1>6a, <1>7, <2>1, <2>2 DEF Continues, Await, WithinCaps
  <2>4. ChargesOnly(s.player, allow)
    BY <1>6b, <2>2 DEF ChargesOnly
  <2>. QED
    BY <1>3, <1>4, <1>5, <1>6, <2>1, <2>2, <2>3, <2>4 DEF ContinuesOrCloses
<1>8. CASE Terminate(t, r, moved)
  <2>1. /\ r.payout <= MaxPayout(t) /\ CanPay(moved, t, r.payout)
        /\ balance' = Paid(moved, t, r.payout)
        /\ commitment' = Deleted(commitment, t)
        /\ settlements' = Logged(settlements, t, r.phase, r.payout)
        /\ emitted' = emitted /\ r.phase \in TerminalPhases
    BY <1>8 DEF Terminate, Finalize
  <2>2. balance' \in [Accounts -> Nat]
    BY <1>1, <1>4, <1>5, <2>1, PaidType
  <2>3. /\ balance'[Host] = moved[Host] - t.escrow
        /\ balance'[Vault] >= moved[Vault] - t.reserved
        /\ \A q \in Players : balance'[q] >= moved[q]
    BY <1>1, <1>4, <1>5, <2>1, PaidAmounts
  <2>4. Closes(t, r.phase, r.payout, held)
    <3>1. /\ t.escrow \in Nat /\ t.reserved \in Nat /\ t.maxReserved \in Nat
          /\ t.reserved <= t.maxReserved /\ balance'[Vault] \in Nat
      BY <1>2a, <1>3, <1>4, <2>2 DEF Session, WithinCaps
    <3>2. /\ balance'[Host] = balance[Host] - held
          /\ balance'[Vault] >= balance[Vault] - t.maxReserved
      BY <1>2a, <1>6a, <2>3, <3>1
    <3>. QED
      BY <1>1, <1>3, <1>4, <2>1, <3>2 DEF Closes
  <2>5. ChargesOnly(s.player, allow)
    <3>1. \A q \in Players : balance'[q] \in Nat
      BY <1>2a, <2>2
    <3>. QED
      BY <1>2a, <1>6b, <2>3, <3>1 DEF ChargesOnly
  <2>. QED
    BY <1>4, <1>6, <2>2, <2>4, <2>5 DEF ContinuesOrCloses
<1>. QED
  BY <1>3, <1>7, <1>8

-----------------------------------------------------------------------------
(* What an action of the host does to the records of all sessions.         *)

Quiet ==
  /\ UNCHANGED <<lastId, commitment, emitted, settlements>>
  /\ balance'[Host] >= balance[Host] /\ balance'[Vault] >= balance[Vault]
  /\ \A p \in Players : balance'[p] < balance[p] => TransfersOwn(p)

Opens ==
  /\ lastId' = lastId + 1
  /\ lastId' \in SessionIds
  /\ \E p \in Players : /\ ContinuesOrCloses(p, lastId + 1, 0, 0)
                        /\ ChargesOnly(p, TRUE)

Advances ==
  /\ lastId' = lastId
  /\ \E s \in emitted :
       /\ Loads(commitment, s)
       /\ ContinuesOrCloses(s.player, s.id, s.step, s.escrow)
       /\ ChargesOnly(s.player, s.phase = "WAITING_PLAYER_ACTION")

ClosesTwo ==
  /\ lastId' = lastId
  /\ emitted' = emitted
  /\ \E s, t \in emitted, payS, payT \in Nat :
       /\ Loads(commitment, s) /\ Loads(commitment, t) /\ s.id # t.id
       /\ payS <= MaxPayout(s) /\ payT <= MaxPayout(t)
       /\ commitment' = Deleted(Deleted(commitment, s), t)
       /\ settlements' = Logged(Logged(settlements, s, "FORFEITED", payS),
                                t, "FORFEITED", payT)
       /\ balance'[Host] = balance[Host] - s.escrow - t.escrow
       /\ balance'[Vault] >= balance[Vault] - s.maxReserved - t.maxReserved
  /\ \A q \in Players : balance'[q] >= balance[q]

\* Every action keeps the scalar state well typed and is one of those four.
LEMMA NextCases ==
  ASSUME TypeOK, LiveWellFormed, Next
  PROVE  /\ block' \in Nat
         /\ registered' \subseteq Games
         /\ balance' \in [Accounts -> Nat]
         /\ allowance' \in [Players -> Nat]
         /\ Quiet \/ Opens \/ Advances \/ ClosesTwo
<1>. DEFINE Scalars == /\ block' \in Nat
                       /\ registered' \subseteq Games
                       /\ balance' \in [Accounts -> Nat]
                       /\ allowance' \in [Players -> Nat]
            Goal == Scalars /\ (Quiet \/ Opens \/ Advances \/ ClosesTwo)
<1>0. /\ block \in Nat /\ registered \subseteq Games /\ lastId \in 0..MaxSessions
      /\ balance \in [Accounts -> Nat] /\ allowance \in [Players -> Nat]
      /\ emitted \subseteq Session
      /\ commitment \in [SessionIds -> Session \cup {NoSession}]
  BY DEF TypeOK
<1>00. ASSUME NEW s \in emitted, Loads(commitment, s)
       PROVE  /\ s \in Session /\ s.id \in SessionIds /\ WithinCaps(s)
              /\ s.escrow \in Nat /\ s.reserved \in Nat /\ s.maxReserved \in Nat
              /\ s.reserved <= s.maxReserved
  <2>1. /\ s \in Session /\ s.id \in SessionIds
        /\ s.escrow \in Nat /\ s.reserved \in Nat /\ s.maxReserved \in Nat
    BY <1>0 DEF Session
  <2>2. commitment[s.id] = s /\ s # NoSession
    BY <1>00, <2>1, HostAssumption DEF Loads
  <2>3. WithinCaps(s)
    BY <2>1, <2>2 DEF LiveWellFormed, Live
  <2>. QED
    BY <2>1, <2>3 DEF WithinCaps
<1>0a. /\ Host \in Accounts /\ Vault \in Accounts /\ Players \subseteq Accounts
       /\ \A q \in Players : q # Host /\ q # Vault
       /\ Host # Vault
       /\ balance[Host] \in Nat /\ balance[Vault] \in Nat
       /\ \A q \in Players : balance[q] \in Nat
  BY <1>0, HostAssumption DEF Accounts
<1>1. ASSUME NEW g \in Games, NEW named \in BOOLEAN, RegisterGame(g, named)
      PROVE  Goal
  BY <1>0, <1>0a, <1>1 DEF RegisterGame, Quiet
<1>2. ASSUME NEW p \in Players, NEW n \in Approvals, Approve(p, n)
      PROVE  Goal
  BY <1>0, <1>0a, <1>2, HostAssumption DEF Approve, Quiet
<1>3. ASSUME NEW a \in Accounts, NEW n \in Amounts, Mint(a, n)
      PROVE  Goal
  <2>1. n \in Nat /\ balance[a] + n \in Nat
    BY <1>0, HostAssumption
  <2>2. /\ balance' = [balance EXCEPT ![a] = @ + n]
        /\ UNCHANGED <<block, registered, allowance, lastId, commitment, emitted,
                       settlements>>
    BY <1>3 DEF Mint
  <2>3. /\ balance'[Host] >= balance[Host] /\ balance'[Vault] >= balance[Vault]
        /\ \A q \in Players : ~(balance'[q] < balance[q])
    BY <1>0, <1>0a, <2>1, <2>2
  <2>. QED
    BY <1>0, <2>1, <2>2, <2>3 DEF Quiet
<1>3a. ASSUME NEW p \in Players, NEW a \in Accounts, NEW n \in Amounts,
              Transfer(p, a, n)
       PROVE  Goal
  <2>1. n \in Nat /\ n <= balance[p] /\ p \in Accounts /\ p # Host /\ p # Vault
    BY <1>0a, <1>3a, HostAssumption DEF Transfer
  <2>. DEFINE sent == [balance EXCEPT ![p] = @ - n]
  <2>2. /\ balance' = [sent EXCEPT ![a] = @ + n]
        /\ UNCHANGED <<block, registered, allowance, lastId, commitment, emitted,
                       settlements>>
    BY <1>3a DEF Transfer
  <2>3. /\ sent \in [Accounts -> Nat]
        /\ \A q \in Accounts : q # p => sent[q] = balance[q]
    BY <1>0, <2>1
  <2>5. /\ balance' \in [Accounts -> Nat]
        /\ \A q \in Accounts : q # p => balance'[q] >= balance[q]
    <3>. HIDE DEF sent
    <3>. QED
      BY <1>0, <2>1, <2>2, <2>3
  <2>6. TransfersOwn(p)
    BY <1>3a DEF TransfersOwn
  <2>7. /\ balance'[Host] >= balance[Host] /\ balance'[Vault] >= balance[Vault]
        /\ \A q \in Players : balance'[q] < balance[q] => TransfersOwn(q)
    <3>1. \A q \in Players : q # p => ~(balance'[q] < balance[q])
      BY <1>0, <1>0a, <2>5
    <3>2. balance'[Host] >= balance[Host] /\ balance'[Vault] >= balance[Vault]
      BY <1>0a, <2>1, <2>5
    <3>. QED
      BY <2>6, <3>1, <3>2
  <2>. QED
    BY <1>0, <2>2, <2>5, <2>7 DEF Quiet
<1>4. ASSUME Mine PROVE Goal
  BY <1>0, <1>0a, <1>4 DEF Mine, Quiet
<1>5. ASSUME NEW p \in Players, NEW g \in Games, NEW w \in Wagers,
             NEW c \in CapQuotes, NEW r \in StepResults,
             OpenSession(p, g, w, c, r)
      PROVE  Goal
  <2>. DEFINE s == Opened(p, g, w, c, r.state)
              bal == Pulled(balance, p, w)
              alw == Spent(allowance, p, w)
  <2>1. /\ lastId' = lastId + 1 /\ lastId < MaxSessions
        /\ block' = block /\ registered' = registered
        /\ w > 0 /\ CanPull(balance, allowance, p, w)
        /\ ProcessStepResult(s, r, TRUE, bal, alw)
    BY <1>5, Zenon DEF OpenSession
  <2>1a. lastId' \in SessionIds
    BY <1>0, <2>1, HostAssumption DEF SessionIds
  <2>2. w \in Nat /\ c \in CapQuote /\ r.state \in GameStates
    BY HostAssumption DEF StepResult
  <2>3. /\ s \in Session /\ s.id = lastId + 1 /\ s.step = 0 /\ s.player = p
        /\ s.escrow = w
    BY <1>0, <2>1, <2>1a, <2>2 DEF Opened, Session, CapQuote, Phases
  <2>4. bal \in [Accounts -> Nat]
    <3>1. Host \in Accounts /\ balance[Host] \in Nat
      BY <1>0 DEF Accounts
    <3>. QED
      BY <1>0, <2>1, <2>2, <3>1, PulledType DEF CanPull
  <2>5. alw \in [Players -> Nat]
    BY <1>0, <2>1, <2>2 DEF CanPull, Spent
  <2>5a. /\ bal[Host] = balance[Host] + s.escrow - 0
         /\ bal[Vault] = balance[Vault]
         /\ \A q \in Players : bal[q] < balance[q] => q = s.player /\ TRUE
    <3>1. /\ bal[Host] = balance[Host] + w
          /\ bal[Vault] = balance[Vault]
          /\ \A q \in Players :
               bal[q] = IF q = p THEN balance[q] - w ELSE balance[q]
      BY <1>0, <2>2, PulledAmounts
    <3>. HIDE DEF s, bal
    <3>. QED
      BY <1>0a, <2>2, <2>3, <3>1
  <2>6. /\ balance' \in [Accounts -> Nat] /\ allowance' \in [Players -> Nat]
        /\ ContinuesOrCloses(p, lastId + 1, 0, 0) /\ ChargesOnly(p, TRUE)
    <3>1. ASSUME NEW allow \in BOOLEAN, allow = TRUE
          PROVE  /\ balance' \in [Accounts -> Nat]
                 /\ allowance' \in [Players -> Nat]
                 /\ ContinuesOrCloses(s.player, s.id, s.step, 0)
                 /\ ChargesOnly(s.player, allow)
      <4>1. ProcessStepResult(s, r, allow, bal, alw)
        BY <2>1, <3>1
      <4>2. \A q \in Players : bal[q] < balance[q] => q = s.player /\ allow
        BY <2>5a, <3>1
      <4>. HIDE DEF s, bal, alw
      <4>. QED
        BY <1>0, <2>3, <2>4, <2>5, <2>5a, <4>1, <4>2, StepCases
    <3>. HIDE DEF s
    <3>. QED
      BY <2>3, <3>1
  <2>. QED
    BY <1>0, <2>1, <2>1a, <2>6 DEF Opens
<1>6. ASSUME NEW s \in emitted, NEW r \in StepResults, NEW allow \in BOOLEAN,
             Loads(commitment, s),
             allow => s.phase = "WAITING_PLAYER_ACTION",
             ProcessStepResult(s, r, allow, balance, allowance),
             UNCHANGED <<block, registered, lastId>>
      PROVE  Goal
  <2>1. /\ s \in Session /\ s.escrow \in Nat
        /\ balance[Host] = balance[Host] + s.escrow - s.escrow
        /\ \A q \in Players : ~(balance[q] < balance[q])
    BY <1>00, <1>0a, <1>6
  <2>2. /\ balance' \in [Accounts -> Nat] /\ allowance' \in [Players -> Nat]
        /\ ContinuesOrCloses(s.player, s.id, s.step, s.escrow)
        /\ ChargesOnly(s.player, allow)
    BY <1>0, <1>6, <2>1, StepCases
  <2>3. ChargesOnly(s.player, s.phase = "WAITING_PLAYER_ACTION")
    BY <1>6, <2>2 DEF ChargesOnly
  <2>. QED
    BY <1>0, <1>6, <2>2, <2>3 DEF Advances
<1>7. ASSUME NEW s \in emitted, NEW phase \in TerminalPhases,
             NEW payout \in Nat, Loads(commitment, s),
             Finalize(s, phase, payout, balance),
             UNCHANGED <<block, registered, lastId, allowance>>
      PROVE  Goal
  <2>1. /\ s \in Session /\ WithinCaps(s) /\ s.escrow \in Nat
        /\ s.reserved \in Nat /\ s.maxReserved \in Nat
        /\ s.reserved <= s.maxReserved
    BY <1>00, <1>7
  <2>2. /\ payout <= MaxPayout(s) /\ CanPay(balance, s, payout)
        /\ balance' = Paid(balance, s, payout)
        /\ commitment' = Deleted(commitment, s)
        /\ settlements' = Logged(settlements, s, phase, payout)
        /\ emitted' = emitted
    BY <1>7 DEF Finalize
  <2>3. balance' \in [Accounts -> Nat]
    BY <1>0, <2>1, <2>2, PaidType
  <2>4. /\ balance'[Host] = balance[Host] - s.escrow
        /\ balance'[Vault] >= balance[Vault] - s.reserved
        /\ \A q \in Players : balance'[q] >= balance[q]
    BY <1>0, <2>1, <2>2, PaidAmounts
  <2>5. balance'[Vault] >= balance[Vault] - s.maxReserved
    BY <1>0a, <2>1, <2>3, <2>4
  <2>6. Closes(s, phase, payout, s.escrow)
    BY <2>1, <2>2, <2>4, <2>5 DEF Closes
  <2>7. ChargesOnly(s.player, s.phase = "WAITING_PLAYER_ACTION")
    BY <1>0a, <2>3, <2>4 DEF ChargesOnly
  <2>. QED
    BY <1>0, <1>7, <2>3, <2>6, <2>7 DEF Advances, ContinuesOrCloses
<1>8. ASSUME NEW p \in Players, NEW s \in emitted, NEW r \in StepResults,
             SubmitAction(p, s, r)
      PROVE  Goal
  BY <1>6, <1>8 DEF SubmitAction
<1>9. ASSUME NEW s \in emitted, NEW r \in StepResults,
             OnRandomnessFulfilled(s, r)
      PROVE  Goal
  BY <1>6, <1>9 DEF OnRandomnessFulfilled
<1>10. ASSUME NEW s \in emitted, CancelStuckRandomness(s)
       PROVE  Goal
  <2>1. s.escrow \in Nat
    BY <1>0 DEF Session
  <2>. QED
    BY <1>7, <1>10, <2>1 DEF CancelStuckRandomness, TerminalPhases
<1>11. ASSUME NEW s \in emitted, NEW q \in ForfeitQuotes,
              ForfeitExpiredSession(s, q)
       PROVE  Goal
  <2>1. ForfeitPayout(s, q) \in Nat
    BY <1>0, HostAssumption, ForfeitPayoutBounded
  <2>. QED
    BY <1>7, <1>11, <2>1 DEF ForfeitExpiredSession, Forfeitable, TerminalPhases
<1>12. ASSUME NEW s \in emitted, NEW t \in emitted,
              NEW q \in ForfeitQuotes, NEW u \in ForfeitQuotes,
              ForfeitExpiredSessions(s, q, t, u)
       PROVE  Goal
  <2>. DEFINE payS == ForfeitPayout(s, q)
              payT == ForfeitPayout(t, u)
              live == Deleted(commitment, s)
              bal == Paid(balance, s, payS)
  <2>1. /\ s \in Session /\ t \in Session
        /\ s.id \in SessionIds /\ t.id \in SessionIds
        /\ payS \in Nat /\ payT \in Nat
    BY <1>0, HostAssumption, ForfeitPayoutBounded DEF Session
  <2>2. /\ Loads(commitment, s) /\ Loads(live, t)
        /\ payS <= MaxPayout(s) /\ payT <= MaxPayout(t)
        /\ CanPay(balance, s, payS) /\ CanPay(bal, t, payT)
        /\ commitment' = Deleted(live, t)
        /\ settlements' = Logged(Logged(settlements, s, "FORFEITED", payS),
                                 t, "FORFEITED", payT)
        /\ balance' = Paid(bal, t, payT)
        /\ UNCHANGED <<block, registered, lastId, allowance, emitted>>
    BY <1>12 DEF ForfeitExpiredSessions, Forfeitable
  <2>3. s.id # t.id /\ Loads(commitment, t)
    BY <1>0, <2>1, <2>2, HostAssumption DEF Loads, Deleted
  <2>4. bal \in [Accounts -> Nat]
    BY <1>0, <2>1, <2>2, PaidType
  <2>5. balance' \in [Accounts -> Nat]
    BY <2>1, <2>2, <2>4, PaidType
  <2>6. /\ bal[Host] = balance[Host] - s.escrow
        /\ bal[Vault] >= balance[Vault] - s.reserved
        /\ \A p \in Players : bal[p] >= balance[p]
    BY <1>0, <2>1, <2>2, PaidAmounts
  <2>7. /\ balance'[Host] = bal[Host] - t.escrow
        /\ balance'[Vault] >= bal[Vault] - t.reserved
        /\ \A p \in Players : balance'[p] >= bal[p]
    BY <2>1, <2>2, <2>4, PaidAmounts
  <2>8. /\ balance'[Host] = balance[Host] - s.escrow - t.escrow
        /\ balance'[Vault] >= balance[Vault] - s.maxReserved - t.maxReserved
        /\ \A p \in Players : balance'[p] >= balance[p]
    <3>1. /\ bal[Vault] \in Nat /\ balance'[Vault] \in Nat
          /\ \A p \in Players : bal[p] \in Nat /\ balance'[p] \in Nat
      BY <1>0a, <2>4, <2>5
    <3>2. /\ s.reserved \in Nat /\ s.maxReserved \in Nat
          /\ t.reserved \in Nat /\ t.maxReserved \in Nat
          /\ s.reserved <= s.maxReserved /\ t.reserved <= t.maxReserved
      BY <1>00, <2>2, <2>3
    <3>3. balance'[Vault] >= balance[Vault] - s.maxReserved - t.maxReserved
      BY <1>0a, <2>6, <2>7, <3>1, <3>2
    <3>4. \A p \in Players : balance'[p] >= balance[p]
      BY <1>0a, <2>6, <2>7, <3>1
    <3>. QED
      BY <2>6, <2>7, <3>3, <3>4
  <2>. HIDE DEF payS, payT, live, bal
  <2>9. commitment' = Deleted(Deleted(commitment, s), t)
    BY <2>2 DEF live
  <2>. QED
    BY <1>0, <2>1, <2>2, <2>3, <2>5, <2>8, <2>9 DEF ClosesTwo
<1>. QED
  BY <1>1, <1>2, <1>3, <1>3a, <1>4, <1>5, <1>8, <1>9, <1>10, <1>11, <1>12 DEF Next

-----------------------------------------------------------------------------
(* The inductive invariant.                                                *)

LEMMA InitInv == Init => IInv
<1>. SUFFICES ASSUME Init PROVE IInv
  OBVIOUS
<1>1. TypeOK
  BY HostAssumption DEF Init, TypeOK, Settlement
<1>2. Live = {} /\ emitted = {} /\ lastId = 0
  BY DEF Init, Live
<1>3. SettledExactlyOnce /\ PaidWithinCaps
  BY <1>2 DEF Init, SettledExactlyOnce, PaidWithinCaps, SessionIds
<1>4. StakesCounted
  <2>1. DOMAIN Stakes = {}
    BY <1>2 DEF Stakes
  <2>. QED
    BY <2>1, TotalNone, HostAssumption
       DEF Init, StakesCounted, EscrowBacked, Accounts
<1>. QED
  BY <1>1, <1>2, <1>3, <1>4
     DEF IInv, LiveWellFormed, EmittedOpened, OnlyNewestSnapshotLoads

\* The session ids up to the new lastId, other than id, are the old ones.
OldIds(id) ==
  /\ lastId' \in 0..MaxSessions /\ lastId <= lastId' /\ id <= lastId'
  /\ \A i \in SessionIds : (i # id /\ i <= lastId') => i <= lastId

\* Committing a snapshot that is newer than all others of its session, which
\* has not been settled, preserves what is said about the session records.
LEMMA ContinuesKeeps ==
  ASSUME IInv, NEW next, NEW held, Continues(next, held), OldIds(next.id),
         \A t \in emitted : t.id = next.id => t.step < next.step,
         Len(settlements[next.id]) = 0
  PROVE  /\ commitment' \in [SessionIds -> Session \cup {NoSession}]
         /\ emitted' \subseteq Session
         /\ settlements' \in [SessionIds -> Seq(Settlement)]
         /\ LiveWellFormed' /\ EmittedOpened' /\ OnlyNewestSnapshotLoads'
         /\ SettledExactlyOnce' /\ PaidWithinCaps'
<1>1. /\ next \in Session /\ next.id \in SessionIds /\ next # NoSession
      /\ next.step \in Nat
      /\ next.phase \in WaitingPhases /\ WithinCaps(next)
      /\ commitment' = [commitment EXCEPT ![next.id] = next]
      /\ emitted' = emitted \cup {next} /\ settlements' = settlements
  BY HostAssumption DEF Continues, Session
<1>2. /\ commitment \in [SessionIds -> Session \cup {NoSession}]
      /\ emitted \subseteq Session /\ lastId \in Nat /\ lastId' \in Nat
      /\ settlements \in [SessionIds -> Seq(Settlement)]
      /\ SessionIds \subseteq Nat
  BY HostAssumption DEF IInv, TypeOK, OldIds, SessionIds
<1>3. \A s \in emitted' : s.id \in SessionIds /\ s.step \in Nat
  BY <1>1, <1>2 DEF Session
<1>4. LiveWellFormed'
  BY <1>1, <1>2 DEF IInv, LiveWellFormed, Live, OldIds, WithinCaps
<1>5. EmittedOpened'
  <2>. SUFFICES ASSUME NEW s \in emitted' PROVE s.id <= lastId'
    BY DEF EmittedOpened
  <2>1. CASE s \in emitted
    <3>1. s.id <= lastId /\ lastId <= lastId' /\ s.id \in Nat
      BY <1>2, <1>3, <2>1 DEF IInv, EmittedOpened, OldIds
    <3>. QED
      BY <1>2, <3>1
  <2>2. CASE s = next
    BY <2>2 DEF OldIds
  <2>. QED
    BY <1>1, <2>1, <2>2
<1>6. OnlyNewestSnapshotLoads'
  <2>. SUFFICES ASSUME NEW s \in emitted', NEW t \in emitted',
                       commitment'[s.id] = s, t.id = s.id, t # s
                PROVE  t.step < s.step
    BY DEF OnlyNewestSnapshotLoads, Loads
  <2>1. CASE s.id = next.id
    BY <1>1, <1>2, <1>3, <2>1
  <2>2. CASE s.id # next.id
    BY <1>1, <1>2, <1>3, <2>2 DEF IInv, OnlyNewestSnapshotLoads, Loads
  <2>. QED
    BY <2>1, <2>2
<1>7. SettledExactlyOnce'
  BY <1>1, <1>2 DEF IInv, SettledExactlyOnce, Live, OldIds
<1>8. PaidWithinCaps'
  BY <1>1 DEF IInv, PaidWithinCaps
<1>. QED
  BY <1>1, <1>2, <1>4, <1>5, <1>6, <1>7, <1>8

\* A log entry appended for a session that had none.
LEMMA LoggedFirst ==
  ASSUME NEW log \in [SessionIds -> Seq(Settlement)], NEW t \in Session,
         NEW phase \in TerminalPhases, NEW payout \in Nat,
         Len(log[t.id]) = 0
  PROVE  /\ Logged(log, t, phase, payout) \in [SessionIds -> Seq(Settlement)]
         /\ \A i \in SessionIds :
              Logged(log, t, phase, payout)[i]
                = IF i = t.id
                  THEN <<[session |-> t, phase |-> phase, payout |-> payout]>>
                  ELSE log[i]
<1>. DEFINE e == [session |-> t, phase |-> phase, payout |-> payout]
<1>1. t.id \in SessionIds /\ log[t.id] \in Seq(Settlement)
  BY DEF Session
<1>2. log[t.id] = <<>> /\ Append(<<>>, e) = <<e>>
  BY <1>1
<1>3. e \in Settlement /\ <<e>> \in Seq(Settlement)
  BY DEF Settlement
<1>. QED
  BY <1>1, <1>2, <1>3 DEF Logged

\* Settling a session that was not settled before, within its budget, does too.
LEMMA ClosesKeeps ==
  ASSUME IInv, NEW t, NEW phase, NEW payout, NEW held,
         Closes(t, phase, payout, held), OldIds(t.id), Len(settlements[t.id]) = 0
  PROVE  /\ commitment' \in [SessionIds -> Session \cup {NoSession}]
         /\ emitted' \subseteq Session
         /\ settlements' \in [SessionIds -> Seq(Settlement)]
         /\ LiveWellFormed' /\ EmittedOpened' /\ OnlyNewestSnapshotLoads'
         /\ SettledExactlyOnce' /\ PaidWithinCaps'
<1>. DEFINE e == [session |-> t, phase |-> phase, payout |-> payout]
<1>1. /\ t \in Session /\ t.id \in SessionIds /\ WithinCaps(t)
      /\ phase \in TerminalPhases /\ payout \in Nat /\ payout <= MaxPayout(t)
      /\ commitment' = [commitment EXCEPT ![t.id] = NoSession]
      /\ settlements' = Logged(settlements, t, phase, payout)
      /\ emitted' = emitted
  BY DEF Closes, Deleted, Session
<1>2. /\ commitment \in [SessionIds -> Session \cup {NoSession}]
      /\ emitted \subseteq Session /\ lastId \in Nat /\ lastId' \in Nat
      /\ settlements \in [SessionIds -> Seq(Settlement)]
      /\ SessionIds \subseteq Nat
  BY HostAssumption DEF IInv, TypeOK, OldIds, SessionIds
<1>3. /\ settlements' \in [SessionIds -> Seq(Settlement)]
      /\ \A i \in SessionIds :
           settlements'[i] = IF i = t.id THEN <<e>> ELSE settlements[i]
  BY <1>1, <1>2, LoggedFirst
<1>4. \A s \in emitted : s.id \in SessionIds /\ s # NoSession
  BY <1>2, HostAssumption DEF Session
<1>5. LiveWellFormed'
  BY <1>1, <1>2 DEF IInv, LiveWellFormed, Live, OldIds, WithinCaps
<1>6. EmittedOpened'
  <2>1. /\ lastId <= lastId'
        /\ \A s \in emitted : s.id \in Nat /\ s.id <= lastId
    BY <1>2, <1>4 DEF IInv, EmittedOpened, OldIds
  <2>. QED
    BY <1>1, <1>2, <2>1 DEF EmittedOpened
<1>7. OnlyNewestSnapshotLoads'
  BY <1>1, <1>2, <1>4 DEF IInv, OnlyNewestSnapshotLoads, Loads
<1>8. SettledExactlyOnce'
  <2>. SUFFICES ASSUME NEW i \in SessionIds
                PROVE  Len(settlements'[i])
                         = IF i <= lastId' /\ commitment'[i] = NoSession
                           THEN 1 ELSE 0
    BY DEF SettledExactlyOnce, Live
  <2>1. CASE i = t.id
    <3>1. Len(settlements'[i]) = 1
      BY <1>3, <2>1
    <3>2. i <= lastId' /\ commitment'[i] = NoSession
      BY <1>1, <1>2, <2>1 DEF OldIds
    <3>. QED
      BY <3>1, <3>2
  <2>2. CASE i # t.id
    BY <1>1, <1>2, <1>3, <2>2 DEF IInv, SettledExactlyOnce, Live, OldIds
  <2>. QED
    BY <2>1, <2>2
<1>9. PaidWithinCaps'
  <2>. SUFFICES ASSUME NEW i \in SessionIds, NEW k \in DOMAIN settlements'[i]
                PROVE  settlements'[i][k].payout
                         <= settlements'[i][k].session.maxEscrow
                              + settlements'[i][k].session.maxReserved
    BY DEF PaidWithinCaps
  <2>1. CASE i = t.id
    <3>1. settlements'[i][k] = e
      BY <1>3, <2>1
    <3>2. payout <= t.maxEscrow + t.maxReserved
      BY <1>1 DEF WithinCaps, MaxPayout, Session
    <3>. QED
      BY <3>1, <3>2
  <2>2. CASE i # t.id
    BY <1>3, <2>2 DEF IInv, PaidWithinCaps
  <2>. QED
    BY <2>1, <2>2
<1>. QED
  BY <1>1, <1>2, <1>3, <1>5, <1>6, <1>7, <1>8, <1>9

\* The batch settles two sessions that are both live, so neither was settled.
LEMMA ClosesTwoKeeps ==
  ASSUME IInv, ClosesTwo
  PROVE  /\ commitment' \in [SessionIds -> Session \cup {NoSession}]
         /\ emitted' \subseteq Session
         /\ settlements' \in [SessionIds -> Seq(Settlement)]
         /\ LiveWellFormed' /\ EmittedOpened' /\ OnlyNewestSnapshotLoads'
         /\ SettledExactlyOnce' /\ PaidWithinCaps'
<1>1. PICK s \in emitted, t \in emitted, payS \in Nat, payT \in Nat :
        /\ Loads(commitment, s) /\ Loads(commitment, t) /\ s.id # t.id
        /\ payS <= MaxPayout(s) /\ payT <= MaxPayout(t)
        /\ commitment' = Deleted(Deleted(commitment, s), t)
        /\ settlements' = Logged(Logged(settlements, s, "FORFEITED", payS),
                                 t, "FORFEITED", payT)
  BY DEF ClosesTwo
<1>. DEFINE e == [session |-> s, phase |-> "FORFEITED", payout |-> payS]
            f == [session |-> t, phase |-> "FORFEITED", payout |-> payT]
            log == Logged(settlements, s, "FORFEITED", payS)
<1>2. /\ commitment \in [SessionIds -> Session \cup {NoSession}]
      /\ emitted \subseteq Session /\ lastId \in Nat
      /\ settlements \in [SessionIds -> Seq(Settlement)]
      /\ SessionIds \subseteq Nat /\ lastId' = lastId /\ emitted' = emitted
  BY HostAssumption DEF IInv, TypeOK, ClosesTwo, SessionIds
<1>3. ASSUME NEW u \in emitted, Loads(commitment, u)
      PROVE  /\ u \in Session /\ u.id \in SessionIds /\ u # NoSession
             /\ WithinCaps(u) /\ u.id <= lastId /\ Len(settlements[u.id]) = 0
  <2>1. u \in Session /\ u.id \in SessionIds /\ u # NoSession
    BY <1>2, HostAssumption DEF Session
  <2>2. u.id \in Live /\ commitment[u.id] = u
    BY <1>3, <2>1 DEF Loads, Live
  <2>. QED
    BY <2>1, <2>2 DEF IInv, LiveWellFormed, SettledExactlyOnce
<1>4. /\ s \in Session /\ s.id \in SessionIds /\ WithinCaps(s)
      /\ t \in Session /\ t.id \in SessionIds /\ WithinCaps(t)
      /\ s.id <= lastId /\ t.id <= lastId
      /\ Len(settlements[s.id]) = 0 /\ Len(settlements[t.id]) = 0
  BY <1>1, <1>3
<1>5. /\ log \in [SessionIds -> Seq(Settlement)]
      /\ \A i \in SessionIds : log[i] = IF i = s.id THEN <<e>> ELSE settlements[i]
  BY <1>1, <1>2, <1>4, LoggedFirst DEF TerminalPhases
<1>6. /\ settlements' \in [SessionIds -> Seq(Settlement)]
      /\ \A i \in SessionIds : settlements'[i] = IF i = t.id THEN <<f>> ELSE log[i]
  <2>1. Len(log[t.id]) = 0
    BY <1>1, <1>4, <1>5
  <2>. QED
    BY <1>1, <1>4, <1>5, <2>1, LoggedFirst DEF TerminalPhases
<1>7. commitment' = [i \in SessionIds |->
                       IF i = s.id \/ i = t.id THEN NoSession ELSE commitment[i]]
  BY <1>1, <1>2, <1>4 DEF Deleted
<1>8. LiveWellFormed'
  BY <1>2, <1>7 DEF IInv, LiveWellFormed, Live, WithinCaps
<1>9. EmittedOpened'
  BY <1>2 DEF IInv, EmittedOpened
<1>10. OnlyNewestSnapshotLoads'
  <2>1. \A u \in emitted : u.id \in SessionIds /\ u # NoSession
    BY <1>2, HostAssumption DEF Session
  <2>. QED
    BY <1>2, <1>7, <2>1 DEF IInv, OnlyNewestSnapshotLoads, Loads
<1>11. SettledExactlyOnce'
  <2>. SUFFICES ASSUME NEW i \in SessionIds
                PROVE  Len(settlements'[i])
                         = IF i <= lastId' /\ commitment'[i] = NoSession
                           THEN 1 ELSE 0
    BY DEF SettledExactlyOnce, Live
  <2>1. CASE i = s.id \/ i = t.id
    <3>1. settlements'[i] = <<e>> \/ settlements'[i] = <<f>>
      BY <1>4, <1>5, <1>6, <2>1
    <3>2. Len(settlements'[i]) = 1
      BY <3>1
    <3>3. i <= lastId' /\ commitment'[i] = NoSession
      BY <1>2, <1>4, <1>7, <2>1
    <3>. QED
      BY <3>2, <3>3
  <2>2. CASE ~(i = s.id \/ i = t.id)
    BY <1>2, <1>5, <1>6, <1>7, <2>2 DEF IInv, SettledExactlyOnce, Live
  <2>. QED
    BY <2>1, <2>2
<1>12. PaidWithinCaps'
  <2>. SUFFICES ASSUME NEW i \in SessionIds, NEW k \in DOMAIN settlements'[i]
                PROVE  settlements'[i][k].payout
                         <= settlements'[i][k].session.maxEscrow
                              + settlements'[i][k].session.maxReserved
    BY DEF PaidWithinCaps
  <2>1. /\ payS <= s.maxEscrow + s.maxReserved
        /\ payT <= t.maxEscrow + t.maxReserved
    BY <1>1, <1>4 DEF WithinCaps, MaxPayout, Session
  <2>2. CASE i = s.id \/ i = t.id
    <3>1. settlements'[i][k] = e \/ settlements'[i][k] = f
      BY <1>4, <1>5, <1>6, <2>2
    <3>. QED
      BY <2>1, <3>1
  <2>3. CASE ~(i = s.id \/ i = t.id)
    BY <1>5, <1>6, <2>3 DEF IInv, PaidWithinCaps
  <2>. QED
    BY <2>2, <2>3
<1>. QED
  BY <1>2, <1>6, <1>7, <1>8, <1>9, <1>10, <1>11, <1>12

\* Replacing the commitment of a session of which the host holds `held', with
\* the host's balance following the stake, keeps the stakes counted.
LEMMA ReplacedCounts ==
  ASSUME IInv, NEW id \in SessionIds, NEW s \in Session \cup {NoSession},
         commitment' = [commitment EXCEPT ![id] = s],
         balance'[Host] = balance[Host] + StakeOf(s) - StakeOf(commitment[id])
  PROVE  StakesCounted'
<1>1. /\ commitment \in [SessionIds -> Session \cup {NoSession}]
      /\ IsFiniteSet(Units(StakesIn(commitment)))
      /\ Total(StakesIn(commitment)) <= balance[Host] /\ balance[Host] \in Nat
  BY DEF IInv, TypeOK, StakesCounted, EscrowBacked, Stakes, StakesIn, Live, Accounts
<1>2. /\ IsFiniteSet(Units(StakesIn(commitment')))
      /\ Total(StakesIn(commitment'))
           = Total(StakesIn(commitment)) - StakeOf(commitment[id]) + StakeOf(s)
  <2>. DEFINE d == Recommitted(commitment, id, s)
  <2>1. /\ IsFiniteSet(Units(StakesIn(d)))
        /\ Total(StakesIn(d))
             = Total(StakesIn(commitment)) - StakeOf(commitment[id]) + StakeOf(s)
    BY <1>1, TotalReplaced
  <2>2. commitment' = d
    BY DEF Recommitted
  <2>. QED
    BY <2>1, <2>2
<1>3. /\ StakeOf(s) \in Nat /\ StakeOf(commitment[id]) \in Nat
      /\ Total(StakesIn(commitment)) \in Nat
  BY <1>1, FS_CardinalityType DEF StakeOf, Session, Total
<1>4. Total(StakesIn(commitment')) <= balance'[Host]
  BY <1>1, <1>2, <1>3
<1>. QED
  BY <1>2, <1>4 DEF StakesCounted, EscrowBacked, Stakes, StakesIn, Live

\* Every step of a session keeps them counted ...
LEMMA OneCounts ==
  ASSUME IInv, NEW p, NEW id \in SessionIds, NEW step, NEW held,
         ContinuesOrCloses(p, id, step, held),
         held = StakeOf(commitment[id])
  PROVE  StakesCounted'
<1>0. commitment \in [SessionIds -> Session \cup {NoSession}]
  BY DEF IInv, TypeOK
<1>1. ASSUME NEW next, Continues(next, held), next.id = id
      PROVE  StakesCounted'
  <2>1. /\ next \in Session /\ StakeOf(next) = next.escrow
        /\ commitment' = [commitment EXCEPT ![id] = next]
        /\ balance'[Host] = balance[Host] + next.escrow - held
    BY <1>1, HostAssumption DEF Continues, StakeOf
  <2>. QED
    BY <2>1, ReplacedCounts
<1>2. ASSUME NEW t, NEW phase, NEW payout, Closes(t, phase, payout, held), t.id = id
      PROVE  StakesCounted'
  <2>1. /\ commitment' = [commitment EXCEPT ![id] = NoSession]
        /\ balance'[Host] = balance[Host] - held
    BY <1>2 DEF Closes, Deleted
  <2>2. StakeOf(NoSession) = 0 /\ balance[Host] \in Nat /\ held \in Nat
    BY <1>0 DEF StakeOf, Session, IInv, TypeOK, Accounts
  <2>3. balance'[Host] = balance[Host] + StakeOf(NoSession) - StakeOf(commitment[id])
    BY <2>1, <2>2
  <2>. QED
    BY <2>1, <2>3, ReplacedCounts
<1>. QED
  BY <1>1, <1>2 DEF ContinuesOrCloses

\* ... and so does the batch, which takes away two.
LEMMA TwoCount ==
  ASSUME IInv, ClosesTwo
  PROVE  StakesCounted'
<1>1. PICK s \in emitted, t \in emitted :
        /\ Loads(commitment, s) /\ Loads(commitment, t) /\ s.id # t.id
        /\ commitment' = Deleted(Deleted(commitment, s), t)
        /\ balance'[Host] = balance[Host] - s.escrow - t.escrow
  BY DEF ClosesTwo
<1>. DEFINE c == commitment
            d == Recommitted(c, s.id, NoSession)
            e == Recommitted(d, t.id, NoSession)
<1>2. /\ c \in [SessionIds -> Session \cup {NoSession}]
      /\ IsFiniteSet(Units(StakesIn(c)))
      /\ Total(StakesIn(c)) <= balance[Host] /\ balance[Host] \in Nat
  BY DEF IInv, TypeOK, StakesCounted, EscrowBacked, Stakes, StakesIn, Live, Accounts
<1>3. /\ s \in Session /\ s.id \in SessionIds /\ s # NoSession /\ s.escrow \in Nat
      /\ t \in Session /\ t.id \in SessionIds /\ t # NoSession /\ t.escrow \in Nat
  BY HostAssumption DEF IInv, TypeOK, Session
<1>4. /\ commitment' = e /\ c[s.id] = s /\ d[t.id] = t
      /\ d \in [SessionIds -> Session \cup {NoSession}]
  BY <1>1, <1>2, <1>3 DEF Loads, Deleted, Recommitted
<1>5. /\ IsFiniteSet(Units(StakesIn(d)))
      /\ Total(StakesIn(d)) = Total(StakesIn(c)) - StakeOf(s) + StakeOf(NoSession)
  <2>1. /\ IsFiniteSet(Units(StakesIn(d)))
        /\ Total(StakesIn(d))
             = Total(StakesIn(c)) - StakeOf(c[s.id]) + StakeOf(NoSession)
    BY <1>2, <1>3, TotalReplaced
  <2>. QED
    BY <1>4, <2>1
<1>6. /\ IsFiniteSet(Units(StakesIn(e)))
      /\ Total(StakesIn(e)) = Total(StakesIn(d)) - StakeOf(t) + StakeOf(NoSession)
  <2>. HIDE DEF d
  <2>. QED
    BY <1>3, <1>4, <1>5, TotalReplaced
<1>7. /\ StakeOf(s) = s.escrow /\ StakeOf(t) = t.escrow /\ StakeOf(NoSession) = 0
      /\ Total(StakesIn(c)) \in Nat /\ Total(StakesIn(d)) \in Nat
  BY <1>2, <1>3, <1>5, FS_CardinalityType DEF StakeOf, Total
<1>8. Total(StakesIn(e)) <= balance'[Host]
  BY <1>1, <1>2, <1>3, <1>5, <1>6, <1>7
<1>. QED
  BY <1>4, <1>6, <1>8 DEF StakesCounted, EscrowBacked, Stakes, StakesIn, Live

LEMMA StepInv == IInv /\ [Next]_vars => IInv'
<1>. SUFFICES ASSUME IInv, [Next]_vars PROVE IInv'
  OBVIOUS
<1>. DEFINE Records ==
       /\ commitment' \in [SessionIds -> Session \cup {NoSession}]
       /\ emitted' \subseteq Session
       /\ settlements' \in [SessionIds -> Seq(Settlement)]
       /\ LiveWellFormed' /\ EmittedOpened' /\ OnlyNewestSnapshotLoads'
       /\ SettledExactlyOnce' /\ PaidWithinCaps'
<1>1. CASE UNCHANGED vars
  BY <1>1 DEF vars, IInv, TypeOK, LiveWellFormed, Live, WithinCaps,
              EmittedOpened, OnlyNewestSnapshotLoads, Loads,
              SettledExactlyOnce, PaidWithinCaps,
              StakesCounted, EscrowBacked, Stakes
<1>2. CASE Next
  <2>1. /\ block' \in Nat /\ registered' \subseteq Games
        /\ balance' \in [Accounts -> Nat] /\ allowance' \in [Players -> Nat]
        /\ Quiet \/ Opens \/ Advances \/ ClosesTwo
    BY <1>2, NextCases DEF IInv
  <2>2. /\ lastId \in 0..MaxSessions /\ emitted \subseteq Session
        /\ SessionIds \subseteq Nat /\ MaxSessions \in Nat
    BY HostAssumption DEF IInv, TypeOK, SessionIds
  <2>3. CASE Quiet
    <3>1. /\ lastId' = lastId /\ commitment' = commitment
          /\ emitted' = emitted /\ settlements' = settlements
      BY <2>3 DEF Quiet
    <3>2. StakesCounted'
      <4>1. /\ IsFiniteSet(Units(StakesIn(commitment)))
            /\ Total(StakesIn(commitment)) <= balance[Host]
            /\ balance[Host] \in Nat
        BY DEF IInv, TypeOK, StakesCounted, EscrowBacked, Stakes, StakesIn, Live,
               Accounts
      <4>2. balance'[Host] \in Nat /\ balance'[Host] >= balance[Host]
        BY <2>1, <2>3 DEF Quiet, Accounts
      <4>3. Total(StakesIn(commitment)) \in Nat
        BY <4>1, FS_CardinalityType DEF Total
      <4>4. Total(StakesIn(commitment)) <= balance'[Host]
        BY <4>1, <4>2, <4>3
      <4>. QED
        BY <3>1, <4>1, <4>4
           DEF StakesCounted, EscrowBacked, Stakes, StakesIn, Live
    <3>. QED
      BY <2>1, <2>2, <3>1, <3>2
         DEF IInv, TypeOK, LiveWellFormed, Live, WithinCaps, EmittedOpened,
             OnlyNewestSnapshotLoads, Loads, SettledExactlyOnce, PaidWithinCaps
  <2>4. CASE Opens
    <3>1. PICK p \in Players : ContinuesOrCloses(p, lastId + 1, 0, 0)
      BY <2>4 DEF Opens
    <3>2. /\ OldIds(lastId + 1) /\ lastId + 1 \in SessionIds
          /\ lastId' \in 0..MaxSessions
      BY <2>2, <2>4 DEF Opens, OldIds, SessionIds
    <3>3. Len(settlements[lastId + 1]) = 0
      BY <2>2, <3>2 DEF IInv, SettledExactlyOnce
    <3>4. \A t \in emitted : t.id # lastId + 1
      BY <2>2 DEF IInv, EmittedOpened
    <3>5. Records
      BY <3>1, <3>2, <3>3, <3>4, ContinuesKeeps, ClosesKeeps
         DEF ContinuesOrCloses
    <3>6. StakesCounted'
      <4>1. lastId + 1 \notin Live
        BY <2>2, <3>2 DEF IInv, LiveWellFormed
      <4>2. StakeOf(commitment[lastId + 1]) = 0
        BY <3>2, <4>1 DEF Live, StakeOf
      <4>. QED
        BY <3>1, <3>2, <4>2, OneCounts
    <3>. QED
      BY <2>1, <3>2, <3>5, <3>6 DEF IInv, TypeOK
  <2>5. CASE Advances
    <3>1. PICK s \in emitted :
            /\ Loads(commitment, s)
            /\ ContinuesOrCloses(s.player, s.id, s.step, s.escrow)
      BY <2>5 DEF Advances
    <3>2. /\ s \in Session /\ s.id \in SessionIds /\ s.step \in Nat
          /\ s.id \in Live /\ commitment[s.id] = s
      BY <2>2, <3>1, HostAssumption DEF Session, Loads, Live
    <3>3. OldIds(s.id) /\ lastId' \in 0..MaxSessions
      BY <2>2, <2>5, <3>2 DEF Advances, OldIds, IInv, LiveWellFormed
    <3>4. Len(settlements[s.id]) = 0
      BY <3>2 DEF IInv, SettledExactlyOnce
    <3>5. \A t \in emitted : t.id = s.id => t.step < s.step + 1
      <4>1. \A t \in emitted : t.step \in Nat
        BY <2>2 DEF Session
      <4>. QED
        BY <3>1, <3>2, <4>1 DEF IInv, OnlyNewestSnapshotLoads
    <3>6. Records
      BY <3>1, <3>3, <3>4, <3>5, ContinuesKeeps, ClosesKeeps
         DEF ContinuesOrCloses
    <3>7. StakesCounted'
      <4>1. StakeOf(commitment[s.id]) = s.escrow
        BY <3>2, HostAssumption DEF StakeOf
      <4>. QED
        BY <3>1, <3>2, <4>1, OneCounts
    <3>. QED
      BY <2>1, <3>3, <3>6, <3>7 DEF IInv, TypeOK
  <2>6. CASE ClosesTwo
    <3>1. Records /\ StakesCounted' /\ lastId' \in 0..MaxSessions
      BY <2>2, <2>6, ClosesTwoKeeps, TwoCount DEF ClosesTwo
    <3>. QED
      BY <2>1, <3>1 DEF IInv, TypeOK
  <2>. QED
    BY <2>1, <2>3, <2>4, <2>5, <2>6
<1>. QED
  BY <1>1, <1>2

-----------------------------------------------------------------------------
(* The theorems.                                                           *)

\* The inductive invariant holds throughout, with the type invariant: in
\* particular no transfer of the token ever underflows.
THEOREM HostTypeCorrect == Spec => []TypeOK
<1>1. IInv => TypeOK
  BY DEF IInv
<1>. QED
  BY <1>1, InitInv, StepInv, PTL DEF Spec

\* Only the newest snapshot of a session is ever accepted.
THEOREM HostOnlyNewest == Spec => []OnlyNewestSnapshotLoads
<1>1. IInv => OnlyNewestSnapshotLoads
  BY DEF IInv
<1>. QED
  BY <1>1, InitInv, StepInv, PTL DEF Spec

\* Every opened session is live or settled exactly once, whoever races.
THEOREM HostSettlesOnce == Spec => []SettledExactlyOnce
<1>1. IInv => SettledExactlyOnce
  BY DEF IInv
<1>. QED
  BY <1>1, InitInv, StepInv, PTL DEF Spec

\* No session pays out more than the caps quoted when it was opened.
THEOREM HostPaysWithinCaps == Spec => []PaidWithinCaps
<1>1. IInv => PaidWithinCaps
  BY DEF IInv
<1>. QED
  BY <1>1, InitInv, StepInv, PTL DEF Spec

\* The host owns the stakes of the live sessions, whatever else it was given.
THEOREM HostEscrowBacked == Spec => []EscrowBacked
<1>1. IInv => EscrowBacked
  BY DEF IInv, StakesCounted
<1>. QED
  BY <1>1, InitInv, StepInv, PTL DEF Spec

\* A session that is opened or goes on has no settlement yet.
LEMMA Unsettled ==
  ASSUME IInv
  PROVE  /\ Opens => lastId + 1 \in SessionIds /\ Len(settlements[lastId + 1]) = 0
         /\ \A s \in emitted :
              Loads(commitment, s) => /\ s.id \in SessionIds
                                      /\ commitment[s.id] = s
                                      /\ Len(settlements[s.id]) = 0
<1>1. lastId \in Nat /\ emitted \subseteq Session /\ SessionIds \subseteq Nat
  BY HostAssumption DEF IInv, TypeOK, SessionIds
<1>2. ASSUME Opens
      PROVE  lastId + 1 \in SessionIds /\ Len(settlements[lastId + 1]) = 0
  BY <1>1, <1>2 DEF Opens, IInv, SettledExactlyOnce
<1>3. ASSUME NEW s \in emitted, Loads(commitment, s)
      PROVE  /\ s.id \in SessionIds /\ commitment[s.id] = s
             /\ Len(settlements[s.id]) = 0
  <2>1. s \in Session /\ s.id \in SessionIds /\ s # NoSession
    BY <1>1, HostAssumption DEF Session
  <2>2. s.id \in Live
    BY <1>3, <2>1 DEF Loads, Live
  <2>. QED
    BY <1>3, <2>1, <2>2 DEF IInv, SettledExactlyOnce, Loads
<1>. QED
  BY <1>2, <1>3

\* Only a player that opens a session, acts in its own or sends tokens is charged.
THEOREM HostPullsOnlyOwn == Spec => PulledOnlyByOwnStep
<1>. DEFINE Own == \A p \in Players :
                     balance'[p] < balance[p]
                       => OpensOwn(p) \/ ActsInOwn(p) \/ TransfersOwn(p)
<1>1. IInv /\ [Next]_vars => [Own]_vars
  <2>. SUFFICES ASSUME IInv, Next, NEW p \in Players, balance'[p] < balance[p]
                PROVE  OpensOwn(p) \/ ActsInOwn(p) \/ TransfersOwn(p)
    OBVIOUS
  <2>1. /\ commitment \in [SessionIds -> Session \cup {NoSession}]
        /\ settlements \in [SessionIds -> Seq(Settlement)]
        /\ emitted \subseteq Session /\ lastId \in Nat
        /\ balance[p] \in Nat
    BY HostAssumption DEF IInv, TypeOK, Accounts
  <2>2. /\ Quiet \/ Opens \/ Advances \/ ClosesTwo
        /\ balance'[p] \in Nat
    BY NextCases DEF IInv, Accounts
  <2>3. (Quiet => TransfersOwn(p)) /\ ~ClosesTwo
    BY <2>1, <2>2 DEF Quiet, ClosesTwo
  <2>4. CASE Opens
    <3>1. ContinuesOrCloses(p, lastId + 1, 0, 0)
      BY <2>4 DEF Opens, ChargesOnly
    <3>2. /\ lastId' = lastId + 1 /\ lastId' \in SessionIds
          /\ Len(settlements[lastId + 1]) = 0
      BY <2>4, Unsettled DEF Opens
    <3>3. ASSUME NEW next, Continues(next, 0),
                 next.id = lastId + 1, next.player = p
          PROVE  OpensOwn(p)
      <4>1. commitment'[lastId'] = next /\ next # NoSession
        BY <2>1, <3>2, <3>3, HostAssumption DEF Continues
      <4>. QED
        BY <2>1, <3>2, <3>3, <4>1 DEF OpensOwn
    <3>4. ASSUME NEW t, NEW phase, NEW payout, Closes(t, phase, payout, 0),
                 t.id = lastId + 1, t.player = p
          PROVE  OpensOwn(p)
      <4>. DEFINE e == [session |-> t, phase |-> phase, payout |-> payout]
      <4>1. settlements'[lastId'] = <<e>>
        <5>1. /\ t \in Session /\ phase \in TerminalPhases /\ payout \in Nat
              /\ settlements' = Logged(settlements, t, phase, payout)
              /\ t.id = lastId' /\ Len(settlements[t.id]) = 0 /\ t.id \in SessionIds
          BY <3>2, <3>4 DEF Closes
        <5>2. Logged(settlements, t, phase, payout)[t.id] = <<e>>
          BY <2>1, <3>2, <5>1, LoggedFirst
        <5>. QED
          BY <5>1, <5>2
      <4>2. 1 \in DOMAIN settlements'[lastId']
            /\ settlements'[lastId'][1].session = t
        BY <4>1
      <4>. QED
        BY <2>1, <3>2, <3>4, <4>2 DEF OpensOwn
    <3>. QED
      BY <3>1, <3>3, <3>4 DEF ContinuesOrCloses
  <2>5. CASE Advances
    <3>1. PICK s \in emitted :
            /\ Loads(commitment, s)
            /\ ContinuesOrCloses(s.player, s.id, s.step, s.escrow)
            /\ ChargesOnly(s.player, s.phase = "WAITING_PLAYER_ACTION")
      BY <2>5 DEF Advances
    <3>2. /\ s \in Session /\ s.step \in Nat /\ s # NoSession
          /\ s.id \in Live /\ commitment[s.id] = s
      BY <2>1, <3>1, HostAssumption DEF Session, Loads, Live
    <3>3. p = s.player /\ s.phase = "WAITING_PLAYER_ACTION"
      BY <3>1 DEF ChargesOnly
    <3>4. ASSUME NEW next, Continues(next, s.escrow),
                 next.id = s.id, next.step = s.step + 1
          PROVE  commitment'[s.id] # s
      BY <2>1, <3>2, <3>4 DEF Continues, Live
    <3>5. ASSUME NEW t, NEW phase, NEW payout,
                 Closes(t, phase, payout, s.escrow), t.id = s.id
          PROVE  commitment'[s.id] # s
      BY <2>1, <3>2, <3>5 DEF Closes, Deleted, Live
    <3>6. commitment'[s.id] # s
      BY <3>1, <3>4, <3>5 DEF ContinuesOrCloses
    <3>. QED
      BY <3>2, <3>3, <3>6 DEF ActsInOwn
  <2>. QED
    BY <2>2, <2>3, <2>4, <2>5
<1>. QED
  BY <1>1, InitInv, StepInv, PTL DEF Spec, PulledOnlyByOwnStep

\* The profit reserved for one settled session.
LEMMA OneReserved ==
  ASSUME IInv, NEW t, NEW phase, NEW payout, NEW held,
         Closes(t, phase, payout, held), Len(settlements[t.id]) = 0
  PROVE  Total(ProfitsReserved(settlements, settlements')) = t.maxReserved
<1>. DEFINE e == [session |-> t, phase |-> phase, payout |-> payout]
            none == [i \in {} |-> 0]
            b == ProfitsReserved(settlements, settlements')
<1>1. /\ t \in Session /\ t.id \in SessionIds /\ t.maxReserved \in Nat
      /\ settlements \in [SessionIds -> Seq(Settlement)]
      /\ \A i \in SessionIds :
           settlements'[i] = IF i = t.id THEN <<e>> ELSE settlements[i]
  <2>1. /\ t \in Session /\ phase \in TerminalPhases /\ payout \in Nat
        /\ settlements' = Logged(settlements, t, phase, payout)
        /\ settlements \in [SessionIds -> Seq(Settlement)]
    BY DEF Closes, IInv, TypeOK
  <2>2. \A i \in SessionIds :
          Logged(settlements, t, phase, payout)[i]
            = IF i = t.id THEN <<e>> ELSE settlements[i]
    BY <2>1, LoggedFirst
  <2>3. t.id \in SessionIds /\ t.maxReserved \in Nat
    BY <2>1 DEF Session
  <2>. QED
    BY <2>1, <2>2, <2>3
<1>2. \A i \in SessionIds : Len(settlements[i]) \in Nat
  BY <1>1
<1>3. Len(<<e>>) = 1 /\ <<e>>[1].session = t
  OBVIOUS
<1>4. SettledIn(settlements, settlements') = {t.id}
  <2>1. \A i \in SessionIds : Len(settlements'[i]) > Len(settlements[i]) <=> i = t.id
    <3>1. Len(settlements[t.id]) = 0 /\ Len(settlements'[t.id]) = 1
      BY <1>1, <1>3
    <3>2. \A i \in SessionIds \ {t.id} : settlements'[i] = settlements[i]
      BY <1>1
    <3>3. ASSUME NEW i \in SessionIds
          PROVE  Len(settlements'[i]) > Len(settlements[i]) <=> i = t.id
      <4>1. CASE i = t.id
        <5>1. Len(settlements'[i]) = 1 /\ Len(settlements[i]) = 0
          BY <3>1, <4>1
        <5>. QED
          BY <4>1, <5>1
      <4>2. CASE i # t.id
        <5>1. Len(settlements'[i]) = Len(settlements[i]) /\ Len(settlements[i]) \in Nat
          BY <1>2, <3>2, <4>2
        <5>. QED
          BY <4>2, <5>1
      <4>. QED
        BY <4>1, <4>2
    <3>. QED
      BY <3>3
  <2>. QED
    BY <1>1, <2>1 DEF SettledIn
<1>5. DOMAIN b = {t.id} /\ b[t.id] = t.maxReserved
  BY <1>1, <1>3, <1>4 DEF ProfitsReserved
<1>6. DOMAIN none = {}
  OBVIOUS
<1>7. IsFiniteSet(Units(none)) /\ Total(none) = 0
  <2>. HIDE DEF none
  <2>. QED
    BY <1>6, TotalNone
<1>8. /\ IsFiniteSet(Units(none)) => Total(b) = Total(none) + b[t.id]
  <2>1. /\ t.id \notin DOMAIN none /\ DOMAIN b = DOMAIN none \cup {t.id}
        /\ \A j \in DOMAIN none : b[j] = none[j]
        /\ b[t.id] \in Nat
    BY <1>1, <1>5, <1>6
  <2>. HIDE DEF none, b
  <2>. QED
    BY ONLY <2>1, TotalGains
<1>. QED
  BY <1>1, <1>5, <1>7, <1>8

\* ... and for the two sessions that a batch settles.
LEMMA TwoReserved ==
  ASSUME IInv, NEW s \in emitted, NEW t \in emitted,
         NEW payS \in Nat, NEW payT \in Nat,
         Loads(commitment, s), Loads(commitment, t), s.id # t.id,
         settlements' = Logged(Logged(settlements, s, "FORFEITED", payS),
                               t, "FORFEITED", payT)
  PROVE  Total(ProfitsReserved(settlements, settlements'))
           = s.maxReserved + t.maxReserved
<1>. DEFINE e == [session |-> s, phase |-> "FORFEITED", payout |-> payS]
            f == [session |-> t, phase |-> "FORFEITED", payout |-> payT]
            log == Logged(settlements, s, "FORFEITED", payS)
            none == [i \in {} |-> 0]
            one == [i \in {s.id} |-> s.maxReserved]
            b == ProfitsReserved(settlements, settlements')
<1>1. /\ s \in Session /\ s.id \in SessionIds /\ s.maxReserved \in Nat
      /\ t \in Session /\ t.id \in SessionIds /\ t.maxReserved \in Nat
      /\ settlements \in [SessionIds -> Seq(Settlement)]
      /\ Len(settlements[s.id]) = 0 /\ Len(settlements[t.id]) = 0
  BY Unsettled DEF Session, IInv, TypeOK
<1>2. /\ log \in [SessionIds -> Seq(Settlement)]
      /\ \A i \in SessionIds : log[i] = IF i = s.id THEN <<e>> ELSE settlements[i]
  BY <1>1, LoggedFirst DEF TerminalPhases
<1>3. \A i \in SessionIds : settlements'[i] = IF i = t.id THEN <<f>> ELSE log[i]
  <2>1. Len(log[t.id]) = 0
    BY <1>1, <1>2
  <2>. DEFINE forfeited == "FORFEITED"
  <2>1a. forfeited \in TerminalPhases
    BY DEF TerminalPhases
  <2>. HIDE DEF log
  <2>2. \A i \in SessionIds :
          Logged(log, t, forfeited, payT)[i] = IF i = t.id THEN <<f>> ELSE log[i]
    <3>1. log \in [SessionIds -> Seq(Settlement)] /\ t \in Session
      BY <1>1, <1>2
    <3>. QED
      BY <2>1, <2>1a, <3>1, LoggedFirst
  <2>3. settlements' = Logged(log, t, "FORFEITED", payT)
    BY DEF log
  <2>. QED
    BY <2>2, <2>3
<1>4. /\ \A i \in SessionIds : Len(settlements[i]) \in Nat
      /\ Len(<<e>>) = 1 /\ <<e>>[1].session = s
      /\ Len(<<f>>) = 1 /\ <<f>>[1].session = t
  BY <1>1
<1>5. SettledIn(settlements, settlements') = {s.id, t.id}
  <2>. HIDE DEF log
  <2>. QED
    BY <1>1, <1>2, <1>3, <1>4 DEF SettledIn
<1>6. /\ DOMAIN b = {s.id, t.id}
      /\ b[s.id] = s.maxReserved /\ b[t.id] = t.maxReserved
  <2>. HIDE DEF log
  <2>. QED
    BY <1>1, <1>2, <1>3, <1>4, <1>5 DEF ProfitsReserved
<1>7. /\ DOMAIN none = {} /\ DOMAIN one = {s.id} /\ one[s.id] = s.maxReserved
  OBVIOUS
<1>8. IsFiniteSet(Units(none)) /\ Total(none) = 0
  <2>. HIDE DEF none
  <2>. QED
    BY <1>7, TotalNone
<1>9. IsFiniteSet(Units(one)) /\ Total(one) = s.maxReserved
  <2>1. /\ s.id \notin DOMAIN none /\ DOMAIN one = DOMAIN none \cup {s.id}
        /\ \A j \in DOMAIN none : one[j] = none[j]
        /\ one[s.id] \in Nat
    BY <1>1, <1>7
  <2>. HIDE DEF none, one
  <2>2. /\ IsFiniteSet(Units(none)) <=> IsFiniteSet(Units(one))
        /\ IsFiniteSet(Units(none)) => Total(one) = Total(none) + one[s.id]
    BY ONLY <2>1, TotalGains
  <2>. QED
    BY <1>1, <1>7, <1>8, <2>2
<1>10. Total(b) = Total(one) + b[t.id]
  <2>1. /\ t.id \notin DOMAIN one /\ DOMAIN b = DOMAIN one \cup {t.id}
        /\ \A j \in DOMAIN one : b[j] = one[j]
        /\ b[t.id] \in Nat
    BY <1>1, <1>6, <1>7
  <2>. HIDE DEF one, b
  <2>2. IsFiniteSet(Units(one)) => Total(b) = Total(one) + b[t.id]
    BY ONLY <2>1, TotalGains
  <2>. QED
    BY <1>9, <2>2
<1>. QED
  BY <1>6, <1>9, <1>10

\* The vault loses at most the profit reserved for what a step settles.
THEOREM HostVaultLossReserved == Spec => VaultLossReserved
<1>. DEFINE reserved == Total(ProfitsReserved(settlements, settlements'))
            Bounded == balance[Vault] - balance'[Vault] <= reserved
<1>1. IInv /\ [Next]_vars => [Bounded]_vars
  <2>. SUFFICES ASSUME IInv, Next PROVE Bounded
    OBVIOUS
  <2>1. /\ Quiet \/ Opens \/ Advances \/ ClosesTwo
        /\ balance[Vault] \in Nat /\ balance'[Vault] \in Nat
    BY NextCases DEF IInv, TypeOK, Accounts
  <2>2. settlements' = settlements => reserved = 0
    <3>. SUFFICES ASSUME settlements' = settlements PROVE reserved = 0
      OBVIOUS
    <3>1. \A i \in SessionIds : Len(settlements[i]) \in Nat
      BY DEF IInv, TypeOK
    <3>2. DOMAIN ProfitsReserved(settlements, settlements') = {}
      BY <3>1 DEF ProfitsReserved, SettledIn
    <3>. QED
      BY <3>2, TotalNone
  <2>3. ASSUME NEW next, NEW held, Continues(next, held) PROVE Bounded
    <3>1. settlements' = settlements /\ balance'[Vault] = balance[Vault]
      BY <2>3 DEF Continues
    <3>. HIDE DEF reserved
    <3>. QED
      BY <2>1, <2>2, <3>1
  <2>4. ASSUME NEW t, NEW phase, NEW payout, NEW held,
               Closes(t, phase, payout, held), Len(settlements[t.id]) = 0
        PROVE  Bounded
    <3>1. reserved = t.maxReserved
      BY <2>4, OneReserved
    <3>2. t.maxReserved \in Nat /\ balance'[Vault] >= balance[Vault] - t.maxReserved
      BY <2>4 DEF Closes, Session
    <3>. HIDE DEF reserved
    <3>. QED
      BY <2>1, <3>1, <3>2
  <2>5. CASE Quiet
    <3>1. settlements' = settlements /\ balance'[Vault] >= balance[Vault]
      BY <2>5 DEF Quiet
    <3>. HIDE DEF reserved
    <3>. QED
      BY <2>1, <2>2, <3>1
  <2>6. CASE Opens
    <3>1. PICK p \in Players : ContinuesOrCloses(p, lastId + 1, 0, 0)
      BY <2>6 DEF Opens
    <3>2. Len(settlements[lastId + 1]) = 0
      BY <2>6, Unsettled
    <3>. QED
      BY <2>3, <2>4, <3>1, <3>2 DEF ContinuesOrCloses
  <2>7. CASE Advances
    <3>1. PICK s \in emitted :
            /\ Loads(commitment, s)
            /\ ContinuesOrCloses(s.player, s.id, s.step, s.escrow)
      BY <2>7 DEF Advances
    <3>2. Len(settlements[s.id]) = 0
      BY <3>1, Unsettled
    <3>. QED
      BY <2>3, <2>4, <3>1, <3>2 DEF ContinuesOrCloses
  <2>8. CASE ClosesTwo
    <3>1. PICK s \in emitted, t \in emitted, payS \in Nat, payT \in Nat :
            /\ Loads(commitment, s) /\ Loads(commitment, t) /\ s.id # t.id
            /\ settlements' = Logged(Logged(settlements, s, "FORFEITED", payS),
                                     t, "FORFEITED", payT)
            /\ balance'[Vault] >= balance[Vault] - s.maxReserved - t.maxReserved
      BY <2>8 DEF ClosesTwo
    <3>2. reserved = s.maxReserved + t.maxReserved
      BY <3>1, TwoReserved
    <3>3. s.maxReserved \in Nat /\ t.maxReserved \in Nat
      BY DEF IInv, TypeOK, Session
    <3>. HIDE DEF reserved
    <3>. QED
      BY <2>1, <3>1, <3>2, <3>3
  <2>. QED
    BY <2>1, <2>5, <2>6, <2>7, <2>8
<1>. QED
  BY <1>1, InitInv, StepInv, PTL DEF Spec, VaultLossReserved

\* A snapshot once superseded or settled never becomes valid again.
THEOREM HostSnapshotsNeverRevive == Spec => SnapshotsNeverRevive
<1>. DEFINE Fresh == \A i \in SessionIds :
                       commitment'[i] \notin {commitment[i], NoSession}
                         => commitment'[i] \notin emitted
<1>1. IInv /\ [Next]_vars => [Fresh]_vars
  <2>. SUFFICES ASSUME IInv, Next, NEW i \in SessionIds,
                       commitment'[i] \notin {commitment[i], NoSession}
                PROVE  commitment'[i] \notin emitted
    OBVIOUS
  <2>1. /\ commitment \in [SessionIds -> Session \cup {NoSession}]
        /\ emitted \subseteq Session
    BY DEF IInv, TypeOK
  <2>2. Quiet \/ Opens \/ Advances \/ ClosesTwo
    BY NextCases DEF IInv
  <2>3. ASSUME NEW next, NEW held, Continues(next, held),
               \A t \in emitted : t.id = next.id => t.step < next.step
        PROVE  commitment'[i] \notin emitted
    <3>1. next.step \in Nat
      BY <2>3 DEF Continues, Session
    <3>. QED
      BY <2>1, <2>3, <3>1 DEF Continues
  <2>4. ASSUME NEW t, NEW phase, NEW payout, NEW held,
               Closes(t, phase, payout, held)
        PROVE  FALSE
    BY <2>1, <2>4 DEF Closes, Deleted
  <2>5. CASE Quiet
    BY <2>5 DEF Quiet
  <2>6. CASE Opens
    <3>1. \A t \in emitted : t.id # lastId + 1
      BY HostAssumption, <2>1 DEF IInv, TypeOK, EmittedOpened
    <3>. QED
      BY <2>3, <2>4, <2>6, <3>1 DEF Opens, ContinuesOrCloses
  <2>7. CASE Advances
    <3>1. PICK s \in emitted :
            /\ Loads(commitment, s)
            /\ ContinuesOrCloses(s.player, s.id, s.step, s.escrow)
      BY <2>7 DEF Advances
    <3>2. \A t \in emitted : t.step \in Nat
      BY <2>1 DEF Session
    <3>3. \A t \in emitted : t.id = s.id => t.step < s.step + 1
      BY <3>1, <3>2 DEF IInv, OnlyNewestSnapshotLoads
    <3>. QED
      BY <2>3, <2>4, <3>1, <3>3 DEF ContinuesOrCloses
  <2>8. CASE ClosesTwo
    BY <2>1, <2>8 DEF ClosesTwo, Deleted
  <2>. QED
    BY <2>2, <2>5, <2>6, <2>7, <2>8
<1>. QED
  BY <1>1, InitInv, StepInv, PTL DEF Spec, SnapshotsNeverRevive

-----------------------------------------------------------------------------
(* The host implements SessionStream.  Its steps count from 1, and the step  *)
(* after MaxStep stands for the end of a session.                            *)

StepsBounded == \A i \in Live : commitment[i].step \in 1..MaxStep

Shown(i) == SessionShown(commitment, settlements, i)
Forward(i) == Shown(i)' = Shown(i) \/ Shown(i)'.step > Shown(i).step

\* What is shown of a live session, of one settled and of one not opened.
ShownRight(i) ==
  /\ Shown(i) \in Stream!Views
  /\ i \in Live => /\ commitment[i].step \in 1..MaxStep
                   /\ Shown(i) = [phase |-> commitment[i].phase,
                                  step |-> commitment[i].step]
  /\ i \notin Live /\ i <= lastId =>
       Shown(i) = [phase |-> "OVER", step |-> MaxStep + 1]
  /\ i > lastId => i \notin Live /\ Shown(i) = [phase |-> "ABSENT", step |-> -1]

AllShownRight == \A i \in SessionIds : ShownRight(i)

LEMMA ShownIs == IInv /\ StepsBounded => AllShownRight
<1>. SUFFICES ASSUME IInv, StepsBounded, NEW i \in SessionIds PROVE ShownRight(i)
  BY DEF AllShownRight
<1>0. /\ MaxStep \in Nat /\ lastId \in Nat /\ i \in Nat
      /\ settlements[i] \in Seq(Settlement)
  BY HostAssumption DEF IInv, TypeOK, SessionIds
<1>1. CASE i \in Live
  <2>1. /\ commitment[i].step \in 1..MaxStep /\ commitment[i].phase \in WaitingPhases
        /\ i <= lastId /\ commitment[i] # NoSession
    BY <1>1 DEF StepsBounded, IInv, LiveWellFormed, Live
  <2>2. Shown(i) = [phase |-> commitment[i].phase, step |-> commitment[i].step]
    BY <2>1 DEF Shown, SessionShown
  <2>3. Shown(i) \in Stream!Known
    BY <1>0, <2>1, <2>2 DEF Stream!Known, WaitingPhases
  <2>. QED
    BY <1>0, <1>1, <2>1, <2>2, <2>3 DEF ShownRight, Stream!Views
<1>2. CASE i \notin Live /\ i <= lastId
  <2>1. commitment[i] = NoSession /\ Len(settlements[i]) = 1
    BY <1>2 DEF Live, IInv, SettledExactlyOnce
  <2>2. settlements[i] # <<>>
    BY <2>1
  <2>3. Shown(i) = [phase |-> "OVER", step |-> MaxStep + 1]
    BY <2>1, <2>2 DEF Shown, SessionShown
  <2>. QED
    BY <1>0, <1>2, <2>3 DEF ShownRight, Stream!Views
<1>3. CASE i > lastId
  <2>1. i \notin Live
    BY <1>0, <1>3 DEF IInv, LiveWellFormed
  <2>2. commitment[i] = NoSession /\ Len(settlements[i]) = 0
    BY <1>0, <1>3, <2>1 DEF Live, IInv, SettledExactlyOnce
  <2>3. settlements[i] = <<>>
    BY <1>0, <2>2
  <2>4. Shown(i) = [phase |-> "ABSENT", step |-> -1]
    BY <2>2, <2>3 DEF Shown, SessionShown
  <2>. QED
    BY <1>0, <1>3, <2>1, <2>4 DEF ShownRight, Stream!Views, Stream!Absent
<1>. QED
  BY <1>0, <1>1, <1>2, <1>3

LEMMA ShownNext == IInv' /\ StepsBounded' => AllShownRight'
BY ShownIs, PTL

\* A step of one session keeps the steps bounded; what settles a session keeps
\* those of the others.
LEMMA StepsStay ==
  ASSUME IInv, StepsBounded, Next
  PROVE  StepsBounded' /\ lastId <= lastId' /\ lastId' \in Nat
<1>0. /\ commitment \in [SessionIds -> Session \cup {NoSession}]
      /\ emitted \subseteq Session /\ MaxStep \in Nat /\ lastId \in Nat
  BY HostAssumption DEF IInv, TypeOK
<1>1. Quiet \/ Opens \/ Advances \/ ClosesTwo
  BY NextCases DEF IInv
<1>2. lastId' = lastId \/ lastId' = lastId + 1
  BY <1>1 DEF Quiet, Opens, Advances, ClosesTwo
<1>. SUFFICES StepsBounded'
  BY <1>0, <1>2
<1>3. ASSUME NEW next, NEW held, Continues(next, held), next.step \in 1..MaxStep
      PROVE  StepsBounded'
  BY <1>0, <1>3 DEF Continues, StepsBounded, Live
<1>4. ASSUME NEW t, NEW phase, NEW payout, NEW held, Closes(t, phase, payout, held)
      PROVE  StepsBounded'
  BY <1>0, <1>4 DEF Closes, Deleted, StepsBounded, Live
<1>5. CASE Quiet
  BY <1>5 DEF Quiet, StepsBounded, Live
<1>6. CASE Opens
  <2>1. PICK p \in Players : ContinuesOrCloses(p, lastId + 1, 0, 0)
    BY <1>6 DEF Opens
  <2>2. ASSUME NEW next, Continues(next, 0), 0 < MaxStep, next.step = 0 + 1
        PROVE  StepsBounded'
    BY <1>0, <1>3, <2>2
  <2>. QED
    BY <1>4, <2>1, <2>2 DEF ContinuesOrCloses
<1>7. CASE Advances
  <2>1. PICK s \in emitted : ContinuesOrCloses(s.player, s.id, s.step, s.escrow)
    BY <1>7 DEF Advances
  <2>2. s.step \in Nat
    BY <1>0 DEF Session
  <2>3. ASSUME NEW next, Continues(next, s.escrow), s.step < MaxStep,
               next.step = s.step + 1
        PROVE  StepsBounded'
    BY <1>0, <1>3, <2>2, <2>3
  <2>. QED
    BY <1>4, <2>1, <2>3 DEF ContinuesOrCloses
<1>8. CASE ClosesTwo
  BY <1>0, <1>8 DEF ClosesTwo, Deleted, StepsBounded, Live
<1>. QED
  BY <1>1, <1>5, <1>6, <1>7, <1>8

\* A live session is replaced by its next step only; the others stay.
LEMMA LiveForward ==
  ASSUME IInv, StepsBounded, Next, NEW i \in Live, i \in Live'
  PROVE  commitment'[i] = commitment[i] \/ commitment'[i].step > commitment[i].step
<1>0. /\ commitment \in [SessionIds -> Session \cup {NoSession}] /\ i \in SessionIds
      /\ emitted \subseteq Session /\ lastId \in Nat /\ i \in Nat /\ i <= lastId
      /\ commitment'[i] # NoSession
  BY HostAssumption DEF IInv, TypeOK, LiveWellFormed, Live, SessionIds
<1>1. Quiet \/ Opens \/ Advances \/ ClosesTwo
  BY NextCases DEF IInv
<1>2. ASSUME NEW t, NEW phase, NEW payout, NEW held, Closes(t, phase, payout, held)
      PROVE  commitment'[i] = commitment[i]
  BY <1>0, <1>2 DEF Closes, Deleted
<1>3. CASE Quiet
  BY <1>3 DEF Quiet
<1>4. CASE Opens
  <2>1. PICK p \in Players : ContinuesOrCloses(p, lastId + 1, 0, 0)
    BY <1>4 DEF Opens
  <2>2. ASSUME NEW next, Continues(next, 0), next.id = lastId + 1
        PROVE  commitment'[i] = commitment[i]
    BY <1>0, <2>2 DEF Continues
  <2>. QED
    BY <1>2, <2>1, <2>2 DEF ContinuesOrCloses
<1>5. CASE Advances
  <2>1. PICK s \in emitted : /\ Loads(commitment, s)
                             /\ ContinuesOrCloses(s.player, s.id, s.step, s.escrow)
    BY <1>5 DEF Advances
  <2>2. s.step \in Nat
    BY <1>0 DEF Session
  <2>3. ASSUME NEW next, Continues(next, s.escrow), next.id = s.id,
               next.step = s.step + 1
        PROVE  commitment'[i] = commitment[i] \/ commitment'[i].step > commitment[i].step
    BY <1>0, <2>1, <2>2, <2>3 DEF Continues, Loads
  <2>. QED
    BY <1>2, <2>1, <2>3 DEF ContinuesOrCloses
<1>6. CASE ClosesTwo
  BY <1>0, <1>6 DEF ClosesTwo, Deleted
<1>. QED
  BY <1>1, <1>3, <1>4, <1>5, <1>6

\* A session that was settled stays settled: no commitment of it comes back.
LEMMA OverStays ==
  ASSUME IInv, Next, NEW i \in SessionIds, i \notin Live, i <= lastId
  PROVE  i \notin Live'
<1>0. /\ commitment \in [SessionIds -> Session \cup {NoSession}]
      /\ emitted \subseteq Session /\ lastId \in Nat /\ i \in Nat
      /\ commitment[i] = NoSession
  BY HostAssumption DEF IInv, TypeOK, Live, SessionIds
<1>1. Quiet \/ Opens \/ Advances \/ ClosesTwo
  BY NextCases DEF IInv
<1>2. ASSUME NEW t, NEW phase, NEW payout, NEW held, Closes(t, phase, payout, held)
      PROVE  commitment'[i] = NoSession
  BY <1>0, <1>2 DEF Closes, Deleted
<1>3. CASE Quiet
  BY <1>0, <1>3 DEF Quiet, Live
<1>4. CASE Opens
  <2>1. PICK p \in Players : ContinuesOrCloses(p, lastId + 1, 0, 0)
    BY <1>4 DEF Opens
  <2>2. ASSUME NEW next, Continues(next, 0), next.id = lastId + 1
        PROVE  commitment'[i] = NoSession
    BY <1>0, <2>2 DEF Continues
  <2>. QED
    BY <1>2, <2>1, <2>2 DEF ContinuesOrCloses, Live
<1>5. CASE Advances
  <2>1. PICK s \in emitted : /\ Loads(commitment, s)
                             /\ ContinuesOrCloses(s.player, s.id, s.step, s.escrow)
    BY <1>5 DEF Advances
  <2>2. s.id # i
    BY <1>0, <2>1, HostAssumption DEF Loads
  <2>3. ASSUME NEW next, Continues(next, s.escrow), next.id = s.id
        PROVE  commitment'[i] = NoSession
    BY <1>0, <2>2, <2>3 DEF Continues
  <2>. QED
    BY <1>2, <2>1, <2>3 DEF ContinuesOrCloses, Live
<1>6. CASE ClosesTwo
  BY <1>0, <1>6 DEF ClosesTwo, Deleted, Live
<1>. QED
  BY <1>1, <1>3, <1>4, <1>5, <1>6

\* The chain keeps the promise that the page makes to a game: for every game
\* and any interleaving of its sessions, the host implements SessionStream.
\* (stepIndex and the deletion of commitments against every caller.)
THEOREM HostStream == Spec => ChainStream
<1>. DEFINE shown == StreamOf(commitment, settlements)
<1>1. Init => StepsBounded /\ Stream!Init
  <2>. SUFFICES ASSUME Init PROVE StepsBounded /\ Stream!Init
    OBVIOUS
  <2>1. \A i \in SessionIds : commitment[i] = NoSession /\ settlements[i] = <<>>
    BY DEF Init
  <2>2. \A i \in SessionIds : SessionShown(commitment, settlements, i) = Stream!Absent
    BY <2>1 DEF SessionShown, Stream!Absent
  <2>3. StreamOf(commitment, settlements) = [i \in SessionIds |-> Stream!Absent]
    BY <2>2 DEF StreamOf
  <2>. QED
    BY <2>1, <2>3 DEF StepsBounded, Live, Stream!Init
<1>2. ASSUME IInv, StepsBounded, IInv', StepsBounded', Next
      PROVE  Stream!Push
  <2>1. /\ lastId <= lastId' /\ lastId' \in Nat /\ lastId \in Nat
        /\ SessionIds \subseteq Nat /\ MaxStep \in Nat
    BY <1>2, StepsStay, HostAssumption DEF IInv, TypeOK, SessionIds
  <2>2. ASSUME NEW i \in SessionIds
        PROVE  Shown(i)' \in Stream!Views /\ Forward(i)
    <3>1. ShownRight(i) /\ ShownRight(i)'
      BY <1>2, ShownIs, ShownNext DEF AllShownRight
    <3>2. /\ Shown(i)' \in Stream!Views
          /\ i \in Live => Shown(i).step \in 1..MaxStep
          /\ i \in Live' => Shown(i)'.step \in 1..MaxStep
          /\ i \notin Live' /\ i <= lastId' =>
               Shown(i)' = [phase |-> "OVER", step |-> MaxStep + 1]
      BY <3>1 DEF ShownRight
    <3>3. CASE i \in Live /\ i \in Live'
      <4>1. commitment'[i] = commitment[i] \/ commitment'[i].step > commitment[i].step
        BY <1>2, <3>3, LiveForward
      <4>. QED
        BY <3>1, <3>2, <3>3, <4>1 DEF ShownRight, Forward
    <3>4. CASE i \in Live /\ i \notin Live'
      <4>1. i <= lastId'
        BY <1>2, <2>1, <3>4 DEF IInv, LiveWellFormed
      <4>. QED
        BY <2>1, <3>2, <3>4, <4>1 DEF Forward
    <3>5. CASE i \notin Live /\ i <= lastId
      <4>1. i \notin Live' /\ i <= lastId'
        BY <1>2, <2>1, <3>5, OverStays
      <4>. QED
        BY <3>1, <3>2, <3>5, <4>1 DEF ShownRight, Forward
    <3>6. CASE i > lastId
      <4>1. Shown(i) = [phase |-> "ABSENT", step |-> -1]
        BY <3>1, <3>6 DEF ShownRight
      <4>2. CASE i > lastId'
        BY <3>1, <3>2, <4>1, <4>2 DEF ShownRight, Forward
      <4>3. CASE i <= lastId'
        BY <2>1, <3>2, <4>1, <4>3 DEF Forward
      <4>. QED
        BY <2>1, <4>2, <4>3
    <3>. QED
      BY <2>1, <3>3, <3>4, <3>5, <3>6
  <2>3. /\ shown' = [i \in SessionIds |-> Shown(i)']
        /\ shown = [i \in SessionIds |-> Shown(i)]
    BY DEF StreamOf, Shown
  <2>4. shown' \in [SessionIds -> Stream!Views]
    BY <2>2, <2>3
  <2>5. \A i \in SessionIds : shown'[i] = shown[i] \/ shown'[i].step > shown[i].step
    BY <2>2, <2>3 DEF Forward
  <2>. QED
    BY <2>4, <2>5 DEF Stream!Push
<1>3. ASSUME UNCHANGED vars
      PROVE  UNCHANGED shown /\ (StepsBounded => StepsBounded')
  BY <1>3 DEF vars, StreamOf, SessionShown, StepsBounded, Live
<1>4. IInv /\ IInv' /\ StepsBounded /\ [Next]_vars => StepsBounded' /\ [Stream!Push]_shown
  BY <1>2, <1>3, StepsStay
<1>. HIDE DEF shown
<1>. QED
  BY <1>1, <1>4, InitInv, StepInv, PTL DEF Spec, ChainStream, Stream!Spec, shown
=============================================================================
