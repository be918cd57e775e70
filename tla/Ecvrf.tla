-------------------------------- MODULE Ecvrf --------------------------------
(***************************************************************************)
(* The verifiable random function whose words decide the rounds            *)
(* (verify-network-ecvrf.ts): ECVRF over a group of prime order.           *)
(*                                                                         *)
(* A point is its discrete logarithm: the base point is 1, adding points   *)
(* and multiplying by a scalar are taken modulo the order, and 0 stands    *)
(* for coordinates that are no point of the curve.  The order here is a    *)
(* small prime; the equations are those of the large one.                  *)
(***************************************************************************)
EXTENDS Integers

CONSTANTS
  Q,           \* the group order
  CLimit       \* challenges are below it

\* The order is prime.
ASSUME EcvrfAssumption ==
  /\ Q \in Nat /\ CLimit \in 1..Q
  /\ \A a, b \in 1..(Q - 1) : (a * b) % Q # 0

Points == 1..(Q - 1)
NoPoint == 0
Mod(n) == n % Q

\* Keccak, SHA-256 and the curve give the rest of the suite: a challenge for
\* four points.  Any function does; this one mixes its arguments.
Challenge(points) ==
  (points[1] * points[1] + 3 * points[2] * points[2] * points[2]
     + 2 * points[3] * points[4] + 5 * points[4] + points[3]) % CLimit

Proof(gamma, c, s) == [gamma |-> gamma, c |-> c, s |-> s]
SentinelProof == Proof(NoPoint, 0, 0)
IsSentinel(proof) == proof.gamma = NoPoint

\* Of the point h that a key and a request id hash to.
Prove(x, h, nonce) ==
  LET gamma == Mod(h * x)
      c == Challenge(<<h, gamma, nonce, Mod(h * nonce)>>)
  IN  Proof(gamma, c, Mod(nonce + c * x))

\* The points whose challenge verify compares with c: H, Gamma, U and V.
\* Mutant: V is computed from the key and not from gamma.
CommittedKey(publicKey, h, proof) ==
  <<h, proof.gamma, Mod(proof.s - proof.c * publicKey),
    Mod(proof.s * h - proof.c * publicKey)>>
Committed(publicKey, h, proof) ==
  <<h, proof.gamma, Mod(proof.s - proof.c * publicKey),
    Mod(proof.s * h - proof.c * proof.gamma)>>

WellFormed(proof) == proof.c < CLimit /\ proof.s < Q /\ proof.gamma \in Points
Verify(publicKey, h, proof) ==
  /\ WellFormed(proof) /\ publicKey \in Points /\ h \in Points
  /\ Challenge(Committed(publicKey, h, proof)) = proof.c

\* The word of a proof depends on its gamma alone.
DeriveRandomness(proof) == IF IsSentinel(proof) THEN 0 ELSE proof.gamma

-----------------------------------------------------------------------------
\* An honest proof verifies; of the proofs for another gamma, at most one
\* challenge can be answered from the points a forger commits to, so he must
\* commit before he knows it; and no proof has a second form that verifies.
\* (verify recomputes U and V from s and c instead of reading them.)
ProofsSoundOn(x, h, proof) ==
  /\ \A nonce \in Points : Verify(x, h, Prove(x, h, nonce))
  /\ WellFormed(proof) =>
       \A c \in 0..(CLimit - 1), s \in 0..(2 * Q - 1) :
         LET other == Proof(proof.gamma, c, s)
         IN  /\ WellFormed(other)
             /\ Committed(x, h, other) = Committed(x, h, proof)
             => \/ other = proof
                \/ c # proof.c /\ proof.gamma = Mod(h * x)
=============================================================================
