----------------------- MODULE RandomnessVerification -----------------------
(***************************************************************************)
(* The verdict on the randomness of a session that the host page gives to  *)
(* a game (randomness-verification.ts, verify-network-router.ts): each     *)
(* request is checked against the transaction that fulfilled it.           *)
(*                                                                         *)
(* Hashes are injective: a request id is what was hashed into it, with the *)
(* curve point that it hashes to; a node is its key, and its address the   *)
(* same; a signature is who signed what, or one that the router rejects.   *)
(* An absent value is None.                                                *)
(***************************************************************************)
EXTENDS Ecvrf, SequencesExt

CONSTANTS
  None,
  Router, OtherRouter,
  Consumer,
  Nodes, First        \* keys of nodes, as points, and one of them

\* A request as the router assigns it, and its id.
Assigned(sequence, fulfiller) ==
  [consumer |-> Consumer, sequence |-> sequence, fulfiller |-> fulfiller]
ComputeRequestId(router, request) == [router |-> router, hashed |-> request]
\* hash-to-curve of a key and an id; of one request no key finds a point within
\* the cap.
Unprovable == 3
HashToCurve(publicKey, id) ==
  IF id.hashed.sequence = Unprovable THEN NoPoint
  ELSE 1 + ((id.hashed.sequence + publicKey) % (Q - 1))

ASSUME DeliveryAssumption ==
  /\ Q > 2
  /\ Nodes \subseteq Points /\ First \in Nodes
  /\ Router # OtherRouter /\ Router # None
  /\ None \notin Int
  /\ \A s \in {1, Unprovable} : ComputeRequestId(Router, Assigned(s, First)) # None

TypedData(router, id, proof) == [router |-> router, id |-> id, commitment |-> proof]
Signed(node, data) == [by |-> node, over |-> data]
Rejected == [by |-> None, over |-> None]     \* not 65 bytes, or a high s

\* The enclave that signed a fulfillment.  A signature of something else
\* recovers to a key, but to one that is nobody's.
RecoverFulfillmentSigner(router, id, proof, signature) ==
  IF signature = Rejected THEN None
  ELSE IF signature.over = TypedData(router, id, proof) THEN signature.by
  ELSE Mod(signature.by + 1) + Q

Log(address, id, randomness, proof, signature) ==
  [address |-> address, requestId |-> id, randomness |-> randomness, proof |-> proof,
   enclaveSignature |-> signature]

\* A transaction: the logs it left and the requests echoed in its calldata.  Of
\* each the first that fits, as its index, or 0 when there is none.
FindFulfillmentLog(transaction, router, id) ==
  SelectInSeq(transaction.logs, LAMBDA l : l.address = router /\ l.requestId = id)
FindEchoedRequest(transaction, router, id) ==
  SelectInSeq(transaction.echoes, LAMBDA r : ComputeRequestId(router, r) = id)

\* Rows from before the hash was recorded: the last log of the router has it.
FindFulfillmentTransaction(chain, router, id) ==
  LET last == SelectLastInSeq(chain, LAMBDA t : FindFulfillmentLog(t, router, id) # 0)
  IN  IF last = 0 THEN None ELSE chain[last].hash

\* Mutant: the recorded word is not compared.
ChecksUnrecorded(router, request, log, fulfiller) ==
  LET id == request.requestId
      signer == RecoverFulfillmentSigner(router, id, log.proof, log.enclaveSignature)
      proven == signer # None /\ Verify(signer, HashToCurve(signer, id), log.proof)
  IN  [vrfProofValid |-> proven,
       vrfBetaMatchesRandomness |-> proven /\ DeriveRandomness(log.proof) = log.randomness,
       enclaveSignatureValid |-> signer # None,
       signerMatchesFulfiller |-> signer # None /\ signer = fulfiller]
Checks(router, request, log, fulfiller) ==
  LET id == request.requestId
      signer == RecoverFulfillmentSigner(router, id, log.proof, log.enclaveSignature)
      proven == signer # None /\ Verify(signer, HashToCurve(signer, id), log.proof)
  IN  [vrfProofValid |-> proven,
       vrfBetaMatchesRandomness |->
         /\ proven /\ DeriveRandomness(log.proof) = log.randomness
         /\ request.randomness \in {None, log.randomness},
       enclaveSignatureValid |-> signer # None,
       signerMatchesFulfiller |-> signer # None /\ signer = fulfiller]

Unverified(request) ==
  [randomness |-> request.randomness, router |-> None, checked |-> FALSE, valid |-> FALSE]

\* verifyRequest; reads are the calls to the chain that do not fail.
VerifyRequest(chain, router, request, reads) ==
  LET id == request.requestId
      hash == IF request.transactionHash # None THEN request.transactionHash
              ELSE FindFulfillmentTransaction(chain, router, id)
      found == SelectInSeq(chain, LAMBDA t : t.hash = hash)
      at == FindFulfillmentLog(chain[found], router, id)
      log == chain[found].logs[at]
      echo == FindEchoedRequest(chain[found], router, id)
      fulfiller == IF echo = 0 THEN None ELSE chain[found].echoes[echo].fulfiller
      checks == Checks(router, request, log, fulfiller)
  IN  IF \/ request.transactionHash = None /\ "logs" \notin reads
         \/ {"receipt", "transaction"} \ reads # {}
         \/ hash = None \/ found = 0 \/ at = 0
      THEN Unverified(request)
      ELSE [randomness |-> IF request.randomness # None THEN request.randomness
                           ELSE log.randomness,
            router |-> log.randomness,
            checked |-> TRUE,
            valid |-> \A k \in DOMAIN checks : checks[k]]

\* verifySessionRandomness: nothing to verify against without a router, and
\* nothing to verify of a request that waits for its word.
VerifySession(chain, router, requests, reads) ==
  IF router = None THEN [supported |-> FALSE, requests |-> << >>]
  ELSE [supported |-> TRUE,
        requests |-> [i \in DOMAIN requests |->
                        IF requests[i].fulfilled
                        THEN VerifyRequest(chain, router, requests[i], reads)
                        ELSE Unverified(requests[i])]]

\* sessionRandomnessRequests: those a row lists, else the one that it names,
\* of which neither the word nor the transaction is known.
SessionRandomnessRequests(row) ==
  CASE row.requests # << >> -> row.requests
    [] row.requests = << >> /\ row.requestId = None -> << >>
    [] OTHER -> <<[requestId |-> row.requestId, fulfilled |-> row.fulfilled,
                   randomness |-> None, transactionHash |-> None]>>

\* getRandomnessVerification, of the row that is indexed for the session, with
\* its patch; it throws, and so gives no verdict, when there is none or when
\* the address of the router cannot be read.
GetRandomnessVerification(indexed, chain, router, reads) ==
  IF "address" \in reads
  THEN {VerifySession(chain, router, SessionRandomnessRequests(row), reads) : row \in indexed}
  ELSE {}

-----------------------------------------------------------------------------
(* The samples: a request, and a transaction that fulfils it, where each    *)
(* part is the right one or one of something else.                         *)

\* A request that only the patch knows of is not listed and has no word yet.
AnyDelivery ==
  [fulfiller : {First}, prover : Nodes, signer : Nodes,
   proof : {"made", "negated", "sentinel", "no point"},
   signature : {"this", "stale", "rejected"}, word : {"derived", "other"},
   echo : {"right", "other", "none"}, recorded : {"unknown", "router's", "other"},
   hashKnown : BOOLEAN, fault : {"none", "address", "receipt", "logs", "router"}, listed : BOOLEAN]
Deliveries == {d \in AnyDelivery : d.listed \/ (d.recorded = "unknown" /\ ~d.hashKnown)}

RequestOf(d) == Assigned(IF d.proof = "no point" THEN Unprovable ELSE 1, d.fulfiller)
RequestIdOf(d) == ComputeRequestId(Router, RequestOf(d))
ProofOf(d) ==
  LET made == Prove(d.prover, HashToCurve(d.prover, RequestIdOf(d)), 2)
  IN  CASE d.proof = "made" -> made
        [] d.proof = "negated" -> [made EXCEPT !.gamma = Q - @]
        [] d.proof \in {"sentinel", "no point"} -> SentinelProof
WordOf(d) == IF d.word = "derived" THEN DeriveRandomness(ProofOf(d)) ELSE Q
SignatureOf(d) ==
  CASE d.signature = "this" -> Signed(d.signer, TypedData(Router, RequestIdOf(d), ProofOf(d)))
    [] d.signature = "stale" -> Signed(d.signer, TypedData(Router, RequestIdOf(d), SentinelProof))
    [] d.signature = "rejected" -> Rejected
EchoesOf(d) ==
  CASE d.echo = "right" -> <<Assigned(2, d.fulfiller), RequestOf(d)>>
    [] d.echo = "other" -> <<Assigned(2, d.signer)>>
    [] d.echo = "none" -> << >>
ChainOf(d) ==
  <<[hash |-> 1, logs |-> << >>, echoes |-> << >>],
    [hash |-> 2, echoes |-> EchoesOf(d),
     logs |-> <<Log(IF d.fault = "router" THEN OtherRouter ELSE Router, RequestIdOf(d),
                   WordOf(d), ProofOf(d), SignatureOf(d))>>]>>
RecordedOf(d) ==
  CASE d.recorded = "unknown" -> None
    [] d.recorded = "router's" -> WordOf(d)
    [] d.recorded = "other" -> Q + 1
Recorded(d) ==
  [requestId |-> RequestIdOf(d), fulfilled |-> TRUE, randomness |-> RecordedOf(d),
   transactionHash |-> IF d.hashKnown THEN 2 ELSE None]
RowOf(d) ==
  [requests |-> IF d.listed THEN <<Recorded(d)>> ELSE << >>,
   requestId |-> RequestIdOf(d), fulfilled |-> d.listed]
Reads(d) == {"address", "receipt", "transaction", "logs"} \ {d.fault}

\* A request is called valid only for the word that the assigned node, and no
\* other, derives from its id, which the router logged and which is the word on
\* record; everything an honest node delivers is called valid; what cannot be
\* read, or waits for its word, is neither valid nor invalid; and a session that
\* is not indexed, or of which the router cannot be asked for, gets no verdict
\* instead of an empty one.
\* (docs/RANDOMNESS_VERIFICATION.md, checks; verifyRequest.)
VerdictTrueOn(d) ==
  LET Verdicts(indexed) ==
        GetRandomnessVerification(indexed, ChainOf(d), Router, Reads(d))
      verdict == (CHOOSE v \in Verdicts({RowOf(d)}) : TRUE).requests[1]
      readable == d.listed /\ d.fault \in ({"none"} \cup (IF d.hashKnown THEN {"logs"} ELSE {}))
      honest == /\ d.prover = d.fulfiller /\ d.signer = d.fulfiller
                /\ d.proof = "made" /\ d.signature = "this"
                /\ d.word = "derived" /\ d.echo = "right" /\ d.recorded # "other"
  IN  /\ Verdicts({}) = {}
      /\ Verdicts({RowOf(d)}) = {} <=> d.fault = "address"
      /\ d.fault # "address" =>
        /\ verdict.checked <=> readable
        /\ readable /\ honest => verdict.valid
        /\ verdict.valid =>
             /\ verdict.randomness = verdict.router /\ verdict.router = WordOf(d)
             /\ SignatureOf(d) = Signed(d.fulfiller, TypedData(Router, RequestIdOf(d), ProofOf(d)))
             /\ Verify(d.fulfiller, HashToCurve(d.fulfiller, RequestIdOf(d)), ProofOf(d))
             /\ WordOf(d) = DeriveRandomness(ProofOf(d))
=============================================================================
