------------------------------- MODULE Anchor -------------------------------
(***************************************************************************)
(* The anchor layers of an evidence package: check_anchor_canonical_hash,  *)
(* check_ots_receipt and check_anchor_inclusion of core.py, the audit path *)
(* of module AuditPath among its steps, and _bitcoin_verify_via_node with  *)
(* a node whose chain may be reorganised, and that may go down and come    *)
(* back, between any two calls.                                            *)
(***************************************************************************)
EXTENDS AuditPath

CONSTANTS
  Packages,    \* packages and the options they are verified with, numbered
  Issued,      \* numbers of those the service writes, verified without a node
  Unreadable,  \* an inclusion.json that is not a JSON object
  Blocks,
  HeaderRoot,  \* HeaderRoot[b]: the merkle root in the header of block b
  Chains,      \* chains that may be the active one: blocks by height
  MaxMoves     \* what happens to the node during a run

PayloadFiles == {"anchor", "inclusion_anchor"}   \* anchor/<it>_payload.json, anchor/<it>_receipt.ots
(* What the path of an attestation makes of the digest of its receipt.      *)
Commit(digest, path) == <<"commit", digest, path>>

ASSUME AnchorAssumption ==
  /\ Null \notin Blocks \cup {"pass", "fail", "skip", "verified", "node_confirmed"} /\ MaxMoves \in Nat
  /\ Issued \subseteq DOMAIN Packages
  /\ \A c \in Chains : c \in Seq(Blocks)
  /\ \A p \in DOMAIN Packages : \A f \in PayloadFiles :
       LET receipt == Packages[p].receipts[f] IN
       receipt # Null => receipt.attestations = <<>> \/ Len(receipt.attestations) \in Nat \ {0}

(* What the service writes for leaf i of a tree over n leaves: the canonical *)
(* payload and the receipt over it, in the inclusion proof by name of file.  *)
IsAnchored(p, file, anchored) ==
  /\ p.payloads[file] = [payload |-> anchored, canonical |-> TRUE] /\ p.payloads[file] # Null
  /\ p.receipts[file] # Null /\ p.receipts[file].head = "v1" /\ p.receipts[file].digest = Sha(anchored)
  /\ p.receipts[file].tagged
IsInclusionOf(i, n, p, own) ==
  /\ own \notin {Null, Unreadable} /\ own.proof_id = p.proof_id /\ own.proof_id # Null /\ own.leaf_algo
  /\ own.eidas_payload_sha256 = Sha(p.eidas_payload)
  /\ own.leaf_hash = anchor_leaf_v3(p.proof_id, Sha(p.eidas_payload)) /\ Leaf(n, i) = LeafHash(own.leaf_hash)
  /\ own.leaf_index = i /\ own.leaf_count = n /\ own.merkle_root = Root(n) /\ own.merkle_root # Null
  /\ own.audit_path = PathOf[n][<<i, n-1>>] /\ own.audit_path # Null
  /\ own.anchor_payload # Null /\ own.anchor_payload.current
  /\ own.anchor_payload.merkle_root = own.merkle_root /\ own.anchor_payload.leaf_count = n
  /\ own.anchor_payload_sha256 = Sha(own.anchor_payload)
  /\ own.payload_file \in PayloadFiles /\ own.receipt_file = own.payload_file
  /\ IsAnchored(p, own.payload_file, own.anchor_payload)
IsIssued(p) ==
  /\ ~p.bitcoin_rpc /\ p.eidas_ok /\ p.anchor
  /\ p.eidas_payload # Null /\ p.eidas_payload.proof_id = p.proof_id
  /\ IsAnchored(p, "anchor", p.payloads["anchor"].payload)
  /\ p.anchor_sha256 = Sha(p.payloads["anchor"].payload)
  /\ \E n \in Sizes : \E i \in 0..n-1 : IsInclusionOf(i, n, p, p.inclusion)
ASSUME IssuedAssumption == \A p \in Issued : IsIssued(Packages[p])

VARIABLES
  given,      \* the number of the package
  node,       \* the Bitcoin node: active chain, up; all that was active at some time; moves left
  pc,
  rpc,        \* _bitcoin_verify_via_node: the attestation it is at, the block found for it,
              \* how many were verified, whether there was an error
  canonical,  \* status of anchor_canonical_hash
  ots,        \* status of ots_receipt and extra["bitcoin_verification"]
  failures, reasons,
  inclusion   \* extra["result"] of anchor_inclusion and extra["bitcoin_verification"]

vars == <<given, node, pc, rpc, canonical, ots, failures, reasons, inclusion, pathVars>>

pkg == Packages[given]
inc == pkg.inclusion
OtsReceipt == pkg.receipts["anchor"]
Receipt == IF inc.receipt_file \in PayloadFiles THEN pkg.receipts[inc.receipt_file] ELSE Null
MinedIn(chain) == {<<h, chain[h]>> : h \in 1..Len(chain)}

Init ==
  /\ PathInit /\ given \in DOMAIN Packages /\ pc = "canonical"
  /\ \E c \in (IF pkg.bitcoin_rpc THEN Chains ELSE {<<>>}), up \in BOOLEAN :
       /\ up => pkg.bitcoin_rpc
       /\ node = [chain |-> c, up |-> up, mined |-> MinedIn(c), moves |-> IF pkg.bitcoin_rpc THEN MaxMoves ELSE 0]
  /\ rpc = [k |-> 0, block |-> Null, verified |-> 0, errors |-> FALSE]
  /\ canonical = Null /\ ots = [status |-> Null, bitcoin |-> Null]
  /\ failures = {} /\ reasons = {} /\ inclusion = [result |-> Null, bitcoin |-> Null]

-----------------------------------------------------------------------------
(* check_anchor_canonical_hash and check_ots_receipt up to the node.        *)
Status(b) == IF b THEN "pass" ELSE "fail"
CanonicalHash ==
  /\ pc = "canonical" /\ pc' = "ots"
  /\ canonical' = IF ~pkg.anchor THEN "skip"
                  ELSE Status(/\ pkg.payloads["anchor"] # Null
                              /\ pkg.anchor_sha256 \in {Null, Sha(pkg.payloads["anchor"].payload)})
  /\ UNCHANGED <<given, node, rpc, ots, failures, reasons, inclusion, pathVars>>

\* Mutant: the digest in the receipt is not looked at.
OtsFault_AnyDigest == OtsReceipt.head = "other"
OtsFault == OtsReceipt.head = "other" \/ pkg.anchor_sha256 \notin {Null, OtsReceipt.digest}
OtsHeader ==
  /\ pc = "ots"
  /\ \/ /\ OtsReceipt = Null /\ pc' = "inclusion"
        /\ ots' = [ots EXCEPT !.status = IF pkg.ots THEN "fail" ELSE "skip"]
     \/ /\ OtsReceipt # Null /\ OtsFault /\ pc' = "inclusion"
        /\ ots' = [ots EXCEPT !.status = "fail"]
     \/ /\ OtsReceipt # Null /\ ~OtsFault /\ pkg.bitcoin_rpc /\ pc' = "parse" /\ UNCHANGED ots
     \/ /\ OtsReceipt # Null /\ ~OtsFault /\ ~pkg.bitcoin_rpc /\ pc' = "inclusion"
        /\ ots' = [ots EXCEPT !.status = "pass"]
  /\ UNCHANGED <<given, node, rpc, canonical, failures, reasons, inclusion, pathVars>>

-----------------------------------------------------------------------------
(* _bitcoin_verify_via_node, call by call, for the layer that asks.         *)
Asked == IF ots.status = Null THEN OtsReceipt ELSE Receipt
Answering == IF ots.status = Null THEN "ots_answer" ELSE "answer"
RpcFrame == UNCHANGED <<given, node, canonical, ots, failures, reasons, inclusion, pathVars>>
attestation == Asked.attestations[rpc.k]

Found == pkg.deps /\ Asked.parses /\ Asked.attestations # <<>>
Parse ==
  /\ pc = "parse" /\ pc' = (IF Found THEN "probe" ELSE Answering)
  /\ rpc' = [k |-> 1, block |-> Null, verified |-> 0, errors |-> ~pkg.deps \/ ~Asked.parses]
  /\ RpcFrame
\* Mutant: a node that does not answer has nothing against the receipt.
Probe_Tolerant ==
  /\ pc = "probe" /\ pc' = (IF node.up THEN "hash" ELSE Answering) /\ UNCHANGED rpc /\ RpcFrame
Probe ==
  /\ pc = "probe" /\ pc' = (IF node.up THEN "hash" ELSE Answering)
  /\ rpc' = [rpc EXCEPT !.errors = ~node.up] /\ RpcFrame
NextAttestation(verified, errors) ==
  rpc' = [rpc EXCEPT !.k = rpc.k + 1, !.verified = rpc.verified + verified, !.errors = rpc.errors \/ errors]
\* Mutant: a call that failed is made again.
GetBlockHash_Retry ==
  /\ pc = "hash" /\ rpc.k <= Len(Asked.attestations) /\ RpcFrame
  /\ IF node.up /\ attestation.height \in 1..Len(node.chain)
     THEN pc' = "header" /\ rpc' = [rpc EXCEPT !.block = node.chain[attestation.height]]
     ELSE pc' = "hash" /\ UNCHANGED rpc
\* Mutant: the last block of the chain is out of reach.
GetBlockHash_BelowTip ==
  /\ pc = "hash" /\ rpc.k <= Len(Asked.attestations) /\ RpcFrame
  /\ IF node.up /\ attestation.height \in 1..Len(node.chain)-1
     THEN pc' = "header" /\ rpc' = [rpc EXCEPT !.block = node.chain[attestation.height]]
     ELSE pc' = "hash" /\ NextAttestation(0, TRUE)
GetBlockHash ==
  /\ pc = "hash" /\ rpc.k <= Len(Asked.attestations) /\ RpcFrame
  /\ IF node.up /\ attestation.height \in 1..Len(node.chain)
     THEN pc' = "header" /\ rpc' = [rpc EXCEPT !.block = node.chain[attestation.height]]
     ELSE pc' = "hash" /\ NextAttestation(0, TRUE)
\* Mutant: the header of the block is fetched and not compared.
Matches_Exists == TRUE
Matches == HeaderRoot[rpc.block] = Commit(Asked.digest, attestation.path)
(* The node knows the header of a block that is no longer in its chain.      *)
GetBlockHeader ==
  /\ pc = "header" /\ pc' = "hash" /\ RpcFrame
  /\ IF node.up /\ Matches THEN NextAttestation(1, FALSE) ELSE NextAttestation(0, TRUE)
AllAsked == pc = "hash" /\ rpc.k > Len(Asked.attestations) /\ pc' = Answering /\ UNCHANGED rpc /\ RpcFrame
AskNode == Parse \/ Probe \/ GetBlockHash \/ GetBlockHeader \/ AllAsked

NodeMoves ==
  /\ pc # "done" /\ node.moves > 0
  /\ \E c \in Chains, up \in BOOLEAN :
       /\ <<c, up>> # <<node.chain, node.up>>
       /\ node' = [chain |-> c, up |-> up, mined |-> node.mined \cup MinedIn(c), moves |-> node.moves - 1]
  /\ UNCHANGED <<given, pc, rpc, canonical, ots, failures, reasons, inclusion, pathVars>>

Pending == IF pkg.deps THEN "pending_no_block_attestation" ELSE "skipped_deps_missing"
\* Mutant: one attestation that holds is enough.
BitcoinResult_One ==
  IF Found /\ rpc.verified > 0 THEN "node_confirmed" ELSE IF Found THEN "node_failed" ELSE Pending
\* Mutant: without an error there is nothing against the receipt.
BitcoinResult_NoError ==
  IF ~rpc.errors THEN "node_confirmed" ELSE IF Found THEN "node_failed" ELSE Pending
\* Mutant: only an attestation that was verified makes it one that can fail.
BitcoinResult_Pending ==
  IF Found /\ rpc.verified > 0 /\ ~rpc.errors THEN "node_confirmed"
  ELSE IF rpc.verified > 0 THEN "node_failed" ELSE Pending
BitcoinResult ==
  IF Found /\ rpc.verified > 0 /\ ~rpc.errors THEN "node_confirmed"
  ELSE IF Found /\ rpc.errors THEN "node_failed" ELSE Pending
OtsAnswer ==
  /\ pc = "ots_answer" /\ pc' = "inclusion"
  /\ ots' = [status |-> Status(BitcoinResult # "node_failed"), bitcoin |-> BitcoinResult]
  /\ UNCHANGED <<given, node, rpc, canonical, failures, reasons, inclusion, pathVars>>

-----------------------------------------------------------------------------
(* check_anchor_inclusion.  Done is its done().                             *)
If(b, e) == IF b THEN {e} ELSE {}
Result(bad, unsure) == IF bad # {} THEN "failed" ELSE IF unsure # {} THEN "unverifiable" ELSE "verified"
Done(bad, unsure, bitcoin) ==
  /\ pc' = "done" /\ failures' = bad /\ reasons' = unsure
  /\ inclusion' = [result |-> Result(bad, unsure), bitcoin |-> bitcoin]
InclusionFrame == UNCHANGED <<given, node, rpc, canonical, ots>>

NotPresent ==
  /\ pc = "inclusion" /\ inc = Null /\ pc' = "done"
  /\ inclusion' = [result |-> "not_present", bitcoin |-> Null]
  /\ UNCHANGED <<failures, reasons, pathVars>> /\ InclusionFrame
\* Mutant: the proof id is the one inclusion.json has for itself.
Usable_OwnId == inc # Unreadable /\ inc.proof_id # Null /\ inc.leaf_algo /\ pkg.eidas_payload # Null
Usable ==
  /\ inc # Unreadable /\ inc.proof_id # Null /\ inc.proof_id = pkg.proof_id /\ inc.leaf_algo
  /\ pkg.eidas_payload # Null
Refuse ==
  /\ pc = "inclusion" /\ inc # Null /\ ~Usable
  /\ Done({"inclusion"}, {}, Null) /\ UNCHANGED pathVars /\ InclusionFrame

\* Mutant: the leaf is taken from inclusion.json.
leaf_Given == inc.leaf_hash
leaf == anchor_leaf_v3(inc.proof_id, Sha(pkg.eidas_payload))
LeafFaults ==
  If(inc.eidas_payload_sha256 # Sha(pkg.eidas_payload), "eidas_payload_sha256")
  \cup If(pkg.eidas_payload.proof_id \notin {Null, inc.proof_id}, "eidas_payload_proof_id")
  \cup If(inc.leaf_hash # leaf, "leaf_hash")
RecomputeLeaf ==
  /\ pc = "inclusion" /\ inc # Null /\ Usable
  /\ Enter(leaf, inc.leaf_index, inc.leaf_count, inc.audit_path)
  /\ failures' = LeafFaults /\ pc' = "path" /\ UNCHANGED <<reasons, inclusion>> /\ InclusionFrame
AuditPath ==
  /\ pc = "path" /\ PathStep
  /\ UNCHANGED <<pc, failures, reasons, inclusion>> /\ InclusionFrame

PathFaults == failures \cup If(r = Null \/ r # inc.merkle_root, "audit_path")
ap == inc.anchor_payload
\* Mutant: the payload need not say how many leaves its tree has.
CommitsRoot_AnyCount == ap.current /\ ap.merkle_root = inc.merkle_root
CommitsRoot == ap.current /\ ap.merkle_root = inc.merkle_root /\ ap.leaf_count = inc.leaf_count
PayloadShipped ==
  inc.payload_file \in PayloadFiles /\ pkg.payloads[inc.payload_file] = [payload |-> ap, canonical |-> TRUE]
NoPayload ==
  /\ pc = "path" /\ loop = "ended" /\ ap = Null
  /\ Done(PathFaults \cup {"anchor_payload"}, reasons, Null) /\ UNCHANGED pathVars /\ InclusionFrame
AnchorPayload ==
  /\ pc = "path" /\ loop = "ended" /\ ap # Null /\ pc' = "receipt"
  /\ failures' = PathFaults \cup If(~CommitsRoot, "commits_root") \cup If(~PayloadShipped, "payload_file")
                 \cup If(inc.anchor_payload_sha256 # Sha(ap), "anchor_payload_sha256")
  /\ UNCHANGED <<reasons, inclusion, pathVars>> /\ InclusionFrame

NoReceipt ==
  /\ pc = "receipt" /\ Receipt = Null
  /\ Done(failures \cup {"receipt"}, reasons, Null) /\ UNCHANGED pathVars /\ InclusionFrame
_receipt_state ==
  IF Receipt.head # "v1" THEN "receipt_unparsed"
  ELSE IF Receipt.digest # Sha(ap) THEN "mismatch"
  ELSE IF ~Receipt.tagged THEN "receipt_no_attestation" ELSE "commits"
ReceiptFaults == failures \cup If(_receipt_state = "mismatch", "receipt")
CheckReceipt ==
  /\ pc = "receipt" /\ Receipt # Null /\ failures' = ReceiptFaults
  /\ reasons' = If(_receipt_state \notin {"commits", "mismatch"}, _receipt_state)
                \cup If(~pkg.eidas_ok, "eidas_timestamp_not_verified")
  /\ pc' = IF pkg.bitcoin_rpc /\ ReceiptFaults = {} /\ _receipt_state = "commits" THEN "parse" ELSE "unasked"
  /\ UNCHANGED <<inclusion, pathVars>> /\ InclusionFrame
Unasked == pc = "unasked" /\ Done(failures, reasons, Null) /\ UNCHANGED pathVars /\ InclusionFrame
Answer ==
  /\ pc = "answer"
  /\ Done(failures \cup If(BitcoinResult = "node_failed", "bitcoin"), reasons, BitcoinResult)
  /\ UNCHANGED pathVars /\ InclusionFrame

CheckInclusion ==
  NotPresent \/ Refuse \/ RecomputeLeaf \/ AuditPath \/ NoPayload \/ AnchorPayload \/ NoReceipt
  \/ CheckReceipt \/ Unasked \/ Answer
Verify == CanonicalHash \/ OtsHeader \/ AskNode \/ OtsAnswer \/ CheckInclusion
Next == Verify \/ NodeMoves
Spec == Init /\ [][Next]_vars /\ WF_vars(Verify)

-----------------------------------------------------------------------------
Places == {"canonical", "ots", "parse", "probe", "hash", "header", "ots_answer", "inclusion", "path",
           "receipt", "unasked", "answer", "done"}
Bitcoins == {Null, "node_confirmed", "node_failed", "skipped_deps_missing", "pending_no_block_attestation"}
TypeOK ==
  /\ pc \in Places /\ loop \in {"idle", "for", "while", "ended"}
  /\ fn \in Nat /\ sn \in Nat /\ fn <= sn
  /\ node.chain \in Chains \cup {<<>>} /\ node.up \in BOOLEAN /\ node.moves \in 0..MaxMoves
  /\ rpc.k \in Nat /\ rpc.block \in Blocks \cup {Null} /\ rpc.verified \in Nat /\ rpc.errors \in BOOLEAN
  /\ pc \in {"hash", "header"} => rpc.verified < rpc.k
  /\ canonical \in {"pass", "fail", "skip", Null} /\ ots.status \in {"pass", "fail", "skip", Null}
  /\ ots.bitcoin \in Bitcoins /\ inclusion.bitcoin \in Bitcoins
  /\ inclusion.result \in {"verified", "unverifiable", "not_present", "failed", Null}

(* "is this proof's eIDAS-stamped payload a leaf of the Merkle tree          *)
(* committed by the OpenTimestamps anchor?" (docstring): where the answer is *)
(* verified and the payload committed is that of some tree, the payload of   *)
(* the package, under its own proof id, is the leaf of that tree at the very *)
(* index that is reported, its timestamp verified, and the receipt is over   *)
(* the digest of the payload that is shipped.                                *)
OfTree(payload, n) == payload.merkle_root = Root(n) /\ payload.leaf_count = n
VerifiedMeansLeaf ==
  inclusion.result = "verified" =>
    /\ pkg.eidas_ok /\ Receipt.digest = Sha(ap) /\ PayloadShipped
    /\ pkg.eidas_payload.proof_id \in {Null, pkg.proof_id}
    /\ \A n \in Sizes : OfTree(ap, n) =>
         Leaf(n, inc.leaf_index) = LeafHash(anchor_leaf_v3(pkg.proof_id, Sha(pkg.eidas_payload)))

(* What the service writes for any leaf of any tree is never called a        *)
(* failure for as long as no node is asked, and is verified.                 *)
IssuedVerifies ==
  given \in Issued /\ pc = "done" =>
    canonical = "pass" /\ ots.status = "pass" /\ inclusion.result = "verified"

(* "recomputed merkle root == block header merkleroot": confirmed by the     *)
(* node means that there is an attestation and that for every one a block    *)
(* with that root was in the active chain at its height at some time of the  *)
(* run, over the digest of the anchor payload the inclusion proof is for.    *)
Mined(receipt) ==
  /\ receipt.attestations # <<>>
  /\ \A k \in 1..Len(receipt.attestations) : \E b \in Blocks :
       /\ <<receipt.attestations[k].height, b>> \in node.mined
       /\ HeaderRoot[b] = Commit(receipt.digest, receipt.attestations[k].path)
ConfirmedMeansMined ==
  /\ ots.bitcoin = "node_confirmed" => Mined(OtsReceipt) /\ pkg.anchor_sha256 \in {Null, OtsReceipt.digest}
  /\ inclusion.bitcoin = "node_confirmed" => Mined(Receipt) /\ Receipt.digest = Sha(ap)

(* "There IS a Bitcoin attestation but the node check failed - that is a     *)
(* genuine verification failure, not a pending": asked with what it takes to *)
(* ask, a layer passes a receipt with attestations only when all of them are *)
(* confirmed, whatever becomes of the node between two calls.                *)
Attested(receipt) ==
  pkg.bitcoin_rpc /\ pkg.deps /\ receipt # Null /\ receipt.parses /\ receipt.attestations # <<>>
AttestedNeverPending ==
  /\ Attested(OtsReceipt) /\ ots.status = "pass" => ots.bitcoin = "node_confirmed"
  /\ inclusion.result = "verified" /\ Attested(Receipt) => inclusion.bitcoin = "node_confirmed"

(* No false alarm: a node that is up and whose chain does not change         *)
(* confirms a receipt all attestations of which its chain bears out.         *)
BorneOut(receipt) ==
  \A k \in 1..Len(receipt.attestations) :
    LET a == receipt.attestations[k] IN
    a.height \in 1..Len(node.chain) /\ HeaderRoot[node.chain[a.height]] = Commit(receipt.digest, a.path)
StableNodeConfirms ==
  /\ ots.status # Null /\ Attested(OtsReceipt) /\ node.moves = MaxMoves /\ node.up
  /\ ~OtsFault /\ BorneOut(OtsReceipt)
  => ots.bitcoin = "node_confirmed"

(* The verifier answers whatever the node does: a call that fails is not     *)
(* made again, and both loops over the audit path end.                       *)
AlwaysAnswers == <>(pc = "done")
=============================================================================
