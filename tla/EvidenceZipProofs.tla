-------------------------- MODULE EvidenceZipProofs --------------------------
(***************************************************************************)
(* What a verdict on an evidence ZIP means, for every set of versions,     *)
(* every set of editable members and any number of edits.                  *)
(***************************************************************************)
EXTENDS EvidenceZip, TLAPS

-----------------------------------------------------------------------------
(* Type correctness.                                                       *)

(* What the service writes has the type of its document.                   *)
LEMMA IssuedTypes ==
  ASSUME NEW v \in Versions
  PROVE  /\ IssuedZip(v) \in [Members -> Versions \cup {Null, Corrupt}]
         /\ IssuedProof(v) \in ProofDocs
<1>1. IssuedZip(v) \in [Members -> Versions \cup {Null, Corrupt}]
  BY DEF IssuedZip
<1>2. CaptureMode[v] \in Modes \cup {Null} /\ Bound[v] \subseteq Assets
  BY VersionAssumption
<1>3. Sha(MetaFile, v) \in Digests(MetaFile) /\ Sha(PayloadFile, v) \in Digests(PayloadFile)
  BY DEF Digests
<1>4. [a \in Assets |-> IF a \in Bound[v] THEN Sha(a, v) ELSE Null]
        \in [Assets -> (Assets \X Versions) \cup {Null}]
  BY <1>2 DEF Sha
<1>5. IssuedProof(v) \in ProofDocs
  BY <1>2, <1>3, <1>4 DEF IssuedProof, ProofDocs
<1>6. QED BY <1>1, <1>5

(* A recomputed listing is a well-typed manifest.files.                    *)
LEMMA ListingType ==
  ASSUME NEW z \in [Members -> Versions \cup {Null, Corrupt}],
         NEW pr \in ProofDocs \cup {Null}
  PROVE  ListingOf(z, pr) \in [Listable -> FileEntries \cup {Null, Malformed}]
<1>1. ASSUME NEW p \in Listable
      PROVE  (IF p = ProofFile THEN (IF pr = Null THEN Null ELSE Sha(ProofFile, pr))
              ELSE IF z[p] \in Versions THEN Sha(p, z[p]) ELSE Null)
             \in FileEntries \cup {Null, Malformed}
  <2>1. CASE p = ProofFile
    BY <2>1 DEF FileEntries, Sha
  <2>2. CASE p # ProofFile
    BY <2>2 DEF FileEntries, Sha, Listable
  <2>3. QED BY <2>1, <2>2
<1>2. QED BY <1>1 DEF ListingOf

LEMMA IssuedManifestType ==
  ASSUME NEW v \in Versions PROVE IssuedManifest(v) \in ManifestDocs
<1>1. ListingOf(IssuedZip(v), IssuedProof(v)) \in [Listable -> FileEntries \cup {Null, Malformed}]
  BY IssuedTypes, ListingType
<1>2. Sha(AnchorFile, v) \in Digests(AnchorFile)
  BY DEF Digests
<1>3. QED BY <1>1, <1>2 DEF IssuedManifest, ManifestDocs

LEMMA InitTypeOK == Init => TypeOK
<1> SUFFICES ASSUME Init PROVE TypeOK
  OBVIOUS
<1>1. issued \in Versions
  BY EditAssumption DEF Init
<1>2. /\ zip \in [Members -> Versions \cup {Null, Corrupt}]
      /\ proof \in ProofDocs /\ manifest \in ManifestDocs
  BY <1>1, IssuedTypes, IssuedManifestType DEF Init
<1>3. node \in NodeAnswers /\ userRoots \in BOOLEAN
  BY EditAssumption DEF Init
<1>4. NoResults \in [CheckNames -> Statuses \cup {Null}]
  BY DEF NoResults
<1>5. QED BY <1>1, <1>2, <1>3, <1>4, EditAssumption DEF Init, TypeOK, Stages

(* The status of each layer check is one of Statuses.                      *)
LEMMA OutcomeTypes ==
  /\ {check_bundle_integrity, check_cross_references, check_chain_integrity, check_eidas_signature,
      check_tsl_qualified, check_anchor_canonical_hash, check_file_digest, check_anchor_witness,
      check_tls_evidence, check_unlisted_files} \subseteq Statuses
  /\ {check_ots_receipt(node)} \subseteq Statuses
  /\ \A s \in Statuses \cup {Null} :
       {check_anchor_inclusion(s, node), check_sealed_identity(s)} \subseteq Statuses
  /\ check_tsa_trust_root(userRoots) \subseteq Statuses
<1>1. /\ {check_bundle_integrity, check_cross_references, check_chain_integrity} \subseteq Statuses
      /\ {check_eidas_signature, check_tsl_qualified, check_anchor_canonical_hash} \subseteq Statuses
  BY DEF Statuses, check_bundle_integrity, check_cross_references, check_chain_integrity,
         check_eidas_signature, check_tsl_qualified, check_anchor_canonical_hash
<1>2. /\ {check_file_digest, check_anchor_witness} \subseteq Statuses
      /\ {check_tls_evidence, check_unlisted_files, check_ots_receipt(node)} \subseteq Statuses
  BY DEF Statuses, check_file_digest, check_anchor_witness, check_tls_evidence,
         check_unlisted_files, check_ots_receipt
<1>3. ASSUME NEW s \in Statuses \cup {Null}
      PROVE  {check_anchor_inclusion(s, node), check_sealed_identity(s)} \subseteq Statuses
  BY DEF Statuses, check_anchor_inclusion, check_sealed_identity
<1>4. check_tsa_trust_root(userRoots) \subseteq Statuses
  BY DEF Statuses, check_tsa_trust_root
<1>5. QED BY <1>1, <1>2, <1>3, <1>4

(* The checks in the order verify_evidence_zip runs them; 0 outside the loop. *)
Rank(stage) ==
  IF stage = "bundle_integrity" THEN 1
  ELSE IF stage = "cross_references" THEN 2
  ELSE IF stage = "chain_integrity" THEN 3
  ELSE IF stage = "eidas_signature" THEN 4
  ELSE IF stage = "tsl_qualified" THEN 5
  ELSE IF stage = "anchor_canonical_hash" THEN 6
  ELSE IF stage = "ots_receipt" THEN 7
  ELSE IF stage = "file_digest" THEN 8
  ELSE IF stage = "anchor_witness" THEN 9
  ELSE IF stage = "tls_evidence" THEN 10
  ELSE IF stage = "anchor_inclusion" THEN 11
  ELSE IF stage = "tsa_trust_root" THEN 12
  ELSE IF stage = "unlisted_files" THEN 13
  ELSE IF stage = "sealed_identity" THEN 14
  ELSE IF stage = "summary" THEN 15 ELSE 0

(* The statuses check c may report of the package as it stands.            *)
Outcomes(c) ==
  IF c = "bundle_integrity" THEN {check_bundle_integrity}
  ELSE IF c = "cross_references" THEN {check_cross_references}
  ELSE IF c = "chain_integrity" THEN {check_chain_integrity}
  ELSE IF c = "eidas_signature" THEN {check_eidas_signature}
  ELSE IF c = "tsl_qualified" THEN {check_tsl_qualified}
  ELSE IF c = "anchor_canonical_hash" THEN {check_anchor_canonical_hash}
  ELSE IF c = "ots_receipt" THEN {check_ots_receipt(node)}
  ELSE IF c = "file_digest" THEN {check_file_digest}
  ELSE IF c = "anchor_witness" THEN {check_anchor_witness}
  ELSE IF c = "tls_evidence" THEN {check_tls_evidence}
  ELSE IF c = "anchor_inclusion" THEN {check_anchor_inclusion(results["eidas_signature"], node)}
  ELSE IF c = "tsa_trust_root" THEN check_tsa_trust_root(userRoots)
  ELSE IF c = "unlisted_files" THEN {check_unlisted_files}
  ELSE {check_sealed_identity(results["eidas_signature"])}

(* A step of check c: it raises, or it records its status and moves on.    *)
Records(c) ==
  /\ pc = c /\ UNCHANGED <<input, summary, exit>>
  /\ \/ pc' = "raised" /\ UNCHANGED results
     \/ /\ pc' \in LayerChecks \cup {"summary"} /\ Rank(pc') = Rank(c) + 1
        /\ \E status \in Outcomes(c) : results' = [results EXCEPT ![c] = status]

LEMMA LayerRecords == RunLayer => \E c \in LayerChecks : Records(c)
<1> SUFFICES ASSUME RunLayer PROVE \E c \in LayerChecks : Records(c)
  OBVIOUS
<1> USE DEF Layer, Go, Report, Records, Rank, Outcomes, LayerChecks
<1>1. CASE BundleIntegrity
  <2>1. Records("bundle_integrity")
    BY <1>1 DEF BundleIntegrity
  <2>2. QED BY <2>1
<1>2. CASE CrossReferences
  <2>1. Records("cross_references")
    BY <1>2 DEF CrossReferences
  <2>2. QED BY <2>1
<1>3. CASE ChainIntegrity
  <2>1. Records("chain_integrity")
    BY <1>3 DEF ChainIntegrity
  <2>2. QED BY <2>1
<1>4. CASE EidasSignature
  <2>1. Records("eidas_signature")
    BY <1>4 DEF EidasSignature
  <2>2. QED BY <2>1
<1>5. CASE TslQualified
  <2>1. Records("tsl_qualified")
    BY <1>5 DEF TslQualified
  <2>2. QED BY <2>1
<1>6. CASE AnchorHash
  <2>1. Records("anchor_canonical_hash")
    BY <1>6 DEF AnchorHash
  <2>2. QED BY <2>1
<1>7. CASE OtsReceipt
  <2>1. Records("ots_receipt")
    BY <1>7 DEF OtsReceipt
  <2>2. QED BY <2>1
<1>8. CASE FileDigest
  <2>1. Records("file_digest")
    BY <1>8 DEF FileDigest
  <2>2. QED BY <2>1
<1>9. CASE AnchorWitness
  <2>1. Records("anchor_witness")
    BY <1>9 DEF AnchorWitness
  <2>2. QED BY <2>1
<1>10. CASE TlsEvidence
  <2>1. Records("tls_evidence")
    BY <1>10 DEF TlsEvidence
  <2>2. QED BY <2>1
<1>11. CASE AnchorInclusion
  <2>1. Records("anchor_inclusion")
    BY <1>11 DEF AnchorInclusion
  <2>2. QED BY <2>1
<1>12. CASE TsaTrustRoot
  <2>1. Records("tsa_trust_root")
    BY <1>12 DEF TsaTrustRoot
  <2>2. QED BY <2>1
<1>13. CASE UnlistedFiles
  <2>1. Records("unlisted_files")
    BY <1>13 DEF UnlistedFiles
  <2>2. QED BY <2>1
<1>14. CASE SealedIdentity
  <2>1. Records("sealed_identity")
    BY <1>14 DEF SealedIdentity
  <2>2. QED BY <2>1
<1>15. QED BY <1>1, <1>2, <1>3, <1>4, <1>5, <1>6, <1>7, <1>8,
             <1>9, <1>10, <1>11, <1>12, <1>13, <1>14 DEF RunLayer

LEMMA OutcomesType ==
  ASSUME TypeOK, NEW c \in LayerChecks PROVE Outcomes(c) \subseteq Statuses
<1>1. results["eidas_signature"] \in Statuses \cup {Null}
  BY DEF TypeOK, CheckNames, LayerChecks
<1>2. QED BY <1>1, OutcomeTypes DEF Outcomes, LayerChecks

LEMMA RunLayerTypeOK == TypeOK /\ RunLayer => TypeOK'
<1> SUFFICES ASSUME TypeOK, RunLayer PROVE TypeOK'
  OBVIOUS
<1>1. PICK c \in LayerChecks : Records(c)
  BY LayerRecords
<1>2. UNCHANGED <<input, summary, exit>> /\ pc' \in Stages
  BY <1>1 DEF Records, Stages
<1>3. results' \in [CheckNames -> Statuses \cup {Null}]
  <2>1. c \in CheckNames /\ results \in [CheckNames -> Statuses \cup {Null}]
    BY DEF CheckNames, TypeOK
  <2>2. Outcomes(c) \subseteq Statuses
    BY OutcomesType
  <2>3. QED BY <1>1, <2>1, <2>2 DEF Records
<1>4. QED BY <1>2, <1>3 DEF TypeOK, input

(* What the holder does keeps the documents well-typed.                    *)
LEMMA HoldTypeOK == TypeOK /\ Hold => TypeOK'
<1> SUFFICES ASSUME TypeOK, Hold PROVE TypeOK'
  OBVIOUS
<1> DEFINE
  ZipType == zip' \in [Members -> Versions \cup {Null, Corrupt}]
  ProofType == proof' \in ProofDocs \cup {Null, Corrupt}
  ManifestType == manifest' \in ManifestDocs \cup {Null, Corrupt}
<1>1. /\ edits' \in 0..MaxEdits /\ archive' \in {"ok", "not_zip", "bad"}
      /\ UNCHANGED <<issued, node, userRoots, pc, results, summary, exit>>
  <2>1. CASE Relist
    BY <2>1 DEF Relist, TypeOK
  <2>2. CASE Editing /\ archive' \in {"ok", "not_zip", "bad"}
    BY <2>2, EditAssumption DEF Editing, TypeOK
  <2>3. QED BY <2>1, <2>2 DEF Hold, TypeOK, ReplaceMembers, RemoveMembers, DamageMembers, SetMembers,
                ReplaceProof, EditProof, SetProof, EditManifest, LoseManifest, SetManifest, BreakArchive
<1>2. ZipType /\ ProofType /\ ManifestType
  <2>1. ASSUME NEW bytes \in Versions \cup {Null, Corrupt}, NEW group, SetMembers(group, bytes)
        PROVE  ZipType /\ ProofType /\ ManifestType
    BY <2>1 DEF SetMembers, TypeOK
  <2>2. CASE ReplaceMembers \/ RemoveMembers \/ DamageMembers
    BY <2>1, <2>2 DEF ReplaceMembers, RemoveMembers, DamageMembers
  <2>3. CASE ReplaceProof
    BY <2>3, IssuedTypes DEF ReplaceProof, SetProof, TypeOK
  <2>4. CASE EditProof
    <3>1. proof \in ProofDocs
      BY <2>4 DEF EditProof, TypeOK
    <3>2. PICK v \in Versions \cup {Null} :
            \/ SetProof([proof EXCEPT !.proof_id = v])
            \/ \E k \in FactKeys : SetProof([proof EXCEPT !.facts[k] = v])
            \/ \E a \in Assets :
                 SetProof([proof EXCEPT !.hashes[a] = IF v = Null THEN Null ELSE Sha(a, v)])
            \/ SetProof([proof EXCEPT !.mode = IF v = Null THEN Null ELSE CaptureMode[v]])
            \/ SetProof([proof EXCEPT !.eidas = FALSE, !.payload_sha256 = Null])
      BY <2>4 DEF EditProof
    <3>3. (IF v = Null THEN Null ELSE CaptureMode[v]) \in Modes \cup {Null}
      BY VersionAssumption
    <3>4. CASE SetProof([proof EXCEPT !.proof_id = v])
      BY <3>1, <3>4 DEF SetProof, ProofDocs, TypeOK
    <3>5. CASE \E k \in FactKeys : SetProof([proof EXCEPT !.facts[k] = v])
      BY <3>1, <3>5 DEF SetProof, ProofDocs, TypeOK
    <3>6. CASE \E a \in Assets :
                 SetProof([proof EXCEPT !.hashes[a] = IF v = Null THEN Null ELSE Sha(a, v)])
      <4>1. PICK a \in Assets :
              SetProof([proof EXCEPT !.hashes[a] = IF v = Null THEN Null ELSE Sha(a, v)])
        BY <3>6
      <4>2. (IF v = Null THEN Null ELSE Sha(a, v)) \in (Assets \X Versions) \cup {Null}
        BY DEF Sha
      <4>3. QED BY <3>1, <4>1, <4>2 DEF SetProof, ProofDocs, TypeOK
    <3>7. CASE SetProof([proof EXCEPT !.mode = IF v = Null THEN Null ELSE CaptureMode[v]])
      BY <3>1, <3>3, <3>7 DEF SetProof, ProofDocs, TypeOK
    <3>8. CASE SetProof([proof EXCEPT !.eidas = FALSE, !.payload_sha256 = Null])
      BY <3>1, <3>8 DEF SetProof, ProofDocs, TypeOK
    <3>9. QED BY <3>2, <3>4, <3>5, <3>6, <3>7, <3>8
  <2>5. CASE EditManifest
    <3>1. manifest \in ManifestDocs
      BY <2>5 DEF EditManifest, TypeOK
    <3>2. ASSUME NEW entry \in {Null, Malformed}, NEW p,
                 SetManifest([manifest EXCEPT !.files[p] = entry])
          PROVE  ZipType /\ ProofType /\ ManifestType
      BY <3>1, <3>2 DEF SetManifest, ManifestDocs, TypeOK
    <3>3. CASE \/ \E v \in Versions : SetManifest([manifest EXCEPT !.proof_id = v])
               \/ SetManifest([manifest EXCEPT !.eidas = FALSE])
               \/ SetManifest([manifest EXCEPT !.format_ok = FALSE])
               \/ SetManifest([manifest EXCEPT !.anchor = FALSE, !.anchor_sha256 = Null,
                                               !.ots = FALSE])
      BY <3>1, <3>3 DEF SetManifest, ManifestDocs, TypeOK
    <3>4. QED BY <2>5, <3>2, <3>3 DEF EditManifest
  <2>6. CASE Relist
    <3>1. manifest \in ManifestDocs /\ proof \in ProofDocs \cup {Null}
      BY <2>6 DEF Relist, TypeOK
    <3>2. ListingOf(zip, proof) \in [Listable -> FileEntries \cup {Null, Malformed}]
      BY <3>1, ListingType DEF TypeOK
    <3>3. QED BY <2>6, <3>1, <3>2 DEF Relist, ManifestDocs, TypeOK
  <2>7. CASE LoseManifest \/ BreakArchive
    BY <2>7 DEF LoseManifest, SetManifest, BreakArchive, TypeOK
  <2>8. QED BY <2>2, <2>3, <2>4, <2>5, <2>6, <2>7 DEF Hold
<1>3. QED BY <1>1, <1>2 DEF TypeOK

LEMMA SummaryType ==
  ASSUME TypeOK, Summarise PROVE summary' \in Summaries
<1>1. Verdict \in Verdicts /\ qualified_status \in Qualified
  BY DEF Verdict, Verdicts, qualified_status, Qualified
<1>2. ReportedSealed \subseteq Listable
  <2>1. SealedAssets \subseteq Assets
    BY VersionAssumption DEF SealedAssets, PayloadFields
  <2>2. DerivedFiles \cup {TsrFile, PayloadFile} \subseteq Helpers
    BY DEF DerivedFiles, Helpers
  <2>3. QED BY <2>1, <2>2 DEF ReportedSealed, SealedFiles, Listable, Members
<1>3. unsealed_inventory(ReportedSealed) \subseteq Listable \cup {"manifest.json"}
  BY DEF unsealed_inventory, Listed
<1>4. QED
  BY <1>1, <1>2, <1>3 DEF Summarise, Summaries

LEMMA NextTypeOK == TypeOK /\ [Next]_vars => TypeOK'
<1> SUFFICES ASSUME TypeOK, [Next]_vars PROVE TypeOK'
  OBVIOUS
<1>1. CASE Hold
  BY <1>1, HoldTypeOK
<1>2. CASE Start
  BY <1>2 DEF Start, Go, input, Stages, TypeOK
<1>3. CASE OpenZip
  <2>1. UNCHANGED <<input, summary, exit>>
    BY <1>3 DEF OpenZip
  <2>2. pc' \in Stages
    BY <1>3 DEF OpenZip, Go, Stages, LayerChecks, TypeOK
  <2>3. results' \in [CheckNames -> Statuses \cup {Null}]
    BY <1>3 DEF OpenZip, Report, CheckNames, Statuses, TypeOK
  <2>4. QED BY <2>1, <2>2, <2>3 DEF TypeOK, input
<1>4. CASE RunLayer
  BY <1>4, RunLayerTypeOK
<1>5. CASE Summarise
  BY <1>5, SummaryType DEF Summarise, Go, input, Stages, TypeOK
<1>6. FailedSummary \in Summaries
  BY DEF FailedSummary, Summaries, Verdicts, Qualified
<1>7. CASE Return
  BY <1>6, <1>7 DEF Return, Go, input, Stages, TypeOK
<1>8. CASE Abort
  <2>1. results' \in [CheckNames -> Statuses \cup {Null}]
    BY <1>8 DEF Abort, NoResults, Statuses
  <2>2. QED BY <1>6, <1>8, <2>1 DEF Abort, Go, input, Stages, TypeOK
<1>9. CASE Exit
  BY <1>9 DEF Exit, exit_code, Go, input, Stages, TypeOK
<1>10. CASE UNCHANGED vars
  BY <1>10 DEF vars, TypeOK
<1>11. QED BY <1>1, <1>2, <1>3, <1>4, <1>5, <1>7, <1>8, <1>9, <1>10 DEF Next, Run

(* Every variable keeps its type: whatever is done to a package, the       *)
(* program only meets the documents, statuses and exit codes named here.   *)
THEOREM TypeCorrect == Spec => []TypeOK
BY InitTypeOK, NextTypeOK, PTL DEF Spec

-----------------------------------------------------------------------------
(* The verdict.  A check's status is a function of the package, and nothing *)
(* changes the package once the run has started: what the checks reported  *)
(* still holds when the summary is written.                                *)

LEMMA PackageStable ==
  ASSUME UNCHANGED input
  PROVE  /\ UNCHANGED <<check_bundle_integrity, check_cross_references, check_chain_integrity>>
         /\ UNCHANGED <<check_eidas_signature, check_tsl_qualified, check_anchor_canonical_hash>>
         /\ UNCHANGED <<check_ots_receipt(node), check_file_digest, check_anchor_witness>>
         /\ UNCHANGED <<check_tls_evidence, check_tsa_trust_root(userRoots), check_unlisted_files>>
<1> UNCHANGED <<zip, proof, manifest, archive, node, userRoots>>
  BY DEF input
<1>1. UNCHANGED check_bundle_integrity
  BY DEF check_bundle_integrity, Listed, Present, BytesAt, Listable
<1>2. UNCHANGED check_cross_references
  BY DEF check_cross_references, ShaMatch, PayloadFields
<1>3. UNCHANGED check_chain_integrity
  BY DEF check_chain_integrity
<1>4. UNCHANGED check_eidas_signature
  BY DEF check_eidas_signature, TokenVerifies, Token, TokenMissing, DeclaresEidas, DeclaredInDocs
<1>5. UNCHANGED <<check_tsl_qualified, check_anchor_canonical_hash, check_ots_receipt(node)>>
  BY DEF check_tsl_qualified, check_anchor_canonical_hash, check_ots_receipt, TokenCerts, Token,
         TrustedLists
<1>6. UNCHANGED <<check_file_digest, check_anchor_witness, check_tls_evidence>>
  BY DEF check_file_digest, check_anchor_witness, check_tls_evidence, ProofMode
<1>7. UNCHANGED check_tsa_trust_root(userRoots)
  BY DEF check_tsa_trust_root, Token
<1>8. UNCHANGED check_unlisted_files
  BY DEF check_unlisted_files, Unlisted, Listed, Present, BytesAt, Listable
<1>9. QED BY <1>1, <1>2, <1>3, <1>4, <1>5, <1>6, <1>7, <1>8

LEMMA EarlyOutcomesStable ==
  ASSUME UNCHANGED input, NEW c \in LayerChecks \ {"anchor_inclusion", "sealed_identity"}
  PROVE  Outcomes(c)' = Outcomes(c)
BY PackageStable DEF Outcomes, LayerChecks

LEMMA OutcomesStable ==
  ASSUME UNCHANGED <<input, results["eidas_signature"]>>, NEW c \in LayerChecks
  PROVE  Outcomes(c)' = Outcomes(c)
<1> UNCHANGED <<zip, proof, manifest, node, userRoots>>
  BY DEF input
<1>1. (check_anchor_inclusion(results["eidas_signature"], node))'
        = check_anchor_inclusion(results["eidas_signature"], node)
  BY DEF check_anchor_inclusion
<1>2. (check_sealed_identity(results["eidas_signature"]))'
        = check_sealed_identity(results["eidas_signature"])
  BY DEF check_sealed_identity, PayloadIdentityProblem, MetaSealed, SealedAssets, PayloadFields,
         CaptureModeProblem, NetworkDerivativeProblem
<1>3. QED BY <1>1, <1>2, PackageStable DEF Outcomes

(* While the checks run: every status recorded is the one the package       *)
(* still gives.                                                             *)
Recorded == \A c \in LayerChecks : Rank(c) < Rank(pc) => results[c] \in Outcomes(c)
Opened == Rank(pc) > 0 => archive = "ok" /\ proof # Corrupt /\ Readable(manifest)
Ordered ==
  /\ pc \notin {"returned", "exit", "done"} => summary = Null
  /\ pc \in {"exit", "done"} => summary # Null
  /\ pc # "done" => exit = Null
Attested ==
  /\ summary # Null /\ summary.verdict # "FAILED" => pc # "held" /\ Deserved(summary.verdict)
  /\ exit = 0 => summary.verdict = "VERIFIED"
SoundInv == TypeOK /\ Recorded /\ Opened /\ Ordered /\ Attested

(* No failed check and a verified timestamp: the package is sealed, and    *)
(* matches its manifest.                                                   *)
LEMMA VerdictSound ==
  ASSUME TypeOK, Recorded, Opened, pc = "summary", Verdict # "FAILED"
  PROVE  Deserved(Verdict)
<1> DEFINE v == Token
<1>1. \A c \in LayerChecks : results[c] \in Outcomes(c) /\ results[c] # "fail"
  BY DEF Recorded, Rank, Verdict, AnyFailed, CheckNames, LayerChecks
<1>2. /\ check_bundle_integrity # "fail" /\ check_cross_references # "fail"
      /\ check_unlisted_files # "fail" /\ results["eidas_signature"] = check_eidas_signature
      /\ check_eidas_signature # "fail" /\ check_sealed_identity(check_eidas_signature) # "fail"
      /\ check_tsa_trust_root(userRoots) # {"fail"}
  BY <1>1 DEF Outcomes, LayerChecks
<1>3. archive = "ok" /\ proof # Corrupt /\ Readable(manifest)
  BY DEF Opened, Rank
<1>4. MatchesManifest
  <2>1. \A p \in Listed : Present(p) /\ manifest.files[p] = Sha(p, BytesAt(p))
    BY <1>2 DEF check_bundle_integrity
  <2>2. \A p \in Listable : p \notin Listed /\ Present(p) => p = JunkFile
    BY <1>2 DEF check_unlisted_files, Unlisted
  <2>3. QED BY <1>3, <2>1, <2>2 DEF MatchesManifest
<1>5. CASE check_eidas_signature = "pass"
  <2>1. v \in Tokens /\ zip[PayloadFile] = v /\ v \in Versions
    BY <1>5, VersionAssumption DEF check_eidas_signature, TokenVerifies, Tokens
  <2>2. v \in TrustedVersions(userRoots)
    <3>1. zip[TsrFile] # Null
      BY <1>5 DEF check_eidas_signature, TokenMissing
    <3>2. QED BY <1>2, <2>1, <3>1 DEF check_tsa_trust_root, Tokens, TrustedVersions
  <2>3. Bound[v] \subseteq Assets /\ PayloadFields = Bound[v]
    BY <2>1, VersionAssumption DEF PayloadFields
  <2>4. Readable(proof)
    BY <1>2, <1>3 DEF check_cross_references, Readable
  <2>5. \A a \in Bound[v] : zip[a] = v
    <3>1. \A a \in Bound[v] : ShaMatch(a, Sha(a, v))
      BY <1>2, <2>1, <2>3 DEF check_cross_references
    <3>2. \A a \in Bound[v] : Sha(a, v) # Null
      BY <2>1, <2>3, MarkAssumption DEF Sha, FileEntries, Members
    <3>3. QED BY <3>1, <3>2 DEF ShaMatch, Sha
  <2>6. /\ ~PayloadIdentityProblem
        /\ MetaSealed => ~CaptureModeProblem /\ ~NetworkDerivativeProblem
    BY <1>2, <1>5 DEF check_sealed_identity
  <2>7. MetaFile \in Bound[v] => MetaSealed /\ zip[MetaFile] = v
    BY <2>1, <2>3, <2>5 DEF MetaSealed, SealedAssets
  <2>8. AgreesWith(v)
    <3>1. /\ manifest.proof_id \in {Null, v} /\ proof.proof_id \in {Null, v}
          /\ \A k \in FactKeys : proof.facts[k] \in {Null, v}
          /\ \A a \in Bound[v] : proof.hashes[a] \in {Null, Sha(a, v)}
      BY <2>1, <2>4, <2>6 DEF PayloadIdentityProblem, Readable
    <3>2. MetaFile \in Bound[v] /\ CaptureMode[v] # Null => proof.mode \in {Null, CaptureMode[v]}
      BY <2>4, <2>6, <2>7 DEF CaptureModeProblem, Readable
    <3>3. QED BY <1>3, <2>4, <3>1, <3>2 DEF AgreesWith
  <2>9. MetaFile \in Bound[v] => zip[TlsFile] \in {Null, v}
    BY <2>6, <2>7 DEF NetworkDerivativeProblem
  <2>10. Sealed
    BY <2>1, <2>2, <2>5, <2>8, <2>9 DEF Sealed, SealedBy
  <2>11. Verdict = "VERIFIED"
    BY <1>2, <1>5 DEF Verdict, TimestampVerified
  <2>12. QED BY <1>3, <1>4, <2>10, <2>11 DEF Deserved
<1>6. CASE check_eidas_signature # "pass"
  <2>1. TokenMissing /\ ~DeclaresEidas
    BY <1>2, <1>6 DEF check_eidas_signature
  <2>2. Verdict = "INTEGRITY_ONLY"
    BY <1>2, <1>6 DEF Verdict, TimestampVerified
  <2>3. QED BY <1>3, <1>4, <2>1, <2>2 DEF Deserved
<1>7. QED BY <1>5, <1>6

(* What a package deserves is a fact about the package.                    *)
LEMMA DeservedStable ==
  ASSUME UNCHANGED input, NEW d PROVE Deserved(d)' <=> Deserved(d)
<1> UNCHANGED <<zip, proof, manifest, archive, node, userRoots>>
  BY DEF input
<1>1. MatchesManifest' <=> MatchesManifest
  BY DEF MatchesManifest, Readable, Listed, Present, BytesAt, Listable
<1>2. Sealed' <=> Sealed
  BY DEF Sealed, TrustedVersions, SealedBy, Token, AgreesWith, Readable
<1>3. /\ TokenMissing' <=> TokenMissing
      /\ DeclaresEidas' <=> DeclaresEidas
  BY DEF TokenMissing, DeclaresEidas, DeclaredInDocs
<1>4. (\E v \in Versions : IntactPackage(v))' <=> \E v \in Versions : IntactPackage(v)
  BY DEF IntactPackage, Unchanged
<1>5. QED BY <1>1, <1>2, <1>3, <1>4 DEF Deserved

-----------------------------------------------------------------------------
(* Every step keeps SoundInv.                                              *)

LEMMA LayerSound == SoundInv /\ RunLayer => SoundInv'
<1> SUFFICES ASSUME SoundInv, RunLayer PROVE SoundInv'
  OBVIOUS
<1>1. PICK c \in LayerChecks : Records(c)
  BY LayerRecords
<1>2. UNCHANGED <<input, summary, exit>> /\ pc = c /\ Rank(c) > 0
      /\ pc' \in LayerChecks \cup {"summary", "raised"}
  BY <1>1 DEF Records, Rank, LayerChecks
<1>3. TypeOK'
  BY RunLayerTypeOK DEF SoundInv
<1>4. Recorded'
  <2> SUFFICES ASSUME NEW d \in LayerChecks, Rank(d) < Rank(pc')
               PROVE  results'[d] \in Outcomes(d)'
    BY DEF Recorded, Rank
  <2>1. pc' # "raised"
    BY DEF Rank, LayerChecks
  <2>2. PICK status \in Outcomes(c) : results' = [results EXCEPT ![c] = status]
    BY <1>1, <2>1 DEF Records
  <2>3. Rank(pc') = Rank(c) + 1
    BY <1>1, <2>1 DEF Records
  <2>4. DOMAIN results = CheckNames /\ "eidas_signature" \in CheckNames
    BY DEF SoundInv, TypeOK, CheckNames, LayerChecks
  <2>5. CASE c = "eidas_signature"
    <3>1. Rank(d) <= 4 /\ d # "anchor_inclusion" /\ d # "sealed_identity"
      BY <2>3, <2>5 DEF Rank, LayerChecks
    <3>2. Outcomes(d)' = Outcomes(d)
      BY <1>2, <3>1, EarlyOutcomesStable
    <3>3. d = c \/ Rank(d) < Rank(c)
      BY <2>3, <2>5 DEF Rank, LayerChecks
    <3>4. d # c => results[d] \in Outcomes(d)
      BY <1>2, <3>3 DEF SoundInv, Recorded
    <3>5. QED BY <2>2, <2>4, <3>2, <3>4 DEF CheckNames
  <2>6. CASE c # "eidas_signature"
    <3>1. Outcomes(d)' = Outcomes(d)
      BY <1>2, <2>2, <2>4, <2>6, OutcomesStable
    <3>2. d = c \/ Rank(d) < Rank(c)
      BY <2>3 DEF Rank, LayerChecks
    <3>3. d # c => results[d] \in Outcomes(d)
      BY <1>2, <3>2 DEF SoundInv, Recorded
    <3>4. QED BY <2>2, <2>4, <3>1, <3>3 DEF CheckNames
  <2>7. QED BY <2>5, <2>6
<1>5. Opened'
  BY <1>2 DEF SoundInv, Opened, input, Readable
<1>6. summary = Null /\ exit = Null
  BY <1>2 DEF SoundInv, Ordered, LayerChecks
<1>7. Ordered' /\ Attested'
  BY <1>2, <1>6, SummaryAssumption DEF Ordered, Attested, LayerChecks
<1>8. QED BY <1>3, <1>4, <1>5, <1>7 DEF SoundInv

LEMMA InitSound == Init => SoundInv
<1> SUFFICES ASSUME Init PROVE SoundInv
  OBVIOUS
<1>1. TypeOK
  BY InitTypeOK
<1>2. Recorded /\ Opened /\ Ordered /\ Attested
  BY SummaryAssumption DEF Init, Recorded, Opened, Ordered, Attested, Rank, LayerChecks
<1>3. QED BY <1>1, <1>2 DEF SoundInv

LEMMA NextSound == SoundInv /\ [Next]_vars => SoundInv'
<1> SUFFICES ASSUME SoundInv, [Next]_vars PROVE SoundInv'
  OBVIOUS
<1>1. TypeOK'
  BY NextTypeOK DEF SoundInv
<1>2. CASE Hold
  <2>1. pc = "held" /\ pc' = "held" /\ UNCHANGED <<summary, exit>>
    BY <1>2 DEF Hold, ReplaceMembers, RemoveMembers, DamageMembers, SetMembers, ReplaceProof, EditProof,
                SetProof, EditManifest, SetManifest, LoseManifest, BreakArchive, Relist, Editing
  <2>2. summary = Null /\ exit = Null
    BY <2>1 DEF SoundInv, Ordered
  <2>3. QED BY <1>1, <2>1, <2>2, SummaryAssumption
            DEF SoundInv, Recorded, Opened, Ordered, Attested, Rank, LayerChecks
<1>3. CASE Start
  BY <1>1, <1>3, SummaryAssumption
     DEF Start, Go, SoundInv, Recorded, Opened, Ordered, Attested, Rank, LayerChecks
<1>4. CASE OpenZip
  <2>1. UNCHANGED <<input, summary, exit>> /\ pc = "open"
    BY <1>4 DEF OpenZip
  <2>2. /\ pc' \in {"returned", "raised", "bundle_integrity"}
        /\ pc' = "bundle_integrity" => archive = "ok" /\ proof # Corrupt /\ Readable(manifest)
    BY <1>4 DEF OpenZip, Go, Readable, SoundInv, TypeOK
  <2>3. summary = Null /\ exit = Null
    BY <2>1 DEF SoundInv, Ordered
  <2>4. Recorded'
    BY <2>2 DEF Recorded, Rank, LayerChecks
  <2>5. Opened'
    BY <2>1, <2>2 DEF Opened, Rank, input, Readable
  <2>6. Ordered' /\ Attested'
    BY <2>1, <2>2, <2>3, SummaryAssumption DEF Ordered, Attested
  <2>7. QED BY <1>1, <2>4, <2>5, <2>6 DEF SoundInv
<1>5. CASE RunLayer
  BY <1>5, LayerSound
<1>6. CASE Summarise
  <2>1. /\ UNCHANGED <<input, exit>> /\ pc = "summary" /\ pc' = "returned"
        /\ summary'.verdict = Verdict /\ exit = Null
    BY <1>6 DEF Summarise, Go, SoundInv, Ordered
  <2>2. Verdict # "FAILED" => Deserved(Verdict)
    BY <2>1, VerdictSound DEF SoundInv
  <2>3. Attested'
    BY <2>1, <2>2, DeservedStable, SummaryAssumption DEF Attested
  <2>4. Recorded' /\ Opened' /\ Ordered'
    BY <2>1 DEF Recorded, Opened, Ordered, Rank, LayerChecks
  <2>5. QED BY <1>1, <2>3, <2>4 DEF SoundInv
<1>7. CASE Return
  <2>1. /\ UNCHANGED <<input, exit>> /\ pc = "returned" /\ pc' = "exit" /\ exit = Null
        /\ summary' = IF summary = Null THEN FailedSummary ELSE summary
    BY <1>7 DEF Return, Go, SoundInv, Ordered
  <2>2. FailedSummary # Null /\ FailedSummary.verdict = "FAILED"
    BY SummaryAssumption DEF FailedSummary, Summaries, Verdicts, Qualified
  <2>3. Attested'
    BY <2>1, <2>2, DeservedStable, SummaryAssumption DEF SoundInv, Attested
  <2>4. Recorded' /\ Opened' /\ Ordered'
    BY <2>1, <2>2 DEF Recorded, Opened, Ordered, Rank, LayerChecks
  <2>5. QED BY <1>1, <2>3, <2>4 DEF SoundInv
<1>8. CASE Abort
  <2>1. /\ UNCHANGED <<input, exit>> /\ pc = "raised" /\ pc' = "exit" /\ exit = Null
        /\ summary' = FailedSummary
    BY <1>8 DEF Abort, Go, SoundInv, Ordered
  <2>2. FailedSummary # Null /\ FailedSummary.verdict = "FAILED"
    BY SummaryAssumption DEF FailedSummary, Summaries, Verdicts, Qualified
  <2>3. Recorded' /\ Opened' /\ Ordered' /\ Attested'
    BY <2>1, <2>2, SummaryAssumption DEF Recorded, Opened, Ordered, Attested, Rank, LayerChecks
  <2>4. QED BY <1>1, <2>3 DEF SoundInv
<1>9. CASE Exit
  <2>1. /\ UNCHANGED <<input, summary>> /\ pc = "exit" /\ pc' = "done" /\ exit' = exit_code
    BY <1>9 DEF Exit, Go
  <2>2. summary \in Summaries
    BY <2>1 DEF SoundInv, TypeOK, Ordered
  <2>3. exit' = 0 => summary.verdict = "VERIFIED"
    BY <2>1, <2>2 DEF exit_code, Summaries, Verdicts
  <2>4. Attested'
    BY <2>1, <2>3, DeservedStable DEF SoundInv, Attested
  <2>5. Recorded' /\ Opened' /\ Ordered'
    BY <2>1 DEF SoundInv, Recorded, Opened, Ordered, Rank, LayerChecks
  <2>6. QED BY <1>1, <2>4, <2>5 DEF SoundInv
<1>10. CASE UNCHANGED vars
  <2>1. UNCHANGED input /\ UNCHANGED <<pc, results, summary, exit>>
    BY <1>10 DEF vars, input
  <2>2. Recorded'
    BY <2>1, OutcomesStable DEF SoundInv, Recorded, Rank
  <2>3. Attested'
    BY <2>1, DeservedStable DEF SoundInv, Attested
  <2>4. Opened' /\ Ordered'
    BY <2>1 DEF SoundInv, Opened, Ordered, Rank, input, Readable
  <2>5. QED BY <1>1, <2>2, <2>3, <2>4 DEF SoundInv
<1>11. QED BY <1>2, <1>3, <1>4, <1>5, <1>6, <1>7, <1>8, <1>9, <1>10 DEF Next, Run

(* Exit code 0 is only reached on a package in which every byte the token  *)
(* covers is as sealed under a trusted TSA, and whose documents contradict *)
(* nothing of it (README "Exit codes", "What VERIFIED means").             *)
THEOREM ExitZeroSound == Spec => []ExitZeroMeansSealed
<1>1. Spec => []SoundInv
  BY InitSound, NextSound, PTL DEF Spec
<1>2. SoundInv => ExitZeroMeansSealed
  <2> SUFFICES ASSUME SoundInv, exit = 0 PROVE Sealed
    BY DEF ExitZeroMeansSealed
  <2>1. summary # Null /\ summary.verdict = "VERIFIED"
    BY SummaryAssumption DEF SoundInv, Ordered, Attested, TypeOK, Stages
  <2>2. QED BY <2>1 DEF SoundInv, Attested, Deserved
<1>3. QED BY <1>1, <1>2, PTL

-----------------------------------------------------------------------------
(* No false alarm.  Every check of an intact package passes or is skipped,  *)
(* and none of them raises.                                                 *)

(* The named members are members, none of them the junk file or proof.json. *)
LEMMA Names ==
  /\ {TlsFile, PayloadFile, PayloadSidecar, MetaSidecar, TsrFile, EidasMetaFile, TslFile,
      OtherTslFile, PemFile, ChainFile, HeadFile, WitnessFile, AnchorFile, ReceiptFile, InclusionFile, FilesManifest,
      RetainedFile} \subseteq Members \ {JunkFile}
  /\ Assets \subseteq Members \ {JunkFile} /\ ProofFile \notin Members
<1> USE DEF TlsFile, PayloadFile, PayloadSidecar, MetaSidecar, TsrFile, EidasMetaFile, TslFile,
        OtherTslFile, TslFiles, PemFile, ChainFile, HeadFile, WitnessFile, AnchorFile, ReceiptFile, InclusionFile,
        FilesManifest, RetainedFile, ReportFile, ExtraFile, JunkFile, ProofFile, Helpers
<1>1. /\ {TlsFile, PayloadFile, PayloadSidecar, MetaSidecar, TsrFile, EidasMetaFile, TslFile,
          OtherTslFile, PemFile, ChainFile, HeadFile, WitnessFile, AnchorFile, ReceiptFile, InclusionFile, FilesManifest,
          RetainedFile} \subseteq Helpers \ {JunkFile}
      /\ JunkFile \in Helpers /\ ProofFile \notin Helpers
  OBVIOUS
<1>2. QED BY ONLY <1>1, PathAssumption DEF Members

LEMMA IntactParts ==
  ASSUME NEW v \in Versions, Unchanged(v)
  PROVE  /\ \A p \in Members \ {JunkFile} : zip[p] = IF p \in Ships[v] THEN v ELSE Null
         /\ Ships[v] \subseteq Members /\ Bound[v] \subseteq Assets
         /\ \A p \in Members : Sha(p, v) # Null
         /\ v # Null /\ v # Corrupt
         /\ proof \in ProofDocs /\ Readable(proof) /\ Readable(manifest)
<1>1. proof \in ProofDocs /\ manifest \in ManifestDocs
  BY IssuedTypes, IssuedManifestType DEF Unchanged
<1>2. \A p \in Members : Sha(p, v) # Null
  BY MarkAssumption DEF Sha, FileEntries
<1>3. QED BY <1>1, <1>2, VersionAssumption, MarkAssumption DEF Unchanged, IssuedZip, Readable

(* The manifest lists exactly what the package ships.                      *)
LEMMA IntactListing ==
  ASSUME NEW v \in Versions, Unchanged(v), JunkFile \notin Ships[v]
  PROVE  /\ Listed = Ships[v] \cup {ProofFile}
         /\ \A p \in Listed : /\ Present(p) /\ BytesAt(p) # Corrupt
                             /\ manifest.files[p] = Sha(p, BytesAt(p))
<1> USE IntactParts
<1>1. /\ manifest.files = ListingOf(IssuedZip(v), proof)
  BY DEF Unchanged, IssuedManifest
<1>2. Sha(ProofFile, proof) # Null /\ proof # Null /\ proof # Corrupt
  BY MarkAssumption DEF Sha, FileEntries, Readable
<1>3. ProofFile \notin Members
  BY Names
<1>4. \A p \in Members : manifest.files[p] = IF p \in Ships[v] THEN Sha(p, v) ELSE Null
  BY <1>1, <1>3, MarkAssumption DEF ListingOf, IssuedZip, Listable
<1>5. manifest.files[ProofFile] = Sha(ProofFile, proof)
  BY <1>1, <1>2 DEF ListingOf, Listable
<1>6. Listed = Ships[v] \cup {ProofFile}
  BY <1>2, <1>4, <1>5 DEF Listed, Listable
<1>7. \A p \in Ships[v] : BytesAt(p) = v
  BY <1>3 DEF BytesAt
<1>8. BytesAt(ProofFile) = proof
  BY DEF BytesAt
<1>9. QED BY <1>2, <1>4, <1>5, <1>6, <1>7, <1>8 DEF Present

LEMMA IntactOutcomes ==
  ASSUME NEW v \in Versions, IntactPackage(v), NEW c \in LayerChecks,
         c = "sealed_identity" => results["eidas_signature"] = check_eidas_signature
  PROVE  "fail" \notin Outcomes(c)
<1> DEFINE has(p) == p \in Ships[v]
<1> Unchanged(v) /\ Complete(v) /\ archive = "ok" /\ node # "rejects"
  BY DEF IntactPackage
<1> USE IntactParts
<1>1. /\ JunkFile \notin Ships[v] /\ ExtraFile \notin Ships[v]
      /\ {ChainFile, MetaFile, ContentFile} \subseteq Ships[v] /\ Bound[v] \subseteq Ships[v]
  BY DEF Complete
<1>2. /\ proof.proof_id = v /\ proof.facts = [k \in FactKeys |-> v]
      /\ proof.hashes = [a \in Assets |-> IF a \in Bound[v] THEN Sha(a, v) ELSE Null]
      /\ proof.mode = CaptureMode[v] /\ proof.meta = v
      /\ proof.source = IF CaptureMode[v] = "browser" THEN "browser_extension" ELSE "service"
      /\ proof.meta_sha256 = Sha(MetaFile, v) /\ proof.payload_sha256 = Sha(PayloadFile, v)
      /\ proof.eidas = has(TsrFile)
  BY DEF Unchanged, IssuedProof
<1>3. /\ manifest.proof_id = v /\ manifest.format_ok = TRUE /\ manifest.eidas = has(TsrFile)
      /\ manifest.anchor = has(AnchorFile) /\ manifest.ots = has(ReceiptFile)
      /\ manifest.anchor_sha256 = IF has(AnchorFile) THEN Sha(AnchorFile, v) ELSE Null
  BY DEF Unchanged, IssuedManifest
<1>4. /\ zip[TlsFile] = IF has(TlsFile) THEN v ELSE Null
      /\ zip[PayloadFile] = IF has(PayloadFile) THEN v ELSE Null
      /\ zip[PayloadSidecar] = IF has(PayloadSidecar) THEN v ELSE Null
      /\ zip[MetaSidecar] = IF has(MetaSidecar) THEN v ELSE Null
      /\ zip[TsrFile] = IF has(TsrFile) THEN v ELSE Null
      /\ zip[EidasMetaFile] = IF has(EidasMetaFile) THEN v ELSE Null
      /\ zip[TslFile] = IF has(TslFile) THEN v ELSE Null
      /\ zip[OtherTslFile] = IF has(OtherTslFile) THEN v ELSE Null
      /\ zip[PemFile] = IF has(PemFile) THEN v ELSE Null
      /\ zip[ChainFile] = IF has(ChainFile) THEN v ELSE Null
      /\ zip[HeadFile] = IF has(HeadFile) THEN v ELSE Null
      /\ zip[WitnessFile] = IF has(WitnessFile) THEN v ELSE Null
      /\ zip[AnchorFile] = IF has(AnchorFile) THEN v ELSE Null
      /\ zip[ReceiptFile] = IF has(ReceiptFile) THEN v ELSE Null
      /\ zip[InclusionFile] = IF has(InclusionFile) THEN v ELSE Null
      /\ zip[FilesManifest] = IF has(FilesManifest) THEN v ELSE Null
      /\ zip[RetainedFile] = IF has(RetainedFile) THEN v ELSE Null
  BY Names
<1>5. \A a \in Assets : zip[a] = IF has(a) THEN v ELSE Null
  BY Names
<1>6. zip[MetaFile] = v /\ zip[ContentFile] = v /\ \A a \in Bound[v] : zip[a] = v
  BY <1>1, <1>5, PathAssumption
<1>7. check_bundle_integrity # "fail"
  BY <1>1, <1>3, IntactListing DEF check_bundle_integrity
<1>8. check_cross_references # "fail"
  <2>1. \A a \in ProofHashed : ShaMatch(a, proof.hashes[a])
    BY <1>2, <1>6, PathAssumption DEF ShaMatch
  <2>2. ShaMatch(MetaFile, proof.meta_sha256)
    BY <1>2, <1>6 DEF ShaMatch
  <2>3. /\ zip[MetaSidecar] # Null => zip[MetaSidecar] = zip[MetaFile]
        /\ proof.meta = zip[MetaFile]
    BY <1>2, <1>4, <1>6
  <2>4. zip[PayloadSidecar] # Null /\ zip[PayloadFile] # Null =>
          /\ zip[PayloadSidecar] = zip[PayloadFile]
          /\ proof.payload_sha256 \in {Null, Sha(PayloadFile, zip[PayloadSidecar])}
    BY <1>2, <1>4
  <2>5. zip[PayloadFile] \in {v, Null}
    BY <1>4
  <2>6. \A a \in PayloadFields : ShaMatch(a, Sha(a, zip[PayloadFile]))
    BY <1>6, <2>5, MarkAssumption DEF PayloadFields, ShaMatch
  <2>7. QED BY <2>1, <2>2, <2>3, <2>4, <2>6, MarkAssumption DEF check_cross_references, Readable
<1>9. check_chain_integrity # "fail"
  BY <1>1, <1>4 DEF check_chain_integrity
<1>10. check_eidas_signature # "fail"
  <2>1. CASE has(TsrFile)
    <3>1. zip[TsrFile] = v /\ zip[PayloadFile] = v /\ v \in Tokens
      BY <1>4, <2>1 DEF Complete, Tokens
    <3>2. Token = v /\ Signer[v] \in Certs[v]
      BY <2>1, <3>1 DEF Token, StampOf, Complete
    <3>3. QED BY <3>1, <3>2 DEF check_eidas_signature, TokenVerifies, TokenMissing
  <2>2. CASE ~has(TsrFile)
    <3>1. zip[TsrFile] = Null /\ zip[EidasMetaFile] = Null
      BY <1>4, <2>2 DEF Complete
    <3>2. TsrFile \in Listable /\ TsrFile \notin Listed
      BY <1>1, <2>2, IntactListing, Names DEF Listable
    <3>3. ~DeclaresEidas
      BY <1>2, <1>3, <2>2, <3>1, <3>2, VersionAssumption, MarkAssumption
         DEF DeclaresEidas, DeclaredInDocs, Tokens, Listed
    <3>4. QED BY <3>1, <3>3 DEF check_eidas_signature, TokenMissing
  <2>3. QED BY <2>1, <2>2
<1>11. check_tsl_qualified # "fail"
  <2>1. CASE has(TsrFile) /\ TrustedLists # {}
    <3>1. zip[TsrFile] = v /\ v \in Tokens /\ Stamps[v] = v
      BY <1>4, <2>1 DEF Complete, Tokens
    <3>2. TokenCerts = Certs[v]
      BY <3>1 DEF TokenCerts, Token, StampOf
    <3>3. \A f \in TrustedLists : zip[f] = v /\ has(f)
      BY <1>4 DEF TrustedLists, TslFiles
    <3>4. v \notin BadLists /\ Certs[v] \cap QualifiedTsaCerts(v) # {}
      BY <2>1, <3>3 DEF Complete, TrustedLists
    <3>5. QED BY <2>1, <3>2, <3>3, <3>4 DEF check_tsl_qualified
  <2>2. CASE ~(has(TsrFile) /\ TrustedLists # {})
    BY <1>4, <2>2 DEF check_tsl_qualified
  <2>3. QED BY <2>1, <2>2
<1>12. check_anchor_canonical_hash # "fail"
  BY <1>3, <1>4 DEF check_anchor_canonical_hash
<1>13. check_ots_receipt(node) # "fail"
  BY <1>3, <1>4 DEF check_ots_receipt, Complete
<1>14. check_file_digest # "fail"
  <2>1. RetainedFile \in Ships[v] => zip[RetainedFile] = v
    BY <1>4
  <2>2. zip[FilesManifest] = IF has(FilesManifest) THEN v ELSE Null
    BY <1>4
  <2>3. ProofMode = CaptureMode[v] /\ (has(FilesManifest) <=> CaptureMode[v] = "file_digest")
    BY <1>2 DEF ProofMode, Complete, Readable
  <2>4. QED BY <1>6, <2>1, <2>2, <2>3 DEF check_file_digest
<1>15. check_anchor_witness # "fail"
  BY <1>4 DEF check_anchor_witness, Complete
<1>16. check_tls_evidence # "fail"
  BY <1>4, <1>5, PathAssumption DEF check_tls_evidence
<1>17. \A s : check_anchor_inclusion(s, node) # "fail"
  BY <1>3, <1>4 DEF check_anchor_inclusion, Complete
<1>18. "fail" \notin check_tsa_trust_root(userRoots)
  <2>1. zip[TsrFile] = (IF has(TsrFile) THEN v ELSE Null) /\ zip[PemFile] \in {v, Null}
    BY <1>4
  <2>2. has(TsrFile) => v \in Stamped /\ Token = v
    BY <2>1 DEF Complete, Token, StampOf
  <2>3. QED BY <2>1, <2>2 DEF check_tsa_trust_root, Tokens
<1>19. check_unlisted_files # "fail"
  <2>1. Unlisted \subseteq {JunkFile}
    <3> SUFFICES ASSUME NEW p \in Unlisted, p # JunkFile PROVE FALSE
      OBVIOUS
    <3>1. p \in Members /\ ~has(p) /\ p # ProofFile
      BY <1>1, IntactListing DEF Unlisted, Listable
    <3>2. BytesAt(p) = Null
      BY <3>1 DEF BytesAt
    <3>3. QED BY <3>2 DEF Unlisted, Present
  <2>2. QED BY <2>1 DEF check_unlisted_files
<1>20. c = "sealed_identity" => check_sealed_identity(results["eidas_signature"]) # "fail"
  <2> SUFFICES ASSUME check_eidas_signature = "pass"
               PROVE  check_sealed_identity("pass") # "fail"
    BY DEF check_sealed_identity
  <2>1. zip[TsrFile] # Null /\ zip[PayloadFile] # Null
    BY DEF check_eidas_signature, TokenMissing
  <2>2. zip[PayloadFile] = v /\ v \in KnownFormat
    BY <1>4, <2>1 DEF Complete
  <2>3. ~PayloadIdentityProblem
    BY <1>2, <1>3, <2>2, VersionAssumption DEF PayloadIdentityProblem
  <2>4. ~CaptureModeProblem
    BY <1>2, <1>6 DEF CaptureModeProblem
  <2>5. ~NetworkDerivativeProblem
    BY <1>4, <1>6 DEF NetworkDerivativeProblem
  <2>6. QED BY <2>2, <2>3, <2>4, <2>5 DEF check_sealed_identity
<1>21. QED BY <1>7, <1>8, <1>9, <1>10, <1>11, <1>12, <1>13, <1>14, <1>15, <1>16, <1>17, <1>18,
              <1>19, <1>20 DEF Outcomes, LayerChecks

(* Every member a check reads of an intact package can be read.            *)
LEMMA IntactReads ==
  ASSUME NEW v \in Versions, IntactPackage(v), RunLayer
  PROVE  pc' # "raised"
<1> Unchanged(v) /\ JunkFile \notin Ships[v]
  BY DEF IntactPackage, Complete
<1>1. \A p \in (Members \ {JunkFile}) \cup {ProofFile} : BytesAt(p) # Corrupt
  BY IntactParts, Names, MarkAssumption DEF BytesAt, Readable
<1>2. \A p \in IntegrityReads : BytesAt(p) # Corrupt
  BY IntactListing DEF IntegrityReads
<1>3. PayloadFields \subseteq Assets /\ ProofHashed \subseteq Assets
      /\ {MetaFile, ContentFile, LeafFile} \subseteq Assets
  BY VersionAssumption, PathAssumption DEF PayloadFields
<1>4. \A p \in CrossReads \cup ChainReads \cup EidasReads \cup TslReads \cup AnchorReads :
        BytesAt(p) # Corrupt
  <2>1. CrossReads \subseteq Members \ {JunkFile}
    BY <1>3, Names DEF CrossReads
  <2>2. ChainReads \cup EidasReads \cup TslReads \cup AnchorReads \subseteq Members \ {JunkFile}
    BY Names DEF ChainReads, EidasReads, TslReads, TslFiles, AnchorReads
  <2>3. QED BY <1>1, <2>1, <2>2
<1>5. \A p \in FileDigestReads \cup WitnessReads \cup TlsReads \cup TrustReads \cup {ReceiptFile} :
        BytesAt(p) # Corrupt
  <2>1. FileDigestReads \subseteq Members \ {JunkFile}
    BY <1>3, Names DEF FileDigestReads
  <2>2. WitnessReads \cup TlsReads \cup TrustReads \cup {ReceiptFile} \subseteq Members \ {JunkFile}
    BY <1>3, Names DEF WitnessReads, TlsReads, TrustReads
  <2>3. QED BY <1>1, <2>1, <2>2
<1>6. \A p \in IdentityReads(results["eidas_signature"]) : BytesAt(p) # Corrupt
  <2>1. IdentityReads(results["eidas_signature"]) \subseteq Members \ {JunkFile}
    BY <1>3, Names DEF IdentityReads
  <2>2. QED BY <1>1, <2>1
<1> USE DEF Layer, Go
<1>7. CASE BundleIntegrity \/ CrossReferences \/ ChainIntegrity \/ EidasSignature \/ TslQualified
  BY <1>2, <1>4, <1>7 DEF BundleIntegrity, CrossReferences, ChainIntegrity, EidasSignature,
     TslQualified
<1>8. CASE AnchorHash \/ OtsReceipt \/ FileDigest \/ AnchorWitness \/ TlsEvidence
  BY <1>4, <1>5, <1>8 DEF AnchorHash, OtsReceipt, FileDigest, AnchorWitness, TlsEvidence
<1>9. CASE AnchorInclusion \/ TsaTrustRoot \/ UnlistedFiles \/ SealedIdentity
  BY <1>5, <1>6, <1>9 DEF AnchorInclusion, TsaTrustRoot, UnlistedFiles, SealedIdentity
<1>10. QED BY <1>7, <1>8, <1>9 DEF RunLayer

(* An intact package is never rejected, at any step of the run.            *)
IntactInv ==
  /\ pc \in {"held", "open"} => results = NoResults
  /\ (\E v \in Versions : IntactPackage(v)) =>
       /\ pc # "raised"
       /\ \A c \in CheckNames : results[c] # "fail"
       /\ pc = "returned" => summary # Null
       /\ summary # Null => summary.verdict # "FAILED"

LEMMA InitIntact == Init => IntactInv
BY SummaryAssumption DEF Init, IntactInv, NoResults, CheckNames, Statuses

LEMMA LayerIntact ==
  ASSUME SoundInv, RunLayer, NEW v \in Versions, IntactPackage(v), \A c \in CheckNames : results[c] # "fail"
  PROVE  \A c \in CheckNames : results'[c] # "fail"
<1>1. PICK c \in LayerChecks : Records(c)
  BY LayerRecords
<1>2. PICK status \in Outcomes(c) : results' = [results EXCEPT ![c] = status]
  BY <1>1, IntactReads DEF Records
<1>3. c = "sealed_identity" => results["eidas_signature"] = check_eidas_signature
  BY <1>1 DEF Records, SoundInv, Recorded, Rank, LayerChecks, Outcomes
<1>4. "fail" \notin Outcomes(c)
  BY <1>3, IntactOutcomes
<1>5. DOMAIN results = CheckNames
  BY DEF SoundInv, TypeOK
<1>6. QED BY <1>2, <1>4, <1>5

LEMMA NextIntact == SoundInv /\ IntactInv /\ [Next]_vars => IntactInv'
<1> SUFFICES ASSUME SoundInv, IntactInv, [Next]_vars PROVE IntactInv'
  OBVIOUS
<1> DEFINE intact == \E v \in Versions : IntactPackage(v)
<1>1. UNCHANGED input => (intact' <=> intact)
  BY DEF input, IntactPackage, Unchanged
<1>2. \A c \in CheckNames : NoResults[c] # "fail"
  BY SummaryAssumption DEF NoResults, Statuses
<1>3. CASE Hold
  <2>1. pc = "held" /\ pc' = "held" /\ UNCHANGED <<summary, results>>
    BY <1>3 DEF Hold, ReplaceMembers, RemoveMembers, DamageMembers, SetMembers, ReplaceProof, EditProof,
                SetProof, EditManifest, SetManifest, LoseManifest, BreakArchive, Relist, Editing
  <2>2. summary = Null /\ results = NoResults
    BY <2>1 DEF SoundInv, Ordered, IntactInv
  <2>3. QED BY <1>2, <2>1, <2>2 DEF IntactInv
<1>4. CASE Start
  BY <1>1, <1>4 DEF Start, Go, IntactInv
<1>5. CASE OpenZip
  <2>1. UNCHANGED <<input, summary, exit>> /\ pc = "open"
    BY <1>5 DEF OpenZip
  <2>2. summary = Null /\ results = NoResults
    BY <2>1 DEF SoundInv, Ordered, IntactInv
  <2>3. pc' \notin {"held", "open"}
    BY <1>5 DEF OpenZip, Go, SoundInv, TypeOK
  <2>4. intact => archive = "ok" /\ proof # Corrupt /\ manifest \notin {Null, Corrupt}
    BY IntactParts DEF IntactPackage, Readable
  <2>5. intact => pc' = "bundle_integrity" /\ UNCHANGED results
    BY <1>5, <2>4 DEF OpenZip, Go
  <2>6. QED BY <1>1, <1>2, <2>1, <2>2, <2>3, <2>5 DEF IntactInv
<1>6. CASE RunLayer
  <2>1. UNCHANGED <<input, summary>> /\ pc \in LayerChecks /\ pc' \in LayerChecks \cup {"summary", "raised"}
    BY <1>6, LayerRecords DEF Records
  <2>2. summary = Null
    BY <2>1 DEF SoundInv, Ordered, LayerChecks
  <2>3. intact => pc' # "raised" /\ \A c \in CheckNames : results'[c] # "fail"
    BY <1>6, IntactReads, LayerIntact DEF IntactInv
  <2>4. QED BY <1>1, <2>1, <2>2, <2>3 DEF IntactInv, LayerChecks
<1>7. CASE Summarise
  <2>1. /\ UNCHANGED <<input, results>> /\ pc = "summary" /\ pc' = "returned"
        /\ summary'.verdict = Verdict
    BY <1>7 DEF Summarise, Go
  <2>2. summary' # Null
    BY <1>7, SummaryType, SummaryAssumption DEF SoundInv
  <2>3. intact => Verdict # "FAILED"
    <3> SUFFICES ASSUME intact PROVE Verdict # "FAILED"
      OBVIOUS
    <3>1. results["bundle_integrity"] = check_bundle_integrity
      BY <2>1 DEF SoundInv, Recorded, Rank, Outcomes, LayerChecks
    <3>2. results["bundle_integrity"] = "pass" /\ ~AnyFailed
      BY <3>1 DEF check_bundle_integrity, IntactInv, AnyFailed, CheckNames, LayerChecks
    <3>3. QED BY <3>2 DEF Verdict, AnyPassed, CheckNames, LayerChecks
  <2>4. QED BY <1>1, <2>1, <2>2, <2>3 DEF IntactInv
<1>8. CASE Return
  BY <1>1, <1>8 DEF Return, Go, IntactInv
<1>9. CASE Abort
  BY <1>1, <1>9 DEF Abort, Go, IntactInv
<1>10. CASE Exit
  BY <1>1, <1>10 DEF Exit, Go, IntactInv
<1>11. CASE UNCHANGED vars
  BY <1>1, <1>11 DEF vars, input, IntactInv
<1>12. QED BY <1>3, <1>4, <1>5, <1>6, <1>7, <1>8, <1>9, <1>10, <1>11 DEF Next, Run

(* The exit code is computed once, from the final report.                  *)
ExitInv == pc = "done" => exit = exit_code

LEMMA NextExit == SoundInv /\ ExitInv /\ [Next]_vars => ExitInv'
<1> SUFFICES ASSUME SoundInv, ExitInv, [Next]_vars, pc' = "done" PROVE exit' = exit_code'
  BY DEF ExitInv
<1>1. CASE Exit \/ UNCHANGED vars
  BY <1>1 DEF Exit, vars, exit_code, AnyFailed, ExitInv
<1>2. CASE Hold
  BY <1>2 DEF Hold, ReplaceMembers, RemoveMembers, DamageMembers, SetMembers, ReplaceProof, EditProof,
              SetProof, EditManifest, SetManifest, LoseManifest, BreakArchive, Relist, Editing
<1>3. CASE RunLayer
  BY <1>3, LayerRecords DEF Records, LayerChecks
<1>4. CASE Start \/ Summarise \/ Return \/ Abort
  BY <1>4 DEF Start, Summarise, Return, Abort, Go
<1>5. CASE OpenZip
  BY <1>5 DEF OpenZip, Go, SoundInv, TypeOK
<1>6. QED BY <1>1, <1>2, <1>3, <1>4, <1>5 DEF Next, Run

LEMMA Invariants == Spec => [](SoundInv /\ IntactInv /\ ExitInv)
<1>1. Init => ExitInv
  BY DEF Init, ExitInv
<1>2. QED BY <1>1, InitSound, NextSound, InitIntact, NextIntact, NextExit, PTL DEF Spec

(* A complete package that nobody changed always exits 0 with a timestamp  *)
(* and 4 without one: no check contradicts what the service itself writes, *)
(* whatever version, TSA list, node answer or trust option.                *)
THEOREM IntactAccepted == Spec => []IntactVerifies
<1>1. SoundInv /\ IntactInv /\ ExitInv => IntactVerifies
  <2> SUFFICES ASSUME SoundInv, IntactInv, ExitInv, exit # Null, IntactPackage(issued)
               PROVE  exit = IF TsrFile \in Ships[issued] THEN 0 ELSE 4
    BY DEF IntactVerifies
  <2>1. issued \in Versions /\ pc = "done"
    BY DEF SoundInv, TypeOK, Ordered
  <2>2. summary # Null /\ summary \in Summaries /\ summary.verdict # "FAILED"
    BY <2>1 DEF SoundInv, TypeOK, Ordered, IntactInv
  <2>3. summary.verdict \in {"VERIFIED", "INTEGRITY_ONLY"} /\ Deserved(summary.verdict)
    BY <2>2 DEF SoundInv, Attested, Summaries, Verdicts
  <2>4. ~AnyFailed
    BY <2>1 DEF IntactInv, AnyFailed
  <2>5. exit = IF summary.verdict = "VERIFIED" THEN 0 ELSE 4
    BY <2>1, <2>3, <2>4 DEF ExitInv, exit_code
  <2>6. /\ zip[TsrFile] = IF TsrFile \in Ships[issued] THEN issued ELSE Null
        /\ zip[PayloadFile] = IF PayloadFile \in Ships[issued] THEN issued ELSE Null
        /\ issued # Null
    BY <2>1, IntactParts, Names DEF IntactPackage
  <2>7. CASE summary.verdict = "VERIFIED"
    <3>1. PICK v \in TrustedVersions(userRoots) : Token = v
      BY <2>3, <2>7 DEF Deserved, Sealed, SealedBy
    <3>2. zip[TsrFile] # Null
      BY <3>1, VersionAssumption, MarkAssumption DEF TrustedVersions, Token, StampOf
    <3>3. QED BY <2>5, <2>6, <2>7, <3>2
  <2>8. CASE summary.verdict = "INTEGRITY_ONLY"
    <3>1. TokenMissing
      BY <2>3, <2>8 DEF Deserved
    <3>2. TsrFile \notin Ships[issued]
      BY <2>1, <2>6, <3>1 DEF TokenMissing, IntactPackage, Complete
    <3>3. QED BY <2>5, <2>8, <3>2
  <2>9. QED BY <2>3, <2>7, <2>8
<1>2. QED BY <1>1, Invariants, PTL

(* The run implements the abstract promise: the package changes hands until *)
(* the summary is written, the verdict is one the package deserves, and     *)
(* neither changes afterwards.                                              *)
THEOREM Implements == Spec => KeepsPromise
<1> DEFINE verdict == IF summary = Null THEN Null ELSE summary.verdict
           deserved == {d \in Verdicts : Deserved(d)}
<1>1. Init => Promise!Init
  BY DEF Init, Promise!Init
<1>2. SoundInv /\ IntactInv /\ SoundInv' /\ IntactInv' /\ [Next]_vars
        => [Promise!Next]_Promise!vars
  <2> SUFFICES ASSUME SoundInv, IntactInv, SoundInv', IntactInv', [Next]_vars
               PROVE  Promise!Next \/ UNCHANGED Promise!vars
    OBVIOUS
  <2> USE DEF Promise!Next, Promise!Change, Promise!Judge, Promise!vars
  <2>1. UNCHANGED input => UNCHANGED deserved
    BY DeservedStable
  <2>2. CASE Hold
    <3>1. pc = "held" /\ UNCHANGED summary
      BY <2>2 DEF Hold, ReplaceMembers, RemoveMembers, DamageMembers, SetMembers, ReplaceProof, EditProof,
                  SetProof, EditManifest, SetManifest, LoseManifest, BreakArchive, Relist, Editing
    <3>2. summary = Null
      BY <3>1 DEF SoundInv, Ordered
    <3>3. QED BY <3>1, <3>2
  <2>3. ASSUME UNCHANGED <<input, summary>>
        PROVE  UNCHANGED Promise!vars
    BY <2>1, <2>3
  <2>4. ASSUME UNCHANGED input, summary = Null, summary' # Null
        PROVE  Promise!Judge
    <3>1. summary' \in Summaries /\ summary'.verdict \in Verdicts
      BY <2>4 DEF SoundInv, TypeOK, Summaries
    <3>2. Deserved(summary'.verdict)
      <4>1. CASE summary'.verdict # "FAILED"
        BY <2>4, <4>1, DeservedStable DEF SoundInv, Attested
      <4>2. CASE summary'.verdict = "FAILED"
        <5>1. (~\E v \in Versions : IntactPackage(v))'
          BY <2>4, <4>2 DEF IntactInv
        <5>2. ~\E v \in Versions : IntactPackage(v)
          BY <2>4, <5>1 DEF input, IntactPackage, Unchanged
        <5>3. QED BY <4>2, <5>2 DEF Deserved
      <4>3. QED BY <4>1, <4>2
    <3>3. summary'.verdict \in deserved
      BY <3>1, <3>2
    <3>4. QED BY <2>1, <2>4, <3>3
  <2>5. CASE Start \/ OpenZip \/ RunLayer \/ Exit \/ UNCHANGED vars
    <3>1. UNCHANGED <<input, summary>>
      BY <2>5, LayerRecords DEF Start, OpenZip, Records, Exit, vars, input
    <3>2. QED BY <2>3, <3>1
  <2>6. CASE Summarise \/ Return \/ Abort
    <3>1. UNCHANGED input
      BY <2>6 DEF Summarise, Return, Abort
    <3>2. summary = Null \/ UNCHANGED summary
      BY <2>6 DEF Summarise, Return, Abort, SoundInv, Ordered
    <3>3. CASE UNCHANGED summary
      BY <2>3, <3>1, <3>3
    <3>4. CASE summary = Null /\ summary' # Null
      BY <2>4, <3>1, <3>4
    <3>5. QED BY <3>2, <3>3, <3>4
  <2>7. QED BY <2>2, <2>5, <2>6 DEF Next, Run
<1>3. QED BY <1>1, <1>2, Invariants, PTL DEF Spec, KeepsPromise, Promise!Spec

-----------------------------------------------------------------------------
(* The rest of the summary.                                                *)
Judged == SealedListSound /\ InventoryComplete /\ QualifiedMeansListed

(* What the status q of a verified package says of its lists and its token. *)
Qualifies(q) ==
  /\ q = IF TrustedLists = {} THEN "not_checked" ELSE "per_supplied_tsl"
  /\ q = "per_supplied_tsl" =>
       /\ \E f \in TrustedLists : \E s \in Services[zip[f]] :
            s.cert \in Certs[zip[TsrFile]] /\ s.type = "TSA/QTST" /\ s.status = "granted"
       /\ ~userRoots => Token \in Stamped

LEMMA SummaryJudged ==
  ASSUME SoundInv, Summarise PROVE Judged'
<1> DEFINE v == Token
<1>1. /\ pc = "summary" /\ UNCHANGED input
      /\ summary' = [verdict |-> Verdict, qualified |-> qualified_status, sealed |-> ReportedSealed,
                     not_sealed |-> unsealed_inventory(ReportedSealed)]
  BY DEF Summarise
<1>2. UNCHANGED <<zip, proof, manifest, userRoots>>
  BY <1>1 DEF input
<1>3. /\ results["eidas_signature"] = check_eidas_signature
      /\ results["tsl_qualified"] = check_tsl_qualified
      /\ results["unlisted_files"] = check_unlisted_files
      /\ results["tsa_trust_root"] \in check_tsa_trust_root(userRoots)
  BY <1>1 DEF SoundInv, Recorded, Rank, Outcomes, LayerChecks
<1>4. TimestampVerified => zip[PayloadFile] = v /\ v \in Tokens /\ zip[TsrFile] # Null
  BY <1>3 DEF TimestampVerified, check_eidas_signature, TokenVerifies, TokenMissing
<1>5. SealedListSound'
  <2>1. \A p \in ReportedSealed : p = TsrFile \/ zip[p] = v
    BY <1>4 DEF ReportedSealed, SealedFiles, SealedAssets, DerivedFiles, MetaSealed
  <2>2. UNCHANGED Token
    BY <1>2 DEF Token
  <2> QED BY <1>1, <1>2, <2>1, <2>2 DEF SealedListSound
<1>6. Verdict # "FAILED" => /\ results["unlisted_files"] # "fail"
                           /\ results["tsa_trust_root"] # "fail"
                           /\ results["tsl_qualified"] # "fail"
  BY DEF Verdict, AnyFailed, CheckNames, LayerChecks
<1>7. InventoryComplete'
  <2> SUFFICES ASSUME Verdict # "FAILED", NEW p \in Listable, Present(p)
               PROVE  p \in ReportedSealed \cup unsealed_inventory(ReportedSealed) \cup {JunkFile}
    BY <1>1, <1>2 DEF InventoryComplete, Present, BytesAt
  <2>1. Unlisted \subseteq {JunkFile}
    BY <1>3, <1>6 DEF check_unlisted_files
  <2> QED BY <2>1 DEF Unlisted, unsealed_inventory
<1>8. QualifiedMeansListed'
  <2> SUFFICES ASSUME Verdict = "VERIFIED" PROVE Qualifies(qualified_status)
    BY <1>1, <1>2 DEF QualifiedMeansListed, Qualifies, TrustedLists, Token
  <2>1. TimestampVerified /\ results["eidas_signature"] # "skip"
    BY DEF Verdict, TimestampVerified
  <2>2. check_tsl_qualified # "fail"
    BY <1>3, <1>6
  <2>3. CASE TrustedLists = {}
    BY <1>3, <2>1, <2>3 DEF check_tsl_qualified, qualified_status, Qualifies
  <2>4. CASE TrustedLists # {}
    <3>1. check_tsl_qualified = "pass" /\ qualified_status = "per_supplied_tsl"
      BY <1>3, <1>4, <2>1, <2>2, <2>4 DEF check_tsl_qualified, qualified_status
    <3>2. PICK f \in TrustedLists : TokenCerts \cap QualifiedTsaCerts(zip[f]) # {}
      BY <1>4, <2>1, <2>4, <3>1 DEF check_tsl_qualified
    <3>3. TokenCerts = Certs[zip[TsrFile]]
      BY <1>4, <2>1 DEF TokenCerts
    <3>4. \E s \in Services[zip[f]] :
            s.cert \in Certs[zip[TsrFile]] /\ s.type = "TSA/QTST" /\ s.status = "granted"
      BY <3>2, <3>3 DEF QualifiedTsaCerts
    <3>5. ~userRoots => Token \in Stamped
      BY <1>3, <1>4, <1>6, <2>1 DEF check_tsa_trust_root
    <3> QED BY <2>4, <3>1, <3>4, <3>5 DEF Qualifies
  <2> QED BY <2>3, <2>4
<1> QED BY <1>5, <1>7, <1>8 DEF Judged

LEMMA NextJudged == SoundInv /\ Judged /\ [Next]_vars => Judged'
<1> SUFFICES ASSUME SoundInv, Judged, [Next]_vars PROVE Judged'
  OBVIOUS
<1>1. CASE UNCHANGED <<input, summary>>
  <2>1. UNCHANGED <<zip, proof, userRoots, summary>>
    BY <1>1 DEF input
  <2> QED BY <2>1 DEF Judged, SealedListSound, InventoryComplete, QualifiedMeansListed, Present, BytesAt,
            TrustedLists, Token
<1>2. CASE summary' \in {Null, FailedSummary}
  BY <1>2 DEF Judged, SealedListSound, InventoryComplete, QualifiedMeansListed, FailedSummary
<1>3. CASE Hold
  <2>1. pc = "held" /\ UNCHANGED summary
    BY <1>3 DEF Hold, ReplaceMembers, RemoveMembers, DamageMembers, SetMembers, ReplaceProof, EditProof,
                SetProof, EditManifest, SetManifest, LoseManifest, BreakArchive, Relist, Editing
  <2> QED BY <1>2, <2>1 DEF SoundInv, Ordered
<1>4. CASE Start \/ OpenZip \/ RunLayer \/ Exit \/ UNCHANGED vars
  <2>1. UNCHANGED <<input, summary>>
    BY <1>4, LayerRecords DEF Start, OpenZip, Records, Exit, vars, input
  <2> QED BY <1>1, <2>1
<1>5. CASE Summarise
  BY <1>5, SummaryJudged
<1>6. CASE Return
  BY <1>1, <1>2, <1>6 DEF Return
<1>7. CASE Abort
  BY <1>2, <1>7 DEF Abort
<1> QED BY <1>3, <1>4, <1>5, <1>6, <1>7 DEF Next, Run

LEMMA JudgedAlways == Spec => []Judged
<1>1. Init => Judged
  BY DEF Init, Judged, SealedListSound, InventoryComplete, QualifiedMeansListed
<1> QED BY <1>1, NextJudged, Invariants, PTL DEF Spec

(* Whatever the verdict, what the summary calls sealed has the bytes that   *)
(* the token in the package covers.                                        *)
THEOREM SealedListed == Spec => []SealedListSound
BY JudgedAlways, PTL DEF Judged

(* Unless the verdict is FAILED, no member of the ZIP is left out of the    *)
(* two lists of the summary, but for what an operating system adds.        *)
THEOREM InventoryListed == Spec => []InventoryComplete
BY JudgedAlways, PTL DEF Judged

(* The qualified status of a VERIFIED package: not_checked exactly when no  *)
(* list is bundled, otherwise some certificate carried by the token is a    *)
(* granted timestamping service of a bundled list, and under the pinned     *)
(* roots the time-stamp is one of a TSA they trust.                         *)
THEOREM QualifiedListed == Spec => []QualifiedMeansListed
BY JudgedAlways, PTL DEF Judged
=============================================================================
