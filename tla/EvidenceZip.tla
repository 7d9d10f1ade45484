----------------------------- MODULE EvidenceZip -----------------------------
(***************************************************************************)
(* verify_evidence_zip of core.py under dispatch.verify_bytes and          *)
(* cli.exit_code, run on a package that was issued, handed around and      *)
(* re-packed: the holder may replace, remove or damage members and rewrite *)
(* proof.json and manifest.json, at most MaxEdits times, before the run.   *)
(***************************************************************************)
EXTENDS EvidenceSeal

CONSTANTS
  Issued,     \* the versions packages are made of, by the service or by others
  MaxEdits,   \* bound on the changes made to a package before it is verified
  Editable,   \* the groups of members those changes touch together
  Options     \* the command lines: what --bitcoin-rpc answers, --trust-root given

ASSUME EditAssumption ==
  /\ Issued \subseteq Versions /\ MaxEdits \in Nat /\ Editable \subseteq SUBSET Members
  /\ Options \subseteq NodeAnswers \X BOOLEAN

VARIABLES
  issued,     \* the version the package was made as
  archive,    \* the ZIP container: "ok", "not_zip" (BadZipFile), "bad" (zip_structure_problems)
  edits,      \* changes made so far
  node, userRoots,   \* --bitcoin-rpc: what the node answers; --trust-root given
  pc,         \* the step verify_evidence_zip is about to take
  results,    \* report.checks: status per check name, Null when not in the report
  summary,    \* report.summary, Null while {}
  exit        \* the process's exit code, Null while it runs

vars == <<zip, proof, manifest, issued, archive, edits, node, userRoots,
          pc, results, summary, exit>>
input == <<zip, proof, manifest, issued, archive, edits, node, userRoots>>

LayerChecks == {"bundle_integrity", "cross_references", "chain_integrity", "eidas_signature",
                "tsl_qualified", "anchor_canonical_hash", "ots_receipt", "file_digest",
                "anchor_witness", "tls_evidence", "anchor_inclusion", "tsa_trust_root",
                "unlisted_files", "sealed_identity"}
CheckNames == LayerChecks \cup {"zip_open", "zip_structure", "manifest_load", "internal_error"}
Statuses == {"pass", "fail", "skip", "info"}
Verdicts == {"VERIFIED", "FAILED", "INTEGRITY_ONLY"}
Qualified == {"per_supplied_tsl", "not_checked", "failed", Null}
Summaries == [verdict : Verdicts, qualified : Qualified,
              sealed : SUBSET Listable, not_sealed : SUBSET (Listable \cup {"manifest.json"})]
ASSUME SummaryAssumption == Null \notin Summaries \cup Verdicts \cup Statuses \cup {0, 1, 4}
NoResults == [c \in CheckNames |-> Null]
Stages == LayerChecks \cup {"held", "open", "summary", "returned", "raised", "exit", "done"}

Init ==
  /\ issued \in Issued
  /\ zip = IssuedZip(issued)
  /\ proof = IssuedProof(issued)
  /\ manifest = IssuedManifest(issued)
  /\ archive = "ok" /\ edits = 0
  /\ \E o \in Options : node = o[1] /\ userRoots = o[2]
  /\ pc = "held" /\ results = NoResults /\ summary = Null /\ exit = Null

-----------------------------------------------------------------------------
(* The holder's side (no code of the repository): what the tests do to a   *)
(* package before they verify it.                                          *)

Editing ==
  /\ pc = "held" /\ edits < MaxEdits
  /\ edits' = edits + 1
  /\ UNCHANGED <<issued, node, userRoots, pc, results, summary, exit>>

SetMembers(group, bytes) ==
  /\ Editing /\ \E p \in group : zip[p] # bytes
  /\ zip' = [p \in Members |-> IF p \in group THEN bytes ELSE zip[p]]
  /\ UNCHANGED <<proof, manifest, archive>>
ReplaceMembers == \E group \in Editable, v \in Versions :
  SetMembers(group \cap (Ships[v] \cup {ExtraFile, JunkFile}), v)
RemoveMembers == \E group \in Editable : SetMembers(group, Null)
DamageMembers == \E group \in Editable : SetMembers(group, Corrupt)

SetProof(doc) ==
  /\ Editing /\ proof' = doc
  /\ UNCHANGED <<zip, manifest, archive>>
ReplaceProof == \E doc \in {IssuedProof(v) : v \in Versions} \cup {Null, Corrupt} : SetProof(doc)
EditProof ==
  /\ proof \notin {Null, Corrupt}
  /\ \E v \in Versions \cup {Null} :
       \/ SetProof([proof EXCEPT !.proof_id = v])
       \/ \E k \in FactKeys : SetProof([proof EXCEPT !.facts[k] = v])
       \/ \E a \in Assets : SetProof([proof EXCEPT !.hashes[a] = IF v = Null THEN Null ELSE Sha(a, v)])
       \/ SetProof([proof EXCEPT !.mode = IF v = Null THEN Null ELSE CaptureMode[v]])
       \/ SetProof([proof EXCEPT !.eidas = FALSE, !.payload_sha256 = Null])

SetManifest(doc) ==
  /\ Editing /\ manifest' = doc
  /\ UNCHANGED <<zip, proof, archive>>
EditManifest ==
  /\ manifest \notin {Null, Corrupt}
  /\ \/ \E p \in UNION Editable, entry \in {Null, Malformed} :
          SetManifest([manifest EXCEPT !.files[p] = entry])
     \/ \E v \in Versions : SetManifest([manifest EXCEPT !.proof_id = v])
     \/ SetManifest([manifest EXCEPT !.eidas = FALSE])
     \/ SetManifest([manifest EXCEPT !.format_ok = FALSE])
     \/ SetManifest([manifest EXCEPT !.anchor = FALSE, !.anchor_sha256 = Null, !.ots = FALSE])
(* Recompute the listing over what the package now holds: not counted.     *)
Relist ==
  /\ pc = "held" /\ manifest \notin {Null, Corrupt} /\ proof # Corrupt
  /\ manifest' = [manifest EXCEPT !.files = ListingOf(zip, proof)]
  /\ UNCHANGED <<zip, proof, archive, edits, issued, node, userRoots, pc, results, summary, exit>>
LoseManifest == \E doc \in {Null, Corrupt} : SetManifest(doc)
BreakArchive == \E a \in {"not_zip", "bad"} :
  Editing /\ archive' = a /\ UNCHANGED <<zip, proof, manifest>>

Hold == ReplaceMembers \/ RemoveMembers \/ DamageMembers \/ ReplaceProof \/ EditProof
        \/ EditManifest \/ Relist \/ LoseManifest \/ BreakArchive

-----------------------------------------------------------------------------
Go(stage) == pc' = stage
Report(check, status) == results' = [results EXCEPT ![check] = status]

(* verify_bytes: routed to verify_evidence_zip.                            *)
Start ==
  /\ pc = "held" /\ Go("open")
  /\ UNCHANGED <<input, results, summary, exit>>

(* A problem with the container or the manifest ends the report there,     *)
(* with an empty summary; reading a damaged JSON member raises.            *)
OpenZip ==
  /\ pc = "open"
  /\ CASE archive = "not_zip" -> Report("zip_open", "fail") /\ Go("returned")
       [] archive = "bad"     -> Report("zip_structure", "fail") /\ Go("returned")
       [] archive = "ok" /\ manifest = Corrupt -> Go("raised") /\ UNCHANGED results
       [] archive = "ok" /\ manifest = Null -> Report("manifest_load", "fail") /\ Go("returned")
       [] archive = "ok" /\ manifest \notin {Null, Corrupt} ->
            /\ IF proof = Corrupt THEN Go("raised") ELSE Go("bundle_integrity")
            /\ UNCHANGED results
  /\ UNCHANGED <<input, summary, exit>>

Layer(check, next, reads, outcomes) ==
  /\ pc = check
  /\ IF \E p \in reads : BytesAt(p) = Corrupt
     THEN Go("raised") /\ UNCHANGED results
     ELSE Go(next) /\ \E status \in outcomes : Report(check, status)
  /\ UNCHANGED <<input, summary, exit>>

BundleIntegrity == Layer("bundle_integrity", "cross_references", IntegrityReads, {check_bundle_integrity})
CrossReferences == Layer("cross_references", "chain_integrity", CrossReads, {check_cross_references})
ChainIntegrity  == Layer("chain_integrity", "eidas_signature", ChainReads, {check_chain_integrity})
EidasSignature  == Layer("eidas_signature", "tsl_qualified", EidasReads, {check_eidas_signature})
TslQualified    == Layer("tsl_qualified", "anchor_canonical_hash", TslReads, {check_tsl_qualified})
AnchorHash      == Layer("anchor_canonical_hash", "ots_receipt", AnchorReads, {check_anchor_canonical_hash})
OtsReceipt      == Layer("ots_receipt", "file_digest", {ReceiptFile}, {check_ots_receipt(node)})
FileDigest      == Layer("file_digest", "anchor_witness", FileDigestReads, {check_file_digest})
AnchorWitness   == Layer("anchor_witness", "tls_evidence", WitnessReads, {check_anchor_witness})
TlsEvidence     == Layer("tls_evidence", "anchor_inclusion", TlsReads, {check_tls_evidence})
AnchorInclusion == Layer("anchor_inclusion", "tsa_trust_root", {},
                         {check_anchor_inclusion(results["eidas_signature"], node)})
TsaTrustRoot    == Layer("tsa_trust_root", "unlisted_files", TrustReads, check_tsa_trust_root(userRoots))
UnlistedFiles   == Layer("unlisted_files", "sealed_identity", {}, {check_unlisted_files})
SealedIdentity  == Layer("sealed_identity", "summary", IdentityReads(results["eidas_signature"]),
                         {check_sealed_identity(results["eidas_signature"])})

RunLayer == BundleIntegrity \/ CrossReferences \/ ChainIntegrity \/ EidasSignature \/ TslQualified
            \/ AnchorHash \/ OtsReceipt \/ FileDigest \/ AnchorWitness \/ TlsEvidence
            \/ AnchorInclusion \/ TsaTrustRoot \/ UnlistedFiles \/ SealedIdentity

AnyFailed == \E c \in CheckNames : results[c] = "fail"
AnyPassed == \E c \in CheckNames : results[c] = "pass"      \* counts_as_pass
TimestampVerified == results["eidas_signature"] = "pass"
Verdict ==
  IF AnyFailed \/ ~AnyPassed THEN "FAILED"
  ELSE IF TimestampVerified THEN "VERIFIED" ELSE "INTEGRITY_ONLY"
qualified_status ==
  IF results["eidas_signature"] = "skip" THEN Null
  ELSE IF results["tsl_qualified"] = "fail" THEN "failed"
  ELSE IF results["tsl_qualified"] = "pass" THEN "per_supplied_tsl" ELSE "not_checked"
(* sealed_identity carries the sealed facts once the payload's format is known. *)
ReportedSealed ==
  IF TimestampVerified /\ zip[PayloadFile] \in KnownFormat THEN SealedFiles ELSE {}
unsealed_inventory(sealed) == (Listed \cup {"manifest.json"}) \ sealed

Summarise ==
  /\ pc = "summary" /\ Go("returned")
  /\ summary' = [verdict |-> Verdict, qualified |-> qualified_status, sealed |-> ReportedSealed,
                 not_sealed |-> unsealed_inventory(ReportedSealed)]
  /\ UNCHANGED <<input, results, exit>>

FailedSummary == [verdict |-> "FAILED", qualified |-> Null, sealed |-> {}, not_sealed |-> {}]
(* verify_bytes completes an empty summary, and turns an exception into a  *)
(* report of its own that keeps none of the results so far.                *)
Return ==
  /\ pc = "returned" /\ Go("exit")
  /\ summary' = IF summary = Null THEN FailedSummary ELSE summary
  /\ UNCHANGED <<input, results, exit>>
\* Mutant: no handler, the exception leaves verify_bytes.
Abort_Propagates == pc = "raised" /\ FALSE /\ UNCHANGED vars
Abort ==
  /\ pc = "raised" /\ Go("exit")
  /\ results' = [NoResults EXCEPT !["internal_error"] = "fail"]
  /\ summary' = FailedSummary
  /\ UNCHANGED <<input, exit>>

\* Mutant: a verified timestamp decides on its own.
exit_code_TimestampFirst ==
  IF TimestampVerified THEN 0 ELSE IF summary.verdict = "FAILED" THEN 1 ELSE 4
\* Mutant: the number of failed checks.
exit_code_Counts ==
  IF AnyFailed THEN Cardinality({c \in CheckNames : results[c] = "fail"})
  ELSE IF summary.verdict = "INTEGRITY_ONLY" THEN 4 ELSE 0
exit_code ==
  IF AnyFailed \/ summary.verdict = "FAILED" THEN 1
  ELSE IF summary.verdict = "INTEGRITY_ONLY" THEN 4 ELSE 0
Exit ==
  /\ pc = "exit" /\ Go("done")
  /\ exit' = exit_code
  /\ UNCHANGED <<input, results, summary>>

Run == OpenZip \/ RunLayer \/ Summarise \/ Return \/ Abort \/ Exit
Next == Hold \/ Start \/ Run
Spec == Init /\ [][Next]_vars
(* Python runs the call to its end once it is made; nobody has to make it. *)
FairSpec == Spec /\ WF_vars(Run)

-----------------------------------------------------------------------------
TypeOK ==
  /\ zip \in [Members -> Versions \cup {Null, Corrupt}]
  /\ proof \in ProofDocs \cup {Null, Corrupt}
  /\ manifest \in ManifestDocs \cup {Null, Corrupt}
  /\ issued \in Versions /\ archive \in {"ok", "not_zip", "bad"}
  /\ edits \in 0..MaxEdits
  /\ node \in NodeAnswers /\ userRoots \in BOOLEAN
  /\ pc \in Stages
  /\ results \in [CheckNames -> Statuses \cup {Null}]
  /\ summary \in Summaries \cup {Null}
  /\ exit \in {Null, 0, 1, 4}

IntactPackage(v) == Complete(v) /\ Unchanged(v) /\ archive = "ok" /\ node # "rejects"
Sealed == \E v \in TrustedVersions(userRoots) : SealedBy(v)

(* The verdicts a package deserves: VERIFIED when it is sealed and matches *)
(* its manifest, INTEGRITY_ONLY when it matches and no document of it says *)
(* it was ever stamped, FAILED when it is not an intact package.           *)
Deserved(verdict) ==
  /\ verdict = "VERIFIED" => archive = "ok" /\ MatchesManifest /\ Sealed
  /\ verdict = "INTEGRITY_ONLY" => archive = "ok" /\ MatchesManifest /\ TokenMissing /\ ~DeclaresEidas
  /\ verdict = "FAILED" => ~\E v \in Versions : IntactPackage(v)
Promise == INSTANCE SealVerdict WITH
  package <- input,
  deserves <- {d \in Verdicts : Deserved(d)},
  verdict <- IF summary = Null THEN Null ELSE summary.verdict

(* README "Exit codes": a script that tests for exit code 0 may rely on    *)
(* the whole chain: every byte the qualified timestamp of one issued proof *)
(* covers is in the package as sealed, and proof.json and manifest.json    *)
(* claim nothing else.  Mixing parts of two genuine packages, or trading   *)
(* the token for one of another TSA, never exits 0.                        *)
ExitZeroMeansSealed ==
  exit = 0 => Sealed

(* No false alarm: a complete package that nobody changed, but for metadata *)
(* an operating system added, verifies; without a timestamp it is reported  *)
(* as integrity-only.                                                       *)
IntactVerifies ==
  exit # Null /\ IntactPackage(issued) =>
    exit = IF TsrFile \in Ships[issued] THEN 0 ELSE 4

(* summary["sealed"]["sealed_files"] names only members whose bytes are the *)
(* ones the token in the package covers, derived network files included,    *)
(* whatever the verdict.                                                    *)
SealedListSound ==
  summary # Null => \A p \in summary.sealed : p = TsrFile \/ zip[p] = Token

(* Unless the verdict is FAILED, every member of the ZIP is accounted for:  *)
(* reported as sealed, reported as not sealed, or operating-system junk.    *)
InventoryComplete ==
  summary # Null /\ summary.verdict # "FAILED" =>
    \A p \in Listable : Present(p) => p \in summary.sealed \cup summary.not_sealed \cup {JunkFile}

(* summary["qualified"] of a VERIFIED package (README 206-213):             *)
(* not_checked when no list is bundled, and per_supplied_tsl only when some *)
(* certificate the token carries belongs to a timestamping service that a   *)
(* bundled list grants, never when every such entry is withdrawn or of      *)
(* another type; and with the pinned roots only, the time-stamp spoken of   *)
(* is one of a pinned TSA, whatever certificates and lists were added.      *)
(* The certificate need not be the signer's, and the list may be anyone's.  *)
QualifiedMeansListed ==
  summary # Null /\ summary.verdict = "VERIFIED" =>
    /\ summary.qualified = IF TrustedLists = {} THEN "not_checked" ELSE "per_supplied_tsl"
    /\ summary.qualified = "per_supplied_tsl" =>
         /\ \E f \in TrustedLists : \E s \in Services[zip[f]] :
              s.cert \in Certs[zip[TsrFile]] /\ s.type = "TSA/QTST" /\ s.status = "granted"
         /\ ~userRoots => Token \in Stamped

(* VerifyReport (core.py): the witness is informational and cannot change a *)
(* verdict, so a report is never FAILED because of the witness alone.       *)
WitnessNeverDecides ==
  exit = 1 => \E c \in CheckNames \ {"anchor_witness"} : results[c] = "fail"

(* A failed check is never lost on the way to the exit code, not even when  *)
(* a later check raises and its report is thrown away.                      *)
FailureReachesExit == AnyFailed ~> (exit = 1)

(* Whatever members are damaged, a run that started comes to an exit code.  *)
AlwaysAnswers == (pc = "open") ~> (exit # Null)

(* Implementation of the abstract promise.                                  *)
KeepsPromise == Promise!Spec
=============================================================================
