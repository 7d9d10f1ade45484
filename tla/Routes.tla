------------------------------- MODULE Routes -------------------------------
(***************************************************************************)
(* Any file given to gpa-verify, from detect_kind to the exit code:         *)
(* verify_bytes and _route of dispatch.py, the verifiers of                 *)
(* forensic_browser.py with their early returns, handlers and calls of each *)
(* other (a copy is verified by verifying the original it names), _finish,  *)
(* and exit_code of cli.py.                                                 *)
(***************************************************************************)
EXTENDS SealedPdf

CONSTANT
  CommandLines  \* [file, original, media, list, roots]: the file given; what --original, --media
                \* and --tsl name, Null without; and the TSAs --trust-root adds

(* A file: a ZIP with a manifest or without, a companion media archive, a   *)
(* PDF, or neither.                                                         *)
Zip(z) == [type |-> "zip", archive |-> "ok", zip |-> z.zip, manifest |-> z.manifest]
Companion(m) == [type |-> "media", media |-> m]   \* m: which version's bytes it has at each path
(* What a plain copy says of its original, in its QR code and in its text.  *)
Says(doc, session) == [doc |-> doc, session |-> session]
NoMarks == [byterange |-> FALSE, etsi |-> FALSE, rebuilt |-> FALSE]
Pdf(doc) ==
  [type |-> "pdf", parses |-> "yes", doc |-> doc, marks |-> NoMarks,
   qr |-> Null, text |-> Null, cites |-> {},   \* of a plain copy
   report |-> Null, saas |-> Null]              \* of which version it is the report.pdf
Other == [type |-> "other"]

File(f) ==
  /\ f.type \in {"zip", "media", "pdf", "other"}
  /\ f.type = "zip" => f.zip \in [Members -> Versions \cup {Null, Corrupt}]
  /\ f.type = "pdf" => Len(f.doc) \in Nat /\ \A i \in 1..Len(f.doc) : f.doc[i].kind = "attach" => f.doc[i].as \in Labels
ASSUME LineAssumption ==
  /\ Null \notin Nat \cup {"NOT_VERIFIABLE", "per_supplied_tsl"}
  /\ \A l \in CommandLines :
       /\ File(l.file) /\ (l.original # Null => File(l.original))
       /\ {Null, "broken"} \cap (Pinned \cup l.roots) = {}

VARIABLES
  line,      \* the command line
  kind,      \* detect_kind's answer, Null before
  pc,        \* the step about to be taken
  inner,     \* a verifier works for another on the original, its results prefixed "original."
  cur,       \* the signature of the document the loop is at
  checks,    \* report.checks: [of, name, ts, status]
  summary,   \* report.summary: verdict and qualified, Null while {}
  exit       \* the exit code, Null while running

vars == <<line, kind, pc, inner, cur, checks, summary, exit>>
subject == line.file
original == line.original
media == line.media
list == line.list
roots == Pinned \cup line.roots

Init ==
  /\ line \in CommandLines
  /\ kind = Null /\ pc = "open" /\ inner = FALSE /\ cur = 0
  /\ checks = {} /\ summary = Null /\ exit = Null

-----------------------------------------------------------------------------
(* detect_kind and classify_pdf: the strongest mark present decides.        *)
pdf_marked(f) == f.marks.byterange \/ Signatures(f.doc) # {}
copy_text(f) == f.text # Null /\ f.text.doc # Null
\* Mutant: what a document says of itself comes before its signature.
detect_pdf_MarksFirst(f) ==
  IF f.parses # "yes" THEN "pdf_damaged"
  ELSE IF f.qr # Null \/ copy_text(f) THEN "plain_copy"
  ELSE IF pdf_marked(f) THEN "sealed_pdf"
  ELSE IF f.report # Null THEN "fb_report"
  ELSE IF f.saas # Null THEN "saas_report"
  ELSE IF f.marks.rebuilt THEN "pdf_damaged"
  ELSE IF f.marks.etsi THEN "sealed_pdf" ELSE "pdf_unsigned"
detect_pdf(f) ==
  IF pdf_marked(f) THEN "sealed_pdf"
  ELSE IF f.parses # "yes" THEN "pdf_damaged"
  ELSE IF f.qr # Null \/ copy_text(f) THEN "plain_copy"
  ELSE IF f.report # Null THEN "fb_report"
  ELSE IF f.saas # Null THEN "saas_report"
  ELSE IF f.marks.rebuilt THEN "pdf_damaged"
  ELSE IF f.marks.etsi THEN "sealed_pdf" ELSE "pdf_unsigned"
detect_zip(f) ==
  IF f.archive = "not_zip" \/ f.manifest = Null THEN "zip_unknown"
  ELSE IF is_fb_manifest(IF f.manifest = Corrupt THEN "lite" ELSE f.manifest.format,
                         Data(f, ProofFile))
       THEN "fb_zip" ELSE "saas_zip"
detect_kind(f) ==
  CASE f.type = "zip"   -> detect_zip(f)
    [] f.type = "media" -> "fb_media_zip"
    [] f.type = "pdf"   -> detect_pdf(f)
    [] f.type = "other" -> "unknown"

Unsealed == {"plain_copy", "fb_report", "saas_report", "fb_media_zip"}
FirstStep(k) ==
  CASE k \in {"saas_zip", "zip_unknown"} -> "saas"
    [] k = "fb_zip" -> "zip_open"
    [] k = "sealed_pdf" -> "pdf_structure"
    [] k = "plain_copy" -> "copy_identification"
    [] k = "fb_report" -> "report_integrity"
    [] k = "saas_report" -> "saas_report"
    [] k = "fb_media_zip" -> "media_companion"
    [] k \in {"pdf_unsigned", "pdf_damaged", "unknown"} -> "input_format"
Dispatch ==
  /\ pc = "open" /\ kind' = detect_kind(subject) /\ pc' = FirstStep(kind')
  /\ UNCHANGED <<line, inner, cur, checks, summary, exit>>

-----------------------------------------------------------------------------
(* Reporting.                                                               *)
ForCompanion == kind = "fb_media_zip"
target == IF inner \/ ForCompanion THEN original ELSE subject
archive == IF ForCompanion THEN subject.media ELSE IF inner THEN Null ELSE media
By == IF inner THEN "original" ELSE "self"
Check(name, n, status) == [of |-> By, name |-> name, ts |-> n, status |-> status]
Status(b) == IF b THEN "pass" ELSE "fail"
Go(next) == pc' = next
Report(new, next) ==
  /\ checks' = checks \cup new /\ Go(next)
  /\ UNCHANGED <<line, kind, inner, cur, summary, exit>>
One(name, status, next) == Report({Check(name, 0, status)}, next)
(* What token_checks reports of one time-stamp.                             *)
TokenChecks(n, ok, signer, trusted, listed) ==
  {Check("timestamp_token", n, Status(ok)), Check("tsl_qualified", n, IF signer THEN listed ELSE "skip")}
  \cup IF signer THEN {Check("tsa_trust_root", n, Status(trusted))} ELSE {}

(* verify_evidence_zip, by what EvidenceZip shows of its verdicts: never    *)
(* VERIFIED unless a stamped payload of its own format is in the package.   *)
SaasVerified(f) ==
  \E v \in Versions : f.zip[TsrFile] = v /\ f.zip[PayloadFile] = v /\ Tsa[v] \in roots /\ Format[v] = "evidence"
SaasZip ==
  /\ pc = "saas"
  /\ \E verdict \in {"FAILED"} \cup (IF kind = "saas_zip" /\ subject.archive = "ok" THEN {"INTEGRITY_ONLY"}
                                    \cup (IF SaasVerified(subject) THEN {"VERIFIED"} ELSE {}) ELSE {}) :
       /\ summary' = [verdict |-> verdict, qualified |-> Null]
       /\ checks' = {[of |-> "self", name |-> "saas", ts |-> 0, status |-> Status(verdict # "FAILED")]}
  /\ Go("exit") /\ UNCHANGED <<line, kind, inner, cur, exit>>

InputFormat == pc = "input_format" /\ One("input_format", "fail", "finish")

-----------------------------------------------------------------------------
(* verify_fb_zip.  "end" is its return.                                     *)
IsZip == target.type = "zip" /\ target.archive # "not_zip"
ZipOpen ==
  /\ pc = "zip_open"
  /\ IF target.type # "media" /\ ~IsZip THEN One("zip_open", "fail", "end")
     ELSE IF target.type = "zip" /\ target.archive = "bad" THEN One("zip_structure", "fail", "end")
     ELSE IF target.type = "media" THEN One("fb_package", "fail", "end")   \* no manifest.json in it
     ELSE IF target.manifest = Corrupt THEN Report({}, "raised")
     ELSE Report({}, "fb_package")
FbPackage ==
  /\ pc = "fb_package"
  /\ One("fb_package", Status(fb_package(target)),
         IF target.manifest = Null THEN "end" ELSE "bundle_integrity")
BundleIntegrity ==
  pc = "bundle_integrity" /\ One("bundle_integrity", Status(bundle_integrity(target)), "sealed_binding")
SealedBinding ==
  pc = "sealed_binding" /\ One("sealed_binding", Status(sealed_binding(target)), "items")
Items == pc = "items" /\ One("items", Status(items(target)), "token")
ZipToken ==
  /\ pc = "token"
  /\ IF ~HasToken(target) THEN One("timestamp_token", "fail", "report_pdf")
     ELSE Report(TokenChecks(1, timestamp_token(target), SignedToken(target),
                             tsa_trust_root(target, roots), tsl_qualified(target)), "metadata")
ZipMetadata ==
  pc = "metadata" /\ One("timestamp_metadata", Status(timestamp_metadata(target)), "report_pdf")
ZipReport ==
  /\ pc = "report_pdf"
  /\ IF Data(target, ReportFile) = Null THEN Report({}, "end")
     ELSE One("report_pdf", Status(report_pdf(target)), "end")
FbZip == ZipOpen \/ FbPackage \/ BundleIntegrity \/ SealedBinding \/ Items \/ ZipToken
         \/ ZipMetadata \/ ZipReport

-----------------------------------------------------------------------------
(* verify_sealed_pdf.                                                       *)
doc == target.doc
PdfStructure ==
  /\ pc = "pdf_structure"
  /\ IF target.type # "pdf" \/ target.parses = "no" THEN One("pdf_structure", "fail", "end")
     ELSE IF target.parses = "odd" THEN Report({}, "raised")
     ELSE One("pdf_structure", "pass", "find_signatures")
\* Mutant: a document without a signature dictionary is no failure.
FindSignatures_None ==
  /\ pc = "find_signatures" /\ Go(IF Signatures(doc) = {} THEN "end" ELSE "signature") /\ cur' = 1
  /\ UNCHANGED <<line, kind, inner, checks, summary, exit>>
FindSignatures ==
  /\ pc = "find_signatures"
  /\ IF Signatures(doc) = {} THEN One("pades_signature", "fail", "end")
     ELSE /\ Go("signature") /\ cur' = 1 /\ UNCHANGED <<line, kind, inner, checks, summary, exit>>
SignatureChecks(i) ==
  IF ~doc[i].is_doc_ts THEN {Check("pades_signature", i, "skip")}
  ELSE {Check("pades_signature", i, Status(pades_signature(doc, i)))}
       \cup IF HasTok(doc, i)
            THEN TokenChecks(i, TokenOk(doc, i), doc[i].token # Null, doc[i].token \in roots,
                             ListStatus(doc, i, list))
            ELSE {}
AtSignature == pc = "signature" /\ cur <= Len(doc)
\* Mutant: only the first time-stamp is verified.
NextSignature_First ==
  /\ AtSignature /\ cur' = cur + 1
  /\ checks' = checks \cup IF cur \in Signatures(doc) /\ HasPrimary(doc) /\ cur = Primary(doc)
                           THEN SignatureChecks(cur) ELSE {}
  /\ UNCHANGED <<line, kind, pc, inner, summary, exit>>
NextSignature ==
  /\ AtSignature /\ cur' = cur + 1
  /\ checks' = checks \cup IF cur \in Signatures(doc) THEN SignatureChecks(cur) ELSE {}
  /\ UNCHANGED <<line, kind, pc, inner, summary, exit>>
SignaturesDone ==
  /\ pc = "signature" /\ cur > Len(doc)
  /\ Report({}, IF HasPrimary(doc) THEN "post_seal" ELSE "end")
PostSealChanges ==
  pc = "post_seal" /\ One("post_seal_changes", Status(post_seal_changes(doc)), "attachments")
(* An object that makes the rest raise is caught here: pdf_objects.         *)
AttachmentsStep ==
  /\ pc = "attachments"
  /\ IF \E a \in Attachments(doc) : <<a.p, a.v>> \in Garbled THEN One("pdf_objects", "fail", "end")
     ELSE One("attachments", attachments(doc), "external_media")
ExternalMedia ==
  /\ pc = "external_media"
  /\ IF ExternalOf(doc) = {} THEN Report({}, "evidence")
     ELSE One("external_media", external_media(doc, archive), "evidence")
EvidenceStep ==
  /\ pc = "evidence"
  /\ IF IsFb(doc) THEN One("evidence_consistency", Status(evidence_consistency(doc)), "end")
     ELSE Report({}, "end")
SealedPdfRun == PdfStructure \/ FindSignatures \/ NextSignature \/ SignaturesDone \/ PostSealChanges
                \/ AttachmentsStep \/ ExternalMedia \/ EvidenceStep

-----------------------------------------------------------------------------
(* The unsealed outputs: alone they are not verifiable; the original is     *)
(* verified first, then compared.                                           *)
Enter(step) ==
  /\ inner' = TRUE /\ Go(step) /\ UNCHANGED <<line, kind, cur, summary, exit>>

(* read_copy_identification: the QR code's fields first, the text's where it *)
(* has none.                                                                *)
Field(f, k) ==
  IF f.qr # Null /\ f.qr[k] # Null THEN f.qr[k] ELSE IF f.text # Null THEN f.text[k] ELSE Null
Conflict(f, k) == f.qr # Null /\ f.text # Null /\ Null \notin {f.qr[k], f.text[k]} /\ f.qr[k] # f.text[k]
\* Mutant: the QR code alone identifies the original.
identifies_Qr(f) == Field(f, "doc") # Null
identifies(f) == Field(f, "doc") # Null /\ \A k \in {"doc", "session"} : ~Conflict(f, k)
CopyIdentification ==
  /\ pc = "copy_identification"
  /\ checks' = checks \cup {Check("copy_identification", 0, Status(identifies(subject))),
                            Check("copy_integrity", 0, "skip")}
  /\ IF original = Null
     THEN Go("not_verifiable") /\ UNCHANGED <<line, kind, inner, cur, summary, exit>>
     ELSE Enter("pdf_structure")

IsDoc(f) == f.type = "pdf" /\ f.parses = "yes"
doc_session(d) ==    \* proof_id of the original's report
  IF Proof(d) # Null THEN Session[Proof(d)] ELSE IF Manifest(d) # Null THEN Session[Manifest(d)] ELSE Null
\* Mutant: the session id is compared, not the hash.
copy_binding_Session == IsDoc(original) /\ Field(subject, "session") \in {Null, doc_session(original.doc)}
copy_binding ==
  /\ IsDoc(original) /\ Field(subject, "doc") = original.doc
  /\ Field(subject, "session") \in {Null, doc_session(original.doc)}
(* The last attachment named proof.json, where the report has the first.    *)
oproof(d) == CHOOSE a \in Named(d, ProofFile) : \A b \in Named(d, ProofFile) : Before(b, a)
Stated(d) ==
  IF Named(d, ProofFile) = {} \/ ~Is(oproof(d), ProofFile) THEN {}
  ELSE {Digest(p, oproof(d).v) : p \in Declares[oproof(d).v] \cap (PageFiles \cup MediaPaths)}
known_hashes ==
  IF ~IsDoc(original) THEN {}
  ELSE Stated(original.doc)
       \cup IF HasPrimary(original.doc) THEN {DigestOf(a) : a \in Attachments(original.doc)} ELSE {}
CopyBinding ==
  /\ pc = "copy_binding"
  /\ Report({Check("copy_binding", 0, Status(copy_binding)),
             Check("copy_content_consistency", 0, Status({Digest(c[1], c[2]) : c \in subject.cites} \subseteq known_hashes))}, "finish")

ReportIntegrity ==
  /\ pc = "report_integrity"
  /\ checks' = checks \cup {Check("report_integrity", 0, "skip")}
  /\ IF original = Null
     THEN Go("not_verifiable") /\ UNCHANGED <<line, kind, inner, cur, summary, exit>>
     ELSE Enter("zip_open")
HasManifest(f) == f.type = "zip" /\ f.archive # "not_zip" /\ f.manifest \notin {Null, Corrupt}
package_session(z) ==
  IF z.manifest.session # Null THEN z.manifest.session
  ELSE IF Data(z, ProofFile) # Null THEN Session[Data(z, ProofFile)] ELSE Null
IsListed(f, p, v) == Entry(f, p) # Null /\ Entry(f, p).of = v
\* Mutant: a report of the same session will do.
report_binding_Session == HasManifest(original) /\ package_session(original) = Session[subject.report]
report_binding ==
  /\ HasManifest(original) /\ IsListed(original, ReportFile, subject.report)
  /\ package_session(original) = Session[subject.report]
ReportBinding == pc = "report_binding" /\ One("report_binding", Status(report_binding), "finish")

saas_binding ==
  /\ HasManifest(original) /\ IsListed(original, ReportFile, subject.saas)
  /\ original.manifest.session \in {Null, Session[subject.saas]}
SaasReport ==
  /\ pc = "saas_report"
  /\ Report({Check("report_integrity", 0, "skip")} \cup
            IF original = Null THEN {} ELSE {Check("report_binding", 0, Status(saas_binding))},
            "not_verifiable")

MediaCompanion ==
  /\ pc = "media_companion"
  /\ IF original = Null THEN One("media_companion", "skip", "not_verifiable")
     ELSE IF detect_kind(original) # "sealed_pdf" THEN One("original_kind", "fail", "finish")
     ELSE Report({}, "pdf_structure")
Outputs == CopyIdentification \/ CopyBinding \/ ReportIntegrity \/ ReportBinding \/ SaasReport \/ MediaCompanion

(* A verifier returns: to the caller that asked for the original, or to     *)
(* verify_bytes.                                                            *)
\* Mutant: the checks of the original are not taken over.
EndVerifier_Drops ==
  /\ pc = "end" /\ inner' = FALSE /\ checks' = {c \in checks : c.of = "self"}
  /\ Go(IF ~inner THEN "finish" ELSE IF kind = "plain_copy" THEN "copy_binding" ELSE "report_binding")
  /\ UNCHANGED <<line, kind, cur, summary, exit>>
EndVerifier ==
  /\ pc = "end" /\ inner' = FALSE
  /\ Go(IF ~inner THEN "finish" ELSE IF kind = "plain_copy" THEN "copy_binding" ELSE "report_binding")
  /\ UNCHANGED <<line, kind, cur, checks, summary, exit>>

-----------------------------------------------------------------------------
(* _finish and qualified_status over everything reported, the original's    *)
(* checks included.                                                         *)
AnyFailed == \E c \in checks : c.status = "fail"
AnyPassed == \E c \in checks : c.status = "pass"
Of(name) == {c \in checks : c.name = name}
\* Mutant: one granted time-stamp is enough.
qualified_status_Any ==
  IF Of("tsl_qualified") = {} \/ Of("timestamp_token") = {} THEN Null
  ELSE IF \E c \in Of("tsl_qualified") : c.status = "pass" THEN "per_supplied_tsl"
  ELSE IF \E c \in Of("tsl_qualified") : c.status = "fail" THEN "failed" ELSE "not_checked"
qualified_status ==
  IF Of("tsl_qualified") = {} \/ Of("timestamp_token") = {} THEN Null
  ELSE IF \E c \in Of("tsl_qualified") : c.status = "fail" THEN "failed"
  ELSE IF \A c \in Of("tsl_qualified") : c.status = "pass" THEN "per_supplied_tsl" ELSE "not_checked"
\* Mutant: a verdict the caller gives is not overruled by a failed check.
_finish_Given(given) ==
  IF given # Null THEN given ELSE IF ~AnyFailed /\ AnyPassed THEN "VERIFIED" ELSE "FAILED"
\* Mutant: the verdict comes from the checks alone.
_finish_Computed(given) == IF ~AnyFailed /\ AnyPassed THEN "VERIFIED" ELSE "FAILED"
_finish(given) ==
  IF AnyFailed THEN "FAILED"
  ELSE IF given # Null THEN given ELSE IF AnyPassed THEN "VERIFIED" ELSE "FAILED"
Finish ==
  /\ pc \in {"finish", "not_verifiable"} /\ Go("exit")
  /\ summary' = [verdict |-> _finish(IF pc = "finish" THEN Null ELSE "NOT_VERIFIABLE"),
                 qualified |-> qualified_status]
  /\ UNCHANGED <<line, kind, inner, cur, checks, exit>>
\* Mutant: what was found so far is judged.
Raised_KeepsReport ==
  /\ pc = "raised" /\ Go("finish") /\ inner' = FALSE
  /\ UNCHANGED <<line, kind, cur, checks, summary, exit>>
Raised ==
  /\ pc = "raised" /\ Go("exit") /\ inner' = FALSE
  /\ checks' = {[of |-> "self", name |-> "internal_error", ts |-> 0, status |-> "fail"]}
  /\ summary' = [verdict |-> "FAILED", qualified |-> Null]
  /\ UNCHANGED <<line, kind, cur, exit>>
\* Mutant: a file of no known format is a usage error.
exit_code_Usage ==
  IF Of("input_format") # {} THEN 2
  ELSE IF AnyFailed \/ summary.verdict = "FAILED" THEN 1
  ELSE IF summary.verdict = "NOT_VERIFIABLE" THEN 3
  ELSE IF summary.verdict = "INTEGRITY_ONLY" THEN 4 ELSE 0
exit_code ==
  IF AnyFailed \/ summary.verdict = "FAILED" THEN 1
  ELSE IF summary.verdict = "NOT_VERIFIABLE" THEN 3
  ELSE IF summary.verdict = "INTEGRITY_ONLY" THEN 4 ELSE 0
Exit ==
  /\ pc = "exit" /\ exit' = exit_code /\ Go("done")
  /\ UNCHANGED <<line, kind, inner, cur, checks, summary>>

Next == Dispatch \/ SaasZip \/ InputFormat \/ FbZip \/ SealedPdfRun \/ Outputs \/ EndVerifier
        \/ Finish \/ Raised \/ Exit
Spec == Init /\ [][Next]_vars /\ WF_vars(Next)

-----------------------------------------------------------------------------
TypeOK ==
  /\ kind \in Unsealed \cup {Null, "saas_zip", "zip_unknown", "fb_zip", "sealed_pdf", "pdf_unsigned",
                             "pdf_damaged", "unknown"}
  /\ inner \in BOOLEAN /\ cur \in Nat
  /\ \A c \in checks : c.status \in {"pass", "fail", "skip"} /\ c.of \in {"self", "original"}
  /\ summary # Null =>
       /\ summary.verdict \in {"VERIFIED", "FAILED", "INTEGRITY_ONLY", "NOT_VERIFIABLE"}
       /\ summary.qualified \in {Null, "per_supplied_tsl", "not_checked", "failed"}
  /\ exit \in {Null, 0, 1, 3, 4}

TimestampVerified == \E c \in Of("timestamp_token") : c.status = "pass"

(* A VERIFIED Forensic Browser package is sealed: its payload was stamped,  *)
(* as a payload of that format, by a TSA in force, every file it lists is   *)
(* as it was then, and manifest.json, which anybody can rewrite, marks just *)
(* those files as sealed.                                                   *)
PackageVerifiedMeansSealed ==
  exit = 0 /\ kind = "fb_zip" => PackageSealed(subject, roots)

(* The check report_binding, "report is byte-identical to the package's     *)
(* report.pdf": a report is only accepted with such a package, given as     *)
(* --original and itself sealed.                                            *)
ReportVerifiedMeansShipped ==
  exit = 0 /\ kind = "fb_report" =>
    PackageSealed(original, roots) /\ original.zip[ReportFile] = subject.report

(* The note of verify_sealed_pdf: a VERIFIED document and its attachments   *)
(* existed in this exact form at genTime, and later revisions only renewed  *)
(* the seal.  (When a time-stamp was verified: see VerifiedMeansStamped.)   *)
PdfVerifiedMeansSealed ==
  exit = 0 /\ kind \in {"sealed_pdf", "fb_media_zip"} /\ TimestampVerified =>
    DocumentSealed(doc, roots)

(* The embedded manifest.json of a VERIFIED document is an exact inventory  *)
(* of what is attached, by bytes: each path it lists is an attachment that  *)
(* says it is that path, in one way or another, and has the digest listed,  *)
(* and nothing else is attached.  (Two paths may share one attachment.)     *)
SaysItIs(att, p) == p \in {att.as.desc, att.as.name, att.as.file}
Inventory(m, listed, attached, manifest) ==   \* listed: by version m
  \E of \in [listed -> attached] :
    /\ \A p \in listed : SaysItIs(of[p], p) /\ DigestOf(of[p]) = Digest(p, m)
    /\ attached = {manifest} \cup {of[p] : p \in listed}
AttachmentsAsListed ==
  exit = 0 /\ kind \in {"sealed_pdf", "fb_media_zip"} /\ TimestampVerified /\ Manifest(doc) # Null =>
    Inventory(Manifest(doc), Lists[Manifest(doc)], Attachments(doc), manifest_att(doc))

(* "PROVEN" in the notes of verify_plain_copy: the original is a sealed,    *)
(* unmodified document and exactly the file both identifications of the     *)
(* copy name, and every digest printed on the copy is of an attachment or   *)
(* one that an attached proof.json states, of media kept outside it.        *)
CopyVerifiedMeansNamed ==
  exit = 0 /\ kind = "plain_copy" /\ TimestampVerified =>
    /\ DocumentSealed(original.doc, roots)
    /\ \A id \in {subject.qr, subject.text} \ {Null} : id.doc \in {Null, original.doc}
    /\ \A c \in subject.cites :
         \/ \E at \in Attachments(original.doc) : Digest(c[1], c[2]) = DigestOf(at)
         \/ \E at \in Named(original.doc, ProofFile) :
              Is(at, ProofFile) /\ \E p \in Declares[at.v] : Digest(c[1], c[2]) = Digest(p, at.v)

(* qualified_status, "never call a time-stamp qualified unless a Trusted    *)
(* List said so": of a PDF with several time-stamps, of all of them.        *)
QualifiedMeansAll ==
  /\ summary # Null /\ summary.qualified = "per_supplied_tsl" /\ kind \in {"sealed_pdf", "plain_copy"}
  => LET d == IF kind = "plain_copy" THEN original.doc ELSE subject.doc IN
     list # Null /\ \A i \in Signatures(d) : HasTok(d, i) => d[i].token \in Granted[list]

(* README "Exit codes": an unsealed output alone is not verifiable, whatever *)
(* marks of other outputs it carries; only a sealed file of the kind it     *)
(* belongs to can make it verified.                                         *)
UnsealedNeedsSealed ==
  exit = 0 /\ kind \in Unsealed =>
    original # Null /\ detect_kind(original) = IF kind = "fb_report" THEN "fb_zip" ELSE "sealed_pdf"

(* A file with a seal of its own is accepted for that seal alone, whatever  *)
(* else it looks like: a signed document that carries the marks of a copy or *)
(* a report of some sealed original, a package of this app whose            *)
(* manifest.json says it is of another format.                              *)
OwnSealDecides ==
  exit = 0 =>
    /\ subject.type = "pdf" /\ Signatures(subject.doc) # {} /\ TimestampVerified =>
         DocumentSealed(subject.doc, roots)
    /\ \A v \in Versions : subject.type = "zip" /\ subject.zip[PayloadFile] = v /\ Format[v] \in FB_FORMATS =>
         PackageSealed(subject, roots)

(* No false alarm: a package or a document as the app makes it, renewed as   *)
(* often as one likes, with its own media archive and a list that grants    *)
(* its TSAs, is accepted.                                                   *)
CompleteVersion(v, inventory) ==    \* inventory: the files its proof.json must be true of
  /\ Format[v] \in FB_FORMATS /\ v \in FromApp
  /\ {ProofFile, MetaFile} \subseteq inventory /\ Declares[v] \ MediaPaths \subseteq inventory
  /\ Format[v] = "files" => /\ Declares[v] \cap UnderFiles # {}
                           /\ inventory \cap UnderFiles \subseteq Declares[v]
CompletePackage(v) ==
  /\ CompleteVersion(v, Binds[v])
  /\ Format[v] = "lite" => PageList[v] # {} /\ (v \in WithVideo => MediaFile \in Binds[v])
  /\ \A i \in 1..2 : PageOf(i) \cap Binds[v] # {} => i \in PageList[v]
CompleteDoc(v) ==
  /\ CompleteVersion(v, Lists[v]) /\ Embeds[v] = Lists[v] \cup {ManifestFile}
  /\ \A p \in Embeds[v] : <<p, v>> \notin Garbled
  /\ Cites[v] \subseteq Lists[v] \cup IF Format[v] = "lite" THEN External[v] ELSE {}
GenuineDoc(d) ==
  /\ d[1].kind = "body" /\ CompleteDoc(d[1].v)
  /\ Len(d) > 1 /\ d[2].kind = "sign"
  /\ \A i \in 2..Len(d) :
       \/ d[i].kind = "dss"
       \/ d[i].kind = "sign" /\ d[i] = Sign(TRUE, TRUE, d[i].token, SubSeq(d, 1, i - 1)) /\ d[i].token \in roots
ListGrants(tsas) == list # Null => tsas \subseteq Granted[list]
GenuinePackage(z) ==
  \E v \in Versions :
    /\ CompletePackage(v) /\ Tsa[v] \in roots
    /\ z.archive = "ok" /\ z.manifest = IssuedManifest(v, {p \in Listable : InZip(z, p)})
    /\ \A p \in Listable : z.zip[p] \in {v, Null}
    /\ Binds[v] \cup {PayloadFile, TsrFile} \subseteq {p \in Listable : InZip(z, p)}
    /\ \A p \in PageFiles \cup UnderFiles : InZip(z, p) => p \in Binds[v]
    /\ InZip(z, TslFile) => Tsa[v] \in Granted[v]
IntactAccepted ==
  exit # Null =>
    /\ kind = "fb_zip" /\ subject.manifest # Corrupt /\ GenuinePackage(subject) => exit = 0
    /\ kind = "sealed_pdf" /\ subject.parses = "yes" /\ GenuineDoc(subject.doc)
       /\ ListGrants({subject.doc[i].token : i \in Signatures(subject.doc)})
       /\ (media # Null => \A p \in ExternalOf(subject.doc) : media[p] = Manifest(subject.doc))
       => exit = 0

(* No check that failed is lost on the way to the verdict and the exit code, *)
(* not by a verdict chosen beforehand, not on the way back from the          *)
(* original, and not by an exception that throws the report away.           *)
FailureReachesExit == AnyFailed ~> (exit = 1 /\ summary.verdict = "FAILED")

(* cli.py, exit code 0: "no check failed and a qualified timestamp verified". *)
VerifiedMeansStamped == exit = 0 /\ kind = "sealed_pdf" => TimestampVerified

(* cli.py, --original: "never a VERIFIED verdict for a report".             *)
ReportNeverVerified == exit = 0 => kind \notin {"fb_report", "saas_report"}
=============================================================================
