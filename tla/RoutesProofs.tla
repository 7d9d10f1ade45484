---------------------------- MODULE RoutesProofs ----------------------------
(***************************************************************************)
(* What exit code 0 means for a package, a document, a copy and a report,   *)
(* for every version, every file and every command line.                   *)
(***************************************************************************)
EXTENDS Routes, Extrema, TLAPS

ZipSteps == {"zip_open", "fb_package", "bundle_integrity", "sealed_binding", "items", "token", "metadata",
             "report_pdf"}
PdfSteps == {"pdf_structure", "find_signatures", "signature", "post_seal", "attachments",
             "external_media", "evidence"}
Verifying == ZipSteps \cup PdfSteps \cup {"end"}
ZipKinds == {"fb_zip", "fb_report"}
PdfKinds == {"sealed_pdf", "plain_copy", "fb_media_zip"}
OnOriginal == {"fb_report", "plain_copy"}    \* kinds whose original is verified for them

(* Which kind of file can be at which step, and whose verifier it is in.     *)
StepInv ==
  /\ pc # "open" => kind = detect_kind(subject)
  /\ pc \in ZipSteps => kind \in ZipKinds
  /\ pc \in PdfSteps => kind \in PdfKinds
  /\ pc = "end" => kind \in ZipKinds \cup PdfKinds
  /\ pc \in Verifying /\ kind \in OnOriginal => inner = TRUE
  /\ pc \in Verifying /\ kind \notin OnOriginal => inner = FALSE
  /\ pc \notin Verifying \cup {"raised"} => inner = FALSE
  /\ pc \in {"copy_identification", "copy_binding"} => kind = "plain_copy"
  /\ pc \in {"report_integrity", "report_binding"} => kind = "fb_report"
  /\ pc = "saas_report" => kind = "saas_report"
  /\ pc = "media_companion" => kind = "fb_media_zip"
  /\ pc = "saas" => kind \in {"saas_zip", "zip_unknown"}
  /\ pc = "input_format" => kind \in {"pdf_unsigned", "pdf_damaged", "unknown"}
  /\ pc = "finish" => kind # "saas_report"
  /\ pc = "not_verifiable" => kind \in Unsealed
  /\ pc \in Verifying \cup {"copy_binding", "report_binding"} /\ kind \in OnOriginal \cup {"fb_media_zip"} =>
       original # Null

ExitInv ==
  /\ line \in CommandLines
  /\ pc # "done" => exit = Null
  /\ pc \in {"exit", "done"} =>
       summary.verdict \in {"VERIFIED", "FAILED", "INTEGRITY_ONLY", "NOT_VERIFIABLE"}
  /\ exit = 0 => pc = "done" /\ ~AnyFailed /\ summary.verdict = "VERIFIED"

-----------------------------------------------------------------------------
LEMMA Kinds ==
  ASSUME line \in CommandLines
  PROVE  detect_kind(subject) \in Unsealed \cup {"saas_zip", "zip_unknown", "fb_zip", "sealed_pdf",
                                                 "pdf_unsigned", "pdf_damaged", "unknown"}
<1>1. File(subject)
  BY LineAssumption DEF subject
<1>2. detect_zip(subject) \in {"zip_unknown", "fb_zip", "saas_zip"}
  BY DEF detect_zip
<1>3. detect_pdf(subject) \in {"sealed_pdf", "pdf_damaged", "plain_copy", "fb_report", "saas_report", "pdf_unsigned"}
  BY DEF detect_pdf
<1>4. subject.type \in {"zip", "media", "pdf", "other"}
  BY <1>1 DEF File
<1> QED
  BY <1>2, <1>3, <1>4 DEF detect_kind, Unsealed

(* What an action that reports does, and what is left when nothing failed.   *)
LEMMA Reported ==
  ASSUME NEW new, NEW next, Report(new, next)
  PROVE  /\ pc' = next /\ line' = line /\ kind' = kind /\ inner' = inner /\ cur' = cur
         /\ summary' = summary /\ exit' = exit
         /\ checks' = checks \cup new
         /\ ~AnyFailed' => ~AnyFailed /\ \A c \in new : c.status # "fail"
BY DEF Report, Go, AnyFailed

LEMMA ReportedOne ==
  ASSUME NEW name, NEW status, NEW next, One(name, status, next)
  PROVE  /\ pc' = next /\ line' = line /\ kind' = kind /\ inner' = inner /\ cur' = cur
         /\ summary' = summary /\ exit' = exit
         /\ checks' = checks \cup {Check(name, 0, status)}
         /\ ~AnyFailed' => ~AnyFailed /\ status # "fail"
<1>1. Report({Check(name, 0, status)}, next)
  BY DEF One
<1>2. Check(name, 0, status).status = status
  BY DEF Check
<1> QED
  BY <1>1, <1>2, Reported

(* What it means that none of the checks of a time-stamp failed.             *)
LEMMA TokenPassed ==
  ASSUME NEW n, NEW ok, NEW signer, NEW trusted, NEW listed,
         \A c \in TokenChecks(n, ok, signer, trusted, listed) : c.status # "fail"
  PROVE  ok /\ (signer => trusted)
<1>1. Check("timestamp_token", n, Status(ok)) \in TokenChecks(n, ok, signer, trusted, listed)
  BY DEF TokenChecks
<1>2. signer => Check("tsa_trust_root", n, Status(trusted)) \in TokenChecks(n, ok, signer, trusted, listed)
  BY DEF TokenChecks
<1>3. Status(ok) # "fail" /\ (signer => Status(trusted) # "fail")
  BY <1>1, <1>2 DEF Check
<1> QED
  BY <1>3 DEF Status

-----------------------------------------------------------------------------
LEMMA StepInit ==
  ASSUME Init
  PROVE  StepInv /\ ExitInv
BY LineAssumption DEF Init, StepInv, ExitInv, Verifying, ZipSteps, PdfSteps

LEMMA DispatchSteps ==
  ASSUME Dispatch, line \in CommandLines, StepInv
  PROVE  StepInv'
<1>1. /\ pc = "open" /\ kind' = detect_kind(subject) /\ pc' = FirstStep(kind') /\ line' = line
      /\ inner' = inner /\ inner = FALSE
  BY DEF Dispatch, StepInv, Verifying, ZipSteps, PdfSteps
<1>2. kind' \in Unsealed \cup {"saas_zip", "zip_unknown", "fb_zip", "sealed_pdf", "pdf_unsigned",
                               "pdf_damaged", "unknown"}
  BY <1>1, Kinds
<1>3. subject' = subject /\ kind' = detect_kind(subject')
  BY <1>1 DEF subject
<1>4. pc' \in {"saas", "zip_open", "pdf_structure", "copy_identification", "report_integrity", "saas_report",
               "media_companion", "input_format"}
  BY <1>1, <1>2 DEF FirstStep, Unsealed
<1>5. /\ pc' = "saas" => kind' \in {"saas_zip", "zip_unknown"}
      /\ pc' = "zip_open" => kind' = "fb_zip"
      /\ pc' = "pdf_structure" => kind' = "sealed_pdf"
      /\ pc' = "copy_identification" => kind' = "plain_copy"
      /\ pc' = "report_integrity" => kind' = "fb_report"
      /\ pc' = "saas_report" => kind' = "saas_report"
      /\ pc' = "media_companion" => kind' = "fb_media_zip"
      /\ pc' = "input_format" => kind' \in {"pdf_unsigned", "pdf_damaged", "unknown"}
  BY <1>1, <1>2 DEF FirstStep, Unsealed
<1>6. pc' \in Verifying => kind' \notin OnOriginal \cup {"fb_media_zip"}
  <2>1. pc' \in Verifying => kind' \in {"fb_zip", "sealed_pdf"}
    BY <1>4, <1>5 DEF Verifying, ZipSteps, PdfSteps
  <2> QED
    BY <2>1 DEF OnOriginal
<1>7. pc' \in ZipSteps => kind' \in ZipKinds
  BY <1>4, <1>5 DEF ZipSteps, ZipKinds
<1>8. pc' \in PdfSteps => kind' \in PdfKinds
  BY <1>4, <1>5 DEF PdfSteps, PdfKinds
<1> QED
  BY <1>1, <1>3, <1>4, <1>5, <1>6, <1>7, <1>8 DEF StepInv

(* The steps of the two verifiers lead to their own steps, to their end or   *)
(* to the handler, and change nothing but the report.                       *)
LEMMA ZipRuns ==
  ASSUME FbZip
  PROVE  /\ pc \in ZipSteps /\ pc' \in ZipSteps \cup {"end", "raised"}
         /\ line' = line /\ kind' = kind /\ inner' = inner /\ summary' = summary /\ exit' = exit
<1>1. CASE ZipOpen
  BY <1>1, Reported, ReportedOne DEF ZipOpen, ZipSteps
<1>2. CASE FbPackage \/ BundleIntegrity \/ SealedBinding \/ Items
  BY <1>2, ReportedOne DEF FbPackage, BundleIntegrity, SealedBinding, Items, ZipSteps
<1>3. CASE ZipToken
  BY <1>3, Reported, ReportedOne DEF ZipToken, ZipSteps
<1>4. CASE ZipMetadata \/ ZipReport
  BY <1>4, Reported, ReportedOne DEF ZipMetadata, ZipReport, ZipSteps
<1> QED
  BY <1>1, <1>2, <1>3, <1>4 DEF FbZip

LEMMA PdfRuns ==
  ASSUME SealedPdfRun
  PROVE  /\ pc \in PdfSteps /\ pc' \in PdfSteps \cup {"end", "raised"}
         /\ line' = line /\ kind' = kind /\ inner' = inner /\ summary' = summary /\ exit' = exit
<1>1. CASE PdfStructure
  BY <1>1, Reported, ReportedOne DEF PdfStructure, PdfSteps
<1>2. CASE FindSignatures
  BY <1>2, ReportedOne DEF FindSignatures, PdfSteps, Go
<1>3. CASE NextSignature
  BY <1>3 DEF NextSignature, AtSignature, PdfSteps
<1>4. CASE SignaturesDone \/ PostSealChanges
  BY <1>4, Reported, ReportedOne DEF SignaturesDone, PostSealChanges, PdfSteps
<1>5. CASE AttachmentsStep \/ ExternalMedia \/ EvidenceStep
  BY <1>5, Reported, ReportedOne DEF AttachmentsStep, ExternalMedia, EvidenceStep, PdfSteps
<1> QED
  BY <1>1, <1>2, <1>3, <1>4, <1>5 DEF SealedPdfRun

LEMMA VerifierSteps ==
  ASSUME FbZip \/ SealedPdfRun, StepInv
  PROVE  StepInv'
<1>1. /\ line' = line /\ kind' = kind /\ inner' = inner
      /\ pc \in Verifying \ {"end"} /\ pc' \in Verifying \cup {"raised"}
      /\ pc \in ZipSteps => pc' \in ZipSteps \cup {"end", "raised"}
      /\ pc \in PdfSteps => pc' \in PdfSteps \cup {"end", "raised"}
  BY ZipRuns, PdfRuns DEF Verifying, ZipSteps, PdfSteps
<1>2. /\ pc \in ZipSteps => kind \in ZipKinds
      /\ pc \in PdfSteps => kind \in PdfKinds
      /\ kind \in OnOriginal => inner = TRUE
      /\ kind \notin OnOriginal => inner = FALSE
      /\ kind \in OnOriginal \cup {"fb_media_zip"} => original # Null
      /\ kind = detect_kind(subject)
  BY <1>1 DEF StepInv, Verifying, ZipSteps, PdfSteps
<1>3. subject' = subject /\ original' = original
  BY <1>1 DEF subject, original
<1>4. pc' \in ZipSteps => pc \in ZipSteps
  BY <1>1 DEF ZipSteps, PdfSteps, Verifying
<1>5. pc' \in PdfSteps => pc \in PdfSteps
  BY <1>1 DEF ZipSteps, PdfSteps, Verifying
<1> QED
  BY <1>1, <1>2, <1>3, <1>4, <1>5 DEF StepInv, Verifying, ZipSteps, PdfSteps

(* What an unsealed output leads to: the verifier of its original, if there  *)
(* is one, and then the comparison with it.                                 *)
LEMMA OutputRuns ==
  ASSUME Outputs
  PROVE  /\ line' = line /\ kind' = kind /\ summary' = summary /\ exit' = exit
         /\ CopyIdentification =>
              /\ pc = "copy_identification"
              /\ \/ original = Null /\ pc' = "not_verifiable" /\ inner' = inner
                 \/ original # Null /\ pc' = "pdf_structure" /\ inner' = TRUE
         /\ ReportIntegrity =>
              /\ pc = "report_integrity"
              /\ \/ original = Null /\ pc' = "not_verifiable" /\ inner' = inner
                 \/ original # Null /\ pc' = "zip_open" /\ inner' = TRUE
         /\ CopyBinding => pc = "copy_binding" /\ pc' = "finish" /\ inner' = inner
         /\ ReportBinding => pc = "report_binding" /\ pc' = "finish" /\ inner' = inner
         /\ SaasReport => pc = "saas_report" /\ pc' = "not_verifiable" /\ inner' = inner
         /\ MediaCompanion =>
              /\ pc = "media_companion" /\ inner' = inner
              /\ \/ original = Null /\ pc' = "not_verifiable"
                 \/ original # Null /\ pc' \in {"finish", "pdf_structure"}
<1>1. CASE CopyIdentification
  BY <1>1 DEF CopyIdentification, Enter, Go, CopyBinding, ReportIntegrity, ReportBinding, SaasReport, MediaCompanion
<1>2. CASE ReportIntegrity
  BY <1>2 DEF ReportIntegrity, Enter, Go, CopyBinding, CopyIdentification, ReportBinding, SaasReport, MediaCompanion
<1>3. CASE CopyBinding
  BY <1>3, Reported DEF CopyBinding, CopyIdentification, ReportIntegrity, ReportBinding, SaasReport, MediaCompanion
<1>4. CASE ReportBinding
  BY <1>4, ReportedOne DEF ReportBinding, CopyBinding, CopyIdentification, ReportIntegrity, SaasReport, MediaCompanion
<1>5. CASE SaasReport
  BY <1>5, Reported DEF SaasReport, CopyBinding, CopyIdentification, ReportIntegrity, ReportBinding, MediaCompanion
<1>6. CASE MediaCompanion
  BY <1>6, Reported, ReportedOne
     DEF MediaCompanion, SaasReport, CopyBinding, CopyIdentification, ReportIntegrity, ReportBinding
<1> QED
  BY <1>1, <1>2, <1>3, <1>4, <1>5, <1>6 DEF Outputs

LEMMA OutputSteps ==
  ASSUME Outputs, StepInv
  PROVE  StepInv'
<1>1. line' = line /\ kind' = kind /\ subject' = subject /\ original' = original
  BY OutputRuns DEF subject, original
<1> USE DEF Verifying, ZipSteps, PdfSteps, ZipKinds, PdfKinds, OnOriginal, Unsealed
<1>2. CASE CopyIdentification
  BY <1>1, <1>2, OutputRuns DEF StepInv
<1>3. CASE ReportIntegrity
  BY <1>1, <1>3, OutputRuns DEF StepInv
<1>4. CASE CopyBinding
  BY <1>1, <1>4, OutputRuns DEF StepInv
<1>5. CASE ReportBinding
  BY <1>1, <1>5, OutputRuns DEF StepInv
<1>6. CASE SaasReport
  BY <1>1, <1>6, OutputRuns DEF StepInv
<1>7. CASE MediaCompanion
  BY <1>1, <1>7, OutputRuns DEF StepInv
<1> QED
  BY <1>2, <1>3, <1>4, <1>5, <1>6, <1>7 DEF Outputs

LEMMA LastSteps ==
  ASSUME SaasZip \/ InputFormat \/ EndVerifier \/ Finish \/ Raised \/ Exit \/ UNCHANGED vars, StepInv
  PROVE  StepInv'
<1>1. line' = line /\ kind' = kind /\ subject' = subject /\ original' = original
  BY ReportedOne DEF SaasZip, InputFormat, EndVerifier, Finish, Raised, Exit, vars, subject, original
<1> USE DEF Verifying, ZipSteps, PdfSteps, ZipKinds, PdfKinds, OnOriginal
<1>2. CASE SaasZip
  BY <1>1, <1>2 DEF SaasZip, StepInv, Go
<1>3. CASE InputFormat
  BY <1>1, <1>3, ReportedOne DEF InputFormat, StepInv
<1>4. CASE EndVerifier
  BY <1>1, <1>4 DEF EndVerifier, StepInv, Go
<1>5. CASE Finish \/ Raised \/ Exit
  BY <1>1, <1>5 DEF Finish, Raised, Exit, StepInv, Go
<1>6. CASE UNCHANGED vars
  BY <1>1, <1>6 DEF vars, StepInv
<1> QED
  BY <1>2, <1>3, <1>4, <1>5, <1>6

LEMMA ExitSteps ==
  ASSUME [Next]_vars, StepInv, ExitInv
  PROVE  ExitInv'
<1>1. CASE FbZip \/ SealedPdfRun \/ Outputs
  <2>1. /\ line' = line /\ summary' = summary /\ exit' = exit
        /\ pc \notin {"exit", "done"} /\ pc' \notin {"exit", "done"}
    BY <1>1, ZipRuns, PdfRuns, OutputRuns DEF ZipSteps, PdfSteps, Outputs
  <2> QED
    BY <2>1 DEF ExitInv
<1>2. CASE Dispatch
  <2>1. /\ pc' \notin {"exit", "done"} /\ pc = "open"
    BY <1>2, Kinds DEF Dispatch, ExitInv, FirstStep, Unsealed
  <2> QED
    BY <1>2, <2>1, LineAssumption DEF ExitInv, Dispatch
<1>3. CASE InputFormat \/ EndVerifier
  BY <1>3, ReportedOne, LineAssumption DEF InputFormat, EndVerifier, ExitInv, Go
<1>4. CASE SaasZip
  <2>1. /\ pc = "saas" /\ pc' = "exit" /\ line' = line /\ exit' = exit
        /\ summary'.verdict \in {"VERIFIED", "FAILED", "INTEGRITY_ONLY"}
    BY <1>4 DEF SaasZip, Go
  <2> QED
    BY <2>1, LineAssumption DEF ExitInv
<1>5. CASE Finish
  <2>1. /\ pc \in {"finish", "not_verifiable"} /\ pc' = "exit" /\ line' = line /\ exit' = exit
        /\ summary'.verdict \in {"VERIFIED", "FAILED", "NOT_VERIFIABLE"}
    BY <1>5 DEF Finish, Go, _finish
  <2> QED
    BY <2>1, LineAssumption DEF ExitInv
<1>6. CASE Raised
  BY <1>6, LineAssumption DEF Raised, ExitInv, Go
<1>7. CASE Exit
  <2>1. pc = "exit" /\ pc' = "done" /\ line' = line /\ summary' = summary /\ checks' = checks /\ exit' = exit_code
    BY <1>7 DEF Exit, Go
  <2>2. exit_code = 0 => ~AnyFailed /\ summary.verdict = "VERIFIED"
    BY <2>1 DEF exit_code, ExitInv
  <2> QED
    BY <2>1, <2>2 DEF ExitInv, AnyFailed
<1>8. CASE UNCHANGED vars
  BY <1>8 DEF vars, ExitInv, AnyFailed
<1> QED
  BY <1>1, <1>2, <1>3, <1>4, <1>5, <1>6, <1>7, <1>8 DEF Next

LEMMA StepNext ==
  ASSUME [Next]_vars, StepInv, ExitInv
  PROVE  StepInv' /\ ExitInv'
BY DispatchSteps, VerifierSteps, OutputSteps, LastSteps, ExitSteps DEF Next, ExitInv

-----------------------------------------------------------------------------
(* The checks of verify_fb_zip together are what PackageSealed says.         *)
Opened(z) == z.type = "zip" /\ z.archive # "not_zip" /\ z.manifest # Corrupt
Stamped(z, tsas) == SignedToken(z) /\ timestamp_token(z) /\ tsa_trust_root(z, tsas)

LEMMA ChecksMeanSealed ==
  ASSUME NEW z, NEW tsas, File(z), Opened(z), fb_package(z), sealed_binding(z), items(z), Stamped(z, tsas)
  PROVE  PackageSealed(z, tsas)
<1> DEFINE v == Payload(z)
<1>1. z.zip \in [Members -> Versions \cup {Null, Corrupt}]
  BY DEF File, Opened
<1>2. \A p \in Members : Data(z, p) # Null => z.zip[p] = Data(z, p) /\ Data(z, p) \in Versions
  BY <1>1 DEF Data
<1>3. {ProofFile, PayloadFile, TsrFile} \subseteq Members /\ Listable \subseteq Members /\ UnderFiles \subseteq Listable
  BY DEF Members, Listable
<1>4. v \in Versions /\ z.zip[PayloadFile] = v /\ z.zip[TsrFile] = v /\ Tsa[v] \in tsas /\ v # Null
  BY <1>2, <1>3 DEF fb_package, Stamped, timestamp_token, SignedToken, HasToken, tsa_trust_root, Payload
<1>5. PayloadFiles(z) = Binds[v]
  BY <1>4 DEF PayloadFiles
<1>6. Binds[v] # {} /\ \A p \in Binds[v] : z.zip[p] = v
  <2>1. Binds[v] \subseteq Listable
    BY <1>4, PackageAssumption
  <2>2. \A p \in Binds[v] : Data(z, p) = v
    BY <1>5 DEF sealed_binding
  <2>3. Binds[v] # {}
    BY <1>5 DEF sealed_binding
  <2> QED
    BY <1>2, <1>3, <1>4, <2>1, <2>2, <2>3
<1>7. MarkedSealed(z) = Binds[v]
  BY <1>5 DEF sealed_binding
<1>8. z.manifest # Null /\ z.manifest.format = Format[v] /\ Format[v] \in FB_FORMATS
  BY DEF fb_package
<1>9. ASSUME Format[v] = "files", NEW p \in UnderFiles, InZip(z, p)
      PROVE  p \in Binds[v]
  <2>1. files(z)
    BY <1>8, <1>9 DEF items
  <2>2. p \in Declares[Data(z, ProofFile)]
    BY <1>9, <2>1 DEF files
  <2> QED
    BY <1>5, <1>9, <2>1, <2>2 DEF files
<1> QED
  BY <1>4, <1>6, <1>7, <1>8, <1>9 DEF PackageSealed

(* How far the verifier of a package has come, for as long as nothing       *)
(* failed.  Won: a verdict that makes the exit code 0.                      *)
package == IF kind = "fb_report" THEN original ELSE subject
Won == pc \in {"exit", "done"} /\ summary.verdict = "VERIFIED"
ZipOver == pc \in {"end", "report_binding", "finish"} \/ Won
PackageInv ==
  kind \in ZipKinds /\ ~AnyFailed =>
    /\ pc \in ZipSteps \ {"zip_open"} \/ ZipOver => Opened(package)
    /\ pc \in ZipSteps \ {"zip_open", "fb_package"} \/ ZipOver => fb_package(package)
    /\ pc \in ZipSteps \ {"zip_open", "fb_package", "bundle_integrity"} \/ ZipOver => bundle_integrity(package)
    /\ pc \in {"items", "token", "metadata", "report_pdf"} \/ ZipOver => sealed_binding(package)
    /\ pc \in {"token", "metadata", "report_pdf"} \/ ZipOver => items(package)
    /\ pc \in {"metadata", "report_pdf"} \/ ZipOver => Stamped(package, roots)
    /\ kind = "fb_report" /\ (pc = "report_binding" \/ ZipOver) => original # Null
    /\ kind = "fb_report" /\ (pc = "finish" \/ Won) => report_binding

LEMMA PackageSteps ==
  ASSUME FbZip, StepInv, PackageInv
  PROVE  PackageInv'
<1>1. /\ pc \in ZipSteps /\ pc' \in ZipSteps \cup {"end", "raised"}
      /\ line' = line /\ kind' = kind /\ inner' = inner /\ summary' = summary
  BY ZipRuns
<1>2. /\ package' = package /\ roots' = roots /\ original' = original /\ target = package
      /\ kind = "fb_report" => original # Null
  BY <1>1 DEF package, subject, original, roots, target, ForCompanion, StepInv, Verifying, ZipKinds, OnOriginal
<1>3. ~Won' /\ (ZipOver' => pc' = "end") /\ ~ZipOver
  BY <1>1 DEF Won, ZipOver, ZipSteps
<1>4. /\ Opened(package)' = Opened(package) /\ fb_package(package)' = fb_package(package)
      /\ bundle_integrity(package)' = bundle_integrity(package)
      /\ sealed_binding(package)' = sealed_binding(package)
      /\ items(package)' = items(package) /\ Stamped(package, roots)' = Stamped(package, roots)
  BY <1>2
<1>5. CASE ZipOpen
  <2>1. ~AnyFailed' => pc' \in {"raised", "fb_package"} /\ (pc' = "fb_package" => Opened(package))
    BY <1>2, <1>5, Reported, ReportedOne DEF ZipOpen, IsZip, Opened
  <2> QED
    BY <1>1, <1>2, <1>3, <1>4, <2>1 DEF PackageInv, ZipSteps
<1>6. CASE FbPackage
  <2>1. ~AnyFailed' => ~AnyFailed /\ fb_package(package) /\ pc' = "bundle_integrity"
    BY <1>2, <1>6, ReportedOne DEF FbPackage, Status, fb_package
  <2> QED
    BY <1>1, <1>2, <1>3, <1>4, <1>6, <2>1 DEF PackageInv, ZipSteps, FbPackage
<1>7. CASE BundleIntegrity
  <2>1. ~AnyFailed' => ~AnyFailed /\ bundle_integrity(package) /\ pc' = "sealed_binding"
    BY <1>2, <1>7, ReportedOne DEF BundleIntegrity, Status
  <2> QED
    BY <1>1, <1>2, <1>3, <1>4, <1>7, <2>1 DEF PackageInv, ZipSteps, BundleIntegrity
<1>8. CASE SealedBinding
  <2>1. ~AnyFailed' => ~AnyFailed /\ sealed_binding(package) /\ pc' = "items"
    BY <1>2, <1>8, ReportedOne DEF SealedBinding, Status
  <2> QED
    BY <1>1, <1>2, <1>3, <1>4, <1>8, <2>1 DEF PackageInv, ZipSteps, SealedBinding
<1>9. CASE Items
  <2>1. ~AnyFailed' => ~AnyFailed /\ items(package) /\ pc' = "token"
    BY <1>2, <1>9, ReportedOne DEF Items, Status
  <2> QED
    BY <1>1, <1>2, <1>3, <1>4, <1>9, <2>1 DEF PackageInv, ZipSteps, Items
<1>10. CASE ZipToken
  <2>1. ~AnyFailed' => ~AnyFailed /\ Stamped(package, roots) /\ pc' = "metadata"
    <3>1. CASE ~HasToken(target)
      BY <1>10, <3>1, ReportedOne DEF ZipToken
    <3>2. CASE HasToken(target)
      <4> DEFINE new == TokenChecks(1, timestamp_token(target), SignedToken(target),
                                    tsa_trust_root(target, roots), tsl_qualified(target))
      <4>1. Report(new, "metadata")
        BY <1>10, <3>2 DEF ZipToken
      <4>2. ~AnyFailed' => ~AnyFailed /\ pc' = "metadata" /\ \A c \in new : c.status # "fail"
        <5> HIDE DEF new
        <5> QED
          BY <4>1, Reported
      <4>3. ASSUME ~AnyFailed'
            PROVE  timestamp_token(target) /\ (SignedToken(target) => tsa_trust_root(target, roots))
        BY <4>2, <4>3, TokenPassed
      <4>4. timestamp_token(target) => SignedToken(target)
        BY DEF timestamp_token
      <4>5. ~AnyFailed' => Stamped(package, roots)
        <5> HIDE DEF new
        <5> QED
          BY <1>2, <4>3, <4>4 DEF Stamped
      <4> QED
        BY <4>2, <4>5
    <3> QED
      BY <3>1, <3>2
  <2> QED
    BY <1>1, <1>2, <1>3, <1>4, <1>10, <2>1 DEF PackageInv, ZipSteps, ZipToken
<1>11. CASE ZipMetadata \/ ZipReport
  <2>1. ~AnyFailed' => ~AnyFailed /\ pc \in {"metadata", "report_pdf"} /\ pc' \in {"report_pdf", "end"}
    BY <1>11, Reported, ReportedOne DEF ZipMetadata, ZipReport
  <2> QED
    BY <1>1, <1>2, <1>3, <1>4, <1>11, <2>1 DEF PackageInv, ZipSteps
<1> QED
  BY <1>5, <1>6, <1>7, <1>8, <1>9, <1>10, <1>11 DEF FbZip

(* The other steps, for a package or a report.                              *)
LEMMA PackageRest ==
  ASSUME [Next]_vars, ~FbZip, ~Dispatch, StepInv, PackageInv
  PROVE  PackageInv'
<1> SUFFICES ASSUME kind' \in ZipKinds, ~AnyFailed'
             PROVE  PackageInv'
  BY DEF PackageInv
<1> USE DEF Verifying, ZipSteps, PdfSteps, ZipKinds, PdfKinds, OnOriginal
<1>1. line' = line /\ kind' = kind
  <2>1. CASE SealedPdfRun \/ Outputs
    BY <2>1, PdfRuns, OutputRuns
  <2> QED
    BY <2>1, ReportedOne DEF Next, SaasZip, InputFormat, EndVerifier, Finish, Raised, Exit, vars
<1>2. /\ package' = package /\ roots' = roots /\ original' = original /\ subject' = subject
      /\ report_binding' = report_binding
  BY <1>1 DEF package, subject, original, roots, report_binding
<1>3. /\ Opened(package)' = Opened(package) /\ fb_package(package)' = fb_package(package)
      /\ bundle_integrity(package)' = bundle_integrity(package)
      /\ sealed_binding(package)' = sealed_binding(package)
      /\ items(package)' = items(package) /\ Stamped(package, roots)' = Stamped(package, roots)
  BY <1>2
<1>4. ASSUME pc' \notin ZipSteps \ {"zip_open"}, ~ZipOver'
      PROVE  PackageInv'
  BY <1>4 DEF PackageInv, ZipOver
<1>5. ASSUME ZipOver, ~AnyFailed, ZipOver', pc' \in {"end", "report_binding", "finish", "exit", "done"},
             kind = "fb_report" /\ (pc' = "finish" \/ Won') => report_binding
      PROVE  PackageInv'
  BY <1>1, <1>2, <1>3, <1>5 DEF PackageInv, ZipOver
<1>6. CASE UNCHANGED vars
  BY <1>1, <1>2, <1>3, <1>6 DEF vars, PackageInv, ZipOver, Won, AnyFailed
<1>7. CASE SaasZip \/ InputFormat \/ SealedPdfRun
  BY <1>1, <1>7, PdfRuns DEF SaasZip, InputFormat, StepInv
<1>8. CASE Outputs
  <2>1. kind = "fb_report" /\ (ReportIntegrity \/ ReportBinding)
    BY <1>1, <1>8, OutputRuns DEF Outputs, StepInv
  <2>2. CASE ReportIntegrity
    BY <1>4, <2>2, <1>8, OutputRuns DEF ZipOver, Won
  <2>3. CASE ReportBinding
    <3>1. pc = "report_binding" /\ pc' = "finish" /\ ~AnyFailed /\ report_binding
      BY <2>3, ReportedOne DEF ReportBinding, Status
    <3> QED
      BY <1>5, <3>1 DEF ZipOver
  <2> QED
    BY <2>1, <2>2, <2>3
<1>9. CASE EndVerifier
  <2>1. pc = "end" /\ ~AnyFailed /\ (IF kind = "fb_report" THEN pc' = "report_binding" ELSE pc' = "finish")
    BY <1>1, <1>9 DEF EndVerifier, Go, StepInv, AnyFailed
  <2> QED
    BY <1>5, <2>1 DEF ZipOver, Won
<1>10. CASE Finish
  <2>1. pc' = "exit" /\ ~AnyFailed /\ (Won' => pc = "finish")
    BY <1>10, LineAssumption DEF Finish, Go, AnyFailed, Won, _finish
  <2>2. CASE Won'
    BY <1>1, <1>5, <2>1, <2>2 DEF ZipOver, PackageInv
  <2> QED
    BY <1>4, <2>1, <2>2 DEF ZipOver
<1>11. CASE Raised
  <2>1. pc' = "exit" /\ summary'.verdict = "FAILED"
    BY <1>11 DEF Raised, Go
  <2> QED
    BY <1>4, <2>1 DEF ZipOver, Won
<1>12. CASE Exit
  <2>1. pc = "exit" /\ pc' = "done" /\ ~AnyFailed /\ Won' = Won
    BY <1>12 DEF Exit, Go, AnyFailed, Won
  <2>2. CASE Won
    BY <1>1, <1>5, <2>1, <2>2 DEF ZipOver, PackageInv
  <2> QED
    BY <1>4, <2>1, <2>2 DEF ZipOver
<1> QED
  BY <1>6, <1>7, <1>8, <1>9, <1>10, <1>11, <1>12 DEF Next

LEMMA PackageNext ==
  ASSUME [Next]_vars, StepInv, ExitInv, PackageInv
  PROVE  PackageInv'
<1>1. CASE Dispatch
  <2>1. pc' \notin (ZipSteps \ {"zip_open"}) \cup {"end", "report_binding", "finish", "exit", "done"}
    BY <1>1, Kinds DEF Dispatch, FirstStep, Go, ZipSteps, Unsealed, ExitInv
  <2> QED
    BY <2>1 DEF PackageInv, ZipOver, Won, ZipSteps
<1> QED
  BY <1>1, PackageSteps, PackageRest

LEMMA PackageInit ==
  ASSUME Init
  PROVE  PackageInv
BY DEF Init, PackageInv, ZipSteps, ZipOver, Won

-----------------------------------------------------------------------------
LEMMA StepsAlways == Spec => [](StepInv /\ ExitInv)
<1>1. Init => StepInv /\ ExitInv
  BY StepInit
<1>2. StepInv /\ ExitInv /\ [Next]_vars => (StepInv /\ ExitInv)'
  BY StepNext
<1> QED
  BY <1>1, <1>2, PTL DEF Spec

LEMMA PackageAlways == Spec => []PackageInv
<1>1. Init => PackageInv
  BY PackageInit
<1>2. StepInv /\ ExitInv /\ PackageInv /\ [Next]_vars => PackageInv'
  BY PackageNext
<1> QED
  BY <1>1, <1>2, StepsAlways, PTL DEF Spec

LEMMA Given ==
  ASSUME line \in CommandLines
  PROVE  File(subject) /\ (original # Null => File(original))
BY LineAssumption DEF subject, original

(* A package that ends in exit code 0 is sealed.                            *)
LEMMA PackageAtExit ==
  ASSUME StepInv, ExitInv, PackageInv, exit = 0, kind \in ZipKinds
  PROVE  /\ PackageSealed(package, roots) /\ bundle_integrity(package)
         /\ kind = "fb_report" => report_binding
<1>1. Won /\ ~AnyFailed
  BY DEF ExitInv, Won
<1>2. /\ Opened(package) /\ fb_package(package) /\ bundle_integrity(package) /\ sealed_binding(package)
      /\ items(package) /\ Stamped(package, roots)
      /\ kind = "fb_report" => original # Null /\ report_binding
  BY <1>1 DEF PackageInv, ZipOver
<1>3. File(package)
  BY <1>2, Given DEF ExitInv, package
<1> QED
  BY <1>2, <1>3, ChecksMeanSealed

(* For every version, package and command line: exit code 0 for a package    *)
(* of the Forensic Browser means that a TSA in force stamped its payload and *)
(* that every file it lists is as it was then.                              *)
THEOREM PackageSound == Spec => []PackageVerifiedMeansSealed
<1>1. StepInv /\ ExitInv /\ PackageInv => PackageVerifiedMeansSealed
  BY PackageAtExit DEF PackageVerifiedMeansSealed, ZipKinds, package
<1> QED
  BY <1>1, StepsAlways, PackageAlways, PTL

(* And for a report.pdf given with --original: that package is sealed, and   *)
(* the report is the member report.pdf of it, as its manifest lists it.     *)
THEOREM ReportSound == Spec => []ReportVerifiedMeansShipped
<1>1. ASSUME StepInv, ExitInv, PackageInv, exit = 0, kind = "fb_report"
      PROVE  PackageSealed(original, roots) /\ original.zip[ReportFile] = subject.report
  <2>1. PackageSealed(original, roots) /\ bundle_integrity(original) /\ report_binding
    BY <1>1, PackageAtExit DEF ZipKinds, package
  <2>2. ReportFile \in Listable
    BY DEF Listable
  <2>3. Entry(original, ReportFile) # Null /\ Entry(original, ReportFile).of = subject.report
    BY <2>1 DEF report_binding, IsListed
  <2>4. Data(original, ReportFile) # Null /\ Data(original, ReportFile) = subject.report
    BY <2>1, <2>2, <2>3 DEF bundle_integrity, Listed
  <2> QED
    BY <2>1, <2>4 DEF Data
<1>2. StepInv /\ ExitInv /\ PackageInv => ReportVerifiedMeansShipped
  BY <1>1 DEF ReportVerifiedMeansShipped
<1> QED
  BY <1>2, StepsAlways, PackageAlways, PTL

-----------------------------------------------------------------------------
(* The checks of verify_sealed_pdf together are what DocumentSealed says.    *)
AsPdf(f) == f.type = "pdf"
Genuine(d, i, tsas) == d[i].is_doc_ts => pades_signature(d, i) /\ StampedBy(d, i, tsas)

LEMMA GenuineMeansSealed ==
  ASSUME NEW d, NEW tsas, Len(d) \in Nat, HasPrimary(d), post_seal_changes(d),
         \A i \in Signatures(d) : Genuine(d, i, tsas)
  PROVE  DocumentSealed(d, tsas)
<1> DEFINE T == {i \in Signatures(d) : HasTok(d, i)}
<1>1. Signatures(d) \subseteq 1..Len(d) /\ T \in SUBSET Nat /\ T # {}
  BY DEF Signatures, HasPrimary
<1>2. \E i \in Signatures(d) : HasTok(d, i) /\ \A j \in Signatures(d) : HasTok(d, j) => i <= j
  BY <1>1, Least
<1>3. /\ Primary(d) \in Signatures(d) /\ HasTok(d, Primary(d))
      /\ \A j \in Signatures(d) : HasTok(d, j) => Primary(d) <= j
  BY <1>2 DEF Primary
<1>4. StampedBy(d, Primary(d), tsas)
  BY <1>3 DEF Genuine, HasTok
<1>5. ASSUME NEW j \in Signatures(d), j < Primary(d)
      PROVE  ~d[j].is_doc_ts
  <2>1. ~HasTok(d, j)
    BY <1>1, <1>3, <1>5
  <2> QED
    BY <2>1 DEF HasTok, Genuine, pades_signature
<1>6. ASSUME NEW j \in (Primary(d) + 1)..Len(d)
      PROVE  d[j].kind = "dss" \/ StampedBy(d, j, tsas)
  <2>1. AllowedAfterSeal(d[j])
    BY <1>6 DEF post_seal_changes
  <2>2. j \in 1..Len(d)
    BY <1>1, <1>3
  <2> QED
    BY <2>1, <2>2 DEF AllowedAfterSeal, Signatures, Genuine
<1> QED
  BY <1>3, <1>4, <1>5, <1>6 DEF DocumentSealed

(* How far the verifier of a document has come, for as long as nothing       *)
(* failed: the signatures before cur are genuine, then all of them.         *)
document == IF kind = "sealed_pdf" THEN subject ELSE original
PdfOver == pc \in {"end", "copy_binding", "finish"} \/ Won
AfterLoop == pc \in {"post_seal", "attachments", "external_media", "evidence"} \/ PdfOver
AfterSeal == pc \in {"attachments", "external_media", "evidence"} \/ (PdfOver /\ HasPrimary(document.doc))
AfterFiles == pc \in {"external_media", "evidence"} \/ (PdfOver /\ HasPrimary(document.doc))
AllGenuine == \A i \in Signatures(document.doc) : Genuine(document.doc, i, roots)
PdfInv ==
  kind \in PdfKinds /\ ~AnyFailed =>
    /\ pc \in PdfSteps \/ PdfOver => (kind # "sealed_pdf" => original # Null)
    /\ pc \in PdfSteps \ {"pdf_structure"} \/ PdfOver => AsPdf(document)
    /\ pc \in PdfSteps \ {"pdf_structure", "find_signatures"} \/ PdfOver => Signatures(document.doc) # {}
    /\ pc = "signature" =>
         cur \in Nat /\ \A i \in Signatures(document.doc) : i < cur => Genuine(document.doc, i, roots)
    /\ AfterLoop => AllGenuine
    /\ AfterSeal => post_seal_changes(document.doc)
    /\ AfterFiles => attachments(document.doc) # "fail"

LEMMA PdfSame ==
  ASSUME line' = line, kind' = kind
  PROVE  /\ document' = document /\ roots' = roots /\ subject' = subject /\ original' = original
         /\ AsPdf(document)' = AsPdf(document)
         /\ Signatures(document.doc)' = Signatures(document.doc)
         /\ HasPrimary(document.doc)' = HasPrimary(document.doc)
         /\ AllGenuine' = AllGenuine
         /\ post_seal_changes(document.doc)' = post_seal_changes(document.doc)
         /\ attachments(document.doc)' = attachments(document.doc)
<1>1. document' = document /\ roots' = roots /\ subject' = subject /\ original' = original
  BY DEF document, roots, subject, original
<1> QED
  BY <1>1 DEF AllGenuine

LEMMA PdfDocument ==
  ASSUME StepInv, pc \in PdfSteps
  PROVE  kind \in PdfKinds /\ target = document /\ doc = document.doc /\ (kind # "sealed_pdf" => original # Null)
<1>1. kind \in PdfKinds /\ pc \in Verifying
  BY DEF StepInv, Verifying
<1>2. /\ kind = "plain_copy" => inner = TRUE
      /\ kind # "plain_copy" => inner = FALSE
      /\ kind # "sealed_pdf" => original # Null
  BY <1>1 DEF StepInv, PdfKinds, OnOriginal
<1>3. target = document
  BY <1>1, <1>2 DEF target, document, ForCompanion, PdfKinds
<1> QED
  BY <1>1, <1>2, <1>3 DEF doc

(* One round of the loop over the signatures.                               *)
LEMMA SignatureStep ==
  ASSUME NextSignature, StepInv, ExitInv, PdfInv, ~AnyFailed'
  PROVE  /\ ~AnyFailed /\ cur' = cur + 1 /\ pc' = "signature"
         /\ cur \in Signatures(document.doc) => Genuine(document.doc, cur, roots)
<1> DEFINE d == document.doc
<1>1. /\ pc = "signature" /\ pc' = pc /\ cur' = cur + 1
      /\ checks' = checks \cup IF cur \in Signatures(doc) THEN SignatureChecks(cur) ELSE {}
  BY DEF NextSignature, AtSignature
<1>2. doc = d
  BY <1>1, PdfDocument DEF PdfSteps
<1>3. ~AnyFailed
  BY <1>1 DEF AnyFailed
<1>4. ASSUME cur \in Signatures(d), d[cur].is_doc_ts
      PROVE  pades_signature(d, cur) /\ StampedBy(d, cur, roots)
  <2>1. \A c \in SignatureChecks(cur) : c.status # "fail"
    BY <1>1, <1>2, <1>4 DEF AnyFailed
  <2>2. Check("pades_signature", cur, Status(pades_signature(d, cur))) \in SignatureChecks(cur)
    BY <1>2, <1>4 DEF SignatureChecks
  <2>3. pades_signature(d, cur)
    BY <2>1, <2>2 DEF Check, Status
  <2>4. HasTok(d, cur)
    BY <1>4, <2>3 DEF HasTok, pades_signature
  <2> DEFINE ok == TokenOk(d, cur)
             signer == d[cur].token # Null
             trusted == d[cur].token \in roots
             listed == ListStatus(d, cur, list)
  <2>5. \A c \in TokenChecks(cur, ok, signer, trusted, listed) : c.status # "fail"
    BY <1>2, <1>4, <2>1, <2>4 DEF SignatureChecks
  <2>6. ok /\ (signer => trusted)
    <3> HIDE DEF ok, signer, trusted, listed
    <3> QED
      BY <2>5, TokenPassed
  <2> QED
    BY <1>4, <2>3, <2>6 DEF TokenOk, Imprint, StampedBy, Signatures
<1> QED
  BY <1>1, <1>3, <1>4 DEF Genuine

LEMMA PdfRunSteps ==
  ASSUME SealedPdfRun, StepInv, ExitInv, PdfInv
  PROVE  PdfInv'
<1> SUFFICES ASSUME ~AnyFailed'
             PROVE  PdfInv'
  BY DEF PdfInv
<1> DEFINE d == document.doc
<1>1. /\ pc \in PdfSteps /\ pc' \in PdfSteps \cup {"end", "raised"}
      /\ line' = line /\ kind' = kind /\ inner' = inner /\ summary' = summary
  BY PdfRuns
<1>2. kind \in PdfKinds /\ target = document /\ doc = d /\ (kind # "sealed_pdf" => original # Null)
  BY <1>1, PdfDocument
<1>3. ~Won' /\ (PdfOver' => pc' = "end") /\ ~PdfOver
  BY <1>1 DEF Won, PdfOver, PdfSteps
<1>4. File(document) /\ (AsPdf(document) => Len(d) \in Nat)
  BY <1>2, Given DEF document, ExitInv, File, AsPdf, PdfKinds
<1> USE PdfSame
<1>5. CASE PdfStructure
  <2>1. pc' \in {"raised", "find_signatures"} /\ AsPdf(document)
    BY <1>2, <1>5, Reported, ReportedOne DEF PdfStructure, AsPdf
  <2> QED
    BY <1>1, <1>2, <1>3, <2>1 DEF PdfInv, PdfSteps, AfterLoop, AfterSeal, AfterFiles
<1>6. CASE FindSignatures
  <2>1. ~AnyFailed /\ pc = "find_signatures" /\ Signatures(d) # {} /\ pc' = "signature" /\ cur' = 1
    BY <1>2, <1>6, ReportedOne DEF FindSignatures, Go, AnyFailed
  <2>2. AsPdf(document)
    BY <1>2, <2>1 DEF PdfInv, PdfSteps
  <2>3. \A i \in Signatures(d) : ~(i < 1)
    BY <1>4, <2>2 DEF Signatures
  <2> QED
    BY <1>1, <1>2, <1>3, <2>1, <2>2, <2>3 DEF PdfInv, PdfSteps, AfterLoop, AfterSeal, AfterFiles
<1>7. CASE NextSignature
  <2>1. /\ ~AnyFailed /\ cur' = cur + 1 /\ pc = "signature" /\ pc' = "signature"
        /\ cur \in Signatures(d) => Genuine(d, cur, roots)
    BY <1>7, SignatureStep DEF NextSignature, AtSignature
  <2>2. /\ AsPdf(document) /\ Signatures(d) # {} /\ cur \in Nat
        /\ \A i \in Signatures(d) : i < cur => Genuine(d, i, roots)
    BY <1>2, <2>1 DEF PdfInv, PdfSteps
  <2>3. \A i \in Signatures(d) : i < cur + 1 => Genuine(d, i, roots)
    BY <1>4, <2>1, <2>2 DEF Signatures
  <2> QED
    BY <1>1, <1>2, <1>3, <2>1, <2>2, <2>3 DEF PdfInv, PdfSteps, AfterLoop, AfterSeal, AfterFiles
<1>8. CASE SignaturesDone
  <2>1. /\ ~AnyFailed /\ pc = "signature" /\ cur > Len(d)
        /\ pc' = IF HasPrimary(d) THEN "post_seal" ELSE "end"
    BY <1>2, <1>8, Reported DEF SignaturesDone
  <2>2. /\ AsPdf(document) /\ Signatures(d) # {} /\ cur \in Nat
        /\ \A i \in Signatures(d) : i < cur => Genuine(d, i, roots)
    BY <1>2, <2>1 DEF PdfInv, PdfSteps
  <2>3. AllGenuine
    BY <1>4, <2>1, <2>2 DEF Signatures, AllGenuine
  <2> QED
    BY <1>1, <1>2, <1>3, <2>1, <2>2, <2>3 DEF PdfInv, PdfSteps, AfterLoop, AfterSeal, AfterFiles
<1>9. CASE PostSealChanges
  <2>1. ~AnyFailed /\ pc = "post_seal" /\ pc' = "attachments" /\ post_seal_changes(d)
    BY <1>2, <1>9, ReportedOne DEF PostSealChanges, Status
  <2> QED
    BY <1>1, <1>2, <1>3, <2>1 DEF PdfInv, PdfSteps, AfterLoop, AfterSeal, AfterFiles
<1>10. CASE AttachmentsStep
  <2>1. ~AnyFailed /\ pc = "attachments" /\ pc' = "external_media" /\ attachments(d) # "fail"
    BY <1>2, <1>10, ReportedOne DEF AttachmentsStep
  <2> QED
    BY <1>1, <1>2, <1>3, <2>1 DEF PdfInv, PdfSteps, AfterLoop, AfterSeal, AfterFiles
<1>11. CASE ExternalMedia \/ EvidenceStep
  <2>1. ~AnyFailed /\ pc \in {"external_media", "evidence"} /\ pc' \in {"evidence", "end"}
    BY <1>11, Reported, ReportedOne DEF ExternalMedia, EvidenceStep
  <2> QED
    BY <1>1, <1>2, <1>3, <2>1 DEF PdfInv, PdfSteps, AfterLoop, AfterSeal, AfterFiles
<1> QED
  BY <1>5, <1>6, <1>7, <1>8, <1>9, <1>10, <1>11 DEF SealedPdfRun

LEMMA PdfRest ==
  ASSUME [Next]_vars, ~SealedPdfRun, ~Dispatch, StepInv, PdfInv
  PROVE  PdfInv'
<1> SUFFICES ASSUME kind' \in PdfKinds, ~AnyFailed'
             PROVE  PdfInv'
  BY DEF PdfInv
<1>1. line' = line /\ kind' = kind
  <2>1. CASE FbZip \/ Outputs
    BY <2>1, ZipRuns, OutputRuns
  <2> QED
    BY <2>1, ReportedOne DEF Next, SaasZip, InputFormat, EndVerifier, Finish, Raised, Exit, vars
<1> USE PdfSame
<1>2. ASSUME pc' \notin PdfSteps \ {"pdf_structure"}, ~PdfOver',
             pc' = "pdf_structure" /\ kind # "sealed_pdf" => original # Null
      PROVE  PdfInv'
  BY <1>1, <1>2 DEF PdfInv, PdfSteps, AfterLoop, AfterSeal, AfterFiles
<1>3. ASSUME PdfOver, ~AnyFailed, pc' \notin PdfSteps
      PROVE  PdfInv'
  BY <1>1, <1>3 DEF PdfInv, PdfSteps, AfterLoop, AfterSeal, AfterFiles
<1> USE DEF Verifying, ZipSteps, PdfSteps, ZipKinds, PdfKinds, OnOriginal
<1>4. CASE UNCHANGED vars
  BY <1>1, <1>4 DEF vars, PdfInv, PdfOver, AfterLoop, AfterSeal, AfterFiles, Won, AnyFailed
<1>5. CASE SaasZip \/ InputFormat \/ FbZip
  BY <1>1, <1>5, ZipRuns DEF SaasZip, InputFormat, StepInv
<1>6. CASE Outputs
  <2>1. CASE CopyIdentification
    BY <1>2, <2>1, <1>6, OutputRuns DEF PdfOver, Won
  <2>2. CASE CopyBinding
    <3>1. pc = "copy_binding" /\ pc' = "finish" /\ ~AnyFailed
      BY <2>2, Reported DEF CopyBinding
    <3> QED
      BY <1>3, <3>1 DEF PdfOver
  <2>3. CASE MediaCompanion
    <3>1. /\ pc' \in {"not_verifiable", "finish", "pdf_structure"}
          /\ pc' = "finish" => \E status : status = "fail" /\ One("original_kind", status, "finish")
          /\ pc' = "pdf_structure" => original # Null
      BY <2>3, Reported, ReportedOne DEF MediaCompanion
    <3>2. pc' # "finish"
      BY <3>1, ReportedOne
    <3> QED
      BY <1>2, <3>1, <3>2 DEF PdfOver, Won
  <2> QED
    BY <1>1, <1>6, <2>1, <2>2, <2>3, OutputRuns DEF Outputs, StepInv
<1>7. CASE EndVerifier
  <2>1. pc = "end" /\ ~AnyFailed /\ pc' \in {"finish", "copy_binding", "report_binding"}
    BY <1>7 DEF EndVerifier, Go, AnyFailed
  <2> QED
    BY <1>3, <2>1 DEF PdfOver
<1>8. CASE Finish
  <2>1. pc' = "exit" /\ ~AnyFailed /\ (Won' => pc = "finish")
    BY <1>8, LineAssumption DEF Finish, Go, AnyFailed, Won, _finish
  <2>2. CASE Won'
    BY <1>3, <2>1, <2>2 DEF PdfOver
  <2> QED
    BY <1>2, <2>1, <2>2 DEF PdfOver
<1>9. CASE Raised
  <2>1. pc' = "exit" /\ summary'.verdict = "FAILED"
    BY <1>9 DEF Raised, Go
  <2> QED
    BY <1>2, <2>1 DEF PdfOver, Won
<1>10. CASE Exit
  <2>1. pc = "exit" /\ pc' = "done" /\ ~AnyFailed /\ Won' = Won
    BY <1>10 DEF Exit, Go, AnyFailed, Won
  <2>2. CASE Won
    BY <1>3, <2>1, <2>2 DEF PdfOver
  <2> QED
    BY <1>2, <2>1, <2>2 DEF PdfOver
<1> QED
  BY <1>4, <1>5, <1>6, <1>7, <1>8, <1>9, <1>10 DEF Next

LEMMA PdfNext ==
  ASSUME [Next]_vars, StepInv, ExitInv, PdfInv
  PROVE  PdfInv'
<1>1. CASE Dispatch
  <2>1. /\ pc' \notin (PdfSteps \ {"pdf_structure"}) \cup {"end", "copy_binding", "finish", "exit", "done"}
        /\ pc' = "pdf_structure" => kind' = "sealed_pdf"
    BY <1>1, Kinds DEF Dispatch, FirstStep, Go, PdfSteps, Unsealed, ExitInv
  <2> QED
    BY <2>1 DEF PdfInv, PdfOver, Won, PdfSteps, AfterLoop, AfterSeal, AfterFiles
<1> QED
  BY <1>1, PdfRunSteps, PdfRest

LEMMA PdfInit ==
  ASSUME Init
  PROVE  PdfInv
BY DEF Init, PdfInv, PdfSteps, PdfOver, Won, AfterLoop, AfterSeal, AfterFiles

-----------------------------------------------------------------------------
(* Checks of time-stamps are only reported by the loop over the signatures   *)
(* and for the token of a package.                                          *)
TokenNames == {"timestamp_token", "tsl_qualified"}
SeenTokens == {c \in checks : c.name \in TokenNames}

LEMMA OtherChecks ==
  ASSUME [Next]_vars, ~FbZip, ~NextSignature
  PROVE  SeenTokens' \subseteq SeenTokens
<1>1. ASSUME NEW name, NEW status, NEW next, One(name, status, next), name \notin TokenNames
      PROVE  SeenTokens' \subseteq SeenTokens
  BY <1>1, ReportedOne DEF SeenTokens, Check
<1>2. ASSUME NEW new, NEW next, Report(new, next), \A c \in new : c.name \notin TokenNames
      PROVE  SeenTokens' \subseteq SeenTokens
  BY <1>2, Reported DEF SeenTokens
<1>3. ASSUME checks' = checks
      PROVE  SeenTokens' \subseteq SeenTokens
  BY <1>3 DEF SeenTokens
<1>4. ASSUME NEW next
      PROVE  Report({}, next) => SeenTokens' \subseteq SeenTokens
  BY <1>2
<1> USE DEF TokenNames
<1>5. CASE Dispatch \/ EndVerifier \/ Finish \/ Exit \/ UNCHANGED vars
  BY <1>3, <1>5 DEF Dispatch, EndVerifier, Finish, Exit, vars
<1>6. CASE SaasZip \/ Raised
  BY <1>6 DEF SaasZip, Raised, SeenTokens
<1>7. CASE InputFormat
  BY <1>1, <1>7 DEF InputFormat
<1>8. CASE SealedPdfRun
  <2>1. CASE PdfStructure
    BY <1>1, <1>4, <2>1 DEF PdfStructure
  <2>2. CASE FindSignatures
    BY <1>1, <1>3, <2>2 DEF FindSignatures
  <2>3. CASE SignaturesDone
    BY <1>4, <2>3 DEF SignaturesDone
  <2>4. CASE PostSealChanges \/ AttachmentsStep
    BY <1>1, <2>4 DEF PostSealChanges, AttachmentsStep
  <2>5. CASE ExternalMedia \/ EvidenceStep
    BY <1>1, <1>4, <2>5 DEF ExternalMedia, EvidenceStep
  <2> QED
    BY <1>8, <2>1, <2>2, <2>3, <2>4, <2>5 DEF SealedPdfRun
<1>9. CASE Outputs
  <2>1. CASE CopyIdentification \/ ReportIntegrity
    BY <2>1 DEF CopyIdentification, ReportIntegrity, Check, SeenTokens
  <2>2. CASE CopyBinding
    BY <1>2, <2>2 DEF CopyBinding, Check
  <2>3. CASE ReportBinding
    BY <1>1, <2>3 DEF ReportBinding
  <2>4. CASE SaasReport
    <3> DEFINE new == {Check("report_integrity", 0, "skip")} \cup
                      IF original = Null THEN {} ELSE {Check("report_binding", 0, Status(saas_binding))}
    <3>1. Report(new, "not_verifiable")
      BY <2>4 DEF SaasReport
    <3>2. \A c \in new : c.name \notin TokenNames
      BY DEF Check
    <3> QED
      BY <1>2, <3>1, <3>2
  <2>5. CASE MediaCompanion
    BY <1>1, <1>4, <2>5 DEF MediaCompanion
  <2> QED
    BY <1>9, <2>1, <2>2, <2>3, <2>4, <2>5 DEF Outputs
<1> QED
  BY <1>5, <1>6, <1>7, <1>8, <1>9 DEF Next

(* Time-stamp i of the document has a check with the answer of the list; a   *)
(* document whose time-stamps have checks has one, and in the end they all  *)
(* have: the qualified status is judged over them all.                      *)
ListChecked(i) ==
  HasTok(document.doc, i) =>
    \E c \in checks : c.name = "tsl_qualified" /\ c.status = ListStatus(document.doc, i, list)
BeforeLoop == {"open", "copy_identification", "media_companion", "pdf_structure", "find_signatures"}
ListInv ==
  /\ pc = "open" => checks = {}
  /\ pc \notin {"exit", "done"} => summary = Null
  /\ kind \in PdfKinds =>
       /\ SeenTokens # {} => HasPrimary(document.doc)
       /\ pc \in BeforeLoop => SeenTokens = {}
       /\ pc \in {"find_signatures", "signature"} => AsPdf(document)
       /\ pc = "signature" =>
            cur \in Nat /\ \A i \in Signatures(document.doc) : i < cur => ListChecked(i)
       /\ pc \notin BeforeLoop \cup {"signature"} =>
            SeenTokens = {} \/ \A i \in Signatures(document.doc) : ListChecked(i)
       /\ summary # Null /\ summary.qualified = "per_supplied_tsl" => qualified_status = "per_supplied_tsl"

LEMMA ListRound ==
  ASSUME NextSignature, StepInv, ExitInv, ListInv
  PROVE  ListInv'
<1> DEFINE d == document.doc
<1> USE PdfSame
<1>1. /\ pc = "signature" /\ pc' = pc /\ cur' = cur + 1 /\ line' = line /\ kind' = kind /\ summary' = summary
      /\ checks' = checks \cup IF cur \in Signatures(doc) THEN SignatureChecks(cur) ELSE {}
  BY DEF NextSignature, AtSignature
<1>2. doc = d /\ kind \in PdfKinds /\ target = document
  BY <1>1, PdfDocument DEF PdfSteps
<1>3. cur \in Nat /\ AsPdf(document) /\ Len(d) \in Nat /\ Signatures(d) \subseteq Nat
  BY <1>1, <1>2, Given DEF ListInv, ExitInv, AsPdf, document, File, Signatures, StepInv, Verifying, PdfSteps,
                           PdfKinds, OnOriginal
<1>4. ASSUME SeenTokens' # {}
      PROVE  HasPrimary(d)
  <2>1. SeenTokens # {} \/ cur \in Signatures(d)
    BY <1>1, <1>2, <1>4 DEF SeenTokens
  <2>2. CASE SeenTokens # {}
    BY <1>2, <2>2 DEF ListInv
  <2>3. CASE cur \in Signatures(d) /\ ~HasTok(d, cur)
    <3>1. \A c \in SignatureChecks(cur) : c.name \notin TokenNames
      BY <1>2, <2>3 DEF SignatureChecks, HasTok, Check, TokenNames
    <3>2. SeenTokens # {}
      BY <1>1, <1>4, <3>1 DEF SeenTokens
    <3> QED
      BY <2>2, <3>2
  <2>4. CASE cur \in Signatures(d) /\ HasTok(d, cur)
    BY <2>4 DEF HasPrimary
  <2> QED
    BY <2>1, <2>2, <2>3, <2>4
<1>5. \A i \in Signatures(d) : ListChecked(i) => ListChecked(i)'
  BY <1>1 DEF ListChecked, list
<1>6. ASSUME NEW i \in Signatures(d), i = cur
      PROVE  ListChecked(i)'
  <2> SUFFICES ASSUME HasTok(d, i)
               PROVE  \E c \in checks' : c.name = "tsl_qualified" /\ c.status = ListStatus(d, i, list)
    BY <1>1 DEF ListChecked, list
  <2> DEFINE s == IF d[i].token # Null THEN ListStatus(d, i, list) ELSE "skip"
  <2>1. Check("tsl_qualified", i, s) \in SignatureChecks(i)
    BY <1>2 DEF SignatureChecks, HasTok, TokenChecks
  <2>2. s = ListStatus(d, i, list)
    BY DEF ListStatus
  <2> QED
    BY <1>1, <1>2, <1>6, <2>1, <2>2 DEF Check
<1>7. ASSUME NEW i \in Signatures(d), i < cur + 1
      PROVE  ListChecked(i)'
  <2>1. i < cur \/ i = cur
    BY <1>3, <1>7
  <2>2. i < cur => ListChecked(i)
    BY <1>1, <1>2 DEF ListInv
  <2> QED
    BY <1>5, <1>6, <2>1, <2>2
<1>8. summary = Null
  BY <1>1 DEF ListInv
<1> QED
  BY <1>1, <1>2, <1>3, <1>4, <1>7, <1>8 DEF ListInv, BeforeLoop

LEMMA ListRest ==
  ASSUME [Next]_vars, ~NextSignature, ~UNCHANGED vars, StepInv, ExitInv, ListInv
  PROVE  ListInv'
<1> DEFINE d == document.doc
           before == BeforeLoop \cup {"signature"}
           judged == summary # Null /\ summary.qualified = "per_supplied_tsl" => qualified_status = "per_supplied_tsl"
<1> USE DEF Verifying, ZipSteps, PdfSteps, ZipKinds, PdfKinds, OnOriginal, BeforeLoop
<1>1. pc' # "open" /\ (pc' \notin {"exit", "done"} => summary' = Null)
  <2>1. CASE FbZip \/ SealedPdfRun \/ Outputs
    BY <2>1, ZipRuns, PdfRuns, OutputRuns DEF ListInv, Outputs
  <2>2. CASE Dispatch
    BY <2>2, Kinds DEF Dispatch, FirstStep, Unsealed, ListInv, ExitInv
  <2>3. CASE SaasZip \/ EndVerifier \/ Finish \/ Raised \/ Exit
    BY <2>3 DEF SaasZip, EndVerifier, Finish, Raised, Exit, Go, ListInv
  <2>4. CASE InputFormat
    BY <2>4, ReportedOne DEF InputFormat, ListInv
  <2> QED
    BY <2>1, <2>2, <2>3, <2>4 DEF Next
<1> SUFFICES ASSUME kind' \in PdfKinds
             PROVE  ListInv'
  BY <1>1 DEF ListInv
<1>2. ASSUME SeenTokens' = {}, pc' \notin {"find_signatures", "signature"}, judged'
      PROVE  ListInv'
  BY <1>1, <1>2 DEF ListInv
<1>3. CASE Dispatch
  <2>1. SeenTokens' = {} /\ pc' \notin {"find_signatures", "signature", "exit", "done"}
    BY <1>3, Kinds DEF Dispatch, FirstStep, Unsealed, ListInv, ExitInv, SeenTokens
  <2> QED
    BY <1>1, <1>2, <2>1
<1>4. (line' = line /\ kind' = kind) \/ Dispatch
  <2>1. CASE FbZip \/ SealedPdfRun \/ Outputs
    BY <2>1, ZipRuns, PdfRuns, OutputRuns
  <2> QED
    BY <2>1, ReportedOne DEF Next, SaasZip, InputFormat, EndVerifier, Finish, Raised, Exit
<1>5. CASE SaasZip \/ InputFormat \/ FbZip
  BY <1>3, <1>4, <1>5, ZipRuns DEF SaasZip, InputFormat, StepInv
<1> SUFFICES ASSUME line' = line, kind' = kind, ~FbZip
             PROVE  ListInv'
  BY <1>3, <1>4, <1>5
<1> USE PdfSame
<1>6. SeenTokens' \subseteq SeenTokens
  BY OtherChecks
<1>7. ASSUME pc \notin before, pc' \notin before, checks \subseteq checks', judged'
      PROVE  ListInv'
  <2>1. \A i \in Signatures(d) : ListChecked(i) => ListChecked(i)'
    BY <1>7 DEF ListChecked, list
  <2> QED
    BY <1>1, <1>6, <1>7, <2>1 DEF ListInv
<1>8. CASE SealedPdfRun
  <2>1. pc \in PdfSteps /\ pc' \in PdfSteps \cup {"end", "raised"} /\ summary' = Null
    BY <1>1, <1>8, PdfRuns
  <2>2. target = document /\ doc = d
    BY <2>1, PdfDocument
  <2>3. CASE PdfStructure
    <3>1. pc = "pdf_structure" /\ (pc' \in {"end", "raised"} \/ (pc' = "find_signatures" /\ AsPdf(document)))
      BY <2>2, <2>3, Reported, ReportedOne DEF PdfStructure, AsPdf
    <3> QED
      BY <1>1, <1>2, <1>6, <2>1, <3>1 DEF ListInv
  <2>4. CASE FindSignatures
    <3>1. pc = "find_signatures" /\ (pc' = "end" \/ (pc' = "signature" /\ cur' = 1))
      BY <2>4, ReportedOne DEF FindSignatures, Go
    <3>2. AsPdf(document) /\ SeenTokens = {}
      BY <3>1 DEF ListInv
    <3>3. \A i \in Signatures(d) : ~(i < 1)
      <4>1. Len(d) \in Nat
        BY <2>1, <3>2, PdfDocument, Given DEF ExitInv, AsPdf, document, File
      <4> QED
        BY <4>1 DEF Signatures
    <3> QED
      BY <1>1, <1>2, <1>6, <2>1, <3>1, <3>2, <3>3 DEF ListInv
  <2>5. CASE SignaturesDone
    <3>1. pc = "signature" /\ cur > Len(d) /\ pc' \in {"post_seal", "end"} /\ checks \subseteq checks'
      BY <2>2, <2>5, Reported DEF SignaturesDone
    <3>2. cur \in Nat /\ AsPdf(document) /\ Len(d) \in Nat
      BY <2>1, <3>1, PdfDocument, Given DEF ListInv, ExitInv, AsPdf, document, File
    <3>3. \A i \in Signatures(d) : ListChecked(i)
      BY <3>1, <3>2 DEF ListInv, Signatures
    <3>4. \A i \in Signatures(d) : ListChecked(i) => ListChecked(i)'
      BY <3>1 DEF ListChecked, list
    <3> QED
      BY <1>1, <1>6, <2>1, <3>1, <3>3, <3>4 DEF ListInv
  <2>6. CASE PostSealChanges \/ AttachmentsStep \/ ExternalMedia \/ EvidenceStep
    <3>1. /\ pc \in {"post_seal", "attachments", "external_media", "evidence"}
          /\ pc' \in {"attachments", "external_media", "evidence", "end"} /\ checks \subseteq checks'
      BY <2>6, Reported, ReportedOne DEF PostSealChanges, AttachmentsStep, ExternalMedia, EvidenceStep
    <3> QED
      BY <1>7, <2>1, <3>1
  <2> QED
    BY <1>8, <2>3, <2>4, <2>5, <2>6 DEF SealedPdfRun
<1>9. CASE Outputs
  <2>1. CASE CopyIdentification \/ MediaCompanion
    <3>1. pc \in BeforeLoop /\ pc' \in {"not_verifiable", "pdf_structure", "finish"}
      BY <1>9, <2>1, OutputRuns
    <3> QED
      BY <1>1, <1>2, <1>6, <3>1 DEF ListInv
  <2>2. CASE CopyBinding
    <3>1. pc = "copy_binding" /\ pc' = "finish" /\ checks \subseteq checks'
      BY <2>2, Reported DEF CopyBinding
    <3> QED
      BY <1>1, <1>7, <3>1
  <2> QED
    BY <1>9, <2>1, <2>2, OutputRuns DEF Outputs, StepInv
<1>10. CASE EndVerifier
  <2>1. pc = "end" /\ pc' \in {"finish", "copy_binding", "report_binding"} /\ checks' = checks
    BY <1>10 DEF EndVerifier, Go
  <2> QED
    BY <1>1, <1>7, <2>1
<1>11. CASE Finish
  <2>1. /\ pc \in {"finish", "not_verifiable"} /\ pc' = "exit" /\ checks' = checks
        /\ summary'.qualified = qualified_status
    BY <1>11 DEF Finish, Go
  <2>2. qualified_status' = qualified_status
    BY <2>1 DEF qualified_status, Of
  <2> QED
    BY <1>7, <2>1, <2>2
<1>12. CASE Raised
  <2>1. pc' = "exit" /\ summary'.qualified = Null /\ SeenTokens' = {}
    BY <1>12 DEF Raised, Go, SeenTokens, TokenNames
  <2> QED
    BY <1>2, <2>1, LineAssumption
<1>13. CASE Exit
  <2>1. pc = "exit" /\ pc' = "done" /\ checks' = checks /\ summary' = summary
    BY <1>13 DEF Exit, Go
  <2>2. qualified_status' = qualified_status
    BY <2>1 DEF qualified_status, Of
  <2>3. judged
    BY DEF ListInv
  <2> QED
    BY <1>7, <2>1, <2>2, <2>3
<1> QED
  BY <1>3, <1>5, <1>8, <1>9, <1>10, <1>11, <1>12, <1>13 DEF Next

LEMMA ListNext ==
  ASSUME [Next]_vars, StepInv, ExitInv, ListInv
  PROVE  ListInv'
<1>1. CASE UNCHANGED vars
  <2>1. line' = line /\ kind' = kind /\ checks' = checks /\ pc' = pc /\ cur' = cur /\ summary' = summary
    BY <1>1 DEF vars
  <2>2. SeenTokens' = SeenTokens /\ qualified_status' = qualified_status
    BY <2>1 DEF SeenTokens, qualified_status, Of
  <2>3. \A i \in Signatures(document.doc) : ListChecked(i)' <=> ListChecked(i)
    BY <2>1, PdfSame DEF ListChecked, list
  <2> QED
    BY <2>1, <2>2, <2>3, PdfSame DEF ListInv
<1> QED
  BY <1>1, ListRound, ListRest

(* A copy whose checks have not failed names its original, in both of its    *)
(* identifications, and in the end the original is the file it names.       *)
CitesKnown == {Digest(c[1], c[2]) : c \in subject.cites} \subseteq known_hashes
CopyInv ==
  kind = "plain_copy" /\ ~AnyFailed =>
    /\ pc \in PdfSteps \/ PdfOver => identifies(subject)
    /\ pc = "finish" \/ Won => copy_binding /\ CitesKnown

LEMMA CopyNext ==
  ASSUME [Next]_vars, StepInv, ExitInv, CopyInv
  PROVE  CopyInv'
<1> SUFFICES ASSUME kind' = "plain_copy", ~AnyFailed'
             PROVE  CopyInv'
  BY DEF CopyInv
<1> USE DEF Verifying, ZipSteps, PdfSteps, ZipKinds, PdfKinds, OnOriginal
<1>1. CASE Dispatch
  <2>1. pc' \notin PdfSteps \cup {"end", "copy_binding", "finish", "exit", "done"}
    BY <1>1, Kinds DEF Dispatch, FirstStep, Unsealed, ExitInv
  <2> QED
    BY <2>1 DEF CopyInv, PdfOver, Won
<1>2. (line' = line /\ kind' = kind) \/ Dispatch
  <2>1. CASE FbZip \/ SealedPdfRun \/ Outputs
    BY <2>1, ZipRuns, PdfRuns, OutputRuns
  <2> QED
    BY <2>1, ReportedOne DEF Next, SaasZip, InputFormat, EndVerifier, Finish, Raised, Exit, vars
<1> SUFFICES ASSUME line' = line, kind' = kind
             PROVE  CopyInv'
  BY <1>1, <1>2
<1>3. /\ identifies(subject)' = identifies(subject)
      /\ (copy_binding /\ CitesKnown)'
         = (copy_binding /\ CitesKnown)
  BY PdfSame DEF copy_binding, CitesKnown, known_hashes
<1>4. ASSUME pc' \notin PdfSteps, ~PdfOver'
      PROVE  CopyInv'
  BY <1>4 DEF CopyInv, PdfOver
<1>5. ASSUME pc \in PdfSteps \/ PdfOver, ~AnyFailed, pc = "finish" \/ Won \/ ~(pc' = "finish" \/ Won')
      PROVE  CopyInv'
  BY <1>3, <1>5 DEF CopyInv
<1>6. CASE UNCHANGED vars
  BY <1>3, <1>6 DEF vars, CopyInv, PdfOver, Won, AnyFailed
<1>7. CASE SaasZip \/ InputFormat \/ FbZip
  BY <1>7, ZipRuns DEF SaasZip, InputFormat, StepInv
<1>8. CASE SealedPdfRun
  <2>1. pc \in PdfSteps /\ pc' \in PdfSteps \cup {"end", "raised"}
    BY <1>8, PdfRuns
  <2>2. \A c \in checks : c \in checks'
    BY <1>8, Reported, ReportedOne
       DEF SealedPdfRun, PdfStructure, FindSignatures, NextSignature, SignaturesDone, PostSealChanges,
           AttachmentsStep, ExternalMedia, EvidenceStep
  <2>3. ~AnyFailed
    BY <2>2 DEF AnyFailed
  <2> QED
    BY <1>5, <2>1, <2>3 DEF Won
<1>9. CASE Outputs
  <2>1. CASE CopyIdentification
    <3>1. identifies(subject)
      <4>1. Check("copy_identification", 0, Status(identifies(subject))) \in checks'
        BY <2>1 DEF CopyIdentification
      <4> QED
        BY <4>1 DEF AnyFailed, Check, Status
    <3>2. pc' \in {"not_verifiable", "pdf_structure"}
      BY <1>9, <2>1, OutputRuns
    <3> QED
      BY <1>3, <3>1, <3>2 DEF CopyInv, Won
  <2>2. CASE CopyBinding
    <3> DEFINE new == {Check("copy_binding", 0, Status(copy_binding)),
                       Check("copy_content_consistency", 0, Status(CitesKnown))}
    <3>1. pc = "copy_binding" /\ pc' = "finish" /\ ~AnyFailed /\ \A c \in new : c.status # "fail"
      BY <2>2, Reported DEF CopyBinding, CitesKnown
    <3>2. copy_binding /\ CitesKnown
      BY <3>1 DEF Check, Status
    <3>3. identifies(subject)
      BY <3>1 DEF CopyInv, PdfOver
    <3> QED
      BY <1>3, <3>2, <3>3 DEF CopyInv
  <2> QED
    BY <1>9, <2>1, <2>2, OutputRuns DEF Outputs, StepInv
<1>10. CASE EndVerifier
  <2>1. pc = "end" /\ ~AnyFailed /\ pc' = "copy_binding"
    BY <1>10 DEF EndVerifier, Go, AnyFailed, StepInv
  <2> QED
    BY <1>5, <2>1 DEF PdfOver, Won
<1>11. CASE Finish
  <2>1. pc' = "exit" /\ ~AnyFailed /\ (Won' => pc = "finish")
    BY <1>11, LineAssumption DEF Finish, Go, AnyFailed, Won, _finish
  <2>2. CASE Won'
    BY <1>5, <2>1, <2>2 DEF PdfOver
  <2> QED
    BY <1>4, <2>1, <2>2 DEF PdfOver
<1>12. CASE Raised
  <2>1. pc' = "exit" /\ summary'.verdict = "FAILED"
    BY <1>12 DEF Raised, Go
  <2> QED
    BY <1>4, <2>1 DEF PdfOver, Won
<1>13. CASE Exit
  <2>1. pc = "exit" /\ pc' = "done" /\ ~AnyFailed /\ Won' = Won
    BY <1>13 DEF Exit, Go, AnyFailed, Won
  <2>2. CASE Won
    BY <1>5, <2>1, <2>2 DEF PdfOver
  <2> QED
    BY <1>4, <2>1, <2>2 DEF PdfOver
<1> QED
  BY <1>1, <1>6, <1>7, <1>8, <1>9, <1>10, <1>11, <1>12, <1>13 DEF Next

(* A saas_report is never verified: it has no verdict of its own.            *)
SaasInv == kind = "saas_report" => ~Won
LEMMA SaasNext ==
  ASSUME [Next]_vars, StepInv, ExitInv, SaasInv
  PROVE  SaasInv'
<1> SUFFICES ASSUME kind' = "saas_report", Won'
             PROVE  FALSE
  BY DEF SaasInv
<1>1. CASE FbZip \/ SealedPdfRun \/ Outputs
  BY <1>1, ZipRuns, PdfRuns, OutputRuns DEF Won, ZipSteps, PdfSteps, Outputs
<1>2. CASE Dispatch
  BY <1>2, Kinds DEF Dispatch, FirstStep, Unsealed, ExitInv, Won
<1>3. CASE SaasZip
  BY <1>3 DEF SaasZip, StepInv
<1>4. CASE InputFormat \/ EndVerifier
  BY <1>4, ReportedOne DEF InputFormat, EndVerifier, Won, Go
<1>5. CASE Finish
  BY <1>5, LineAssumption DEF Finish, Won, _finish, StepInv
<1>6. CASE Raised
  BY <1>6 DEF Raised, Won
<1>7. CASE Exit \/ UNCHANGED vars
  BY <1>7 DEF Exit, vars, Won, SaasInv
<1> QED
  BY <1>1, <1>2, <1>3, <1>4, <1>5, <1>6, <1>7 DEF Next

(* Nor is any ZIP that is not of this app, but for a stamped payload of its  *)
(* own format.                                                              *)
OtherZips == {"saas_zip", "zip_unknown"}
OtherZipInv == kind \in OtherZips => pc \in {"open", "saas", "exit", "done"} /\ (Won => SaasVerified(subject))
LEMMA OtherZipNext ==
  ASSUME [Next]_vars, StepInv, ExitInv, OtherZipInv
  PROVE  OtherZipInv'
<1> SUFFICES ASSUME kind' \in OtherZips
             PROVE  OtherZipInv'
  BY DEF OtherZipInv
<1>1. CASE FbZip \/ SealedPdfRun \/ Outputs
  BY <1>1, ZipRuns, PdfRuns, OutputRuns DEF OtherZips, OtherZipInv, ZipSteps, PdfSteps, Outputs
<1>2. CASE Dispatch
  BY <1>2, Kinds DEF Dispatch, FirstStep, Unsealed, ExitInv, Won, OtherZips, OtherZipInv
<1>3. CASE SaasZip
  <2>1. line' = line /\ kind' = kind /\ pc' = "exit" /\ (summary'.verdict = "VERIFIED" => SaasVerified(subject))
    BY <1>3 DEF SaasZip, Go
  <2>2. SaasVerified(subject)' = SaasVerified(subject)
    BY <2>1 DEF SaasVerified, subject, roots
  <2> QED
    BY <2>1, <2>2 DEF OtherZipInv, Won
<1>4. CASE InputFormat \/ EndVerifier
  BY <1>4, ReportedOne DEF InputFormat, EndVerifier, OtherZipInv, OtherZips
<1>5. CASE Finish \/ Raised
  BY <1>5 DEF Finish, Raised, OtherZipInv, OtherZips
<1>6. CASE Exit \/ UNCHANGED vars
  <2>1. line' = line /\ kind' = kind /\ summary' = summary /\ (pc' = pc \/ (pc = "exit" /\ pc' = "done"))
    BY <1>6 DEF Exit, vars, Go
  <2>2. SaasVerified(subject)' = SaasVerified(subject)
    BY <2>1 DEF SaasVerified, subject, roots
  <2> QED
    BY <2>1, <2>2 DEF Won, OtherZipInv
<1> QED
  BY <1>1, <1>2, <1>3, <1>4, <1>5, <1>6 DEF Next

LEMMA OtherZipAlways == Spec => []OtherZipInv
<1>1. Init => OtherZipInv
  BY DEF Init, OtherZipInv, Won
<1>2. StepInv /\ ExitInv /\ OtherZipInv /\ [Next]_vars => OtherZipInv'
  BY OtherZipNext
<1> QED
  BY <1>1, <1>2, StepsAlways, PTL DEF Spec

LEMMA RoutesAlways == Spec => [](StepInv /\ ExitInv /\ PdfInv /\ ListInv /\ CopyInv /\ SaasInv)
<1> DEFINE Inv == StepInv /\ ExitInv /\ PdfInv /\ ListInv /\ CopyInv /\ SaasInv
<1>1. Init => Inv
  <2> SUFFICES ASSUME Init
               PROVE  Inv
    OBVIOUS
  <2>1. pc = "open" /\ checks = {} /\ summary = Null /\ kind = Null
    BY DEF Init
  <2>2. ListInv
    BY <2>1 DEF ListInv, SeenTokens, BeforeLoop
  <2>3. CopyInv /\ SaasInv
    BY <2>1 DEF CopyInv, SaasInv, PdfSteps, PdfOver, Won
  <2> QED
    BY <2>2, <2>3, StepInit, PdfInit
<1>2. Inv /\ [Next]_vars => Inv'
  BY StepNext, PdfNext, ListNext, CopyNext, SaasNext
<1> QED
  BY <1>1, <1>2, PTL DEF Spec

(* A document that ends in exit code 0, itself or as the original of a copy  *)
(* or of an archive, is sealed if it has a time-stamp at all.               *)
LEMMA DocumentAtExit ==
  ASSUME StepInv, ExitInv, PdfInv, ListInv, exit = 0, kind \in PdfKinds
  PROVE  /\ kind # "sealed_pdf" => original # Null
         /\ Signatures(document.doc) # {} /\ AsPdf(document)
         /\ TimestampVerified =>
              DocumentSealed(document.doc, roots) /\ attachments(document.doc) # "fail"
<1>1. Won /\ ~AnyFailed
  BY DEF ExitInv, Won
<1>2. /\ kind # "sealed_pdf" => original # Null
      /\ Signatures(document.doc) # {} /\ AsPdf(document) /\ AllGenuine
      /\ HasPrimary(document.doc) =>
           post_seal_changes(document.doc) /\ attachments(document.doc) # "fail"
  BY <1>1 DEF PdfInv, PdfOver, AfterLoop, AfterSeal, AfterFiles
<1>3. Len(document.doc) \in Nat
  BY <1>2, Given DEF ExitInv, document, File, AsPdf, PdfKinds
<1>4. TimestampVerified => HasPrimary(document.doc)
  BY DEF TimestampVerified, Of, ListInv, SeenTokens, TokenNames
<1> QED
  BY <1>2, <1>3, <1>4, GenuineMeansSealed DEF AllGenuine

LEMMA DocAtExit ==
  ASSUME StepInv, exit = 0, ExitInv, kind \in {"sealed_pdf", "fb_media_zip"}
  PROVE  doc = document.doc
<1>1. inner = FALSE
  BY DEF StepInv, ExitInv, Verifying, ZipSteps, PdfSteps
<1> QED
  BY <1>1 DEF doc, target, document, ForCompanion

(* For every sequence of revisions: exit code 0 for a PDF, or for an archive *)
(* with its PDF, and a time-stamp verified mean that a TSA in force stamped  *)
(* the bytes before its first time-stamp and that what follows is renewal.  *)
THEOREM PdfSound == Spec => []PdfVerifiedMeansSealed
<1>1. StepInv /\ ExitInv /\ PdfInv /\ ListInv => PdfVerifiedMeansSealed
  BY DocumentAtExit, DocAtExit DEF PdfVerifiedMeansSealed, PdfKinds
<1> QED
  BY <1>1, RoutesAlways, PTL

(* For every number of time-stamps: a PDF is only called qualified when the  *)
(* given list has every one of its TSAs as granted.                         *)
THEOREM QualifiedSound == Spec => []QualifiedMeansAll
<1>1. ASSUME ListInv, summary # Null, summary.qualified = "per_supplied_tsl",
             kind \in {"sealed_pdf", "plain_copy"}
      PROVE  list # Null /\ \A i \in Signatures(document.doc) :
                               HasTok(document.doc, i) => document.doc[i].token \in Granted[list]
  <2>1. qualified_status = "per_supplied_tsl" /\ pc \in {"exit", "done"} /\ kind \in PdfKinds
    BY <1>1 DEF ListInv, PdfKinds
  <2>2. /\ Of("tsl_qualified") # {}
        /\ \A c \in checks : c.name = "tsl_qualified" => c.status = "pass"
    BY <2>1, LineAssumption DEF qualified_status, Of
  <2>3. SeenTokens # {}
    BY <2>2 DEF Of, SeenTokens, TokenNames
  <2>4. /\ HasPrimary(document.doc)
        /\ \A i \in Signatures(document.doc) : ListChecked(i)
    <3>1. pc \notin BeforeLoop \cup {"signature"}
      BY <2>1 DEF BeforeLoop
    <3>2. HasPrimary(document.doc)
      BY <1>1, <2>1, <2>3 DEF ListInv
    <3>3. SeenTokens = {} \/ \A i \in Signatures(document.doc) : ListChecked(i)
      BY <1>1, <2>1, <3>1 DEF ListInv
    <3> QED
      BY <2>3, <3>2, <3>3
  <2>5. \A i \in Signatures(document.doc) :
          HasTok(document.doc, i) => ListStatus(document.doc, i, list) = "pass"
    BY <2>2, <2>4 DEF ListChecked
  <2> QED
    BY <2>4, <2>5 DEF ListStatus, HasPrimary
<1>2. ListInv => QualifiedMeansAll
  BY <1>1 DEF QualifiedMeansAll, document
<1> QED
  BY <1>2, RoutesAlways, PTL

(* For every file with a seal of its own: exit code 0 means that this seal   *)
(* is genuine, whatever other marks the file carries.                       *)
THEOREM OwnSealSound == Spec => []OwnSealDecides
<1>1. ASSUME StepInv, ExitInv, PdfInv, ListInv, exit = 0, subject.type = "pdf", Signatures(subject.doc) # {},
             TimestampVerified
      PROVE  DocumentSealed(subject.doc, roots)
  <2>1. kind = "sealed_pdf"
    BY <1>1 DEF StepInv, ExitInv, detect_kind, detect_pdf, pdf_marked
  <2> QED
    BY <1>1, <2>1, DocumentAtExit DEF PdfKinds, document
<1>2. ASSUME StepInv, ExitInv, PackageInv, OtherZipInv, exit = 0,
             NEW v \in Versions, subject.type = "zip", subject.zip[PayloadFile] = v, Format[v] \in FB_FORMATS
      PROVE  PackageSealed(subject, roots)
  <2>1. kind \in OtherZips \cup {"fb_zip"}
    BY <1>2 DEF StepInv, ExitInv, detect_kind, detect_zip, OtherZips
  <2>2. Won
    BY <1>2 DEF ExitInv, Won
  <2>3. kind \notin OtherZips
    BY <1>2, <2>2 DEF OtherZipInv, SaasVerified, FB_FORMATS
  <2> QED
    BY <1>2, <2>1, <2>3, PackageAtExit DEF ZipKinds, package
<1>3. StepInv /\ ExitInv /\ PackageInv /\ PdfInv /\ ListInv /\ OtherZipInv => OwnSealDecides
  BY <1>1, <1>2 DEF OwnSealDecides
<1> QED
  BY <1>3, RoutesAlways, PackageAlways, OtherZipAlways, PTL

(* The attachments of a document are at one of its revisions, and of those   *)
(* of a name one is the first and one the last.                             *)
Labelled(d) == \A i \in 1..Len(d) : d[i].kind = "attach" => d[i].as \in Labels

LEMMA AttachedAt ==
  ASSUME NEW d, Len(d) \in Nat, Labelled(d), NEW a \in Attachments(d)
  PROVE  a.at \in 1..Len(d) /\ a.as.front \in BOOLEAN
<1>1. PICK i \in 1..Len(d) :
        a \in IF d[i].kind = "body" THEN {[p |-> p, v |-> d[i].v, as |-> Label(p), at |-> i] : p \in Embeds[d[i].v]}
              ELSE IF d[i].kind = "attach" THEN {[p |-> d[i].p, v |-> d[i].v, as |-> d[i].as, at |-> i]} ELSE {}
  BY DEF Attachments
<1>2. CASE d[i].kind = "body"
  <2>1. PICK p \in Embeds[d[i].v] : a = [p |-> p, v |-> d[i].v, as |-> Label(p), at |-> i]
    BY <1>1, <1>2
  <2>2. a.as = Label(p) /\ a.at = i
    BY <2>1
  <2> QED
    BY <2>2 DEF Label
<1>3. CASE d[i].kind = "attach"
  <2>1. a = [p |-> d[i].p, v |-> d[i].v, as |-> d[i].as, at |-> i] /\ d[i].as \in Labels
    BY <1>1, <1>3 DEF Labelled
  <2> QED
    BY <2>1 DEF Labels
<1> QED
  BY <1>1, <1>2, <1>3

LEMMA FirstIsIn ==
  ASSUME NEW d, Len(d) \in Nat, Labelled(d), NEW S \in SUBSET Attachments(d), S # {}
  PROVE  First(S) \in S
<1>1. \A a \in S : a.at \in Nat /\ a.as.front \in BOOLEAN
  BY AttachedAt
<1>2. ASSUME NEW T \in SUBSET S, T # {}
      PROVE  \E a \in T : \A b \in T : a.at <= b.at
  <2>1. {a.at : a \in T} \in SUBSET Nat /\ {a.at : a \in T} # {}
    BY <1>1, <1>2
  <2>2. PICK n \in {a.at : a \in T} : \A m \in {a.at : a \in T} : n <= m
    BY <2>1, Least
  <2> QED
    BY <2>2
<1> DEFINE F == {a \in S : a.as.front = TRUE}
<1>3. \E a \in S : \A b \in S : Before(a, b)
  <2>1. CASE F # {}
    <3>1. PICK a \in F : \A b \in F : a.at <= b.at
      BY <1>2, <2>1
    <3> QED
      BY <1>1, <3>1 DEF Before
  <2>2. CASE F = {}
    <3>1. PICK a \in S : \A b \in S : a.at <= b.at
      BY <1>2
    <3>2. ASSUME NEW b \in S
          PROVE  Before(a, b)
      <4>1. b.as.front = FALSE /\ a.as.front = FALSE
        BY <1>1, <2>2
      <4> QED
        BY <3>1, <4>1 DEF Before
    <3> QED
      BY <3>2
  <2> QED
    BY <2>1, <2>2
<1> QED
  BY <1>3 DEF First

LEMMA LastIsIn ==
  ASSUME NEW d, Len(d) \in Nat, Labelled(d), Named(d, ProofFile) # {}
  PROVE  oproof(d) \in Named(d, ProofFile)
<1> DEFINE S == Named(d, ProofFile)
<1>1. \A a \in S : a.at \in 1..Len(d) /\ a.as.front \in BOOLEAN
  BY AttachedAt DEF Named
<1> HIDE DEF S
<1>2. ASSUME NEW T \in SUBSET S, T # {}
      PROVE  \E a \in T : \A b \in T : b.at <= a.at
  <2>1. {a.at : a \in T} \in SUBSET (1..Len(d)) /\ {a.at : a \in T} # {}
    BY <1>1, <1>2
  <2>2. PICK n \in {a.at : a \in T} : \A m \in {a.at : a \in T} : m <= n
    BY <2>1, Greatest
  <2> QED
    BY <2>2
<1> DEFINE B == {a \in S : a.as.front = FALSE}
<1>3. \E a \in S : \A b \in S : Before(b, a)
  <2>1. CASE B # {}
    <3>1. PICK a \in B : \A b \in B : b.at <= a.at
      BY <1>2, <2>1
    <3>2. \A b \in S : b.as.front = TRUE \/ b \in B
      BY <1>1
    <3> QED
      BY <3>1, <3>2 DEF Before
  <2>2. CASE B = {}
    <3>1. PICK a \in S : \A b \in S : b.at <= a.at
      BY <1>2 DEF S
    <3>2. \A b \in S : b.as.front = TRUE
      BY <1>1, <2>2
    <3> QED
      BY <3>1, <3>2 DEF Before
  <2> QED
    BY <2>1, <2>2
<1> QED
  BY <1>3 DEF oproof, S

(* For every copy: exit code 0 and a time-stamp verified mean that the       *)
(* original is sealed, that both identifications of the copy name it, and   *)
(* that what the copy cites is attached to it or stated by its proof.json.   *)
THEOREM CopySound == Spec => []CopyVerifiedMeansNamed
<1>1. ASSUME StepInv, ExitInv, PdfInv, ListInv, CopyInv, exit = 0, kind = "plain_copy", TimestampVerified
      PROVE  /\ DocumentSealed(original.doc, roots)
             /\ \A id \in {subject.qr, subject.text} \ {Null} : id.doc \in {Null, original.doc}
             /\ \A c \in subject.cites :
                  \/ \E at \in Attachments(original.doc) : Digest(c[1], c[2]) = DigestOf(at)
                  \/ \E at \in Named(original.doc, ProofFile) :
                       Is(at, ProofFile) /\ \E p \in Declares[at.v] : Digest(c[1], c[2]) = Digest(p, at.v)
  <2>1. DocumentSealed(original.doc, roots)
    BY <1>1, DocumentAtExit DEF PdfKinds, document
  <2>2. identifies(subject) /\ copy_binding /\ CitesKnown
    BY <1>1 DEF CopyInv, ExitInv, PdfOver, Won
  <2>3. Field(subject, "doc") = original.doc /\ Field(subject, "doc") # Null /\ ~Conflict(subject, "doc")
    BY <2>2 DEF copy_binding, identifies
  <2>4. \A id \in {subject.qr, subject.text} \ {Null} : id["doc"] \in {Null, original.doc}
    BY <2>3 DEF Field, Conflict
  <2>5. ASSUME NEW c \in subject.cites
        PROVE  \/ \E at \in Attachments(original.doc) : Digest(c[1], c[2]) = DigestOf(at)
               \/ \E at \in Named(original.doc, ProofFile) :
                    Is(at, ProofFile) /\ \E p \in Declares[at.v] : Digest(c[1], c[2]) = Digest(p, at.v)
    <3> DEFINE d == original.doc
               cited == Digest(c[1], c[2])
    <3>1. cited \in {DigestOf(a) : a \in Attachments(d)} \/ cited \in Stated(d)
      BY <2>2, <2>5 DEF CitesKnown, known_hashes
    <3>2. ASSUME cited \in Stated(d)
          PROVE  \E at \in Named(d, ProofFile) : Is(at, ProofFile) /\ \E p \in Declares[at.v] : cited = Digest(p, at.v)
      <4> HIDE DEF cited
      <4>1. Named(d, ProofFile) # {} /\ Is(oproof(d), ProofFile)
        BY <3>2 DEF Stated
      <4>2. PICK p \in Declares[oproof(d).v] : cited = Digest(p, oproof(d).v)
        BY <3>2, <4>1 DEF Stated
      <4>3. Len(d) \in Nat /\ Labelled(d)
        BY <1>1, DocumentAtExit, Given DEF ExitInv, document, File, AsPdf, PdfKinds, Labelled
      <4>4. oproof(d) \in Named(d, ProofFile)
        BY <4>1, <4>3, LastIsIn
      <4> QED
        BY <4>1, <4>2, <4>4
    <3> QED
      BY <3>1, <3>2
  <2> QED
    BY <2>1, <2>4, <2>5
<1>2. StepInv /\ ExitInv /\ PdfInv /\ ListInv /\ CopyInv => CopyVerifiedMeansNamed
  BY <1>1 DEF CopyVerifiedMeansNamed
<1> QED
  BY <1>2, RoutesAlways, PTL

(* For every file: exit code 0 for an output without a seal of its own means *)
(* that its original was given and is of the kind that has the seal.        *)
THEOREM UnsealedSound == Spec => []UnsealedNeedsSealed
<1>1. ASSUME StepInv, ExitInv, PackageInv, exit = 0, kind = "fb_report"
      PROVE  original # Null /\ detect_kind(original) = "fb_zip"
  <2>1. Won /\ ~AnyFailed
    BY <1>1 DEF ExitInv, Won
  <2>2. original # Null /\ Opened(original) /\ fb_package(original)
    BY <1>1, <2>1 DEF PackageInv, ZipOver, ZipKinds, package
  <2> QED
    BY <2>2 DEF detect_kind, detect_zip, is_fb_manifest, Opened, fb_package
<1>2. ASSUME StepInv, ExitInv, PdfInv, ListInv, exit = 0, kind \in {"plain_copy", "fb_media_zip"}
      PROVE  original # Null /\ detect_kind(original) = "sealed_pdf"
  <2>1. original # Null /\ Signatures(original.doc) # {} /\ original.type = "pdf"
    BY <1>2, DocumentAtExit DEF PdfKinds, document, AsPdf
  <2> QED
    BY <2>1 DEF detect_kind, detect_pdf, pdf_marked
<1>3. ASSUME ExitInv, SaasInv, exit = 0
      PROVE  kind # "saas_report"
  BY <1>3 DEF ExitInv, SaasInv, Won
<1>4. StepInv /\ ExitInv /\ PackageInv /\ PdfInv /\ ListInv /\ SaasInv => UnsealedNeedsSealed
  BY <1>1, <1>2, <1>3 DEF UnsealedNeedsSealed, Unsealed
<1> QED
  BY <1>4, RoutesAlways, PackageAlways, PTL

-----------------------------------------------------------------------------
(* A document whose attachments do not fail is listed exactly.              *)
LEMMA InventoryIsExact ==
  ASSUME NEW d, Len(d) \in Nat, Labelled(d), attachments(d) # "fail", Manifest(d) # Null
  PROVE  Inventory(Manifest(d), Lists[Manifest(d)], Attachments(d), manifest_att(d))
<1> DEFINE m == Manifest(d)
           atts == Attachments(d)
           of == [p \in Lists[m] |-> _match_attachment(p, atts)]
<1>1. manifest_att(d) \in atts
  <2>1. Named(d, ManifestFile) # {} /\ Named(d, ManifestFile) \subseteq atts
    BY DEF Manifest, VersionOf, Named
  <2> QED
    BY <2>1, FirstIsIn DEF manifest_att
<1>2. /\ \A p \in Lists[m] : MatchesListed(m, p, atts)
      /\ atts \subseteq {manifest_att(d)} \cup {_match_attachment(p, atts) : p \in Lists[m]}
  BY <1>1 DEF attachments
<1>3. ASSUME NEW p \in Lists[m]
      PROVE  /\ _match_attachment(p, atts) \in atts /\ SaysItIs(_match_attachment(p, atts), p)
             /\ DigestOf(_match_attachment(p, atts)) = Digest(p, m)
  <2> HIDE DEF atts
  <2>1. Candidates(p, atts) # {} /\ DigestOf(_match_attachment(p, atts)) = Digest(p, m)
    BY <1>2 DEF MatchesListed
  <2>2. Candidates(p, atts) \subseteq atts
    BY DEF Candidates, Described, Spelled, Continued
  <2>3. \A a \in Candidates(p, atts) : SaysItIs(a, p)
    BY DEF Candidates, Described, Spelled, Continued, SaysItIs
  <2>4. _match_attachment(p, atts) \in Candidates(p, atts)
    BY <2>1, <2>2, FirstIsIn DEF _match_attachment, atts
  <2> QED
    BY <2>1, <2>2, <2>3, <2>4
<1> HIDE DEF atts, m
<1>4. of \in [Lists[m] -> atts]
  BY <1>3
<1>5. \A p \in Lists[m] : SaysItIs(of[p], p) /\ DigestOf(of[p]) = Digest(p, m)
  BY <1>3
<1>6. {_match_attachment(p, atts) : p \in Lists[m]} = {of[p] : p \in Lists[m]}
  OBVIOUS
<1>7. atts = {manifest_att(d)} \cup {of[p] : p \in Lists[m]}
  BY <1>1, <1>2, <1>3, <1>6
<1> HIDE DEF of
<1>8. Inventory(m, Lists[m], atts, manifest_att(d))
  BY <1>4, <1>5, <1>7 DEF Inventory
<1> QED
  BY <1>8 DEF m, atts

(* For every document: exit code 0 and a time-stamp verified mean that its   *)
(* manifest.json is an exact inventory of what is attached.                 *)
THEOREM InventorySound == Spec => []AttachmentsAsListed
<1>1. ASSUME StepInv, ExitInv, PdfInv, ListInv, exit = 0, kind \in {"sealed_pdf", "fb_media_zip"},
             TimestampVerified
      PROVE  /\ doc = document.doc /\ attachments(document.doc) # "fail"
             /\ Len(document.doc) \in Nat /\ Labelled(document.doc)
  <2>1. doc = document.doc /\ kind \in PdfKinds
    BY <1>1, DocAtExit DEF PdfKinds
  <2>2. attachments(document.doc) # "fail" /\ AsPdf(document) /\ (kind # "sealed_pdf" => original # Null)
    BY <1>1, <2>1, DocumentAtExit
  <2> QED
    BY <1>1, <2>1, <2>2, Given DEF ExitInv, document, File, AsPdf, Labelled
<1>2. StepInv /\ ExitInv /\ PdfInv /\ ListInv => AttachmentsAsListed
  BY <1>1, InventoryIsExact DEF AttachmentsAsListed
<1> QED
  BY <1>2, RoutesAlways, PTL

-----------------------------------------------------------------------------
AllKinds == Unsealed \cup {"saas_zip", "zip_unknown", "fb_zip", "sealed_pdf", "pdf_unsigned", "pdf_damaged",
                           "unknown"}
Statuses == {"pass", "fail", "skip"}
TypedChecks == \A c \in checks : c.status \in Statuses /\ c.of \in {"self", "original"}

LEMMA ChecksTyped ==
  ASSUME [Next]_vars, TypedChecks
  PROVE  TypedChecks'
<1>1. \A b : Status(b) \in Statuses
  BY DEF Status, Statuses
<1>2. \A name, n, s : s \in Statuses => /\ Check(name, n, s).status \in Statuses
                                       /\ Check(name, n, s).of \in {"self", "original"}
  BY DEF Check, By
<1>3. ASSUME NEW name, NEW status, NEW next, One(name, status, next), status \in Statuses
      PROVE  TypedChecks'
  BY <1>2, <1>3, ReportedOne DEF TypedChecks
<1>4. ASSUME NEW new, checks' = checks \cup new,
             \A c \in new : c.status \in Statuses /\ c.of \in {"self", "original"}
      PROVE  TypedChecks'
  BY <1>4 DEF TypedChecks
<1>5. ASSUME NEW next, Report({}, next)
      PROVE  TypedChecks'
  BY <1>4, <1>5, Reported
<1>6. {"pass", "fail", "skip"} = Statuses
  BY DEF Statuses
<1>7. \A n, ok, signer, trusted, listed : listed \in Statuses =>
        \A c \in TokenChecks(n, ok, signer, trusted, listed) : c.status \in Statuses /\ c.of \in {"self", "original"}
  BY <1>1, <1>2, <1>6 DEF TokenChecks
<1>8. CASE Dispatch \/ EndVerifier \/ Finish \/ Exit \/ UNCHANGED vars
  BY <1>8 DEF Dispatch, EndVerifier, Finish, Exit, vars, TypedChecks
<1>9. CASE SaasZip \/ Raised
  BY <1>1, <1>6, <1>9 DEF SaasZip, Raised, TypedChecks
<1>10. CASE InputFormat
  BY <1>3, <1>6, <1>10 DEF InputFormat
<1>11. CASE FbZip
  <2>1. CASE ZipOpen
    BY <1>3, <1>5, <1>6, <2>1 DEF ZipOpen
  <2>2. CASE FbPackage \/ BundleIntegrity \/ SealedBinding \/ Items \/ ZipMetadata
    BY <1>1, <1>3, <2>2 DEF FbPackage, BundleIntegrity, SealedBinding, Items, ZipMetadata
  <2>3. CASE ZipReport
    BY <1>1, <1>3, <1>5, <2>3 DEF ZipReport
  <2>4. CASE ZipToken
    <3> DEFINE new == TokenChecks(1, timestamp_token(target), SignedToken(target),
                                  tsa_trust_root(target, roots), tsl_qualified(target))
    <3>1. tsl_qualified(target) \in Statuses
      BY <1>6 DEF tsl_qualified
    <3>2. \A c \in new : c.status \in Statuses /\ c.of \in {"self", "original"}
      BY <1>7, <3>1
    <3>3. One("timestamp_token", "fail", "report_pdf") \/ checks' = checks \cup new
      BY <2>4, Reported DEF ZipToken
    <3> QED
      BY <1>3, <1>4, <1>6, <3>2, <3>3
  <2> QED
    BY <1>11, <2>1, <2>2, <2>3, <2>4 DEF FbZip
<1>12. CASE SealedPdfRun
  <2>1. CASE PdfStructure
    BY <1>3, <1>5, <1>6, <2>1 DEF PdfStructure
  <2>2. CASE FindSignatures
    BY <1>3, <1>6, <2>2 DEF FindSignatures, TypedChecks
  <2>3. CASE NextSignature
    <3>1. \A c \in SignatureChecks(cur) : c.status \in Statuses /\ c.of \in {"self", "original"}
      <4>1. ListStatus(doc, cur, list) \in Statuses
        BY <1>6 DEF ListStatus
      <4>2. \A c \in TokenChecks(cur, TokenOk(doc, cur), doc[cur].token # Null, doc[cur].token \in roots,
                                ListStatus(doc, cur, list)) : c.status \in Statuses /\ c.of \in {"self", "original"}
        BY <1>1, <1>2, <1>6, <4>1 DEF TokenChecks
      <4> QED
        BY <1>1, <1>2, <1>6, <4>2 DEF SignatureChecks
    <3> QED
      BY <1>4, <2>3, <3>1 DEF NextSignature
  <2>4. CASE SignaturesDone
    BY <1>5, <2>4 DEF SignaturesDone
  <2>5. CASE PostSealChanges
    BY <1>1, <1>3, <2>5 DEF PostSealChanges
  <2>6. CASE AttachmentsStep
    BY <1>3, <1>6, <2>6 DEF AttachmentsStep, attachments
  <2>7. CASE ExternalMedia
    BY <1>3, <1>5, <1>6, <2>7 DEF ExternalMedia, external_media
  <2>8. CASE EvidenceStep
    BY <1>1, <1>3, <1>5, <2>8 DEF EvidenceStep
  <2> QED
    BY <1>12, <2>1, <2>2, <2>3, <2>4, <2>5, <2>6, <2>7, <2>8 DEF SealedPdfRun
<1>13. CASE Outputs
  <2>1. CASE CopyIdentification \/ ReportIntegrity
    BY <1>1, <1>2, <1>6, <2>1 DEF CopyIdentification, ReportIntegrity, TypedChecks
  <2>2. CASE CopyBinding
    BY <1>1, <1>2, <1>4, <2>2, Reported DEF CopyBinding
  <2>3. CASE ReportBinding
    BY <1>1, <1>3, <2>3 DEF ReportBinding
  <2>4. CASE SaasReport
    <3> DEFINE new == {Check("report_integrity", 0, "skip")} \cup
                      IF original = Null THEN {} ELSE {Check("report_binding", 0, Status(saas_binding))}
    <3>1. checks' = checks \cup new
      BY <2>4, Reported DEF SaasReport
    <3>2. \A c \in new : c.status \in Statuses /\ c.of \in {"self", "original"}
      BY <1>1, <1>2, <1>6
    <3> QED
      BY <1>4, <3>1, <3>2
  <2>5. CASE MediaCompanion
    BY <1>3, <1>5, <1>6, <2>5 DEF MediaCompanion
  <2> QED
    BY <1>13, <2>1, <2>2, <2>3, <2>4, <2>5 DEF Outputs
<1> QED
  BY <1>8, <1>9, <1>10, <1>11, <1>12, <1>13 DEF Next

LEMMA TypeNext ==
  ASSUME [Next]_vars, StepInv, ExitInv, TypeOK
  PROVE  TypeOK'
<1> DEFINE Verdict == summary # Null =>
                        /\ summary.verdict \in {"VERIFIED", "FAILED", "INTEGRITY_ONLY", "NOT_VERIFIABLE"}
                        /\ summary.qualified \in {Null, "per_supplied_tsl", "not_checked", "failed"}
           Rest == /\ kind \in AllKinds \cup {Null} /\ inner \in BOOLEAN /\ cur \in Nat
                   /\ exit \in {Null, 0, 1, 3, 4}
<1>1. TypedChecks /\ Verdict /\ Rest
  BY DEF TypeOK, TypedChecks, Statuses, AllKinds
<1>2. TypedChecks'
  BY <1>1, ChecksTyped
<1> SUFFICES Verdict' /\ Rest'
  BY <1>2 DEF TypeOK, TypedChecks, Statuses, AllKinds
<1>3. CASE FbZip
  BY <1>1, <1>3, ZipRuns, Reported, ReportedOne
     DEF FbZip, ZipOpen, FbPackage, BundleIntegrity, SealedBinding, Items, ZipToken, ZipMetadata, ZipReport
<1>4. CASE SealedPdfRun
  <2>1. cur' \in Nat
    BY <1>1, <1>4, Reported, ReportedOne
       DEF SealedPdfRun, PdfStructure, FindSignatures, NextSignature, SignaturesDone, PostSealChanges,
           AttachmentsStep, ExternalMedia, EvidenceStep
  <2> QED
    BY <1>1, <1>4, <2>1, PdfRuns
<1>5. CASE Outputs
  <2>1. inner' \in BOOLEAN
    BY <1>1, <1>5, OutputRuns DEF Outputs
  <2>2. cur' = cur
    BY <1>5, Reported, ReportedOne
       DEF Outputs, CopyIdentification, ReportIntegrity, Enter, CopyBinding, ReportBinding, SaasReport, MediaCompanion
  <2> QED
    BY <1>1, <1>5, <2>1, <2>2, OutputRuns
<1>6. CASE Dispatch
  BY <1>1, <1>6, Kinds DEF Dispatch, AllKinds, ExitInv
<1>7. CASE SaasZip
  <2>1. /\ summary'.verdict \in {"VERIFIED", "FAILED", "INTEGRITY_ONLY"} /\ summary'.qualified = Null
        /\ kind' = kind /\ inner' = inner /\ cur' = cur /\ exit' = exit
    BY <1>7 DEF SaasZip
  <2> QED
    BY <1>1, <2>1
<1>8. CASE InputFormat
  BY <1>1, <1>8, ReportedOne DEF InputFormat
<1>9. CASE Finish
  <2>1. summary'.verdict = _finish(IF pc = "finish" THEN Null ELSE "NOT_VERIFIABLE")
        /\ summary'.qualified = qualified_status
    BY <1>9 DEF Finish
  <2>2. _finish(IF pc = "finish" THEN Null ELSE "NOT_VERIFIABLE") \in {"VERIFIED", "FAILED", "NOT_VERIFIABLE"}
    BY DEF _finish
  <2>3. qualified_status \in {Null, "per_supplied_tsl", "not_checked", "failed"}
    BY DEF qualified_status
  <2> QED
    BY <1>1, <1>9, <2>1, <2>2, <2>3 DEF Finish
<1>10. CASE Raised
  BY <1>1, <1>10 DEF Raised
<1>11. CASE Exit
  <2>1. exit_code \in {0, 1, 3, 4}
    BY DEF exit_code
  <2> QED
    BY <1>1, <1>11, <2>1 DEF Exit
<1>12. CASE EndVerifier \/ UNCHANGED vars
  BY <1>1, <1>12 DEF EndVerifier, vars
<1> QED
  BY <1>3, <1>4, <1>5, <1>6, <1>7, <1>8, <1>9, <1>10, <1>11, <1>12 DEF Next

(* Type correctness, for every command line.                                *)
THEOREM TypeCorrect == Spec => []TypeOK
<1>1. Init => TypeOK
  <2>1. Init => /\ kind = Null /\ inner \in BOOLEAN /\ cur = 0 /\ checks = {} /\ summary = Null
                /\ exit \in {Null, 0, 1, 3, 4}
    BY DEF Init
  <2> QED
    BY <2>1 DEF TypeOK
<1>2. StepInv /\ ExitInv /\ TypeOK /\ [Next]_vars => TypeOK'
  BY TypeNext
<1> QED
  BY <1>1, <1>2, StepsAlways, PTL DEF Spec

-----------------------------------------------------------------------------
(* The other direction: every check passes on what the app wrote.            *)
LEMMA GenuinePasses ==
  ASSUME line \in CommandLines, NEW z, File(z), z.type = "zip", GenuinePackage(z)
  PROVE  /\ z.archive = "ok" /\ bundle_integrity(z) /\ sealed_binding(z) /\ items(z)
         /\ (z.manifest # Null => fb_package(z))
         /\ HasToken(z) /\ SignedToken(z) /\ timestamp_token(z) /\ tsa_trust_root(z, roots)
         /\ tsl_qualified(z) # "fail" /\ timestamp_metadata(z)
         /\ (Data(z, ReportFile) # Null => report_pdf(z))
<1>1. PICK v \in Versions :
        /\ CompletePackage(v) /\ Tsa[v] \in roots
        /\ z.archive = "ok" /\ z.manifest = IssuedManifest(v, {p \in Listable : InZip(z, p)})
        /\ \A p \in Listable : z.zip[p] \in {v, Null}
        /\ Binds[v] \cup {PayloadFile, TsrFile} \subseteq {p \in Listable : InZip(z, p)}
        /\ \A p \in PageFiles \cup UnderFiles : InZip(z, p) => p \in Binds[v]
        /\ InZip(z, TslFile) => Tsa[v] \in Granted[v]
  BY DEF GenuinePackage
<1>2. v # Null /\ v # Corrupt /\ Null # Corrupt
  BY PackageAssumption
<1>3. /\ \A p \in Listable : Data(z, p) = z.zip[p] /\ (InZip(z, p) <=> Data(z, p) = v)
      /\ \A p \in Listable : ~InZip(z, p) <=> Data(z, p) = Null
  BY <1>1, <1>2 DEF Data, InZip
<1>4. {ProofFile, MetaFile, PayloadFile, PayloadSidecar, MetaSidecar, TsrFile, TsMetaFile, TslFile, ReportFile, MediaFile}
        \subseteq Listable
      /\ PageFiles \subseteq Listable /\ UnderFiles \subseteq Listable
  BY DEF Listable
<1>5. /\ {ProofFile, MetaFile} \subseteq Binds[v] /\ Declares[v] \ MediaPaths \subseteq Binds[v]
      /\ Format[v] \in FB_FORMATS
      /\ Format[v] = "files" => Declares[v] \cap UnderFiles # {} /\ Binds[v] \cap UnderFiles \subseteq Declares[v]
      /\ Format[v] = "lite" => PageList[v] # {} /\ (v \in WithVideo => MediaFile \in Binds[v])
      /\ \A i \in 1..2 : PageOf(i) \cap Binds[v] # {} => i \in PageList[v]
  BY <1>1 DEF CompletePackage, CompleteVersion
<1>6. /\ Data(z, ProofFile) = v /\ Payload(z) = v /\ Data(z, TsrFile) = v /\ Data(z, MetaFile) = v
      /\ PayloadFiles(z) = Binds[v] /\ \A p \in Binds[v] : p \in Listable /\ Data(z, p) = v
  BY <1>1, <1>2, <1>3, <1>4, <1>5 DEF Payload, PayloadFiles
<1>7. /\ z.manifest.format = Format[v] /\ z.manifest.session = Session[v] /\ z.manifest.payload = v
      /\ z.manifest.sealed_count = Cardinality(Binds[v])
      /\ \A p \in Listable : Entry(z, p) = IF InZip(z, p) THEN [of |-> v, sealed |-> p \in Binds[v]] ELSE Null
  BY <1>1 DEF IssuedManifest, Entry
<1>8. /\ \A p \in Listable : p \in Listed(z) <=> InZip(z, p)
      /\ \A p \in Listed(z) : Entry(z, p).of = v /\ (Entry(z, p).sealed <=> p \in Binds[v])
  <2>1. \A p \in Listable : InZip(z, p) => [of |-> v, sealed |-> p \in Binds[v]] \in Listing
    BY DEF Listing
  <2>2. \A p \in Listable : InZip(z, p) => Entry(z, p) # Null
    BY <1>7, <2>1, PackageAssumption
  <2>3. \A p \in Listable : p \in Listed(z) <=> InZip(z, p)
    BY <1>7, <2>2 DEF Listed
  <2>4. ASSUME NEW p \in Listed(z) PROVE Entry(z, p).of = v /\ (Entry(z, p).sealed <=> p \in Binds[v])
    <3>1. p \in Listable /\ InZip(z, p)
      BY <2>3 DEF Listed
    <3> DEFINE bound == p \in Binds[v]
    <3>2. Entry(z, p) = [of |-> v, sealed |-> bound]
      BY <1>7, <3>1
    <3> HIDE DEF bound
    <3>3. Entry(z, p).of = v /\ Entry(z, p).sealed = bound
      BY <3>2
    <3> QED BY <3>3 DEF bound
  <2> QED BY <2>3, <2>4
<1>9. MarkedSealed(z) = Binds[v]
  BY <1>1, <1>6, <1>8 DEF MarkedSealed, Listed
<1>10. bundle_integrity(z)
  BY <1>3, <1>6, <1>7, <1>8, <1>9 DEF bundle_integrity, Listed
<1>11. sealed_binding(z)
  BY <1>2, <1>3, <1>4, <1>5, <1>6, <1>9 DEF sealed_binding
<1>12. PageFiles \cap MediaPaths = {} /\ UnderFiles \cap MediaPaths = {}
  BY DEF PageFiles, PageOf, UnderFiles, MediaPaths, Screenshot, PageNote, SecondPage, FileOne, SourceOne, FileTwo, MediaFile
<1>13. items(z)
  <2>1. CASE Format[v] = "files"
    BY <1>1, <1>2, <1>3, <1>4, <1>5, <1>6, <1>7, <1>12, <2>1 DEF items, files
  <2>2. CASE Format[v] = "lite"
    <3>1. \A i \in 1..2 : (\E p \in PageOf(i) : InZip(z, p)) => i \in PageList[v]
      BY <1>1, <1>5 DEF PageFiles
    <3>2. \A p \in Declares[v] \cap PageFiles : Data(z, p) = v /\ p \in Binds[v]
      BY <1>5, <1>6, <1>12
    <3>3. pages(z)
      BY <1>2, <1>5, <1>6, <2>2, <3>1, <3>2 DEF pages
    <3> QED BY <1>7, <2>2, <3>3 DEF items
  <2> QED BY <1>5, <2>1, <2>2 DEF FB_FORMATS
<1>14. z.manifest # Null => fb_package(z)
  <2>1. \A p \in {ProofFile, PayloadFile, TsrFile, MetaFile} : Data(z, p) = v
    BY <1>6 DEF Payload
  <2>2. \A p, q \in {ProofFile, PayloadFile, MetaFile} : Session[Data(z, p)] = Session[Data(z, q)]
    BY <2>1
  <2>3. \A p \in {ProofFile, PayloadFile, TsrFile} : Data(z, p) # Null
    BY <1>2, <2>1
  <2> QED BY <1>5, <1>6, <1>7, <2>2, <2>3 DEF fb_package
<1>15. Tsa[v] # Null
  BY <1>1, LineAssumption DEF roots
<1>16. HasToken(z) /\ SignedToken(z) /\ timestamp_token(z) /\ tsa_trust_root(z, roots)
  BY <1>1, <1>2, <1>6, <1>15 DEF HasToken, SignedToken, timestamp_token, tsa_trust_root
<1>17. tsl_qualified(z) # "fail" /\ timestamp_metadata(z)
  BY <1>1, <1>2, <1>3, <1>4, <1>6 DEF tsl_qualified, timestamp_metadata
<1>18. Data(z, ReportFile) # Null => report_pdf(z)
  BY <1>3, <1>4, <1>6, <1>7 DEF report_pdf
<1> QED BY <1>1, <1>10, <1>11, <1>13, <1>14, <1>16, <1>17, <1>18

LEMMA GenuineDocPasses ==
  ASSUME line \in CommandLines, NEW d, Len(d) \in Nat, GenuineDoc(d)
  PROVE  /\ Signatures(d) # {} /\ HasPrimary(d) /\ post_seal_changes(d)
         /\ \A i \in Signatures(d) :
              d[i].is_doc_ts /\ pades_signature(d, i) /\ TokenOk(d, i) /\ d[i].token # Null /\ d[i].token \in roots
         /\ \A a \in Attachments(d) : <<a.p, a.v>> \notin Garbled
         /\ attachments(d) # "fail" /\ evidence_consistency(d)
<1> DEFINE v == d[1].v
<1>1. /\ d[1].kind = "body" /\ CompleteDoc(v) /\ Len(d) > 1 /\ d[2].kind = "sign"
      /\ \A i \in 2..Len(d) :
           \/ d[i].kind = "dss"
           \/ d[i].kind = "sign" /\ d[i] = Sign(TRUE, TRUE, d[i].token, SubSeq(d, 1, i - 1)) /\ d[i].token \in roots
  BY DEF GenuineDoc
<1>2. /\ CompleteVersion(v, Lists[v]) /\ Embeds[v] = Lists[v] \cup {ManifestFile}
      /\ \A p \in Embeds[v] : <<p, v>> \notin Garbled
      /\ Cites[v] \subseteq Lists[v] \cup IF Format[v] = "lite" THEN External[v] ELSE {}
  BY <1>1 DEF CompleteDoc
<1>3. /\ Format[v] \in FB_FORMATS /\ v \in Versions /\ {ProofFile, MetaFile} \subseteq Lists[v]
      /\ Declares[v] \ MediaPaths \subseteq Lists[v]
      /\ Format[v] = "files" => Declares[v] \cap UnderFiles # {} /\ Lists[v] \cap UnderFiles \subseteq Declares[v]
  BY <1>2, PackageAssumption DEF CompleteVersion
<1> HIDE DEF v
<1>4. v # Null
  BY <1>3, PackageAssumption
<1>5. ASSUME NEW i \in Signatures(d)
      PROVE  /\ i \in 2..Len(d) /\ d[i].is_doc_ts /\ d[i].in_acroform /\ d[i].signed = SubSeq(d, 1, i - 1)
             /\ d[i].token \in roots /\ d[i].token # Null /\ d[i].token # "broken"
  <2>1. i \in 2..Len(d) /\ d[i].kind = "sign"
    BY <1>1 DEF Signatures
  <2>2. d[i] = Sign(TRUE, TRUE, d[i].token, SubSeq(d, 1, i - 1)) /\ d[i].token \in roots
    BY <1>1, <2>1
  <2>3. d[i].token # Null /\ d[i].token # "broken"
    BY <2>2, LineAssumption DEF roots
  <2> QED BY <2>1, <2>2, <2>3 DEF Sign
<1>6. /\ HasPrimary(d) /\ Signatures(d) # {} /\ Primary(d) = 2
  <2>1. 2 \in Signatures(d) /\ HasTok(d, 2)
    BY <1>1, <1>5 DEF Signatures, HasTok
  <2>2. \A j \in Signatures(d) : 2 <= j /\ j \in Int
    BY <1>5
  <2>3. \E i \in Signatures(d) : HasTok(d, i) /\ \A j \in Signatures(d) : HasTok(d, j) => i <= j
    BY <2>1, <2>2
  <2>4. Primary(d) \in Signatures(d) /\ \A j \in Signatures(d) : HasTok(d, j) => Primary(d) <= j
    BY <2>3 DEF Primary
  <2> QED BY <2>1, <2>2, <2>4 DEF HasPrimary
<1>7. post_seal_changes(d)
  <2> SUFFICES ASSUME NEW i \in 3..Len(d) PROVE AllowedAfterSeal(d[i])
    BY <1>6 DEF post_seal_changes
  <2>1. CASE d[i].kind = "dss"
    BY <2>1 DEF AllowedAfterSeal
  <2>2. CASE d[i].kind = "sign"
    <3>1. i \in Signatures(d)
      BY <2>2 DEF Signatures
    <3>2. d[i].is_doc_ts /\ d[i].in_acroform
      BY <1>5, <3>1
    <3> QED BY <2>2, <3>2, Zenon DEF AllowedAfterSeal
  <2>3. i \in 2..Len(d)
    OBVIOUS
  <2>4. d[i].kind = "dss" \/ d[i].kind = "sign"
    BY <1>1, <2>3
  <2> QED BY <2>1, <2>2, <2>4
<1>8. \A i \in Signatures(d) : pades_signature(d, i) /\ TokenOk(d, i)
  BY <1>5 DEF pades_signature, TokenOk, Imprint
<1> DEFINE At(p) == [p |-> p, v |-> v, as |-> Label(p), at |-> 1]
<1>9. Attachments(d) = {At(p) : p \in Embeds[v]}
  <2>1. \A i \in 2..Len(d) : d[i].kind # "body" /\ d[i].kind # "attach"
    BY <1>1
  <2>2. 1 \in 1..Len(d)
    BY <1>1
  <2>3. ASSUME NEW a \in Attachments(d) PROVE a \in {At(p) : p \in Embeds[v]}
    <3>1. PICK i \in 1..Len(d) :
            a \in IF d[i].kind = "body" THEN {[p |-> p, v |-> d[i].v, as |-> Label(p), at |-> i] : p \in Embeds[d[i].v]}
                  ELSE IF d[i].kind = "attach" THEN {[p |-> d[i].p, v |-> d[i].v, as |-> d[i].as, at |-> i]} ELSE {}
      BY DEF Attachments
    <3>2. i = 1
      BY <2>1, <3>1
    <3> QED BY <1>1, <3>1, <3>2 DEF v
  <2>4. ASSUME NEW p \in Embeds[v] PROVE At(p) \in Attachments(d)
    <3>1. At(p) \in {[p |-> q, v |-> d[1].v, as |-> Label(q), at |-> 1] : q \in Embeds[d[1].v]}
      BY DEF v
    <3> QED BY <1>1, <2>2, <3>1 DEF Attachments
  <2> QED BY <2>3, <2>4
<1> DEFINE atts == Attachments(d)
<1>10. ASSUME NEW p \in Embeds[v]
       PROVE  First({At(p)}) = At(p)
  <2>1. \A a \in {At(p)} : \A b \in {At(p)} : Before(a, b)
    BY DEF Before
  <2> QED
    BY <2>1 DEF First
<1>11. Manifest(d) = v /\ manifest_att(d) = At(ManifestFile) /\ Proof(d) = v /\ BodyOf(d) = v
  <2>1. ASSUME NEW n \in {ManifestFile, ProofFile}
        PROVE  First(Named(d, n)) = At(n) /\ VersionOf(d, n) = v
    <3>1. n \in Embeds[v] /\ n \notin Suffixed
      BY <1>2, <1>3, DocumentAssumption DEF ManifestFile, Listable, ProofFile, MetaFile, MetaSidecar, PayloadFile,
         PayloadSidecar, TsrFile, TsMetaFile, TslFile, ReportFile, MediaFile, PageFiles, PageOf, UnderFiles,
         Screenshot, PageNote, SecondPage, FileOne, SourceOne, FileTwo
    <3>2. ASSUME NEW p
          PROVE  At(p).as.name = p /\ (At(p).as.ext <=> p \in Suffixed)
      BY DEF Label
    <3>3. Named(d, n) = {At(n)}
      <4>1. At(n) \in Attachments(d) /\ \A a \in Attachments(d) : \E p \in Embeds[v] : a = At(p)
        BY <1>9, <3>1
      <4> HIDE DEF At
      <4>2. At(n) \in Named(d, n)
        BY <3>1, <3>2, <4>1, Zenon DEF Named
      <4>3. ASSUME NEW a \in Named(d, n) PROVE a = At(n)
        <5>1. a \in Attachments(d) /\ a.as.name = n
          BY DEF Named
        <5> QED BY <3>2, <4>1, <5>1
      <4> QED BY <4>2, <4>3
    <3>4. First(Named(d, n)) = At(n)
      BY <1>10, <3>1, <3>3
    <3>5. Is(At(n), n)
      BY DEF Is, DigestOf
    <3> QED
      BY <3>3, <3>4, <3>5 DEF VersionOf
  <2> QED
    BY <2>1 DEF Manifest, manifest_att, Proof, BodyOf, v
<1>12. \A a \in Attachments(d) : <<a.p, a.v>> \notin Garbled
  BY <1>2, <1>9
<1>13. ASSUME NEW p \in Lists[v]
       PROVE  Candidates(p, atts) = {At(p)} /\ _match_attachment(p, atts) = At(p) /\ DigestOf(At(p)) = Digest(p, v)
  <2>1. Described(p, atts) = {At(p)}
    BY <1>2, <1>9 DEF Described, Label
  <2>2. Candidates(p, atts) = {At(p)}
    BY <2>1 DEF Candidates
  <2> QED
    BY <1>2, <1>10, <2>2 DEF _match_attachment, DigestOf
<1>14. attachments(d) # "fail"
  <2>1. \A a \in atts : WithinSealedRange(d, a)
    BY <1>6, <1>9 DEF WithinSealedRange
  <2>2. \A p \in Lists[v] : MatchesListed(v, p, atts)
    BY <1>13 DEF MatchesListed
  <2>3. atts \subseteq {manifest_att(d)} \cup {_match_attachment(p, atts) : p \in Lists[v]}
    BY <1>2, <1>9, <1>11, <1>13
  <2> QED BY <1>11, <2>1, <2>2, <2>3 DEF attachments
<1>15. \A p : by_path(d, p) = IF p \in Lists[v] THEN {At(p)} ELSE {}
  <2> SUFFICES ASSUME NEW p PROVE by_path(d, p) = IF p \in Lists[v] THEN {At(p)} ELSE {}
    OBVIOUS
  <2>1. by_path(d, p) = KeptUnder(v, p, atts)
    BY <1>4, <1>11 DEF by_path
  <2>2. CASE p \notin Lists[v]
    BY <2>1, <2>2 DEF KeptUnder
  <2>3. CASE p \in Lists[v]
    <3>1. \A q \in Lists[v] : Order[v][q] > Order[v][p] => At(p) # At(q)
      BY <1>3, <2>3, DocumentAssumption
    <3>2. KeptUnder(v, p, atts) = {At(p)}
      BY <1>13, <2>3, <3>1 DEF KeptUnder
    <3> QED
      BY <2>1, <2>3, <3>2
  <2> QED
    BY <2>2, <2>3
<1>16. \A p \in Lists[v] : IsOfProof(d, At(p), p)
  BY <1>11, <1>13 DEF IsOfProof
<1>17. PageFiles \cap MediaPaths = {} /\ UnderFiles \cap MediaPaths = {}
  BY DEF PageFiles, PageOf, UnderFiles, MediaPaths, Screenshot, PageNote, SecondPage, FileOne, SourceOne, FileTwo, MediaFile
<1>18. FilesKind(d) <=> Format[v] = "files"
  BY <1>4, <1>11 DEF FilesKind
<1>19. Format[v] = "files" => files_evidence(d)
  BY <1>3, <1>4, <1>11, <1>17, <1>15, <1>16 DEF files_evidence
<1>20. pages_evidence(d)
  <2>1. \A p \in Declares[v] \cap PageFiles : p \in Lists[v]
    BY <1>3, <1>17
  <2>2. ASSUME NEW p \in Declares[v] \cap PageFiles
        PROVE  by_path(d, p) # {} /\ \A a \in by_path(d, p) : IsOfProof(d, a, p)
    BY <1>15, <1>16, <2>1
  <2>3. by_path(d, MetaFile) = {At(MetaFile)} /\ IsOfProof(d, At(MetaFile), MetaFile)
    BY <1>3, <1>15, <1>16
  <2>4. by_path(d, MetaSidecar) \subseteq {At(MetaSidecar)}
    BY <1>15
  <2>5. DigestOf(At(MetaFile)) = Digest(MetaFile, At(MetaSidecar).v) /\ Is(At(MetaSidecar), MetaSidecar)
    BY DEF Is, DigestOf
  <2>6. Session[At(MetaFile).v] = Session[Proof(d)]
    BY <1>11
  <2> HIDE DEF At
  <2> QED
    BY <1>11, <2>2, <2>3, <2>4, <2>5, <2>6 DEF pages_evidence
<1>21. \A p \in Cites[v] :
         \/ \E a \in atts : DigestOf(a) = Digest(p, v)
         \/ ~FilesKind(d) /\ p \in ExternalOf(d) /\ Manifest(d) = v
  <2>1. ASSUME NEW p \in Lists[v]
        PROVE  \E a \in atts : DigestOf(a) = Digest(p, v)
    BY <1>2, <1>9, <1>13
  <2> QED
    BY <1>2, <1>4, <1>11, <1>18, <2>1 DEF ExternalOf, FB_FORMATS
<1>22. evidence_consistency(d)
  BY <1>4, <1>11, <1>18, <1>19, <1>20, <1>21 DEF evidence_consistency, SaysSession
<1> QED BY <1>5, <1>6, <1>7, <1>8, <1>12, <1>14, <1>22

-----------------------------------------------------------------------------
IntactZip == kind = "fb_zip" /\ subject.manifest # Corrupt /\ GenuinePackage(subject)
IntactPdf ==
  /\ kind = "sealed_pdf" /\ subject.parses = "yes" /\ GenuineDoc(subject.doc)
  /\ ListGrants({subject.doc[i].token : i \in Signatures(subject.doc)})
  /\ (media # Null => \A p \in ExternalOf(subject.doc) : media[p] = Manifest(subject.doc))
Fine == ~AnyFailed /\ (pc \notin {"zip_open", "fb_package", "pdf_structure"} => AnyPassed)
AcceptInv ==
  /\ pc = "open" => checks = {}
  /\ pc # "open" /\ IntactZip => Fine /\ pc \in ZipSteps \cup {"end", "finish", "exit", "done"}
  /\ pc # "open" /\ IntactPdf => Fine /\ pc \in PdfSteps \cup {"end", "finish", "exit", "done"}
  /\ pc \in {"exit", "done"} /\ (IntactZip \/ IntactPdf) => summary.verdict = "VERIFIED"
  /\ pc = "done" /\ (IntactZip \/ IntactPdf) => exit = 0

LEMMA IntactSame ==
  ASSUME line' = line, kind' = kind
  PROVE  /\ subject' = subject /\ IntactZip' = IntactZip /\ IntactPdf' = IntactPdf
<1>1. subject' = subject /\ media' = media /\ list' = list /\ roots' = roots
  BY DEF subject, media, list, roots
<1> QED BY <1>1 DEF IntactZip, IntactPdf, GenuinePackage, GenuineDoc, ListGrants

(* What a report keeps.                                                     *)
LEMMA ReportedFine ==
  ASSUME NEW new, NEW next, Report(new, next), ~AnyFailed, \A c \in new : c.status # "fail"
  PROVE  ~AnyFailed' /\ (AnyPassed => AnyPassed')
BY DEF Report, AnyFailed, AnyPassed

LEMMA ReportedOneFine ==
  ASSUME NEW name, NEW status, NEW next, One(name, status, next), ~AnyFailed, status # "fail"
  PROVE  ~AnyFailed' /\ (AnyPassed => AnyPassed') /\ (status = "pass" => AnyPassed')
<1>1. Report({Check(name, 0, status)}, next)
  BY DEF One
<1>2. Check(name, 0, status).status = status
  BY DEF Check
<1>3. Check(name, 0, status) \in checks'
  BY <1>1, Reported
<1> QED BY <1>1, <1>2, <1>3, ReportedFine DEF AnyPassed

LEMMA TokenFine ==
  ASSUME NEW n, NEW ok, NEW signer, NEW trusted, NEW listed, ok, signer, trusted, listed # "fail"
  PROVE  \A c \in TokenChecks(n, ok, signer, trusted, listed) : c.status # "fail"
<1>1. Status(ok) = "pass" /\ Status(trusted) = "pass"
  BY DEF Status
<1>2. (IF signer THEN listed ELSE "skip") = listed
  OBVIOUS
<1>3. ASSUME NEW c \in TokenChecks(n, ok, signer, trusted, listed)
      PROVE  \/ c = Check("timestamp_token", n, Status(ok))
             \/ c = Check("tsl_qualified", n, IF signer THEN listed ELSE "skip")
             \/ c = Check("tsa_trust_root", n, Status(trusted))
  BY <1>3 DEF TokenChecks
<1>4. /\ Check("timestamp_token", n, Status(ok)).status = "pass"
      /\ Check("tsa_trust_root", n, Status(trusted)).status = "pass"
      /\ \A x : Check("tsl_qualified", n, x).status = x
  BY <1>1 DEF Check
<1> QED BY <1>2, <1>3, <1>4

LEMMA ZipAccepts ==
  ASSUME FbZip, StepInv, ExitInv, AcceptInv
  PROVE  AcceptInv'
<1>1. /\ pc \in ZipSteps /\ pc' \in ZipSteps \cup {"end", "raised"}
      /\ line' = line /\ kind' = kind /\ inner' = inner /\ pc # "open"
  BY ZipRuns DEF ZipSteps
<1>2. IntactZip' = IntactZip /\ IntactPdf' = IntactPdf /\ ~IntactPdf
  BY <1>1, IntactSame DEF StepInv, ZipKinds, IntactPdf
<1> SUFFICES ASSUME IntactZip
             PROVE  Fine' /\ pc' # "raised"
  BY <1>1, <1>2 DEF AcceptInv, ZipSteps
<1>3. target = subject
  BY <1>1 DEF StepInv, IntactZip, Verifying, OnOriginal, target, ForCompanion
<1>4. /\ File(subject) /\ subject.type = "zip" /\ subject.manifest # Null /\ subject.manifest # Corrupt
      /\ GenuinePackage(subject)
  <2>1. File(subject)
    BY LineAssumption DEF ExitInv, subject
  <2>2. kind = detect_kind(subject) /\ kind = "fb_zip" /\ line \in CommandLines
    BY <1>1 DEF StepInv, ExitInv, IntactZip
  <2>3. detect_pdf(subject) # "fb_zip"
    BY DEF detect_pdf
  <2>4. subject.type = "zip" /\ detect_zip(subject) = "fb_zip"
    BY <2>1, <2>2, <2>3 DEF detect_kind, File
  <2> QED BY <2>1, <2>4 DEF detect_zip, IntactZip
<1> DEFINE z == subject
<1>5. /\ z.archive = "ok" /\ bundle_integrity(z) /\ sealed_binding(z) /\ items(z) /\ fb_package(z)
      /\ HasToken(z) /\ SignedToken(z) /\ timestamp_token(z) /\ tsa_trust_root(z, roots)
      /\ tsl_qualified(z) # "fail" /\ timestamp_metadata(z)
      /\ (Data(z, ReportFile) # Null => report_pdf(z))
  BY <1>4, GenuinePasses DEF ExitInv
<1>6. ~AnyFailed /\ (pc \notin {"zip_open", "fb_package"} => AnyPassed)
  BY <1>1 DEF AcceptInv, Fine, ZipSteps
<1> HIDE DEF z
<1>7. CASE ZipOpen
  <2>1. pc' = "fb_package" /\ Report({}, "fb_package")
    BY <1>3, <1>4, <1>5, <1>7 DEF ZipOpen, IsZip, z, Report, Go
  <2> QED BY <1>6, <2>1, ReportedFine DEF Fine
<1>8. CASE FbPackage
  <2>1. One("fb_package", "pass", "bundle_integrity")
    BY <1>3, <1>4, <1>5, <1>8 DEF FbPackage, Status, z
  <2> QED BY <1>6, <2>1, ReportedOne, ReportedOneFine DEF Fine
<1>9. CASE BundleIntegrity \/ SealedBinding \/ Items \/ ZipMetadata
  <2>1. \E name, next : One(name, "pass", next) /\ next \in {"sealed_binding", "items", "token", "report_pdf"}
    BY <1>3, <1>5, <1>9 DEF BundleIntegrity, SealedBinding, Items, ZipMetadata, Status, z
  <2> QED BY <1>6, <2>1, ReportedOne, ReportedOneFine DEF Fine
<1>10. CASE ZipToken
  <2>1. Report(TokenChecks(1, timestamp_token(z), SignedToken(z), tsa_trust_root(z, roots), tsl_qualified(z)),
               "metadata") /\ pc = "token"
    BY <1>3, <1>5, <1>10 DEF ZipToken, z
  <2>2. \A c \in TokenChecks(1, timestamp_token(z), SignedToken(z), tsa_trust_root(z, roots), tsl_qualified(z)) :
          c.status # "fail"
    BY <1>5, TokenFine
  <2> QED BY <1>6, <2>1, <2>2, Reported, ReportedFine DEF Fine
<1>11. CASE ZipReport
  <2>1. pc = "report_pdf" /\ (Report({}, "end") \/ One("report_pdf", "pass", "end"))
    BY <1>3, <1>5, <1>11 DEF ZipReport, Status, z
  <2> QED BY <1>6, <2>1, Reported, ReportedFine, ReportedOne, ReportedOneFine DEF Fine
<1> QED BY <1>7, <1>8, <1>9, <1>10, <1>11 DEF FbZip

LEMMA PdfAccepts ==
  ASSUME SealedPdfRun, StepInv, ExitInv, AcceptInv
  PROVE  AcceptInv'
<1>1. /\ pc \in PdfSteps /\ pc' \in PdfSteps \cup {"end", "raised"}
      /\ line' = line /\ kind' = kind /\ inner' = inner /\ pc # "open"
  BY PdfRuns DEF PdfSteps
<1>2. IntactZip' = IntactZip /\ IntactPdf' = IntactPdf /\ ~IntactZip
  BY <1>1, IntactSame DEF StepInv, PdfKinds, IntactZip
<1> SUFFICES ASSUME IntactPdf
             PROVE  Fine' /\ pc' # "raised"
  BY <1>1, <1>2 DEF AcceptInv, PdfSteps
<1>3. target = subject /\ archive = media /\ kind = "sealed_pdf"
  BY <1>1 DEF StepInv, IntactPdf, Verifying, OnOriginal, target, archive, ForCompanion
<1>4. subject.type = "pdf" /\ Len(subject.doc) \in Nat
  <2>1. File(subject)
    BY LineAssumption DEF ExitInv, subject
  <2>2. detect_zip(subject) # "sealed_pdf" /\ kind = detect_kind(subject)
    BY <1>1 DEF detect_zip, StepInv
  <2> QED BY <1>3, <2>1, <2>2 DEF detect_kind, File
<1> DEFINE d == subject.doc
<1>5. /\ Signatures(d) # {} /\ HasPrimary(d) /\ post_seal_changes(d)
      /\ \A i \in Signatures(d) :
           d[i].is_doc_ts /\ pades_signature(d, i) /\ TokenOk(d, i) /\ d[i].token # Null /\ d[i].token \in roots
      /\ \A a \in Attachments(d) : <<a.p, a.v>> \notin Garbled
      /\ attachments(d) # "fail" /\ evidence_consistency(d)
  BY <1>4, GenuineDocPasses DEF ExitInv, IntactPdf
<1>6. doc = d
  BY <1>3 DEF doc
<1>7. ~AnyFailed /\ (pc # "pdf_structure" => AnyPassed)
  BY <1>1 DEF AcceptInv, Fine, PdfSteps
<1>8. external_media(d, media) # "fail" /\ \A i \in Signatures(d) : ListStatus(d, i, list) # "fail"
  BY DEF external_media, IntactPdf, ListGrants, ListStatus
<1> HIDE DEF d
<1>9. CASE PdfStructure
  <2>1. One("pdf_structure", "pass", "find_signatures")
    BY <1>3, <1>4, <1>9 DEF PdfStructure, IntactPdf
  <2> QED BY <1>7, <2>1, ReportedOne, ReportedOneFine DEF Fine
<1>10. CASE FindSignatures
  BY <1>5, <1>6, <1>7, <1>10 DEF FindSignatures, Go, Fine, AnyFailed, AnyPassed
<1>11. CASE NextSignature
  <2>1. pc = "signature" /\ pc' = pc /\ checks' = checks \cup IF cur \in Signatures(d) THEN SignatureChecks(cur) ELSE {}
    BY <1>6, <1>11 DEF NextSignature, AtSignature
  <2>2. ASSUME cur \in Signatures(d) PROVE \A c \in SignatureChecks(cur) : c.status # "fail"
    <3> DEFINE ok == TokenOk(d, cur)
               signer == d[cur].token # Null
               trusted == d[cur].token \in roots
               listed == ListStatus(d, cur, list)
    <3>1. d[cur].is_doc_ts /\ pades_signature(d, cur) /\ ok /\ signer /\ trusted /\ listed # "fail"
      BY <1>5, <1>8, <2>2
    <3>2. SignatureChecks(cur) \subseteq
            {Check("pades_signature", cur, Status(pades_signature(d, cur)))}
            \cup TokenChecks(cur, ok, signer, trusted, listed)
      BY <1>6, <3>1 DEF SignatureChecks
    <3>3. \A c \in TokenChecks(cur, ok, signer, trusted, listed) : c.status # "fail"
      <4> HIDE DEF ok, signer, trusted, listed
      <4> QED BY <3>1, TokenFine
    <3>4. Check("pades_signature", cur, Status(pades_signature(d, cur))).status = "pass"
      BY <3>1 DEF Check, Status
    <3> HIDE DEF ok, signer, trusted, listed
    <3> QED BY <3>2, <3>3, <3>4
  <2>3. \A c \in checks' \ checks : c.status # "fail"
    BY <2>1, <2>2
  <2> QED BY <1>7, <2>1, <2>3 DEF Fine, AnyFailed, AnyPassed
<1>12. CASE SignaturesDone
  BY <1>7, <1>12, Reported, ReportedFine, <1>5, <1>6 DEF SignaturesDone, Fine
<1>13. CASE PostSealChanges
  <2>1. One("post_seal_changes", "pass", "attachments") /\ pc = "post_seal"
    BY <1>5, <1>6, <1>13 DEF PostSealChanges, Status
  <2> QED BY <1>7, <2>1, ReportedOne, ReportedOneFine DEF Fine
<1>14. CASE AttachmentsStep
  <2>1. One("attachments", attachments(d), "external_media") /\ pc = "attachments"
    BY <1>5, <1>6, <1>14 DEF AttachmentsStep
  <2> QED BY <1>5, <1>7, <2>1, ReportedOne, ReportedOneFine DEF Fine
<1>15. CASE ExternalMedia
  <2>1. pc = "external_media" /\ (Report({}, "evidence") \/ One("external_media", external_media(d, media), "evidence"))
    BY <1>3, <1>6, <1>15 DEF ExternalMedia
  <2> QED BY <1>7, <1>8, <2>1, Reported, ReportedFine, ReportedOne, ReportedOneFine DEF Fine
<1>16. CASE EvidenceStep
  <2>1. pc = "evidence" /\ (Report({}, "end") \/ One("evidence_consistency", "pass", "end"))
    BY <1>5, <1>6, <1>16 DEF EvidenceStep, Status
  <2> QED BY <1>7, <2>1, Reported, ReportedFine, ReportedOne, ReportedOneFine DEF Fine
<1> QED BY <1>9, <1>10, <1>11, <1>12, <1>13, <1>14, <1>15, <1>16 DEF SealedPdfRun

LEMMA AcceptNext ==
  ASSUME [Next]_vars, StepInv, ExitInv, AcceptInv
  PROVE  AcceptInv'
<1> USE DEF ZipSteps, PdfSteps
<1>1. CASE Dispatch
  <2>1. /\ pc = "open" /\ checks' = {} /\ kind' = detect_kind(subject) /\ pc' = FirstStep(kind')
        /\ pc' \notin {"open", "exit", "done"}
    BY <1>1, Kinds DEF Dispatch, AcceptInv, ExitInv, FirstStep, Unsealed
  <2>2. /\ IntactZip' => pc' = "zip_open"
        /\ IntactPdf' => pc' = "pdf_structure"
    BY <2>1 DEF IntactZip, IntactPdf, FirstStep
  <2>3. ~AnyFailed'
    BY <2>1 DEF AnyFailed
  <2> QED BY <2>1, <2>2, <2>3 DEF AcceptInv, Fine
<1>2. CASE Outputs \/ SaasZip \/ InputFormat
  <2>1. /\ line' = line /\ kind' = kind /\ pc' # "open" /\ pc # "open" /\ kind \notin {"fb_zip", "sealed_pdf"}
    <3>1. CASE Outputs
      <4>1. line' = line /\ kind' = kind /\ pc' # "open"
            /\ pc \in {"copy_identification", "copy_binding", "report_integrity", "report_binding",
                       "saas_report", "media_companion"}
        BY <3>1, OutputRuns DEF Outputs
      <4> QED BY <4>1 DEF StepInv
    <3>2. CASE SaasZip
      BY <3>2 DEF SaasZip, StepInv, Go
    <3>3. CASE InputFormat
      BY <3>3, ReportedOne DEF InputFormat, StepInv
    <3> QED BY <1>2, <3>1, <3>2, <3>3
  <2>2. ~IntactZip' /\ ~IntactPdf'
    BY <2>1 DEF IntactZip, IntactPdf
  <2> QED BY <2>1, <2>2 DEF AcceptInv
<1>3. CASE EndVerifier \/ Finish \/ Raised \/ Exit \/ UNCHANGED vars
  <2>1. line' = line /\ kind' = kind
    BY <1>3 DEF EndVerifier, Finish, Raised, Exit, vars
  <2>2. IntactZip' = IntactZip /\ IntactPdf' = IntactPdf
    BY <2>1, IntactSame
  <2>3. CASE EndVerifier
    <3>1. pc = "end" /\ checks' = checks /\ (kind \in {"fb_zip", "sealed_pdf"} => pc' = "finish") /\ pc' \in {"finish", "copy_binding", "report_binding"}
      BY <2>3 DEF EndVerifier, Go, StepInv, Verifying, OnOriginal
    <3> QED BY <2>2, <3>1 DEF AcceptInv, Fine, AnyFailed, AnyPassed, IntactZip, IntactPdf
  <2>4. CASE Finish
    <3>1. /\ pc \in {"finish", "not_verifiable"} /\ pc' = "exit" /\ checks' = checks
          /\ summary'.verdict = _finish(IF pc = "finish" THEN Null ELSE "NOT_VERIFIABLE")
      BY <2>4 DEF Finish, Go
    <3>2. IntactZip \/ IntactPdf => pc = "finish" /\ ~AnyFailed /\ AnyPassed
      BY <3>1 DEF AcceptInv, Fine
    <3>3. IntactZip \/ IntactPdf => summary'.verdict = "VERIFIED"
      BY <3>1, <3>2 DEF _finish
    <3> QED BY <2>2, <3>1, <3>2, <3>3 DEF AcceptInv, Fine, AnyFailed, AnyPassed
  <2>5. CASE Raised
    <3>1. pc = "raised" /\ pc' = "exit"
      BY <2>5 DEF Raised, Go
    <3> QED BY <2>2, <3>1 DEF AcceptInv
  <2>6. CASE Exit
    <3>1. pc = "exit" /\ pc' = "done" /\ checks' = checks /\ summary' = summary /\ exit' = exit_code
      BY <2>6 DEF Exit, Go
    <3>2. IntactZip \/ IntactPdf => exit_code = 0
      BY <3>1 DEF exit_code, AcceptInv, Fine
    <3> QED BY <2>2, <3>1, <3>2 DEF AcceptInv, Fine, AnyFailed, AnyPassed
  <2>7. CASE UNCHANGED vars
    BY <2>2, <2>7 DEF vars, AcceptInv, Fine, AnyFailed, AnyPassed
  <2> QED BY <1>3, <2>3, <2>4, <2>5, <2>6, <2>7
<1> QED BY <1>1, <1>2, <1>3, ZipAccepts, PdfAccepts DEF Next

(* No false alarm: what the app wrote, renewed as often as one likes, with   *)
(* its own media and a list that grants its TSAs, gets exit code 0.         *)
THEOREM GenuineAccepted == Spec => []IntactAccepted
<1>1. Init => AcceptInv
  BY DEF Init, AcceptInv
<1>2. ExitInv /\ AcceptInv => IntactAccepted
  BY DEF ExitInv, AcceptInv, IntactAccepted, IntactZip, IntactPdf
<1>3. StepInv /\ ExitInv /\ AcceptInv /\ [Next]_vars => AcceptInv'
  BY AcceptNext
<1> QED BY <1>1, <1>2, <1>3, StepsAlways, PTL DEF Spec
=============================================================================
