---------------------------- MODULE ForensicZip ----------------------------
(***************************************************************************)
(* A Forensic Browser ZIP package and the checks verify_fb_zip of          *)
(* forensic_browser.py makes on it.  As in EvidenceBundle a member's bytes *)
(* are those of a VERSION of a package, Sha is collision-free, Null is a   *)
(* missing member and Corrupt one zipfile cannot read.  Every check is an  *)
(* operator on a package z, since the package may also be the --original   *)
(* of a report.                                                            *)
(***************************************************************************)
EXTENDS Naturals, FiniteSets

CONSTANTS
  Versions,    \* versions of a package's contents, made by the app or by anybody
  Format,      \* Format[v]: "lite", "files", "evidence" (a SaaS package) or "other"
  FromApp,     \* versions whose proof.json has an app_version of the Forensic Browser
  Session,     \* Session[v]: session id, finish time and operator as version v states them
  Tsa,         \* Tsa[v]: who stamped the payload of version v, Null if nobody
  Binds,       \* Binds[v]: members the "files" of version v's payload list
  Declares,    \* Declares[v]: members proof.json of version v gives a *_sha256 for
  PageList,    \* PageList[v]: the indexes of its "pages"
  WithVideo,   \* versions whose proof.json says include_video
  Pinned,      \* TSAs that chain to a pinned root
  Granted,     \* Granted[l]: TSAs the Trusted List l has as granted when they stamped
  Null, Corrupt

ProofFile == "proof.json"
MetaFile == "capture/capture_meta.json"
MetaSidecar == "capture/capture_meta.sha256"
PayloadFile == "timestamp/eidas_payload.json"
PayloadSidecar == "timestamp/eidas_payload.sha256"
TsrFile == "timestamp/eidas.tsr"
TsMetaFile == "timestamp/eidas_meta.json"   \* with the other unsealed claims about the token
TslFile == "timestamp/tsl/EE.xml"
ReportFile == "report.pdf"
Screenshot == "pages/01/screenshot.png"
PageNote == "pages/01/notes.txt"            \* no package is issued with it
SecondPage == "pages/02/page.html"
FileOne == "files/01/contract.pdf"
SourceOne == "files/01/source.json"
FileTwo == "files/02/extra.pdf"
MediaFile == "media/01/video.mp4"
JunkFile == ".DS_Store"

PageOf(i) == IF i = 1 THEN {Screenshot, PageNote} ELSE {SecondPage}
PageFiles == UNION {PageOf(i) : i \in 1..2}
UnderFiles == {FileOne, SourceOne, FileTwo}
Listable == {ProofFile, MetaFile, MetaSidecar, PayloadFile, PayloadSidecar, TsrFile, TsMetaFile,
             TslFile, ReportFile, MediaFile} \cup PageFiles \cup UnderFiles
Members == Listable \cup {JunkFile}

FB_FORMATS == {"lite", "files"}
Formats == FB_FORMATS \cup {"evidence", "other"}
Sessions == {Session[v] : v \in Versions}
Tsas == {Tsa[v] : v \in Versions} \ {Null}

Listing == [of : Versions, sealed : BOOLEAN]   \* of: the version whose bytes the sha256 is of
Manifests ==
  [format : Formats, session : Sessions \cup {Null}, files : [Listable -> Listing \cup {Null}],
   payload : Versions \cup {Null}, sealed_count : Nat \cup {Null}]
Packages == [zip : [Members -> Versions \cup {Null, Corrupt}], manifest : Manifests \cup {Null}]

ASSUME PackageAssumption ==
  /\ Format \in [Versions -> Formats] /\ FromApp \subseteq Versions
  /\ Null \notin Versions /\ Corrupt \notin Versions /\ Null # Corrupt
  /\ \A v \in Versions : Session[v] # Null
  /\ Binds \in [Versions -> SUBSET Listable] /\ Declares \in [Versions -> SUBSET Listable]
  /\ PageList \in [Versions -> SUBSET (1..2)] /\ WithVideo \subseteq Versions
  /\ Null \notin Listing /\ Null \notin Manifests /\ DOMAIN Tsa = Versions

-----------------------------------------------------------------------------
(* read: None when the member is missing, damaged or too large.            *)
Data(z, p) == IF z.zip[p] = Corrupt THEN Null ELSE z.zip[p]
InZip(z, p) == z.zip[p] # Null
Entry(z, p) == z.manifest.files[p]
Listed(z) == {p \in Listable : Entry(z, p) # Null}
MarkedSealed(z) == {p \in Listed(z) : Entry(z, p).sealed}
Payload(z) == Data(z, PayloadFile)
PayloadFiles(z) == IF Payload(z) = Null THEN {} ELSE Binds[Payload(z)]

\* Mutant: the manifest alone says which format the package has.
fb_package_ManifestOnly(z) ==
  /\ z.manifest # Null /\ \A p \in {ProofFile, PayloadFile, TsrFile} : Data(z, p) # Null
  /\ z.manifest.format \in FB_FORMATS
fb_package(z) ==
  /\ z.manifest # Null
  /\ \A p \in {ProofFile, PayloadFile, TsrFile} : Data(z, p) # Null
  /\ z.manifest.format \in FB_FORMATS
  /\ Format[Payload(z)] = z.manifest.format
  /\ z.manifest.format = "files" => Format[Data(z, ProofFile)] = "files"
  /\ \A p, q \in {ProofFile, PayloadFile, MetaFile} :
       Data(z, p) # Null /\ Data(z, q) # Null => Session[Data(z, p)] = Session[Data(z, q)]
  /\ z.manifest.session \in {Null, Session[Payload(z)]}

bundle_integrity(z) ==
  /\ \A p \in Listed(z) : Data(z, p) # Null /\ Entry(z, p).of = Data(z, p)
  /\ \A p \in Listable : InZip(z, p) => p \in Listed(z)
  /\ z.manifest.sealed_count \in {Null, Cardinality(MarkedSealed(z))}
  /\ Payload(z) # Null => z.manifest.payload \in {Null, Payload(z)}

\* Mutant: what the manifest marks as sealed need not be in the payload.
sealed_binding_OneWay(z) ==
  /\ PayloadFiles(z) # {}
  /\ \A p \in PayloadFiles(z) : Data(z, p) = Payload(z) /\ p \in MarkedSealed(z)
\* Mutant: the payload's files need only be there.
sealed_binding_Unhashed(z) ==
  /\ PayloadFiles(z) # {}
  /\ \A p \in PayloadFiles(z) : Data(z, p) # Null
  /\ MarkedSealed(z) = PayloadFiles(z)
sealed_binding(z) ==
  /\ PayloadFiles(z) # {}
  /\ \A p \in PayloadFiles(z) : Data(z, p) = Payload(z) /\ p \in MarkedSealed(z)
  /\ MarkedSealed(z) \subseteq PayloadFiles(z)
  /\ Data(z, ProofFile) # Null => Session[Payload(z)] = Session[Data(z, ProofFile)]
  /\ \A pair \in {<<PayloadSidecar, PayloadFile>>, <<MetaSidecar, MetaFile>>} :
       Data(z, pair[1]) # Null /\ Data(z, pair[2]) # Null => Data(z, pair[1]) = Data(z, pair[2])

(* _check_pages and _check_files, for the proof.json in the package.       *)
pages(z) ==
  LET w == Data(z, ProofFile) IN
  /\ w # Null /\ PageList[w] # {}
  /\ MetaFile \in Declares[w] => Data(z, MetaFile) \in {Null, w}
  /\ \A p \in Declares[w] \cap PageFiles : Data(z, p) = w /\ p \in PayloadFiles(z)
  /\ \A i \in 1..2 : (\E p \in PageOf(i) : InZip(z, p)) => i \in PageList[w]
  /\ w \in WithVideo => MediaFile \in PayloadFiles(z)

\* Mutant: more files may lie under files/ than proof.json declares.
files_Loose(z) ==
  LET w == Data(z, ProofFile) IN
  /\ w # Null /\ Declares[w] \cap UnderFiles # {}
  /\ \A p \in Declares[w] \cap UnderFiles : Data(z, p) = w /\ p \in PayloadFiles(z)
files(z) ==
  LET w == Data(z, ProofFile) IN
  /\ w # Null /\ Declares[w] \cap UnderFiles # {}
  /\ Data(z, MetaFile) = w /\ {MetaFile, ProofFile} \subseteq PayloadFiles(z)
  /\ \A p \in Declares[w] \cap UnderFiles : Data(z, p) = w /\ p \in PayloadFiles(z) /\ Payload(z) = Data(z, p)
  /\ \A p \in UnderFiles : InZip(z, p) \/ p \in PayloadFiles(z) => p \in Declares[w]
items(z) == IF z.manifest.format = "files" THEN files(z) ELSE pages(z)

-----------------------------------------------------------------------------
(* The token: verify_token and token_checks with the certificates and the   *)
(* Trusted Lists of the package itself; roots are those in force.           *)
HasToken(z) == Data(z, TsrFile) # Null /\ Payload(z) # Null
SignedToken(z) == HasToken(z) /\ Tsa[Data(z, TsrFile)] # Null
timestamp_token(z) == SignedToken(z) /\ Data(z, TsrFile) = Payload(z)
tsa_trust_root(z, roots) == Tsa[Data(z, TsrFile)] \in roots
tsl_qualified(z) ==
  IF ~InZip(z, TslFile) THEN "skip"
  ELSE IF Data(z, TslFile) # Null /\ Tsa[Data(z, TsrFile)] \in Granted[Data(z, TslFile)]
       THEN "pass" ELSE "fail"
timestamp_metadata(z) == Data(z, TsMetaFile) \in {Null, Data(z, TsrFile)}
report_pdf(z) ==
  LET v == Data(z, ReportFile) IN
  v # Null => /\ Data(z, TsrFile) = v /\ Payload(z) = v
              /\ z.manifest.session \in {Null, Session[v]}

-----------------------------------------------------------------------------
(* What the package is worth, said without the checks: the payload was      *)
(* stamped, every file it lists is as it was then, and the manifest marks   *)
(* those files sealed and no others.                                        *)
PackageSealed(z, roots) ==
  \E v \in Versions :
    /\ Format[v] \in FB_FORMATS /\ Tsa[v] \in roots
    /\ z.zip[TsrFile] = v /\ z.zip[PayloadFile] = v
    /\ Binds[v] # {} /\ \A p \in Binds[v] : z.zip[p] = v
    /\ z.manifest # Null /\ z.manifest.format = Format[v]
    /\ MarkedSealed(z) = Binds[v]
    /\ Format[v] = "files" => \A p \in UnderFiles : InZip(z, p) => p \in Binds[v]

(* What the app writes for version v when it ships the members in ms.       *)
IssuedManifest(v, ms) ==
  [format |-> Format[v], session |-> Session[v], payload |-> v,
   files |-> [p \in Listable |->
                IF p \in ms THEN [of |-> v, sealed |-> p \in Binds[v]] ELSE Null],
   sealed_count |-> Cardinality(Binds[v])]
Issued(v, ms) ==
  [zip |-> [p \in Members |-> IF p \in ms THEN v ELSE Null], manifest |-> IssuedManifest(v, ms)]
Relisted(z) ==
  [z EXCEPT !.manifest.files =
     [p \in Listable |-> IF z.zip[p] \in Versions
                         THEN [of |-> z.zip[p], sealed |-> p \in MarkedSealed(z)] ELSE Null]]
=============================================================================
