--------------------------- MODULE EvidenceBundle ---------------------------
(***************************************************************************)
(* An evidence package as core.py reads it, and the checks of core.py that *)
(* compare its parts.  A package is a ZIP of members; every member's bytes *)
(* are those of one VERSION of the package: the proofs the service issued, *)
(* and versions nobody issued (an edited or a self-made package).  zip[p]  *)
(* is the version the bytes of member p come from, Null when the member is *)
(* missing, Corrupt when it is listed in the ZIP directory and cannot be   *)
(* read (zipfile raises).  Sha is SHA-256, taken to be collision-free.     *)
(***************************************************************************)
EXTENDS Naturals, FiniteSets

CONSTANTS
  Versions,      \* versions of a package's contents
  Stamped,       \* versions whose payload a TSA under a pinned root stamped
  SelfStamped,   \* versions whose payload some other TSA stamped
  KnownFormat,   \* versions whose stamped payload has a format of STAMP_FORMATS
  Assets,        \* the archive paths of PAYLOAD_FIELD_FILES
  ProofHashed,   \* those that proof.json names a *_sha256 for at its top level
  Bound,         \* Bound[v]: assets whose digest the payload of version v lists
  Ships,         \* Ships[v]: the members a package of version v contains
  CaptureMode,   \* CaptureMode[v]: what sealed_capture_mode says of v's capture_meta
  AnchoredHead,  \* versions whose own chain entry is the anchored head
  Stamps,        \* Stamps[v]: the version whose payload the token of v stamps; not v
                 \* when v's token is one of another version in a wrapping of its own
  Signer,        \* Signer[v]: the certificate that signed the token of v
  Certs,         \* Certs[v]: the certificates v's token file carries, unsigned material
  Services,      \* Services[v]: the service entries of a Trusted List of v
  BadLists,      \* versions whose Trusted List does not parse
  FactKeys,      \* source_url, final_url, captured_at
  Null, Corrupt, \* a missing member or field; an unreadable member
  Malformed      \* a manifest.files entry without sha256

MetaFile       == "capture/capture_meta.json"
ContentFile    == "content.txt"
LeafFile       == "tls/leaf_cert.pem"
TlsFile        == "network/tls.json"
ProofFile      == "proof.json"
PayloadFile    == "timestamp/eidas_payload.json"
PayloadSidecar == "timestamp/eidas_payload.sha256"
MetaSidecar    == "capture/capture_meta.sha256"
TsrFile        == "timestamp/eidas.tsr"
EidasMetaFile  == "timestamp/eidas_meta.json"
TslFile        == "timestamp/tsl/EE.xml"
OtherTslFile   == "timestamp/tsl/LV.xml"
PemFile        == "timestamp/chain.pem"
ChainFile      == "chain/proof_chain.jsonl"
HeadFile       == "chain/chain_head.json"
WitnessFile    == "chain/anchor_witness.jsonl"
AnchorFile     == "anchor/anchor_payload.json"
ReceiptFile    == "anchor/anchor_receipt.ots"
InclusionFile  == "anchor/inclusion.json"
FilesManifest  == "files_manifest.json"
RetainedFile   == "files/retained"
ReportFile     == "report.pdf"
ExtraFile      == "notes.txt"     \* no package is issued with it
JunkFile       == ".DS_Store"     \* is_os_junk

TslFiles == {TslFile, OtherTslFile}   \* timestamp/tsl/*.xml, read in this order
Helpers == {TlsFile, PayloadFile, PayloadSidecar, MetaSidecar, TsrFile, EidasMetaFile,
            PemFile, ChainFile, HeadFile, WitnessFile, AnchorFile, ReceiptFile,
            InclusionFile, FilesManifest, RetainedFile, ReportFile, ExtraFile, JunkFile}
           \cup TslFiles
Members == Assets \cup Helpers
Listable == Members \cup {ProofFile}   \* what manifest.files may name

Modes == {"file_digest", "browser", "server"}

ASSUME VersionAssumption ==
  /\ Stamped \subseteq Versions /\ SelfStamped \subseteq Versions
  /\ Stamped \cap SelfStamped = {}
  /\ KnownFormat \subseteq Versions /\ AnchoredHead \subseteq Versions
  /\ Bound \in [Versions -> SUBSET Assets]
  /\ Ships \in [Versions -> SUBSET Members]
  /\ CaptureMode \in [Versions -> Modes \cup {Null}]
(* An entry of a list: a certificate of a service, its type and its status. *)
ServiceTypes == {"TSA/QTST", "other"}
ServiceStatuses == {"granted", "withdrawn"}
ASSUME TokenAssumption ==
  /\ Stamps \in [Versions -> Versions]
  /\ DOMAIN Signer = Versions /\ DOMAIN Certs = Versions /\ BadLists \subseteq Versions
  /\ \A v \in Versions : \A s \in Services[v] :
       s.type \in ServiceTypes /\ s.status \in ServiceStatuses
ASSUME PathAssumption ==
  /\ {MetaFile, ContentFile, LeafFile} \subseteq Assets
  /\ ProofHashed \subseteq Assets /\ MetaFile \notin ProofHashed
  /\ Assets \cap (Helpers \cup {ProofFile}) = {}

Sha(path, bytes) == <<path, bytes>>
Digests(path) == {Sha(path, v) : v \in Versions}

-----------------------------------------------------------------------------
VARIABLES
  zip,        \* [Members -> Versions \cup {Null, Corrupt}]
  proof,      \* proof.json: a record, Null or Corrupt
  manifest    \* manifest.json: a record, Null or Corrupt

bundle == <<zip, proof, manifest>>

ProofDocs ==
  [proof_id : Versions \cup {Null},
   facts    : [FactKeys -> Versions \cup {Null}],
   hashes   : [Assets -> (Assets \X Versions) \cup {Null}],
   mode     : Modes \cup {Null},
   source   : {"browser_extension", "service", Null},
   meta     : Versions \cup {Null},                       \* capture.meta
   meta_sha256    : Digests(MetaFile) \cup {Null},        \* capture.meta_sha256
   eidas          : BOOLEAN,            \* eidas.status/present or status.eidas_ok
   payload_sha256 : Digests(PayloadFile) \cup {Null}]     \* eidas.payload_sha256

FileEntries == (Members \X Versions) \cup ({ProofFile} \X ProofDocs)   \* path and sha256
ManifestDocs ==
  [proof_id  : Versions \cup {Null},
   format_ok : BOOLEAN,                 \* "format" is absent or one of SUPPORTED_FORMATS
   files     : [Listable -> FileEntries \cup {Null, Malformed}],
   eidas     : BOOLEAN,                 \* eidas.present
   anchor    : BOOLEAN,                 \* an "anchor" object
   anchor_sha256 : Digests(AnchorFile) \cup {Null},
   ots       : BOOLEAN]

(* The marks are none of the values they stand beside.                     *)
ASSUME MarkAssumption ==
  /\ Null # Corrupt /\ Null # Malformed
  /\ Null \notin Versions /\ Corrupt \notin Versions
  /\ Null \notin Modes
  /\ Null \notin FileEntries /\ Malformed \notin FileEntries
  /\ Null \notin ProofDocs /\ Corrupt \notin ProofDocs
  /\ Null \notin ManifestDocs /\ Corrupt \notin ManifestDocs

(* What the service writes for version v. *)
IssuedProof(v) ==
  [proof_id |-> v,
   facts    |-> [k \in FactKeys |-> v],
   hashes   |-> [a \in Assets |-> IF a \in Bound[v] THEN Sha(a, v) ELSE Null],
   mode     |-> CaptureMode[v],
   source   |-> IF CaptureMode[v] = "browser" THEN "browser_extension" ELSE "service",
   meta     |-> v,
   meta_sha256    |-> Sha(MetaFile, v),
   eidas          |-> TsrFile \in Ships[v],
   payload_sha256 |-> Sha(PayloadFile, v)]

IssuedZip(v) == [p \in Members |-> IF p \in Ships[v] THEN v ELSE Null]

(* manifest.json recomputed over what the package now holds. *)
ListingOf(z, pr) ==
  [p \in Listable |->
     IF p = ProofFile THEN (IF pr = Null THEN Null ELSE Sha(ProofFile, pr))
     ELSE IF z[p] \in Versions THEN Sha(p, z[p]) ELSE Null]

IssuedManifest(v) ==
  [proof_id  |-> v,
   format_ok |-> TRUE,
   files     |-> ListingOf(IssuedZip(v), IssuedProof(v)),
   eidas     |-> TsrFile \in Ships[v],
   anchor    |-> AnchorFile \in Ships[v],
   anchor_sha256 |-> IF AnchorFile \in Ships[v] THEN Sha(AnchorFile, v) ELSE Null,
   ots       |-> ReceiptFile \in Ships[v]]

BytesAt(p) == IF p = ProofFile THEN proof ELSE zip[p]
Present(p) == BytesAt(p) # Null
Listed == {p \in Listable : manifest.files[p] # Null}
Tokens == Stamped \cup SelfStamped       \* versions that were stamped
(* The version whose payload the package's token stamps.                   *)
StampOf(v) == IF v \in Versions THEN Stamps[v] ELSE v
Token == StampOf(zip[TsrFile])

-----------------------------------------------------------------------------
(* Each check: the members it reads (a Corrupt one makes it raise) and the *)
(* status it reports, in the order of verify_evidence_zip.                 *)

IntegrityReads ==
  IF ~manifest.format_ok THEN {}
  ELSE {p \in Listed : manifest.files[p] # Malformed /\ Present(p)}
check_bundle_integrity ==
  IF /\ Listed # {}
     /\ manifest.format_ok
     /\ \A p \in Listed : Present(p) /\ manifest.files[p] = Sha(p, BytesAt(p))
  THEN "pass" ELSE "fail"

(* _check_sha_match: a declared digest needs the member, with those bytes. *)
ShaMatch(p, digest) == digest # Null => zip[p] # Null /\ Sha(p, zip[p]) = digest
PayloadFields == IF zip[PayloadFile] \in Versions THEN Bound[zip[PayloadFile]] ELSE {}

CrossReads ==
  IF proof = Null THEN {}
  ELSE {p \in ProofHashed : proof.hashes[p] # Null}
       \cup {MetaSidecar, PayloadSidecar, PayloadFile} \cup PayloadFields
       \cup (IF proof.meta_sha256 # Null \/ proof.meta # Null \/ zip[MetaSidecar] # Null
             THEN {MetaFile} ELSE {})
check_cross_references ==
  IF /\ proof # Null
     /\ \A a \in ProofHashed : ShaMatch(a, proof.hashes[a])
     /\ ShaMatch(MetaFile, proof.meta_sha256)
     /\ zip[MetaSidecar] # Null /\ zip[MetaFile] # Null => zip[MetaSidecar] = zip[MetaFile]
     /\ proof.meta # Null /\ zip[MetaFile] # Null => proof.meta = zip[MetaFile]
     /\ zip[PayloadSidecar] # Null /\ zip[PayloadFile] # Null =>
          /\ zip[PayloadSidecar] = zip[PayloadFile]
          /\ proof.payload_sha256 \in {Null, Sha(PayloadFile, zip[PayloadSidecar])}
     /\ \A a \in PayloadFields : ShaMatch(a, Sha(a, zip[PayloadFile]))
  THEN "pass" ELSE "fail"

ChainReads == {ChainFile, HeadFile}
check_chain_integrity ==
  IF zip[ChainFile] # Null /\ zip[HeadFile] \in {Null, zip[ChainFile]} THEN "pass" ELSE "fail"

TokenMissing == zip[TsrFile] = Null \/ zip[PayloadFile] = Null
DeclaredInDocs == (proof # Null /\ proof.eidas) \/ manifest.eidas
DeclaresEidas ==
  \/ DeclaredInDocs
  \/ zip[EidasMetaFile] \in Tokens
  \/ manifest.files[TsrFile] # Null
EidasReads ==
  {TsrFile, PayloadFile} \cup (IF TokenMissing /\ ~DeclaredInDocs THEN {EidasMetaFile} ELSE {})
(* The token is over this payload and ships the certificate its signature   *)
(* verifies with, the one its SignerInfo names.                             *)
TokenVerifies ==
  /\ Token \in Tokens /\ zip[PayloadFile] = Token
  /\ Signer[Token] \in Certs[zip[TsrFile]]
\* Mutant: a declared timestamp without its token is skipped.
check_eidas_signature_SkipsMissing ==
  IF TokenMissing THEN "skip"
  ELSE IF TokenVerifies THEN "pass" ELSE "fail"
check_eidas_signature ==
  IF TokenMissing THEN (IF DeclaresEidas THEN "fail" ELSE "skip")
  ELSE IF TokenVerifies THEN "pass" ELSE "fail"

(* _token_cert_der_chain: every certificate of the token, whoever put it in. *)
TokenCerts == IF Token \in Tokens THEN Certs[zip[TsrFile]] ELSE {}
TrustedLists == {f \in TslFiles : zip[f] # Null}
\* Mutant: the status of the service is not looked at.
QualifiedTsaCerts_AnyStatus(list) == {s.cert : s \in {t \in Services[list] : t.type = "TSA/QTST"}}
QualifiedTsaCerts(list) ==
  {s.cert : s \in {t \in Services[list] : t.type = "TSA/QTST" /\ t.status = "granted"}}

(* A list that does not parse ends the check, before the next one is read.  *)
TslReads ==
  {TsrFile} \cup (IF TokenCerts = {} THEN {}
                ELSE IF zip[TslFile] \in BadLists THEN {TslFile} ELSE TslFiles)
(* Any certificate of the token in any list: the signer's own is only tried *)
(* first, for the wording of the result.                                    *)
check_tsl_qualified ==
  IF zip[TsrFile] = Null \/ TrustedLists = {} THEN "skip"
  ELSE IF /\ \A f \in TrustedLists : zip[f] \notin BadLists
          /\ \E f \in TrustedLists : TokenCerts \cap QualifiedTsaCerts(zip[f]) # {}
       THEN "pass" ELSE "fail"

AnchorReads == IF manifest.anchor THEN {AnchorFile} ELSE {}
check_anchor_canonical_hash ==
  IF ~manifest.anchor THEN "skip"
  ELSE IF zip[AnchorFile] # Null /\
          manifest.anchor_sha256 \in {Null, Sha(AnchorFile, zip[AnchorFile])}
       THEN "pass" ELSE "fail"

(* node: what the operator's Bitcoin node says of the receipt ("off" without *)
(* --bitcoin-rpc); only a contradicted attestation fails the check.          *)
NodeAnswers == {"off", "confirms", "rejects", "no_attestation"}
check_ots_receipt(node) ==
  IF zip[ReceiptFile] = Null THEN (IF manifest.ots THEN "fail" ELSE "skip")
  ELSE IF /\ manifest.anchor_sha256 \in {Null, Sha(AnchorFile, zip[ReceiptFile])}
          /\ node # "rejects"
       THEN "pass" ELSE "fail"

ProofMode == IF proof = Null THEN Null ELSE proof.mode
FileDigestReads ==
  {FilesManifest} \cup
  IF zip[FilesManifest] \notin Versions THEN {}
  ELSE {MetaFile, ContentFile} \cup (Ships[zip[FilesManifest]] \cap {RetainedFile})
check_file_digest ==
  IF zip[FilesManifest] = Null
  THEN (IF ProofMode = "file_digest" THEN "fail" ELSE "skip")
  ELSE IF /\ zip[MetaFile] = zip[FilesManifest]
          /\ zip[ContentFile] \in {Null, zip[FilesManifest]}
          /\ RetainedFile \in Ships[zip[FilesManifest]] => zip[RetainedFile] = zip[FilesManifest]
       THEN "pass" ELSE "fail"

WitnessReads ==
  {HeadFile, AnchorFile} \cup
  IF \/ Null \in {zip[HeadFile], zip[AnchorFile]}
     \/ zip[HeadFile] = zip[AnchorFile] /\ zip[HeadFile] \in AnchoredHead
  THEN {} ELSE {WitnessFile}
check_anchor_witness ==
  LET head == zip[HeadFile]  anchor == zip[AnchorFile] IN
  IF head = Null \/ anchor = Null THEN "skip"
  ELSE IF head = anchor /\ head \in AnchoredHead THEN "info"
  ELSE IF zip[WitnessFile] = Null THEN "skip"
  ELSE IF zip[WitnessFile] = head /\ head = anchor THEN "info" ELSE "fail"

TlsReads == {TlsFile, LeafFile}
check_tls_evidence ==
  IF zip[TlsFile] = Null \/ zip[LeafFile] = Null THEN "skip"
  ELSE IF zip[TlsFile] = zip[LeafFile] THEN "pass" ELSE "fail"

(* eidas: the status of eidas_signature in this report.                    *)
(* Nothing raises out of this check: an unreadable member is a failure.     *)
check_anchor_inclusion(eidas, node) ==
  LET inc == zip[InclusionFile] IN
  IF inc = Null THEN "skip"
  ELSE IF \/ inc # manifest.proof_id
          \/ zip[PayloadFile] # inc
          \/ zip[AnchorFile] # inc
          \/ zip[ReceiptFile] # inc
          \/ node = "rejects"
       THEN "fail"
  ELSE IF eidas = "pass" THEN "pass" ELSE "skip"

TrustReads == {TsrFile} \cup IF zip[TsrFile] = Null THEN {} ELSE {PemFile}
\* Mutant: whatever root the token's own chain ends at.
check_tsa_trust_root_AnyRoot(roots) == IF zip[TsrFile] = Null THEN {"skip"} ELSE {"pass"}
(* The chain is built greedily over the token's certificates and the .pem  *)
(* members: those of another TSA may divert it away from the pinned root,  *)
(* so either outcome; a token without its signer's certificate may find it *)
(* among the .pem members.                                                  *)
check_tsa_trust_root(userRoots) ==
  IF zip[TsrFile] = Null THEN {"skip"}
  ELSE IF Token \notin Tokens THEN {"fail"}
  ELSE IF Token \in Stamped
       THEN (IF zip[TsrFile] = Token /\ zip[PemFile] \in Stamped \cup {Null} THEN {"pass"}
             ELSE {"pass", "fail"})
  ELSE IF userRoots THEN {"pass", "fail"} ELSE {"fail"}

Unlisted == {p \in Listable : Present(p) /\ p \notin Listed}
\* Mutant: operating-system junk counts as unlisted.
check_unlisted_files_Strict == IF Unlisted = {} THEN "pass" ELSE "fail"
\* Mutant: only missing members are looked for, never extra ones.
check_unlisted_files_Blind == IF Unlisted \subseteq Listable THEN "pass" ELSE "fail"
check_unlisted_files == IF Unlisted \subseteq {JunkFile} THEN "pass" ELSE "fail"

(* The facts the verified payload seals, of version zip[PayloadFile].      *)
\* Mutant: what the payload names is taken as sealed, its bytes not compared.
SealedAssets_Named == {a \in PayloadFields : zip[a] # Null}
SealedAssets == {a \in PayloadFields : zip[a] = zip[PayloadFile]}
MetaSealed == MetaFile \in SealedAssets
DerivedFiles == {p \in {TlsFile} : MetaSealed /\ zip[p] = zip[MetaFile]}
PayloadIdentityProblem ==
  LET v == zip[PayloadFile] IN
  \/ manifest.proof_id \notin {Null, v}
  \/ /\ proof # Null
     /\ \/ proof.proof_id \notin {Null, v}
        \/ \E k \in FactKeys : proof.facts[k] \notin {Null, v}
        \/ \E a \in Bound[v] : proof.hashes[a] \notin {Null, Sha(a, v)}
CaptureModeProblem ==
  LET mode == CaptureMode[zip[MetaFile]] IN
  /\ mode # Null /\ proof # Null
  /\ \/ proof.mode \notin {Null, mode}
     \/ proof.source # Null /\ (proof.source = "browser_extension") # (mode = "browser")
NetworkDerivativeProblem == zip[TlsFile] \notin {Null, zip[MetaFile]}
IdentityReads(eidas) ==
  IF eidas # "pass" THEN {}
  ELSE {PayloadFile} \cup
       IF zip[PayloadFile] \notin KnownFormat THEN {} ELSE PayloadFields
       \cup (IF ProofMode # "file_digest" THEN {MetaFile} ELSE {})
       \cup (IF MetaSealed THEN {TlsFile} ELSE {})
check_sealed_identity(eidas) ==
  IF eidas # "pass" THEN "skip"
  ELSE IF /\ zip[PayloadFile] \in KnownFormat
          /\ ~PayloadIdentityProblem
          /\ MetaSealed => ~CaptureModeProblem /\ ~NetworkDerivativeProblem
       THEN "pass" ELSE "fail"
SealedFiles == SealedAssets \cup DerivedFiles \cup {TsrFile, PayloadFile}
=============================================================================
