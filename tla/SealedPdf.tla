----------------------------- MODULE SealedPdf -----------------------------
(***************************************************************************)
(* A PDF with signatures, attachments and later revisions, and the checks   *)
(* verify_sealed_pdf of forensic_browser.py makes on it.  A PDF is a        *)
(* sequence of revisions, each appended to the bytes before it.  The body   *)
(* of a document, and the bytes of whatever is attached to it, are those of *)
(* a version of ForensicZip; what an attachment is called is up to whoever  *)
(* attached it.  What may follow the seal is the subject of PostSeal; here  *)
(* each revision either is such a change or is not.                         *)
(***************************************************************************)
EXTENDS ForensicZip, Sequences

CONSTANTS
  Embeds,      \* Embeds[v]: the attachments of a document of version v
  Lists,       \* Lists[v]: what the "files" of its embedded manifest.json list
  External,    \* External[v]: its "external_files", media in a companion archive
  Cites,       \* Cites[v]: attachments the document's text prints the SHA-256 of
  Twin,        \* Twin[v][p]: the same file for all paths of v with the same bytes as p
  Order,       \* Order[v]: the rank of each path in the "files" of v's manifest.json
  Suffixed,    \* paths the app names an attachment after with ".txt" appended
  Garbled      \* <<p, v>>: files with an object that makes list_attachments raise

ManifestFile == "manifest.json"
Attachable == Listable \cup {ManifestFile}
MediaPaths == {MediaFile, "media/02/audio.mp3"}

ASSUME DocumentAssumption ==
  /\ Embeds \in [Versions -> SUBSET Attachable] /\ Lists \in [Versions -> SUBSET Listable]
  /\ External \in [Versions -> SUBSET MediaPaths] /\ Cites \in [Versions -> SUBSET Listable]
  /\ Twin \in [Versions -> [Attachable -> Attachable]] /\ Order \in [Versions -> [Listable -> Nat]]
  /\ \A v \in Versions, p, q \in Listable : Order[v][p] = Order[v][q] => p = q
  /\ Suffixed \subseteq Listable \ {ProofFile} /\ Garbled \subseteq Attachable \X Versions

(* Sha: equal for equal bytes, which two paths of one version may have.     *)
Digest(p, v) == <<Twin[v][p], v>>
DigestOf(a) == Digest(a.p, a.v)

(* What an attachment is called.  name, file and desc: the path its name and *)
(* its filename spell with "_" for "/", and the one its description is or    *)
(* begins with; Null for none.  ext: the name goes on with "." after that.   *)
(* front: the name tree has it before those that are not.                   *)
Labels ==
  [name : Attachable \cup {Null}, ext : BOOLEAN, file : Attachable \cup {Null}, desc : Attachable \cup {Null},
   front : BOOLEAN]
Label(p) ==
  [name |-> p, ext |-> p \in Suffixed, file |-> IF p \in Suffixed THEN Null ELSE p, desc |-> p, front |-> FALSE]

(* A revision.  "body": the document itself, with attachments labelled as    *)
(* the app labels them; "attach": a file p added under some label; "dss":   *)
(* validation data; "edit": anything else; "sign": a signature dictionary.   *)
(* signed is what the token's imprint is of: the revisions before the        *)
(* signature, when it is genuine.                                            *)
Body(v) == [kind |-> "body", v |-> v]
AttachAs(p, v, as) == [kind |-> "attach", p |-> p, v |-> v, as |-> as]
Attach(p, v) == AttachAs(p, v, Label(p))
Dss == [kind |-> "dss"]
Edit == [kind |-> "edit"]
Sign(doc_ts, in_acroform, token, signed) ==
  [kind |-> "sign", is_doc_ts |-> doc_ts, in_acroform |-> in_acroform, token |-> token, signed |-> signed]
(* token: the TSA, Null when /Contents holds none, "broken" when the gap is  *)
(* not exactly the hex string of /Contents.                                  *)
Stamp(doc, tsa) == Append(doc, Sign(TRUE, TRUE, tsa, doc))

-----------------------------------------------------------------------------
(* _find_signatures: by the end of the signed range, that is in file order. *)
Signatures(d) == {i \in 1..Len(d) : d[i].kind = "sign"}
(* _check_byterange and AcroForm membership.                                *)
pades_signature(d, i) == d[i].in_acroform /\ d[i].token # "broken"
HasTok(d, i) == d[i].is_doc_ts /\ d[i].token # "broken"
\* Mutant: the imprint is compared with what the token itself names.
Imprint_Any(d, i) == d[i].signed = d[i].signed
Imprint(d, i) == d[i].signed = SubSeq(d, 1, i - 1)
TokenOk(d, i) == d[i].token # Null /\ Imprint(d, i)
ListStatus(d, i, list) ==
  IF d[i].token = Null \/ list = Null THEN "skip"
  ELSE IF d[i].token \in Granted[list] THEN "pass" ELSE "fail"

(* primary: the first document time-stamp with a token at all.              *)
\* Mutant: the last one.
Primary_Last(d) == CHOOSE i \in Signatures(d) : HasTok(d, i) /\ \A j \in Signatures(d) : HasTok(d, j) => j <= i
Primary(d) == CHOOSE i \in Signatures(d) : HasTok(d, i) /\ \A j \in Signatures(d) : HasTok(d, j) => i <= j
HasPrimary(d) == \E i \in Signatures(d) : HasTok(d, i)

(* _analyze_post_seal, by its outcome: module PostSeal has the detail.      *)
\* Mutant: a sealed document may not be renewed.
AllowedAfterSeal_DssOnly(r) == r.kind = "dss"
AllowedAfterSeal(r) == r.kind = "dss" \/ (r.kind = "sign" /\ r.is_doc_ts /\ r.in_acroform)
post_seal_changes(d) == \A i \in (Primary(d) + 1)..Len(d) : AllowedAfterSeal(d[i])

-----------------------------------------------------------------------------
(* list_attachments: what it is, what it is called and the revision it lies in. *)
Attachments(d) ==
  UNION {IF d[i].kind = "body" THEN {[p |-> p, v |-> d[i].v, as |-> Label(p), at |-> i] : p \in Embeds[d[i].v]}
         ELSE IF d[i].kind = "attach" THEN {[p |-> d[i].p, v |-> d[i].v, as |-> d[i].as, at |-> i]} ELSE {} :
         i \in 1..Len(d)}
Before(a, b) == IF a.as.front = b.as.front THEN a.at <= b.at ELSE a.as.front
First(S) == CHOOSE a \in S : \A b \in S : Before(a, b)

(* The embedded manifest.json and proof.json go by their names: the version *)
(* of it, Null when there is none or it is not one.                         *)
Named(d, n) == {a \in Attachments(d) : a.as.name = n /\ ~a.as.ext}
manifest_att(d) == First(Named(d, ManifestFile))
Is(a, p) == DigestOf(a) = Digest(p, a.v)
VersionOf(d, n) == IF Named(d, n) # {} /\ Is(First(Named(d, n)), n) THEN First(Named(d, n)).v ELSE Null
Manifest(d) == VersionOf(d, ManifestFile)
Proof(d) == VersionOf(d, ProofFile)

(* _match_attachment: a listed path is the first attachment described by it, *)
(* else the first named so, else the first whose name continues it.         *)
Described(path, atts) == {a \in atts : a.as.desc = path}
Spelled(path, atts) == {a \in atts : (a.as.name = path /\ ~a.as.ext) \/ a.as.file = path}
Continued(path, atts) == {a \in atts : a.as.name = path /\ a.as.ext}
Candidates(path, atts) ==
  IF Described(path, atts) # {} THEN Described(path, atts)
  ELSE IF Spelled(path, atts) # {} THEN Spelled(path, atts) ELSE Continued(path, atts)
_match_attachment(path, atts) == First(Candidates(path, atts))
MatchesListed(m, p, atts) ==
  Candidates(p, atts) # {} /\ DigestOf(_match_attachment(p, atts)) = Digest(p, m)
WithinSealedRange(d, a) == a.at < Primary(d)

\* Mutant: attachments the manifest does not list are let through.
attachments_Unlisted(d) ==
  LET m == Manifest(d)  atts == Attachments(d) IN
  IF atts = {} THEN "skip"
  ELSE IF /\ \A a \in atts : WithinSealedRange(d, a)
          /\ m # Null => \A p \in Lists[m] : MatchesListed(m, p, atts)
       THEN "pass" ELSE "fail"
attachments(d) ==
  LET m == Manifest(d)  atts == Attachments(d) IN
  IF atts = {} THEN "skip"
  ELSE IF /\ \A a \in atts : WithinSealedRange(d, a)
          /\ m # Null =>
               /\ \A p \in Lists[m] : MatchesListed(m, p, atts)
               /\ atts \subseteq {manifest_att(d)} \cup {_match_attachment(p, atts) : p \in Lists[m]}
       THEN "pass" ELSE "fail"

(* _check_external_media: media is the companion archive, Null if not given, *)
(* else which version's bytes it has at each path.                          *)
ExternalOf(d) == IF Manifest(d) = Null THEN {} ELSE External[Manifest(d)]
external_media(d, media) ==
  IF media = Null THEN "skip"
  ELSE IF \A p \in ExternalOf(d) : media[p] = Manifest(d) THEN "pass" ELSE "fail"

(* is_fb_manifest: the formats of this app, unless the manifest is that of a *)
(* SaaS package; any other manifest goes by the proof's app_version.        *)
is_fb_manifest(format, w) ==
  \/ format \in FB_FORMATS
  \/ format # "evidence" /\ w # Null /\ w \in FromApp
IsFb(d) == is_fb_manifest(IF Manifest(d) = Null THEN Null ELSE Format[Manifest(d)], Proof(d))

(* _check_pdf_evidence and _check_files_pdf: proof.json against what is      *)
(* attached under the manifest's paths, and the text of the document.       *)
BodyOf(d) == d[1].v
SaysSession(d) == Session[BodyOf(d)] = Session[Proof(d)]
(* by_path: an attachment that two listed paths matched is kept under the   *)
(* later one alone.  One attachment, or none.                               *)
KeptUnder(m, p, atts) ==
  {a \in Candidates(p, atts) :
     /\ p \in Lists[m] /\ a = _match_attachment(p, atts)
     /\ \A q \in Lists[m] : Order[m][q] > Order[m][p] /\ Candidates(q, atts) # {} => a # _match_attachment(q, atts)}
by_path(d, p) == UNION {KeptUnder(m, p, Attachments(d)) : m \in {Manifest(d)} \ {Null}}
IsOfProof(d, a, p) == DigestOf(a) = Digest(p, Proof(d))
FilesKind(d) ==
  Format[Proof(d)] = "files" \/ (Manifest(d) # Null /\ Format[Manifest(d)] = "files")
pages_evidence(d) ==
  /\ \A a \in by_path(d, MetaFile) :
       /\ MetaFile \in Declares[Proof(d)] => IsOfProof(d, a, MetaFile)
       /\ Is(a, MetaFile) => Session[a.v] = Session[Proof(d)]
       /\ \A b \in by_path(d, MetaSidecar) : Is(b, MetaSidecar) /\ DigestOf(a) = Digest(MetaFile, b.v)
  /\ \A p \in Declares[Proof(d)] \cap PageFiles :
       by_path(d, p) # {} /\ \A a \in by_path(d, p) : IsOfProof(d, a, p)
files_evidence(d) ==
  /\ Manifest(d) # Null /\ Format[Manifest(d)] = "files" /\ Format[Proof(d)] = "files"
  /\ Declares[Proof(d)] \cap UnderFiles # {}
  /\ \A p \in {MetaFile} \cup (Declares[Proof(d)] \cap UnderFiles) :
       by_path(d, p) # {} /\ \A a \in by_path(d, p) : IsOfProof(d, a, p)
  /\ \A p \in UnderFiles : by_path(d, p) # {} => p \in Declares[Proof(d)]
evidence_consistency(d) ==
  /\ Proof(d) # Null
  /\ Manifest(d) # Null => Session[Manifest(d)] = Session[Proof(d)]
  /\ IF FilesKind(d) THEN files_evidence(d) ELSE pages_evidence(d)
  /\ SaysSession(d)
  /\ \A p \in Cites[BodyOf(d)] :
       \/ \E a \in Attachments(d) : DigestOf(a) = Digest(p, BodyOf(d))
       \/ ~FilesKind(d) /\ p \in ExternalOf(d) /\ Manifest(d) = BodyOf(d)

-----------------------------------------------------------------------------
(* What a document is worth, said without the checks: its first document     *)
(* time-stamp is by a TSA in roots, over exactly the bytes before it, and    *)
(* nothing but validation data and further such time-stamps follow it.       *)
StampedBy(d, i, roots) == d[i].kind = "sign" /\ d[i].token \in roots /\ d[i].signed = SubSeq(d, 1, i - 1)
DocumentSealed(d, roots) ==
  \E i \in Signatures(d) :
    /\ StampedBy(d, i, roots) /\ \A j \in Signatures(d) : j < i => ~d[j].is_doc_ts
    /\ \A j \in (i + 1)..Len(d) : d[j].kind = "dss" \/ StampedBy(d, j, roots)
=============================================================================
