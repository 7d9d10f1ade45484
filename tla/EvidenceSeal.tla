---------------------------- MODULE EvidenceSeal ----------------------------
(***************************************************************************)
(* What a package deserves, said without the checks of core.py: which      *)
(* version sealed it, whether it is complete, whether anything was changed.*)
(***************************************************************************)
EXTENDS EvidenceBundle

(* A seal counts when its TSA is pinned, or when the operator supplied it. *)
TrustedVersions(userRoots) == Stamped \cup (IF userRoots THEN SelfStamped ELSE {})

Readable(doc) == doc \notin {Null, Corrupt}

(* proof.json and manifest.json contradict nothing version v sealed.       *)
AgreesWith(v) ==
  /\ Readable(proof) /\ Readable(manifest)
  /\ manifest.proof_id \in {Null, v}
  /\ proof.proof_id \in {Null, v}
  /\ \A k \in FactKeys : proof.facts[k] \in {Null, v}
  /\ \A a \in Bound[v] : proof.hashes[a] \in {Null, Sha(a, v)}
  /\ MetaFile \in Bound[v] /\ CaptureMode[v] # Null => proof.mode \in {Null, CaptureMode[v]}

(* Every byte the timestamp of v covers is in the package as it was sealed. *)
SealedBy(v) ==
  /\ Token = v /\ zip[PayloadFile] = v
  /\ \A a \in Bound[v] : zip[a] = v
  /\ MetaFile \in Bound[v] => zip[TlsFile] \in {Null, v}
  /\ AgreesWith(v)

(* The package holds what manifest.json lists, and nothing else but OS junk. *)
MatchesManifest ==
  /\ Readable(manifest)
  /\ \A p \in Listable :
       IF p \in Listed THEN Present(p) /\ manifest.files[p] = Sha(p, BytesAt(p))
       ELSE Present(p) => p = JunkFile

(* Versions whose package is complete as made: the chain is there, what    *)
(* the payload binds is shipped, and a token comes from a pinned TSA.      *)
Complete(v) ==
  /\ {ChainFile, MetaFile, ContentFile} \subseteq Ships[v]
  /\ Bound[v] \subseteq Ships[v]
  /\ {ExtraFile, JunkFile} \cap Ships[v] = {}
  /\ TsrFile \in Ships[v] =>
       /\ v \in Stamped /\ v \in KnownFormat /\ PayloadFile \in Ships[v]
       /\ Stamps[v] = v /\ Signer[v] \in Certs[v]
       /\ TslFiles \cap Ships[v] # {} =>
            v \notin BadLists /\ Certs[v] \cap QualifiedTsaCerts(v) # {}
  /\ EidasMetaFile \in Ships[v] => TsrFile \in Ships[v]
  /\ (FilesManifest \in Ships[v]) <=> (CaptureMode[v] = "file_digest")
  /\ InclusionFile \in Ships[v] => {PayloadFile, AnchorFile, ReceiptFile} \subseteq Ships[v]
  /\ {HeadFile, AnchorFile} \subseteq Ships[v] => v \in AnchoredHead \/ WitnessFile \in Ships[v]
  /\ ReceiptFile \in Ships[v] => AnchorFile \in Ships[v]

(* Nothing of version v's package was changed, but for metadata an         *)
(* operating system adds.                                                  *)
Unchanged(v) ==
  /\ proof = IssuedProof(v) /\ manifest = IssuedManifest(v)
  /\ \A p \in Members \ {JunkFile} : zip[p] = IssuedZip(v)[p]
=============================================================================
