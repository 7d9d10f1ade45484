---------------------------- MODULE MCEvidenceZip ----------------------------
(***************************************************************************)
(* Two issued proofs, p1 with a qualified timestamp and an anchor and p2   *)
(* with a timestamp only; q, issued without a timestamp; x, an edited      *)
(* version stamped by a TSA outside the pinned roots, with a list that     *)
(* names it; and r, p1's token with a certificate of x's TSA added in the  *)
(* place of its issuer's, beside a list that does not parse.                *)
(***************************************************************************)
EXTENDS EvidenceZip

CONSTANTS p1, p2, q, x, r

MCAssets == {MetaFile, ContentFile, LeafFile}
MCProofHashed == {ContentFile}
MCBound == [v \in Versions |-> IF v = p2 THEN {MetaFile, ContentFile} ELSE MCAssets]
Core == {MetaFile, ContentFile, LeafFile, TlsFile, PayloadFile, PayloadSidecar, MetaSidecar,
         ChainFile, HeadFile, ReportFile}
Anchoring == {WitnessFile, AnchorFile, ReceiptFile, InclusionFile}
Timestamp == {TsrFile, EidasMetaFile, TslFile, PemFile}
MCShips == [v \in Versions |->
  CASE v = q -> Core \cup {AnchorFile, ReceiptFile, WitnessFile}
    [] v = p2 -> (Core \cup Timestamp \cup {FilesManifest, RetainedFile})
    [] v = r -> {TsrFile} \cup TslFiles
    [] v = x -> Core \cup Timestamp \cup Anchoring \cup TslFiles
    [] OTHER -> Core \cup Timestamp \cup Anchoring]
MCCaptureMode == [v \in Versions |->
  CASE v = p2 -> "file_digest" [] v = x -> "browser" [] OTHER -> "server"]
(* The TSU of p1 was replaced by that of p2: p2's list withdraws the old one. *)
MCStamps == [v \in Versions |-> IF v = r THEN p1 ELSE v]
MCSigner == [v \in Versions |->
  CASE v = p2 -> "tsu 2" [] v = x -> "own tsu" [] OTHER -> "tsu 1"]
MCCerts == [v \in Versions |->
  IF v = r THEN {"tsu 1", "own tsu"} ELSE {MCSigner[v]} \cup (IF v = x THEN {} ELSE {"ca"})]
Entry(cert, type, status) == [cert |-> cert, type |-> type, status |-> status]
MCServices == [v \in Versions |->
  CASE v = p2 -> {Entry("tsu 1", "TSA/QTST", "withdrawn"), Entry("tsu 2", "TSA/QTST", "granted")}
    [] v = x -> {Entry("own tsu", "TSA/QTST", "granted"), Entry("ca", "other", "granted")}
    [] v = r -> {}
    [] OTHER -> {Entry("tsu 1", "TSA/QTST", "granted")}]
OneMember == {{p} : p \in Members}
SealGroups == {{TsrFile}, {PayloadFile, PayloadSidecar}, {MetaFile, MetaSidecar, TlsFile},
               {ContentFile}, {TsrFile, PayloadFile, PayloadSidecar, MetaFile, MetaSidecar, TlsFile,
                               ContentFile, LeafFile, AnchorFile, ReceiptFile, InclusionFile},
               {ExtraFile}, {TslFile}, {OtherTslFile}}
WitnessOnly == {{WitnessFile}}
AllOptions == NodeAnswers \X BOOLEAN
PlainOptions == {<<"off", FALSE>>, <<"off", TRUE>>}
=============================================================================
