------------------------------ MODULE MCRoutes ------------------------------
(***************************************************************************)
(* a, a page capture with a video, and b, a files proof, are issued and    *)
(* stamped; s has another format; e is made with the id and times of a and  *)
(* stamped by a TSA outside the pinned roots; x is like a, not stamped, and *)
(* documents of x leave it to others to attach two listed paths of the same *)
(* bytes, under whatever names.                                             *)
(***************************************************************************)
EXTENDS Routes

CONSTANTS a, b, s, e, x, q, r, rogue, idA, idB, idS

MCFormat == [v \in Versions |-> CASE v = b -> "files" [] v = s -> "evidence" [] OTHER -> "lite"]
MCFromApp == {a, b, e}
MCSession == [v \in Versions |-> CASE v = b -> idB [] v = s -> idS [] OTHER -> idA]
MCTsa == [v \in Versions |-> CASE v = x -> Null [] v = e -> rogue [] OTHER -> q]
Paged == {ProofFile, MetaFile, Screenshot, MediaFile}
Filed == {ProofFile, MetaFile, FileOne, SourceOne}
MCBinds == [v \in Versions |-> CASE v = b -> Filed [] v = s -> {ProofFile} [] OTHER -> Paged]
MCDeclares == [v \in Versions |-> CASE v = b -> {MetaFile, FileOne, SourceOne} [] v = s -> {}
                                    [] OTHER -> {MetaFile, Screenshot, MediaFile}]
MCPageList == [v \in Versions |-> IF v = b THEN {} ELSE {1}]
MCWithVideo == {a, e}
MCGranted == [v \in Versions |-> CASE v \in {a, b} -> {q} [] v = s -> {q, r} [] OTHER -> {rogue}]
Shipped(v) == MCBinds[v] \cup {MetaSidecar, PayloadFile, PayloadSidecar, TsrFile, TsMetaFile, TslFile, ReportFile}

Attached == [v \in Versions |->
  CASE v = b -> Filed [] v = s -> {} [] OTHER -> {ProofFile, MetaFile, Screenshot}]
MCEmbeds == [v \in Versions |->
  {ManifestFile} \cup CASE v = s -> {} [] v = x -> {ProofFile, MetaFile} [] OTHER -> Attached[v]]
MCLists == [v \in Versions |-> Attached[v] \cup IF v = x THEN {SecondPage} ELSE {}]
Apart == [p \in Attachable |-> p]      \* no two files with the same bytes
MCTwin == [v \in Versions |-> IF v = x THEN [Apart EXCEPT ![SecondPage] = Screenshot] ELSE Apart]
Rank == [p \in Listable |-> CHOOSE i \in 1..Cardinality(Listable) :
          LET order == <<ProofFile, MetaFile, SecondPage, Screenshot, MetaSidecar, PayloadFile, PayloadSidecar,
                         TsrFile, TsMetaFile, TslFile, ReportFile, MediaFile, PageNote, FileOne, SourceOne, FileTwo>>
          IN  order[i] = p]
MCOrder == [v \in Versions |-> Rank]
MCSuffixed == {FileOne}
MCGarbled == {<<FileTwo, e>>}
MCExternal == [v \in Versions |-> IF v = a THEN MediaPaths ELSE {}]
MCCites == [v \in Versions |->
  CASE v = a -> {Screenshot, MediaFile} [] v = b -> {FileOne} [] OTHER -> {}]

Edited == Versions \cup {Null, Corrupt}
Packs == {Issued(v, Shipped(v)) : v \in Versions}
Groups == {{p} : p \in Members} \cup
          {{TsrFile, TsMetaFile}, {PayloadFile, PayloadSidecar}, {ProofFile, MetaFile, MetaSidecar},
           {TsrFile, TsMetaFile, PayloadFile, PayloadSidecar, MetaFile, MetaSidecar}}
WithMembers(z, g, v) == [z EXCEPT !.zip = [p \in Members |-> IF p \in g THEN v ELSE z.zip[p]]]
MemberEdits == {WithMembers(z, g, v) : z \in Packs, g \in Groups, v \in Edited}
Flipped(z, p) ==
  IF Entry(z, p) = Null THEN z
  ELSE [z EXCEPT !.manifest.files[p].sealed = ~@, !.manifest.sealed_count = Null]
Rewrites(z) ==
  {Relisted(z)} \cup {Flipped(z, p) : p \in Listable}
  \cup {[z EXCEPT !.manifest.format = f] : f \in Formats}
  \cup {[z EXCEPT !.manifest.session = i] : i \in Sessions \cup {Null}}
  \cup {[z EXCEPT !.manifest.payload = v] : v \in Versions \cup {Null}}
ZipFiles ==
  {Zip(z) : z \in MemberEdits \cup {Relisted(y) : y \in MemberEdits} \cup UNION {Rewrites(y) : y \in Packs}}
  \cup {[Zip(z) EXCEPT !.archive = k] : z \in Packs, k \in {"bad", "not_zip"}}
  \cup {[Zip(z) EXCEPT !.manifest = m] : z \in Packs, m \in {Null, Corrupt}}

(* Documents: a body, perhaps an attachment or an edit, then revisions.     *)
Bodies == {<<Body(v)>> : v \in Versions}
          \cup {<<Body(a), Attach(p, v)>> : p \in {Screenshot, FileTwo, ManifestFile}, v \in {a, b, e}}
Tokens == {q, r, rogue, Null, "broken"}
Revisions(d) ==
  {Dss, [kind |-> "edit"], Attach(Screenshot, a), Attach(FileTwo, e)}
  \cup {Sign(TRUE, f, t, d) : f \in BOOLEAN, t \in Tokens}
  \cup {Sign(TRUE, TRUE, q, <<Body(x)>>), Sign(FALSE, TRUE, q, d)}
Then(docs) == docs \cup UNION {{Append(d, n) : n \in Revisions(d)} : d \in docs}
(* Documents of x: one or two attachments under names of any kind.          *)
LabelsTried ==
  {[name |-> n, ext |-> c, file |-> f, desc |-> d, front |-> t] :
     n \in {Screenshot, SecondPage, ProofFile}, c \in BOOLEAN, f \in {SecondPage, Null},
     d \in {Screenshot, SecondPage, Null}, t \in BOOLEAN}
Called(n, d) == [name |-> n, ext |-> FALSE, file |-> Null, desc |-> d, front |-> FALSE]
Renamed ==
  {<<Body(x), AttachAs(Screenshot, v, g)>> : v \in {a, x}, g \in LabelsTried}
  \cup {<<Body(x), AttachAs(SecondPage, x, Called(n, d)), AttachAs(w[1], w[2], g)>> :
          n \in {Screenshot, SecondPage}, d \in {Screenshot, SecondPage, Null},
          w \in {<<Screenshot, x>>, <<Screenshot, a>>, <<ProofFile, x>>}, g \in {h \in LabelsTried : h.file = Null}}
Docs == {Stamp(d, q) : d \in Renamed} \cup Then(Then(Bodies)) \cup Then(Then({Stamp(<<Body(v)>>, q) : v \in {a, b}}))
PdfFiles ==
  {Pdf(d) : d \in Docs}
  \cup {[Pdf(d) EXCEPT !.parses = k] : d \in Then(Bodies), k \in {"no", "odd"}}
  \cup {[Pdf(<<Body(a)>>) EXCEPT !.marks[k] = TRUE] : k \in {"byterange", "etsi", "rebuilt"}}

Sealed(v) == Stamp(<<Body(v)>>, q)
Approved == Append(<<Body(a)>>, Sign(FALSE, TRUE, q, <<Body(a)>>))   \* a signature, no time-stamp
Named_ == {Says(d, i) : d \in {Sealed(a), Sealed(b), Approved, <<Body(a)>>, Null}, i \in {idA, idB, Null}}
Cited == {{}, {<<SecondPage, x>>}, {<<Screenshot, a>>, <<MediaFile, a>>}, {<<Screenshot, e>>}}
Copy(n, t, c) == [Pdf(<<Body(a)>>) EXCEPT !.qr = n, !.text = t, !.cites = c]
Copies == {Copy(n, t, {}) : n \in Named_ \cup {Null}, t \in {m \in Named_ : m.doc \in {Sealed(a), Sealed(b), Null}}}
          \cup UNION {{Copy(n, n, c), Copy(n, Null, c), Copy(Null, n, c)} : n \in Named_, c \in Cited}
Reports == {[Pdf(<<Body(a)>>) EXCEPT !.report = v] : v \in Versions}
           \cup {[Pdf(<<Body(a)>>) EXCEPT !.saas = v] : v \in {a, s}}
           \cup {[Pdf(<<Body(a)>>) EXCEPT !.report = a, !.qr = Says(Sealed(a), idA)]}
Media(v, w) == [p \in MediaPaths |-> IF p = MediaFile THEN v ELSE w]
Archives == {Media(v, w) : v, w \in {a, e, Null}}

Line(f, o, m, l, t) == [file |-> f, original |-> o, media |-> m, list |-> l, roots |-> t]
Wholes == {Pdf(Sealed(v)) : v \in {a, b, e}} \cup {Pdf(Stamp(Sealed(a), rogue)), Pdf(Stamp(Sealed(a), r))}
          \cup {Zip(z) : z \in Packs}
          \cup {Companion(Media(a, a)), Other, Pdf(Approved), Pdf(<<Body(a)>>)}
          \cup {[Pdf(d) EXCEPT !.parses = k] : d \in {<<Body(a)>>, Sealed(a)}, k \in {"no", "odd"}}
ReportSwaps == {Zip(Relisted(WithMembers(z, {ReportFile}, v))) : z \in Packs, v \in Edited}
Broken == {[Zip(z) EXCEPT !.manifest = m] : z \in Packs, m \in {Null, Corrupt}}
SealedLines ==
  {Line(f, Null, Null, Null, {}) : f \in ZipFiles \cup PdfFiles \cup {Other}}
  \cup {Line(Zip(z), Null, Null, Null, {rogue}) : z \in {Relisted(y) : y \in MemberEdits}}
  \cup {Line(Pdf(d), Null, Null, l, {}) : d \in Then(Then({Sealed(a)})), l \in {a, s}}
  \cup {Line(Pdf(d), Null, m, Null, {rogue}) : d \in Then({<<Body(a)>>, <<Body(e)>>, Sealed(a)}), m \in Archives}
OutputLines ==
  {Line(f, o, Null, Null, {}) : f \in Copies, o \in Wholes \cup {Null}}
  \cup {Line([Pdf(<<Body(a)>>) EXCEPT !.qr = Says(Sealed(a), idA)], o, Null, s, {}) : o \in Wholes}
  \cup {Line(f, o, Null, Null, {}) : f \in Reports, o \in Wholes \cup ReportSwaps \cup Broken \cup {Null}}
  \cup {Line(Companion(m), o, Null, Null, {}) : m \in Archives, o \in Wholes \cup {Null}}
(* Signed documents that look like a copy or a report of something sealed.   *)
Signed == {Append(Sealed(a), Edit), Stamp(<<Body(e)>>, rogue), Append(<<Body(x)>>, Sign(TRUE, TRUE, q, <<Body(a)>>))}
MarkedLines ==
  {Line([Pdf(d) EXCEPT !.qr = n, !.text = t], Pdf(Sealed(a)), Null, Null, {}) :
     d \in Signed, n \in {Says(Sealed(a), idA), Null}, t \in {Says(Sealed(a), Null), Null}}
  \cup {Line([Pdf(d) EXCEPT !.report = a], Zip(z), Null, Null, {}) : d \in Signed, z \in Packs}
AllLines == MarkedLines \cup SealedLines \cup OutputLines
Unusual == {Line(Pdf(d), Null, Null, Null, {}) : d \in Then(Then(Bodies))}
=============================================================================
