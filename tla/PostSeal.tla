------------------------------- MODULE PostSeal -------------------------------
(***************************************************************************)
(* _analyze_post_seal of forensic_browser.py: whether what was written     *)
(* after the sealed byte range of a PDF is only what long-term validation  *)
(* writes.  A revision is the document as it resolves through its xref:    *)
(* revisions[1] is the sealed one and the last is what a reader sees.      *)
(* Bytes are abstracted to parsed objects; a mark stands for everything of *)
(* an object no rule looks into.                                           *)
(***************************************************************************)
EXTENDS Naturals, Sequences

CONSTANTS
  Nums,          \* object numbers
  Root, Info,    \* /Root and /Info of the sealed trailer
  Marks,         \* contents no rule looks into
  Null,          \* no object, no reference, no mark
  Seals,         \* the sealed documents
  MaxRevisions,  \* MAX_REVISIONS_AFTER_SEAL
  MaxHistory,    \* bound on the revisions of a document
  MaxWrites,     \* bound on the objects written by other software
  Rewrites       \* Rewrites[n]: the objects such software may write as number n

Refs == Nums \cup {Null}
MaxVersion == 20      \* PDF 2.0, the greatest /Version a catalog may be raised to
Forms    == [kind : {"Form"}, fields : SUBSET Nums, rest : Marks \cup {Null}]
Catalogs == [kind : {"Catalog"}, pages : SUBSET Nums, form : Refs, inline : Forms \cup {Null}, dss : Refs,
             version : Nat, extensions : {"absent", "developer", "other"}, rest : Marks]
Pages    == [kind : {"Page"}, contents : Nums, annots : SUBSET Nums, rest : Marks]
Streams  == [kind : {"Stream"}, type : {"none", "Form", "ObjStm", "XRef", "OwnXRef"}, data : Marks]
Widgets  == [kind : {"Widget"}, v : Refs, ap : Refs, visible : BOOLEAN, usual : BOOLEAN, rest : Marks]
Sigs     == [kind : {"Sig"}, plain : BOOLEAN]  \* plain: ETSI.RFC3161, no unusual keys
DssDicts == [kind : {"DSS"}, certs : SUBSET Nums, vri : SUBSET Nums, usual : BOOLEAN]
VriDicts == [kind : {"VRI"}, certs : SUBSET Nums, usual : BOOLEAN]
Infos    == [kind : {"Info"}, producer : Marks, rest : Marks]
Arrays   == [kind : {"Array"}, data : Marks]   \* any object but a dictionary or a stream
Objects == Forms \cup Catalogs \cup Pages \cup Streams \cup Widgets \cup Sigs \cup DssDicts
           \cup VriDicts \cup Infos \cup Arrays
Documents == [Nums -> Objects \cup {Null}]

(* A sealed document: its structure is there, nothing in it points at an   *)
(* object the sealed revision does not define, and the signature fields it *)
(* has (the seal's own) are invisible, as the service writes them.         *)
NoForm == [kind |-> "Form", fields |-> {}, rest |-> Null]
FormOf(doc) ==
  IF doc[Root].form # Null THEN doc[doc[Root].form]
  ELSE IF doc[Root].inline # Null THEN doc[Root].inline ELSE NoForm
WellFormed(doc) ==
  /\ doc \in Documents
  /\ doc[Root] \in Catalogs /\ doc[Info] \in Infos
  /\ doc[Root].form # Null => doc[doc[Root].form] \in Forms
  /\ \A f \in FormOf(doc).fields : doc[f] \in Widgets
  /\ \A p \in doc[Root].pages :
       /\ doc[p] \in Pages /\ doc[doc[p].contents] \in Streams
       /\ \A a \in doc[p].annots : doc[a] \in Widgets
  /\ \A w \in {n \in Nums : doc[n] \in Widgets} :
       /\ doc[w].ap # Null => doc[doc[w].ap] \in Streams
       /\ doc[w].v # Null => (doc[doc[w].v] # Null /\ ~doc[w].visible)
  /\ doc[Root].dss # Null => doc[doc[Root].dss] \in DssDicts

ASSUME SealAssumption ==
  /\ Nums \subseteq Nat \ {0} /\ (\E last \in Nums : \A n \in Nums : n <= last)
  /\ Root \in Nums /\ Info \in Nums /\ Root # Info
  /\ \A doc \in Seals : WellFormed(doc)
  /\ Null \notin Objects /\ Null \notin Nums /\ Null \notin BOOLEAN /\ Marks # {}
  /\ \A n \in Nums : Rewrites[n] \subseteq Objects \cup {Null}
  /\ MaxRevisions \in Nat /\ MaxHistory \in Nat /\ MaxWrites \in Nat

VARIABLES
  revisions,   \* the document after each revision, the sealed one first
  oddities,    \* defects of the later revisions' own structure
  tail,        \* bytes after the last revision: "none", "whitespace" or "junk"
  writes,      \* objects written by other software
  verdict      \* the check post_seal_changes, Null before it

vars == <<revisions, oddities, tail, writes, verdict>>
Oddities == {"unlisted", "listed_twice", "duplicate_key", "unparsable", "generation",
             "unlinked", "root_moved"}

Sealed == revisions[1]
Final == revisions[Len(revisions)]
New(n) == Sealed[n] = Null

Init ==
  /\ \E doc \in Seals : revisions = <<doc>>
  /\ oddities = {} /\ tail = "none" /\ writes = 0 /\ verdict = Null

-----------------------------------------------------------------------------
(* Writers (external).  Long-term validation first: a document time-stamp, *)
(* a first DSS, and renewals that rewrite the DSS or supersede it.         *)
Used == {n \in Nums : \E k \in 1..Len(revisions) : revisions[k][n] # Null}
Size == 1 + (CHOOSE n \in Used : \A m \in Used : m <= n)     \* /Size of the trailer
Open == verdict = Null /\ tail = "none" /\ Len(revisions) < MaxHistory
Renew(doc) == revisions' = Append(revisions, doc) /\ UNCHANGED <<oddities, tail, writes, verdict>>
SomeMark == CHOOSE m \in Marks : TRUE
CertStream == [kind |-> "Stream", type |-> "none", data |-> SomeMark]
DssOver(certs, vri) == [kind |-> "DSS", certs |-> certs, vri |-> {vri}, usual |-> TRUE]
VriOver(cert) == [kind |-> "VRI", certs |-> {cert}, usual |-> TRUE]

AddTimestamp == \E p \in Final[Root].pages :
  LET sig == Size  w == Size + 1  ap == Size + 2
      field == [kind |-> "Widget", v |-> sig, ap |-> ap, visible |-> FALSE, usual |-> TRUE,
                rest |-> SomeMark]
      form == [FormOf(Final) EXCEPT !.fields = @ \cup {w}]
      signed == [Final EXCEPT ![sig] = [kind |-> "Sig", plain |-> TRUE], ![w] = field,
                   ![ap] = [kind |-> "Stream", type |-> "Form", data |-> SomeMark],
                   ![p] = [Final[p] EXCEPT !.annots = @ \cup {w}]]
      at == Final[Root].form
  IN /\ Open /\ {sig, w, ap} \subseteq Nums
     /\ Final[Root] \in Catalogs /\ Final[p] \in Pages /\ FormOf(Final) \in Forms
     /\ Renew(IF at # Null THEN [signed EXCEPT ![at] = form]
              ELSE [signed EXCEPT ![Root] = [Final[Root] EXCEPT !.inline = form]])

(* The catalog points at a new DSS, whether or not there was one.          *)
AddDss ==
  LET d == Size  vri == Size + 1  cert == Size + 2
      version == IF Final[Root].version < 17 THEN 17 ELSE Final[Root].version
  IN /\ Open /\ {d, vri, cert} \subseteq Nums /\ Final[Root] \in Catalogs
     /\ Renew([Final EXCEPT ![d] = DssOver({cert}, vri), ![vri] = VriOver(cert), ![cert] = CertStream,
                 ![Root] = [Final[Root] EXCEPT !.dss = d, !.version = version]])

(* The DSS is rewritten under its number, its VRI keys re-pointed.         *)
RenewDss ==
  LET d == Final[Root].dss  vri == Size  cert == Size + 1 IN
  /\ Open /\ {vri, cert} \subseteq Nums
  /\ Final[Root] \in Catalogs /\ d # Null /\ Final[d] \in DssDicts
  /\ Renew([Final EXCEPT ![d] = DssOver(Final[d].certs \cup {cert}, vri),
               ![vri] = VriOver(cert), ![cert] = CertStream])
LongTermValidation == AddTimestamp \/ AddDss \/ RenewDss

(* Other software: any object of Rewrites, in a revision of its own or     *)
(* together with what the last one writes.                                 *)
Written(n, obj) == [Final EXCEPT ![n] = obj]
WriteObject == \E n \in Nums : \E obj \in Rewrites[n] :
  /\ verdict = Null /\ tail = "none" /\ writes < MaxWrites /\ obj # Final[n]
  /\ \/ Len(revisions) < MaxHistory /\ revisions' = Append(revisions, Written(n, obj))
     \/ Len(revisions) > 1 /\ revisions' = [revisions EXCEPT ![Len(revisions)] = Written(n, obj)]
  /\ writes' = writes + 1
  /\ UNCHANGED <<oddities, tail, verdict>>
Spoil == \E o \in Oddities :
  /\ verdict = Null /\ tail = "none" /\ Len(revisions) > 1 /\ writes < MaxWrites
  /\ oddities' = oddities \cup {o} /\ writes' = writes + 1
  /\ UNCHANGED <<revisions, tail, verdict>>
AppendBytes == \E bytes \in {"whitespace", "junk"} :
  /\ verdict = Null /\ tail = "none"
  /\ tail' = bytes
  /\ UNCHANGED <<revisions, oddities, writes, verdict>>

-----------------------------------------------------------------------------
(* _collect_dss: what one document's DSS is made of.                       *)
DssNum(doc) == IF doc[Root] \in Catalogs THEN doc[Root].dss ELSE Null
DssStruct(doc) ==
  IF DssNum(doc) = Null THEN {}
  ELSE {DssNum(doc)} \cup (IF doc[DssNum(doc)] \in DssDicts THEN doc[DssNum(doc)].vri ELSE {})
DssRefs(doc) ==
  IF DssNum(doc) = Null \/ doc[DssNum(doc)] \notin DssDicts THEN {}
  ELSE doc[DssNum(doc)].certs
       \cup UNION {doc[v].certs : v \in {u \in doc[DssNum(doc)].vri : doc[u] \in VriDicts}}
DataStream(obj) == obj \in Streams /\ obj.type = "none"
DssStreams(doc) == {n \in DssRefs(doc) : DataStream(doc[n])}
DssProblems(doc) ==
  /\ DssNum(doc) # Null
  /\ \/ doc[DssNum(doc)] \notin DssDicts
     \/ ~doc[DssNum(doc)].usual
     \/ \E v \in doc[DssNum(doc)].vri : ~(doc[v] \in VriDicts /\ doc[v].usual)
     \/ \E n \in DssRefs(doc) : ~DataStream(doc[n])

(* The DSS as it stands, and what an earlier revision's DSS left behind     *)
(* unchanged.                                                              *)
\* Mutant: superseded objects are not looked for.
LeftBehind_None(n, k) == FALSE
LeftBehind(n, k) == ~DssProblems(revisions[k]) /\ revisions[k][n] = Final[n]
Between == 2..(Len(revisions) - 1)
DssObjects == DssStruct(Final) \cup
  {n \in Nums : \E k \in Between : n \in DssStruct(revisions[k]) /\ LeftBehind(n, k)}
DssData == DssStreams(Final) \cup
  {n \in Nums : \E k \in Between : n \in DssStreams(revisions[k]) /\ LeftBehind(n, k)}

(* Signature dictionaries whose byte range reaches past the seal.          *)
LaterSigs == {n \in Nums : \E k \in 2..Len(revisions) : revisions[k][n] \in Sigs \ {Sealed[n]}}
IsTsWidget(n) == Final[n] \in Widgets /\ Final[n].v \in LaterSigs
\* Mutant: a time-stamp field may be visible.
WidgetOk_Visible(w) == w.usual
WidgetOk(w) == w.usual /\ ~w.visible
WidgetAppearances ==
  {Final[n].ap : n \in {m \in Nums : New(m) /\ IsTsWidget(m) /\ WidgetOk(Final[m])}}

(* _acroform_ok: fields may only be added, and only time-stamps.           *)
FormAppended(old, new) ==
  /\ old.rest = new.rest
  /\ old.fields \subseteq new.fields
  /\ \A f \in new.fields \ old.fields : IsTsWidget(f)

AcroFormAppended(old, new) ==
  \/ new = old
  \/ new # Null /\ FormAppended(IF old = Null THEN NoForm ELSE old, new)
CatalogRefreshed(old, new) ==
  /\ new.pages = old.pages /\ new.rest = old.rest
  /\ new.version \in {old.version} \cup (old.version..MaxVersion)
  /\ new.extensions \in {old.extensions, "developer"}
  /\ new.form = old.form /\ AcroFormAppended(old.inline, new.inline)
\* Mutant: annotations may be added, whatever they are.
PageAnnotated_Any(old, new) ==
  /\ new.contents = old.contents /\ new.rest = old.rest /\ old.annots \subseteq new.annots
PageAnnotated(old, new) ==
  /\ new.contents = old.contents /\ new.rest = old.rest
  /\ old.annots \subseteq new.annots
  /\ \A a \in new.annots \ old.annots : IsTsWidget(a)

(* _classify_change, in its order.                                         *)
NewStreamOk(n) ==
  \/ Final[n].type \in {"OwnXRef", "ObjStm"}
  \/ n \in DssData
  \/ (n \in WidgetAppearances /\ Final[n].type = "Form")
\* Mutant: no sealed object may be reused, the sealed DSS neither.
WasDss_None(n) == FALSE
WasDss(n) == Sealed[n] \in DssDicts \/ Sealed[Root].dss = n
Refreshed(n) ==
  LET old == Sealed[n]  new == Final[n] IN
  \/ n = Root /\ new \in Catalogs /\ CatalogRefreshed(old, new)
  \/ n = Info /\ new \in Infos /\ new.rest = old.rest
  \/ old \in Pages /\ new \in Pages /\ PageAnnotated(old, new)
  \/ old \in Forms /\ new \in Forms /\ FormAppended(old, new)
Permitted(n) ==
  IF Streams \cap {Sealed[n], Final[n]} # {} THEN New(n) /\ NewStreamOk(n)
  ELSE IF n \in DssObjects THEN New(n) \/ WasDss(n)
  ELSE IF Final[n] \in Arrays THEN FALSE
  ELSE IF Final[n] \in Sigs \/ n \in LaterSigs THEN New(n) /\ Final[n] \in Sigs /\ Final[n].plain
  ELSE IF New(n) THEN IsTsWidget(n) /\ WidgetOk(Final[n])
  ELSE Refreshed(n)

\* Mutant: objects of the sealed revision that are gone are not looked at.
ObjectOk_Deleted(n) == (Final[n] \in {Sealed[n], Null}) \/ Permitted(n)
ObjectOk(n) == Final[n] = Sealed[n] \/ (Final[n] # Null /\ Permitted(n))

Accepted ==
  IF Len(revisions) = 1 THEN tail # "junk"
  ELSE /\ Len(revisions) - 1 <= MaxRevisions
       /\ oddities = {} /\ tail # "junk"
       /\ \A n \in Nums : ObjectOk(n)
       /\ ~(DssProblems(Final) /\ DssObjects # {})

Analyze ==
  /\ verdict = Null /\ verdict' = Accepted
  /\ UNCHANGED <<revisions, oddities, tail, writes>>

Next == LongTermValidation \/ WriteObject \/ Spoil \/ AppendBytes \/ Analyze
Spec == Init /\ [][Next]_vars

-----------------------------------------------------------------------------
TypeOK ==
  /\ revisions \in Seq(Documents) /\ Sealed \in Seals /\ Len(revisions) \in 1..(MaxHistory + 1)
  /\ oddities \subseteq Oddities /\ tail \in {"none", "whitespace", "junk"}
  /\ writes \in 0..MaxWrites
  /\ verdict \in BOOLEAN \cup {Null}

(* What a reader sees: pages with their contents and visible annotations,   *)
(* visible fields, and what the catalog and the document information say.  *)
Drawn(doc, a) == <<a, doc[a], IF doc[a] \in Widgets /\ doc[a].ap # Null THEN doc[doc[a].ap] ELSE Null>>
Visible(doc, S) == {Drawn(doc, a) : a \in {b \in S : ~(doc[b] \in Widgets /\ ~doc[b].visible)}}
View(doc) ==
  [pages  |-> {<<p, doc[p].rest, doc[doc[p].contents], Visible(doc, doc[p].annots)>> :
                 p \in doc[Root].pages},
   fields |-> Visible(doc, FormOf(doc).fields),
   form   |-> FormOf(doc).rest, catalog |-> doc[Root].rest, info |-> doc[Info].rest]

(* post_seal_changes, "later revisions contain only permitted updates":     *)
(* when the check passes, what a reader of the final document sees is what  *)
(* was sealed, whatever was written in between and in how many revisions.  *)
AcceptedShowsSealed == verdict = TRUE => View(Final) = View(Sealed)

(* The LTV renewal of review round 3, B1 (forensic_browser.py:874): adding  *)
(* a time-stamp, adding a DSS or re-pointing its keys never costs a        *)
(* document its verdict, however often it was renewed before, whatever else *)
(* in it was accepted and whatever the renewal leaves unreferenced.        *)
(* Sound leaves out two documents the check turns from: a seal whose own   *)
(* DSS has unusual keys passes until something follows it, and a page, form *)
(* or catalog that one revision overwrote with a signature and the next one *)
(* put back passes until a renewal writes it, since its number stays among  *)
(* later_sig_nums.                                                         *)
Sound == ~DssProblems(Final) /\ \A n \in LaterSigs : New(n)
RenewalKeepsVerdict ==
  [][LongTermValidation /\ Accepted /\ Sound /\ Len(revisions) <= MaxRevisions => Accepted']_vars
=============================================================================
