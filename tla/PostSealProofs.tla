--------------------------- MODULE PostSealProofs ---------------------------
(***************************************************************************)
(* For every number of revisions and of objects, every sealed document and *)
(* whatever other software writes: what the check post_seal_changes        *)
(* accepts shows what was sealed, and a renewal of the long-term           *)
(* validation keeps it accepted.                                           *)
(***************************************************************************)
EXTENDS PostSeal, Extrema, TLAPS

Kinds == Objects \cup {Null}

(* The kind of an object tells every set of objects from the others.       *)
LEMMA KindsApart ==
  ASSUME NEW obj \in Objects
  PROVE  /\ obj \in Streams => obj.kind = "Stream"
         /\ obj \in Widgets => obj.kind = "Widget"
         /\ obj \in Pages => obj.kind = "Page"
         /\ obj \in Forms => obj.kind = "Form"
         /\ obj \in Catalogs => obj.kind = "Catalog"
         /\ obj \in Infos => obj.kind = "Info"
         /\ obj \in Sigs => obj.kind = "Sig"
         /\ obj \in DssDicts => obj.kind = "DSS"
         /\ obj \in VriDicts => obj.kind = "VRI"
         /\ obj \in Arrays => obj.kind = "Array"
<1>1. (obj \in Streams => obj.kind = "Stream") /\ (obj \in Widgets => obj.kind = "Widget")
  BY DEF Streams, Widgets
<1>2. (obj \in Pages => obj.kind = "Page") /\ (obj \in Forms => obj.kind = "Form")
  BY DEF Pages, Forms
<1>3. (obj \in Catalogs => obj.kind = "Catalog") /\ (obj \in Infos => obj.kind = "Info")
  BY DEF Catalogs, Infos
<1>4. (obj \in Sigs => obj.kind = "Sig") /\ (obj \in DssDicts => obj.kind = "DSS")
  BY DEF Sigs, DssDicts
<1>5. (obj \in VriDicts => obj.kind = "VRI") /\ (obj \in Arrays => obj.kind = "Array")
  BY DEF VriDicts, Arrays
<1> QED BY <1>1, <1>2, <1>3, <1>4, <1>5

-----------------------------------------------------------------------------
(* The type invariant.                                                     *)
LEMMA FinalTyped == TypeOK => /\ Final \in Documents /\ Sealed \in Documents
                              /\ WellFormed(Sealed)
<1> SUFFICES ASSUME TypeOK PROVE Final \in Documents /\ Sealed \in Documents /\ WellFormed(Sealed)
  OBVIOUS
<1>1. Final \in Documents /\ Sealed \in Documents BY DEF TypeOK, Final, Sealed
<1>2. WellFormed(Sealed) BY SealAssumption DEF TypeOK
<1> QED BY <1>1, <1>2

LEMMA Appended ==
  ASSUME TypeOK, Open, NEW doc \in Documents, Renew(doc)
  PROVE  TypeOK'
<1>1. revisions' \in Seq(Documents) /\ Len(revisions') = Len(revisions) + 1
      /\ revisions'[1] = revisions[1]
  BY DEF TypeOK, Renew
<1>2. Len(revisions') \in 1..(MaxHistory + 1) BY <1>1, SealAssumption DEF TypeOK, Open
<1> QED BY <1>1, <1>2 DEF TypeOK, Renew, Sealed

LEMMA WrittenObjects ==
  /\ CertStream \in Objects
  /\ \A certs \in SUBSET Nums, vri \in Nums : DssOver(certs, vri) \in Objects
  /\ \A cert \in Nums : VriOver(cert) \in Objects
  /\ SomeMark \in Marks
<1>1. SomeMark \in Marks BY SealAssumption DEF SomeMark
<1>2. CertStream \in Streams BY <1>1 DEF CertStream, Streams
<1>3. \A certs \in SUBSET Nums, vri \in Nums : DssOver(certs, vri) \in DssDicts
  BY DEF DssOver, DssDicts
<1>4. \A cert \in Nums : VriOver(cert) \in VriDicts BY DEF VriOver, VriDicts
<1> QED BY <1>1, <1>2, <1>3, <1>4 DEF Objects

LEMMA WriteTyped ==
  ASSUME NEW doc \in Documents, NEW n \in Nums, NEW obj \in Objects \cup {Null}
  PROVE  [doc EXCEPT ![n] = obj] \in Documents
BY DEF Documents

LEMMA AddTimestampTyped == TypeOK /\ AddTimestamp => TypeOK'
<1> SUFFICES ASSUME TypeOK, AddTimestamp PROVE TypeOK' OBVIOUS
<1> DEFINE sig == Size  w == Size + 1  ap == Size + 2
           field == [kind |-> "Widget", v |-> sig, ap |-> ap, visible |-> FALSE, usual |-> TRUE,
                     rest |-> SomeMark]
           form == [FormOf(Final) EXCEPT !.fields = @ \cup {w}]
           at == Final[Root].form
           sigDict == [kind |-> "Sig", plain |-> TRUE]
           apStream == [kind |-> "Stream", type |-> "Form", data |-> SomeMark]
           page(p) == [Final[p] EXCEPT !.annots = @ \cup {w}]
           catalog == [Final[Root] EXCEPT !.inline = form]
           signed(p) == [Final EXCEPT ![sig] = sigDict, ![w] = field, ![ap] = apStream, ![p] = page(p)]
<1>1. PICK p \in Final[Root].pages :
        /\ Open /\ {sig, w, ap} \subseteq Nums
        /\ Final[Root] \in Catalogs /\ Final[p] \in Pages /\ FormOf(Final) \in Forms
        /\ Renew(IF at # Null THEN [signed(p) EXCEPT ![at] = form]
                 ELSE [signed(p) EXCEPT ![Root] = catalog])
  BY DEF AddTimestamp
<1>2. p \in Nums /\ Final \in Documents /\ at \in Nums \cup {Null}
  <2>1. Final[Root].pages \subseteq Nums /\ at \in Nums \cup {Null} BY <1>1 DEF Catalogs, Refs
  <2> QED BY <2>1, <1>1, FinalTyped
<1>3. form \in Forms BY <1>1 DEF Forms
<1>4. page(p) \in Pages BY <1>1 DEF Pages
<1>5. catalog \in Catalogs BY <1>1, <1>3 DEF Catalogs
<1>6. sigDict \in Sigs BY DEF Sigs
<1>7. apStream \in Streams BY WrittenObjects DEF Streams
<1>8. field \in Widgets BY <1>1, WrittenObjects DEF Widgets, Refs
<1>9. {form, page(p), catalog, sigDict, apStream, field} \subseteq Objects
  BY <1>3, <1>4, <1>5, <1>6, <1>7, <1>8 DEF Objects
<1> HIDE DEF form, page, catalog, sigDict, apStream, field, sig, w, ap, at
<1>10. signed(p) \in Documents
  <2>1. [Final EXCEPT ![sig] = sigDict] \in Documents BY <1>1, <1>2, <1>9, WriteTyped
  <2>2. [Final EXCEPT ![sig] = sigDict, ![w] = field] \in Documents
    BY <1>1, <1>9, <2>1 DEF Documents
  <2>3. [Final EXCEPT ![sig] = sigDict, ![w] = field, ![ap] = apStream] \in Documents
    BY <1>1, <1>9, <2>2 DEF Documents
  <2> QED BY <1>2, <1>9, <2>3 DEF Documents
<1> HIDE DEF signed
<1>11. CASE at # Null
  <2>1. [signed(p) EXCEPT ![at] = form] \in Documents BY <1>2, <1>9, <1>10, <1>11, WriteTyped
  <2> QED BY <1>1, <1>11, <2>1, Appended
<1>12. CASE at = Null
  <2>1. [signed(p) EXCEPT ![Root] = catalog] \in Documents
    BY <1>9, <1>10, SealAssumption, WriteTyped
  <2> QED BY <1>1, <1>12, <2>1, Appended
<1> QED BY <1>11, <1>12

LEMMA AddDssTyped == TypeOK /\ AddDss => TypeOK'
<1> SUFFICES ASSUME TypeOK, AddDss PROVE TypeOK' OBVIOUS
<1> DEFINE d == Size  vri == Size + 1  cert == Size + 2
           version == IF Final[Root].version < 17 THEN 17 ELSE Final[Root].version
           catalog == [Final[Root] EXCEPT !.dss = d, !.version = version]
           dss == DssOver({cert}, vri)
           doc == [Final EXCEPT ![d] = dss, ![vri] = VriOver(cert), ![cert] = CertStream,
                                ![Root] = catalog]
<1>1. Open /\ {d, vri, cert} \subseteq Nums /\ Final[Root] \in Catalogs /\ Renew(doc)
  BY DEF AddDss
<1>2. version \in Nat BY <1>1 DEF Catalogs
<1> HIDE DEF version
<1>3. catalog \in Catalogs BY <1>1, <1>2 DEF Catalogs, Refs
<1>4. dss \in Objects /\ VriOver(cert) \in Objects BY <1>1, WrittenObjects
<1>5. {catalog, dss, VriOver(cert), CertStream} \subseteq Objects
  BY <1>3, <1>4, WrittenObjects DEF Objects
<1> HIDE DEF catalog, dss, d, vri, cert
<1>6. doc \in Documents
  <2>1. [Final EXCEPT ![d] = dss] \in Documents BY <1>1, <1>5, FinalTyped, WriteTyped
  <2>2. [Final EXCEPT ![d] = dss, ![vri] = VriOver(cert)] \in Documents
    BY <1>1, <1>5, <2>1 DEF Documents
  <2>3. [Final EXCEPT ![d] = dss, ![vri] = VriOver(cert), ![cert] = CertStream] \in Documents
    BY <1>1, <1>5, <2>2 DEF Documents
  <2> QED BY <1>5, <2>3, SealAssumption DEF Documents
<1> QED BY <1>1, <1>6, Appended

LEMMA RenewDssTyped == TypeOK /\ RenewDss => TypeOK'
<1> SUFFICES ASSUME TypeOK, RenewDss PROVE TypeOK' OBVIOUS
<1> DEFINE d == Final[Root].dss  vri == Size  cert == Size + 1
           dss == DssOver(Final[d].certs \cup {cert}, vri)
           doc == [Final EXCEPT ![d] = dss, ![vri] = VriOver(cert), ![cert] = CertStream]
<1>1. /\ Open /\ {vri, cert} \subseteq Nums
      /\ Final[Root] \in Catalogs /\ d # Null /\ Final[d] \in DssDicts /\ Renew(doc)
  BY DEF RenewDss
<1>2. d \in Nums BY <1>1 DEF Catalogs, Refs
<1>3. Final[d].certs \cup {cert} \in SUBSET Nums BY <1>1 DEF DssDicts
<1>4. {dss, VriOver(cert), CertStream} \subseteq Objects BY <1>1, <1>3, WrittenObjects
<1> HIDE DEF dss, d, vri, cert
<1>5. doc \in Documents
  <2>1. [Final EXCEPT ![d] = dss] \in Documents BY <1>2, <1>4, FinalTyped, WriteTyped
  <2>2. [Final EXCEPT ![d] = dss, ![vri] = VriOver(cert)] \in Documents
    BY <1>1, <1>4, <2>1 DEF Documents
  <2> QED BY <1>1, <1>4, <2>2 DEF Documents
<1> QED BY <1>1, <1>5, Appended

LEMMA WriteObjectTyped == TypeOK /\ WriteObject => TypeOK'
<1> SUFFICES ASSUME TypeOK, WriteObject PROVE TypeOK' OBVIOUS
<1>1. PICK n \in Nums : \E obj \in Rewrites[n] :
        /\ writes < MaxWrites
        /\ \/ Len(revisions) < MaxHistory /\ revisions' = Append(revisions, Written(n, obj))
           \/ Len(revisions) > 1 /\ revisions' = [revisions EXCEPT ![Len(revisions)] = Written(n, obj)]
        /\ writes' = writes + 1 /\ UNCHANGED <<oddities, tail, verdict>>
  BY DEF WriteObject
<1>2. PICK obj \in Rewrites[n] :
        /\ writes < MaxWrites
        /\ \/ Len(revisions) < MaxHistory /\ revisions' = Append(revisions, Written(n, obj))
           \/ Len(revisions) > 1 /\ revisions' = [revisions EXCEPT ![Len(revisions)] = Written(n, obj)]
        /\ writes' = writes + 1 /\ UNCHANGED <<oddities, tail, verdict>>
  BY <1>1
<1>3. Written(n, obj) \in Documents
  <2>1. obj \in Objects \cup {Null} BY SealAssumption
  <2> QED BY <2>1, FinalTyped, WriteTyped DEF Written
<1>4. /\ revisions' \in Seq(Documents) /\ revisions'[1] = revisions[1]
      /\ Len(revisions') \in 1..(MaxHistory + 1)
  <2>1. MaxHistory \in Nat
    BY SealAssumption
  <2> QED
    BY <1>2, <1>3, <2>1 DEF TypeOK
<1>5. writes' \in 0..MaxWrites BY <1>2, SealAssumption DEF TypeOK
<1> QED BY <1>2, <1>4, <1>5 DEF TypeOK, Sealed

LEMMA AnalyzeTyped == TypeOK /\ Analyze => TypeOK'
<1> SUFFICES ASSUME TypeOK, Analyze PROVE TypeOK' OBVIOUS
<1>1. Accepted \in BOOLEAN BY DEF Accepted
<1> QED BY <1>1 DEF TypeOK, Analyze, Sealed

LEMMA TypeInit == Init => TypeOK
<1> SUFFICES ASSUME Init PROVE TypeOK OBVIOUS
<1>1. PICK doc \in Seals : revisions = <<doc>> BY DEF Init
<1>2. doc \in Documents BY SealAssumption DEF WellFormed
<1> QED BY <1>1, <1>2, SealAssumption DEF Init, TypeOK, Sealed

LEMMA TypeStep == TypeOK /\ [Next]_vars => TypeOK'
<1> SUFFICES ASSUME TypeOK, [Next]_vars PROVE TypeOK' OBVIOUS
<1>1. CASE LongTermValidation
  BY <1>1, AddTimestampTyped, AddDssTyped, RenewDssTyped DEF LongTermValidation
<1>2. CASE WriteObject BY <1>2, WriteObjectTyped
<1>3. CASE Spoil BY <1>3, SealAssumption DEF Spoil, TypeOK, Sealed
<1>4. CASE AppendBytes BY <1>4 DEF AppendBytes, TypeOK, Sealed
<1>5. CASE Analyze BY <1>5, AnalyzeTyped
<1>6. CASE UNCHANGED vars BY <1>6 DEF vars, TypeOK, Sealed
<1> QED BY <1>1, <1>2, <1>3, <1>4, <1>5, <1>6 DEF Next

(* Every reachable state has its type, and the sealed revision is never    *)
(* touched: an incremental update only appends.                            *)
THEOREM TypeCorrect == Spec => []TypeOK
BY TypeInit, TypeStep, PTL DEF Spec

-----------------------------------------------------------------------------
(* What the check accepts.                                                 *)
ObjectsOk == /\ TypeOK
             /\ \A n \in Nums : ObjectOk(n)
             /\ ~(DssProblems(Final) /\ DssObjects # {})

(* A stream or a widget of the sealed revision is there as it was.         *)
LEMMA Untouched ==
  ASSUME ObjectsOk, NEW n \in Nums, Sealed[n] \in Streams \cup Widgets
  PROVE  Final[n] = Sealed[n]
<1> SUFFICES ASSUME Final[n] # Sealed[n] PROVE FALSE OBVIOUS
<1>1. Sealed[n] \in Objects /\ WellFormed(Sealed) BY FinalTyped DEF ObjectsOk, Objects
<1>2. ~New(n) BY <1>1, SealAssumption DEF New
<1>3. Permitted(n) BY DEF ObjectsOk, ObjectOk
<1>4. Streams \cap {Sealed[n], Final[n]} = {} BY <1>2, <1>3 DEF Permitted
<1>5. Sealed[n] \in Widgets /\ Sealed[n].kind = "Widget" BY <1>1, <1>4, KindsApart
<1>6. ~WasDss(n)
  <2>1. Sealed[n] \notin DssDicts BY <1>1, <1>5, KindsApart
  <2>2. Sealed[Root].dss # n BY <1>1, <2>1, SealAssumption DEF WellFormed
  <2> QED BY <2>1, <2>2 DEF WasDss
<1>7. Refreshed(n) BY <1>2, <1>3, <1>4, <1>6 DEF Permitted
<1>8. n # Root /\ n # Info
  <2>1. Sealed[Root] \in Catalogs /\ Sealed[Info] \in Infos BY <1>1 DEF WellFormed
  <2> QED BY <1>1, <1>5, <2>1, KindsApart
<1>9. Sealed[n] \notin Pages /\ Sealed[n] \notin Forms BY <1>1, <1>5, KindsApart
<1> QED BY <1>7, <1>8, <1>9 DEF Refreshed

(* A part of the document's structure is there, changed at most the way    *)
(* its own rule allows.                                                    *)
LEMMA Structure ==
  ASSUME ObjectsOk, NEW n \in Nums,
         Sealed[n] \in Catalogs \cup Infos \cup Pages \cup Forms
  PROVE  Final[n] = Sealed[n] \/ Refreshed(n)
<1> SUFFICES ASSUME Final[n] # Sealed[n] PROVE Refreshed(n) OBVIOUS
<1>1. Sealed[n] \in Objects /\ WellFormed(Sealed) BY FinalTyped DEF ObjectsOk, Objects
<1>2. ~New(n) BY <1>1, SealAssumption DEF New
<1>3. Permitted(n) BY DEF ObjectsOk, ObjectOk
<1>4. ~WasDss(n)
  <2>1. Sealed[n] \notin DssDicts BY <1>1, KindsApart
  <2>2. Sealed[Root].dss # n BY <1>1, <2>1, SealAssumption DEF WellFormed
  <2> QED BY <2>1, <2>2 DEF WasDss
<1> QED BY <1>2, <1>3, <1>4 DEF Permitted

(* The crux: a field the check takes for a document time-stamp's is an     *)
(* invisible widget.  An object the DSS lists, or listed in an earlier     *)
(* revision, cannot be one: then the DSS is no well-formed DSS.            *)
LEMMA TimestampInvisible ==
  ASSUME ObjectsOk, NEW n \in Nums, IsTsWidget(n)
  PROVE  Final[n] \in Widgets /\ ~Final[n].visible
<1>1. Final[n] \in Widgets /\ Final[n] \in Objects BY DEF IsTsWidget, Objects
<1>2. WellFormed(Sealed) /\ Sealed \in Documents BY FinalTyped DEF ObjectsOk
<1>3. CASE Final[n] = Sealed[n]
  <2>1. Sealed[n].v # Null BY <1>3, SealAssumption DEF IsTsWidget, LaterSigs
  <2> QED BY <1>1, <1>2, <1>3, <2>1 DEF WellFormed
<1>4. CASE Final[n] # Sealed[n]
  <2>1. Permitted(n) BY <1>4 DEF ObjectsOk, ObjectOk
  <2>2. /\ Final[n] \notin Streams /\ Final[n] \notin Arrays /\ Final[n] \notin Sigs
        /\ Final[n] \notin DssDicts /\ Final[n] \notin VriDicts
    BY <1>1, KindsApart
  <2>3. n \notin DssObjects
    <3>1. \A doc : n \in DssStruct(doc) /\ ~DssProblems(doc) => doc[n] \in DssDicts \cup VriDicts
      BY SealAssumption DEF DssStruct, DssProblems
    <3>2. ASSUME n \in DssStruct(Final) PROVE FALSE
      <4>1. DssProblems(Final) BY <2>2, <3>1, <3>2
      <4>2. n \in DssObjects BY <3>2 DEF DssObjects
      <4> QED BY <4>1, <4>2 DEF ObjectsOk
    <3>3. ASSUME NEW k \in Between, n \in DssStruct(revisions[k]), LeftBehind(n, k) PROVE FALSE
      BY <2>2, <3>1, <3>3 DEF LeftBehind
    <3> QED BY <3>2, <3>3 DEF DssObjects
  <2>4. CASE Streams \cap {Sealed[n], Final[n]} # {}
    <3>1. New(n) /\ Sealed[n] \in Streams BY <2>1, <2>2, <2>4 DEF Permitted
    <3> QED BY <3>1, SealAssumption DEF New, Objects
  <2>5. CASE Streams \cap {Sealed[n], Final[n]} = {} /\ n \in LaterSigs
    BY <2>1, <2>2, <2>3, <2>5 DEF Permitted
  <2>6. CASE Streams \cap {Sealed[n], Final[n]} = {} /\ n \notin LaterSigs /\ New(n)
    BY <1>1, <2>1, <2>2, <2>3, <2>6 DEF Permitted, WidgetOk
  <2>7. CASE Streams \cap {Sealed[n], Final[n]} = {} /\ n \notin LaterSigs /\ ~New(n)
    <3>1. Refreshed(n) BY <2>1, <2>2, <2>3, <2>7 DEF Permitted
    <3>2. Final[n] \notin Catalogs /\ Final[n] \notin Infos /\ Final[n] \notin Pages /\ Final[n] \notin Forms
      BY <1>1, KindsApart
    <3> QED BY <3>1, <3>2 DEF Refreshed
  <2> QED BY <2>4, <2>5, <2>6, <2>7
<1> QED BY <1>1, <1>3, <1>4

-----------------------------------------------------------------------------
(* What a reader sees.                                                     *)
LEMMA VisibleKept ==
  ASSUME ObjectsOk, NEW A \in SUBSET Nums, NEW B \in SUBSET Nums, A \subseteq B,
         \A a \in A : Sealed[a] \in Widgets,
         \A b \in B \ A : IsTsWidget(b)
  PROVE  Visible(Final, B) = Visible(Sealed, A)
<1> DEFINE Shown(doc, S) == {a \in S : ~(doc[a] \in Widgets /\ ~doc[a].visible)}
<1>1. Shown(Final, B) = Shown(Sealed, A)
  <2>1. \A a \in A : Final[a] = Sealed[a] BY Untouched
  <2>2. \A b \in B \ A : Final[b] \in Widgets /\ ~Final[b].visible BY TimestampInvisible
  <2> QED BY <2>1, <2>2
<1>2. ASSUME NEW a \in A PROVE Drawn(Final, a) = Drawn(Sealed, a)
  <2>1. Final[a] = Sealed[a] BY Untouched
  <2>2. ASSUME Sealed[a].ap # Null PROVE Final[Sealed[a].ap] = Sealed[Sealed[a].ap]
    <3>1. Sealed[a].ap \in Nums BY <2>2 DEF Widgets, Refs
    <3>2. Sealed[Sealed[a].ap] \in Streams BY <2>2, FinalTyped DEF ObjectsOk, WellFormed
    <3> QED BY <3>1, <3>2, Untouched
  <2> QED BY <2>1, <2>2 DEF Drawn
<1>3. Visible(Final, B) = {Drawn(Final, a) : a \in Shown(Final, B)} BY DEF Visible
<1>4. Visible(Sealed, A) = {Drawn(Sealed, a) : a \in Shown(Sealed, A)} BY DEF Visible
<1>5. Shown(Sealed, A) \subseteq A OBVIOUS
<1> HIDE DEF Shown
<1> QED BY <1>1, <1>2, <1>3, <1>4, <1>5

LEMMA CatalogKept ==
  ASSUME ObjectsOk
  PROVE  LET old == Sealed[Root]  new == Final[Root] IN
         /\ old \in Catalogs /\ new \in Catalogs /\ new.pages = old.pages /\ new.rest = old.rest
         /\ new.form = old.form /\ AcroFormAppended(old.inline, new.inline)
<1>1. Sealed[Root] \in Catalogs /\ Sealed[Root] \in Objects
  BY FinalTyped DEF ObjectsOk, WellFormed, Objects
<1>2. CASE Final[Root] = Sealed[Root] BY <1>1, <1>2 DEF AcroFormAppended
<1>3. CASE Final[Root] # Sealed[Root]
  <2>1. Refreshed(Root) BY <1>1, <1>3, Structure, SealAssumption
  <2>2. Sealed[Root] \notin Pages /\ Sealed[Root] \notin Forms BY <1>1, KindsApart
  <2>3. Final[Root] \in Catalogs /\ CatalogRefreshed(Sealed[Root], Final[Root])
    BY <2>1, <2>2, SealAssumption DEF Refreshed
  <2> QED BY <1>1, <2>3 DEF CatalogRefreshed
<1> QED BY <1>2, <1>3

LEMMA InfoKept == ASSUME ObjectsOk PROVE Final[Info].rest = Sealed[Info].rest
<1>1. Sealed[Info] \in Infos /\ Sealed[Info] \in Objects
  BY FinalTyped DEF ObjectsOk, WellFormed, Objects
<1>2. CASE Final[Info] # Sealed[Info]
  <2>1. Refreshed(Info) BY <1>1, <1>2, Structure, SealAssumption
  <2>2. Sealed[Info] \notin Pages /\ Sealed[Info] \notin Forms BY <1>1, KindsApart
  <2> QED BY <2>1, <2>2, SealAssumption DEF Refreshed
<1> QED BY <1>2

LEMMA PageKept ==
  ASSUME ObjectsOk, NEW p \in Sealed[Root].pages
  PROVE  /\ p \in Nums /\ Final[p] \in Pages
         /\ Final[p].contents = Sealed[p].contents /\ Final[p].rest = Sealed[p].rest
         /\ Sealed[p].annots \subseteq Final[p].annots
         /\ \A a \in Final[p].annots \ Sealed[p].annots : IsTsWidget(a)
<1>1. Sealed[p] \in Pages /\ Sealed[p] \in Objects /\ p \in Nums
  BY FinalTyped DEF ObjectsOk, WellFormed, Objects, Catalogs
<1>2. CASE Final[p] = Sealed[p] BY <1>1, <1>2
<1>3. CASE Final[p] # Sealed[p]
  <2>1. Refreshed(p) BY <1>1, <1>3, Structure
  <2>2. Sealed[p] \notin Forms /\ p # Root /\ p # Info
    <3>1. Sealed[Root] \in Catalogs /\ Sealed[Info] \in Infos
      BY FinalTyped DEF ObjectsOk, WellFormed
    <3> QED BY <1>1, <3>1, KindsApart
  <2> QED BY <1>1, <2>1, <2>2 DEF Refreshed, PageAnnotated
<1> QED BY <1>2, <1>3

LEMMA FormKept ==
  ASSUME ObjectsOk
  PROVE  /\ FormOf(Sealed) \in Forms /\ FormOf(Final) \in Forms
         /\ FormAppended(FormOf(Sealed), FormOf(Final))
<1>1. NoForm \in Forms BY DEF NoForm, Forms
<1>2. \A form : FormAppended(form, form) BY DEF FormAppended
<1>3. CASE Sealed[Root].form = Null
  <2>1. Sealed[Root].inline \in Forms \cup {Null} /\ Final[Root].inline \in Forms \cup {Null}
    BY CatalogKept DEF Catalogs
  <2>2. FormOf(Sealed) = IF Sealed[Root].inline # Null THEN Sealed[Root].inline ELSE NoForm
    BY <1>3 DEF FormOf
  <2>3. FormOf(Final) = IF Final[Root].inline # Null THEN Final[Root].inline ELSE NoForm
    BY <1>3, CatalogKept DEF FormOf
  <2>4. AcroFormAppended(Sealed[Root].inline, Final[Root].inline) BY CatalogKept
  <2>5. FormAppended(FormOf(Sealed), FormOf(Final))
    BY <1>2, <2>2, <2>3, <2>4 DEF AcroFormAppended
  <2> QED BY <1>1, <2>1, <2>2, <2>3, <2>5
<1>4. CASE Sealed[Root].form # Null
  <2> DEFINE at == Sealed[Root].form
  <2>1. at \in Nums BY <1>4, CatalogKept DEF Catalogs, Refs
  <2>2. Sealed[at] \in Forms /\ Sealed[at] \in Objects
    BY <1>4, FinalTyped DEF ObjectsOk, WellFormed, Objects
  <2>3. FormOf(Sealed) = Sealed[at] BY <1>4 DEF FormOf
  <2>4. FormOf(Final) = Final[at] BY <1>4, CatalogKept DEF FormOf
  <2> HIDE DEF at
  <2>5. CASE Final[at] = Sealed[at] BY <1>2, <2>2, <2>3, <2>4, <2>5
  <2>6. CASE Final[at] # Sealed[at]
    <3>1. Refreshed(at) BY <2>1, <2>2, <2>6, Structure
    <3>2. Sealed[at] \notin Pages /\ at # Root /\ at # Info
      <4>1. Sealed[Root] \in Catalogs /\ Sealed[Info] \in Infos
        BY FinalTyped DEF ObjectsOk, WellFormed
      <4> QED BY <2>2, <4>1, KindsApart
    <3> QED BY <2>2, <2>3, <2>4, <3>1, <3>2 DEF Refreshed
  <2> QED BY <2>5, <2>6
<1> QED BY <1>3, <1>4

LEMMA ViewKept == ASSUME ObjectsOk PROVE View(Final) = View(Sealed)
<1>0. WellFormed(Sealed) BY FinalTyped DEF ObjectsOk
<1> DEFINE Seen(doc, p) == <<p, doc[p].rest, doc[doc[p].contents], Visible(doc, doc[p].annots)>>
<1>1. ASSUME NEW p \in Sealed[Root].pages PROVE Seen(Final, p) = Seen(Sealed, p)
  <2>1. /\ Sealed[p] \in Pages /\ Sealed[Sealed[p].contents] \in Streams
        /\ \A a \in Sealed[p].annots : Sealed[a] \in Widgets
    BY <1>0 DEF WellFormed
  <2>2. Final[p] \in Pages /\ Final[p].rest = Sealed[p].rest
        /\ Final[p].contents = Sealed[p].contents
        /\ Sealed[p].annots \subseteq Final[p].annots
        /\ \A a \in Final[p].annots \ Sealed[p].annots : IsTsWidget(a)
    BY PageKept
  <2>3. /\ Sealed[p].contents \in Nums
        /\ Sealed[p].annots \in SUBSET Nums /\ Final[p].annots \in SUBSET Nums
    BY <2>1, <2>2 DEF Pages
  <2>4. Final[Sealed[p].contents] = Sealed[Sealed[p].contents] BY <2>1, <2>3, Untouched
  <2>5. Visible(Final, Final[p].annots) = Visible(Sealed, Sealed[p].annots)
    BY <2>1, <2>2, <2>3, VisibleKept
  <2> QED BY <2>2, <2>4, <2>5
<1>2. Final[Root].pages = Sealed[Root].pages /\ Final[Root].rest = Sealed[Root].rest BY CatalogKept
<1>3. {Seen(Final, p) : p \in Final[Root].pages} = {Seen(Sealed, p) : p \in Sealed[Root].pages}
  <2> HIDE DEF Seen
  <2> QED BY <1>1, <1>2
<1>4. Visible(Final, FormOf(Final).fields) = Visible(Sealed, FormOf(Sealed).fields)
  <2>1. \A a \in FormOf(Sealed).fields : Sealed[a] \in Widgets BY <1>0 DEF WellFormed
  <2>2. /\ FormOf(Sealed).fields \in SUBSET Nums /\ FormOf(Final).fields \in SUBSET Nums
        /\ FormOf(Sealed).fields \subseteq FormOf(Final).fields
        /\ \A f \in FormOf(Final).fields \ FormOf(Sealed).fields : IsTsWidget(f)
    BY FormKept DEF Forms, FormAppended
  <2> QED BY <2>1, <2>2, VisibleKept
<1>5. FormOf(Final).rest = FormOf(Sealed).rest BY FormKept DEF FormAppended
<1>6. Final[Info].rest = Sealed[Info].rest BY InfoKept
<1> QED BY <1>2, <1>3, <1>4, <1>5, <1>6 DEF View

LEMMA AcceptedView == ASSUME TypeOK, Accepted PROVE View(Final) = View(Sealed)
<1>1. CASE Len(revisions) = 1 BY <1>1 DEF Final, Sealed
<1>2. CASE Len(revisions) # 1
  <2>1. ObjectsOk BY <1>2 DEF Accepted, ObjectsOk
  <2> QED BY <2>1, ViewKept
<1> QED BY <1>1, <1>2

(* For every sealed document and whatever is appended to it, in any number *)
(* of revisions: what post_seal_changes accepts shows what was sealed.     *)
THEOREM AcceptedSound == Spec => []AcceptedShowsSealed
<1> DEFINE IInv == TypeOK /\ AcceptedShowsSealed
<1>1. Init => IInv
  <2> SUFFICES ASSUME Init PROVE AcceptedShowsSealed BY TypeInit
  <2> QED BY SealAssumption DEF Init, AcceptedShowsSealed
<1>2. IInv /\ [Next]_vars => IInv'
  <2> SUFFICES ASSUME IInv, [Next]_vars PROVE AcceptedShowsSealed' BY TypeStep
  <2>1. CASE Analyze
    <3>1. verdict' = Accepted /\ revisions' = revisions BY <2>1 DEF Analyze
    <3>2. Final' = Final /\ Sealed' = Sealed BY <3>1 DEF Final, Sealed
    <3>3. CASE Accepted
      <4>1. View(Final) = View(Sealed) BY <3>3, AcceptedView
      <4>2. View(Final)' = View(Sealed)' BY <3>2, <4>1 DEF View, Visible, Drawn, FormOf, NoForm
      <4> QED BY <4>2 DEF AcceptedShowsSealed
    <3>4. CASE ~Accepted
      <4>1. verdict' # TRUE BY <3>1, <3>4
      <4> QED BY <4>1 DEF AcceptedShowsSealed
    <3> QED BY <3>3, <3>4
  <2>2. CASE LongTermValidation \/ WriteObject \/ Spoil \/ AppendBytes
    <3>1. verdict' = Null
      BY <2>2 DEF LongTermValidation, AddTimestamp, AddDss, RenewDss, Renew, Open, WriteObject,
                  Spoil, AppendBytes
    <3> QED BY <3>1, SealAssumption DEF AcceptedShowsSealed
  <2>3. CASE UNCHANGED vars
    <3>1. verdict' = verdict /\ Final' = Final /\ Sealed' = Sealed
      BY <2>3 DEF vars, Final, Sealed
    <3>2. ASSUME View(Final) = View(Sealed) PROVE View(Final)' = View(Sealed)'
      BY <3>1, <3>2 DEF View, Visible, Drawn, FormOf, NoForm
    <3> QED BY <3>1, <3>2 DEF AcceptedShowsSealed
  <2> QED BY <2>1, <2>2, <2>3 DEF Next
<1>3. IInv => AcceptedShowsSealed OBVIOUS
<1> QED BY <1>1, <1>2, <1>3, PTL DEF Spec

-----------------------------------------------------------------------------
(* A renewal never costs a document its verdict.  First the numbers it      *)
(* writes: from /Size on nothing was ever written.                          *)
LEMMA Fresh ==
  ASSUME TypeOK, NEW n \in Nums, n >= Size
  PROVE  \A k \in 1..Len(revisions) : revisions[k][n] = Null
<1>1. PICK limit \in Nat : Nums \subseteq 1..limit
  <2>1. PICK last \in Nums : \A m \in Nums : m <= last
    BY SealAssumption
  <2>2. Nums \subseteq 1..last /\ last \in Nat
    BY <2>1, SealAssumption
  <2> QED
    BY <2>2
<1>2. Used \in SUBSET (1..limit)
  BY <1>1 DEF Used
<1>3. Root \in Used
  <2>1. 1 \in 1..Len(revisions) /\ Sealed[Root] \in Objects
    BY FinalTyped DEF TypeOK, WellFormed, Objects
  <2> QED
    BY <2>1, SealAssumption DEF Used, Sealed
<1>4. \E u \in Used : \A m \in Used : m <= u
  BY <1>1, <1>2, <1>3, Greatest
<1> DEFINE top == CHOOSE u \in Used : \A m \in Used : m <= u
<1>5. top \in Used /\ \A m \in Used : m <= top
  BY <1>4
<1>6. Size = 1 + top
  BY DEF Size
<1> HIDE DEF top
<1>7. n \notin Used
  BY <1>1, <1>2, <1>5, <1>6
<1> QED
  BY <1>7 DEF Used

LEMMA SizeIsNat == ASSUME TypeOK PROVE Size \in Nat
<1>1. PICK limit \in Nat : Nums \subseteq 1..limit
  <2>1. PICK last \in Nums : \A m \in Nums : m <= last
    BY SealAssumption
  <2>2. Nums \subseteq 1..last /\ last \in Nat
    BY <2>1, SealAssumption
  <2> QED
    BY <2>2
<1>2. Used \in SUBSET (1..limit)
  BY <1>1 DEF Used
<1>3. Root \in Used
  <2>1. 1 \in 1..Len(revisions) /\ Sealed[Root] \in Objects
    BY FinalTyped DEF TypeOK, WellFormed, Objects
  <2> QED
    BY <2>1, SealAssumption DEF Used, Sealed
<1>4. \E u \in Used : \A m \in Used : m <= u
  BY <1>1, <1>2, <1>3, Greatest
<1> DEFINE top == CHOOSE u \in Used : \A m \in Used : m <= u
<1>5. top \in Used
  BY <1>4
<1>6. Size = 1 + top
  BY DEF Size
<1> HIDE DEF top
<1> QED
  BY <1>1, <1>2, <1>5, <1>6

-----------------------------------------------------------------------------
(* The next revision.                                                       *)
LEMMA NextRevision ==
  ASSUME TypeOK, NEW doc \in Documents, Renew(doc)
  PROVE  /\ Final' = doc /\ Sealed' = Sealed /\ Len(revisions') = Len(revisions) + 1
         /\ \A k \in 1..Len(revisions) : revisions'[k] = revisions[k]
         /\ revisions'[Len(revisions) + 1] = doc
         /\ Len(revisions) \in Nat \ {0} /\ Final = revisions[Len(revisions)] /\ Sealed = revisions[1]
<1>1. revisions \in Seq(Documents) /\ Len(revisions) \in Nat \ {0} /\ revisions' = Append(revisions, doc)
  BY DEF TypeOK, Renew
<1> QED
  BY <1>1 DEF Final, Sealed

(* Signatures are never forgotten, and new ones are among what is written.  *)
LEMMA LaterSigsNext ==
  ASSUME TypeOK, NEW doc \in Documents, Renew(doc)
  PROVE  /\ LaterSigs \subseteq LaterSigs'
         /\ \A n \in Nums : doc[n] \in Sigs \ {Sealed[n]} => n \in LaterSigs'
         /\ \A n \in LaterSigs' : n \in LaterSigs \/ (doc[n] # Final[n] /\ doc[n] \in Sigs)
<1>1. /\ Sealed' = Sealed /\ Len(revisions') = Len(revisions) + 1 /\ Len(revisions) \in Nat \ {0}
      /\ \A k \in 1..Len(revisions) : revisions'[k] = revisions[k]
      /\ revisions'[Len(revisions) + 1] = doc /\ Final = revisions[Len(revisions)] /\ Sealed = revisions[1]
  BY NextRevision
<1>2. ASSUME NEW n \in LaterSigs PROVE n \in LaterSigs'
  <2>1. PICK k \in 2..Len(revisions) : revisions[k][n] \in Sigs \ {Sealed[n]}
    BY DEF LaterSigs
  <2>2. k \in 2..Len(revisions') /\ revisions'[k][n] = revisions[k][n] /\ n \in Nums
    BY <1>1, <2>1 DEF LaterSigs
  <2> QED
    BY <1>1, <2>1, <2>2 DEF LaterSigs
<1>3. ASSUME NEW n \in Nums, doc[n] \in Sigs \ {Sealed[n]} PROVE n \in LaterSigs'
  <2>1. Len(revisions) + 1 \in 2..Len(revisions')
    BY <1>1
  <2> QED
    BY <1>1, <1>3, <2>1 DEF LaterSigs
<1>4. ASSUME NEW n \in LaterSigs', n \notin LaterSigs PROVE doc[n] # Final[n] /\ doc[n] \in Sigs
  <2>1. PICK k \in 2..Len(revisions') : revisions'[k][n] \in Sigs \ {Sealed[n]}
    BY <1>1 DEF LaterSigs
  <2>2. n \in Nums
    BY DEF LaterSigs
  <2>3. k = Len(revisions) + 1
    <3>1. ASSUME k # Len(revisions) + 1 PROVE FALSE
      <4>1. k \in 2..Len(revisions) /\ k \in 1..Len(revisions)
        BY <1>1, <3>1
      <4> QED
        BY <1>1, <1>4, <2>1, <2>2, <4>1 DEF LaterSigs
    <3> QED
      BY <3>1
  <2>4. doc[n] \in Sigs \ {Sealed[n]}
    BY <1>1, <2>1, <2>3
  <2>5. CASE Len(revisions) = 1
    BY <1>1, <2>4, <2>5
  <2>6. CASE Len(revisions) # 1
    <3>1. Len(revisions) \in 2..Len(revisions)
      <4> DEFINE l == Len(revisions)
      <4>1. l \in Nat \ {0} /\ l # 1
        BY <1>1, <2>6
      <4> HIDE DEF l
      <4>2. l \in 2..l
        BY <4>1
      <4> QED
        BY <4>2 DEF l
    <3> QED
      BY <1>1, <1>4, <2>2, <2>4, <3>1 DEF LaterSigs
  <2> QED
    BY <2>4, <2>5, <2>6
<1> QED
  BY <1>2, <1>3, <1>4

LEMMA TsWidgetKept ==
  ASSUME TypeOK, NEW doc \in Documents, Renew(doc), NEW n, doc[n] = Final[n], IsTsWidget(n)
  PROVE  IsTsWidget(n)'
<1>1. Final' = doc /\ LaterSigs \subseteq LaterSigs'
  BY NextRevision, LaterSigsNext
<1> QED
  BY <1>1 DEF IsTsWidget

(* What a well-formed DSS is made of is of the kinds a DSS is made of.      *)
LEMMA DssKinds ==
  ASSUME NEW doc, ~DssProblems(doc)
  PROVE  /\ \A n \in DssStruct(doc) : doc[n] \in DssDicts \cup VriDicts
         /\ \A n \in DssStreams(doc) : DataStream(doc[n])
BY DEF DssStruct, DssProblems, DssStreams

LEMMA DssLeftBehind ==
  ASSUME TypeOK, NEW doc \in Documents, Renew(doc), NEW n \in Nums
  PROVE  /\ Len(revisions) # 1 /\ ~DssProblems(Final) /\ doc[n] = Final[n] =>
              (n \in DssObjects => n \in DssObjects') /\ (n \in DssData => n \in DssData')
         /\ n \in DssObjects' =>
              n \in DssStruct(doc) \/ (doc[n] \in DssDicts \cup VriDicts /\ (doc[n] = Final[n] => n \in DssObjects))
         /\ n \in DssStruct(doc) => n \in DssObjects'
         /\ n \in DssStreams(doc) => n \in DssData'
<1> PICK l \in Nat \ {0} : l = Len(revisions)
  BY DEF TypeOK
<1>1. /\ Final' = doc /\ Len(revisions') = l + 1 /\ Final = revisions[l]
      /\ \A k \in 1..l : revisions'[k] = revisions[k]
  BY NextRevision
<1>2. n \in DssStruct(doc) => n \in DssObjects'
  BY <1>1 DEF DssObjects
<1>3. n \in DssStreams(doc) => n \in DssData'
  BY <1>1 DEF DssData
<1>4. Between' = 2..l /\ Between = 2..(l - 1) /\ Between' \subseteq 1..l
  BY <1>1 DEF Between
<1>5. ASSUME NEW k \in 2..l PROVE LeftBehind(n, k)' <=> ~DssProblems(revisions[k]) /\ revisions[k][n] = doc[n]
  BY <1>1, <1>4, <1>5 DEF LeftBehind
<1>6. ASSUME l # 1, ~DssProblems(Final), doc[n] = Final[n]
      PROVE  (n \in DssObjects => n \in DssObjects') /\ (n \in DssData => n \in DssData')
  <2>1. l \in 2..l
    BY <1>6
  <2>2. LeftBehind(n, l)' /\ revisions'[l] = Final
    BY <1>1, <1>4, <1>5, <1>6, <2>1
  <2>3. ASSUME NEW k \in Between, LeftBehind(n, k)
        PROVE  k \in Between' /\ LeftBehind(n, k)' /\ revisions'[k] = revisions[k]
    BY <1>1, <1>4, <1>5, <1>6, <2>3 DEF LeftBehind
  <2>4. ASSUME n \in DssObjects PROVE n \in DssObjects'
    <3>1. CASE n \in DssStruct(Final)
      BY <1>4, <2>1, <2>2, <3>1 DEF DssObjects
    <3>2. CASE \E k \in Between : n \in DssStruct(revisions[k]) /\ LeftBehind(n, k)
      <4>1. PICK k \in Between : n \in DssStruct(revisions[k]) /\ LeftBehind(n, k)
        BY <3>2
      <4> QED
        BY <2>3, <4>1 DEF DssObjects
    <3> QED
      BY <2>4, <3>1, <3>2 DEF DssObjects
  <2>5. ASSUME n \in DssData PROVE n \in DssData'
    <3>1. CASE n \in DssStreams(Final)
      BY <1>4, <2>1, <2>2, <3>1 DEF DssData
    <3>2. CASE \E k \in Between : n \in DssStreams(revisions[k]) /\ LeftBehind(n, k)
      <4>1. PICK k \in Between : n \in DssStreams(revisions[k]) /\ LeftBehind(n, k)
        BY <3>2
      <4> QED
        BY <2>3, <4>1 DEF DssData
    <3> QED
      BY <2>5, <3>1, <3>2 DEF DssData
  <2> QED
    BY <2>4, <2>5
<1>7. ASSUME n \in DssObjects', n \notin DssStruct(doc)
      PROVE  doc[n] \in DssDicts \cup VriDicts /\ (doc[n] = Final[n] => n \in DssObjects)
  <2>1. PICK k \in 2..l : n \in DssStruct(revisions'[k]) /\ LeftBehind(n, k)'
    BY <1>1, <1>4, <1>7 DEF DssObjects
  <2>2. n \in DssStruct(revisions[k]) /\ ~DssProblems(revisions[k]) /\ revisions[k][n] = doc[n]
    BY <1>1, <1>4, <1>5, <2>1
  <2>3. doc[n] \in DssDicts \cup VriDicts
    BY <2>2, DssKinds
  <2>4. ASSUME doc[n] = Final[n] PROVE n \in DssObjects
    <3>1. CASE k = l
      BY <1>1, <2>2, <3>1 DEF DssObjects
    <3>2. CASE k # l
      <4>1. k \in Between
        BY <1>4, <3>2
      <4> QED
        BY <2>2, <2>4, <4>1 DEF DssObjects, LeftBehind
    <3> QED
      BY <3>1, <3>2
  <2> QED
    BY <2>3, <2>4
<1> QED
  BY <1>2, <1>3, <1>6, <1>7

-----------------------------------------------------------------------------
(* A document that may be renewed, and a renewal: doc is the next revision, *)
(* C what it writes, none of it a widget or a stream that was there.        *)
Renewable == ObjectsOk /\ Sound
OddInv == Len(revisions) = 1 => oddities = {}
Renewal(doc, C) ==
  /\ doc \in Documents /\ Renew(doc)
  /\ \A n \in Nums \ C : doc[n] = Final[n] /\ (n \in DssStruct(doc) => n \in DssStruct(Final))
  /\ \A n \in C : Final[n] \notin Streams \cup Widgets

LEMMA AppearancesKept ==
  ASSUME TypeOK, NEW doc, NEW C, Renewal(doc, C)
  PROVE  WidgetAppearances \subseteq WidgetAppearances'
<1>1. doc \in Documents /\ Renew(doc) /\ Final' = doc /\ Sealed' = Sealed
  BY NextRevision DEF Renewal
<1>2. ASSUME NEW m \in Nums, New(m), IsTsWidget(m), WidgetOk(Final[m])
      PROVE  Final[m].ap \in WidgetAppearances'
  <2>1. doc[m] = Final[m]
    BY <1>2 DEF Renewal, IsTsWidget
  <2>2. IsTsWidget(m)' /\ New(m)' /\ WidgetOk(Final[m])'
    BY <1>1, <1>2, <2>1, TsWidgetKept DEF New, WidgetOk
  <2> QED
    BY <1>1, <2>1, <2>2 DEF WidgetAppearances
<1> QED
  BY <1>2 DEF WidgetAppearances

LEMMA FormAppendedKept ==
  ASSUME TypeOK, NEW doc, NEW C, Renewal(doc, C),
         NEW old, NEW new, new.fields \in SUBSET Nums, FormAppended(old, new)
  PROVE  FormAppended(old, new)'
<1>1. ASSUME NEW f \in new.fields \ old.fields PROVE IsTsWidget(f)'
  <2>1. IsTsWidget(f) /\ f \in Nums
    BY DEF FormAppended
  <2>2. doc[f] = Final[f]
    BY <2>1 DEF Renewal, IsTsWidget
  <2> QED
    BY <2>1, <2>2, TsWidgetKept DEF Renewal
<1> QED
  BY <1>1 DEF FormAppended

LEMMA RefreshedKept ==
  ASSUME Renewable, NEW doc, NEW C, Renewal(doc, C),
         NEW n \in Nums \ C, Refreshed(n)
  PROVE  Refreshed(n)'
<1>1. Final' = doc /\ Sealed' = Sealed /\ doc[n] = Final[n] /\ TypeOK
  BY NextRevision DEF Renewal, Renewable, ObjectsOk
<1>2. CASE n = Root /\ Final[n] \in Catalogs /\ CatalogRefreshed(Sealed[n], Final[n])
  <2>1. AcroFormAppended(Sealed[n].inline, Final[n].inline)
    BY <1>2 DEF CatalogRefreshed
  <2>2. AcroFormAppended(Sealed[n].inline, Final[n].inline)'
    <3>1. CASE Final[n].inline = Sealed[n].inline
      BY <1>1, <3>1 DEF AcroFormAppended
    <3>2. CASE Final[n].inline # Null /\ Final[n].inline # Sealed[n].inline
      <4>1. Final[n].inline.fields \in SUBSET Nums
        BY <1>2, <3>2 DEF Catalogs, Forms
      <4> DEFINE old == IF Sealed[n].inline = Null THEN NoForm ELSE Sealed[n].inline
                 new == Final[n].inline
      <4>2. FormAppended(old, new)
        BY <2>1, <3>2 DEF AcroFormAppended
      <4>3. PICK o, w : o = old /\ w = new
        OBVIOUS
      <4>4. FormAppended(o, w)'
        BY <1>1, <4>1, <4>2, <4>3, FormAppendedKept
      <4> QED
        BY <1>1, <3>2, <4>3, <4>4 DEF AcroFormAppended, NoForm
    <3> QED
      BY <2>1, <3>1, <3>2 DEF AcroFormAppended
  <2> QED
    BY <1>1, <1>2, <2>2 DEF Refreshed, CatalogRefreshed
<1>3. CASE n = Info /\ Final[n] \in Infos /\ Final[n].rest = Sealed[n].rest
  BY <1>1, <1>3 DEF Refreshed
<1>4. CASE Sealed[n] \in Pages /\ Final[n] \in Pages /\ PageAnnotated(Sealed[n], Final[n])
  <2>1. ASSUME NEW a \in Final[n].annots \ Sealed[n].annots PROVE IsTsWidget(a)'
    <3>1. IsTsWidget(a) /\ a \in Nums
      BY <1>4 DEF PageAnnotated, Pages
    <3>2. doc[a] = Final[a]
      BY <3>1 DEF Renewal, IsTsWidget
    <3> QED
      BY <1>1, <3>1, <3>2, TsWidgetKept DEF Renewal
  <2> QED
    BY <1>1, <1>4, <2>1 DEF Refreshed, PageAnnotated
<1>5. CASE Sealed[n] \in Forms /\ Final[n] \in Forms /\ FormAppended(Sealed[n], Final[n])
  <2>1. Final[n].fields \in SUBSET Nums
    BY <1>5 DEF Forms
  <2>2. PICK o, w : o = Sealed[n] /\ w = Final[n]
    OBVIOUS
  <2>3. FormAppended(o, w)'
    BY <1>1, <1>5, <2>1, <2>2, FormAppendedKept
  <2> QED
    BY <1>1, <1>5, <2>2, <2>3 DEF Refreshed
<1> QED
  BY <1>2, <1>3, <1>4, <1>5 DEF Refreshed

(* What a renewal leaves alone stays permitted.                             *)
LEMMA ObjectKept ==
  ASSUME Renewable, NEW doc, NEW C, Renewal(doc, C), NEW n \in Nums \ C
  PROVE  ObjectOk(n)'
<1>1. /\ doc \in Documents /\ Renew(doc) /\ TypeOK /\ doc[n] = Final[n]
      /\ n \in DssStruct(doc) => n \in DssStruct(Final)
  BY DEF Renewal, Renewable, ObjectsOk
<1>2. Final' = doc /\ Sealed' = Sealed /\ (Len(revisions) = 1 => Final = Sealed)
  BY <1>1, NextRevision
<1>3. CASE Final[n] = Sealed[n]
  BY <1>1, <1>2, <1>3 DEF ObjectOk
<1>4. CASE Final[n] # Sealed[n]
  <2>1. Len(revisions) # 1 /\ ~DssProblems(Final)
    BY <1>2, <1>4 DEF Renewable, Sound
  <2>2. Final[n] # Null /\ Permitted(n)
    BY <1>4 DEF Renewable, ObjectsOk, ObjectOk
  <2>3. (n \in DssObjects <=> n \in DssObjects') /\ (n \in DssData => n \in DssData')
    BY <1>1, <2>1, DssLeftBehind DEF DssObjects
  <2>4. n \in LaterSigs <=> n \in LaterSigs'
    BY <1>1, LaterSigsNext
  <2>5. New(n)' = New(n) /\ (WasDss(n)' <=> WasDss(n))
    BY <1>2 DEF New, WasDss
  <2>6. WidgetAppearances \subseteq WidgetAppearances'
    BY <1>1, AppearancesKept
  <2>7. IsTsWidget(n) => IsTsWidget(n)'
    BY <1>1, TsWidgetKept
  <2>8. Refreshed(n) => Refreshed(n)'
    BY RefreshedKept
  <2>9. Final'[n] = Final[n] /\ Sealed'[n] = Sealed[n]
    BY <1>1, <1>2
  <2>10. NewStreamOk(n) => NewStreamOk(n)'
    BY <2>3, <2>6, <2>9 DEF NewStreamOk
  <2>11. Permitted(n)'
    <3>1. CASE Streams \cap {Sealed[n], Final[n]} # {}
      BY <2>2, <2>5, <2>9, <2>10, <3>1 DEF Permitted
    <3>2. CASE Streams \cap {Sealed[n], Final[n]} = {} /\ n \in DssObjects
      BY <2>2, <2>3, <2>5, <2>9, <3>2 DEF Permitted
    <3>3. CASE Streams \cap {Sealed[n], Final[n]} = {} /\ n \notin DssObjects
      BY <2>2, <2>3, <2>4, <2>5, <2>7, <2>8, <2>9, <3>3 DEF Permitted
    <3> QED
      BY <3>1, <3>2, <3>3
  <2> QED
    BY <2>2, <2>9, <2>11 DEF ObjectOk
<1> QED
  BY <1>3, <1>4

(* The verdict on the next revision, from the objects that were written.    *)
LEMMA RenewalAccepted ==
  ASSUME Renewable, NEW doc, NEW C, Renewal(doc, C), ~DssProblems(doc),
         \A n \in C : ObjectOk(n)',
         oddities = {}, tail # "junk", Len(revisions) <= MaxRevisions
  PROVE  Accepted'
<1>1. /\ Final' = doc /\ Len(revisions') = Len(revisions) + 1 /\ Len(revisions) \in Nat \ {0}
      /\ oddities' = oddities /\ tail' = tail
  BY NextRevision DEF Renewal, Renewable, ObjectsOk, Renew
<1>2. \A n \in Nums : ObjectOk(n)'
  BY ObjectKept
<1>3. ~DssProblems(Final)'
  BY <1>1 DEF DssProblems, DssRefs, DssNum
<1>4. Len(revisions') # 1 /\ Len(revisions') - 1 <= MaxRevisions
  BY <1>1, SealAssumption
<1> QED
  BY <1>1, <1>2, <1>3, <1>4 DEF Accepted

-----------------------------------------------------------------------------
(* What each of the three writers writes.                                   *)
LEMMA FreshNumber ==
  ASSUME TypeOK, NEW n \in Nums, n >= Size
  PROVE  Final[n] = Null /\ New(n) /\ n \notin LaterSigs
<1>1. Final = revisions[Len(revisions)] /\ Sealed = revisions[1] /\ Len(revisions) \in Nat \ {0}
  BY DEF TypeOK, Final, Sealed
<1>2. \A k \in 1..Len(revisions) : revisions[k][n] = Null
  BY Fresh
<1>3. Null \notin Sigs
  BY SealAssumption DEF Objects
<1> QED
  BY <1>1, <1>2, <1>3 DEF New, LaterSigs

LEMMA AppendedTyped ==
  ASSUME TypeOK, TypeOK', NEW doc, Renew(doc)
  PROVE  doc \in Documents
<1>1. revisions' = Append(revisions, doc) /\ revisions \in Seq(Documents) /\ revisions' \in Seq(Documents)
  BY DEF TypeOK, Renew
<1>2. Len(revisions') = Len(revisions) + 1 /\ Len(revisions) \in Nat /\ revisions'[Len(revisions) + 1] = doc
  BY <1>1
<1>3. Len(revisions) + 1 \in 1..Len(revisions')
  BY <1>2
<1> QED
  BY <1>1, <1>2, <1>3

TsSig == [kind |-> "Sig", plain |-> TRUE]
TsField(s, a) ==
  [kind |-> "Widget", v |-> s, ap |-> a, visible |-> FALSE, usual |-> TRUE, rest |-> SomeMark]
TsAppearance == [kind |-> "Stream", type |-> "Form", data |-> SomeMark]
TimestampWritten(doc, s, w, a, p, c) ==
  /\ doc \in Documents /\ Renew(doc) /\ p \in Final[Root].pages
  /\ {s, w, a} \subseteq Nums /\ s >= Size /\ w >= Size /\ a >= Size
  /\ doc[s] = TsSig /\ doc[w] = TsField(s, a) /\ doc[a] = TsAppearance
  /\ doc[p] = [Final[p] EXCEPT !.annots = @ \cup {w}]
  /\ LET form == [FormOf(Final) EXCEPT !.fields = @ \cup {w}] IN
     IF Final[Root].form # Null THEN c = Final[Root].form /\ doc[c] = form
     ELSE c = Root /\ doc[c] = [Final[Root] EXCEPT !.inline = form]
  /\ \A n \in Nums \ {s, w, a, p, c} : doc[n] = Final[n]

LEMMA TimestampWrites ==
  ASSUME ObjectsOk, AddTimestamp
  PROVE  Open /\ \E doc, s, w, a, p, c : TimestampWritten(doc, s, w, a, p, c)
<1> PICK s \in Nat : s = Size
  BY SizeIsNat DEF ObjectsOk
<1> DEFINE w == s + 1
           a == s + 2
           form == [FormOf(Final) EXCEPT !.fields = @ \cup {w}]
           at == Final[Root].form
           page(p) == [Final[p] EXCEPT !.annots = @ \cup {w}]
           catalog == [Final[Root] EXCEPT !.inline = form]
           signed(p) == [Final EXCEPT ![s] = TsSig, ![w] = TsField(s, a), ![a] = TsAppearance, ![p] = page(p)]
           doc(p) == IF at # Null THEN [signed(p) EXCEPT ![at] = form] ELSE [signed(p) EXCEPT ![Root] = catalog]
<1>1. PICK p \in Final[Root].pages :
        /\ Open /\ {s, w, a} \subseteq Nums
        /\ Final[Root] \in Catalogs /\ Final[p] \in Pages /\ FormOf(Final) \in Forms
        /\ Renew(doc(p))
  BY DEF AddTimestamp, TsSig, TsField, TsAppearance
<1>2. /\ TypeOK /\ Final \in Documents /\ p \in Nums /\ at \in Nums \cup {Null} /\ Root \in Nums
      /\ doc(p) \in Documents
  <2>1. TypeOK /\ TypeOK'
    BY AddTimestampTyped DEF ObjectsOk
  <2>2. p \in Nums /\ at \in Nums \cup {Null}
    BY <1>1 DEF Catalogs, Refs
  <2> HIDE DEF doc
  <2> QED
    BY <1>1, <2>1, <2>2, FinalTyped, AppendedTyped, SealAssumption
<1>3. Final[s] = Null /\ Final[w] = Null /\ Final[a] = Null /\ s >= Size /\ w >= Size /\ a >= Size
  BY <1>1, <1>2, FreshNumber
<1>4. /\ Final[p] \in Objects /\ Final[p].kind = "Page" /\ Final[Root] \in Objects /\ Final[Root].kind = "Catalog"
      /\ p # Root
  BY <1>1 DEF Pages, Catalogs, Objects
<1>5. at # Null => Final[at] = FormOf(Final) /\ Final[at] \in Objects /\ at # p /\ at # Root
  BY <1>1 DEF FormOf, Forms, Pages, Catalogs, Objects
<1>6. s # w /\ s # a /\ w # a
  OBVIOUS
<1>7. /\ {s, w, a} \cap {p, Root} = {} /\ (at # Null => at \notin {s, w, a})
  BY <1>3, <1>4, <1>5, SealAssumption
<1> HIDE DEF w, a, form, page, catalog, at
<1>8. signed(p)[s] = TsSig /\ signed(p)[w] = TsField(s, a) /\ signed(p)[a] = TsAppearance /\ signed(p)[p] = page(p)
      /\ \A n \in Nums \ {s, w, a, p} : signed(p)[n] = Final[n]
  BY <1>1, <1>2, <1>6, <1>7 DEF Documents
<1>9. DOMAIN signed(p) = Nums
  BY <1>2 DEF Documents
<1> HIDE DEF signed
<1>10. CASE at # Null
  <2>1. /\ doc(p)[s] = TsSig /\ doc(p)[w] = TsField(s, a) /\ doc(p)[a] = TsAppearance /\ doc(p)[p] = page(p)
        /\ doc(p)[at] = form /\ \A n \in Nums \ {s, w, a, p, at} : doc(p)[n] = Final[n]
    BY <1>1, <1>2, <1>5, <1>7, <1>8, <1>9, <1>10
  <2> HIDE DEF doc
  <2>2. TimestampWritten(doc(p), s, w, a, p, at)
    BY <1>1, <1>2, <1>3, <1>10, <2>1 DEF TimestampWritten, form, page, at
  <2> QED
    BY <1>1, <2>2
<1>11. CASE at = Null
  <2>1. /\ doc(p)[s] = TsSig /\ doc(p)[w] = TsField(s, a) /\ doc(p)[a] = TsAppearance /\ doc(p)[p] = page(p)
        /\ doc(p)[Root] = catalog /\ \A n \in Nums \ {s, w, a, p, Root} : doc(p)[n] = Final[n]
    BY <1>1, <1>2, <1>4, <1>7, <1>8, <1>9, <1>11
  <2> HIDE DEF doc
  <2>2. TimestampWritten(doc(p), s, w, a, p, Root)
    BY <1>1, <1>2, <1>3, <1>11, <2>1 DEF TimestampWritten, form, page, at, catalog
  <2> QED
    BY <1>1, <2>2
<1> QED
  BY <1>10, <1>11

-----------------------------------------------------------------------------
(* A document time-stamp.                                                   *)
LEMMA DssUntouched ==
  ASSUME NEW doc, NEW old \in Documents, NEW C, \A n \in Nums \ C : doc[n] = old[n],
         \A n \in C : old[n] \notin Streams \cup DssDicts \cup VriDicts,
         DssNum(doc) = DssNum(old), ~DssProblems(old)
  PROVE  DssStruct(doc) = DssStruct(old) /\ ~DssProblems(doc)
<1>1. CASE DssNum(old) = Null
  BY <1>1 DEF DssStruct, DssProblems
<1>2. CASE DssNum(old) # Null
  <2> PICK d : d = DssNum(old)
    OBVIOUS
  <2>1. /\ old[d] \in DssDicts /\ old[d].usual /\ \A v \in old[d].vri : old[v] \in VriDicts /\ old[v].usual
        /\ \A n \in DssRefs(old) : DataStream(old[n])
    BY <1>2 DEF DssProblems
  <2>2. d \in Nums
    BY <1>2 DEF DssNum, Catalogs, Refs
  <2>3. old[d].certs \in SUBSET Nums /\ old[d].vri \in SUBSET Nums
    BY <2>1 DEF DssDicts
  <2>4. doc[d] = old[d] /\ \A v \in old[d].vri : doc[v] = old[v]
    BY <2>1, <2>2, <2>3
  <2>5. DssRefs(doc) = DssRefs(old)
    BY <2>4 DEF DssRefs
  <2>6. DssRefs(old) \subseteq Nums
    <3>1. \A v \in old[d].vri : old[v].certs \in SUBSET Nums
      BY <2>1 DEF VriDicts
    <3> QED
      BY <2>3, <3>1 DEF DssRefs
  <2>7. \A n \in DssRefs(old) : doc[n] = old[n]
    BY <2>1, <2>6 DEF DataStream
  <2>8. ~DssProblems(doc)
    BY <2>1, <2>4, <2>5, <2>7 DEF DssProblems
  <2> QED
    BY <2>4, <2>8 DEF DssStruct
<1> QED
  BY <1>1, <1>2

LEMMA TimestampParts ==
  ASSUME ObjectsOk, NEW doc, NEW s, NEW w, NEW a, NEW p, NEW c, TimestampWritten(doc, s, w, a, p, c)
  PROVE  /\ \A n \in {s, w, a} : Final[n] = Null /\ New(n) /\ n \notin LaterSigs
         /\ {s, w, a, p, c, Root} \subseteq Nums
         /\ Final[p] \in Pages /\ Final[Root] \in Catalogs /\ FormOf(Final) \in Forms
         /\ (Final[Root].form # Null => c # Root /\ Final[c] = FormOf(Final))
         /\ TypeOK /\ Final \in Documents
<1>1. TypeOK /\ Final \in Documents
  BY FinalTyped DEF ObjectsOk
<1>2. \A n \in {s, w, a} : Final[n] = Null /\ New(n) /\ n \notin LaterSigs
  BY <1>1, FreshNumber DEF TimestampWritten
<1>3. Final[Root] \in Catalogs /\ Final[Root].pages = Sealed[Root].pages
  BY CatalogKept
<1>4. p \in Nums /\ Final[p] \in Pages
  BY <1>3, PageKept DEF TimestampWritten
<1>5. FormOf(Final) \in Forms
  BY FormKept
<1>6. Final[Root].form # Null => c # Root /\ Final[c] = FormOf(Final) /\ c \in Nums
  <2> HAVE Final[Root].form # Null
  <2>1. c = Final[Root].form /\ FormOf(Final) = Final[c]
    BY DEF TimestampWritten, FormOf
  <2>2. c \in Nums
    BY <1>3, <2>1 DEF Catalogs, Refs
  <2>3. c # Root
    BY <1>3, <1>5, <2>1 DEF Forms, Catalogs
  <2> QED
    BY <2>1, <2>2, <2>3
<1>7. c \in Nums /\ Root \in Nums
  BY <1>6, SealAssumption DEF TimestampWritten
<1> QED
  BY <1>1, <1>2, <1>3, <1>4, <1>5, <1>6, <1>7 DEF TimestampWritten

LEMMA NotDss ==
  ASSUME NEW obj, obj = Null \/ obj \in Catalogs \cup Pages \cup Forms
  PROVE  obj \notin Streams \cup Widgets \cup DssDicts \cup VriDicts \cup Sigs \cup Arrays
<1>1. CASE obj = Null
  BY <1>1, SealAssumption DEF Objects
<1>2. CASE obj \in Catalogs \cup Pages \cup Forms
  BY <1>2 DEF Streams, Widgets, DssDicts, VriDicts, Sigs, Arrays, Catalogs, Pages, Forms
<1> QED
  BY <1>1, <1>2

LEMMA TimestampRenewal ==
  ASSUME Renewable, NEW doc, NEW s, NEW w, NEW a, NEW p, NEW c, TimestampWritten(doc, s, w, a, p, c)
  PROVE  Renewal(doc, {s, w, a, p, c}) /\ ~DssProblems(doc) /\ DssStruct(doc) = DssStruct(Final)
<1> DEFINE C == {s, w, a, p, c}
<1>1. /\ \A n \in {s, w, a} : Final[n] = Null
      /\ Final[p] \in Pages /\ Final[Root] \in Catalogs /\ FormOf(Final) \in Forms
      /\ Final[Root].form # Null => c # Root /\ Final[c] = FormOf(Final)
      /\ Final \in Documents /\ ~DssProblems(Final)
  BY TimestampParts DEF Renewable, Sound
<1>2. Final[c] \in Forms \cup Catalogs
  BY <1>1 DEF TimestampWritten
<1>3. \A n \in C : Final[n] \notin Streams \cup Widgets \cup DssDicts \cup VriDicts
  BY <1>1, <1>2, NotDss
<1>4. \A n \in Nums \ C : doc[n] = Final[n]
  BY DEF TimestampWritten
<1>5. doc[Root] \in Catalogs /\ doc[Root].dss = Final[Root].dss
  <2>1. CASE Final[Root].form # Null
    <3>1. Root \notin C
      <4>1. Final[Root].kind = "Catalog" /\ Final[p].kind = "Page" /\ Null \notin Catalogs
        BY <1>1, SealAssumption DEF Catalogs, Pages, Objects
      <4> QED
        BY <1>1, <2>1, <4>1
    <3> QED
      BY <1>1, <1>4, <3>1, SealAssumption
  <2>2. CASE Final[Root].form = Null
    <3> DEFINE form == [FormOf(Final) EXCEPT !.fields = @ \cup {w}]
    <3>1. form \in Forms
      BY <1>1 DEF TimestampWritten, Forms
    <3>2. doc[Root] = [Final[Root] EXCEPT !.inline = form]
      BY <2>2 DEF TimestampWritten
    <3> HIDE DEF form
    <3> QED
      BY <1>1, <3>1, <3>2 DEF Catalogs
  <2> QED
    BY <2>1, <2>2
<1>6. DssNum(doc) = DssNum(Final)
  BY <1>1, <1>5 DEF DssNum
<1>7. DssStruct(doc) = DssStruct(Final) /\ ~DssProblems(doc)
  <2> HIDE DEF C
  <2> QED
    BY <1>1, <1>3, <1>4, <1>6, DssUntouched
<1> QED
  BY <1>3, <1>4, <1>7 DEF Renewal, TimestampWritten

(* A renewal's next revision has no DSS objects but dictionaries of a DSS.  *)
LEMMA DssObjectsNext ==
  ASSUME TypeOK, NEW doc \in Documents, Renew(doc), ~DssProblems(doc), NEW n \in DssObjects'
  PROVE  doc[n] \in DssDicts \cup VriDicts
<1>1. n \in DssStruct(doc) => doc[n] \in DssDicts \cup VriDicts
  BY DssKinds
<1>2. DssStruct(doc) \subseteq Nums
  <2>1. ASSUME DssNum(doc) # Null PROVE DssNum(doc) \in Nums
    BY <2>1 DEF DssNum, Catalogs, Refs
  <2>2. ASSUME DssNum(doc) # Null PROVE doc[DssNum(doc)].vri \subseteq Nums
    BY <2>2 DEF DssProblems, DssDicts
  <2> QED
    BY <2>1, <2>2 DEF DssStruct
<1>3. Final' = doc
  BY NextRevision
<1>4. n \in Nums
  BY <1>2, <1>3 DEF DssObjects, DssStruct, DssNum
<1> QED
  BY <1>1, <1>4, DssLeftBehind

(* A part of the sealed structure is rewritten as its own rule allows.      *)
LEMMA StructureOk ==
  ASSUME Renewable, NEW doc \in Documents, Renew(doc), ~DssProblems(doc), NEW n \in Nums,
         Sealed[n] \in Catalogs \cup Pages \cup Forms, doc[n] \in Catalogs \cup Pages \cup Forms,
         Refreshed(n)'
  PROVE  ObjectOk(n)'
<1>1. TypeOK /\ Final' = doc /\ Sealed' = Sealed
  BY NextRevision DEF Renewable, ObjectsOk
<1>2. Sealed[n] # Null /\ doc[n] # Null
  BY SealAssumption DEF Objects
<1>3. /\ doc[n] \notin Streams \cup DssDicts \cup VriDicts \cup Sigs \cup Arrays
      /\ Sealed[n] \notin Streams
  BY NotDss
<1>4. n \notin DssObjects'
  BY <1>1, <1>3, DssObjectsNext
<1>5. n \notin LaterSigs'
  BY <1>1, <1>2, <1>3, LaterSigsNext DEF Renewable, Sound, New
<1>6. ~New(n)'
  BY <1>1, <1>2 DEF New
<1>7. Permitted(n)'
  BY <1>1, <1>3, <1>4, <1>5, <1>6 DEF Permitted
<1> QED
  BY <1>1, <1>2, <1>7 DEF ObjectOk

LEMMA CatalogRaised ==
  ASSUME ObjectsOk
  PROVE  LET old == Sealed[Root]  new == Final[Root] IN
         /\ new.version \in {old.version} \cup (old.version..MaxVersion)
         /\ new.extensions \in {old.extensions, "developer"}
<1>1. Sealed[Root] \in Catalogs /\ Sealed[Root] \in Objects
  BY FinalTyped DEF ObjectsOk, WellFormed, Objects
<1>2. CASE Final[Root] = Sealed[Root]
  BY <1>2
<1>3. CASE Final[Root] # Sealed[Root]
  <2>1. Refreshed(Root)
    BY <1>1, <1>3, Structure, SealAssumption
  <2>2. Sealed[Root] \notin Pages /\ Sealed[Root] \notin Forms
    BY <1>1, KindsApart
  <2>3. CatalogRefreshed(Sealed[Root], Final[Root])
    BY <2>1, <2>2, SealAssumption DEF Refreshed
  <2> QED
    BY <2>3 DEF CatalogRefreshed
<1> QED
  BY <1>2, <1>3

(* The signature, its field and the field's appearance.                     *)
LEMMA TimestampOwnOk ==
  ASSUME Renewable, NEW doc, NEW s, NEW w, NEW a, NEW p, NEW c, TimestampWritten(doc, s, w, a, p, c)
  PROVE  ObjectOk(s)' /\ ObjectOk(w)' /\ ObjectOk(a)' /\ IsTsWidget(w)'
<1>1. /\ \A n \in {s, w, a} : Final[n] = Null /\ New(n) /\ n \notin LaterSigs /\ n \in Nums
      /\ TypeOK
  BY TimestampParts DEF Renewable
<1>2. doc \in Documents /\ Renew(doc) /\ ~DssProblems(doc)
  BY TimestampRenewal DEF TimestampWritten
<1>3. Final' = doc /\ Sealed' = Sealed
  BY <1>1, <1>2, NextRevision
<1>4. TsSig \in Sigs /\ TsSig.plain /\ TsSig.kind = "Sig"
  BY DEF TsSig, Sigs
<1>5. TsField(s, a) \in Widgets /\ TsField(s, a).v = s /\ TsField(s, a).ap = a /\ WidgetOk(TsField(s, a))
  BY <1>1, WrittenObjects DEF TsField, Widgets, WidgetOk, Refs
<1>6. TsAppearance \in Streams /\ TsAppearance.type = "Form"
  BY WrittenObjects DEF TsAppearance, Streams
<1>7. doc[s] = TsSig /\ doc[w] = TsField(s, a) /\ doc[a] = TsAppearance
  BY DEF TimestampWritten
<1>8. /\ {TsSig, TsField(s, a)} \cap (Streams \cup DssDicts \cup VriDicts \cup Arrays \cup {Null}) = {}
      /\ TsField(s, a) \notin Sigs /\ TsAppearance # Null /\ Null \notin Streams
  <2>1. {TsSig, TsField(s, a), TsAppearance} \subseteq Objects
    BY <1>4, <1>5, <1>6 DEF Objects
  <2>2. TsSig \notin Streams \cup DssDicts \cup VriDicts \cup Arrays
    BY <1>4, <2>1, KindsApart
  <2>3. TsField(s, a) \notin Streams \cup DssDicts \cup VriDicts \cup Arrays \cup Sigs
    BY <1>5, <2>1, KindsApart
  <2> QED
    BY <2>1, <2>2, <2>3, SealAssumption DEF Objects
<1>9. Sealed[s] = Null /\ Sealed[w] = Null /\ Sealed[a] = Null
  BY <1>1 DEF New
<1>10. New(s)' /\ New(w)' /\ New(a)'
  BY <1>3, <1>9 DEF New
<1>11. s \in LaterSigs' /\ w \notin LaterSigs'
  BY <1>1, <1>2, <1>4, <1>7, <1>8, <1>9, LaterSigsNext
<1>12. IsTsWidget(w)'
  BY <1>3, <1>5, <1>7, <1>11 DEF IsTsWidget
<1>13. s \notin DssObjects' /\ w \notin DssObjects'
  BY <1>1, <1>2, <1>7, <1>8, DssObjectsNext
<1>14. ObjectOk(s)'
  <2>1. Permitted(s)'
    BY <1>3, <1>4, <1>7, <1>8, <1>9, <1>10, <1>13 DEF Permitted
  <2> QED
    BY <1>3, <1>7, <1>8, <2>1 DEF ObjectOk
<1>15. ObjectOk(w)'
  <2>1. WidgetOk(Final[w])'
    BY <1>3, <1>5, <1>7 DEF WidgetOk
  <2>2. Permitted(w)'
    BY <1>3, <1>7, <1>8, <1>9, <1>10, <1>11, <1>12, <1>13, <2>1 DEF Permitted
  <2> QED
    BY <1>3, <1>7, <1>8, <2>2 DEF ObjectOk
<1>16. ObjectOk(a)'
  <2>1. WidgetOk(Final[w])' /\ Final'[w].ap = a
    BY <1>3, <1>5, <1>7 DEF WidgetOk
  <2>2. a \in WidgetAppearances'
    BY <1>1, <1>10, <1>12, <2>1 DEF WidgetAppearances
  <2>3. NewStreamOk(a)'
    BY <1>3, <1>6, <1>7, <2>2 DEF NewStreamOk
  <2>4. Permitted(a)'
    BY <1>3, <1>6, <1>7, <1>10, <2>3 DEF Permitted
  <2> QED
    BY <1>3, <1>7, <1>8, <2>4 DEF ObjectOk
<1> QED
  BY <1>12, <1>14, <1>15, <1>16

LEMMA TimestampPageOk ==
  ASSUME Renewable, NEW doc, NEW s, NEW w, NEW a, NEW p, NEW c, TimestampWritten(doc, s, w, a, p, c)
  PROVE  ObjectOk(p)'
<1>1. /\ doc \in Documents /\ Renew(doc) /\ ~DssProblems(doc) /\ IsTsWidget(w)' /\ TypeOK /\ ObjectsOk
      /\ w \in Nums /\ p \in Nums /\ Final[p] \in Pages /\ p \in Sealed[Root].pages
  <2>1. ~DssProblems(doc)
    BY TimestampRenewal
  <2>2. IsTsWidget(w)'
    BY TimestampOwnOk
  <2>3. ObjectsOk /\ TypeOK
    BY DEF Renewable, ObjectsOk
  <2>4. w \in Nums /\ p \in Nums /\ Final[p] \in Pages
    BY <2>3, TimestampParts
  <2>5. p \in Sealed[Root].pages /\ doc \in Documents /\ Renew(doc)
    BY <2>3, CatalogKept DEF TimestampWritten
  <2> QED
    BY <2>1, <2>2, <2>3, <2>4, <2>5
<1>2. Final' = doc /\ Sealed' = Sealed
  BY <1>1, NextRevision
<1>3. doc[p] = [Final[p] EXCEPT !.annots = @ \cup {w}]
  BY DEF TimestampWritten
<1>4. /\ doc[p] \in Pages /\ doc[p].contents = Final[p].contents /\ doc[p].rest = Final[p].rest
      /\ doc[p].annots = Final[p].annots \cup {w} /\ Final[p].annots \subseteq Nums
  BY <1>1, <1>3 DEF Pages
<1>5. Sealed[p] \in Pages
  BY <1>1, FinalTyped DEF WellFormed
<1>6. /\ Final[p].contents = Sealed[p].contents /\ Final[p].rest = Sealed[p].rest
      /\ Sealed[p].annots \subseteq Final[p].annots
      /\ \A b \in Final[p].annots \ Sealed[p].annots : IsTsWidget(b)
  BY <1>1, PageKept
<1>7. ASSUME NEW b \in doc[p].annots \ Sealed[p].annots PROVE IsTsWidget(b)'
  <2>1. CASE b = w
    BY <1>1, <2>1
  <2>2. CASE b # w
    <3>1. IsTsWidget(b) /\ b \in Nums
      BY <1>4, <1>6, <2>2
    <3>2. doc[b] = Final[b]
      BY <3>1, TimestampRenewal DEF Renewal, IsTsWidget
    <3> QED
      BY <1>1, <3>1, <3>2, TsWidgetKept
  <2> QED
    BY <2>1, <2>2
<1>8. PageAnnotated(Sealed[p], Final[p])'
  BY <1>2, <1>4, <1>6, <1>7 DEF PageAnnotated
<1>9. Refreshed(p)'
  BY <1>2, <1>4, <1>5, <1>8 DEF Refreshed
<1> QED
  BY <1>1, <1>4, <1>5, <1>9, StructureOk

LEMMA TimestampFormOk ==
  ASSUME Renewable, NEW doc, NEW s, NEW w, NEW a, NEW p, NEW c, TimestampWritten(doc, s, w, a, p, c)
  PROVE  ObjectOk(c)'
<1> DEFINE form == [FormOf(Final) EXCEPT !.fields = @ \cup {w}]
           before == FormOf(Sealed)
<1>1. /\ doc \in Documents /\ Renew(doc) /\ ~DssProblems(doc) /\ IsTsWidget(w)' /\ TypeOK /\ ObjectsOk
      /\ w \in Nums /\ c \in Nums /\ Root \in Nums /\ FormOf(Final) \in Forms /\ Final[Root] \in Catalogs
      /\ Final[Root].form # Null => c # Root
  <2>1. ~DssProblems(doc) /\ doc \in Documents /\ Renew(doc)
    BY TimestampRenewal DEF TimestampWritten
  <2>2. IsTsWidget(w)'
    BY TimestampOwnOk
  <2>3. ObjectsOk /\ TypeOK
    BY DEF Renewable, ObjectsOk
  <2> HIDE DEF form, before
  <2> QED
    BY <2>1, <2>2, <2>3, TimestampParts
<1>2. Final' = doc /\ Sealed' = Sealed
  BY <1>1, NextRevision
<1>3. /\ form \in Forms /\ form.fields = FormOf(Final).fields \cup {w} /\ form.rest = FormOf(Final).rest
      /\ FormOf(Final).fields \subseteq Nums
  BY <1>1 DEF Forms
<1>4. FormAppended(before, FormOf(Final)) /\ before \in Forms
  BY <1>1, FormKept
<1> HIDE DEF form
<1>5. PICK o, new : o = before /\ new = form
  OBVIOUS
<1>6. FormAppended(o, new)'
  <2>1. ASSUME NEW f \in form.fields \ before.fields PROVE IsTsWidget(f)'
    <3>1. CASE f = w
      BY <1>1, <3>1
    <3>2. CASE f # w
      <4>1. IsTsWidget(f) /\ f \in Nums
        BY <1>3, <1>4, <3>2 DEF FormAppended
      <4>2. doc[f] = Final[f]
        BY <4>1, TimestampRenewal DEF Renewal, IsTsWidget
      <4> QED
        BY <1>1, <4>1, <4>2, TsWidgetKept
    <3> QED
      BY <3>1, <3>2
  <2>2. before.rest = form.rest /\ before.fields \subseteq form.fields
    BY <1>3, <1>4 DEF FormAppended
  <2> HIDE DEF before
  <2> QED
    BY <1>5, <2>1, <2>2 DEF FormAppended
<1>7. Sealed[Root] \in Catalogs /\ Final[Root].form = Sealed[Root].form
  BY <1>1, CatalogKept
<1>8. CASE Final[Root].form # Null
  <2>1. c = Sealed[Root].form /\ doc[c] = form /\ before = Sealed[c]
    BY <1>7, <1>8 DEF TimestampWritten, FormOf, form
  <2>2. Refreshed(c)'
    BY <1>2, <1>3, <1>4, <1>5, <1>6, <2>1 DEF Refreshed
  <2> QED
    BY <1>1, <1>3, <1>4, <2>1, <2>2, StructureOk
<1>9. CASE Final[Root].form = Null
  <2>1. c = Root /\ doc[Root] = [Final[Root] EXCEPT !.inline = form]
    BY <1>9 DEF TimestampWritten, form
  <2>2. /\ doc[Root] \in Catalogs /\ doc[Root].inline = form /\ doc[Root].pages = Final[Root].pages
        /\ doc[Root].rest = Final[Root].rest /\ doc[Root].version = Final[Root].version
        /\ doc[Root].extensions = Final[Root].extensions /\ doc[Root].form = Final[Root].form
    BY <1>1, <1>3, <2>1 DEF Catalogs
  <2>3. before = (IF Sealed[Root].inline = Null THEN NoForm ELSE Sealed[Root].inline)
    BY <1>7, <1>9 DEF FormOf
  <2>4. form # Null
    BY <1>3, SealAssumption DEF Objects
  <2>5. AcroFormAppended(Sealed[Root].inline, Final[Root].inline)'
    BY <1>2, <1>5, <1>6, <2>2, <2>3, <2>4 DEF AcroFormAppended, NoForm
  <2>6. CatalogRefreshed(Sealed[Root], Final[Root])'
    BY <1>1, <1>2, <2>2, <2>5, CatalogKept, CatalogRaised DEF CatalogRefreshed
  <2>7. Refreshed(Root)'
    BY <1>2, <2>2, <2>6 DEF Refreshed
  <2> QED
    BY <1>1, <1>7, <2>1, <2>2, <2>7, StructureOk
<1> QED
  BY <1>8, <1>9

(* A document that passes, before a renewal.                                *)
LEMMA AcceptedRenewable ==
  ASSUME TypeOK, OddInv, Accepted, Sound
  PROVE  Renewable /\ oddities = {} /\ tail # "junk"
<1>1. CASE Len(revisions) = 1
  <2>1. Final = Sealed
    BY <1>1 DEF Final, Sealed
  <2> QED
    BY <1>1, <2>1 DEF Renewable, ObjectsOk, Sound, ObjectOk, OddInv, Accepted
<1>2. CASE Len(revisions) # 1
  BY <1>2 DEF Renewable, ObjectsOk, Accepted
<1> QED
  BY <1>1, <1>2

LEMMA TimestampKeeps ==
  ASSUME TypeOK, OddInv, Accepted, Sound, AddTimestamp, Len(revisions) <= MaxRevisions
  PROVE  Accepted'
<1>1. Renewable /\ oddities = {} /\ tail # "junk"
  BY AcceptedRenewable
<1>2. PICK doc, s, w, a, p, c : TimestampWritten(doc, s, w, a, p, c)
  BY <1>1, TimestampWrites DEF Renewable
<1>3. Renewal(doc, {s, w, a, p, c}) /\ ~DssProblems(doc)
  BY <1>1, <1>2, TimestampRenewal
<1>4. \A n \in {s, w, a, p, c} : ObjectOk(n)'
  BY <1>1, <1>2, TimestampOwnOk, TimestampPageOk, TimestampFormOk
<1> QED
  BY <1>1, <1>3, <1>4, RenewalAccepted

-----------------------------------------------------------------------------
(* A DSS, new or rewritten: d the dictionary, v the keys' dictionary, cert  *)
(* the new certificate among certs.                                         *)
DssWritten(doc, d, v, cert, certs) ==
  /\ doc \in Documents /\ Renew(doc) /\ {d, v, cert} \subseteq Nums
  /\ v >= Size /\ cert >= Size /\ certs \in SUBSET Nums /\ cert \in certs
  /\ doc[Root] \in Catalogs /\ doc[Root].dss = d
  /\ doc[d] = DssOver(certs, v) /\ doc[v] = VriOver(cert) /\ doc[cert] = CertStream
  /\ \A n \in certs \ {cert} : Final[n] \in Streams /\ DataStream(doc[n])
  /\ \A n \in Nums \ {d, v, cert, Root} : doc[n] = Final[n]

LEMMA DssKindsWritten ==
  ASSUME NEW certs \in SUBSET Nums, NEW v \in Nums, NEW cert \in Nums
  PROVE  /\ DssOver(certs, v) \in DssDicts /\ DssOver(certs, v).usual
         /\ DssOver(certs, v).certs = certs /\ DssOver(certs, v).vri = {v}
         /\ VriOver(cert) \in VriDicts /\ VriOver(cert).usual /\ VriOver(cert).certs = {cert}
         /\ DataStream(CertStream)
<1>1. /\ DssOver(certs, v) \in DssDicts /\ DssOver(certs, v).usual
      /\ DssOver(certs, v).certs = certs /\ DssOver(certs, v).vri = {v}
  BY DEF DssOver, DssDicts
<1>2. VriOver(cert) \in VriDicts /\ VriOver(cert).usual /\ VriOver(cert).certs = {cert}
  BY DEF VriOver, VriDicts
<1>3. DataStream(CertStream)
  BY WrittenObjects DEF CertStream, DataStream, Streams
<1> QED
  BY <1>1, <1>2, <1>3

LEMMA DssBuilt ==
  ASSUME NEW doc, NEW d, NEW v, NEW cert, NEW certs, DssWritten(doc, d, v, cert, certs)
  PROVE  /\ DssStruct(doc) = {d, v} /\ ~DssProblems(doc) /\ cert \in DssStreams(doc)
         /\ doc[d] \in DssDicts /\ doc[v] \in VriDicts /\ DataStream(doc[cert])
<1>1. /\ doc[d] \in DssDicts /\ doc[d].usual /\ doc[d].certs = certs /\ doc[d].vri = {v}
      /\ doc[v] \in VriDicts /\ doc[v].usual /\ doc[v].certs = {cert} /\ DataStream(doc[cert])
  <2>1. certs \in SUBSET Nums /\ v \in Nums /\ cert \in Nums
    BY DEF DssWritten
  <2>2. doc[d] = DssOver(certs, v) /\ doc[v] = VriOver(cert) /\ doc[cert] = CertStream
    BY DEF DssWritten
  <2>3. /\ DssOver(certs, v) \in DssDicts /\ DssOver(certs, v).usual
        /\ DssOver(certs, v).certs = certs /\ DssOver(certs, v).vri = {v}
    BY <2>1, DssKindsWritten
  <2>4. VriOver(cert) \in VriDicts /\ VriOver(cert).usual /\ VriOver(cert).certs = {cert}
    BY <2>1, DssKindsWritten
  <2>5. DataStream(CertStream)
    BY <2>1, DssKindsWritten
  <2> QED
    BY <2>2, <2>3, <2>4, <2>5
<1>2. DssNum(doc) = d /\ d # Null
  BY SealAssumption DEF DssWritten, DssNum
<1>3. DssRefs(doc) = certs
  <2>1. {u \in doc[d].vri : doc[u] \in VriDicts} = {v}
    BY <1>1
  <2> QED
    BY <1>1, <1>2, <2>1 DEF DssRefs, DssWritten
<1>4. \A n \in certs : DataStream(doc[n])
  BY <1>1 DEF DssWritten
<1> QED
  BY <1>1, <1>2, <1>3, <1>4 DEF DssStruct, DssProblems, DssStreams, DssWritten

(* The new objects, and the rewritten dictionary.                           *)
LEMMA DssObjectOk ==
  ASSUME TypeOK, NEW doc \in Documents, Renew(doc), NEW n \in Nums, n \in DssStruct(doc),
         doc[n] \in DssDicts \cup VriDicts, Sealed[n] \notin Streams, New(n) \/ WasDss(n)
  PROVE  ObjectOk(n)'
<1>1. Final' = doc /\ Sealed' = Sealed
  BY NextRevision
<1>2. n \in DssObjects'
  BY DssLeftBehind
<1>3. doc[n] \in Objects /\ doc[n] \notin Streams /\ doc[n] # Null
  <2>1. doc[n] \in Objects
    BY DEF Objects
  <2> QED
    BY <2>1, KindsApart, SealAssumption
<1>4. (New(n) \/ WasDss(n))'
  BY <1>1 DEF New, WasDss
<1>5. Permitted(n)'
  BY <1>1, <1>2, <1>3, <1>4 DEF Permitted
<1> QED
  BY <1>1, <1>3, <1>5 DEF ObjectOk

LEMMA DssNewOk ==
  ASSUME TypeOK, NEW doc, NEW d, NEW v, NEW cert, NEW certs, DssWritten(doc, d, v, cert, certs)
  PROVE  /\ Final[v] = Null /\ Final[cert] = Null /\ ObjectOk(v)' /\ ObjectOk(cert)'
         /\ v # cert /\ {v, cert} \cap {d, Root} = {}
<1>1. doc \in Documents /\ Renew(doc) /\ Final' = doc /\ Sealed' = Sealed /\ {d, v, cert} \subseteq Nums
  BY NextRevision DEF DssWritten
<1>2. \A n \in {v, cert} : Final[n] = Null /\ New(n) /\ Sealed[n] = Null
  BY <1>1, FreshNumber DEF DssWritten, New
<1>3. /\ doc[v] \in VriDicts /\ doc[cert] \in Streams /\ doc[cert].type = "none"
      /\ doc[d] \in DssDicts /\ doc[Root] \in Catalogs
  <2>1. doc[v] \in VriDicts /\ DataStream(doc[cert]) /\ doc[d] \in DssDicts
    BY DssBuilt
  <2> QED
    BY <2>1 DEF DssWritten, DataStream
<1>4. Null \notin Streams
  BY SealAssumption DEF Objects
<1>5. ObjectOk(v)'
  BY <1>1, <1>2, <1>3, <1>4, DssBuilt, DssObjectOk
<1>6. ObjectOk(cert)'
  <2>1. cert \in DssData'
    BY <1>1, DssBuilt, DssLeftBehind
  <2>2. NewStreamOk(cert)' /\ New(cert)'
    BY <1>1, <1>2, <2>1 DEF NewStreamOk, New
  <2>3. Permitted(cert)'
    BY <1>1, <1>3, <2>2 DEF Permitted
  <2> QED
    BY <1>1, <1>3, <1>4, <2>3 DEF ObjectOk
<1>7. v # cert /\ {v, cert} \cap {d, Root} = {}
  <2>1. {doc[v], doc[cert], doc[d], doc[Root]} \subseteq Objects
    BY <1>3 DEF Objects
  <2> QED
    BY <1>3, <2>1, KindsApart
<1> QED
  BY <1>2, <1>5, <1>6, <1>7

(* A first DSS, or one that supersedes another.                             *)
DssAdded(doc, d, v, cert) ==
  /\ DssWritten(doc, d, v, cert, {cert}) /\ d >= Size /\ Final[Root] \in Catalogs
  /\ doc[Root] = [Final[Root] EXCEPT !.dss = d,
                    !.version = IF Final[Root].version < 17 THEN 17 ELSE Final[Root].version]

LEMMA AddDssWrites ==
  ASSUME ObjectsOk, AddDss
  PROVE  \E doc, d, v, cert : DssAdded(doc, d, v, cert)
<1> PICK d \in Nat : d = Size
  BY SizeIsNat DEF ObjectsOk
<1> DEFINE v == d + 1
           cert == d + 2
           version == IF Final[Root].version < 17 THEN 17 ELSE Final[Root].version
           catalog == [Final[Root] EXCEPT !.dss = d, !.version = version]
           dss == DssOver({cert}, v)
           doc == [Final EXCEPT ![d] = dss, ![v] = VriOver(cert), ![cert] = CertStream, ![Root] = catalog]
<1>1. Open /\ {d, v, cert} \subseteq Nums /\ Final[Root] \in Catalogs /\ Renew(doc)
  BY DEF AddDss
<1>2. TypeOK /\ TypeOK' /\ Final \in Documents /\ Root \in Nums
  BY AddDssTyped, FinalTyped, SealAssumption DEF ObjectsOk
<1>3. version \in Nat
  BY <1>1 DEF Catalogs
<1> HIDE DEF version
<1>4. catalog \in Catalogs /\ catalog.dss = d
  BY <1>1, <1>3 DEF Catalogs, Refs
<1> HIDE DEF catalog, dss
<1>5. doc \in Documents
  <2> HIDE DEF doc
  <2> QED
    BY <1>1, <1>2, AppendedTyped
<1>6. Final[d] = Null /\ Final[v] = Null /\ Final[cert] = Null /\ v >= Size /\ cert >= Size
  BY <1>1, <1>2, FreshNumber
<1>7. Final[Root] # Null
  BY <1>1, SealAssumption DEF Objects
<1>8. /\ doc[d] = dss /\ doc[v] = VriOver(cert) /\ doc[cert] = CertStream /\ doc[Root] = catalog
      /\ \A n \in Nums \ {d, v, cert, Root} : doc[n] = Final[n]
  BY <1>1, <1>2, <1>6, <1>7 DEF Documents
<1> HIDE DEF doc, v, cert
<1>9. DssWritten(doc, d, v, cert, {cert})
  BY <1>1, <1>4, <1>5, <1>6, <1>8 DEF DssWritten, dss
<1>10. doc[Root] = [Final[Root] EXCEPT !.dss = d,
                      !.version = IF Final[Root].version < 17 THEN 17 ELSE Final[Root].version]
  BY <1>8 DEF catalog, version
<1>11. DssAdded(doc, d, v, cert)
  BY <1>1, <1>9, <1>10 DEF DssAdded
<1> QED
  BY <1>11

LEMMA AddDssKeeps ==
  ASSUME TypeOK, OddInv, Accepted, Sound, AddDss, Len(revisions) <= MaxRevisions
  PROVE  Accepted'
<1>1. Renewable /\ oddities = {} /\ tail # "junk" /\ ObjectsOk
  BY AcceptedRenewable DEF Renewable
<1>2. PICK doc, d, v, cert :
        /\ DssWritten(doc, d, v, cert, {cert}) /\ d >= Size /\ Final[Root] \in Catalogs
        /\ doc[Root] = [Final[Root] EXCEPT !.dss = d,
                          !.version = IF Final[Root].version < 17 THEN 17 ELSE Final[Root].version]
  BY <1>1, AddDssWrites DEF DssAdded
<1>3. /\ DssStruct(doc) = {d, v} /\ ~DssProblems(doc) /\ doc[d] \in DssDicts
      /\ doc \in Documents /\ Renew(doc) /\ {d, v, cert, Root} \subseteq Nums
  <2>1. DssStruct(doc) = {d, v} /\ ~DssProblems(doc) /\ doc[d] \in DssDicts
    BY <1>2, DssBuilt
  <2> QED
    BY <1>2, <2>1, SealAssumption DEF DssWritten
<1>4. /\ Final[v] = Null /\ Final[cert] = Null /\ ObjectOk(v)' /\ ObjectOk(cert)'
  BY <1>2, DssNewOk
<1>5. Final[d] = Null /\ New(d) /\ Sealed[d] = Null
  BY <1>2, <1>3, FreshNumber DEF New
<1>6. ObjectOk(d)'
  <2>1. Sealed[d] \notin Streams
    BY <1>5, SealAssumption DEF Objects
  <2> QED
    BY <1>3, <1>5, <2>1, DssObjectOk
<1>7. Renewal(doc, {d, v, cert, Root})
  <2>1. \A n \in {d, v, cert, Root} : Final[n] \notin Streams \cup Widgets
    BY <1>2, <1>4, <1>5, NotDss
  <2> QED
    BY <1>2, <1>3, <2>1 DEF Renewal, DssWritten
<1>8. ObjectOk(Root)'
  <2>1. Final' = doc /\ Sealed' = Sealed
    BY <1>3, NextRevision
  <2>2. /\ Sealed[Root] \in Catalogs /\ Final[Root] \in Catalogs /\ Final[Root].pages = Sealed[Root].pages
        /\ Final[Root].rest = Sealed[Root].rest /\ Final[Root].form = Sealed[Root].form
        /\ AcroFormAppended(Sealed[Root].inline, Final[Root].inline)
    BY <1>1, CatalogKept
  <2>3. doc[Root] \in Catalogs
    BY <1>2 DEF DssWritten
  <2>4. /\ doc[Root].pages = Final[Root].pages /\ doc[Root].rest = Final[Root].rest
        /\ doc[Root].form = Final[Root].form /\ doc[Root].inline = Final[Root].inline
        /\ doc[Root].extensions = Final[Root].extensions
        /\ doc[Root].version = IF Final[Root].version < 17 THEN 17 ELSE Final[Root].version
    BY <1>2, <2>2 DEF Catalogs
  <2>5. /\ Final[Root].version \in {Sealed[Root].version} \cup (Sealed[Root].version..MaxVersion)
        /\ Final[Root].extensions \in {Sealed[Root].extensions, "developer"}
    BY <1>1, CatalogRaised
  <2>6. doc[Root].version \in {Sealed[Root].version} \cup (Sealed[Root].version..MaxVersion)
    <3>1. Sealed[Root].version \in Nat /\ Final[Root].version \in Nat
      BY <2>2 DEF Catalogs
    <3> QED
      BY <2>4, <2>5, <3>1 DEF MaxVersion
  <2>7. AcroFormAppended(Sealed[Root].inline, Final[Root].inline)'
    <3>1. CASE Final[Root].inline = Sealed[Root].inline
      BY <2>1, <2>4, <3>1 DEF AcroFormAppended
    <3>2. CASE Final[Root].inline # Null /\ Final[Root].inline # Sealed[Root].inline
      <4>1. Final[Root].inline.fields \in SUBSET Nums
        BY <2>2, <3>2 DEF Catalogs, Forms
      <4> DEFINE before == IF Sealed[Root].inline = Null THEN NoForm ELSE Sealed[Root].inline
      <4>2. PICK o, new : o = before /\ new = Final[Root].inline
        OBVIOUS
      <4>3. FormAppended(o, new)
        BY <2>2, <3>2, <4>2 DEF AcroFormAppended
      <4>4. new.fields \in SUBSET Nums
        BY <4>1, <4>2
      <4>5. FormAppended(o, new)'
        BY <1>3, <1>7, <4>3, <4>4, FormAppendedKept
      <4> QED
        BY <2>1, <2>4, <3>2, <4>2, <4>5 DEF AcroFormAppended, NoForm
    <3> QED
      BY <2>2, <3>1, <3>2 DEF AcroFormAppended
  <2>8. CatalogRefreshed(Sealed[Root], Final[Root])'
    BY <2>1, <2>2, <2>4, <2>5, <2>6, <2>7 DEF CatalogRefreshed
  <2>9. Refreshed(Root)'
    BY <2>1, <2>3, <2>8 DEF Refreshed
  <2> QED
    BY <1>1, <1>3, <2>2, <2>3, <2>9, StructureOk
<1>9. \A n \in {d, v, cert, Root} : ObjectOk(n)'
  BY <1>4, <1>6, <1>8
<1> QED
  BY <1>1, <1>3, <1>7, <1>9, RenewalAccepted

-----------------------------------------------------------------------------
(* The DSS rewritten under its number.                                      *)
LEMMA RenewDssWrites ==
  ASSUME Renewable, RenewDss
  PROVE  \E doc, d, v, cert :
           /\ DssWritten(doc, d, v, cert, Final[d].certs \cup {cert})
           /\ d = Final[Root].dss /\ d # Null /\ Final[d] \in DssDicts /\ Final[Root] \in Catalogs
           /\ doc[Root] = Final[Root]
<1> PICK v \in Nat : v = Size
  BY SizeIsNat DEF Renewable, ObjectsOk
<1> DEFINE d == Final[Root].dss
           cert == v + 1
           certs == Final[d].certs \cup {cert}
           dss == DssOver(certs, v)
           doc == [Final EXCEPT ![d] = dss, ![v] = VriOver(cert), ![cert] = CertStream]
<1>1. /\ Open /\ {v, cert} \subseteq Nums
      /\ Final[Root] \in Catalogs /\ d # Null /\ Final[d] \in DssDicts /\ Renew(doc)
  BY DEF RenewDss
<1>2. TypeOK /\ TypeOK' /\ Final \in Documents /\ Root \in Nums /\ ~DssProblems(Final)
  BY RenewDssTyped, FinalTyped, SealAssumption DEF Renewable, ObjectsOk, Sound
<1>3. d \in Nums /\ Final[d].certs \in SUBSET Nums
  BY <1>1 DEF Catalogs, Refs, DssDicts
<1> HIDE DEF dss
<1>4. doc \in Documents
  <2> HIDE DEF doc
  <2> QED
    BY <1>1, <1>2, AppendedTyped
<1>5. Final[v] = Null /\ Final[cert] = Null /\ v >= Size /\ cert >= Size
  BY <1>1, <1>2, FreshNumber
<1>6. Final[d] # Null /\ Final[Root] # Null /\ d # Root
  <2>1. Final[d] \in Objects /\ Final[Root] \in Objects
    BY <1>1 DEF Objects
  <2> QED
    BY <1>1, <2>1, KindsApart, SealAssumption
<1>7. /\ doc[d] = dss /\ doc[v] = VriOver(cert) /\ doc[cert] = CertStream /\ doc[Root] = Final[Root]
      /\ \A n \in Nums \ {d, v, cert} : doc[n] = Final[n]
  <2> HIDE DEF d
  <2> QED
    BY <1>1, <1>2, <1>3, <1>5, <1>6 DEF Documents
<1>8. ASSUME NEW n \in certs \ {cert} PROVE Final[n] \in Streams /\ DataStream(doc[n])
  <2>1. n \in DssRefs(Final)
    BY <1>1, <1>8 DEF DssRefs, DssNum
  <2>2. DataStream(Final[n])
    BY <1>1, <1>2, <2>1 DEF DssProblems, DssNum
  <2>3. Final[n] \in Streams
    BY <2>2 DEF DataStream
  <2>4. n \notin {d, v, cert} /\ n \in Nums
    <3>1. n \in Nums
      BY <1>3, <1>8
    <3>2. Final[n] \in Objects
      BY <2>3 DEF Objects
    <3>3. Final[n] \notin DssDicts /\ Final[n] # Null
      BY <2>3, <3>2, KindsApart, SealAssumption
    <3> QED
      BY <1>1, <1>5, <3>1, <3>3
  <2>5. doc[n] = Final[n]
    BY <1>7, <2>4
  <2> QED
    BY <2>2, <2>3, <2>5
<1>9. doc[Root] \in Catalogs /\ doc[Root].dss = d
  BY <1>1, <1>7
<1>10. \A n \in Nums \ {d, v, cert, Root} : doc[n] = Final[n]
  BY <1>7
<1>11. certs \in SUBSET Nums /\ cert \in certs
  BY <1>1, <1>3
<1>12. DssWritten(doc, d, v, cert, certs)
  <2> HIDE DEF d, cert, certs, doc
  <2> QED
    BY <1>1, <1>3, <1>4, <1>5, <1>7, <1>8, <1>9, <1>10, <1>11 DEF DssWritten, dss
<1> QED
  <2> HIDE DEF doc
  <2> QED
    BY <1>1, <1>7, <1>12

LEMMA RenewDssKeeps ==
  ASSUME TypeOK, OddInv, Accepted, Sound, RenewDss, Len(revisions) <= MaxRevisions
  PROVE  Accepted'
<1>1. Renewable /\ oddities = {} /\ tail # "junk" /\ ObjectsOk
  BY AcceptedRenewable DEF Renewable
<1>2. PICK doc, d, v, cert :
        /\ DssWritten(doc, d, v, cert, Final[d].certs \cup {cert})
        /\ d = Final[Root].dss /\ d # Null /\ Final[d] \in DssDicts /\ Final[Root] \in Catalogs
        /\ doc[Root] = Final[Root]
  BY <1>1, RenewDssWrites
<1>3. /\ DssStruct(doc) = {d, v} /\ ~DssProblems(doc) /\ doc[d] \in DssDicts
      /\ doc \in Documents /\ Renew(doc) /\ {d, v, cert} \subseteq Nums
  <2>1. DssStruct(doc) = {d, v} /\ ~DssProblems(doc) /\ doc[d] \in DssDicts
    BY <1>2, DssBuilt
  <2> QED
    BY <1>2, <2>1 DEF DssWritten
<1>4. Final[v] = Null /\ Final[cert] = Null /\ ObjectOk(v)' /\ ObjectOk(cert)'
  BY <1>2, DssNewOk
<1>5. Final[d] \in Objects /\ Final[d] \notin Streams \cup Widgets
  <2>1. Final[d] \in Objects
    BY <1>2 DEF Objects
  <2> QED
    BY <1>2, <2>1, KindsApart
<1>6. Sealed[d] \notin Streams /\ (New(d) \/ WasDss(d))
  <2>1. CASE Final[d] = Sealed[d]
    BY <1>2, <1>5, <2>1 DEF WasDss
  <2>2. CASE Final[d] # Sealed[d]
    <3>1. Permitted(d)
      BY <1>1, <1>3, <2>2 DEF ObjectsOk, ObjectOk
    <3>2. d \in DssObjects
      BY <1>2 DEF DssObjects, DssStruct, DssNum
    <3>3. Sealed[d] \notin Streams
      <4>1. ASSUME Sealed[d] \in Streams PROVE FALSE
        <5>1. New(d)
          BY <3>1, <4>1 DEF Permitted
        <5> QED
          BY <4>1, <5>1, SealAssumption DEF New, Objects
      <4> QED
        BY <4>1
    <3> QED
      BY <1>5, <3>1, <3>2, <3>3 DEF Permitted
  <2> QED
    BY <2>1, <2>2
<1>7. ObjectOk(d)'
  BY <1>3, <1>6, DssObjectOk
<1>8. Renewal(doc, {d, v, cert})
  <2>1. \A n \in {d, v, cert} : Final[n] \notin Streams \cup Widgets
    BY <1>4, <1>5, NotDss
  <2>2. \A n \in Nums \ {d, v, cert} : doc[n] = Final[n]
    BY <1>2 DEF DssWritten
  <2> QED
    BY <1>3, <2>1, <2>2 DEF Renewal
<1>9. \A n \in {d, v, cert} : ObjectOk(n)'
  BY <1>4, <1>7
<1> QED
  BY <1>1, <1>3, <1>8, <1>9, RenewalAccepted

(* Defects of later revisions need later revisions.                         *)
LEMMA OddInit == Init => OddInv
BY DEF Init, OddInv

LEMMA OddStep == TypeOK /\ OddInv /\ [Next]_vars => OddInv'
<1> SUFFICES ASSUME TypeOK, OddInv, [Next]_vars PROVE OddInv'
  OBVIOUS
<1>1. Len(revisions) \in Nat \ {0} /\ revisions \in Seq(Documents)
  BY DEF TypeOK
<1>2. ASSUME NEW doc, Renew(doc) PROVE OddInv'
  BY <1>1, <1>2 DEF Renew, OddInv
<1>3. CASE LongTermValidation
  BY <1>2, <1>3 DEF LongTermValidation, AddTimestamp, AddDss, RenewDss
<1>4. CASE WriteObject
  BY <1>1, <1>4 DEF WriteObject, OddInv
<1>5. CASE Spoil
  BY <1>1, <1>5 DEF Spoil, OddInv
<1>6. CASE AppendBytes \/ Analyze \/ UNCHANGED vars
  BY <1>6 DEF AppendBytes, Analyze, vars, OddInv
<1> QED
  BY <1>3, <1>4, <1>5, <1>6 DEF Next

(* For every sealed document, every history and any number of revisions up  *)
(* to the code's limit: renewing the long-term validation of a document     *)
(* post_seal_changes accepts, with a DSS it does not refuse and no sealed   *)
(* object ever overwritten with a signature, gives one it accepts.          *)
THEOREM RenewalSound == Spec => RenewalKeepsVerdict
<1> DEFINE IInv == TypeOK /\ OddInv
           Kept == LongTermValidation /\ Accepted /\ Sound /\ Len(revisions) <= MaxRevisions => Accepted'
<1>1. Init => IInv
  BY TypeInit, OddInit
<1>2. IInv /\ [Next]_vars => IInv'
  BY TypeStep, OddStep
<1>3. IInv /\ [Next]_vars => [Kept]_vars
  BY TimestampKeeps, AddDssKeeps, RenewDssKeeps DEF LongTermValidation
<1> QED
  BY <1>1, <1>2, <1>3, PTL DEF Spec, RenewalKeepsVerdict
=============================================================================
