------------------------------ MODULE MCPostSeal ------------------------------
(***************************************************************************)
(* Three sealed documents of one page: without a form, with an inline form *)
(* and a DSS, and with an indirect form one of whose fields is on no page. *)
(* Eleven object numbers leave room for two renewals of the first.     *)
(***************************************************************************)
EXTENDS PostSeal

CONSTANTS a, b
MCNums == 1..11
MCMarks == {a, b}

Catalog(form, inline, dss) ==
  [kind |-> "Catalog", pages |-> {3}, form |-> form, inline |-> inline, dss |-> dss,
   version |-> 14, extensions |-> "absent", rest |-> a]
Page(annots) == [kind |-> "Page", contents |-> 4, annots |-> annots, rest |-> a]
Stream(t, m) == [kind |-> "Stream", type |-> t, data |-> m]
Widget(v, ap, seen) == [kind |-> "Widget", v |-> v, ap |-> ap, visible |-> seen, usual |-> TRUE,
                        rest |-> a]
Form(fields) == [kind |-> "Form", fields |-> fields, rest |-> a]
Dss(certs, vri) == [kind |-> "DSS", certs |-> certs, vri |-> vri, usual |-> TRUE]
Vri(cert, ok) == [kind |-> "VRI", certs |-> {cert}, usual |-> ok]
Signature(ok) == [kind |-> "Sig", plain |-> ok]

Document(objects) == [n \in MCNums |-> IF n \in DOMAIN objects THEN objects[n] ELSE Null]
Front(catalog, annots) ==
  <<catalog, [kind |-> "Info", producer |-> a, rest |-> a], Page(annots), Stream("none", a)>>
MCSeals ==
  {Document(Front(Catalog(Null, Null, Null), {})),
   Document(Front(Catalog(Null, Form({7}), 5), {7})
            \o <<Dss({}, {}), Signature(TRUE), Widget(6, Null, FALSE)>>),
   Document(Front(Catalog(5, Null, Null), {}) \o <<Form({6}), Widget(Null, 4, TRUE)>>)}

MCRewrites == [n \in MCNums |->
  CASE n = 1 -> {[Catalog(Null, Null, Null) EXCEPT !.version = 21],
                 [Catalog(5, Null, Null) EXCEPT !.rest = b], Catalog(Null, Form({7}), 6), Catalog(Null, Null, 11),
                 [Catalog(Null, Null, Null) EXCEPT !.extensions = "developer", !.version = 20]}
    [] n = 2 -> {[kind |-> "Info", producer |-> b, rest |-> m] : m \in MCMarks}
    [] n = 3 -> {Page({6}), Page({6, 7}), [Page({}) EXCEPT !.rest = b]}
    [] n = 4 -> {Stream("none", b), Stream("ObjStm", a), Null}
    [] n = 5 -> {Dss({4}, {6}), Form({}), Widget(6, 7, TRUE), Stream("OwnXRef", a)}
    [] n = 6 -> {Signature(FALSE), Widget(5, 7, TRUE), Widget(5, Null, FALSE), Vri(4, TRUE)}
    [] n = 7 -> {Vri(8, FALSE), Stream("none", b), Stream("Form", b), Null}
    [] n = 8 -> {Widget(7, 9, TRUE), Stream("XRef", a), [kind |-> "Array", data |-> a]}
    [] OTHER -> {}]
===============================================================================
