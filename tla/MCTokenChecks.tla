---------------------------- MODULE MCTokenChecks ----------------------------
(***************************************************************************)
(* A TSA unit and its CA; the same key certified again; a certificate with *)
(* the unit's issuer and serial number and another key; and one whose      *)
(* owner stamps what it likes.  Tokens are the unit's stamps with one or   *)
(* two parts exchanged.                                                    *)
(**************************************************************************)
EXTENDS TokenChecks

CONSTANTS d1, d2, n1, n2, n3, key, caKey, rogue

Cert(id, k) == [id |-> id, key |-> k, tsa |-> TRUE, from |-> 1, to |-> 3]
Unit == Cert(n1, key)
Again == [Cert(n2, key) EXCEPT !.to = 2]
Twin == Cert(n1, rogue)
Own == Cert(n3, rogue)
Ca == [Cert(n3, caKey) EXCEPT !.tsa = FALSE]
MCChain == [c \in Certs |->
  CASE c = Unit -> [certs |-> <<Unit, Ca>>, tsa_chain |-> "pass", rooted |-> "pass"]
    [] c = Again -> [certs |-> <<Again>>, tsa_chain |-> "fail", rooted |-> "fail"]
    [] OTHER -> [certs |-> <<c>>, tsa_chain |-> "skip", rooted |-> "fail"]]
Tst(d, when) == [imprint |-> d, gen_time |-> when]
MCStamped == {[cert |-> Unit, content |-> Tst(d1, n)] : n \in Times}
             \cup {[cert |-> Again, content |-> Tst(d2, 2)]}

Token(stamp) ==
  [form |-> "response", content |-> stamp.content, infos |-> 1, sid |-> stamp.cert.id,
   certs |-> <<stamp.cert>>, attrs |-> AttrsOf(stamp),
   signature |-> [key |-> stamp.cert.key, attrs |-> AttrsOf(stamp)]]
Owned == {Token([cert |-> c, content |-> Tst(d1, 2)]) : c \in {Own, Twin}}
Genuine == {Token(stamp) : stamp \in MCStamped}
Attributed == {AttrsOf(stamp) : stamp \in MCStamped}
Exchanged(t) ==
  {[t EXCEPT !.form = f] : f \in Forms} \cup {[t EXCEPT !.infos = n] : n \in 0..2}
  \cup {[t EXCEPT !.content = c] : c \in {Null} \cup [imprint : Data \cup {Null}, gen_time : Times]}
  \cup {[t EXCEPT !.sid = i] : i \in Ids}
  \cup {[t EXCEPT !.certs = cs] : cs \in {<<>>, <<Twin, Unit>>, <<Unit, Twin>>, <<Again, Unit>>}}
  \cup {[t EXCEPT !.attrs = x] : x \in Attributed \cup {Null}}
  \cup {[t EXCEPT !.attrs.ess = Malformed], [t EXCEPT !.attrs.content_type = FALSE]}
  \cup {[t EXCEPT !.signature = s] : s \in [key : {rogue}, attrs : {t.attrs, Token([cert |-> Unit, content |-> Tst(d2, 1)]).attrs}]}
Exchanges(ts) == UNION {Exchanged(t) : t \in {u \in ts : u.attrs # Null}}
AllTokens == Genuine \cup Owned \cup Exchanges(Genuine \cup Owned)
             \cup Exchanges(Exchanges({Token([cert |-> Unit, content |-> Tst(d1, 2)])}))

Qtst == [type : {"QTST"}, from : Times \cup {Null}, status : {"granted", "withdrawn"}]
Histories ==
  {<<e>> : e \in Entries} \cup {<<e, f>> : e, f \in Entries} \cup {<<e, f, g>> : e, f, g \in Qtst}
Short == {<<e>> : e \in Qtst} \cup
         {<<[e EXCEPT !.from = 3], f>> : e \in Qtst, f \in {e \in Entries : e.from = 1}}
Service(cs, h) == [certs |-> cs, history |-> h]
Named == {{}, {Unit}, {Ca}, {Again, Own}}
OneService == {<<Service(cs, h)>> : cs \in {{Unit}, {Ca}}, h \in Histories}
Brief == {h \in Short : h[1].from \in {1, 3}}
Mixed == {<<Service(cs, h)>> : cs \in Named, h \in Brief}
TwoServices == {k \o l : k, l \in Mixed}
ListsGiven == {<<l>> : l \in OneService \cup TwoServices} \cup {<<k, l>> : k, l \in Mixed}
              \cup {<<>>, <<Null>>, <<<<>>, Null>>} \cup {<<k, Null>> : k \in Mixed}

Call(t, d, x, ls) == [token |-> t, data |-> d, extra |-> x, tsl_files |-> ls]
MCCalls == {Call(t, d, x, <<<<Service({Unit}, <<[type |-> "QTST", from |-> 2, status |-> "granted"]>>)>>>>) :
              t \in AllTokens, d \in Data, x \in {<<>>, <<Unit>>, <<Twin>>, <<Again, Own>>}}
           \cup {Call(Token(stamp), d1, <<>>, ls) : stamp \in {u \in MCStamped : u.cert = Unit}, ls \in ListsGiven}
=============================================================================
