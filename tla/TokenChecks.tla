----------------------------- MODULE TokenChecks -----------------------------
(***************************************************************************)
(* An RFC 3161 token over some data and Trusted Lists to look its TSA up   *)
(* in: verify_token, parse_tsl_qtst, status_at, check_tsl and token_checks *)
(* of tsp_verify.py.  The chain of the signer and its root are those of    *)
(* module TrustChain.  What the keys of honest TSAs signed is Stamped.     *)
(***************************************************************************)
EXTENDS Naturals, Sequences

CONSTANTS
  Data, Times,
  Ids, Keys,     \* issuer and serial number of a certificate, its key
  Null,          \* nothing, or a Trusted List that cannot be parsed
  Malformed,     \* an attribute that cannot be parsed
  Calls,         \* the calls: the token, of any form, the data it is said to be over, the
                 \* certificates from outside the token and the Trusted Lists
  Chain,         \* Chain[c]: build_chain's certificates for signer c, c first; its check and
                 \* that of check_trust_root
  Honest,        \* keys of TSAs that sign nothing but the stamps they issue
  Stamped        \* those stamps: [cert, content]

Certs == [id : Ids, key : Keys, tsa : BOOLEAN, from : Times, to : Times]
Contents == [imprint : Data \cup {Null}, gen_time : Times]   \* imprint: Null for an unknown algorithm
Attrs == [content_type : BOOLEAN, message_digest : Contents \cup {Null},
          ess : Certs \cup {Null, Malformed}]
Forms == {"response", "bare", "refused", "empty", "other"}
TokenShape(t) ==
  /\ t.form \in Forms /\ t.content \in Contents \cup {Null} /\ t.infos \in 0..2
  /\ t.sid \in Ids /\ t.certs \in Seq(Certs) /\ t.attrs \in Attrs \cup {Null}
  /\ t.signature.key \in Keys /\ t.signature.attrs \in Attrs
AttrsOf(stamp) == [content_type |-> TRUE, message_digest |-> stamp.content, ess |-> stamp.cert]

(* A service of a Trusted List: its certificates and, the current one first, *)
(* what it was from when on, in no particular order.                         *)
Entries == [type : {"QTST", "other"}, from : Times \cup {Null}, status : {"granted", "withdrawn"}]
ServiceShape(svc) == svc.certs \subseteq Certs /\ svc.history \in Seq(Entries) /\ svc.history # <<>>
ListShape(l) == l = Null \/ (Len(l) \in Nat /\ \A s \in 1..Len(l) : ServiceShape(l[s]))

ASSUME TokenAssumption ==
  /\ Times \subseteq Nat /\ Null \notin Certs \cup Contents \cup Attrs \cup Times \cup Data
  /\ Malformed \notin Certs /\ Null \notin {"pass", "fail", "skip"}
  /\ \A call \in Calls :
       /\ TokenShape(call.token) /\ call.data \in Data /\ call.extra \in Seq(Certs)
       /\ Len(call.tsl_files) \in Nat /\ \A n \in 1..Len(call.tsl_files) : ListShape(call.tsl_files[n])
  /\ \A c \in Certs : /\ Chain[c].certs \in Seq(Certs) /\ Chain[c].certs # <<>> /\ Chain[c].certs[1] = c
                      /\ Chain[c].tsa_chain \in {"pass", "fail", "skip"}
                      /\ Chain[c].rooted \in {"pass", "fail"}
(* A signature by an honest key, wherever it is found, is over a stamp.      *)
ASSUME HonestAssumption ==
  \A t \in {call.token : call \in Calls} : t.signature.key \in Honest =>
    \E stamp \in Stamped : stamp.cert.key = t.signature.key /\ t.signature.attrs = AttrsOf(stamp)

VARIABLES
  args,        \* the call
  pc,
  errors,      \* info.errors
  signer_der,  \* info.signer_der, Null while None
  at,          \* where check_tsl is: list, service and certificate of the chain
  checks       \* status per check, Null when not reported

vars == <<args, pc, errors, signer_der, at, checks>>
token == args.token
data == args.data
extra == args.extra
tsl_files == args.tsl_files
CheckNames == {"timestamp_token", "tsa_chain", "tsa_trust_root", "tsl_qualified"}

Init ==
  /\ args \in Calls
  /\ pc = "load" /\ errors = {} /\ signer_der = Null /\ at = <<1, 1, 1>>
  /\ checks = [c \in CheckNames |-> Null]

-----------------------------------------------------------------------------
(* _verify_token.  "report" is its return.                                  *)
Go(next) == pc' = next /\ UNCHANGED <<args, at, checks>>
Faults(new) == errors' = errors \cup new
If(b, e) == IF b THEN {e} ELSE {}

Load ==
  /\ pc = "load"
  /\ IF token.form \in {"response", "bare"} THEN Go("content") /\ Faults({})
     ELSE Go("report") /\ Faults({"form"})
  /\ UNCHANGED signer_der
Content ==
  /\ pc = "content"
  /\ IF token.content = Null THEN Go("report") /\ Faults({"content"})
     ELSE /\ Go(IF token.infos = 0 THEN "report" ELSE "signer")
          /\ Faults(If(token.content.imprint # data, "imprint") \cup If(token.infos # 1, "signer_infos"))
  /\ UNCHANGED signer_der

pool == token.certs \o extra
Candidates == {i \in 1..Len(pool) : pool[i].id = token.sid}
Signer ==
  /\ pc = "signer"
  /\ IF Candidates = {} THEN Go("report") /\ Faults({"signer"}) /\ UNCHANGED signer_der
     ELSE /\ signer_der' = pool[CHOOSE i \in Candidates : \A j \in Candidates : i <= j]
          /\ IF token.attrs = Null THEN Go("report") /\ Faults({"attributes"})
             ELSE Go("attributes") /\ Faults({})

\* Mutant: the signed attributes are taken for the content they come with.
AttributeFaults_NoDigest ==
  If(~token.attrs.content_type, "content_type") \cup If(token.attrs.ess # signer_der, "ess")
\* Mutant: any certificate with the right issuer and serial number will do.
AttributeFaults_NoEss ==
  If(~token.attrs.content_type, "content_type")
  \cup If(token.attrs.message_digest # token.content, "message_digest")
AttributeFaults ==
  If(~token.attrs.content_type, "content_type")
  \cup If(token.attrs.message_digest # token.content, "message_digest")
  \cup If(token.attrs.ess # signer_der, "ess")
(* A malformed attribute raises: verify_token turns that into an error.      *)
Attributes ==
  /\ pc = "attributes" /\ Faults(AttributeFaults)
  /\ Go(IF token.attrs.ess = Malformed THEN "report" ELSE "signature") /\ UNCHANGED signer_der
SignatureOk == token.signature.key = signer_der.key /\ token.signature.attrs = token.attrs
Signature ==
  /\ pc = "signature" /\ Go("profile") /\ Faults(If(~SignatureOk, "signature")) /\ UNCHANGED signer_der
Profile ==
  /\ pc = "profile" /\ Go("report") /\ UNCHANGED signer_der
  /\ Faults(If(~signer_der.tsa, "eku") \cup
            If(~(signer_der.from <= token.content.gen_time /\ token.content.gen_time <= signer_der.to), "validity"))
VerifyToken == Load \/ Content \/ Signer \/ Attributes \/ Signature \/ Profile

-----------------------------------------------------------------------------
(* token_checks up to the Trusted Lists, and the lists parsed.              *)
info_ok == errors = {}
Status(b) == IF b THEN "pass" ELSE "fail"
TokenReport ==
  /\ pc = "report"
  /\ IF signer_der = Null
     THEN /\ checks' = [checks EXCEPT !["timestamp_token"] = Status(info_ok),
                          !["tsa_chain"] = "skip", !["tsl_qualified"] = "skip"]
          /\ pc' = "done"
     ELSE /\ checks' = [checks EXCEPT !["timestamp_token"] = Status(info_ok),
                          !["tsa_chain"] = Chain[signer_der].tsa_chain,
                          !["tsa_trust_root"] = Chain[signer_der].rooted]
          /\ pc' = "lists"
  /\ UNCHANGED <<args, errors, signer_der, at>>

chain_ders == Chain[signer_der].certs
gen_time == token.content.gen_time
Tsl(status) == checks' = [checks EXCEPT !["tsl_qualified"] = status] /\ pc' = "done"
ParseLists ==
  /\ pc = "lists"
  /\ IF tsl_files = <<>> THEN Tsl("skip")
     ELSE IF \E n \in 1..Len(tsl_files) : tsl_files[n] = Null THEN Tsl("fail")
     ELSE pc' = "look" /\ UNCHANGED checks
  /\ UNCHANGED <<args, errors, signer_der, at>>

(* parse_tsl_qtst: services that are of type QTST now, and of their history  *)
(* what is.                                                                 *)
\* Mutant: a service is taken by its history alone.
IsQtst_Ever(svc) == \E n \in 1..Len(svc.history) : svc.history[n].type = "QTST"
IsQtst(svc) == svc.history[1].type = "QTST"
Statuses(svc) == {n \in 1..Len(svc.history) : svc.history[n].type = "QTST"}

(* status_at: the entry with the latest start not after genTime, of those    *)
(* with one start the first; without any dated entry the current one.       *)
Dated(svc) == {n \in Statuses(svc) : svc.history[n].from # Null}
Started(svc) == {n \in Dated(svc) : svc.history[n].from <= gen_time}
\* Mutant: the history is taken to be sorted, the newest entry first.
status_at_Sorted(svc) ==
  IF Dated(svc) = {} THEN 1
  ELSE IF Started(svc) = {} THEN 0
  ELSE CHOOSE n \in Started(svc) : \A m \in Started(svc) : n <= m
\* Mutant: the newest entry, whenever it started.
status_at_Current(svc) ==
  IF Dated(svc) = {} THEN 1
  ELSE CHOOSE n \in Dated(svc) :
         \A m \in Dated(svc) : \/ svc.history[m].from < svc.history[n].from
                               \/ svc.history[m].from = svc.history[n].from /\ n <= m
status_at(svc) ==
  IF Dated(svc) = {} THEN 1
  ELSE IF Started(svc) = {} THEN 0
  ELSE CHOOSE n \in Started(svc) :
         \A m \in Started(svc) : \/ svc.history[m].from < svc.history[n].from
                                 \/ svc.history[m].from = svc.history[n].from /\ n <= m

(* check_tsl: lists, services of a list, certificates of the chain; the      *)
(* first service that has one decides.                                      *)
AtList == at[1] <= Len(tsl_files)
list == tsl_files[at[1]]
service == list[at[2]]
AtService == AtList /\ at[2] <= Len(list)
NotListed ==
  /\ pc = "look" /\ ~AtList /\ Tsl("fail")
  /\ UNCHANGED <<args, errors, signer_der, at>>
Move(to) == at' = to /\ UNCHANGED <<args, pc, errors, signer_der, checks>>
NextList == pc = "look" /\ AtList /\ at[2] > Len(list) /\ Move(<<at[1] + 1, 1, 1>>)
\* Mutant: the search in the next service begins where it ended in this one.
NextService_NoReset ==
  /\ pc = "look" /\ AtService /\ (~IsQtst(service) \/ at[3] > Len(chain_ders))
  /\ Move(<<at[1], at[2] + 1, at[3]>>)
NextService ==
  /\ pc = "look" /\ AtService /\ (~IsQtst(service) \/ at[3] > Len(chain_ders))
  /\ Move(<<at[1], at[2] + 1, 1>>)
AtCert == pc = "look" /\ AtService /\ IsQtst(service) /\ at[3] <= Len(chain_ders)
NextCert == AtCert /\ chain_ders[at[3]] \notin service.certs /\ Move(<<at[1], at[2], at[3] + 1>>)
Found ==
  /\ AtCert /\ chain_ders[at[3]] \in service.certs
  /\ LET n == status_at(service) IN Tsl(Status(n # 0 /\ service.history[n].status = "granted"))
  /\ UNCHANGED <<args, errors, signer_der, at>>
CheckTsl == ParseLists \/ NotListed \/ NextList \/ NextService \/ NextCert \/ Found

Next == VerifyToken \/ TokenReport \/ CheckTsl
Spec == Init /\ [][Next]_vars

-----------------------------------------------------------------------------
Ends == {"load", "content", "signer", "attributes", "signature", "profile", "report", "lists", "look", "done"}
TypeOK ==
  /\ pc \in Ends /\ signer_der \in Certs \cup {Null}
  /\ at[1] \in Nat \ {0} /\ at[2] \in Nat \ {0} /\ at[3] \in Nat \ {0}
  /\ \A c \in CheckNames : checks[c] \in {"pass", "fail", "skip", Null}

(* "Without this check the CMS signature only proves the signed attributes   *)
(* are authentic" (docstring): where timestamp_token passes and the signer   *)
(* is honest, it did stamp this very data at this time under this very       *)
(* certificate, whatever token its signature was moved into.                 *)
PassMeansStamped ==
  checks["timestamp_token"] = "pass" /\ signer_der.key \in Honest =>
    /\ \E stamp \in Stamped : stamp.cert = signer_der /\ stamp.content = token.content
    /\ token.content.imprint = data
    /\ signer_der.from <= gen_time /\ gen_time <= signer_der.to

(* "Status is evaluated at genTime, using the service status history": what  *)
(* is called qualified is a certificate of the chain that a list has, with a *)
(* QTST entry granted that no other such entry had replaced by then.         *)
InForceAt(svc, e, when) ==
  /\ e.type = "QTST"
  /\ \/ /\ e.from # Null /\ e.from <= when
        /\ \A n \in Dated(svc) : svc.history[n].from <= when => svc.history[n].from <= e.from
     \/ e.from = Null /\ Dated(svc) = {}
Granted(svc) ==
  \E n \in 1..Len(svc.history) :
    svc.history[n].status = "granted" /\ InForceAt(svc, svc.history[n], gen_time)
Lists(svc) == IsQtst(svc) /\ \E i \in 1..Len(chain_ders) : chain_ders[i] \in svc.certs
PassMeansGranted ==
  checks["tsl_qualified"] = "pass" =>
    \E n \in 1..Len(tsl_files) : \E s \in 1..Len(tsl_files[n]) :
      Lists(tsl_files[n][s]) /\ Granted(tsl_files[n][s])

(* No false alarm: where lists can be read, one has the TSA, and every one   *)
(* that does has nothing but granted in force at genTime, the check passes.  *)
Withdrawn(svc) ==
  \/ Dated(svc) # {} /\ Started(svc) = {}
  \/ \E n \in Statuses(svc) :
       svc.history[n].status = "withdrawn" /\ InForceAt(svc, svc.history[n], gen_time)
GrantedPasses ==
  checks["tsl_qualified"] = "fail" =>
    \/ \E n \in 1..Len(tsl_files) : tsl_files[n] = Null
    \/ \E n \in 1..Len(tsl_files) : \E s \in 1..Len(tsl_files[n]) :
         Lists(tsl_files[n][s]) /\ Withdrawn(tsl_files[n][s])
    \/ \A n \in 1..Len(tsl_files) : \A s \in 1..Len(tsl_files[n]) : ~Lists(tsl_files[n][s])
=============================================================================
