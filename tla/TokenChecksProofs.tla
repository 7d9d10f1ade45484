-------------------------- MODULE TokenChecksProofs --------------------------
(***************************************************************************)
(* For every token, honest TSA and set of Trusted Lists: a token that       *)
(* passes was stamped by its signer over the data, and what is called       *)
(* qualified has a granted entry in force at genTime.                       *)
(***************************************************************************)
EXTENDS TokenChecks, Extrema, TLAPS

(* What _verify_token has seen when it gets to a step without an error.      *)
Imprinted == token.content.imprint = data
Described ==
  token.attrs.content_type /\ token.attrs.message_digest = token.content /\ token.attrs.ess = signer_der
Timely == signer_der.from <= gen_time /\ gen_time <= signer_der.to
Late == {"report", "lists", "look", "done"}
SignerKnown == {"attributes", "signature", "profile", "lists", "look"}

StepInv ==
  /\ pc \in Ends /\ args \in Calls
  /\ pc \in {"signer"} \cup SignerKnown => token.content \in Contents
  /\ pc \in SignerKnown => signer_der \in Certs
  /\ pc \in {"attributes", "signature", "profile"} => token.attrs \in Attrs
  /\ pc \in {"load", "content", "signer"} => signer_der = Null
  /\ signer_der = Null \/ (signer_der \in Certs /\ token.content \in Contents)
ErrorInv ==
  errors = {} =>
    /\ pc \in {"signer", "attributes", "signature", "profile"} \cup Late => Imprinted
    /\ pc \in {"signature", "profile"} \cup Late => Described
    /\ pc \in {"profile"} \cup Late => SignatureOk
    /\ pc \in Late => Timely /\ signer_der \in Certs /\ token.content \in Contents
ReportInv ==
  /\ pc \notin {"lists", "look", "done"} => checks["timestamp_token"] = Null
  /\ checks["timestamp_token"] = "pass" => errors = {} /\ pc \in Late
  /\ DOMAIN checks = CheckNames
TokenInv == StepInv /\ ErrorInv /\ ReportInv

LEMMA CallShape ==
  ASSUME args \in Calls
  PROVE  /\ TokenShape(token) /\ data \in Data /\ extra \in Seq(Certs)
         /\ Len(tsl_files) \in Nat /\ \A n \in 1..Len(tsl_files) : ListShape(tsl_files[n])
BY TokenAssumption DEF token, data, extra, tsl_files

(* The signer is one of the certificates at hand.                            *)
LEMMA SignerTyped ==
  ASSUME args \in Calls, Candidates # {}
  PROVE  pool[CHOOSE i \in Candidates : \A j \in Candidates : i <= j] \in Certs
<1>1. pool \in Seq(Certs) BY CallShape DEF pool, TokenShape
<1>2. Candidates \in SUBSET Nat BY <1>1 DEF Candidates
<1>3. \E i \in Candidates : \A j \in Candidates : i <= j BY <1>2, Least
<1>4. (CHOOSE i \in Candidates : \A j \in Candidates : i <= j) \in Candidates BY <1>3
<1> QED BY <1>1, <1>4 DEF Candidates

LEMMA InitInv == Init => TokenInv
<1> SUFFICES ASSUME Init PROVE TokenInv OBVIOUS
<1>1. StepInv BY DEF Init, StepInv, Ends, SignerKnown
<1>2. ErrorInv BY DEF Init, ErrorInv, Late
<1>3. ReportInv
  <2>1. checks["timestamp_token"] = Null BY DEF Init, CheckNames
  <2>2. Null # "pass" BY TokenAssumption
  <2> QED BY <2>1, <2>2 DEF Init, ReportInv
<1> QED BY <1>1, <1>2, <1>3 DEF TokenInv

-----------------------------------------------------------------------------
LEMMA LoadStep == TokenInv /\ Load => TokenInv'
<1> SUFFICES ASSUME TokenInv, Load PROVE TokenInv' OBVIOUS
<1> USE DEF Load, Go, Faults
<1>1. pc = "load" /\ UNCHANGED <<args, at, checks, signer_der>> OBVIOUS
<1>2. pc' = "content" \/ (pc' = "report" /\ "form" \in errors') OBVIOUS
<1>3. StepInv' BY <1>1, <1>2 DEF TokenInv, StepInv, Ends, SignerKnown, token
<1>4. ErrorInv' BY <1>1, <1>2 DEF TokenInv, ErrorInv, Late
<1>5. ReportInv' BY <1>1, <1>2 DEF TokenInv, ReportInv, Late, CheckNames
<1> QED BY <1>3, <1>4, <1>5 DEF TokenInv

LEMMA ContentStep == TokenInv /\ Content => TokenInv'
<1> SUFFICES ASSUME TokenInv, Content PROVE TokenInv' OBVIOUS
<1> USE DEF Content, Go, Faults, If
<1>1. pc = "content" /\ UNCHANGED <<args, at, checks, signer_der>> OBVIOUS
<1>2. \/ pc' = "report" /\ errors' # {}
      \/ pc' = "signer" /\ token.content \in Contents /\ (errors' = {} => Imprinted)
  <2>1. token.content \in Contents \cup {Null} BY CallShape DEF TokenInv, StepInv, TokenShape
  <2>2. CASE token.content = Null BY <2>2
  <2>3. CASE token.content # Null
    <3>1. errors' = {} => token.content.imprint = data /\ token.infos = 1 BY <2>3
    <3>2. token.infos = 0 => errors' # {} BY <3>1
    <3>3. pc' = IF token.infos = 0 THEN "report" ELSE "signer" BY <2>3
    <3> QED BY <2>1, <2>3, <3>1, <3>2, <3>3 DEF Imprinted
  <2> QED BY <2>2, <2>3
<1>3. StepInv' BY <1>1, <1>2 DEF TokenInv, StepInv, Ends, SignerKnown, token
<1>4. ErrorInv' BY <1>1, <1>2 DEF TokenInv, ErrorInv, Late, Imprinted, token, data
<1>5. ReportInv' BY <1>1, <1>2 DEF TokenInv, ReportInv, Late, CheckNames
<1> QED BY <1>3, <1>4, <1>5 DEF TokenInv

LEMMA SignerStep == TokenInv /\ Signer => TokenInv'
<1> SUFFICES ASSUME TokenInv, Signer PROVE TokenInv' OBVIOUS
<1>1. pc = "signer" /\ UNCHANGED <<args, at, checks>> BY DEF Signer, Go
<1>2. \/ pc' = "report" /\ errors' # {} /\ (signer_der' = Null \/ signer_der' \in Certs)
      \/ pc' = "attributes" /\ errors' = errors /\ token.attrs \in Attrs /\ signer_der' \in Certs
  <2>1. CASE Candidates = {} BY <2>1 DEF Signer, Go, Faults, TokenInv, StepInv
  <2>2. CASE Candidates # {}
    <3>1. signer_der' \in Certs BY <2>2, SignerTyped DEF Signer, TokenInv, StepInv
    <3>2. CASE token.attrs = Null BY <2>2, <3>1, <3>2 DEF Signer, Go, Faults
    <3>3. CASE token.attrs # Null
      <4>1. token.attrs \in Attrs BY <3>3, CallShape DEF TokenInv, StepInv, TokenShape
      <4> QED BY <2>2, <3>1, <3>3, <4>1 DEF Signer, Go, Faults
    <3> QED BY <3>2, <3>3
  <2> QED BY <2>1, <2>2
<1>3. StepInv' BY <1>1, <1>2 DEF TokenInv, StepInv, Ends, SignerKnown, token
<1>4. ErrorInv' BY <1>1, <1>2 DEF TokenInv, ErrorInv, Late, Imprinted, token, data
<1>5. ReportInv' BY <1>1, <1>2 DEF TokenInv, ReportInv, Late, CheckNames
<1> QED BY <1>3, <1>4, <1>5 DEF TokenInv

LEMMA AttributesStep == TokenInv /\ Attributes => TokenInv'
<1> SUFFICES ASSUME TokenInv, Attributes PROVE TokenInv' OBVIOUS
<1>1. pc = "attributes" /\ UNCHANGED <<args, at, checks, signer_der>> BY DEF Attributes, Go
<1>2. errors' = {} => errors = {} /\ Described
  BY DEF Attributes, Faults, AttributeFaults, If, Described
<1>3. \/ pc' = "report" /\ (errors' = {} => FALSE)
      \/ pc' = "signature"
  <2>1. CASE token.attrs.ess = Malformed
    <3>1. errors' # {} \/ signer_der = Malformed
      BY <2>1 DEF Attributes, Faults, AttributeFaults, If
    <3>2. signer_der # Malformed BY <1>1, TokenAssumption DEF TokenInv, StepInv, SignerKnown
    <3> QED BY <2>1, <3>1, <3>2 DEF Attributes, Go
  <2> QED BY <2>1 DEF Attributes, Go
<1>4. StepInv' BY <1>1, <1>3 DEF TokenInv, StepInv, Ends, SignerKnown, token
<1>5. ErrorInv'
  BY <1>1, <1>2, <1>3 DEF TokenInv, ErrorInv, Late, Imprinted, Described, token, data
<1>6. ReportInv' BY <1>1, <1>3 DEF TokenInv, ReportInv, Late, CheckNames
<1> QED BY <1>4, <1>5, <1>6 DEF TokenInv

LEMMA SignatureStep == TokenInv /\ Signature => TokenInv'
<1> SUFFICES ASSUME TokenInv, Signature PROVE TokenInv' OBVIOUS
<1>1. pc = "signature" /\ pc' = "profile" /\ UNCHANGED <<args, at, checks, signer_der>>
  BY DEF Signature, Go
<1>2. errors' = {} => errors = {} /\ SignatureOk BY DEF Signature, Faults, If
<1>3. StepInv' BY <1>1 DEF TokenInv, StepInv, Ends, SignerKnown, token
<1>4. ErrorInv'
  BY <1>1, <1>2 DEF TokenInv, ErrorInv, Late, Imprinted, Described, SignatureOk, token, data
<1>5. ReportInv' BY <1>1 DEF TokenInv, ReportInv, Late, CheckNames
<1> QED BY <1>3, <1>4, <1>5 DEF TokenInv

LEMMA ProfileStep == TokenInv /\ Profile => TokenInv'
<1> SUFFICES ASSUME TokenInv, Profile PROVE TokenInv' OBVIOUS
<1>1. pc = "profile" /\ pc' = "report" /\ UNCHANGED <<args, at, checks, signer_der>>
  BY DEF Profile, Go
<1>2. errors' = {} => errors = {} /\ Timely BY DEF Profile, Faults, If, Timely, gen_time
<1>3. StepInv' BY <1>1 DEF TokenInv, StepInv, Ends, SignerKnown, token
<1>4. ErrorInv'
  BY <1>1, <1>2 DEF TokenInv, StepInv, ErrorInv, SignerKnown, Late, Imprinted, Described, SignatureOk,
                    Timely, gen_time, token, data
<1>5. ReportInv' BY <1>1 DEF TokenInv, ReportInv, Late, CheckNames
<1> QED BY <1>3, <1>4, <1>5 DEF TokenInv

LEMMA ReportStep == TokenInv /\ TokenReport => TokenInv'
<1> SUFFICES ASSUME TokenInv, TokenReport PROVE TokenInv' OBVIOUS
<1>1. pc = "report" /\ UNCHANGED <<args, errors, signer_der, at>> BY DEF TokenReport
<1>2. pc' = IF signer_der = Null THEN "done" ELSE "lists" BY DEF TokenReport
<1>3. DOMAIN checks' = CheckNames /\ checks'["timestamp_token"] = Status(info_ok)
  <2>1. CASE signer_der = Null BY <2>1 DEF TokenReport, TokenInv, ReportInv, CheckNames
  <2>2. CASE signer_der # Null BY <2>2 DEF TokenReport, TokenInv, ReportInv, CheckNames
  <2> QED BY <2>1, <2>2
<1>4. StepInv' BY <1>1, <1>2 DEF TokenInv, StepInv, Ends, SignerKnown, token
<1>5. ErrorInv'
  BY <1>1, <1>2 DEF TokenInv, ErrorInv, Late, Imprinted, Described, SignatureOk, Timely, gen_time, token, data
<1>6. ReportInv' BY <1>1, <1>2, <1>3 DEF ReportInv, Late, Status, info_ok
<1> QED BY <1>4, <1>5, <1>6 DEF TokenInv

(* What the steps of check_tsl have in common.                               *)
LEMMA TslKeeps ==
  ASSUME TokenInv, CheckTsl
  PROVE  /\ pc \in {"lists", "look"} /\ pc' \in {"look", "done"}
         /\ UNCHANGED <<args, errors, signer_der>>
         /\ DOMAIN checks' = CheckNames /\ checks'["timestamp_token"] = checks["timestamp_token"]
         /\ \/ checks' = checks
            \/ pc' = "done" /\ \E s \in {"pass", "fail", "skip"} : checks'["tsl_qualified"] = s
<1>1. DOMAIN checks = CheckNames BY DEF TokenInv, ReportInv
<1>2. ASSUME NEW s \in {"pass", "fail", "skip"}, Tsl(s)
      PROVE  /\ pc' = "done" /\ DOMAIN checks' = CheckNames
             /\ checks'["timestamp_token"] = checks["timestamp_token"] /\ checks'["tsl_qualified"] = s
  BY <1>1, <1>2 DEF Tsl, CheckNames
<1>3. CASE ParseLists BY <1>1, <1>2, <1>3 DEF ParseLists
<1>4. CASE NotListed BY <1>1, <1>2, <1>4 DEF NotListed
<1>5. CASE NextList \/ NextService \/ NextCert
  BY <1>1, <1>5 DEF NextList, NextService, NextCert, AtCert, Move
<1>6. CASE Found
  <2>1. \E b \in BOOLEAN : Tsl(Status(b))
    <3> DEFINE n == status_at(service)
    <3>1. (n # 0 /\ service.history[n].status = "granted") \in BOOLEAN OBVIOUS
    <3> QED BY <1>6, <3>1 DEF Found
  <2> QED BY <1>2, <1>6, <2>1 DEF Found, AtCert, Status
<1> QED BY <1>3, <1>4, <1>5, <1>6 DEF CheckTsl

LEMMA TslStep == TokenInv /\ CheckTsl => TokenInv'
<1> SUFFICES ASSUME TokenInv, CheckTsl PROVE TokenInv' OBVIOUS
<1>1. /\ pc \in {"lists", "look"} /\ pc' \in {"look", "done"} /\ UNCHANGED <<args, errors, signer_der>>
      /\ DOMAIN checks' = CheckNames /\ checks'["timestamp_token"] = checks["timestamp_token"]
  BY TslKeeps
<1>2. StepInv' BY <1>1 DEF TokenInv, StepInv, Ends, SignerKnown, token
<1>3. ErrorInv'
  BY <1>1 DEF TokenInv, ErrorInv, Late, Imprinted, Described, SignatureOk, Timely, gen_time, token, data
<1>4. ReportInv' BY <1>1 DEF TokenInv, ReportInv, Late
<1> QED BY <1>2, <1>3, <1>4 DEF TokenInv

LEMMA StutterStep == TokenInv /\ UNCHANGED vars => TokenInv'
<1> SUFFICES ASSUME TokenInv, UNCHANGED vars PROVE TokenInv' OBVIOUS
<1>1. UNCHANGED <<args, pc, errors, signer_der, at, checks>> BY DEF vars
<1> QED BY <1>1 DEF TokenInv, StepInv, ErrorInv, ReportInv, Imprinted, Described, SignatureOk, Timely,
                    gen_time, token, data

LEMMA Step == TokenInv /\ [Next]_vars => TokenInv'
BY LoadStep, ContentStep, SignerStep, AttributesStep, SignatureStep, ProfileStep, ReportStep, TslStep,
   StutterStep DEF Next, VerifyToken

(* The invariant says what a passed token has been through; that the signer  *)
(* is honest makes of its attributes a stamp.                                *)
LEMMA InvStamped == TokenInv => PassMeansStamped
<1> SUFFICES ASSUME TokenInv, checks["timestamp_token"] = "pass", signer_der.key \in Honest
             PROVE  /\ \E stamp \in Stamped : stamp.cert = signer_der /\ stamp.content = token.content
                    /\ token.content.imprint = data
                    /\ signer_der.from <= gen_time /\ gen_time <= signer_der.to
  BY DEF PassMeansStamped
<1>1. errors = {} /\ pc \in Late BY DEF TokenInv, ReportInv
<1>2. Imprinted /\ Described /\ SignatureOk /\ Timely BY <1>1 DEF TokenInv, ErrorInv
<1>3. token.signature.key \in Honest /\ token.signature.attrs = token.attrs BY <1>2 DEF SignatureOk
<1>4. token \in {call.token : call \in Calls} BY DEF TokenInv, StepInv, token
<1>5. PICK stamp \in Stamped : token.signature.attrs = AttrsOf(stamp) BY <1>3, <1>4, HonestAssumption
<1>6. stamp.cert = token.attrs.ess /\ stamp.content = token.attrs.message_digest
  BY <1>3, <1>5 DEF AttrsOf
<1> QED BY <1>2, <1>6 DEF Imprinted, Described, Timely

(* timestamp_token passes only for what an honest signer stamped, whatever   *)
(* the token was put together from.                                          *)
THEOREM StampSound == Spec => []PassMeansStamped
<1>1. Init => TokenInv BY InitInv
<1>2. TokenInv /\ [Next]_vars => TokenInv' BY Step
<1>3. TokenInv => PassMeansStamped BY InvStamped
<1> QED BY <1>1, <1>2, <1>3, PTL DEF Spec

-----------------------------------------------------------------------------
(* status_at finds the entry in force, if there is one.                      *)
LEMMA StatusFound ==
  ASSUME NEW svc, ServiceShape(svc), IsQtst(svc), gen_time \in Times
  PROVE  \/ Dated(svc) = {} /\ status_at(svc) = 1 /\ 1 \in Statuses(svc)
         \/ Dated(svc) # {} /\ Started(svc) = {} /\ status_at(svc) = 0
         \/ /\ status_at(svc) \in Started(svc) /\ status_at(svc) # 0
            /\ \A m \in Started(svc) : svc.history[m].from <= svc.history[status_at(svc)].from
<1> DEFINE from(n) == svc.history[n].from
           S == Started(svc)
           Latest(n) == \A m \in S : from(m) < from(n) \/ (from(m) = from(n) /\ n <= m)
<1>1. svc.history \in Seq(Entries) /\ svc.history # <<>> BY DEF ServiceShape
<1>2. 1 \in 1..Len(svc.history) BY <1>1
<1>3. CASE Dated(svc) = {} BY <1>2, <1>3 DEF status_at, Statuses, IsQtst
<1>4. CASE Dated(svc) # {} /\ S = {} BY <1>4 DEF status_at
<1>5. CASE S # {}
  <2>1. gen_time \in Nat BY TokenAssumption
  <2>2. S \in SUBSET (1..Len(svc.history)) BY DEF Started, Dated, Statuses
  <2>3. ASSUME NEW n \in S PROVE from(n) \in Nat /\ from(n) <= gen_time
    <3>1. n \in 1..Len(svc.history) BY <2>2
    <3>2. svc.history[n] \in Entries BY <1>1, <3>1
    <3>3. from(n) \in Times \cup {Null} BY <3>2 DEF Entries
    <3>4. from(n) # Null /\ from(n) <= gen_time BY DEF Started, Dated
    <3>5. Times \subseteq Nat BY TokenAssumption
    <3> QED BY <3>3, <3>4, <3>5
  <2>4. PICK e \in S : \A m \in S : from(m) <= from(e)
    <3> DEFINE T == {gen_time - from(n) : n \in S}
    <3>1. T \in SUBSET Nat BY <2>1, <2>3
    <3>2. T # {} BY <1>5
    <3>3. PICK t \in T : \A u \in T : t <= u
      <4> HIDE DEF T
      <4> QED BY <3>1, <3>2, Least
    <3>4. PICK e \in S : t = gen_time - from(e) BY <3>3
    <3>5. ASSUME NEW m \in S PROVE from(m) <= from(e)
      <4>1. gen_time - from(m) \in T OBVIOUS
      <4>2. gen_time - from(e) <= gen_time - from(m) BY <3>3, <3>4, <4>1
      <4>3. from(m) \in Nat /\ from(e) \in Nat BY <2>3
      <4> QED BY <2>1, <4>2, <4>3
    <3> QED BY <3>5
  <2>5. PICK n \in {m \in S : from(m) = from(e)} : \A m \in {k \in S : from(k) = from(e)} : n <= m
    <3> DEFINE E == {m \in S : from(m) = from(e)}
    <3>1. E \in SUBSET Nat /\ E # {} BY <1>1, <2>2
    <3>2. \E n \in E : \A m \in E : n <= m
      <4> HIDE DEF E
      <4> QED BY <3>1, Least
    <3> QED BY <3>2
  <2>6. n \in S /\ Latest(n)
    <3>1. n \in S /\ from(n) = from(e) BY <2>5
    <3>2. ASSUME NEW m \in S PROVE from(m) < from(n) \/ (from(m) = from(n) /\ n <= m)
      <4>1. CASE from(m) = from(e) BY <2>5, <3>1, <4>1
      <4>2. CASE from(m) # from(e)
        <5>1. from(m) <= from(e) /\ from(m) \in Nat /\ from(e) \in Nat BY <2>3, <2>4
        <5> QED BY <3>1, <4>2, <5>1
      <4> QED BY <4>1, <4>2
    <3> QED BY <3>1, <3>2
  <2>7. status_at(svc) = CHOOSE k \in S : Latest(k)
    <3>1. Dated(svc) # {} BY <1>5 DEF Started
    <3> QED BY <1>5, <3>1 DEF status_at
  <2>8. status_at(svc) \in S /\ Latest(status_at(svc)) BY <2>6, <2>7
  <2>9. \A m \in S : from(m) <= from(status_at(svc)) BY <2>3, <2>8
  <2>10. status_at(svc) # 0 BY <2>2, <2>8
  <2> QED BY <2>8, <2>9, <2>10
<1> QED BY <1>3, <1>4, <1>5

(* Granted in force makes the check pass, anything else in force fail.       *)
LEMMA StatusDecides ==
  ASSUME NEW svc, ServiceShape(svc), IsQtst(svc), gen_time \in Times
  PROVE  /\ status_at(svc) # 0 /\ svc.history[status_at(svc)].status = "granted" => Granted(svc)
         /\ ~(status_at(svc) # 0 /\ svc.history[status_at(svc)].status = "granted") => Withdrawn(svc)
<1> DEFINE n == status_at(svc)
<1>1. CASE Dated(svc) # {} /\ Started(svc) = {} /\ n = 0 BY <1>1 DEF Withdrawn
<1>2. CASE n \in Statuses(svc) /\ n # 0 /\ InForceAt(svc, svc.history[n], gen_time)
  <2>1. n \in 1..Len(svc.history) /\ svc.history[n] \in Entries BY <1>2 DEF Statuses, ServiceShape
  <2>2. svc.history[n].status \in {"granted", "withdrawn"} BY <2>1 DEF Entries
  <2> QED BY <1>2, <2>1, <2>2 DEF Granted, Withdrawn
<1>3. CASE Dated(svc) = {} /\ n = 1 /\ 1 \in Statuses(svc)
  <2>1. svc.history[1].type = "QTST" /\ svc.history[1].from = Null BY <1>3 DEF Statuses, Dated
  <2> QED BY <1>2, <1>3, <2>1 DEF InForceAt
<1>4. CASE /\ n \in Started(svc) /\ n # 0
           /\ \A m \in Started(svc) : svc.history[m].from <= svc.history[n].from
  <2>1. n \in Statuses(svc) /\ svc.history[n].type = "QTST"
        /\ svc.history[n].from # Null /\ svc.history[n].from <= gen_time
    BY <1>4 DEF Started, Dated, Statuses
  <2>2. \A m \in Dated(svc) : svc.history[m].from <= gen_time => svc.history[m].from <= svc.history[n].from
    BY <1>4 DEF Started
  <2>3. InForceAt(svc, svc.history[n], gen_time) BY <2>1, <2>2 DEF InForceAt
  <2> QED BY <1>2, <1>4, <2>1, <2>3
<1> QED BY <1>1, <1>3, <1>4, StatusFound

-----------------------------------------------------------------------------
(* check_tsl: the services it has passed by have no certificate of the chain. *)
Readable == \A n \in 1..Len(tsl_files) : tsl_files[n] # Null
SomeGranted ==
  \E n \in 1..Len(tsl_files) : \E s \in 1..Len(tsl_files[n]) :
    Lists(tsl_files[n][s]) /\ Granted(tsl_files[n][s])
SomeWithdrawn ==
  \E n \in 1..Len(tsl_files) : \E s \in 1..Len(tsl_files[n]) :
    Lists(tsl_files[n][s]) /\ Withdrawn(tsl_files[n][s])
NoneListed == \A n \in 1..Len(tsl_files) : \A s \in 1..Len(tsl_files[n]) : ~Lists(tsl_files[n][s])
PassedBy(t, k) ==
  \A n \in 1..Len(tsl_files) : \A s \in 1..Len(tsl_files[n]) :
    n < t \/ (n = t /\ s < k) => ~Lists(tsl_files[n][s])
LookInv ==
  /\ pc # "done" => checks["tsl_qualified"] = Null
  /\ at[1] \in Nat \ {0} /\ at[2] \in Nat \ {0} /\ at[3] \in Nat \ {0}
  /\ pc = "look" => Readable
  /\ pc \in {"lists", "look"} => PassedBy(at[1], at[2])
  /\ pc \in {"lists", "look"} /\ AtService => \A i \in 1..Len(chain_ders) : i < at[3] => chain_ders[i] \notin service.certs
  /\ pc \notin {"look", "done"} => at = <<1, 1, 1>>
  /\ PassMeansGranted
  /\ checks["tsl_qualified"] = "fail" => ~Readable \/ SomeWithdrawn \/ NoneListed

LEMMA SameServices ==
  ASSUME UNCHANGED <<args, signer_der>>
  PROVE  /\ (SomeGranted <=> SomeGranted') /\ (SomeWithdrawn <=> SomeWithdrawn')
         /\ (NoneListed <=> NoneListed') /\ (Readable <=> Readable')
         /\ tsl_files' = tsl_files /\ chain_ders' = chain_ders
         /\ \A t, k : PassedBy(t, k) <=> PassedBy(t, k)'
<1>1. tsl_files' = tsl_files /\ chain_ders' = chain_ders /\ gen_time' = gen_time
  BY DEF tsl_files, chain_ders, gen_time, token
<1>2. ASSUME NEW svc
      PROVE  /\ (Lists(svc) <=> Lists(svc)') /\ (Granted(svc) <=> Granted(svc)')
             /\ (Withdrawn(svc) <=> Withdrawn(svc)')
  BY <1>1 DEF Lists, Granted, Withdrawn, Started
<1> QED BY <1>1, <1>2 DEF SomeGranted, SomeWithdrawn, NoneListed, Readable, PassedBy

LEMMA LookInit == Init => LookInv
<1> SUFFICES ASSUME Init PROVE LookInv OBVIOUS
<1>1. checks["tsl_qualified"] = Null /\ Null \notin {"pass", "fail", "skip"}
  BY TokenAssumption DEF Init, CheckNames
<1> QED BY <1>1 DEF Init, LookInv, PassMeansGranted

(* Before the lists nothing is said of them.                                 *)
LEMMA LookVerify == TokenInv /\ LookInv /\ VerifyToken => LookInv'
<1> SUFFICES ASSUME TokenInv, LookInv, VerifyToken PROVE LookInv' OBVIOUS
<1>1. /\ pc \notin {"lists", "look", "done"} /\ pc' \notin {"lists", "look", "done"}
      /\ at' = at /\ checks' = checks
  BY DEF VerifyToken, Load, Content, Signer, Attributes, Signature, Profile, Go
<1>2. checks["tsl_qualified"] = Null BY <1>1 DEF LookInv
<1>3. Null \notin {"pass", "fail", "skip"} BY TokenAssumption
<1> QED BY <1>1, <1>2, <1>3 DEF LookInv, PassMeansGranted

LEMMA LookReport == TokenInv /\ LookInv /\ TokenReport => LookInv'
<1> SUFFICES ASSUME TokenInv, LookInv, TokenReport PROVE LookInv' OBVIOUS
<1>1. pc = "report" /\ at' = at /\ at = <<1, 1, 1>> /\ UNCHANGED args BY DEF TokenReport, LookInv
<1>2. \/ pc' = "done" /\ checks'["tsl_qualified"] = "skip"
      \/ pc' = "lists" /\ checks'["tsl_qualified"] = Null
  <2>1. DOMAIN checks = CheckNames /\ checks["tsl_qualified"] = Null
    BY <1>1 DEF TokenInv, ReportInv, LookInv
  <2>2. CASE signer_der = Null BY <2>1, <2>2 DEF TokenReport, CheckNames
  <2>3. CASE signer_der # Null BY <2>1, <2>3 DEF TokenReport, CheckNames
  <2> QED BY <2>2, <2>3
<1>3. Null \notin {"pass", "fail", "skip"} BY TokenAssumption
<1>4. PassMeansGranted' BY <1>2, <1>3 DEF PassMeansGranted
<1>5. PassedBy(at[1], at[2])' BY <1>1 DEF PassedBy
<1>6. \A i \in 1..Len(chain_ders') : ~(i < at'[3])
  <2>1. TAKE i \in 1..Len(chain_ders')
  <2>2. i \in Nat \ {0} OBVIOUS
  <2> QED BY <1>1, <2>2
<1> QED BY <1>1, <1>2, <1>3, <1>4, <1>5, <1>6 DEF LookInv

(* The steps of check_tsl that end it.                                       *)
LEMMA LookEnds ==
  ASSUME TokenInv, LookInv, CheckTsl, at' = at, pc' = "done",
         checks'["tsl_qualified"] = "pass" => SomeGranted,
         checks'["tsl_qualified"] = "fail" => ~Readable \/ SomeWithdrawn \/ NoneListed
  PROVE  LookInv'
<1>1. UNCHANGED <<args, signer_der>> BY TslKeeps
<1>2. checks'["tsl_qualified"] = "pass" => SomeGranted' BY <1>1, SameServices
<1>3. checks'["tsl_qualified"] = "fail" => ~Readable' \/ SomeWithdrawn' \/ NoneListed' BY <1>1, SameServices
<1> QED BY <1>2, <1>3 DEF LookInv, PassMeansGranted, SomeGranted

(* The steps of check_tsl that go on.                                        *)
LEMMA LookGoesOn ==
  ASSUME TokenInv, LookInv, CheckTsl, pc' = "look", checks' = checks, Readable,
         at'[1] \in Nat \ {0}, at'[2] \in Nat \ {0}, at'[3] \in Nat \ {0},
         PassedBy(at'[1], at'[2]),
         AtService' => \A i \in 1..Len(chain_ders) : i < at'[3] => chain_ders[i] \notin service'.certs
  PROVE  LookInv'
<1>1. UNCHANGED <<args, signer_der>> /\ pc \in {"lists", "look"} BY TslKeeps
<1>2. checks'["tsl_qualified"] = Null /\ Null \notin {"pass", "fail", "skip"}
  BY <1>1, TokenAssumption DEF LookInv
<1>3. PassMeansGranted' BY <1>2 DEF PassMeansGranted
<1>4. Readable' /\ chain_ders' = chain_ders BY <1>1, SameServices
<1>5. PassedBy(at[1], at[2])' BY <1>1 DEF PassedBy, tsl_files, Lists, chain_ders
<1> QED BY <1>2, <1>3, <1>4, <1>5 DEF LookInv

LEMMA ListTyped ==
  ASSUME TokenInv, Readable, NEW n \in 1..Len(tsl_files)
  PROVE  Len(tsl_files[n]) \in Nat /\ \A s \in 1..Len(tsl_files[n]) : ServiceShape(tsl_files[n][s])
BY CallShape DEF TokenInv, StepInv, Readable, ListShape

LEMMA ChainTyped ==
  ASSUME TokenInv, pc \in {"lists", "look"}
  PROVE  chain_ders \in Seq(Certs) /\ gen_time \in Times /\ Len(tsl_files) \in Nat
<1>1. signer_der \in Certs /\ token.content \in Contents /\ args \in Calls
  BY DEF TokenInv, StepInv, SignerKnown
<1>2. chain_ders \in Seq(Certs) BY <1>1, TokenAssumption DEF chain_ders
<1>3. gen_time \in Times BY <1>1 DEF gen_time, Contents
<1> QED BY <1>1, <1>2, <1>3, CallShape

LEMMA LookTsl == TokenInv /\ LookInv /\ CheckTsl => LookInv'
<1> SUFFICES ASSUME TokenInv, LookInv, CheckTsl PROVE LookInv' OBVIOUS
<1>0. /\ chain_ders \in Seq(Certs) /\ gen_time \in Times /\ Len(tsl_files) \in Nat
      /\ UNCHANGED <<args, signer_der>> /\ tsl_files' = tsl_files /\ chain_ders' = chain_ders
      /\ at[1] \in Nat \ {0} /\ at[2] \in Nat \ {0} /\ at[3] \in Nat \ {0}
  BY TslKeeps, ChainTyped, SameServices DEF LookInv
<1>a. DOMAIN checks = CheckNames BY DEF TokenInv, ReportInv
<1>b. ASSUME NEW s, Tsl(s) PROVE pc' = "done" /\ checks'["tsl_qualified"] = s
  BY <1>a, <1>b DEF Tsl, CheckNames
<1>1. CASE ParseLists
  <2>1. CASE tsl_files = <<>> BY <1>1, <1>b, <2>1, LookEnds DEF ParseLists
  <2>2. CASE ~Readable
    <3>1. tsl_files # <<>> BY <2>2 DEF Readable
    <3>2. Tsl("fail") /\ at' = at BY <1>1, <2>2, <3>1 DEF ParseLists, Readable
    <3> QED BY <1>b, <2>2, <3>2, LookEnds
  <2>3. CASE tsl_files # <<>> /\ Readable
    <3>1. pc = "lists" /\ pc' = "look" /\ checks' = checks /\ at' = at
      BY <1>1, <2>3 DEF ParseLists, Readable
    <3>2. at = <<1, 1, 1>> BY <3>1 DEF LookInv
    <3>3. PassedBy(at'[1], at'[2]) BY <3>1 DEF LookInv
    <3>4. \A i \in 1..Len(chain_ders) : ~(i < at'[3])
      <4>1. TAKE i \in 1..Len(chain_ders)
      <4>2. i \in Nat \ {0} OBVIOUS
      <4> QED BY <3>1, <3>2, <4>2
    <3> QED BY <1>0, <2>3, <3>1, <3>3, <3>4, LookGoesOn
  <2> QED BY <2>1, <2>2, <2>3
<1>2. CASE NotListed
  <2>1. pc = "look" /\ ~(at[1] <= Len(tsl_files)) /\ Tsl("fail") /\ at' = at
    BY <1>2 DEF NotListed, AtList
  <2>2. PassedBy(at[1], at[2]) BY <2>1 DEF LookInv
  <2>3. NoneListed
    <3>1. ASSUME NEW n \in 1..Len(tsl_files) PROVE n < at[1] BY <1>0, <2>1
    <3> QED BY <2>2, <3>1 DEF NoneListed, PassedBy
  <2> QED BY <1>b, <2>1, <2>3, LookEnds
<1>3. CASE NextList
  <2>1. /\ pc = "look" /\ at[1] <= Len(tsl_files) /\ at[2] > Len(tsl_files[at[1]])
        /\ at' = <<at[1] + 1, 1, 1>> /\ pc' = pc /\ checks' = checks
    BY <1>3 DEF NextList, AtList, list, Move
  <2>2. Readable /\ PassedBy(at[1], at[2]) BY <2>1 DEF LookInv
  <2>3. PassedBy(at[1] + 1, 1)
    <3>1. SUFFICES ASSUME NEW n \in 1..Len(tsl_files), NEW s \in 1..Len(tsl_files[n]),
                          n < at[1] + 1 \/ (n = at[1] + 1 /\ s < 1)
                   PROVE  ~Lists(tsl_files[n][s])
      BY DEF PassedBy
    <3>2. Len(tsl_files[n]) \in Nat BY <2>2, ListTyped
    <3>3. n < at[1] \/ (n = at[1] /\ s < at[2]) BY <1>0, <2>1, <3>1, <3>2
    <3> QED BY <2>2, <3>3 DEF PassedBy
  <2>4. \A i \in 1..Len(chain_ders) : ~(i < at'[3])
    <3>1. TAKE i \in 1..Len(chain_ders)
    <3>2. i \in Nat \ {0} OBVIOUS
    <3> QED BY <2>1, <3>2
  <2>5. at'[1] = at[1] + 1 /\ at'[2] = 1 /\ at'[3] = 1 BY <2>1
  <2> QED BY <1>0, <2>1, <2>2, <2>3, <2>4, <2>5, LookGoesOn
<1>4. CASE NextService
  <2>1. /\ pc = "look" /\ AtService /\ (~IsQtst(service) \/ at[3] > Len(chain_ders))
        /\ at' = <<at[1], at[2] + 1, 1>> /\ pc' = pc /\ checks' = checks
    BY <1>4 DEF NextService, Move
  <2>2. Readable /\ PassedBy(at[1], at[2]) BY <2>1 DEF LookInv
  <2>3. ~Lists(service)
    <3>1. \A i \in 1..Len(chain_ders) : i < at[3] => chain_ders[i] \notin service.certs
      BY <2>1 DEF LookInv
    <3>2. CASE at[3] > Len(chain_ders)
      <4>1. \A i \in 1..Len(chain_ders) : i < at[3] BY <1>0, <3>2
      <4> QED BY <3>1, <4>1 DEF Lists
    <3> QED BY <2>1, <3>2 DEF Lists
  <2>4. PassedBy(at[1], at[2] + 1)
    <3>1. SUFFICES ASSUME NEW n \in 1..Len(tsl_files), NEW s \in 1..Len(tsl_files[n]),
                          n < at[1] \/ (n = at[1] /\ s < at[2] + 1)
                   PROVE  ~Lists(tsl_files[n][s])
      BY DEF PassedBy
    <3>2. Len(tsl_files[n]) \in Nat BY <2>2, ListTyped
    <3>3. n < at[1] \/ (n = at[1] /\ s < at[2]) \/ (n = at[1] /\ s = at[2]) BY <1>0, <3>1, <3>2
    <3> QED BY <2>2, <2>3, <3>3 DEF PassedBy, service, list
  <2>5. \A i \in 1..Len(chain_ders) : ~(i < at'[3])
    <3>1. TAKE i \in 1..Len(chain_ders)
    <3>2. i \in Nat \ {0} OBVIOUS
    <3> QED BY <2>1, <3>2
  <2>6. at'[1] = at[1] /\ at'[2] = at[2] + 1 /\ at'[3] = 1 BY <2>1
  <2> QED BY <1>0, <2>1, <2>2, <2>4, <2>5, <2>6, LookGoesOn
<1>5. CASE NextCert
  <2>1. /\ pc = "look" /\ AtService /\ chain_ders[at[3]] \notin service.certs
        /\ at' = <<at[1], at[2], at[3] + 1>> /\ pc' = pc /\ checks' = checks
    BY <1>5 DEF NextCert, AtCert, Move
  <2>2. Readable /\ PassedBy(at[1], at[2]) BY <2>1 DEF LookInv
  <2>3. at'[1] = at[1] /\ at'[2] = at[2] /\ at'[3] = at[3] + 1 BY <2>1
  <2>4. service' = service BY <1>0, <2>3 DEF service, list
  <2>5. \A i \in 1..Len(chain_ders) : i < at'[3] => chain_ders[i] \notin service'.certs
    <3>1. \A i \in 1..Len(chain_ders) : i < at[3] => chain_ders[i] \notin service.certs
      BY <2>1 DEF LookInv
    <3>2. \A i \in 1..Len(chain_ders) : i < at'[3] => i < at[3] \/ i = at[3] BY <1>0, <2>3
    <3> QED BY <2>1, <2>4, <3>1, <3>2
  <2> QED BY <1>0, <2>1, <2>2, <2>3, <2>5, LookGoesOn
<1>6. CASE Found
  <2> DEFINE granted == status_at(service) # 0 /\ service.history[status_at(service)].status = "granted"
  <2>1. /\ pc = "look" /\ AtService /\ IsQtst(service) /\ at[3] <= Len(chain_ders)
        /\ chain_ders[at[3]] \in service.certs /\ Tsl(Status(granted)) /\ at' = at
    BY <1>6 DEF Found, AtCert
  <2>2. at[1] \in 1..Len(tsl_files) /\ service = tsl_files[at[1]][at[2]]
    BY <1>0, <2>1 DEF AtService, AtList, service, list
  <2>3. Readable BY <2>1 DEF LookInv
  <2>4. at[2] \in 1..Len(tsl_files[at[1]])
    <3>1. Len(tsl_files[at[1]]) \in Nat BY <2>2, <2>3, ListTyped
    <3> QED BY <1>0, <2>1, <3>1 DEF AtService, list
  <2>5. ServiceShape(service) BY <2>2, <2>3, <2>4, ListTyped
  <2>6. Lists(service) BY <1>0, <2>1 DEF Lists
  <2>7. (granted => Granted(service)) /\ (~granted => Withdrawn(service))
    BY <1>0, <2>1, <2>5, StatusDecides
  <2>8. CASE granted
    <3>1. SomeGranted BY <2>2, <2>4, <2>6, <2>7, <2>8 DEF SomeGranted
    <3>2. Tsl("pass") BY <2>1, <2>8 DEF Status
    <3> QED BY <1>b, <2>1, <3>1, <3>2, LookEnds
  <2>9. CASE ~granted
    <3>1. SomeWithdrawn BY <2>2, <2>4, <2>6, <2>7, <2>9 DEF SomeWithdrawn
    <3>2. Tsl("fail") BY <2>1, <2>9 DEF Status
    <3> QED BY <1>b, <2>1, <3>1, <3>2, LookEnds
  <2> QED BY <2>8, <2>9
<1> QED BY <1>1, <1>2, <1>3, <1>4, <1>5, <1>6 DEF CheckTsl

LEMMA LookStutter == LookInv /\ UNCHANGED vars => LookInv'
<1> SUFFICES ASSUME LookInv, UNCHANGED vars PROVE LookInv' OBVIOUS
<1>1. UNCHANGED <<args, pc, errors, signer_der, at, checks>> BY DEF vars
<1>2. (PassMeansGranted <=> PassMeansGranted') /\ (AtService <=> AtService') /\ service' = service
  <2>1. SomeGranted <=> SomeGranted' BY <1>1, SameServices
  <2> QED BY <1>1, <2>1 DEF PassMeansGranted, SomeGranted, AtService, AtList, service, list, tsl_files
<1> QED BY <1>1, <1>2, SameServices DEF LookInv

LEMMA LookStep == TokenInv /\ LookInv /\ [Next]_vars => LookInv'
BY LookVerify, LookReport, LookTsl, LookStutter DEF Next

(* What is called qualified has a granted entry in force at genTime, for     *)
(* every history, sorted or not, dated or not, and every order of the lists. *)
THEOREM ListSound == Spec => []PassMeansGranted
<1>1. Init => TokenInv /\ LookInv BY InitInv, LookInit
<1>2. TokenInv /\ LookInv /\ [Next]_vars => TokenInv' /\ LookInv' BY Step, LookStep
<1>3. LookInv => PassMeansGranted BY DEF LookInv
<1> QED BY <1>1, <1>2, <1>3, PTL DEF Spec

(* The check fails only for a list that cannot be read, a service that was   *)
(* not granted at genTime, or a TSA that is on no list.                      *)
THEOREM ListComplete == Spec => []GrantedPasses
<1>1. Init => TokenInv /\ LookInv BY InitInv, LookInit
<1>2. TokenInv /\ LookInv /\ [Next]_vars => TokenInv' /\ LookInv' BY Step, LookStep
<1>3. LookInv => GrantedPasses BY DEF LookInv, GrantedPasses, Readable, SomeWithdrawn, NoneListed
<1> QED BY <1>1, <1>2, <1>3, PTL DEF Spec
(* A check has a status or was not reported.                                 *)
ReportTyped == \A c \in CheckNames : checks[c] \in {"pass", "fail", "skip", Null}
LEMMA TypedInit == Init => ReportTyped
BY DEF Init, ReportTyped
LEMMA TypedStep == TokenInv /\ ReportTyped /\ [Next]_vars => ReportTyped'
<1> SUFFICES ASSUME TokenInv, ReportTyped, [Next]_vars PROVE ReportTyped' OBVIOUS
<1>1. CASE VerifyToken
  <2>1. checks' = checks
    BY <1>1 DEF VerifyToken, Load, Content, Signer, Attributes, Signature, Profile, Go
  <2> QED BY <2>1 DEF ReportTyped
<1>2. CASE TokenReport
  <2>1. Status(info_ok) \in {"pass", "fail"} BY DEF Status
  <2>2. signer_der = Null \/ signer_der \in Certs BY DEF TokenInv, StepInv
  <2>3. signer_der # Null =>
          /\ Chain[signer_der].tsa_chain \in {"pass", "fail", "skip"}
          /\ Chain[signer_der].rooted \in {"pass", "fail"}
    BY <2>2, TokenAssumption
  <2>4. DOMAIN checks = CheckNames BY DEF TokenInv, ReportInv
  <2>5. CASE signer_der = Null BY <1>2, <2>1, <2>4, <2>5 DEF TokenReport, ReportTyped, CheckNames
  <2>6. CASE signer_der # Null BY <1>2, <2>1, <2>3, <2>4, <2>6 DEF TokenReport, ReportTyped, CheckNames
  <2> QED BY <2>5, <2>6
<1>3. CASE CheckTsl
  <2>1. CASE checks' = checks BY <2>1 DEF ReportTyped
  <2>2. ASSUME NEW s \in {"pass", "fail", "skip"}, Tsl(s) PROVE ReportTyped'
    <3>1. DOMAIN checks = CheckNames BY DEF TokenInv, ReportInv
    <3> QED BY <2>2, <3>1 DEF Tsl, ReportTyped, CheckNames
  <2>3. CASE ParseLists BY <1>3, <2>1, <2>2, <2>3 DEF ParseLists
  <2>4. CASE NotListed BY <2>2, <2>4 DEF NotListed
  <2>5. CASE NextList \/ NextService \/ NextCert
    BY <2>1, <2>5 DEF NextList, NextService, NextCert, AtCert, Move
  <2>6. CASE Found
    <3> DEFINE b == status_at(service) # 0 /\ service.history[status_at(service)].status = "granted"
    <3>1. Status(b) \in {"pass", "fail", "skip"} BY DEF Status
    <3>2. Tsl(Status(b)) BY <2>6 DEF Found
    <3> QED BY <2>2, <3>1, <3>2
  <2> QED BY <1>3, <2>3, <2>4, <2>5, <2>6 DEF CheckTsl
<1>4. CASE UNCHANGED vars BY <1>4 DEF vars, ReportTyped
<1> QED BY <1>1, <1>2, <1>3, <1>4 DEF Next

(* Every variable of the call keeps its type, for any token and any lists.   *)
THEOREM TypeCorrect == Spec => []TypeOK
<1>1. Init => TokenInv /\ LookInv /\ ReportTyped BY InitInv, LookInit, TypedInit
<1>2. TokenInv /\ LookInv /\ ReportTyped /\ [Next]_vars => TokenInv' /\ LookInv' /\ ReportTyped'
  BY Step, LookStep, TypedStep
<1>3. TokenInv /\ LookInv /\ ReportTyped => TypeOK BY DEF TokenInv, StepInv, LookInv, ReportTyped, TypeOK
<1> QED BY <1>1, <1>2, <1>3, PTL DEF Spec
=============================================================================
