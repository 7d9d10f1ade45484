----------------------------- MODULE TrustChain -----------------------------
(***************************************************************************)
(* Does a time-stamping certificate chain to a root the verifier trusts?   *)
(* extra_roots and check_trust_root of trust.py, build_chain of            *)
(* tsp_verify.py.  The issuer of each certificate is looked for in a pool  *)
(* the evidence file adds to; the first that fits is taken and never given *)
(* up again.                                                               *)
(***************************************************************************)
EXTENDS Naturals, Sequences

CONSTANTS
  Names, Keys, Times,
  Null,             \* no certificate, no pathLenConstraint, no time
  Pinned,           \* PINNED_ROOTS, a sequence
  Direct,           \* the pinned roots that issued TSA certificates themselves
  Intermediates,    \* KNOWN_INTERMEDIATES, a sequence: the TSA-issuing CAs
  Signers,          \* certificates tokens are signed with
  Bundles,          \* sequences of certificates evidence files may ship
  RootFiles,        \* sequences of certificates --trust-root may load
  Longer,           \* pairs of names the first of which begins with the second
  MaxDepth,         \* bound on open "with extra_roots"
  MaxRuns           \* bound on the checks

Certs == [subject : Names, issuer : Names, key : Keys, signed_by : Keys, ca : BOOLEAN,
          path_length : Nat \cup {Null}, key_cert_sign : BOOLEAN, from : Times, to : Times,
          tsa : BOOLEAN]   \* tsa: extendedKeyUsage is exactly the critical id-kp-timeStamping
MaxLinks == 10             \* rounds of build_chain

ASSUME TrustAssumption ==
  /\ Times \subseteq Nat /\ Null \notin Nat /\ Null \notin Certs /\ MaxRuns \in Nat /\ MaxDepth \in Nat
  /\ Pinned \in Seq(Certs) /\ Intermediates \in Seq(Certs)
  /\ Direct \subseteq {Pinned[i] : i \in 1..Len(Pinned)}
  /\ Signers \subseteq Certs /\ Bundles \subseteq Seq(Certs) /\ RootFiles \subseteq Seq(Certs)

VARIABLES
  extra_roots,   \* _EXTRA_ROOTS, the context variable
  tokens,        \* what each open "with extra_roots" resets it to
  granted,       \* the roots each open "with extra_roots" was given
  signer_der, pool_ders, at,   \* the arguments of check_trust_root
  chain,         \* build_chain's chain
  phase,         \* "idle", "building", "built", "judged"
  result,        \* the root the check passed with, Null if it failed
  runs

context == <<extra_roots, tokens, granted>>
arguments == <<signer_der, pool_ders, at>>
vars == <<context, arguments, chain, phase, result, runs>>

Init ==
  /\ extra_roots = <<>> /\ tokens = <<>> /\ granted = <<>>
  /\ signer_der = Null /\ pool_ders = <<>> /\ at = Null
  /\ chain = <<>> /\ phase = "idle" /\ result = Null /\ runs = 0

-----------------------------------------------------------------------------
(* extra_roots: roots for the duration of the block, on top of those of     *)
(* the blocks around it.  An exception leaves the block too.               *)
Between == phase \in {"idle", "judged"}
EnterRoots == \E ders \in RootFiles :
  /\ Between /\ Len(tokens) < MaxDepth /\ runs < MaxRuns
  /\ tokens' = Append(tokens, extra_roots) /\ granted' = Append(granted, ders)
  /\ extra_roots' = extra_roots \o ders /\ phase' = "idle"
  /\ UNCHANGED <<arguments, chain, result, runs>>
\* Mutant: the roots stay when the block is left by an exception.
LeaveRoots_NoFinally ==
  /\ tokens # <<>>
  /\ extra_roots' = IF Between THEN tokens[Len(tokens)] ELSE extra_roots
  /\ tokens' = SubSeq(tokens, 1, Len(tokens) - 1) /\ granted' = SubSeq(granted, 1, Len(granted) - 1)
  /\ phase' = "idle" /\ UNCHANGED <<arguments, chain, result, runs>>
LeaveRoots ==
  /\ tokens # <<>>
  /\ extra_roots' = tokens[Len(tokens)]
  /\ tokens' = SubSeq(tokens, 1, Len(tokens) - 1) /\ granted' = SubSeq(granted, 1, Len(granted) - 1)
  /\ phase' = "idle" /\ UNCHANGED <<arguments, chain, result, runs>>

(* _anchors: by key, so that a re-issued certificate of a root is that     *)
(* root; of two with one key the later is kept, at the place of the first. *)
Roots == Pinned \o extra_roots
\* Mutant: the one met first is kept.
LastWithKey_First(k) ==
  LET roots == Roots
      S == {i \in 1..Len(roots) : roots[i].key = k}
  IN  CHOOSE i \in S : \A j \in S : i <= j
LastWithKey(k) ==
  LET roots == Roots
      S == {i \in 1..Len(roots) : roots[i].key = k}
  IN  CHOOSE i \in S : \A j \in S : j <= i
Anchors == LET roots == Roots IN [i \in 1..Len(roots) |-> roots[LastWithKey(roots[i].key)]]
IsAnchor(c) == \E i \in 1..Len(Roots) : Roots[i].key = c.key
UserSupplied(c) == LastWithKey(c.key) > Len(Pinned)
Pool == Anchors \o pool_ders \o Intermediates

check_trust_root == \E signer \in Signers, ders \in Bundles, time \in Times \cup {Null} :
  /\ Between /\ runs < MaxRuns
  /\ signer_der' = signer /\ pool_ders' = ders /\ at' = time
  /\ chain' = <<signer>> /\ phase' = "building" /\ runs' = runs + 1 /\ result' = Null
  /\ UNCHANGED context

-----------------------------------------------------------------------------
(* build_chain, a round at a time.                                         *)
\* Mutant: pathLenConstraint is off by one.
may_issue_OffByOne(c, cas_below) ==
  c.ca /\ c.key_cert_sign /\ (c.path_length # Null => cas_below <= c.path_length + 1)
may_issue(c, cas_below) ==
  c.ca /\ c.key_cert_sign /\ (c.path_length # Null => cas_below <= c.path_length)
directly_issued_by(cert, c) == c.subject = cert.issuer /\ c.key = cert.signed_by

cur == chain[Len(chain)]
\* Mutant: the first certificate with the issuer's name is taken.
Issuers_ByName == {i \in 1..Len(Pool) : Pool[i].subject = cur.issuer}
Issuers ==
  LET pool == Pool
  IN  {i \in 1..Len(pool) : directly_issued_by(cur, pool[i]) /\ may_issue(pool[i], Len(chain) - 1)}
\* Mutant: rounds are not counted.
Ended_NoLimit == cur.issuer = cur.subject \/ Issuers = {}
Ended == Len(chain) > MaxLinks \/ cur.issuer = cur.subject \/ Issuers = {}

\* Mutant: a certificate met before is not taken again, and the loop goes on.
ExtendChain_Revisits ==
  /\ phase = "building" /\ ~Ended
  /\ LET issuer == Pool[CHOOSE i \in Issuers : \A j \in Issuers : i <= j]
     IN chain' = IF \E i \in 1..Len(chain) : chain[i] = issuer THEN chain ELSE Append(chain, issuer)
  /\ UNCHANGED <<context, arguments, phase, result, runs>>
ExtendChain ==
  /\ phase = "building" /\ ~Ended
  /\ chain' = Append(chain, Pool[CHOOSE i \in Issuers : \A j \in Issuers : i <= j])
  /\ UNCHANGED <<context, arguments, phase, result, runs>>
EndChain ==
  /\ phase = "building" /\ Ended
  /\ phase' = "built" /\ UNCHANGED <<context, arguments, chain, result, runs>>

-----------------------------------------------------------------------------
(* check_trust_root with the chain: the first anchor in it; errors of the   *)
(* certificates up to the anchor, told from others by how they begin.      *)
Hits == {i \in 1..Len(chain) : IsAnchor(chain[i])}
hit == CHOOSE i \in Hits : \A j \in Hits : i <= j
ValidAt(c, time) == time = Null \/ (c.from <= time /\ time <= c.to)
startswith(n, m) == n = m \/ <<n, m>> \in Longer
bad == \E i \in 1..Len(chain) : /\ ~ValidAt(chain[i], at)
                                /\ \E j \in 1..hit : startswith(chain[i].subject, chain[j].subject)
leaf_problem(c) == ~c.tsa \/ c.ca
tsa_issuer_spkis == {Intermediates[i].key : i \in 1..Len(Intermediates)} \cup {c.key : c \in Direct}
\* Mutant: any CA below a pinned root may issue time-stamping certificates.
UnderTsaCa_Any == hit # 1
UnderTsaCa == hit # 1 /\ chain[2].key \in tsa_issuer_spkis
Passed ==
  /\ Hits # {} /\ ~bad /\ ~leaf_problem(chain[1])
  /\ UserSupplied(chain[hit]) \/ UnderTsaCa

Judge ==
  /\ phase = "built" /\ phase' = "judged"
  /\ result' = IF Passed THEN chain[hit] ELSE Null
  /\ UNCHANGED <<context, arguments, chain, runs>>

BuildChain == ExtendChain \/ EndChain
Next == EnterRoots \/ LeaveRoots \/ check_trust_root \/ BuildChain \/ Judge
Spec == Init /\ [][Next]_vars /\ WF_vars(BuildChain) /\ WF_vars(Judge)

-----------------------------------------------------------------------------
InForce == UNION {{granted[n][i] : i \in 1..Len(granted[n])} : n \in 1..Len(granted)}

TypeOK ==
  /\ extra_roots \in Seq(Certs) /\ tokens \in Seq(Seq(Certs)) /\ granted \in Seq(RootFiles)
  /\ Len(tokens) = Len(granted) /\ Len(granted) <= MaxDepth
  /\ signer_der \in Signers \cup {Null} /\ pool_ders \in Bundles \cup {<<>>}
  /\ at \in Times \cup {Null}
  /\ chain \in Seq(Certs) /\ Len(chain) <= MaxLinks + 1 /\ (phase # "idle" => chain # <<>>)
  /\ phase \in {"idle", "building", "built", "judged"} /\ result \in Certs \cup {Null}
  /\ runs \in 0..MaxRuns

(* What a certification path to a root is (RFC 5280), whoever built it.     *)
Signed(p) == \A i \in 1..(Len(p) - 1) : p[i].issuer = p[i + 1].subject /\ p[i].signed_by = p[i + 1].key
Authorised(p) == \A i \in 2..Len(p) : /\ p[i].ca /\ p[i].key_cert_sign
                                      /\ p[i].path_length # Null => i - 2 <= p[i].path_length
InTime(p) == \A i \in 1..Len(p) : ValidAt(p[i], at)
PinnedKeys == {Pinned[i].key : i \in 1..Len(Pinned)}
GrantedKeys == {c.key : c \in InForce}
TsaOfPinned(p) == Len(p) > 1 /\ p[2].key \in tsa_issuer_spkis
Path(p) ==
  /\ p # <<>> /\ p[1] = signer_der /\ p[1].tsa /\ ~p[1].ca
  /\ Signed(p) /\ Authorised(p) /\ InTime(p)
  /\ p[Len(p)].key \in GrantedKeys \/ (p[Len(p)].key \in PinnedKeys /\ TsaOfPinned(p))

(* check_trust_root, "PASS only if the TSA signer certificate chains ... to *)
(* a pinned root key": what passes has a certification path, every link of  *)
(* it signed, authorised and in time, to a root that is pinned or was       *)
(* given for this very run, however the file's certificates are mixed.     *)
PassMeansPath ==
  phase = "judged" /\ result # Null =>
    \E n \in 1..Len(chain) : Path(SubSeq(chain, 1, n)) /\ chain[n] = result

(* "Trust additional root certificates for the duration of the block":      *)
(* whatever the blocks were given and however they were left, the roots in  *)
(* force are those of the blocks still open, the inner ones last.          *)
RootsOfThisRun == {extra_roots[i] : i \in 1..Len(extra_roots)} = InForce

(* A certificate with the right name and a wrong key never diverts the      *)
(* chain: where a link is signed by only one of the certificates at hand, a *)
(* path (of up to three) is found.  The loop ends at a certificate that     *)
(* names itself as issuer, the check at the first root: Straight says that  *)
(* the path meets neither on the way, Confused that an expired certificate  *)
(* past the root is told for one before it.                                 *)
AtHand == {Pool[i] : i \in 1..Len(Pool)}
Unambiguous == \A c, d \in AtHand : c.subject = d.subject /\ c.key = d.key => c = d
Straight(p) == \A i \in 1..(Len(p) - 1) : ~IsAnchor(p[i]) /\ p[i].issuer # p[i].subject
Confused ==
  Hits # {} /\ \E i \in (hit + 1)..Len(chain), k \in 1..hit :
    ~ValidAt(chain[i], at) /\ startswith(chain[i].subject, chain[k].subject)
Candidates(n) ==
  {p \in {<<signer_der>> \o above : above \in [1..(n - 1) -> AtHand]} : Path(p) /\ Straight(p)}
PathFound ==
  phase = "judged" /\ result = Null /\ Unambiguous /\ ~Confused => \A n \in 1..3 : Candidates(n) = {}

(* Certificates that issue each other in a circle do not keep the check     *)
(* from ending.                                                             *)
ChainEnds == phase = "building" ~> phase \in {"judged", "idle"}
=============================================================================
