-------------------------- MODULE TrustChainProofs --------------------------
(***************************************************************************)
(* For every set of certificates, every pool and every nesting of blocks   *)
(* of extra roots: what check_trust_root passes has a certification path   *)
(* to a root that is pinned or in force, and a path that is there is found. *)
(***************************************************************************)
EXTENDS TrustChain, Extrema, TLAPS

-----------------------------------------------------------------------------
(* The certificates at hand.                                               *)
LEMMA RootsTyped == TypeOK => Roots \in Seq(Certs) /\ Len(Roots) = Len(Pinned) + Len(extra_roots)
BY TrustAssumption DEF TypeOK, Roots

LEMMA LastWithKeyFound ==
  ASSUME TypeOK, NEW k, \E i \in 1..Len(Roots) : Roots[i].key = k
  PROVE  LastWithKey(k) \in 1..Len(Roots) /\ Roots[LastWithKey(k)].key = k
<1> DEFINE S == {i \in 1..Len(Roots) : Roots[i].key = k}
<1>1. Len(Roots) \in Nat BY RootsTyped
<1>2. S \in SUBSET (1..Len(Roots)) /\ S # {} OBVIOUS
<1>3. \E i \in S : \A j \in S : j <= i
  <2> HIDE DEF S
  <2> QED BY <1>1, <1>2, Greatest
<1>4. LastWithKey(k) \in S BY <1>3 DEF LastWithKey
<1> QED BY <1>4

LEMMA PoolTyped == TypeOK => Pool \in Seq(Certs)
<1> SUFFICES ASSUME TypeOK PROVE Pool \in Seq(Certs) OBVIOUS
<1>1. Anchors \in Seq(Certs)
  <2>1. ASSUME NEW i \in 1..Len(Roots) PROVE Roots[LastWithKey(Roots[i].key)] \in Certs
    BY RootsTyped, LastWithKeyFound
  <2>2. Anchors \in [1..Len(Roots) -> Certs] BY <2>1 DEF Anchors
  <2> QED BY <2>2, RootsTyped
<1>2. pool_ders \in Seq(Certs)
  <2>1. <<>> \in Seq(Certs) OBVIOUS
  <2> QED BY <2>1, TrustAssumption DEF TypeOK
<1> QED BY <1>1, <1>2, TrustAssumption DEF Pool

LEMMA FirstIssuer ==
  ASSUME TypeOK, Issuers # {}
  PROVE  (CHOOSE i \in Issuers : \A j \in Issuers : i <= j) \in Issuers
<1>1. Issuers \in SUBSET Nat BY DEF Issuers
<1>2. \E i \in Issuers : \A j \in Issuers : i <= j BY <1>1, Least
<1> QED BY <1>2

LEMMA FirstHit == ASSUME TypeOK, Hits # {} PROVE hit \in Hits
<1>1. Hits \in SUBSET Nat BY DEF Hits
<1>2. \E i \in Hits : \A j \in Hits : i <= j BY <1>1, Least
<1> QED BY <1>2 DEF hit

-----------------------------------------------------------------------------
LEMMA TypeInit == Init => TypeOK
<1> SUFFICES ASSUME Init PROVE TypeOK OBVIOUS
<1>1. extra_roots \in Seq(Certs) /\ tokens \in Seq(Seq(Certs)) /\ granted \in Seq(RootFiles)
      /\ chain \in Seq(Certs) /\ Len(tokens) = 0 /\ Len(granted) = 0 /\ Len(chain) = 0
  BY DEF Init
<1>2. phase = "idle" /\ runs = 0 /\ result = Null /\ signer_der = Null /\ at = Null /\ pool_ders = <<>>
  BY DEF Init
<1> QED BY <1>1, <1>2, TrustAssumption DEF TypeOK, MaxLinks

LEMMA ExtendTyped == TypeOK /\ ExtendChain => TypeOK'
<1> SUFFICES ASSUME TypeOK, ExtendChain PROVE TypeOK' OBVIOUS
<1> DEFINE i == CHOOSE i \in Issuers : \A j \in Issuers : i <= j
<1>1. i \in Issuers BY FirstIssuer DEF ExtendChain, Ended
<1>2. Pool[i] \in Certs BY <1>1, PoolTyped DEF Issuers
<1>3. chain' = Append(chain, Pool[i]) BY DEF ExtendChain
<1>4. Len(chain) <= MaxLinks BY DEF ExtendChain, Ended, TypeOK, MaxLinks
<1> HIDE DEF i
<1>5. chain' \in Seq(Certs) /\ Len(chain') <= MaxLinks + 1 /\ chain' # <<>>
  BY <1>2, <1>3, <1>4 DEF TypeOK, MaxLinks
<1> QED BY <1>5 DEF TypeOK, ExtendChain, context, arguments

LEMMA SeqBegin ==
  ASSUME NEW S, NEW s \in Seq(S), Len(s) # 0
  PROVE  /\ SubSeq(s, 1, Len(s) - 1) \in Seq(S) /\ Len(SubSeq(s, 1, Len(s) - 1)) = Len(s) - 1
         /\ \A n \in 1..(Len(s) - 1) : SubSeq(s, 1, Len(s) - 1)[n] = s[n]
<1>1. Len(s) - 1 \in Nat /\ Len(s) \in Nat OBVIOUS
<1>2. \A n \in 1..(Len(s) - 1) : s[n] \in S /\ n \in 1..Len(s) BY <1>1
<1>3. SubSeq(s, 1, Len(s) - 1) \in Seq(S) BY <1>1, <1>2
<1>4. Len(SubSeq(s, 1, Len(s) - 1)) = Len(s) - 1 BY <1>1
<1>5. \A n \in 1..(Len(s) - 1) : SubSeq(s, 1, Len(s) - 1)[n] = s[n] BY <1>1, <1>2
<1> QED BY <1>3, <1>4, <1>5

LEMMA ContextTyped == TypeOK /\ (EnterRoots \/ LeaveRoots) => TypeOK'
<1> SUFFICES ASSUME TypeOK PROVE EnterRoots \/ LeaveRoots => TypeOK' OBVIOUS
<1>1. CASE EnterRoots
  <2>1. PICK ders \in RootFiles :
          /\ Len(tokens) < MaxDepth
          /\ tokens' = Append(tokens, extra_roots) /\ granted' = Append(granted, ders)
          /\ extra_roots' = extra_roots \o ders /\ phase' = "idle"
          /\ UNCHANGED <<arguments, chain, result, runs>>
    BY <1>1 DEF EnterRoots
  <2>2. ders \in Seq(Certs) BY TrustAssumption
  <2>3. /\ extra_roots' \in Seq(Certs) /\ tokens' \in Seq(Seq(Certs)) /\ granted' \in Seq(RootFiles)
        /\ Len(tokens') = Len(granted') /\ Len(granted') <= MaxDepth
    BY <2>1, <2>2, TrustAssumption DEF TypeOK
  <2> QED BY <2>1, <2>3 DEF TypeOK, arguments
<1>2. CASE LeaveRoots
  <2>0. Len(tokens) \in Nat \ {0} /\ Len(granted) = Len(tokens) BY <1>2 DEF TypeOK, LeaveRoots
  <2>1. /\ extra_roots' \in Seq(Certs)
        /\ tokens' \in Seq(Seq(Certs)) /\ Len(tokens') = Len(tokens) - 1
        /\ granted' \in Seq(RootFiles) /\ Len(granted') = Len(granted) - 1
        /\ Len(tokens') = Len(granted') /\ Len(granted') <= MaxDepth
    <3>1. extra_roots' \in Seq(Certs) BY <1>2, <2>0 DEF TypeOK, LeaveRoots
    <3>2. tokens' \in Seq(Seq(Certs)) /\ Len(tokens') = Len(tokens) - 1
      BY <1>2, <2>0, SeqBegin DEF TypeOK, LeaveRoots
    <3>3. granted' \in Seq(RootFiles) /\ Len(granted') = Len(granted) - 1
      BY <1>2, <2>0, SeqBegin DEF TypeOK, LeaveRoots
    <3> QED BY <2>0, <3>1, <3>2, <3>3, TrustAssumption DEF TypeOK
  <2> QED BY <1>2, <2>1 DEF TypeOK, LeaveRoots, arguments
<1> QED BY <1>1, <1>2

LEMMA CheckTyped == TypeOK /\ check_trust_root => TypeOK'
BY TrustAssumption DEF TypeOK, check_trust_root, context, MaxLinks

LEMMA JudgeTyped == TypeOK /\ Judge => TypeOK'
<1> SUFFICES ASSUME TypeOK, Judge PROVE TypeOK' OBVIOUS
<1>1. result' \in Certs \cup {Null}
  <2>1. CASE Passed
    <3>1. hit \in 1..Len(chain) BY <2>1, FirstHit DEF Passed, Hits
    <3> QED BY <2>1, <3>1 DEF Judge, TypeOK
  <2>2. CASE ~Passed BY <2>2 DEF Judge
  <2> QED BY <2>1, <2>2
<1> QED BY <1>1 DEF TypeOK, Judge, context, arguments

LEMMA TypeStep == TypeOK /\ [Next]_vars => TypeOK'
<1> SUFFICES ASSUME TypeOK, [Next]_vars PROVE TypeOK' OBVIOUS
<1>1. CASE EnterRoots \/ LeaveRoots BY <1>1, ContextTyped
<1>2. CASE check_trust_root BY <1>2, CheckTyped
<1>3. CASE ExtendChain BY <1>3, ExtendTyped
<1>4. CASE EndChain BY <1>4 DEF EndChain, TypeOK, context, arguments
<1>5. CASE Judge BY <1>5, JudgeTyped
<1>6. CASE UNCHANGED vars BY <1>6 DEF vars, TypeOK, context, arguments
<1> QED BY <1>1, <1>2, <1>3, <1>4, <1>5, <1>6 DEF Next, BuildChain

(* The chain never grows past eleven certificates, whatever circles the     *)
(* pool holds, and every other variable has its type.                      *)
THEOREM TypeCorrect == Spec => []TypeOK
BY TypeInit, TypeStep, PTL DEF Spec

-----------------------------------------------------------------------------
(* The blocks of extra roots.  RootsOfThisRun is not inductive: it says     *)
(* nothing of what leaving a block resets to.  StackInv says, of each       *)
(* token, that it holds the roots of the blocks further out.               *)
Elems(s) == {s[i] : i \in 1..Len(s)}
Outer(g, k) == UNION {Elems(g[n]) : n \in 1..(k - 1)}
StackInv ==
  /\ \A k \in 1..Len(tokens) : Elems(tokens[k]) = Outer(granted, k)
  /\ Elems(extra_roots) = Outer(granted, Len(granted) + 1)

LEMMA OuterSame ==
  ASSUME NEW g, NEW h, NEW k, \A n \in 1..(k - 1) : g[n] = h[n]
  PROVE  Outer(g, k) = Outer(h, k)
<1>1. \A n \in 1..(k - 1) : Elems(g[n]) = Elems(h[n]) OBVIOUS
<1> HIDE DEF Elems
<1> QED BY <1>1 DEF Outer

LEMMA OuterNext ==
  ASSUME NEW g, NEW k \in Nat \ {0}
  PROVE  Outer(g, k + 1) = Outer(g, k) \cup Elems(g[k])
<1>1. 1..(k + 1 - 1) = 1..(k - 1) \cup {k} OBVIOUS
<1> QED BY <1>1 DEF Outer

LEMMA ElemsConcat ==
  ASSUME NEW s \in Seq(Certs), NEW t \in Seq(Certs)
  PROVE  Elems(s \o t) = Elems(s) \cup Elems(t)
<1>1. Len(s \o t) = Len(s) + Len(t) /\ Len(s) \in Nat /\ Len(t) \in Nat OBVIOUS
<1>2. ASSUME NEW i \in 1..Len(s) PROVE (s \o t)[i] = s[i] /\ i \in 1..Len(s \o t) BY <1>1
<1>3. ASSUME NEW i \in 1..Len(t)
      PROVE  (s \o t)[Len(s) + i] = t[i] /\ Len(s) + i \in 1..Len(s \o t)
  BY <1>1
<1>4. ASSUME NEW i \in 1..Len(s \o t) PROVE (s \o t)[i] \in Elems(s) \cup Elems(t)
  <2>1. CASE i <= Len(s) BY <1>2, <2>1, <1>1 DEF Elems
  <2>2. CASE i > Len(s)
    <3>1. i - Len(s) \in 1..Len(t) /\ (s \o t)[i] = t[i - Len(s)] BY <1>1, <2>2
    <3> QED BY <3>1 DEF Elems
  <2> QED BY <1>1, <2>1, <2>2
<1>5. ASSUME NEW c \in Elems(s) PROVE c \in Elems(s \o t)
  <2>1. PICK i \in 1..Len(s) : c = s[i] BY DEF Elems
  <2> QED BY <1>2, <2>1 DEF Elems
<1>6. ASSUME NEW c \in Elems(t) PROVE c \in Elems(s \o t)
  <2>1. PICK i \in 1..Len(t) : c = t[i] BY DEF Elems
  <2> QED BY <1>3, <2>1 DEF Elems
<1>7. ASSUME NEW c \in Elems(s \o t) PROVE c \in Elems(s) \cup Elems(t)
  <2>1. PICK i \in 1..Len(s \o t) : c = (s \o t)[i] BY DEF Elems
  <2> QED BY <1>4, <2>1
<1> QED BY <1>5, <1>6, <1>7

LEMMA InForceIsOuter == TypeOK => InForce = Outer(granted, Len(granted) + 1)
<1> SUFFICES ASSUME TypeOK PROVE InForce = Outer(granted, Len(granted) + 1) OBVIOUS
<1>1. 1..(Len(granted) + 1 - 1) = 1..Len(granted) BY DEF TypeOK
<1> QED BY <1>1 DEF InForce, Outer, Elems

LEMMA StackStep == TypeOK /\ StackInv /\ [Next]_vars => StackInv'
<1> SUFFICES ASSUME TypeOK, StackInv, [Next]_vars PROVE StackInv' OBVIOUS
<1>0. Len(granted) \in Nat /\ Len(tokens) = Len(granted) BY DEF TypeOK
<1>1. CASE EnterRoots
  <2>1. PICK ders \in RootFiles :
          /\ tokens' = Append(tokens, extra_roots) /\ granted' = Append(granted, ders)
          /\ extra_roots' = extra_roots \o ders
    BY <1>1 DEF EnterRoots
  <2>2. /\ Len(granted') = Len(granted) + 1 /\ granted'[Len(granted) + 1] = ders
        /\ \A n \in 1..Len(granted) : granted'[n] = granted[n]
    BY <2>1 DEF TypeOK
  <2>3. /\ Len(tokens') = Len(granted) + 1 /\ tokens'[Len(granted) + 1] = extra_roots
        /\ \A n \in 1..Len(granted) : tokens'[n] = tokens[n]
    BY <2>1, <1>0 DEF TypeOK
  <2>4. ASSUME NEW k \in 1..(Len(granted) + 1) PROVE Outer(granted', k) = Outer(granted, k)
    <3>1. \A n \in 1..(k - 1) : granted'[n] = granted[n] BY <1>0, <2>2
    <3> QED BY <3>1, OuterSame
  <2>5. ASSUME NEW k \in 1..Len(tokens') PROVE Elems(tokens'[k]) = Outer(granted', k)
    <3>1. CASE k \in 1..Len(granted) BY <1>0, <2>3, <2>4, <3>1 DEF StackInv
    <3>2. CASE k = Len(granted) + 1 BY <1>0, <2>3, <2>4, <3>2 DEF StackInv
    <3> QED BY <1>0, <2>3, <3>1, <3>2
  <2>6. Elems(extra_roots') = Elems(extra_roots) \cup Elems(ders)
    BY <2>1, TrustAssumption, ElemsConcat DEF TypeOK
  <2>7. Outer(granted', Len(granted) + 2) = Outer(granted', Len(granted) + 1) \cup Elems(ders)
    <3>1. Len(granted) + 1 \in Nat \ {0} /\ Len(granted) + 1 + 1 = Len(granted) + 2 BY <1>0
    <3> QED BY <2>2, <3>1, OuterNext
  <2>8. Elems(extra_roots') = Outer(granted', Len(granted') + 1)
    <3>1. Len(granted') + 1 = Len(granted) + 2 /\ Len(granted) + 1 \in 1..(Len(granted) + 1)
      BY <1>0, <2>2
    <3> QED BY <2>4, <2>6, <2>7, <3>1 DEF StackInv
  <2> QED BY <2>5, <2>8 DEF StackInv
<1>2. CASE LeaveRoots
  <2>1. /\ Len(granted) # 0 /\ extra_roots' = tokens[Len(granted)]
        /\ Len(tokens') = Len(granted) - 1 /\ \A n \in 1..(Len(granted) - 1) : tokens'[n] = tokens[n]
        /\ Len(granted') = Len(granted) - 1 /\ \A n \in 1..(Len(granted) - 1) : granted'[n] = granted[n]
    <3>1. Len(tokens) # 0 BY <1>2 DEF LeaveRoots, TypeOK
    <3> QED BY <1>0, <1>2, <3>1, SeqBegin DEF LeaveRoots, TypeOK
  <2>2. ASSUME NEW k \in 1..Len(granted) PROVE Outer(granted', k) = Outer(granted, k)
    <3>1. \A n \in 1..(k - 1) : granted'[n] = granted[n] BY <1>0, <2>1
    <3> QED BY <3>1, OuterSame
  <2>3. Len(granted) \in 1..Len(granted) /\ Len(granted') + 1 = Len(granted) BY <1>0, <2>1
  <2>4. Elems(extra_roots') = Outer(granted', Len(granted') + 1)
    BY <1>0, <2>1, <2>2, <2>3 DEF StackInv
  <2>5. ASSUME NEW k \in 1..Len(tokens') PROVE Elems(tokens'[k]) = Outer(granted', k)
    BY <1>0, <2>1, <2>2 DEF StackInv
  <2> QED BY <2>4, <2>5 DEF StackInv
<1>3. CASE UNCHANGED context
  <2>1. extra_roots' = extra_roots /\ tokens' = tokens /\ granted' = granted BY <1>3 DEF context
  <2> QED BY <2>1 DEF StackInv
<1>4. (check_trust_root \/ BuildChain \/ Judge \/ UNCHANGED vars) => UNCHANGED context
  BY DEF BuildChain, check_trust_root, ExtendChain, EndChain, Judge, vars, context
<1> QED BY <1>1, <1>2, <1>3, <1>4 DEF Next

LEMMA StackInit == Init => StackInv
<1> SUFFICES ASSUME Init PROVE StackInv OBVIOUS
<1>1. Len(tokens) = 0 /\ Len(granted) = 0 /\ Len(extra_roots) = 0 BY DEF Init
<1> QED BY <1>1 DEF StackInv, Outer, Elems

LEMMA StackScoped == TypeOK /\ StackInv => RootsOfThisRun
BY InForceIsOuter DEF StackInv, RootsOfThisRun, Elems

(* The roots in force are those of the blocks still open, however deep the *)
(* blocks are nested and however they were left.                           *)
THEOREM RootsScoped == Spec => []RootsOfThisRun
BY StackInit, StackScoped, TypeInit, TypeStep, StackStep, PTL DEF Spec

-----------------------------------------------------------------------------
(* What passes has a path.  PassMeansPath is not inductive: it says nothing *)
(* of the chain before the verdict.  ChainInv says what each round keeps.   *)
ChainInv ==
  phase # "idle" =>
    chain # <<>> /\ chain[1] = signer_der /\ Signed(chain) /\ Authorised(chain)

LEMMA ChainExtended == TypeOK /\ ChainInv /\ ExtendChain => ChainInv'
<1> SUFFICES ASSUME TypeOK, ChainInv, ExtendChain PROVE ChainInv' OBVIOUS
<1> DEFINE i == CHOOSE i \in Issuers : \A j \in Issuers : i <= j
           c == Pool[i]
<1>1. i \in Issuers BY FirstIssuer DEF ExtendChain, Ended
<1>2. c \in Certs BY <1>1, PoolTyped DEF Issuers
<1>3. directly_issued_by(cur, c) /\ may_issue(c, Len(chain) - 1) BY <1>1 DEF Issuers
<1>4. chain' = Append(chain, c) /\ signer_der' = signer_der
  BY DEF ExtendChain, arguments
<1>5. chain # <<>> /\ chain[1] = signer_der /\ Signed(chain) /\ Authorised(chain)
  BY DEF ChainInv, ExtendChain
<1> HIDE DEF c
<1>6. /\ chain \in Seq(Certs) /\ Len(chain) \in Nat \ {0} /\ Len(chain') = Len(chain) + 1
      /\ chain'[Len(chain) + 1] = c /\ \A k \in 1..Len(chain) : chain'[k] = chain[k]
  BY <1>2, <1>4, <1>5 DEF TypeOK
<1>7. Signed(chain')
  <2>1. ASSUME NEW k \in 1..(Len(chain') - 1)
        PROVE  chain'[k].issuer = chain'[k + 1].subject /\ chain'[k].signed_by = chain'[k + 1].key
    <3>1. CASE k = Len(chain) BY <1>3, <1>6, <3>1 DEF directly_issued_by, cur
    <3>2. CASE k # Len(chain)
      <4>1. k \in 1..(Len(chain) - 1) /\ k + 1 \in 1..Len(chain) /\ k \in 1..Len(chain)
        BY <1>6, <3>2
      <4> QED BY <1>5, <1>6, <4>1 DEF Signed
    <3> QED BY <3>1, <3>2
  <2> QED BY <2>1 DEF Signed
<1>8. Authorised(chain')
  <2>1. ASSUME NEW k \in 2..Len(chain')
        PROVE  /\ chain'[k].ca /\ chain'[k].key_cert_sign
               /\ chain'[k].path_length # Null => k - 2 <= chain'[k].path_length
    <3>1. CASE k = Len(chain) + 1
      <4>1. chain'[k] = c /\ k - 2 = Len(chain) - 1 BY <1>6, <3>1
      <4> QED BY <1>3, <4>1 DEF may_issue
    <3>2. CASE k \in 2..Len(chain)
      <4>1. chain'[k] = chain[k] BY <1>6, <3>2
      <4> QED BY <1>5, <3>2, <4>1 DEF Authorised
    <3> QED BY <1>6, <3>1, <3>2
  <2> QED BY <2>1 DEF Authorised
<1>9. chain' # <<>> /\ chain'[1] = signer_der' BY <1>4, <1>5, <1>6
<1> QED BY <1>7, <1>8, <1>9 DEF ChainInv

LEMMA ChainStep == TypeOK /\ ChainInv /\ [Next]_vars => ChainInv'
<1> SUFFICES ASSUME TypeOK, ChainInv, [Next]_vars PROVE ChainInv' OBVIOUS
<1>1. CASE EnterRoots \/ LeaveRoots BY <1>1 DEF EnterRoots, LeaveRoots, ChainInv
<1>2. CASE check_trust_root
  <2>1. PICK signer \in Signers : signer_der' = signer /\ chain' = <<signer>>
    BY <1>2 DEF check_trust_root
  <2>2. chain' # <<>> /\ chain'[1] = signer_der' /\ Len(chain') = 1 BY <2>1
  <2> QED BY <2>2 DEF ChainInv, Signed, Authorised
<1>3. CASE ExtendChain BY <1>3, ChainExtended
<1>4. CASE EndChain \/ Judge \/ UNCHANGED vars
  <2>1. /\ chain' = chain /\ signer_der' = signer_der /\ (phase' # "idle" => phase # "idle")
    BY <1>4 DEF EndChain, Judge, vars, arguments
  <2> QED BY <2>1 DEF ChainInv, Signed, Authorised
<1> QED BY <1>1, <1>2, <1>3, <1>4 DEF Next, BuildChain

(* The anchor of a chain is pinned, or of the roots in force.              *)
LEMMA AnchorKnown ==
  ASSUME TypeOK, RootsOfThisRun, NEW c \in Certs, IsAnchor(c)
  PROVE  IF UserSupplied(c) THEN c.key \in GrantedKeys ELSE c.key \in PinnedKeys
<1> DEFINE l == LastWithKey(c.key)
<1>1. l \in 1..Len(Roots) /\ Roots[l].key = c.key BY LastWithKeyFound DEF IsAnchor
<1>2. Len(Roots) = Len(Pinned) + Len(extra_roots) /\ Len(Pinned) \in Nat /\ Len(extra_roots) \in Nat
  BY RootsTyped, TrustAssumption DEF TypeOK
<1>3. UserSupplied(c) <=> l > Len(Pinned) BY DEF UserSupplied
<1> HIDE DEF l
<1>4. CASE l > Len(Pinned)
  <2>1. l - Len(Pinned) \in 1..Len(extra_roots) BY <1>1, <1>2, <1>4
  <2>2. Roots[l] = extra_roots[l - Len(Pinned)]
    BY <1>1, <1>2, <1>4, TrustAssumption DEF Roots, TypeOK
  <2>3. extra_roots[l - Len(Pinned)] \in InForce BY <2>1 DEF RootsOfThisRun
  <2> QED BY <1>1, <1>3, <1>4, <2>2, <2>3 DEF GrantedKeys
<1>5. CASE ~(l > Len(Pinned))
  <2>1. l \in 1..Len(Pinned) BY <1>1, <1>2, <1>5
  <2>2. Roots[l] = Pinned[l] BY <2>1, <1>2, TrustAssumption DEF Roots, TypeOK
  <2> QED BY <1>1, <1>3, <1>5, <2>1, <2>2 DEF PinnedKeys
<1> QED BY <1>4, <1>5

LEMMA PassedPath ==
  ASSUME TypeOK, RootsOfThisRun, ChainInv, phase = "built", Passed
  PROVE  hit \in 1..Len(chain) /\ Path(SubSeq(chain, 1, hit))
<1> DEFINE p == SubSeq(chain, 1, hit)
<1>1. hit \in 1..Len(chain) /\ IsAnchor(chain[hit]) BY FirstHit DEF Passed, Hits
<1>2. chain \in Seq(Certs) /\ Len(chain) \in Nat BY DEF TypeOK
<1>3. Len(p) = hit /\ \A k \in 1..hit : p[k] = chain[k] /\ k \in 1..Len(chain)
  BY <1>1, <1>2
<1>4. chain[1] = signer_der /\ Signed(chain) /\ Authorised(chain) BY DEF ChainInv
<1> HIDE DEF p
<1>5. 1 \in 1..hit /\ p # <<>> /\ p[1] = signer_der /\ p[1].tsa /\ ~p[1].ca
  <2>1. 1 \in 1..hit BY <1>1, <1>2
  <2>2. p # <<>> BY <1>3, <2>1
  <2> QED BY <1>3, <1>4, <2>1, <2>2 DEF Passed, leaf_problem
<1>6. Signed(p)
  <2>1. ASSUME NEW k \in 1..(Len(p) - 1)
        PROVE  p[k].issuer = p[k + 1].subject /\ p[k].signed_by = p[k + 1].key
    <3>1. k \in 1..hit /\ k + 1 \in 1..hit /\ k \in 1..(Len(chain) - 1) BY <1>1, <1>2, <1>3
    <3> QED BY <1>3, <1>4, <3>1 DEF Signed
  <2> QED BY <2>1 DEF Signed
<1>7. Authorised(p)
  <2>1. ASSUME NEW k \in 2..Len(p)
        PROVE  /\ p[k].ca /\ p[k].key_cert_sign
               /\ p[k].path_length # Null => k - 2 <= p[k].path_length
    <3>1. k \in 1..hit /\ k \in 2..Len(chain) BY <1>1, <1>2, <1>3
    <3>2. p[k] = chain[k] BY <1>3, <3>1
    <3> QED BY <1>4, <3>1, <3>2 DEF Authorised
  <2> QED BY <2>1 DEF Authorised
<1>8. InTime(p)
  <2>1. ASSUME NEW k \in 1..Len(p) PROVE ValidAt(p[k], at)
    <3>1. k \in 1..hit /\ k \in 1..Len(chain) /\ p[k] = chain[k] BY <1>3
    <3>2. startswith(chain[k].subject, chain[k].subject) BY DEF startswith
    <3> QED BY <3>1, <3>2 DEF Passed, bad
  <2> QED BY <2>1 DEF InTime
<1>9. p[Len(p)].key \in GrantedKeys \/ (p[Len(p)].key \in PinnedKeys /\ TsaOfPinned(p))
  <2>1. chain[hit] \in Certs BY <1>1, <1>2
  <2>2. p[Len(p)] = chain[hit] BY <1>1, <1>3
  <2>3. CASE UserSupplied(chain[hit]) BY <1>1, <2>1, <2>2, <2>3, AnchorKnown
  <2>4. CASE ~UserSupplied(chain[hit])
    <3>1. chain[hit].key \in PinnedKeys BY <1>1, <2>1, <2>4, AnchorKnown
    <3>2. UnderTsaCa BY <2>4 DEF Passed
    <3>3. hit # 1 /\ chain[2].key \in tsa_issuer_spkis BY <3>2 DEF UnderTsaCa
    <3>4. Len(p) > 1 /\ 2 \in 1..hit BY <1>1, <1>2, <1>3, <3>3
    <3> QED BY <1>3, <2>2, <3>1, <3>3, <3>4 DEF TsaOfPinned
  <2> QED BY <2>3, <2>4
<1>10. Path(p) BY <1>5, <1>6, <1>7, <1>8, <1>9 DEF Path
<1> QED BY <1>1, <1>10 DEF p

LEMMA PassStep ==
  TypeOK /\ RootsOfThisRun /\ ChainInv /\ PassMeansPath /\ [Next]_vars => PassMeansPath'
<1> SUFFICES ASSUME TypeOK, RootsOfThisRun, ChainInv, PassMeansPath, [Next]_vars
             PROVE  PassMeansPath'
  OBVIOUS
<1> DEFINE Same == /\ chain' = chain /\ signer_der' = signer_der /\ at' = at /\ granted' = granted
<1>1. ASSUME Same, NEW n, Path(SubSeq(chain, 1, n)) PROVE Path(SubSeq(chain, 1, n))'
  <2>1. InTime(SubSeq(chain, 1, n))' <=> InTime(SubSeq(chain, 1, n))
    BY <1>1 DEF InTime, ValidAt
  <2>2. GrantedKeys' = GrantedKeys BY <1>1 DEF GrantedKeys, InForce
  <2> QED BY <1>1, <2>1, <2>2 DEF Path, Signed, Authorised, TsaOfPinned
<1>2. CASE EnterRoots \/ LeaveRoots \/ check_trust_root \/ ExtendChain \/ EndChain
  BY <1>2 DEF EnterRoots, LeaveRoots, check_trust_root, ExtendChain, EndChain, PassMeansPath
<1>3. CASE Judge
  <2>1. Same /\ phase = "built" BY <1>3 DEF Judge, context, arguments
  <2>2. CASE Passed
    <3>1. hit \in 1..Len(chain) /\ Path(SubSeq(chain, 1, hit)) BY <2>1, <2>2, PassedPath
    <3>2. result' = chain[hit] BY <1>3, <2>2 DEF Judge
    <3>3. PICK n \in 1..Len(chain) : Path(SubSeq(chain, 1, n)) /\ result' = chain[n]
      BY <3>1, <3>2
    <3>4. Path(SubSeq(chain, 1, n))' BY <1>1, <2>1, <3>3
    <3> QED BY <2>1, <3>3, <3>4 DEF PassMeansPath
  <2>3. CASE ~Passed BY <1>3, <2>3 DEF Judge, PassMeansPath
  <2> QED BY <2>2, <2>3
<1>4. CASE UNCHANGED vars
  <2>1. Same /\ phase' = phase /\ result' = result BY <1>4 DEF vars, context, arguments
  <2> QED BY <1>1, <2>1 DEF PassMeansPath
<1> QED BY <1>2, <1>3, <1>4 DEF Next, BuildChain

(* A check that passes has a certification path, each link signed,         *)
(* authorised and in time, to a root pinned or given for this run, for     *)
(* every set of certificates and every pool of them.                       *)
THEOREM PassSound == Spec => []PassMeansPath
<1>1. Init => ChainInv /\ PassMeansPath BY DEF Init, ChainInv, PassMeansPath
<1> QED BY <1>1, StackInit, StackScoped, TypeInit, TypeStep, StackStep, ChainStep, PassStep, PTL DEF Spec

-----------------------------------------------------------------------------
(* A path that is there is found.  FollowInv: for as long as the chain is    *)
(* shorter than a candidate it is the beginning of it, and once it is built  *)
(* it is not shorter.                                                       *)
Follows(p, n) == \A i \in 1..n : i <= Len(chain) => chain[i] = p[i]
FollowInv ==
  phase # "idle" /\ Unambiguous =>
    \A n \in 1..(MaxLinks + 1) : \A p \in Candidates(n) :
      Follows(p, n) /\ (phase \in {"built", "judged"} => n <= Len(chain))
VerdictInv == phase = "judged" => result = IF Passed THEN chain[hit] ELSE Null

LEMMA CandidateFacts ==
  ASSUME NEW n \in Nat \ {0}, NEW p \in Candidates(n)
  PROVE  /\ Len(p) = n /\ p[1] = signer_der /\ \A i \in 2..n : p[i] \in AtHand
         /\ Path(p) /\ Straight(p)
<1>1. PICK above \in [1..(n - 1) -> AtHand] : p = <<signer_der>> \o above
  BY DEF Candidates
<1>2. above \in Seq(AtHand) /\ Len(above) = n - 1
  BY <1>1
<1>3. Len(p) = n /\ p[1] = signer_der /\ \A i \in 2..n : p[i] = above[i - 1] /\ i - 1 \in 1..(n - 1)
  BY <1>1, <1>2
<1>4. Path(p) /\ Straight(p)
  BY DEF Candidates
<1> QED
  BY <1>1, <1>3, <1>4

(* The candidates do not change while the chain is built and judged.        *)
LEMMA CandidatesKept ==
  ASSUME UNCHANGED context, UNCHANGED arguments
  PROVE  Pool' = Pool /\ Unambiguous' = Unambiguous /\ \A n : Candidates(n)' = Candidates(n)
<1>1. extra_roots' = extra_roots /\ granted' = granted /\ signer_der' = signer_der /\ pool_ders' = pool_ders /\ at' = at
  BY DEF context, arguments
<1>2. Roots' = Roots
  BY <1>1 DEF Roots
<1>3. \A k : LastWithKey(k)' = LastWithKey(k)
  BY <1>2 DEF LastWithKey
<1>4. Anchors' = Anchors
  BY <1>2 DEF Anchors, LastWithKey
<1>5. Pool' = Pool /\ AtHand' = AtHand
  BY <1>1, <1>4 DEF Pool, AtHand
<1>6. Unambiguous' = Unambiguous
  BY <1>5 DEF Unambiguous
<1>7. \A p : Straight(p)' = Straight(p)
  BY <1>2 DEF Straight, IsAnchor
<1>8. GrantedKeys' = GrantedKeys
  BY <1>1 DEF GrantedKeys, InForce
<1>9. \A p : Path(p)' = Path(p)
  BY <1>1, <1>8 DEF Path, Signed, Authorised, InTime, ValidAt, TsaOfPinned
<1>10. ASSUME NEW n PROVE Candidates(n)' = Candidates(n)
  BY <1>1, <1>5, <1>7, <1>9 DEF Candidates
<1> QED
  BY <1>5, <1>6, <1>10

(* A round that is shorter than a candidate takes its next certificate.     *)
LEMMA NextOfCandidate ==
  ASSUME TypeOK, phase = "building", Unambiguous,
         NEW n \in 1..(MaxLinks + 1), NEW p \in Candidates(n), Follows(p, n), Len(chain) < n
  PROVE  ~Ended /\ \A i \in Issuers : Pool[i] = p[Len(chain) + 1]
<1> DEFINE l == Len(chain)
<1>1. l \in 1..n /\ l + 1 \in 2..n /\ l <= MaxLinks /\ n \in Nat \ {0}
  <2>1. chain # <<>> /\ chain \in Seq(Certs)
    BY DEF TypeOK
  <2> QED
    BY <2>1 DEF MaxLinks
<1>2. /\ Len(p) = n /\ p[l + 1] \in AtHand /\ Signed(p) /\ Authorised(p) /\ Straight(p)
  BY <1>1, CandidateFacts DEF Path
<1>3. cur = p[l]
  BY <1>1 DEF Follows, cur
<1>4. cur.issuer = p[l + 1].subject /\ cur.signed_by = p[l + 1].key /\ cur.issuer # cur.subject
  <2>1. l \in 1..(Len(p) - 1)
    BY <1>1, <1>2
  <2> QED
    BY <1>2, <1>3, <2>1 DEF Signed, Straight
<1>5. may_issue(p[l + 1], l - 1)
  <2>1. l + 1 \in 2..Len(p) /\ (l + 1) - 2 = l - 1
    BY <1>1, <1>2
  <2> QED
    BY <1>2, <2>1 DEF Authorised, may_issue
<1>6. PICK j \in 1..Len(Pool) : Pool[j] = p[l + 1]
  BY <1>2 DEF AtHand
<1>7. j \in Issuers
  BY <1>4, <1>5, <1>6 DEF Issuers, directly_issued_by
<1>8. ASSUME NEW i \in Issuers PROVE Pool[i] = p[l + 1]
  <2>1. Pool[i] \in AtHand /\ Pool[i].subject = p[l + 1].subject /\ Pool[i].key = p[l + 1].key
    BY <1>4 DEF Issuers, AtHand, directly_issued_by
  <2> QED
    BY <1>2, <2>1 DEF Unambiguous
<1>9. ~(Len(chain) > MaxLinks)
  BY <1>1 DEF MaxLinks
<1>10. ~Ended
  BY <1>4, <1>7, <1>9 DEF Ended
<1> QED
  BY <1>8, <1>10

LEMMA FollowStep == TypeOK /\ FollowInv /\ [Next]_vars => FollowInv'
<1> SUFFICES ASSUME TypeOK, FollowInv, [Next]_vars PROVE FollowInv'
  OBVIOUS
<1>1. CASE EnterRoots \/ LeaveRoots
  BY <1>1 DEF EnterRoots, LeaveRoots, FollowInv
<1>2. CASE check_trust_root
  <2>1. phase' = "building" /\ Len(chain') = 1 /\ chain'[1] = signer_der'
    BY <1>2 DEF check_trust_root
  <2>2. ASSUME NEW n \in 1..(MaxLinks + 1), NEW p, p \in Candidates(n)'
        PROVE  Follows(p, n)'
    <3>1. p[1] = signer_der'
      <4>1. PICK above \in [1..(n - 1) -> AtHand'] : p = <<signer_der'>> \o above
        BY <2>2 DEF Candidates
      <4>2. n - 1 \in Nat /\ above \in Seq(AtHand')
        BY <4>1 DEF MaxLinks
      <4> QED
        BY <4>1, <4>2
    <3> QED
      BY <2>1, <3>1 DEF Follows
  <2> QED
    BY <2>1, <2>2 DEF FollowInv
<1>3. CASE ExtendChain
  <2>1. /\ UNCHANGED context /\ UNCHANGED arguments /\ phase' = "building" /\ phase = "building" /\ ~Ended
        /\ chain' = Append(chain, Pool[CHOOSE i \in Issuers : \A j \in Issuers : i <= j])
    BY <1>3 DEF ExtendChain
  <2>2. PICK k \in Issuers : chain' = Append(chain, Pool[k])
    BY <2>1, FirstIssuer DEF Ended
  <2>3. chain \in Seq(Certs) /\ Len(chain) \in Nat /\ Pool[k] \in Certs
    BY PoolTyped DEF TypeOK, Issuers
  <2>4. Len(chain') = Len(chain) + 1 /\ chain'[Len(chain) + 1] = Pool[k] /\ \A i \in 1..Len(chain) : chain'[i] = chain[i]
    BY <2>2, <2>3
  <2>5. ASSUME Unambiguous, NEW n \in 1..(MaxLinks + 1), NEW p \in Candidates(n)
        PROVE  Follows(p, n)'
    <3>1. Follows(p, n)
      BY <2>1, <2>5 DEF FollowInv
    <3>2. Len(chain) < n => Pool[k] = p[Len(chain) + 1]
      BY <2>1, <2>5, <3>1, NextOfCandidate
    <3>3. ASSUME NEW i \in 1..n, i <= Len(chain')
          PROVE  chain'[i] = p[i]
      <4>1. CASE i <= Len(chain)
        <5>1. i \in 1..Len(chain)
          BY <2>3, <4>1
        <5> QED
          BY <2>4, <3>1, <4>1, <5>1 DEF Follows
      <4>2. CASE i = Len(chain) + 1
        BY <2>3, <2>4, <3>2, <4>2
      <4> QED
        BY <2>3, <2>4, <3>3, <4>1, <4>2
    <3> QED
      BY <3>3 DEF Follows
  <2> QED
    BY <2>1, <2>5, CandidatesKept DEF FollowInv
<1>4. CASE EndChain
  <2>1. UNCHANGED context /\ UNCHANGED arguments /\ chain' = chain /\ phase = "building" /\ Ended
    BY <1>4 DEF EndChain
  <2>2. ASSUME Unambiguous, NEW n \in 1..(MaxLinks + 1), NEW p \in Candidates(n)
        PROVE  Follows(p, n)' /\ n <= Len(chain')
    <3>1. Follows(p, n)
      BY <2>1, <2>2 DEF FollowInv
    <3>2. ~(Len(chain) < n)
      BY <2>1, <2>2, <3>1, NextOfCandidate
    <3>3. Len(chain) \in Nat
      BY DEF TypeOK
    <3> QED
      BY <2>1, <3>1, <3>2, <3>3 DEF Follows
  <2> QED
    BY <2>1, <2>2, CandidatesKept DEF FollowInv
<1>5. CASE Judge \/ UNCHANGED vars
  <2>1. /\ UNCHANGED context /\ UNCHANGED arguments /\ chain' = chain
        /\ phase' # "idle" => phase # "idle"
        /\ phase' \in {"built", "judged"} => phase \in {"built", "judged"}
    BY <1>5 DEF Judge, vars
  <2>2. \A n, p : Follows(p, n)' = Follows(p, n)
    BY <2>1 DEF Follows
  <2> QED
    BY <2>1, <2>2, CandidatesKept DEF FollowInv
<1> QED
  BY <1>1, <1>2, <1>3, <1>4, <1>5 DEF Next, BuildChain

-----------------------------------------------------------------------------
(* The verdict on a chain that begins with a candidate.                     *)
LEMMA FirstHitLeast == ASSUME TypeOK, NEW j \in Hits PROVE hit \in Hits /\ hit <= j
<1>1. Hits \in SUBSET Nat /\ Hits # {}
  BY DEF Hits
<1>2. \E i \in Hits : \A k \in Hits : i <= k
  BY <1>1, Least
<1> QED
  BY <1>2 DEF hit

LEMMA LastWithKeyLatest ==
  ASSUME TypeOK, NEW i \in 1..Len(Roots)
  PROVE  i <= LastWithKey(Roots[i].key)
<1> DEFINE k == Roots[i].key
           S == {j \in 1..Len(Roots) : Roots[j].key = k}
<1>1. Len(Roots) \in Nat
  BY RootsTyped
<1>2. S \in SUBSET (1..Len(Roots)) /\ S # {} /\ i \in S
  OBVIOUS
<1>3. \E m \in S : \A j \in S : j <= m
  <2> HIDE DEF S
  <2> QED
    BY <1>1, <1>2, Greatest
<1>4. \A j \in S : j <= LastWithKey(k)
  BY <1>3 DEF LastWithKey
<1> QED
  BY <1>2, <1>4

LEMMA GivenIsAnchor ==
  ASSUME TypeOK, RootsOfThisRun, NEW c, c.key \in GrantedKeys
  PROVE  IsAnchor(c) /\ UserSupplied(c)
<1>1. PICK d \in InForce : d.key = c.key
  BY DEF GrantedKeys
<1>2. PICK i \in 1..Len(extra_roots) : extra_roots[i] = d
  BY DEF RootsOfThisRun
<1>3. /\ Pinned \in Seq(Certs) /\ extra_roots \in Seq(Certs) /\ Len(Pinned) \in Nat /\ Len(extra_roots) \in Nat
      /\ Len(Roots) = Len(Pinned) + Len(extra_roots)
  BY TrustAssumption, RootsTyped DEF TypeOK
<1> DEFINE j == Len(Pinned) + i
<1>4. j \in 1..Len(Roots) /\ Roots[j] = extra_roots[i]
  BY <1>2, <1>3 DEF Roots
<1>5. Roots[j].key = c.key
  BY <1>1, <1>2, <1>4
<1>6. j > Len(Pinned)
  BY <1>2, <1>3
<1> HIDE DEF j
<1>7. IsAnchor(c)
  BY <1>4, <1>5 DEF IsAnchor
<1>8. LastWithKey(c.key) \in 1..Len(Roots) /\ j <= LastWithKey(c.key)
  <2>1. \E m \in 1..Len(Roots) : Roots[m].key = c.key
    BY <1>4, <1>5
  <2>2. j <= LastWithKey(Roots[j].key)
    BY <1>4, LastWithKeyLatest
  <2>3. LastWithKey(c.key) \in 1..Len(Roots)
    BY <2>1, LastWithKeyFound
  <2> QED
    BY <1>5, <2>2, <2>3
<1>9. LastWithKey(c.key) > Len(Pinned)
  BY <1>3, <1>4, <1>6, <1>8
<1> QED
  BY <1>7, <1>9 DEF UserSupplied

LEMMA PinnedIsAnchor ==
  ASSUME TypeOK, NEW c, c.key \in PinnedKeys
  PROVE  IsAnchor(c)
<1>1. PICK i \in 1..Len(Pinned) : Pinned[i].key = c.key
  BY DEF PinnedKeys
<1>2. /\ Pinned \in Seq(Certs) /\ extra_roots \in Seq(Certs) /\ Len(Pinned) \in Nat /\ Len(extra_roots) \in Nat
      /\ Len(Roots) = Len(Pinned) + Len(extra_roots)
  BY TrustAssumption, RootsTyped DEF TypeOK
<1>3. i \in 1..Len(Roots) /\ Roots[i] = Pinned[i]
  BY <1>2 DEF Roots
<1> QED
  BY <1>1, <1>3 DEF IsAnchor

LEMMA CandidatePasses ==
  ASSUME TypeOK, RootsOfThisRun, NEW n \in 1..(MaxLinks + 1), NEW p \in Candidates(n),
         Follows(p, n), n <= Len(chain), ~Confused
  PROVE  Passed
<1>1. n \in Nat \ {0} /\ Len(chain) \in Nat
  BY DEF MaxLinks, TypeOK
<1>2. Len(p) = n /\ Path(p) /\ Straight(p)
  BY <1>1, CandidateFacts
<1>3. \A i \in 1..n : chain[i] = p[i] /\ i \in 1..Len(chain)
  BY <1>1 DEF Follows
<1>4. n \in Hits
  <2>1. IsAnchor(p[n])
    BY <1>2, GivenIsAnchor, PinnedIsAnchor DEF Path
  <2> QED
    BY <1>1, <1>3, <2>1 DEF Hits
<1>5. hit = n
  <2>1. hit \in Hits /\ hit <= n
    BY <1>4, FirstHitLeast
  <2>2. hit \in 1..Len(chain) /\ IsAnchor(chain[hit])
    BY <2>1 DEF Hits
  <2>3. ASSUME hit # n PROVE FALSE
    <3>1. hit \in 1..(Len(p) - 1) /\ hit \in 1..n
      BY <1>1, <1>2, <2>1, <2>2, <2>3
    <3> QED
      BY <1>2, <1>3, <2>2, <3>1 DEF Straight
  <2> QED
    BY <2>3
<1>6. ~bad
  <2>1. ASSUME NEW i \in 1..Len(chain), ~ValidAt(chain[i], at),
               NEW j \in 1..hit, startswith(chain[i].subject, chain[j].subject)
        PROVE  FALSE
    <3>1. CASE i <= n
      <4>1. i \in 1..n
        BY <1>1, <3>1
      <4> QED
        BY <1>2, <1>3, <2>1, <4>1 DEF Path, InTime
    <3>2. CASE ~(i <= n)
      <4>1. i \in (hit + 1)..Len(chain)
        BY <1>1, <1>5, <3>2
      <4> QED
        BY <1>4, <2>1, <4>1 DEF Confused
    <3> QED
      BY <3>1, <3>2
  <2> QED
    BY <2>1 DEF bad
<1>7. ~leaf_problem(chain[1])
  BY <1>1, <1>2, <1>3 DEF Path, leaf_problem
<1>8. UserSupplied(chain[hit]) \/ UnderTsaCa
  <2>1. chain[hit] = p[n]
    BY <1>1, <1>3, <1>5
  <2>2. CASE p[n].key \in GrantedKeys
    BY <2>1, <2>2, GivenIsAnchor
  <2>3. CASE TsaOfPinned(p)
    <3>1. hit # 1 /\ 2 \in 1..n /\ p[2].key \in tsa_issuer_spkis
      BY <1>1, <1>2, <1>5, <2>3 DEF TsaOfPinned
    <3> QED
      BY <1>3, <3>1 DEF UnderTsaCa
  <2> QED
    BY <1>2, <2>2, <2>3 DEF Path
<1> QED
  BY <1>4, <1>6, <1>7, <1>8 DEF Passed

LEMMA VerdictKept ==
  ASSUME UNCHANGED context, UNCHANGED arguments, chain' = chain
  PROVE  Passed' = Passed /\ hit' = hit /\ Confused' = Confused
<1>1. extra_roots' = extra_roots /\ at' = at
  BY DEF context, arguments
<1>2. Roots' = Roots
  BY <1>1 DEF Roots
<1>3. \A c : IsAnchor(c)' = IsAnchor(c) /\ UserSupplied(c)' = UserSupplied(c)
  BY <1>2 DEF IsAnchor, UserSupplied, LastWithKey
<1>4. Hits' = Hits
  BY <1>3 DEF Hits
<1>5. hit' = hit
  BY <1>4 DEF hit
<1>6. bad' = bad
  BY <1>1, <1>5 DEF bad, ValidAt, startswith
<1>7. Passed' = Passed
  BY <1>2, <1>4, <1>5, <1>6 DEF Passed, leaf_problem, UnderTsaCa, UserSupplied, LastWithKey
<1>8. Confused' = Confused
  BY <1>1, <1>4, <1>5 DEF Confused, ValidAt, startswith
<1> QED
  BY <1>5, <1>7, <1>8

LEMMA VerdictStep == VerdictInv /\ [Next]_vars => VerdictInv'
<1> SUFFICES ASSUME VerdictInv, [Next]_vars PROVE VerdictInv'
  OBVIOUS
<1>1. CASE Judge
  <2>1. UNCHANGED context /\ UNCHANGED arguments /\ chain' = chain
    BY <1>1 DEF Judge
  <2>2. result' = IF Passed THEN chain[hit] ELSE Null
    BY <1>1 DEF Judge
  <2> QED
    BY <2>1, <2>2, VerdictKept DEF VerdictInv
<1>2. CASE UNCHANGED vars
  <2>1. UNCHANGED context /\ UNCHANGED arguments /\ chain' = chain /\ phase' = phase /\ result' = result
    BY <1>2 DEF vars
  <2> QED
    BY <2>1, VerdictKept DEF VerdictInv
<1>3. CASE EnterRoots \/ LeaveRoots \/ check_trust_root \/ ExtendChain \/ EndChain
  BY <1>3 DEF EnterRoots, LeaveRoots, check_trust_root, ExtendChain, EndChain, VerdictInv
<1> QED
  BY <1>1, <1>2, <1>3 DEF Next, BuildChain

(* PathFound for paths as long as the loop may make them.                   *)
EveryPathFound ==
  phase = "judged" /\ result = Null /\ Unambiguous /\ ~Confused =>
    \A n \in 1..(MaxLinks + 1) : Candidates(n) = {}

LEMMA FoundInv == TypeOK /\ RootsOfThisRun /\ FollowInv /\ VerdictInv => EveryPathFound
<1> SUFFICES ASSUME TypeOK, RootsOfThisRun, FollowInv, VerdictInv,
                    phase = "judged", result = Null, Unambiguous, ~Confused,
                    NEW n \in 1..(MaxLinks + 1), NEW p \in Candidates(n)
             PROVE  FALSE
  BY DEF EveryPathFound
<1>1. Follows(p, n) /\ n <= Len(chain)
  BY DEF FollowInv
<1>2. Passed
  BY <1>1, CandidatePasses
<1>3. hit \in 1..Len(chain)
  BY <1>2, FirstHit DEF Passed, Hits
<1>4. chain[hit] \in Certs
  BY <1>3 DEF TypeOK
<1> QED
  BY <1>2, <1>4, TrustAssumption DEF VerdictInv

(* A certification path through the certificates at hand is found, however  *)
(* long it is (up to the eleven certificates of the loop's bound) and      *)
(* whatever else the file ships, unless a link has two possible issuers.    *)
THEOREM EveryPathComplete == Spec => []EveryPathFound
<1>1. Init => FollowInv /\ VerdictInv
  BY DEF Init, FollowInv, VerdictInv
<1> QED
  BY <1>1, StackInit, StackScoped, TypeInit, TypeStep, StackStep, FollowStep, VerdictStep, FoundInv, PTL DEF Spec

(* The same as the runs check it, for paths of up to three certificates.    *)
THEOREM PathComplete == Spec => []PathFound
<1>1. EveryPathFound => PathFound
  <2>1. 1..3 \subseteq 1..(MaxLinks + 1)
    BY DEF MaxLinks
  <2> QED
    BY <2>1 DEF EveryPathFound, PathFound
<1> QED
  BY <1>1, EveryPathComplete, PTL
=============================================================================
