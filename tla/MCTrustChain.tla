---------------------------- MODULE MCTrustChain ----------------------------
(***************************************************************************)
(* Two pinned roots, one of which issued time-stamping certificates itself,*)
(* the bundled TSA CA, an identity CA under the same root, a foreign root, *)
(* two CAs that certify each other, and files that ship up to two of the   *)
(* certificates below.                                                     *)
(***************************************************************************)
EXTENDS TrustChain

CONSTANTS G1, Ee, TsaCa, IdCa, Foreign, A, B, Sub, Unit, Rogue
NameSet == {G1, Ee, TsaCa, IdCa, Foreign, A, B, Sub, Unit}
KeySet == NameSet \cup {Rogue}

Ca(name, issuer, len) ==
  [subject |-> name, issuer |-> issuer, key |-> name, signed_by |-> issuer, ca |-> TRUE,
   path_length |-> len, key_cert_sign |-> TRUE, from |-> 1, to |-> 2, tsa |-> FALSE]
Leaf(issuer) == [Ca(Unit, issuer, Null) EXCEPT !.ca = FALSE, !.key_cert_sign = FALSE, !.tsa = TRUE]

RootG1 == Ca(G1, G1, Null)
RootEe == [Ca(Ee, Ee, Null) EXCEPT !.to = 1]
TsaIssuer == Ca(TsaCa, G1, 0)
ForeignRoot == Ca(Foreign, Foreign, Null)
PinnedRoots == <<RootG1, RootEe>>
MCDirect == {RootEe}
Bundled == <<TsaIssuer>>

SignerCases == {Leaf(i) : i \in {G1, Ee, TsaCa, IdCa, Foreign, A, Sub}}
               \cup {[Leaf(TsaCa) EXCEPT !.tsa = FALSE], [Leaf(Foreign) EXCEPT !.ca = TRUE],
                     [Leaf(Foreign) EXCEPT !.signed_by = Rogue],      \* of a CA that changed its key
                     [Leaf(B) EXCEPT !.signed_by = G1]}               \* of the pinned root, under another name
Shipped == <<Ca(IdCa, G1, Null), Ca(A, B, Null), Ca(B, A, Null), ForeignRoot, Ca(A, Foreign, Null),
             Ca(Sub, TsaCa, Null),                                   \* below a CA with pathLen 0
             [TsaIssuer EXCEPT !.key = Rogue, !.signed_by = Rogue],  \* the name only
             [ForeignRoot EXCEPT !.key = Rogue],                     \* the new key, signed with the old
             [Ca(B, Foreign, Null) EXCEPT !.key = G1],
             [TsaIssuer EXCEPT !.to = 1],                            \* same CA, shorter lived
             [Ca(Foreign, G1, Null) EXCEPT !.key_cert_sign = FALSE]>>
(* A file ships one certificate, or two of which one may be the issuer of    *)
(* the other, or two that compete for a link, in both orders.               *)
Issuing(c, d) == c.issuer = d.subject \/ d.issuer = c.subject
Orders(i, j) ==
  i # j /\ \/ Shipped[i].subject = Shipped[j].subject
           \/ i < j /\ Issuing(Shipped[i], Shipped[j])
Places == 1..Len(Shipped)
BundleCases ==
  {<<>>} \cup {<<Shipped[n]>> : n \in Places}
  \cup {<<Shipped[pl[1]], Shipped[pl[2]]>> : pl \in {pair \in Places \X Places : Orders(pair[1], pair[2])}}
RootFileCases == {<<ForeignRoot, Ca(Sub, Ee, Null)>>, <<RootG1>>}   \* a CA below a root may be given too
(* Definitions of their own: TLC evaluates them once, not at every use.      *)
MCNames == NameSet
MCKeys == KeySet
MCPinned == PinnedRoots
MCIntermediates == Bundled
MCSigners == SignerCases
MCBundles == BundleCases
MCRootFiles == RootFileCases
MCLonger == {<<Ee, Sub>>}
=============================================================================
