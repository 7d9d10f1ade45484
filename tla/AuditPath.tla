------------------------------ MODULE AuditPath ------------------------------
(***************************************************************************)
(* merkle_root_from_path of core.py, one step per element of the path and  *)
(* per shift of its inner loop.  SHA-256 is free: a hash is the term that  *)
(* was hashed.  Tree[n] is the tree over n leaves an anchor is made of,    *)
(* level by level: the hash at <<i, last>> is that of node i of the level  *)
(* that ends in node last.  PathOf[n] has the audit path of that node.      *)
(***************************************************************************)
EXTENDS Naturals, Sequences

CONSTANTS
  Null,    \* not a list, not a digest, no root
  Sizes,   \* tree sizes
  Tree,
  PathOf

Sha(bytes) == <<"sha256", bytes>>
anchor_leaf_v3(proof_id, digest) == <<0, proof_id, digest>>
LeafHash(leaf) == <<1, leaf>>
InnerHash(left, right) == <<2, left, right>>

(* A node that ends its level and has no sibling is promoted as it is.      *)
IsTree(t, n) ==
  /\ \A i \in 0..n-1 : <<i, n-1>> \in DOMAIN t
  /\ \A i, last \in 0..n-1 :
       <<i, last>> \in DOMAIN t /\ last # 0 =>
         /\ <<i \div 2, last \div 2>> \in DOMAIN t
         /\ t[<<i \div 2, last \div 2>>] =
              IF i % 2 = 1 THEN InnerHash(t[<<i-1, last>>], t[<<i, last>>])
              ELSE IF i = last THEN t[<<i, last>>]
              ELSE InnerHash(t[<<i, last>>], t[<<i+1, last>>])
ASSUME TreeAssumption ==
  Sizes \subseteq Nat \ {0} /\ \A n \in Sizes : IsTree(Tree[n], n)
(* The audit path of a node is its sibling, where it has one, and the path   *)
(* of its parent; the one of the root is empty.                             *)
ArePaths(path, t, n) ==
  /\ path[<<0, 0>>] = <<>>
  /\ \A i, last \in 0..n-1 :
       <<i, last>> \in DOMAIN t /\ last # 0 =>
         LET above == path[<<i \div 2, last \div 2>>] IN
         IF i % 2 = 0 /\ i = last THEN path[<<i, last>>] = above
         ELSE LET sibling == IF i % 2 = 1 THEN [side |-> "L", hash |-> t[<<i-1, last>>]]
                             ELSE [side |-> "R", hash |-> t[<<i+1, last>>]]
              IN  /\ sibling # Null /\ path[<<i, last>>] # <<>>
                  /\ Head(path[<<i, last>>]) = sibling /\ Tail(path[<<i, last>>]) = above
ASSUME PathAssumption == \A n \in Sizes : ArePaths(PathOf[n], Tree[n], n)
Root(n) == Tree[n][<<0, 0>>]
Leaf(n, i) == Tree[n][<<i, n-1>>]

VARIABLES
  loop,    \* idle, for, while, ended
  fn, sn, r,
  rest     \* elements of the path to come; Null for one that is not a side and a hash

pathVars == <<loop, fn, sn, r, rest>>

PathInit == loop = "idle" /\ fn = 0 /\ sn = 0 /\ r = Null /\ rest = <<>>

-----------------------------------------------------------------------------
Return(value) == loop' = "ended" /\ r' = value /\ UNCHANGED <<fn, sn, rest>>
\* Mutant: an index equal to the size is within it.
Enter_Inclusive(leaf, index, tree_size, path) ==
  /\ loop = "idle"
  /\ IF index \in Nat /\ tree_size \in Nat /\ index <= tree_size /\ tree_size # 0 /\ path # Null
     THEN loop' = "for" /\ fn' = index /\ sn' = tree_size - 1 /\ r' = LeafHash(leaf) /\ rest' = path
     ELSE Return(Null)
Enter(leaf, index, tree_size, path) ==
  /\ loop = "idle"
  /\ IF index \in Nat /\ tree_size \in Nat /\ index < tree_size /\ path # Null
     THEN loop' = "for" /\ fn' = index /\ sn' = tree_size - 1 /\ r' = LeafHash(leaf) /\ rest' = path
     ELSE Return(Null)

el == Head(rest)
Even(n) == n % 2 = 0
Halve == fn' = fn \div 2 /\ sn' = sn \div 2
\* Mutant: the order of the two hashes is the one the path tells.
OnLeft_AsTold == el.side = "L"
OnLeft == ~Even(fn) \/ fn = sn
\* Mutant: the last node of a level always has a sibling.
Promoted_Never == FALSE
Promoted == OnLeft /\ Even(fn)
Inconsistent == el = Null \/ sn = 0 \/ el.side # (IF OnLeft THEN "L" ELSE "R")
Element ==
  /\ loop = "for" /\ rest # <<>>
  /\ IF Inconsistent THEN Return(Null)
     ELSE /\ r' = IF OnLeft THEN InnerHash(el.hash, r) ELSE InnerHash(r, el.hash)
          /\ rest' = Tail(rest)
          /\ IF Promoted THEN loop' = "while" /\ UNCHANGED <<fn, sn>>
             ELSE Halve /\ UNCHANGED loop
(* The shifts of the inner loop and, once it ends, the one behind it.       *)
Shift ==
  /\ loop = "while" /\ Halve /\ UNCHANGED <<r, rest>>
  /\ loop' = IF fn # 0 /\ Even(fn) THEN "while" ELSE "for"
\* Mutant: a path that ends below the root is accepted.
PathEnds_Anywhere == loop = "for" /\ rest = <<>> /\ Return(r)
PathEnds == loop = "for" /\ rest = <<>> /\ Return(IF sn = 0 THEN r ELSE Null)
PathStep == Element \/ Shift \/ PathEnds
=============================================================================
