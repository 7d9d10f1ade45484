---------------------------- MODULE AnchorProofs ----------------------------
(***************************************************************************)
(* What a verified inclusion proof and a confirmation by the node mean, for *)
(* every tree, every package and every behaviour of the node.              *)
(***************************************************************************)
EXTENDS Anchor, Extrema, TLAPS

Asking == {"parse", "probe", "hash", "header"}

(* Which of the two layers is at work, by where it is and by the audit path. *)
PhaseInv ==
  /\ loop \in {"idle", "for", "while", "ended"}
  /\ pc \in {"canonical", "ots", "ots_answer"} => loop = "idle" /\ ots.status = Null
  /\ pc \in Asking => (loop = "idle" /\ ots.status = Null) \/ (loop = "ended" /\ ots.status # Null)
  /\ pc = "inclusion" => loop = "idle" /\ ots.status # Null
  /\ pc = "path" => loop # "idle" /\ ots.status # Null
  /\ pc \in {"receipt", "unasked", "answer"} => loop = "ended" /\ ots.status # Null
  /\ pc = "done" => ots.status # Null
  /\ pc # "done" => inclusion.result = Null /\ inclusion.bitcoin = Null
  /\ ots = [status |-> ots.status, bitcoin |-> ots.bitcoin]
  /\ ots.status = Null => ots.bitcoin = Null

-----------------------------------------------------------------------------
(* The parent of a node of a tree.                                          *)
LEMMA Parent ==
  ASSUME NEW n \in Sizes, NEW i \in 0..n-1, NEW last \in 0..n-1, i <= last, last # 0,
         <<i, last>> \in DOMAIN Tree[n]
  PROVE  /\ i \div 2 \in 0..n-1 /\ last \div 2 \in 0..n-1 /\ i \div 2 <= last \div 2
         /\ <<i \div 2, last \div 2>> \in DOMAIN Tree[n]
         /\ ~Even(i) => Tree[n][<<i \div 2, last \div 2>>] = InnerHash(Tree[n][<<i-1, last>>], Tree[n][<<i, last>>])
         /\ Even(i) /\ i = last => Tree[n][<<i \div 2, last \div 2>>] = Tree[n][<<i, last>>]
         /\ Even(i) /\ i # last =>
              Tree[n][<<i \div 2, last \div 2>>] = InnerHash(Tree[n][<<i, last>>], Tree[n][<<i+1, last>>])
<1>1. n \in Nat \ {0} /\ IsTree(Tree[n], n)
  BY TreeAssumption
<1>2. i \div 2 \in 0..n-1 /\ last \div 2 \in 0..n-1 /\ i \div 2 <= last \div 2
  BY <1>1
<1>3. i % 2 = 1 <=> ~Even(i)
  BY <1>1 DEF Even
<1> QED
  BY <1>1, <1>2, <1>3 DEF IsTree

-----------------------------------------------------------------------------
(* Only two actions touch the audit path.                                   *)
LEMMA Frames ==
  ASSUME [Next]_vars
  PROVE  given' = given /\ (RecomputeLeaf \/ AuditPath \/ UNCHANGED pathVars)
<1>1. CASE CanonicalHash \/ OtsHeader \/ OtsAnswer \/ NodeMoves
  BY <1>1 DEF CanonicalHash, OtsHeader, OtsAnswer, NodeMoves
<1>2. CASE AskNode
  BY <1>2 DEF AskNode, Parse, Probe, GetBlockHash, GetBlockHeader, AllAsked, RpcFrame
<1>3. CASE CheckInclusion
  BY <1>3 DEF CheckInclusion, NotPresent, Refuse, RecomputeLeaf, AuditPath, NoPayload, AnchorPayload,
              NoReceipt, CheckReceipt, Unasked, Answer, InclusionFrame
<1>4. CASE UNCHANGED vars
  BY <1>4 DEF vars
<1> QED
  BY <1>1, <1>2, <1>3, <1>4 DEF Next, Verify

(* The hash at hand is that of a node of the tree only if the path began at  *)
(* the leaf of the tree that has the index.  In the inner loop the hash is   *)
(* already that of the node above the one the shifts lead to.               *)
AtLeaf(n) == Leaf(n, inc.leaf_index) = LeafHash(leaf)
WalkOver(n) ==
  /\ loop \in {"for", "while"} =>
       /\ fn \in 0..n-1 /\ sn \in 0..n-1 /\ fn <= sn
       /\ <<fn, sn>> \in DOMAIN Tree[n]
  /\ loop = "for" => (r = Tree[n][<<fn, sn>>] => AtLeaf(n))
  /\ loop = "while" =>
       /\ fn = sn /\ fn # 0
       /\ \E p, q : r = InnerHash(p, q) /\ (q = Tree[n][<<fn, sn>>] => AtLeaf(n))
  /\ loop = "ended" => (r # Null /\ r = Root(n) => AtLeaf(n))
WalkInv == loop \in {"idle", "for", "while", "ended"} /\ (inc.leaf_count \in Sizes => WalkOver(inc.leaf_count))

LEMMA WalkElement ==
  ASSUME NEW n \in Sizes, n = inc.leaf_count, WalkOver(n), Element, given' = given
  PROVE  WalkOver(n)' /\ loop' \in {"for", "while", "ended"}
<1>1. n \in Nat \ {0} /\ AtLeaf(n)' = AtLeaf(n) /\ n' = n
  BY TreeAssumption DEF AtLeaf, inc, pkg, leaf
<1>2. /\ loop = "for" /\ fn \in 0..n-1 /\ sn \in 0..n-1 /\ fn <= sn /\ <<fn, sn>> \in DOMAIN Tree[n]
      /\ r = Tree[n][<<fn, sn>>] => AtLeaf(n)
  BY DEF WalkOver, Element
<1>3. CASE Inconsistent
  BY <1>1, <1>3 DEF Element, Return, WalkOver
<1>4. CASE ~Inconsistent /\ Promoted
  <2>1. sn # 0 /\ fn = sn /\ loop' = "while" /\ fn' = fn /\ sn' = sn /\ r' = InnerHash(el.hash, r)
    BY <1>4 DEF Element, Promoted, OnLeft, Inconsistent
  <2>2. \E p, q : r' = InnerHash(p, q) /\ (q = Tree[n][<<fn, sn>>] => AtLeaf(n))
    BY <1>2, <2>1
  <2> QED
    BY <1>1, <1>2, <2>1, <2>2 DEF WalkOver
<1>5. CASE ~Inconsistent /\ ~Promoted
  <2>1. /\ sn # 0 /\ loop' = "for" /\ fn' = fn \div 2 /\ sn' = sn \div 2
        /\ r' = IF OnLeft THEN InnerHash(el.hash, r) ELSE InnerHash(r, el.hash)
    BY <1>2, <1>5 DEF Element, Inconsistent, Halve
  <2>2. /\ fn' \in 0..n-1 /\ sn' \in 0..n-1 /\ fn' <= sn' /\ <<fn', sn'>> \in DOMAIN Tree[n]
    BY <1>2, <2>1, Parent
  <2>3. r' = Tree[n][<<fn', sn'>>] => AtLeaf(n)
    <3>1. CASE OnLeft
      <4>1. ~Even(fn) /\ r' = InnerHash(el.hash, r)
        BY <1>5, <2>1, <3>1 DEF Promoted
      <4>2. Tree[n][<<fn', sn'>>] = InnerHash(Tree[n][<<fn-1, sn>>], Tree[n][<<fn, sn>>])
        BY <1>2, <2>1, <4>1, Parent
      <4> QED
        BY <1>2, <4>1, <4>2 DEF InnerHash
    <3>2. CASE ~OnLeft
      <4>1. Even(fn) /\ fn # sn /\ r' = InnerHash(r, el.hash)
        BY <2>1, <3>2 DEF OnLeft
      <4>2. Tree[n][<<fn', sn'>>] = InnerHash(Tree[n][<<fn, sn>>], Tree[n][<<fn+1, sn>>])
        BY <1>2, <2>1, <4>1, Parent
      <4> QED
        BY <1>2, <4>1, <4>2 DEF InnerHash
    <3> QED
      BY <3>1, <3>2
  <2> QED
    BY <1>1, <2>1, <2>2, <2>3 DEF WalkOver
<1> QED
  BY <1>3, <1>4, <1>5

LEMMA WalkShift ==
  ASSUME NEW n \in Sizes, n = inc.leaf_count, WalkOver(n), Shift, given' = given
  PROVE  WalkOver(n)' /\ loop' \in {"for", "while", "ended"}
<1>1. n \in Nat \ {0} /\ AtLeaf(n)' = AtLeaf(n) /\ n' = n
  BY TreeAssumption DEF AtLeaf, inc, pkg, leaf
<1>2. /\ loop = "while" /\ fn \in 0..n-1 /\ sn \in 0..n-1 /\ fn <= sn /\ <<fn, sn>> \in DOMAIN Tree[n]
      /\ fn = sn /\ fn # 0
  BY DEF WalkOver, Shift
<1>3. PICK p, q : r = InnerHash(p, q) /\ (q = Tree[n][<<fn, sn>>] => AtLeaf(n))
  BY <1>2 DEF WalkOver
<1>4. fn' = fn \div 2 /\ sn' = sn \div 2 /\ r' = r
  BY DEF Shift, Halve
<1>5. fn' \in 0..n-1 /\ sn' \in 0..n-1 /\ fn' <= sn' /\ fn' = sn' /\ <<fn', sn'>> \in DOMAIN Tree[n]
  BY <1>2, <1>4, Parent
<1>6. CASE Even(fn)
  <2>1. loop' = "while" /\ fn' # 0
    BY <1>1, <1>2, <1>4, <1>6 DEF Shift, Even
  <2>2. Tree[n][<<fn', sn'>>] = Tree[n][<<fn, sn>>]
    BY <1>2, <1>4, <1>6, Parent
  <2>3. \E p_1, q_1 : r' = InnerHash(p_1, q_1) /\ (q_1 = Tree[n][<<fn', sn'>>] => AtLeaf(n))
    BY <1>3, <1>4, <2>2
  <2> QED
    BY <1>1, <1>5, <2>1, <2>3 DEF WalkOver
<1>7. CASE ~Even(fn)
  <2>1. loop' = "for"
    BY <1>7 DEF Shift
  <2>2. Tree[n][<<fn', sn'>>] = InnerHash(Tree[n][<<fn-1, sn>>], Tree[n][<<fn, sn>>])
    BY <1>2, <1>4, <1>7, Parent
  <2>3. r' = Tree[n][<<fn', sn'>>] => AtLeaf(n)
    BY <1>3, <1>4, <2>2 DEF InnerHash
  <2> QED
    BY <1>1, <1>5, <2>1, <2>3 DEF WalkOver
<1> QED
  BY <1>6, <1>7

LEMMA WalkEnds ==
  ASSUME NEW n \in Sizes, n = inc.leaf_count, WalkOver(n), PathEnds, given' = given
  PROVE  WalkOver(n)' /\ loop' \in {"for", "while", "ended"}
<1>1. n \in Nat \ {0} /\ AtLeaf(n)' = AtLeaf(n) /\ n' = n
  BY TreeAssumption DEF AtLeaf, inc, pkg, leaf
<1>2. loop' = "ended" /\ (sn # 0 => r' = Null) /\ (sn = 0 => r' = r)
  BY DEF PathEnds, Return
<1>3. sn = 0 => fn = 0 /\ (r = Root(n) => AtLeaf(n))
  BY <1>1 DEF WalkOver, PathEnds, Root
<1> QED
  BY <1>1, <1>2, <1>3 DEF WalkOver

LEMMA WalkStart ==
  ASSUME NEW n \in Sizes, n = inc.leaf_count, given' = given,
         Enter(leaf, inc.leaf_index, inc.leaf_count, inc.audit_path)
  PROVE  WalkOver(n)' /\ loop' \in {"for", "while", "ended"}
<1>1. n \in Nat \ {0} /\ AtLeaf(n)' = AtLeaf(n) /\ n' = n /\ IsTree(Tree[n], n)
  BY TreeAssumption DEF AtLeaf, inc, pkg, leaf
<1>2. CASE loop' = "ended" /\ r' = Null
  BY <1>1, <1>2 DEF WalkOver
<1>3. CASE /\ inc.leaf_index \in Nat /\ inc.leaf_index < n
           /\ loop' = "for" /\ fn' = inc.leaf_index /\ sn' = n - 1 /\ r' = LeafHash(leaf)
  <2>1. fn' \in 0..n-1 /\ sn' \in 0..n-1 /\ fn' <= sn' /\ <<fn', sn'>> \in DOMAIN Tree[n]
    BY <1>1, <1>3 DEF IsTree
  <2>2. Tree[n][<<fn', sn'>>] = Leaf(n, inc.leaf_index)
    BY <1>3 DEF Leaf
  <2> QED
    BY <1>1, <1>3, <2>1, <2>2 DEF WalkOver, AtLeaf
<1> QED
  BY <1>2, <1>3 DEF Enter, Return

LEMMA WalkNext ==
  ASSUME WalkInv, [Next]_vars
  PROVE  WalkInv'
<1>1. given' = given /\ inc' = inc
  BY Frames DEF inc, pkg
<1>2. CASE UNCHANGED pathVars
  <2>1. \A n \in Sizes : AtLeaf(n)' = AtLeaf(n)
    BY <1>1 DEF AtLeaf, inc, pkg, leaf
  <2>2. loop' = loop /\ fn' = fn /\ sn' = sn /\ r' = r
    BY <1>2 DEF pathVars
  <2>3. ASSUME NEW n \in Sizes, WalkOver(n)
        PROVE  WalkOver(n)'
    BY <2>1, <2>2, <2>3 DEF WalkOver
  <2> QED
    BY <1>1, <2>2, <2>3 DEF WalkInv
<1>3. CASE RecomputeLeaf
  <2>1. Enter(leaf, inc.leaf_index, inc.leaf_count, inc.audit_path)
    BY <1>3 DEF RecomputeLeaf
  <2>2. loop' \in {"for", "while", "ended"}
    BY <2>1 DEF Enter, Return
  <2> QED
    BY <1>1, <2>1, <2>2, WalkStart DEF WalkInv
<1>4. CASE AuditPath
  <2>1. PathStep
    BY <1>4 DEF AuditPath
  <2>2. loop' \in {"for", "while", "ended"}
    BY <2>1 DEF PathStep, Element, Shift, PathEnds, Return
  <2>3. ASSUME inc.leaf_count \in Sizes
        PROVE  WalkOver(inc.leaf_count)'
    <3>1. WalkOver(inc.leaf_count)
      BY <2>3 DEF WalkInv
    <3> QED
      BY <1>1, <2>1, <2>3, <3>1, WalkElement, WalkShift, WalkEnds DEF PathStep
  <2> QED
    BY <1>1, <2>2, <2>3 DEF WalkInv
<1> QED
  BY <1>2, <1>3, <1>4, Frames

-----------------------------------------------------------------------------
LEMMA PhaseNext ==
  ASSUME PhaseInv, [Next]_vars
  PROVE  PhaseInv'
<1>0. Null \notin {"pass", "fail", "skip"}
  BY AnchorAssumption
<1>1. CASE CanonicalHash \/ NodeMoves \/ UNCHANGED vars
  BY <1>1 DEF CanonicalHash, NodeMoves, vars, pathVars, PhaseInv, Asking
<1>2. CASE OtsHeader
  BY <1>0, <1>2 DEF OtsHeader, pathVars, PhaseInv, Asking
<1>3. CASE AskNode
  <2>1. UNCHANGED <<loop, ots, inclusion>> /\ pc \in Asking /\ pc' \in Asking \cup {Answering}
    BY <1>3 DEF AskNode, Parse, Probe, GetBlockHash, GetBlockHeader, AllAsked, RpcFrame, pathVars, Asking
  <2> QED
    BY <2>1 DEF PhaseInv, Asking, Answering
<1>4. CASE OtsAnswer
  BY <1>0, <1>4 DEF OtsAnswer, pathVars, PhaseInv, Asking, Status
<1>5. CASE CheckInclusion
  <2>1. CASE NotPresent \/ Refuse \/ NoPayload \/ NoReceipt \/ Unasked \/ Answer
    BY <2>1 DEF NotPresent, Refuse, NoPayload, NoReceipt, Unasked, Answer, Done, InclusionFrame,
                pathVars, PhaseInv, Asking
  <2>2. CASE RecomputeLeaf
    BY <2>2 DEF RecomputeLeaf, Enter, Return, InclusionFrame, PhaseInv, Asking
  <2>3. CASE AuditPath
    BY <2>3 DEF AuditPath, PathStep, Element, Shift, PathEnds, Return, InclusionFrame, PhaseInv, Asking
  <2>4. CASE AnchorPayload \/ CheckReceipt
    BY <2>4 DEF AnchorPayload, CheckReceipt, InclusionFrame, pathVars, PhaseInv, Asking
  <2> QED
    BY <1>5, <2>1, <2>2, <2>3, <2>4 DEF CheckInclusion
<1> QED
  BY <1>1, <1>2, <1>3, <1>4, <1>5 DEF Next, Verify

-----------------------------------------------------------------------------
(* What has been settled, once the audit path is judged and once the receipt *)
(* is, about a proof nothing speaks against so far.                         *)
LeafSettled == inc.proof_id = pkg.proof_id /\ (failures = {} => pkg.eidas_payload.proof_id \in {Null, inc.proof_id})
PathSettled == failures = {} => r # Null /\ r = inc.merkle_root /\ CommitsRoot /\ PayloadShipped
ReceiptSettled == failures = {} /\ reasons = {} => pkg.eidas_ok /\ Receipt # Null /\ Receipt.digest = Sha(ap)
LeafInv ==
  /\ loop # "idle" => LeafSettled
  /\ loop = "ended" /\ pc \in {"receipt", "unasked", "answer"} \cup Asking => PathSettled
  /\ loop = "ended" /\ pc \in {"unasked", "answer"} \cup Asking => ReceiptSettled
  /\ VerifiedMeansLeaf

LEMMA Conclusion ==
  ASSUME WalkInv, loop = "ended", LeafSettled, PathSettled, ReceiptSettled, failures = {}, reasons = {}
  PROVE  /\ pkg.eidas_ok /\ Receipt.digest = Sha(ap) /\ PayloadShipped
         /\ pkg.eidas_payload.proof_id \in {Null, pkg.proof_id}
         /\ \A n \in Sizes : OfTree(ap, n) =>
              Leaf(n, inc.leaf_index) = LeafHash(anchor_leaf_v3(pkg.proof_id, Sha(pkg.eidas_payload)))
<1>1. inc.proof_id = pkg.proof_id /\ r # Null /\ r = inc.merkle_root /\ CommitsRoot
  BY DEF LeafSettled, PathSettled
<1>2. ASSUME NEW n \in Sizes, OfTree(ap, n)
      PROVE  Leaf(n, inc.leaf_index) = LeafHash(anchor_leaf_v3(pkg.proof_id, Sha(pkg.eidas_payload)))
  <2>1. inc.leaf_count = n /\ r = Root(n)
    BY <1>1, <1>2 DEF OfTree, CommitsRoot
  <2>2. AtLeaf(n)
    BY <1>1, <2>1 DEF WalkInv, WalkOver
  <2> QED
    BY <1>1, <2>2 DEF AtLeaf, leaf
<1> QED
  BY <1>1, <1>2 DEF LeafSettled, PathSettled, ReceiptSettled

LEMMA LeafNext ==
  ASSUME PhaseInv, WalkInv, LeafInv, [Next]_vars
  PROVE  LeafInv'
<1>1. given' = given /\ pkg' = pkg /\ inc' = inc /\ ap' = ap /\ Receipt' = Receipt /\ PayloadShipped' = PayloadShipped
      /\ CommitsRoot' = CommitsRoot
  BY Frames DEF pkg, inc, ap, Receipt, PayloadShipped, CommitsRoot
<1>2. Null # "verified"
  BY AnchorAssumption
<1>3. ASSUME UNCHANGED <<pathVars, failures, reasons, inclusion>>,
             loop = "idle" \/ pc \in {"answer"} \cup Asking
      PROVE  LeafInv'
  <2>1. VerifiedMeansLeaf'
    BY <1>1, <1>3 DEF LeafInv, VerifiedMeansLeaf
  <2>2. loop' = loop /\ LeafSettled' = LeafSettled /\ PathSettled' = PathSettled /\ ReceiptSettled' = ReceiptSettled
    BY <1>1, <1>3 DEF LeafSettled, PathSettled, ReceiptSettled, pathVars
  <2> QED
    BY <1>3, <2>1, <2>2 DEF LeafInv
<1>4. CASE CanonicalHash \/ OtsHeader \/ OtsAnswer
  BY <1>3, <1>4 DEF CanonicalHash, OtsHeader, OtsAnswer, PhaseInv
<1>5. CASE AskNode
  <2>1. UNCHANGED <<pathVars, failures, reasons, inclusion>> /\ pc \in Asking /\ pc' \in Asking \cup {Answering}
    BY <1>5 DEF AskNode, Parse, Probe, GetBlockHash, GetBlockHeader, AllAsked, RpcFrame, Asking
  <2> QED
    BY <1>3, <2>1 DEF PhaseInv, Asking, Answering
<1>6. CASE NodeMoves \/ UNCHANGED vars
  BY <1>1, <1>6 DEF NodeMoves, vars, pathVars, LeafInv, LeafSettled, PathSettled, ReceiptSettled, VerifiedMeansLeaf
<1>7. CASE NotPresent \/ Refuse
  BY <1>1, <1>2, <1>7 DEF NotPresent, Refuse, Done, Result, pathVars, PhaseInv, LeafInv, VerifiedMeansLeaf, InclusionFrame
<1>8. CASE RecomputeLeaf
  <2>1. pc' = "path" /\ UNCHANGED inclusion /\ failures' = LeafFaults /\ Usable /\ inclusion.result = Null
    BY <1>8 DEF RecomputeLeaf, PhaseInv
  <2>2. LeafSettled'
    BY <1>1, <2>1 DEF LeafSettled, LeafFaults, If, Usable
  <2> QED
    BY <1>2, <2>1, <2>2 DEF LeafInv, VerifiedMeansLeaf, Asking
<1>9. CASE AuditPath
  <2>1. UNCHANGED <<pc, failures, reasons, inclusion>> /\ pc = "path" /\ loop # "idle" /\ inclusion.result = Null
    BY <1>9 DEF AuditPath, PhaseInv
  <2> QED
    BY <1>1, <1>2, <2>1 DEF LeafInv, LeafSettled, VerifiedMeansLeaf, Asking
<1>10. CASE NoPayload \/ NoReceipt
  <2>1. failures' # {} /\ pc' = "done" /\ inclusion'.result = "failed" /\ UNCHANGED pathVars /\ loop # "idle"
    BY <1>10 DEF NoPayload, NoReceipt, Done, Result, PhaseInv
  <2> QED
    BY <1>1, <2>1 DEF LeafInv, LeafSettled, VerifiedMeansLeaf, Asking, pathVars
<1>11. CASE AnchorPayload
  <2>1. /\ pc' = "receipt" /\ UNCHANGED <<inclusion, pathVars>> /\ loop = "ended" /\ inclusion.result = Null
        /\ failures' = {} => failures = {} /\ r # Null /\ r = inc.merkle_root /\ CommitsRoot /\ PayloadShipped
    BY <1>11 DEF AnchorPayload, PhaseInv, PathFaults, If
  <2>2. LeafSettled' /\ PathSettled'
    BY <1>1, <2>1 DEF LeafInv, LeafSettled, PathSettled, pathVars
  <2> QED
    BY <1>2, <2>1, <2>2 DEF LeafInv, VerifiedMeansLeaf, Asking, pathVars
<1>12. CASE CheckReceipt
  <2>1. /\ pc' \in {"unasked", "parse"} /\ UNCHANGED <<inclusion, pathVars>> /\ loop = "ended" /\ inclusion.result = Null
        /\ failures' = {} => failures = {} /\ _receipt_state # "mismatch"
        /\ reasons' = {} => _receipt_state \in {"commits", "mismatch"} /\ pkg.eidas_ok
        /\ Receipt # Null
    BY <1>12 DEF CheckReceipt, PhaseInv, ReceiptFaults, If
  <2>2. _receipt_state = "commits" => Receipt.digest = Sha(ap)
    BY DEF _receipt_state
  <2>3. LeafSettled' /\ PathSettled'
    BY <1>1, <1>12, <2>1 DEF LeafInv, LeafSettled, PathSettled, pathVars, CheckReceipt
  <2>4. ReceiptSettled'
    BY <1>1, <2>1, <2>2 DEF ReceiptSettled
  <2> QED
    BY <1>2, <2>1, <2>3, <2>4 DEF LeafInv, VerifiedMeansLeaf, Asking, pathVars
<1>13. CASE Unasked \/ Answer
  <2>1. /\ pc' = "done" /\ UNCHANGED pathVars /\ loop = "ended"
        /\ failures' = {} => failures = {}
        /\ inclusion'.result = "verified" => failures = {} /\ reasons = {}
    BY <1>13 DEF Unasked, Answer, Done, Result, PhaseInv, If
  <2>2. LeafSettled /\ PathSettled /\ ReceiptSettled
    BY <1>13, <2>1 DEF LeafInv, Unasked, Answer
  <2>3. VerifiedMeansLeaf'
    BY <1>1, <2>1, <2>2, Conclusion DEF VerifiedMeansLeaf
  <2> QED
    BY <1>1, <2>1, <2>2, <2>3 DEF LeafInv, LeafSettled, Asking, pathVars
<1> QED
  BY <1>4, <1>5, <1>6, <1>7, <1>8, <1>9, <1>10, <1>11, <1>12, <1>13 DEF Next, Verify, CheckInclusion

(* Where the inclusion proof is called verified, the stamped payload is the  *)
(* leaf of the committed tree at the index that is reported.                *)
THEOREM LeafSound == Spec => []VerifiedMeansLeaf
<1>1. Init => PhaseInv /\ WalkInv /\ LeafInv
  BY AnchorAssumption DEF Init, PathInit, PhaseInv, WalkInv, WalkOver, LeafInv, VerifiedMeansLeaf, Asking
<1>2. PhaseInv /\ WalkInv /\ LeafInv /\ [Next]_vars => (PhaseInv /\ WalkInv /\ LeafInv)'
  BY PhaseNext, WalkNext, LeafNext
<1>3. PhaseInv /\ WalkInv /\ LeafInv => VerifiedMeansLeaf
  BY DEF LeafInv
<1> QED
  BY <1>1, <1>2, <1>3, PTL DEF Spec

-----------------------------------------------------------------------------
(* The node, and what the calls to it have shown.                           *)
NodeInv ==
  /\ node = [chain |-> node.chain, up |-> node.up, mined |-> node.mined, moves |-> node.moves]
  /\ node.chain \in Seq(Blocks) /\ MinedIn(node.chain) \subseteq node.mined
MinedAt(receipt, j) ==
  \E b \in Blocks :
    /\ <<receipt.attestations[j].height, b>> \in node.mined
    /\ HeaderRoot[b] = Commit(receipt.digest, receipt.attestations[j].path)
AskedFits ==
  /\ pkg.bitcoin_rpc
  /\ loop = "idle" => OtsReceipt # Null /\ pkg.anchor_sha256 \in {Null, OtsReceipt.digest}
  /\ loop = "ended" => \E f \in PayloadFiles : Receipt = pkg.receipts[f] /\ Receipt # Null /\ Receipt.digest = Sha(ap)
AskedLen == Len(Asked.attestations) \in Nat
ShownBefore(k) == ~rpc.errors => rpc.verified = k - 1 /\ \A j \in 1..k-1 : MinedAt(Asked, j)
AskInv ==
  /\ given \in DOMAIN Packages
  /\ rpc = [k |-> rpc.k, block |-> rpc.block, verified |-> rpc.verified, errors |-> rpc.errors]
  /\ pc \in {"ots_answer", "answer"} \cup Asking => AskedFits
  /\ pc \in {"probe", "hash", "header"} => Found /\ rpc.k \in Nat \ {0}
  /\ pc = "probe" => rpc.k = 1 /\ rpc.verified = 0
  /\ pc \in {"hash", "header"} => rpc.k <= Len(Asked.attestations) + 1 /\ ShownBefore(rpc.k)
  /\ pc = "header" => /\ rpc.k <= Len(Asked.attestations) /\ rpc.block \in Blocks
                      /\ <<attestation.height, rpc.block>> \in node.mined
  /\ pc \in {"ots_answer", "answer"} /\ Found => ShownBefore(Len(Asked.attestations) + 1)

LEMMA AskedLength ==
  ASSUME PhaseInv, AskInv, pc \in {"ots_answer", "answer"} \cup Asking
  PROVE  /\ Asked # Null /\ Len(Asked.attestations) \in Nat
         /\ Asked.attestations # <<>> => Len(Asked.attestations) # 0
<1>1. AskedFits
  BY DEF AskInv
<1>2. \E f \in PayloadFiles : Asked = pkg.receipts[f] /\ Asked # Null
  BY <1>1 DEF PhaseInv, AskedFits, Asked, OtsReceipt, PayloadFiles, Asking
<1> QED
  BY <1>2, AnchorAssumption DEF pkg, AskInv

LEMMA NodeNext ==
  ASSUME NodeInv, [Next]_vars
  PROVE  NodeInv' /\ node.mined \subseteq node'.mined
<1>1. CASE NodeMoves
  <2>1. PICK c \in Chains, up \in BOOLEAN :
          node' = [chain |-> c, up |-> up, mined |-> node.mined \cup MinedIn(c), moves |-> node.moves - 1]
    BY <1>1 DEF NodeMoves
  <2> QED
    BY <2>1, AnchorAssumption DEF NodeInv, MinedIn
<1>2. CASE ~NodeMoves
  <2>1. node' = node
    BY <1>2 DEF Next, Verify, vars, CanonicalHash, OtsHeader, OtsAnswer, AskNode, Parse, Probe, GetBlockHash,
                GetBlockHeader, AllAsked, RpcFrame, CheckInclusion, NotPresent, Refuse, RecomputeLeaf, AuditPath,
                NoPayload, AnchorPayload, NoReceipt, CheckReceipt, Unasked, Answer, InclusionFrame
  <2> QED
    BY <2>1 DEF NodeInv, MinedIn
<1> QED
  BY <1>1, <1>2

(* What was shown stays shown.                                              *)
LEMMA ShownStays ==
  ASSUME given' = given, (ots.status = Null) <=> (ots'.status = Null), node.mined \subseteq node'.mined
  PROVE  Asked' = Asked /\ \A j : MinedAt(Asked, j) => MinedAt(Asked, j)'
<1>1. Asked' = Asked
  BY DEF Asked, OtsReceipt, Receipt, inc, pkg
<1> QED
  BY <1>1 DEF MinedAt

LEMMA AskNodeNext ==
  ASSUME PhaseInv, NodeInv, AskInv, AskNode
  PROVE  AskInv'
<1>1. UNCHANGED <<given, node, ots, failures, loop>> /\ pc \in Asking
  BY DEF AskNode, Parse, Probe, GetBlockHash, GetBlockHeader, AllAsked, RpcFrame, pathVars, Asking
<1>2. /\ Asked' = Asked /\ pkg' = pkg /\ (Found <=> Found') /\ Answering' = Answering
      /\ \A j : MinedAt(Asked, j) => MinedAt(Asked, j)'
  BY <1>1, ShownStays DEF Found, Asked, pkg, OtsReceipt, Receipt, inc, Answering
<1>3. AskedFits /\ AskedFits'
  BY <1>1, <1>2 DEF AskInv, AskedFits, pkg, OtsReceipt, Receipt, inc, ap
<1>4. Asked # Null /\ Len(Asked.attestations) \in Nat
  BY <1>1, AskedLength
<1>5. given' \in DOMAIN Packages
  BY <1>1 DEF AskInv
<1>6. Answering \in {"ots_answer", "answer"}
  BY DEF Answering
<1>7. CASE Parse
  <2>1. /\ pc' = IF Found THEN "probe" ELSE Answering
        /\ rpc' = [k |-> 1, block |-> Null, verified |-> 0, errors |-> ~pkg.deps \/ ~Asked.parses]
    BY <1>7 DEF Parse
  <2> QED
    BY <1>2, <1>3, <1>5, <1>6, <2>1 DEF AskInv
<1>8. CASE Probe
  <2>1. /\ pc' = (IF node.up THEN "hash" ELSE Answering) /\ rpc' = [rpc EXCEPT !.errors = ~node.up]
        /\ rpc.k = 1 /\ rpc.verified = 0 /\ Found
    BY <1>8 DEF Probe, AskInv
  <2>2. /\ rpc'.k = 1 /\ rpc'.verified = 0 /\ rpc'.errors = ~node.up
        /\ rpc' = [k |-> rpc'.k, block |-> rpc'.block, verified |-> rpc'.verified, errors |-> rpc'.errors]
    BY <2>1 DEF AskInv
  <2>3. CASE node.up
    BY <1>2, <1>3, <1>4, <1>5, <2>1, <2>2, <2>3 DEF AskInv, ShownBefore
  <2>4. CASE ~node.up
    BY <1>2, <1>3, <1>4, <1>5, <1>6, <2>1, <2>2, <2>4 DEF AskInv, ShownBefore
  <2> QED
    BY <2>3, <2>4
<1>9. CASE GetBlockHash
  <2>1. Found /\ rpc.k \in Nat \ {0} /\ ShownBefore(rpc.k) /\ rpc.k <= Len(Asked.attestations)
    BY <1>9 DEF GetBlockHash, AskInv
  <2>2. CASE node.up /\ attestation.height \in 1..Len(node.chain)
    <3>1. pc' = "header" /\ rpc' = [rpc EXCEPT !.block = node.chain[attestation.height]]
      BY <1>9, <2>2 DEF GetBlockHash
    <3>2. /\ rpc'.k = rpc.k /\ rpc'.verified = rpc.verified /\ rpc'.errors = rpc.errors
          /\ rpc'.block = node.chain[attestation.height]
          /\ rpc' = [k |-> rpc'.k, block |-> rpc'.block, verified |-> rpc'.verified, errors |-> rpc'.errors]
      BY <3>1 DEF AskInv
    <3>3. node.chain[attestation.height] \in Blocks
          /\ <<attestation.height, node.chain[attestation.height]>> \in node.mined
      BY <2>2 DEF NodeInv, MinedIn
    <3>4. attestation' = attestation
      BY <1>2, <3>2 DEF attestation
    <3>5. ShownBefore(rpc.k)'
      BY <1>2, <2>1, <3>2 DEF ShownBefore
    <3> QED
      BY <1>1, <1>2, <1>3, <1>4, <1>5, <2>1, <3>1, <3>2, <3>3, <3>4, <3>5 DEF AskInv, ShownBefore
  <2>3. CASE ~(node.up /\ attestation.height \in 1..Len(node.chain))
    <3>1. pc' = "hash" /\ NextAttestation(0, TRUE)
      BY <1>9, <2>3 DEF GetBlockHash
    <3>2. /\ rpc'.k = rpc.k + 1 /\ rpc'.errors = TRUE
          /\ rpc' = [k |-> rpc'.k, block |-> rpc'.block, verified |-> rpc'.verified, errors |-> rpc'.errors]
      BY <3>1 DEF AskInv, NextAttestation
    <3> QED
      BY <1>2, <1>3, <1>4, <1>5, <2>1, <3>1, <3>2 DEF AskInv, ShownBefore
  <2> QED
    BY <2>2, <2>3
<1>10. CASE GetBlockHeader
  <2>1. /\ Found /\ rpc.k \in Nat \ {0} /\ ShownBefore(rpc.k) /\ rpc.k <= Len(Asked.attestations)
        /\ rpc.block \in Blocks /\ <<attestation.height, rpc.block>> \in node.mined /\ pc' = "hash"
    BY <1>10 DEF GetBlockHeader, AskInv
  <2>2. CASE node.up /\ Matches
    <3>1. NextAttestation(1, FALSE)
      BY <1>10, <2>2 DEF GetBlockHeader
    <3>2. /\ rpc'.k = rpc.k + 1 /\ rpc'.verified = rpc.verified + 1 /\ (rpc.errors => rpc'.errors)
          /\ rpc' = [k |-> rpc'.k, block |-> rpc'.block, verified |-> rpc'.verified, errors |-> rpc'.errors]
      BY <3>1 DEF AskInv, NextAttestation
    <3>3. MinedAt(Asked, rpc.k)
      BY <2>1, <2>2 DEF Matches, MinedAt, attestation
    <3>4. ASSUME ~rpc'.errors
          PROVE  rpc'.verified = rpc'.k - 1 /\ \A j \in 1..rpc'.k-1 : MinedAt(Asked, j)'
      BY <1>2, <2>1, <3>2, <3>3, <3>4 DEF ShownBefore
    <3> QED
      BY <1>2, <1>3, <1>4, <1>5, <2>1, <3>2, <3>4 DEF AskInv, ShownBefore
  <2>3. CASE ~(node.up /\ Matches)
    <3>1. NextAttestation(0, TRUE)
      BY <1>10, <2>3 DEF GetBlockHeader
    <3>2. /\ rpc'.k = rpc.k + 1 /\ rpc'.errors = TRUE
          /\ rpc' = [k |-> rpc'.k, block |-> rpc'.block, verified |-> rpc'.verified, errors |-> rpc'.errors]
      BY <3>1 DEF AskInv, NextAttestation
    <3> QED
      BY <1>2, <1>3, <1>4, <1>5, <2>1, <3>1, <3>2 DEF AskInv, ShownBefore
  <2> QED
    BY <2>2, <2>3
<1>11. CASE AllAsked
  <2>1. pc' = Answering /\ rpc' = rpc /\ rpc.k = Len(Asked.attestations) + 1 /\ ShownBefore(rpc.k)
    BY <1>4, <1>11 DEF AllAsked, AskInv
  <2>2. ShownBefore(rpc.k)'
    BY <1>2, <2>1 DEF ShownBefore
  <2> QED
    BY <1>2, <1>3, <1>5, <1>6, <2>1, <2>2 DEF AskInv
<1> QED
  BY <1>7, <1>8, <1>9, <1>10, <1>11 DEF AskNode

LEMMA AskNext ==
  ASSUME PhaseInv, NodeInv, AskInv, [Next]_vars
  PROVE  AskInv'
<1>1. given' = given /\ pkg' = pkg /\ inc' = inc /\ Receipt' = Receipt /\ OtsReceipt' = OtsReceipt /\ ap' = ap
  BY Frames DEF pkg, inc, Receipt, OtsReceipt, ap
<1>2. ASSUME rpc' = rpc, pc' \notin {"ots_answer", "answer"} \cup Asking
      PROVE  AskInv'
  BY <1>1, <1>2 DEF AskInv, Asking
<1>3. CASE AskNode
  BY <1>3, AskNodeNext
<1>4. CASE CanonicalHash \/ OtsAnswer
  BY <1>2, <1>4 DEF CanonicalHash, OtsAnswer, Asking
<1>5. CASE OtsHeader
  <2>1. rpc' = rpc /\ loop' = loop /\ loop = "idle" /\ pc' \in {"parse", "inclusion"}
    BY <1>5 DEF OtsHeader, PhaseInv, pathVars
  <2>2. pc' = "parse" => AskedFits'
    BY <1>1, <1>5, <2>1 DEF OtsHeader, AskedFits, OtsFault
  <2> QED
    BY <1>1, <2>1, <2>2 DEF AskInv, Asking
<1>6. CASE CheckReceipt
  <2>1. rpc' = rpc /\ loop' = loop /\ loop = "ended" /\ pc' \in {"parse", "unasked"} /\ Receipt # Null
    BY <1>6 DEF CheckReceipt, PhaseInv, pathVars, InclusionFrame
  <2>2. \E f \in PayloadFiles : Receipt = pkg.receipts[f]
    BY <2>1 DEF Receipt
  <2>3. pc' = "parse" => AskedFits'
    BY <1>1, <1>6, <2>1, <2>2 DEF CheckReceipt, AskedFits, _receipt_state
  <2> QED
    BY <1>1, <2>1, <2>3 DEF AskInv, Asking
<1>7. CASE NotPresent \/ Refuse \/ NoPayload \/ NoReceipt \/ Unasked \/ Answer \/ RecomputeLeaf \/ AnchorPayload
           \/ AuditPath
  BY <1>2, <1>7 DEF NotPresent, Refuse, NoPayload, NoReceipt, Unasked, Answer, RecomputeLeaf, AnchorPayload, AuditPath,
                    Done, InclusionFrame, Asking
<1>8. CASE NodeMoves \/ UNCHANGED vars
  <2>1. UNCHANGED <<pc, rpc, ots, loop>> /\ node.mined \subseteq node'.mined
    BY <1>8, NodeNext DEF NodeMoves, vars, pathVars
  <2>2. /\ Asked' = Asked /\ (Found <=> Found') /\ AskedFits' = AskedFits /\ attestation' = attestation
        /\ \A j : MinedAt(Asked, j) => MinedAt(Asked, j)'
    BY <1>1, <2>1, ShownStays DEF Found, AskedFits, attestation, Asked
  <2>3. \A k : ShownBefore(k) => ShownBefore(k)'
    BY <2>1, <2>2 DEF ShownBefore
  <2> QED
    BY <1>1, <2>1, <2>2, <2>3 DEF AskInv, ShownBefore
<1> QED
  BY <1>3, <1>4, <1>5, <1>6, <1>7, <1>8 DEF Next, Verify, CheckInclusion

-----------------------------------------------------------------------------
(* From the calls to the two answers.                                       *)
UnaskedInv == pc = "unasked" /\ pkg.bitcoin_rpc => failures # {} \/ reasons # {}
AnswerInv == UnaskedInv /\ ConfirmedMeansMined /\ AttestedNeverPending

LEMMA Outcome ==
  ASSUME PhaseInv, AskInv, pc \in {"ots_answer", "answer"}
  PROVE  /\ BitcoinResult = "node_confirmed" => Mined(Asked)
         /\ Attested(Asked) => BitcoinResult \in {"node_confirmed", "node_failed"}
<1>1. /\ Len(Asked.attestations) \in Nat /\ Asked # Null
      /\ Asked.attestations # <<>> => Len(Asked.attestations) # 0
  BY AskedLength
<1>2. Found => ShownBefore(Len(Asked.attestations) + 1)
  BY DEF AskInv
<1>3. Found /\ ~rpc.errors => rpc.verified = Len(Asked.attestations) /\ \A j \in 1..Len(Asked.attestations) : MinedAt(Asked, j)
  BY <1>1, <1>2 DEF ShownBefore
<1>4. BitcoinResult = "node_confirmed" => Found /\ ~rpc.errors
  BY DEF BitcoinResult, Pending
<1>5. BitcoinResult = "node_confirmed" => Mined(Asked)
  BY <1>3, <1>4 DEF Mined, MinedAt, Found
<1>6. ASSUME Attested(Asked)
      PROVE  BitcoinResult \in {"node_confirmed", "node_failed"}
  <2>1. Found
    BY <1>6 DEF Attested, Found
  <2>2. CASE rpc.errors
    BY <2>1, <2>2 DEF BitcoinResult
  <2>3. CASE ~rpc.errors
    BY <1>1, <1>3, <2>1, <2>3 DEF BitcoinResult, Found
  <2> QED
    BY <2>2, <2>3
<1> QED
  BY <1>5, <1>6

LEMMA MinedStays ==
  ASSUME NEW receipt, Mined(receipt), node.mined \subseteq node'.mined
  PROVE  /\ receipt.attestations # <<>>
         /\ \A k \in 1..Len(receipt.attestations) : \E b \in Blocks :
              /\ <<receipt.attestations[k].height, b>> \in node'.mined
              /\ HeaderRoot[b] = Commit(receipt.digest, receipt.attestations[k].path)
BY DEF Mined

LEMMA AnswerNext ==
  ASSUME PhaseInv, NodeInv, AskInv, AnswerInv, [Next]_vars
  PROVE  AnswerInv'
<1>1. /\ given' = given /\ pkg' = pkg /\ inc' = inc /\ Receipt' = Receipt /\ OtsReceipt' = OtsReceipt /\ ap' = ap
      /\ Attested(Receipt)' = Attested(Receipt) /\ Attested(OtsReceipt)' = Attested(OtsReceipt)
      /\ node.mined \subseteq node'.mined
  BY Frames, NodeNext DEF pkg, inc, Receipt, OtsReceipt, ap, Attested
<1>2. (Mined(Receipt) => Mined(Receipt)') /\ (Mined(OtsReceipt) => Mined(OtsReceipt)')
  BY <1>1, MinedStays DEF Mined
<1>3. Null \notin {"pass", "fail", "skip", "verified", "node_confirmed"}
  BY AnchorAssumption
<1>4. ASSUME ots' = ots, inclusion' = inclusion
      PROVE  ConfirmedMeansMined' /\ AttestedNeverPending'
  BY <1>1, <1>2, <1>4 DEF AnswerInv, ConfirmedMeansMined, AttestedNeverPending
<1>5. ASSUME ots' = ots, inclusion'.bitcoin = Null, inclusion'.result = "verified" => ~Attested(Receipt)
      PROVE  ConfirmedMeansMined' /\ AttestedNeverPending'
  BY <1>1, <1>2, <1>3, <1>5 DEF AnswerInv, ConfirmedMeansMined, AttestedNeverPending
<1>6. CASE CanonicalHash \/ AskNode \/ NodeMoves \/ RecomputeLeaf \/ AuditPath \/ AnchorPayload \/ UNCHANGED vars
  <2>1. ots' = ots /\ inclusion' = inclusion
    BY <1>6 DEF CanonicalHash, AskNode, Parse, Probe, GetBlockHash, GetBlockHeader, AllAsked, RpcFrame, NodeMoves,
                RecomputeLeaf, AuditPath, AnchorPayload, InclusionFrame, vars
  <2>2. UnaskedInv'
    BY <1>1, <1>6 DEF AnswerInv, UnaskedInv, CanonicalHash, AskNode, Parse, Probe, GetBlockHash, GetBlockHeader, AllAsked,
                RpcFrame, NodeMoves, RecomputeLeaf, AuditPath, AnchorPayload, vars, Answering
  <2> QED
    BY <1>4, <2>1, <2>2 DEF AnswerInv
<1>7. CASE OtsHeader
  <2>1. /\ pc' # "unasked" /\ inclusion' = inclusion /\ ots.bitcoin = Null /\ ots'.bitcoin = Null
        /\ ots'.status = "pass" => ~pkg.bitcoin_rpc
        /\ inclusion.result = Null /\ inclusion.bitcoin = Null
    BY <1>3, <1>7 DEF OtsHeader, PhaseInv
  <2> QED
    BY <1>1, <1>3, <2>1 DEF AnswerInv, UnaskedInv, ConfirmedMeansMined, AttestedNeverPending, Attested
<1>8. CASE OtsAnswer
  <2>1. /\ pc = "ots_answer" /\ pc' = "inclusion" /\ inclusion' = inclusion /\ Asked = OtsReceipt /\ loop = "idle"
        /\ ots'.bitcoin = BitcoinResult /\ ots'.status = Status(BitcoinResult # "node_failed")
        /\ inclusion.result = Null /\ inclusion.bitcoin = Null
    BY <1>8 DEF OtsAnswer, PhaseInv, Asked
  <2>2. pkg.anchor_sha256 \in {Null, OtsReceipt.digest}
    BY <2>1 DEF AskInv, AskedFits
  <2>3. ConfirmedMeansMined'
    BY <1>1, <1>2, <1>3, <2>1, <2>2, Outcome DEF ConfirmedMeansMined
  <2>4. AttestedNeverPending'
    BY <1>1, <1>3, <2>1, Outcome DEF AttestedNeverPending, Status
  <2> QED
    BY <2>1, <2>3, <2>4 DEF AnswerInv, UnaskedInv
<1>9. CASE NotPresent \/ Refuse \/ NoPayload \/ NoReceipt
  <2>1. ots' = ots /\ inclusion'.bitcoin = Null /\ inclusion'.result # "verified" /\ pc' = "done"
    BY <1>9 DEF NotPresent, Refuse, NoPayload, NoReceipt, Done, Result, InclusionFrame
  <2> QED
    BY <1>5, <2>1 DEF AnswerInv, UnaskedInv
<1>10. CASE CheckReceipt
  <2>1. ots' = ots /\ inclusion' = inclusion
    BY <1>10 DEF CheckReceipt, InclusionFrame
  <2>2. UnaskedInv'
    <3>1. /\ pc' = "unasked" /\ pkg.bitcoin_rpc => ReceiptFaults # {} \/ _receipt_state # "commits"
          /\ failures' = ReceiptFaults
          /\ reasons' = If(_receipt_state \notin {"commits", "mismatch"}, _receipt_state)
                        \cup If(~pkg.eidas_ok, "eidas_timestamp_not_verified")
      BY <1>10 DEF CheckReceipt
    <3>2. _receipt_state = "mismatch" => ReceiptFaults # {}
      BY DEF ReceiptFaults, If
    <3>3. _receipt_state \notin {"commits", "mismatch"} => reasons' # {}
      BY <3>1 DEF If
    <3> QED
      BY <1>1, <3>1, <3>2, <3>3 DEF UnaskedInv
  <2> QED
    BY <1>4, <2>1, <2>2 DEF AnswerInv
<1>11. CASE Unasked
  <2>1. /\ pc = "unasked" /\ pc' = "done" /\ ots' = ots /\ inclusion'.bitcoin = Null
        /\ inclusion'.result = "verified" => failures = {} /\ reasons = {}
    BY <1>11 DEF Unasked, Done, Result, InclusionFrame
  <2>2. inclusion'.result = "verified" => ~Attested(Receipt)
    BY <2>1 DEF AnswerInv, UnaskedInv, Attested
  <2> QED
    BY <1>5, <2>1, <2>2 DEF AnswerInv, UnaskedInv
<1>12. CASE Answer
  <2>1. /\ pc = "answer" /\ pc' = "done" /\ ots' = ots /\ Asked = Receipt /\ loop = "ended"
        /\ inclusion'.bitcoin = BitcoinResult
        /\ inclusion'.result = "verified" => BitcoinResult # "node_failed"
    BY <1>12 DEF Answer, Done, Result, InclusionFrame, PhaseInv, Asked, If
  <2>2. Receipt.digest = Sha(ap)
    BY <2>1 DEF AskInv, AskedFits
  <2>3. ConfirmedMeansMined'
    BY <1>1, <1>2, <2>1, <2>2, Outcome DEF ConfirmedMeansMined, AnswerInv
  <2>4. AttestedNeverPending'
    BY <1>1, <2>1, Outcome DEF AttestedNeverPending, AnswerInv
  <2> QED
    BY <2>1, <2>3, <2>4 DEF AnswerInv, UnaskedInv
<1> QED
  BY <1>6, <1>7, <1>8, <1>9, <1>10, <1>11, <1>12 DEF Next, Verify, CheckInclusion

AskingInv == PhaseInv /\ NodeInv /\ AskInv /\ AnswerInv
LEMMA AskingInvariant ==
  Spec => []AskingInv
<1>1. Init => AskingInv
  <2> SUFFICES ASSUME Init PROVE AskingInv
    OBVIOUS
  <2>1. PhaseInv /\ AnswerInv /\ AskInv
    BY AnchorAssumption DEF Init, PathInit, PhaseInv, AnswerInv, UnaskedInv, ConfirmedMeansMined,
                            AttestedNeverPending, AskInv, Asking
  <2>2. PICK c \in Chains \cup {<<>>}, up \in BOOLEAN :
          node = [chain |-> c, up |-> up, mined |-> MinedIn(c),
                  moves |-> IF pkg.bitcoin_rpc THEN MaxMoves ELSE 0]
    BY DEF Init
  <2>3. NodeInv
    <3>1. c \in Seq(Blocks)
      <4>1. <<>> \in Seq(Blocks)
        OBVIOUS
      <4>2. \A d \in Chains : d \in Seq(Blocks)
        BY AnchorAssumption
      <4> QED
        BY <4>1, <4>2
    <3>2. node.chain = c /\ node.mined = MinedIn(c)
      BY <2>2
    <3> QED
      BY <2>2, <3>1, <3>2 DEF NodeInv
  <2> QED
    BY <2>1, <2>3 DEF AskingInv
<1>2. AskingInv /\ [Next]_vars => AskingInv'
  BY PhaseNext, NodeNext, AskNext, AnswerNext DEF AskingInv
<1> QED
  BY <1>1, <1>2, PTL DEF Spec

(* Confirmed by the node: every attestation is one of a block that was in    *)
(* the active chain, whatever the node does between the calls.              *)
THEOREM ConfirmedSound == Spec => []ConfirmedMeansMined
<1>1. AskingInv => ConfirmedMeansMined
  BY DEF AskingInv, AnswerInv
<1> QED
  BY <1>1, AskingInvariant, PTL

(* A receipt with attestations is confirmed or fails its layer.             *)
THEOREM NeverPending == Spec => []AttestedNeverPending
<1>1. AskingInv => AttestedNeverPending
  BY DEF AskingInv, AnswerInv
<1> QED
  BY <1>1, AskingInvariant, PTL

-----------------------------------------------------------------------------
(* Type correctness, in parts: the audit path, the node, the calls to it,    *)
(* and the answers.                                                         *)
PathTypeOK == fn \in Nat /\ sn \in Nat /\ fn <= sn
NodeTypeOK == node.chain \in Chains \cup {<<>>} /\ node.up \in BOOLEAN /\ node.moves \in 0..MaxMoves
RpcTypeOK ==
  /\ rpc.k \in Nat /\ rpc.block \in Blocks \cup {Null} /\ rpc.verified \in Nat /\ rpc.errors \in BOOLEAN
  /\ pc \in {"hash", "header"} => rpc.verified < rpc.k
ResultTypeOK ==
  /\ pc \in Places
  /\ canonical \in {"pass", "fail", "skip", Null} /\ ots.status \in {"pass", "fail", "skip", Null}
  /\ ots.bitcoin \in Bitcoins /\ inclusion.bitcoin \in Bitcoins
  /\ inclusion.result \in {"verified", "unverifiable", "not_present", "failed", Null}
AnchorTypes == PathTypeOK /\ NodeTypeOK /\ RpcTypeOK /\ ResultTypeOK

LEMMA PathTypeNext ==
  ASSUME PathTypeOK, [Next]_vars
  PROVE  PathTypeOK'
<1>1. CASE UNCHANGED pathVars
  BY <1>1 DEF PathTypeOK, pathVars
<1>2. CASE RecomputeLeaf
  <2>1. Enter(leaf, inc.leaf_index, inc.leaf_count, inc.audit_path)
    BY <1>2 DEF RecomputeLeaf
  <2>2. CASE UNCHANGED <<fn, sn>>
    BY <2>2 DEF PathTypeOK
  <2>3. CASE /\ inc.leaf_index \in Nat /\ inc.leaf_count \in Nat /\ inc.leaf_index < inc.leaf_count
             /\ fn' = inc.leaf_index /\ sn' = inc.leaf_count - 1
    BY <2>3 DEF PathTypeOK
  <2> QED
    BY <2>1, <2>2, <2>3 DEF Enter, Return
<1>3. CASE AuditPath
  <2>1. UNCHANGED <<fn, sn>> \/ Halve
    BY <1>3 DEF AuditPath, PathStep, Element, Shift, PathEnds, Return
  <2>2. CASE Halve
    BY <2>2 DEF PathTypeOK, Halve
  <2> QED
    BY <2>1, <2>2 DEF PathTypeOK
<1> QED
  BY <1>1, <1>2, <1>3, Frames

(* Only the node moves the node.                                            *)
LEMMA NodeFrame ==
  ASSUME [Next]_vars
  PROVE  NodeMoves \/ node' = node
BY DEF Next, Verify, vars, CanonicalHash, OtsHeader, OtsAnswer, AskNode, Parse, Probe, GetBlockHash,
       GetBlockHeader, AllAsked, RpcFrame, CheckInclusion, NotPresent, Refuse, RecomputeLeaf, AuditPath,
       NoPayload, AnchorPayload, NoReceipt, CheckReceipt, Unasked, Answer, InclusionFrame

LEMMA NodeTypeNext ==
  ASSUME NodeTypeOK, [Next]_vars
  PROVE  NodeTypeOK'
<1>1. CASE NodeMoves
  <2>1. PICK c \in Chains, up \in BOOLEAN :
          node' = [chain |-> c, up |-> up, mined |-> node.mined \cup MinedIn(c), moves |-> node.moves - 1]
    BY <1>1 DEF NodeMoves
  <2>2. node.moves > 0
    BY <1>1 DEF NodeMoves
  <2>3. node'.moves \in 0..MaxMoves
    BY <2>1, <2>2, AnchorAssumption DEF NodeTypeOK
  <2>4. node'.chain \in Chains \cup {<<>>} /\ node'.up \in BOOLEAN
    BY <2>1
  <2> QED
    BY <2>3, <2>4 DEF NodeTypeOK
<1>2. CASE node' = node
  BY <1>2 DEF NodeTypeOK
<1> QED
  BY <1>1, <1>2, NodeFrame

(* Only AskNode touches what it keeps.                                      *)
LEMMA RpcFrames ==
  ASSUME [Next]_vars
  PROVE  AskNode \/ (rpc' = rpc /\ pc' \notin {"hash", "header"}) \/ (rpc' = rpc /\ pc' = pc)
BY DEF Next, Verify, vars, CanonicalHash, OtsHeader, OtsAnswer, NodeMoves, CheckInclusion, NotPresent, Refuse,
       RecomputeLeaf, AuditPath, NoPayload, AnchorPayload, NoReceipt, CheckReceipt, Unasked, Answer, Done, InclusionFrame

LEMMA RpcTypeNext ==
  ASSUME NodeInv, AskInv, RpcTypeOK, [Next]_vars
  PROVE  RpcTypeOK'
<1>1. CASE rpc' = rpc /\ (pc' \notin {"hash", "header"} \/ pc' = pc)
  BY <1>1 DEF RpcTypeOK
<1>2. Answering \in {"ots_answer", "answer"}
  BY DEF Answering
<1>3. CASE Parse
  <2>1. /\ pc' \notin {"hash", "header"}
        /\ rpc' = [k |-> 1, block |-> Null, verified |-> 0, errors |-> ~pkg.deps \/ ~Asked.parses]
    BY <1>2, <1>3 DEF Parse
  <2> QED
    BY <2>1 DEF RpcTypeOK
<1>4. CASE Probe
  <2>1. rpc.k = 1 /\ rpc.verified = 0 /\ rpc' = [rpc EXCEPT !.errors = ~node.up]
    BY <1>4 DEF Probe, AskInv
  <2>2. rpc'.k = 1 /\ rpc'.verified = 0 /\ rpc'.errors = ~node.up /\ rpc'.block = rpc.block
    BY <2>1 DEF AskInv
  <2>3. rpc'.errors \in BOOLEAN
    BY <2>2, Zenon
  <2> QED
    BY <2>2, <2>3 DEF RpcTypeOK
<1>5. ASSUME pc \in {"hash", "header"}, NEW v \in {0, 1}, NEW e \in BOOLEAN, NextAttestation(v, e)
      PROVE  RpcTypeOK'
  <2>1. /\ rpc'.k = rpc.k + 1 /\ rpc'.verified = rpc.verified + v /\ rpc'.block = rpc.block
        /\ rpc'.errors = (rpc.errors \/ e)
    BY <1>5 DEF NextAttestation, AskInv
  <2>2. rpc'.errors \in BOOLEAN
    BY <2>1, Zenon
  <2>3. rpc.k \in Nat /\ rpc.verified \in Nat /\ rpc.verified < rpc.k /\ rpc.block \in Blocks \cup {Null}
    BY <1>5 DEF RpcTypeOK
  <2> QED
    BY <2>1, <2>2, <2>3 DEF RpcTypeOK
<1>6. CASE GetBlockHash
  <2>1. CASE node.up /\ attestation.height \in 1..Len(node.chain)
    <3>1. rpc' = [rpc EXCEPT !.block = node.chain[attestation.height]] /\ pc = "hash"
      BY <1>6, <2>1 DEF GetBlockHash
    <3>2. /\ rpc'.k = rpc.k /\ rpc'.verified = rpc.verified /\ rpc'.errors = rpc.errors
          /\ rpc'.block = node.chain[attestation.height]
      BY <3>1 DEF AskInv
    <3>3. node.chain[attestation.height] \in Blocks
      BY <2>1 DEF NodeInv
    <3> QED
      BY <3>1, <3>2, <3>3 DEF RpcTypeOK
  <2>2. CASE ~(node.up /\ attestation.height \in 1..Len(node.chain))
    BY <1>5, <1>6, <2>2 DEF GetBlockHash
  <2> QED
    BY <2>1, <2>2
<1>7. CASE GetBlockHeader
  BY <1>5, <1>7 DEF GetBlockHeader
<1>8. CASE AllAsked
  BY <1>1, <1>2, <1>8 DEF AllAsked
<1> QED
  BY <1>1, <1>3, <1>4, <1>6, <1>7, <1>8, RpcFrames DEF AskNode

LEMMA ResultTypeNext ==
  ASSUME PhaseInv, ResultTypeOK, [Next]_vars
  PROVE  ResultTypeOK'
<1>1. BitcoinResult \in Bitcoins
  BY DEF BitcoinResult, Pending, Bitcoins
<1>2. \A b, e : Result(b, e) \in {"verified", "unverifiable", "failed"}
  BY DEF Result
<1>3. Null \in Bitcoins
  BY DEF Bitcoins
<1>4. CASE CanonicalHash
  <2>1. canonical' \in {"pass", "fail", "skip"} /\ pc' = "ots" /\ UNCHANGED <<ots, inclusion>>
    BY <1>4 DEF CanonicalHash, Status
  <2> QED
    BY <2>1 DEF ResultTypeOK, Places
<1>5. CASE OtsHeader
  <2>1. /\ pc' \in {"inclusion", "parse"} /\ UNCHANGED <<canonical, inclusion>> /\ ots'.bitcoin = ots.bitcoin
        /\ ots'.status \in {"pass", "fail", "skip", ots.status}
    BY <1>5 DEF OtsHeader, PhaseInv
  <2> QED
    BY <2>1 DEF ResultTypeOK, Places
<1>6. CASE AskNode
  <2>1. UNCHANGED <<canonical, ots, inclusion>> /\ pc' \in {"probe", "hash", "header", Answering}
    BY <1>6 DEF AskNode, Parse, Probe, GetBlockHash, GetBlockHeader, AllAsked, RpcFrame
  <2> QED
    BY <2>1 DEF ResultTypeOK, Places, Answering
<1>7. CASE OtsAnswer
  <2>1. /\ pc' = "inclusion" /\ UNCHANGED <<canonical, inclusion>> /\ ots'.bitcoin = BitcoinResult
        /\ ots'.status \in {"pass", "fail"}
    BY <1>7 DEF OtsAnswer, Status
  <2> QED
    BY <1>1, <2>1 DEF ResultTypeOK, Places
<1>8. CASE NodeMoves \/ UNCHANGED vars
  BY <1>8 DEF ResultTypeOK, NodeMoves, vars
<1>9. CASE CheckInclusion
  <2>1. UNCHANGED <<canonical, ots>>
    BY <1>9 DEF CheckInclusion, NotPresent, Refuse, RecomputeLeaf, AuditPath, NoPayload, AnchorPayload,
                NoReceipt, CheckReceipt, Unasked, Answer, InclusionFrame
  <2>2. CASE RecomputeLeaf \/ AuditPath \/ AnchorPayload \/ CheckReceipt
    <3>1. inclusion' = inclusion /\ pc' \in {"path", "receipt", "parse", "unasked", pc}
      BY <2>2 DEF RecomputeLeaf, AuditPath, AnchorPayload, CheckReceipt
    <3> QED
      BY <2>1, <3>1 DEF ResultTypeOK, Places
  <2>3. CASE NotPresent
    <3>1. pc' = "done" /\ inclusion'.bitcoin = Null /\ inclusion'.result = "not_present"
      BY <2>3 DEF NotPresent
    <3> QED
      BY <1>3, <2>1, <3>1 DEF ResultTypeOK, Places
  <2>4. CASE Refuse \/ NoPayload \/ NoReceipt \/ Unasked \/ Answer
    <3>1. \E b, e : \E bitcoin \in Bitcoins : Done(b, e, bitcoin)
      BY <1>1, <1>3, <2>4 DEF Refuse, NoPayload, NoReceipt, Unasked, Answer
    <3>2. pc' = "done" /\ inclusion'.bitcoin \in Bitcoins
          /\ inclusion'.result \in {"verified", "unverifiable", "failed"}
      BY <1>2, <3>1 DEF Done
    <3> QED
      BY <2>1, <3>2 DEF ResultTypeOK, Places
  <2> QED
    BY <1>9, <2>2, <2>3, <2>4 DEF CheckInclusion
<1> QED
  BY <1>4, <1>5, <1>6, <1>7, <1>8, <1>9 DEF Next, Verify

LEMMA TypesInvariant ==
  Spec => []AnchorTypes
<1>1. Init => AnchorTypes
  <2> SUFFICES ASSUME Init PROVE AnchorTypes
    OBVIOUS
  <2>1. PathTypeOK /\ ResultTypeOK
    BY DEF Init, PathInit, PathTypeOK, ResultTypeOK, Places, Bitcoins
  <2>2. RpcTypeOK
    BY DEF Init, RpcTypeOK
  <2>3. PICK c \in Chains \cup {<<>>}, up \in BOOLEAN :
          node = [chain |-> c, up |-> up, mined |-> MinedIn(c),
                  moves |-> IF pkg.bitcoin_rpc THEN MaxMoves ELSE 0]
    BY DEF Init
  <2>4. NodeTypeOK
    <3>1. node.chain = c /\ node.up = up
      BY <2>3
    <3>2. node.moves \in {0, MaxMoves}
      BY <2>3
    <3>3. node.moves \in 0..MaxMoves
      BY <3>2, AnchorAssumption
    <3> QED
      BY <3>1, <3>3 DEF NodeTypeOK
  <2> QED
    BY <2>1, <2>2, <2>4 DEF AnchorTypes
<1>2. AskingInv /\ AnchorTypes /\ [Next]_vars => AnchorTypes'
  BY PathTypeNext, NodeTypeNext, RpcTypeNext, ResultTypeNext DEF AnchorTypes, AskingInv
<1> QED
  BY <1>1, <1>2, AskingInvariant, PTL DEF Spec

(* The verifier stays within its types; in the loop over the attestations    *)
(* no more are verified than were asked about, and the index into a level    *)
(* never passes the end of the level.                                       *)
THEOREM TypeCorrect == Spec => []TypeOK
<1>1. AskingInv /\ AnchorTypes => TypeOK
  BY DEF AskingInv, PhaseInv, AnchorTypes, PathTypeOK, NodeTypeOK, RpcTypeOK, ResultTypeOK, TypeOK
<1> QED
  BY <1>1, AskingInvariant, TypesInvariant, PTL

-----------------------------------------------------------------------------
(* A node that is up and has not moved, asked about a receipt that its chain *)
(* bears out: no call has failed, and every attestation so far was verified. *)
Stable ==
  Attested(OtsReceipt) /\ node.moves = MaxMoves /\ node.up /\ ~OtsFault /\ BorneOut(OtsReceipt)
NoErrorSoFar ==
  /\ ots.status = Null /\ pc \in {"hash", "header", "ots_answer"} => ~rpc.errors
  /\ ots.status = Null /\ pc = "header" => rpc.block = node.chain[attestation.height]
  /\ ots.status # Null => ots.bitcoin = "node_confirmed"
StableInv == Stable => NoErrorSoFar

(* Once the node has moved it is not stable any more; nothing else changes   *)
(* whether it is.                                                           *)
LEMMA StableBefore ==
  ASSUME NodeTypeOK, [Next]_vars, Stable'
  PROVE  Stable /\ node' = node
<1>1. given' = given
  BY Frames
<1>2. CASE NodeMoves
  <2>1. node'.moves = node.moves - 1
    BY <1>2 DEF NodeMoves
  <2>2. node'.moves = MaxMoves
    BY DEF Stable
  <2> QED
    BY <2>1, <2>2, AnchorAssumption DEF NodeTypeOK
<1>3. CASE node' = node
  <2>1. pkg' = pkg /\ OtsReceipt' = OtsReceipt
    BY <1>1 DEF pkg, OtsReceipt
  <2>2. Attested(OtsReceipt) /\ ~OtsFault /\ BorneOut(OtsReceipt)
    BY <1>3, <2>1 DEF Stable, Attested, OtsFault, BorneOut
  <2> QED
    BY <1>3, <2>2 DEF Stable
<1> QED
  BY <1>2, <1>3, NodeFrame

(* A call about an attestation that the chain bears out.                    *)
LEMMA StableCall ==
  ASSUME PhaseInv, AskInv, Stable, ots.status = Null, pc \in {"hash", "header"}, rpc.k <= Len(Asked.attestations)
  PROVE  /\ Asked = OtsReceipt /\ node.up /\ attestation.height \in 1..Len(node.chain)
         /\ HeaderRoot[node.chain[attestation.height]] = Commit(Asked.digest, attestation.path)
<1>1. Asked = OtsReceipt
  BY DEF Asked
<1>2. rpc.k \in 1..Len(Asked.attestations)
  <2>1. rpc.k \in Nat \ {0} /\ Len(Asked.attestations) \in Nat
    BY AskedLength DEF AskInv, Asking
  <2> QED
    BY <2>1
<1> QED
  BY <1>1, <1>2 DEF Stable, BorneOut, attestation

LEMMA StableAskNext ==
  ASSUME PhaseInv, AskInv, NoErrorSoFar, Stable, AskNode, ots.status = Null
  PROVE  NoErrorSoFar'
<1>1. given' = given /\ node' = node /\ ots' = ots /\ ots'.status = Null
  BY DEF AskNode, Parse, Probe, GetBlockHash, GetBlockHeader, AllAsked, RpcFrame
<1>2. Asked' = Asked /\ Asked = OtsReceipt /\ Answering = "ots_answer" /\ Found
  BY <1>1 DEF Asked, OtsReceipt, pkg, Answering, Stable, Attested, Found
<1>3. CASE Parse
  <2>1. pc' = "probe"
    BY <1>2, <1>3 DEF Parse
  <2> QED
    BY <1>1, <2>1 DEF NoErrorSoFar
<1>4. CASE Probe
  <2>1. pc' = "hash" /\ rpc' = [rpc EXCEPT !.errors = ~node.up] /\ node.up
    BY <1>4 DEF Probe, Stable
  <2>2. ~rpc'.errors
    BY <2>1 DEF AskInv
  <2> QED
    BY <1>1, <2>1, <2>2 DEF NoErrorSoFar
<1>5. CASE GetBlockHash
  <2>1. pc' = "header" /\ rpc' = [rpc EXCEPT !.block = node.chain[attestation.height]] /\ ~rpc.errors
    BY <1>5, StableCall DEF GetBlockHash, NoErrorSoFar
  <2>2. ~rpc'.errors /\ rpc'.block = node.chain[attestation.height] /\ rpc'.k = rpc.k
    BY <2>1 DEF AskInv
  <2>3. attestation' = attestation
    BY <1>2, <2>2 DEF attestation
  <2> QED
    BY <1>1, <2>1, <2>2, <2>3 DEF NoErrorSoFar
<1>6. CASE GetBlockHeader
  <2>1. pc = "header" /\ rpc.k <= Len(Asked.attestations)
    BY <1>6 DEF GetBlockHeader, AskInv
  <2>2. node.up /\ Matches
    BY <2>1, StableCall DEF NoErrorSoFar, Matches
  <2>3. pc' = "hash" /\ NextAttestation(1, FALSE) /\ ~rpc.errors
    BY <1>6, <2>1, <2>2 DEF GetBlockHeader, NoErrorSoFar
  <2>4. ~rpc'.errors
    BY <2>3 DEF NextAttestation, AskInv
  <2> QED
    BY <1>1, <2>3, <2>4 DEF NoErrorSoFar
<1>7. CASE AllAsked
  <2>1. pc' = "ots_answer" /\ rpc' = rpc /\ ~rpc.errors
    BY <1>2, <1>7 DEF AllAsked, NoErrorSoFar
  <2> QED
    BY <1>1, <2>1 DEF NoErrorSoFar
<1> QED
  BY <1>3, <1>4, <1>5, <1>6, <1>7 DEF AskNode

LEMMA StableNext ==
  ASSUME PhaseInv, AskInv, NodeTypeOK, StableInv, [Next]_vars
  PROVE  StableInv'
<1> SUFFICES ASSUME Stable' PROVE NoErrorSoFar'
  BY DEF StableInv
<1>1. Stable /\ node' = node /\ NoErrorSoFar
  BY StableBefore DEF StableInv
<1>2. ASSUME ots' = ots, ots.status # Null
      PROVE  NoErrorSoFar'
  BY <1>1, <1>2 DEF NoErrorSoFar
<1>3. CASE CanonicalHash
  <2>1. pc' = "ots" /\ ots' = ots
    BY <1>3 DEF CanonicalHash
  <2> QED
    BY <1>1, <2>1 DEF NoErrorSoFar
<1>4. CASE OtsHeader
  <2>1. pc' = "parse" /\ ots' = ots /\ ots.status = Null
    BY <1>1, <1>4 DEF OtsHeader, Stable, Attested, PhaseInv
  <2> QED
    BY <2>1 DEF NoErrorSoFar
<1>5. CASE AskNode
  <2>1. ots' = ots
    BY <1>5 DEF AskNode, Parse, Probe, GetBlockHash, GetBlockHeader, AllAsked, RpcFrame
  <2> QED
    BY <1>1, <1>2, <1>5, <2>1, StableAskNext
<1>6. CASE OtsAnswer
  <2>1. /\ pc = "ots_answer" /\ pc' = "inclusion" /\ ots.status = Null /\ Asked = OtsReceipt
        /\ ots'.bitcoin = BitcoinResult /\ Found
    BY <1>1, <1>6 DEF OtsAnswer, PhaseInv, Asked, Found, Stable, Attested
  <2>2. ~rpc.errors
    BY <1>1, <2>1 DEF NoErrorSoFar
  <2>3. Len(Asked.attestations) \in Nat \ {0} /\ rpc.verified = Len(Asked.attestations)
    <3>1. Len(Asked.attestations) \in Nat /\ Len(Asked.attestations) # 0
      BY <2>1, AskedLength DEF Found
    <3>2. ShownBefore(Len(Asked.attestations) + 1)
      BY <2>1 DEF AskInv
    <3> QED
      BY <2>2, <3>1, <3>2 DEF ShownBefore
  <2>4. BitcoinResult = "node_confirmed"
    BY <2>1, <2>2, <2>3 DEF BitcoinResult
  <2>5. ots'.status # Null
    BY <1>6, AnchorAssumption DEF OtsAnswer, Status
  <2> QED
    BY <2>1, <2>4, <2>5 DEF NoErrorSoFar
<1>7. CASE CheckInclusion
  <2>1. ots' = ots /\ ots.status # Null
    BY <1>7 DEF CheckInclusion, NotPresent, Refuse, RecomputeLeaf, AuditPath, NoPayload, AnchorPayload,
                NoReceipt, CheckReceipt, Unasked, Answer, InclusionFrame, PhaseInv
  <2> QED
    BY <1>2, <2>1
<1>8. CASE NodeMoves
  <2>1. FALSE
    BY <1>1, <1>8, AnchorAssumption DEF NodeMoves, NodeTypeOK
  <2> QED
    BY <2>1
<1>9. CASE UNCHANGED vars
  BY <1>1, <1>9 DEF vars, NoErrorSoFar, attestation, Asked, OtsReceipt, Receipt, inc, pkg
<1> QED
  BY <1>3, <1>4, <1>5, <1>6, <1>7, <1>8, <1>9 DEF Next, Verify

(* A node that stays up and whose chain stays as it is confirms every        *)
(* receipt that this chain bears out: there is no false alarm.              *)
THEOREM StableSound == Spec => []StableNodeConfirms
<1>1. Init => StableInv
  BY AnchorAssumption DEF Init, StableInv, NoErrorSoFar
<1>2. AskingInv /\ AnchorTypes /\ StableInv /\ [Next]_vars => StableInv'
  BY StableNext DEF AskingInv, AnchorTypes
<1>3. StableInv => StableNodeConfirms
  BY DEF StableInv, Stable, NoErrorSoFar, StableNodeConfirms
<1> QED
  BY <1>1, <1>2, <1>3, AskingInvariant, TypesInvariant, PTL DEF Spec

-----------------------------------------------------------------------------
(* The path and the parent of a node below the root: the sibling on the left *)
(* of an odd one, on the right of an even one, and nothing of one that is    *)
(* promoted.                                                                *)
Sibling(n, i, last) ==
  IF Even(i) THEN [side |-> "R", hash |-> Tree[n][<<i+1, last>>]] ELSE [side |-> "L", hash |-> Tree[n][<<i-1, last>>]]
ParentOf(n, i, last) ==
  LET up == <<i \div 2, last \div 2>>
      p == PathOf[n][<<i, last>>]
      node_hash == Tree[n][<<i, last>>]
  IN  IF Even(i) /\ i = last THEN p = PathOf[n][up] /\ Tree[n][up] = node_hash
      ELSE /\ p # <<>> /\ Head(p) # Null /\ Head(p) = Sibling(n, i, last) /\ Tail(p) = PathOf[n][up]
           /\ Tree[n][up] = IF Even(i) THEN InnerHash(node_hash, Head(p).hash) ELSE InnerHash(Head(p).hash, node_hash)
LEMMA PathOfNode ==
  ASSUME NEW n \in Sizes, NEW i \in 0..n-1, NEW last \in 0..n-1, i <= last, last # 0,
         <<i, last>> \in DOMAIN Tree[n]
  PROVE  ParentOf(n, i, last)
<1>1. n \in Nat \ {0} /\ ArePaths(PathOf[n], Tree[n], n)
  BY TreeAssumption, PathAssumption
<1>2. (i % 2 = 1 <=> ~Even(i)) /\ (i % 2 = 0 <=> Even(i))
  BY <1>1 DEF Even
<1>3. CASE Even(i) /\ i = last
  <2>1. PathOf[n][<<i, last>>] = PathOf[n][<<i \div 2, last \div 2>>]
    BY <1>1, <1>2, <1>3 DEF ArePaths
  <2> QED
    BY <1>3, <2>1, Parent DEF ParentOf
<1>4. ASSUME ~(Even(i) /\ i = last)
      PROVE  /\ PathOf[n][<<i, last>>] # <<>> /\ Head(PathOf[n][<<i, last>>]) # Null
             /\ Head(PathOf[n][<<i, last>>]) = Sibling(n, i, last)
             /\ Tail(PathOf[n][<<i, last>>]) = PathOf[n][<<i \div 2, last \div 2>>]
  <2>1. LET sibling == IF i % 2 = 1 THEN [side |-> "L", hash |-> Tree[n][<<i-1, last>>]]
                       ELSE [side |-> "R", hash |-> Tree[n][<<i+1, last>>]]
        IN  /\ sibling # Null /\ PathOf[n][<<i, last>>] # <<>>
            /\ Head(PathOf[n][<<i, last>>]) = sibling
            /\ Tail(PathOf[n][<<i, last>>]) = PathOf[n][<<i \div 2, last \div 2>>]
    BY <1>1, <1>2, <1>4 DEF ArePaths
  <2> QED
    BY <1>2, <2>1 DEF Sibling
<1>5. CASE Even(i) /\ i # last
  <2>1. Sibling(n, i, last).hash = Tree[n][<<i+1, last>>]
    BY <1>5 DEF Sibling
  <2>2. Tree[n][<<i \div 2, last \div 2>>] = InnerHash(Tree[n][<<i, last>>], Tree[n][<<i+1, last>>])
    BY <1>5, Parent
  <2> QED
    BY <1>4, <1>5, <2>1, <2>2 DEF ParentOf
<1>6. CASE ~Even(i)
  <2>1. Sibling(n, i, last).hash = Tree[n][<<i-1, last>>]
    BY <1>6 DEF Sibling
  <2>2. Tree[n][<<i \div 2, last \div 2>>] = InnerHash(Tree[n][<<i-1, last>>], Tree[n][<<i, last>>])
    BY <1>6, Parent
  <2> QED
    BY <1>4, <1>6, <2>1, <2>2 DEF ParentOf
<1> QED
  BY <1>3, <1>5, <1>6

(* The path of the last node of a level, below the root, is not empty and    *)
(* begins on the left: at its first ancestor that is odd.                   *)
BeginsLeft(p) == p # <<>> /\ Head(p) # Null /\ Head(p).side = "L"
LEMMA LastBeginsLeft ==
  ASSUME NEW n \in Sizes, NEW last \in 1..n-1, <<last, last>> \in DOMAIN Tree[n]
  PROVE  BeginsLeft(PathOf[n][<<last, last>>])
<1> DEFINE Bad == {k \in 1..n-1 : <<k, k>> \in DOMAIN Tree[n] /\ ~BeginsLeft(PathOf[n][<<k, k>>])}
<1> SUFFICES ASSUME Bad # {} PROVE FALSE
  OBVIOUS
<1>1. n \in Nat \ {0}
  BY TreeAssumption
<1>2. PICK k \in Bad : \A m \in Bad : k <= m
  <2>1. Bad \in SUBSET Nat
    BY <1>1
  <2> HIDE DEF Bad
  <2> QED
    BY <2>1, Least
<1>3. k \in 1..n-1 /\ k \in 0..n-1 /\ <<k, k>> \in DOMAIN Tree[n] /\ ~BeginsLeft(PathOf[n][<<k, k>>]) /\ k # 0
  BY <1>1
<1>0. ParentOf(n, k, k)
  BY <1>1, <1>3, PathOfNode
<1>4. CASE ~Even(k)
  BY <1>0, <1>3, <1>4 DEF BeginsLeft, ParentOf, Sibling
<1>5. CASE Even(k)
  <2>1. k \div 2 \in 1..n-1 /\ k \div 2 < k
    BY <1>1, <1>3, <1>5 DEF Even
  <2>2. <<k \div 2, k \div 2>> \in DOMAIN Tree[n]
    <3>1. k \in 0..n-1 /\ k <= k
      BY <1>1, <1>3
    <3> HIDE DEF Bad
    <3> QED
      BY <1>3, <3>1, Parent
  <2>3. PathOf[n][<<k, k>>] = PathOf[n][<<k \div 2, k \div 2>>]
    BY <1>0, <1>5 DEF ParentOf
  <2>4. k \div 2 \in Bad
    BY <1>3, <2>1, <2>2, <2>3
  <2> QED
    BY <1>1, <1>2, <2>1, <2>4
<1> QED
  BY <1>4, <1>5

(* On the path of the leaf that the service wrote, the hash at hand is the   *)
(* node of the tree and what is left of the path is the path of that node;   *)
(* in the inner loop the sibling of the odd ancestor is already taken in.    *)
OnPath(n) ==
  /\ loop = "for" => r = Tree[n][<<fn, sn>>] /\ rest = PathOf[n][<<fn, sn>>]
  /\ loop = "while" =>
       LET p == PathOf[n][<<fn, sn>>] IN
       p # <<>> /\ Tail(p) = rest /\ r = InnerHash(Head(p).hash, Tree[n][<<fn, sn>>])
  /\ loop = "ended" => r = Root(n)

LEMMA OnPathElement ==
  ASSUME NEW n \in Sizes, WalkOver(n), OnPath(n), Element
  PROVE  OnPath(n)'
<1>1. n \in Nat \ {0} /\ n' = n
  BY TreeAssumption
<1>2. /\ loop = "for" /\ fn \in 0..n-1 /\ sn \in 0..n-1 /\ fn <= sn /\ <<fn, sn>> \in DOMAIN Tree[n]
      /\ r = Tree[n][<<fn, sn>>] /\ rest = PathOf[n][<<fn, sn>>] /\ rest # <<>>
  BY DEF WalkOver, OnPath, Element
<1>3. sn # 0
  <2>1. SUFFICES ASSUME sn = 0 PROVE FALSE
    OBVIOUS
  <2>2. fn = 0
    BY <1>1, <1>2, <2>1
  <2> QED
    BY <1>2, <2>1, <2>2, PathAssumption DEF ArePaths
<1>4. Tree[n][<<fn, sn>>] = r
  BY <1>2
<1>5. ParentOf(n, fn, sn)
  BY <1>1, <1>2, <1>3, PathOfNode
<1>6. CASE Promoted
  <2>1. Even(fn) /\ fn = sn /\ fn \in 1..n-1
    BY <1>1, <1>2, <1>3, <1>6 DEF Promoted, OnLeft
  <2>2. BeginsLeft(rest)
    BY <1>2, <2>1, LastBeginsLeft
  <2>3. ~Inconsistent
    BY <1>3, <1>6, <2>2 DEF Inconsistent, BeginsLeft, el, Promoted
  <2>4. loop' = "while" /\ fn' = fn /\ sn' = sn /\ r' = InnerHash(el.hash, r) /\ rest' = Tail(rest)
    BY <1>6, <2>3 DEF Element, Promoted
  <2> QED
    BY <1>2, <2>2, <2>4 DEF OnPath, el, BeginsLeft
<1>7. CASE ~Promoted
  <2>1. /\ ~Even(fn) \/ fn # sn
        /\ Even(fn) => ~OnLeft
        /\ ~Even(fn) => OnLeft
    BY <1>7 DEF Promoted, OnLeft
  <2>2. el # Null /\ el = Sibling(n, fn, sn) /\ Tail(rest) = PathOf[n][<<fn \div 2, sn \div 2>>]
    BY <1>2, <1>5, <2>1 DEF ParentOf, el
  <2>3. ~Inconsistent
    BY <1>3, <2>1, <2>2 DEF Inconsistent, Sibling
  <2>4. /\ loop' = "for" /\ fn' = fn \div 2 /\ sn' = sn \div 2 /\ rest' = Tail(rest)
        /\ r' = IF OnLeft THEN InnerHash(el.hash, r) ELSE InnerHash(r, el.hash)
    BY <1>2, <1>7, <2>3 DEF Element, Halve
  <2>5. r' = Tree[n][<<fn', sn'>>]
    BY <1>2, <1>5, <2>1, <2>4 DEF ParentOf, el
  <2> QED
    BY <2>2, <2>4, <2>5 DEF OnPath
<1> QED
  BY <1>6, <1>7

LEMMA OnPathShift ==
  ASSUME NEW n \in Sizes, WalkOver(n), OnPath(n), Shift
  PROVE  OnPath(n)'
<1>1. n \in Nat \ {0} /\ n' = n
  BY TreeAssumption
<1>2. /\ loop = "while" /\ fn \in 0..n-1 /\ sn \in 0..n-1 /\ <<fn, sn>> \in DOMAIN Tree[n] /\ fn = sn /\ fn # 0
      /\ fn' = fn \div 2 /\ sn' = sn \div 2 /\ r' = r /\ rest' = rest
  BY DEF WalkOver, Shift, Halve
<1>3. ParentOf(n, fn, sn)
  BY <1>1, <1>2, PathOfNode
<1>4. CASE Even(fn)
  <2>1. loop' = "while"
    BY <1>2, <1>4 DEF Shift
  <2>2. Tree[n][<<fn', sn'>>] = Tree[n][<<fn, sn>>] /\ PathOf[n][<<fn', sn'>>] = PathOf[n][<<fn, sn>>]
    BY <1>2, <1>3, <1>4 DEF ParentOf
  <2> QED
    BY <1>2, <2>1, <2>2 DEF OnPath
<1>5. CASE ~Even(fn)
  <2>1. loop' = "for"
    BY <1>5 DEF Shift
  <2> QED
    BY <1>2, <1>3, <1>5, <2>1 DEF OnPath, ParentOf
<1> QED
  BY <1>4, <1>5

LEMMA OnPathEnds ==
  ASSUME NEW n \in Sizes, WalkOver(n), OnPath(n), PathEnds
  PROVE  OnPath(n)'
<1>1. n \in Nat \ {0} /\ n' = n
  BY TreeAssumption
<1>2. /\ loop = "for" /\ fn \in 0..n-1 /\ sn \in 0..n-1 /\ fn <= sn /\ <<fn, sn>> \in DOMAIN Tree[n]
      /\ r = Tree[n][<<fn, sn>>] /\ rest = PathOf[n][<<fn, sn>>] /\ rest = <<>>
  BY DEF WalkOver, OnPath, PathEnds
<1>3. sn = 0
  <2> SUFFICES ASSUME sn # 0 PROVE FALSE
    OBVIOUS
  <2>1. Even(fn) /\ fn = sn
    <3>1. ParentOf(n, fn, sn)
      BY <1>1, <1>2, PathOfNode
    <3> QED
      BY <1>2, <3>1 DEF ParentOf
  <2>2. fn \in 1..n-1
    BY <1>1, <1>2, <2>1
  <2>3. BeginsLeft(rest)
    BY <1>2, <2>1, <2>2, LastBeginsLeft
  <2> QED
    BY <1>2, <2>3 DEF BeginsLeft
<1>4. fn = 0
  BY <1>1, <1>2, <1>3
<1> QED
  BY <1>2, <1>3, <1>4 DEF PathEnds, Return, OnPath, Root

-----------------------------------------------------------------------------
(* A package as the service writes it: no check finds anything.             *)
OwnFits ==
  /\ ~pkg.bitcoin_rpc /\ pkg.eidas_ok /\ pkg.anchor
  /\ pkg.payloads["anchor"] # Null /\ pkg.anchor_sha256 = Sha(pkg.payloads["anchor"].payload)
  /\ OtsReceipt # Null /\ ~OtsFault
  /\ inc # Null /\ Usable /\ LeafFaults = {}
  /\ inc.leaf_count \in Sizes /\ inc.leaf_index \in 0..inc.leaf_count-1 /\ AtLeaf(inc.leaf_count)
  /\ inc.audit_path = PathOf[inc.leaf_count][<<inc.leaf_index, inc.leaf_count-1>>] /\ inc.audit_path # Null
  /\ inc.merkle_root = Root(inc.leaf_count) /\ inc.merkle_root # Null
  /\ ap # Null /\ CommitsRoot /\ PayloadShipped /\ inc.anchor_payload_sha256 = Sha(ap)
  /\ Receipt # Null /\ _receipt_state = "commits"
LEMMA IssuedFits ==
  ASSUME given \in Issued
  PROVE  OwnFits
<1>1. IsIssued(pkg)
  BY IssuedAssumption DEF pkg
<1>2. PICK n \in Sizes : \E i \in 0..n-1 : IsInclusionOf(i, n, pkg, inc)
  BY <1>1 DEF IsIssued, inc
<1>3. PICK i \in 0..n-1 : IsInclusionOf(i, n, pkg, inc)
  BY <1>2
<1>4. /\ inc \notin {Null, Unreadable} /\ inc.proof_id = pkg.proof_id /\ inc.proof_id # Null /\ inc.leaf_algo
      /\ inc.leaf_hash = anchor_leaf_v3(pkg.proof_id, Sha(pkg.eidas_payload)) /\ Leaf(n, i) = LeafHash(inc.leaf_hash)
      /\ inc.eidas_payload_sha256 = Sha(pkg.eidas_payload)
      /\ inc.leaf_index = i /\ inc.leaf_count = n /\ inc.merkle_root = Root(n) /\ inc.merkle_root # Null
      /\ inc.audit_path = PathOf[n][<<i, n-1>>] /\ inc.audit_path # Null
  BY <1>3 DEF IsInclusionOf
<1>5. /\ ap # Null /\ ap.current /\ ap.merkle_root = inc.merkle_root /\ ap.leaf_count = inc.leaf_count
      /\ inc.anchor_payload_sha256 = Sha(ap) /\ inc.payload_file \in PayloadFiles
      /\ inc.receipt_file = inc.payload_file /\ IsAnchored(pkg, inc.payload_file, ap)
  BY <1>3, <1>4 DEF IsInclusionOf, ap
<1>6. /\ ~pkg.bitcoin_rpc /\ pkg.eidas_ok /\ pkg.anchor /\ pkg.eidas_payload # Null
      /\ pkg.eidas_payload.proof_id = pkg.proof_id
      /\ IsAnchored(pkg, "anchor", pkg.payloads["anchor"].payload)
      /\ pkg.anchor_sha256 = Sha(pkg.payloads["anchor"].payload)
  BY <1>1 DEF IsIssued
<1>7. Usable
  BY <1>4, <1>6 DEF Usable
<1>8. leaf = inc.leaf_hash /\ AtLeaf(n)
  BY <1>4 DEF leaf, AtLeaf
<1>9. LeafFaults = {}
  BY <1>4, <1>6, <1>8 DEF LeafFaults, If
<1>10. Receipt # Null /\ _receipt_state = "commits" /\ CommitsRoot /\ PayloadShipped
  BY <1>5 DEF Receipt, _receipt_state, CommitsRoot, PayloadShipped, IsAnchored
<1>11. OtsReceipt # Null /\ ~OtsFault /\ pkg.payloads["anchor"] # Null
  BY <1>6 DEF OtsReceipt, OtsFault, IsAnchored
<1> QED
  BY <1>4, <1>5, <1>6, <1>7, <1>8, <1>9, <1>10, <1>11 DEF OwnFits

(* What has passed by the time the verifier is where it is.                 *)
PassedSoFar ==
  /\ pc # "canonical" => canonical = "pass"
  /\ pc \notin {"canonical", "ots"} => ots.status = "pass"
  /\ pc \notin {"ots_answer", "answer"} \cup Asking
  /\ OnPath(inc.leaf_count) /\ failures = {} /\ reasons = {}
  /\ pc = "done" => inclusion.result = "verified"
IssuedInv == given \in Issued => PassedSoFar

LEMMA OnPathStart ==
  ASSUME OwnFits, Enter(leaf, inc.leaf_index, inc.leaf_count, inc.audit_path), given' = given
  PROVE  OnPath(inc.leaf_count)'
<1> DEFINE n == inc.leaf_count
<1>1. n \in Nat \ {0} /\ n \in Sizes /\ n' = n /\ inc.leaf_index \in 0..n-1
  BY TreeAssumption DEF OwnFits, inc, pkg
<1>2. inc.leaf_index \in Nat /\ inc.leaf_index < n /\ inc.audit_path # Null
  BY <1>1 DEF OwnFits
<1>3. loop' = "for" /\ fn' = inc.leaf_index /\ sn' = n - 1 /\ r' = LeafHash(leaf) /\ rest' = inc.audit_path
  BY <1>1, <1>2 DEF Enter
<1>4. LeafHash(leaf) = Tree[n][<<inc.leaf_index, n-1>>] /\ inc.audit_path = PathOf[n][<<inc.leaf_index, n-1>>]
  BY DEF OwnFits, AtLeaf, Leaf
<1> QED
  BY <1>1, <1>3, <1>4 DEF OnPath

LEMMA IssuedInclusionNext ==
  ASSUME PhaseInv, WalkInv, OwnFits, PassedSoFar, CheckInclusion
  PROVE  PassedSoFar'
<1>1. given' = given /\ inc' = inc /\ UNCHANGED <<canonical, ots>>
  BY DEF CheckInclusion, NotPresent, Refuse, RecomputeLeaf, AuditPath, NoPayload, AnchorPayload,
         NoReceipt, CheckReceipt, Unasked, Answer, InclusionFrame, inc, pkg
<1>2. pc \in {"inclusion", "path", "receipt", "unasked"} /\ canonical = "pass" /\ ots.status = "pass"
      /\ failures = {} /\ reasons = {}
  BY DEF CheckInclusion, NotPresent, Refuse, RecomputeLeaf, AuditPath, NoPayload, AnchorPayload,
         NoReceipt, CheckReceipt, Unasked, Answer, PassedSoFar
<1>3. UNCHANGED pathVars => OnPath(inc.leaf_count)'
  BY <1>1 DEF PassedSoFar, OnPath, pathVars
<1>4. ASSUME OnPath(inc.leaf_count)', failures' = {}, reasons' = {}, pc' \in {"path", "receipt", "unasked"}
      PROVE  PassedSoFar'
  BY <1>1, <1>2, <1>4 DEF PassedSoFar, Asking
<1>5. CASE NotPresent \/ Refuse \/ NoPayload \/ NoReceipt \/ Answer
  BY <1>2, <1>5 DEF NotPresent, Refuse, NoPayload, NoReceipt, Answer, OwnFits
<1>6. CASE RecomputeLeaf
  <2>1. pc' = "path" /\ failures' = {} /\ reasons' = {}
        /\ Enter(leaf, inc.leaf_index, inc.leaf_count, inc.audit_path)
    BY <1>2, <1>6 DEF RecomputeLeaf, OwnFits
  <2> QED
    BY <1>1, <1>4, <2>1, OnPathStart
<1>7. CASE AuditPath
  <2>1. PathStep /\ pc' = "path" /\ failures' = {} /\ reasons' = {}
    BY <1>2, <1>7 DEF AuditPath
  <2>2. inc.leaf_count \in Sizes /\ WalkOver(inc.leaf_count) /\ OnPath(inc.leaf_count)
    BY DEF OwnFits, WalkInv, PassedSoFar
  <2>3. ASSUME NEW n, n = inc.leaf_count
        PROVE  OnPath(n)'
    BY <2>1, <2>2, <2>3, OnPathElement, OnPathShift, OnPathEnds DEF PathStep
  <2>4. OnPath(inc.leaf_count)'
    BY <1>1, <2>3 DEF OnPath
  <2> QED
    BY <1>4, <2>1, <2>4
<1>8. CASE AnchorPayload
  <2>1. r = inc.merkle_root /\ r # Null
    BY <1>8 DEF AnchorPayload, PassedSoFar, OnPath, OwnFits
  <2>2. failures' = {}
    BY <1>2, <1>8, <2>1 DEF AnchorPayload, PathFaults, If, OwnFits
  <2>3. UNCHANGED pathVars /\ reasons' = {} /\ pc' = "receipt"
    BY <1>2, <1>8 DEF AnchorPayload
  <2> QED
    BY <1>3, <1>4, <2>2, <2>3
<1>9. CASE CheckReceipt
  <2>1. failures' = {} /\ reasons' = {} /\ pc' = "unasked" /\ UNCHANGED pathVars
    BY <1>2, <1>9 DEF CheckReceipt, ReceiptFaults, If, OwnFits
  <2> QED
    BY <1>3, <1>4, <2>1
<1>10. CASE Unasked
  <2>1. /\ pc' = "done" /\ failures' = {} /\ reasons' = {} /\ inclusion'.result = "verified" /\ UNCHANGED pathVars
    BY <1>2, <1>10 DEF Unasked, Done, Result
  <2> QED
    BY <1>1, <1>2, <1>3, <2>1 DEF PassedSoFar, Asking
<1> QED
  BY <1>5, <1>6, <1>7, <1>8, <1>9, <1>10 DEF CheckInclusion

LEMMA IssuedNext ==
  ASSUME PhaseInv, WalkInv, IssuedInv, [Next]_vars
  PROVE  IssuedInv'
<1> SUFFICES ASSUME given' \in Issued PROVE PassedSoFar'
  BY DEF IssuedInv
<1>1. given' = given /\ inc' = inc /\ PassedSoFar /\ OwnFits
  BY Frames, IssuedFits DEF IssuedInv, inc, pkg
<1>2. UNCHANGED pathVars => OnPath(inc.leaf_count)'
  BY <1>1 DEF PassedSoFar, OnPath, pathVars
<1>3. CASE CanonicalHash
  <2>1. canonical' = "pass" /\ pc' = "ots"
    BY <1>1, <1>3 DEF CanonicalHash, OwnFits, Status
  <2> QED
    BY <1>1, <1>2, <1>3, <2>1 DEF PassedSoFar, CanonicalHash, Asking
<1>4. CASE OtsHeader
  <2>1. pc = "ots" /\ pc' = "inclusion" /\ ots' = [ots EXCEPT !.status = "pass"]
    BY <1>1, <1>4 DEF OtsHeader, OwnFits
  <2>2. ots'.status = "pass"
    BY <2>1 DEF PhaseInv
  <2> QED
    BY <1>1, <1>2, <1>4, <2>1, <2>2 DEF PassedSoFar, OtsHeader, Asking
<1>5. CASE AskNode \/ OtsAnswer
  BY <1>1, <1>5 DEF AskNode, Parse, Probe, GetBlockHash, GetBlockHeader, AllAsked, OtsAnswer, PassedSoFar, Asking
<1>6. CASE CheckInclusion
  BY <1>1, <1>6, IssuedInclusionNext
<1>7. CASE NodeMoves \/ UNCHANGED vars
  <2>1. UNCHANGED <<pc, canonical, ots, failures, reasons, inclusion, pathVars>>
    BY <1>7 DEF NodeMoves, vars
  <2> QED
    BY <1>1, <1>2, <2>1 DEF PassedSoFar
<1> QED
  BY <1>3, <1>4, <1>5, <1>6, <1>7 DEF Next, Verify

(* What the service writes for any leaf of any tree is verified: the walk    *)
(* over the audit path takes every sibling on the side it is on, promotes    *)
(* what is promoted, and ends at the root.                                  *)
THEOREM IssuedSound == Spec => []IssuedVerifies
<1>1. Init => PhaseInv /\ WalkInv /\ IssuedInv
  <2> SUFFICES ASSUME Init PROVE PhaseInv /\ WalkInv /\ IssuedInv
    OBVIOUS
  <2>1. PhaseInv /\ WalkInv
    BY AnchorAssumption DEF Init, PathInit, PhaseInv, WalkInv, WalkOver, Asking
  <2>2. IssuedInv
    BY DEF Init, PathInit, IssuedInv, PassedSoFar, OnPath, Asking
  <2> QED
    BY <2>1, <2>2
<1>2. PhaseInv /\ WalkInv /\ IssuedInv /\ [Next]_vars => (PhaseInv /\ WalkInv /\ IssuedInv)'
  BY PhaseNext, WalkNext, IssuedNext
<1>3. IssuedInv => IssuedVerifies
  BY DEF IssuedInv, PassedSoFar, IssuedVerifies
<1> QED
  BY <1>1, <1>2, <1>3, PTL DEF Spec
=============================================================================
