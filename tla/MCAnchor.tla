------------------------------ MODULE MCAnchor ------------------------------
(***************************************************************************)
(* Trees of up to MaxLeaves leaves, built by the recursion of RFC 6962 and *)
(* the audit paths with them (the reference of test_anchor_inclusion.py).  *)
(* Packages: what the service writes for every leaf; index, count, leaf    *)
(* and path of one with those of another; edits of the documents and of    *)
(* the receipt; and receipts with attestations against a node that moves.  *)
(***************************************************************************)
EXTENDS Anchor, SequencesExt

CONSTANTS MaxLeaves, body, otherBody, p1, p2, b1, b2, b3

MCSizes == 1..MaxLeaves
Payload(i) == [proof_id |-> i, text |-> body]
LeafOf(i) == anchor_leaf_v3(i, Sha(Payload(i)))

(* The largest power of two below n; the root over leaves lo..hi-1.          *)
Split(n) == CHOOSE k \in {1, 2, 4, 8} : k < n /\ n <= 2 * k
RECURSIVE Mth(_, _), PathTo(_, _, _, _)
Mth(lo, hi) ==
  IF hi - lo = 1 THEN LeafHash(LeafOf(lo))
  ELSE InnerHash(Mth(lo, lo + Split(hi - lo)), Mth(lo + Split(hi - lo), hi))
(* To the node over leaves i..i+k-1, or what there is of them.                *)
PathTo(i, k, lo, hi) ==
  IF hi - lo <= k THEN <<>>
  ELSE LET mid == lo + Split(hi - lo) IN
       IF i < mid THEN Append(PathTo(i, k, lo, mid), [side |-> "R", hash |-> Mth(mid, hi)])
       ELSE Append(PathTo(i, k, mid, hi), [side |-> "L", hash |-> Mth(lo, mid)])

Powers == {1, 2, 4, 8}
Nodes(n) == UNION {{<<i, (n-1) \div k>> : i \in 0..((n-1) \div k)} : k \in Powers}
Level(at, n) == CHOOSE k \in Powers : at[2] = (n-1) \div k
Trees ==
  [n \in MCSizes |-> [at \in Nodes(n) |->
     LET k == Level(at, n) IN Mth(at[1] * k, Min({(at[1] + 1) * k, n}))]]
Paths == [n \in MCSizes |-> [at \in Nodes(n) |-> PathTo(at[1] * Level(at, n), Level(at, n), 0, n)]]

MCTree == Trees
MCPathOf == Paths

-----------------------------------------------------------------------------
Ap(n) == [current |-> TRUE, merkle_root |-> Root(n), leaf_count |-> n]
Shipped(n) == [payload |-> Ap(n), canonical |-> TRUE]
Ots(digest) == [head |-> "v1", digest |-> digest, tagged |-> TRUE, parses |-> TRUE, attestations |-> <<>>]
Package(n, i) ==
  [proof_id |-> i, eidas_payload |-> Payload(i), eidas_ok |-> TRUE, bitcoin_rpc |-> FALSE, deps |-> TRUE,
   anchor |-> TRUE, ots |-> TRUE, anchor_sha256 |-> Sha(Ap(n)),
   payloads |-> [anchor |-> Shipped(n), inclusion_anchor |-> Null],
   receipts |-> [anchor |-> Ots(Sha(Ap(n))), inclusion_anchor |-> Null],
   inclusion |->
     [proof_id |-> i, leaf_algo |-> TRUE, eidas_payload_sha256 |-> Sha(Payload(i)), leaf_hash |-> LeafOf(i),
      leaf_index |-> i, leaf_count |-> n, merkle_root |-> Root(n),
      audit_path |-> IF i < n THEN Paths[n][<<i, n-1>>] ELSE <<>>,
      anchor_payload |-> Ap(n), anchor_payload_sha256 |-> Sha(Ap(n)),
      payload_file |-> "anchor", receipt_file |-> "anchor"]]
(* Once for every tree and index; below, P is this table: all packages share *)
(* its terms.                                                                *)
PackageTable == [n \in MCSizes |-> [i \in 0..MaxLeaves-1 |-> Package(n, i)]]
ApIn(P, n) == P[n][0].inclusion.anchor_payload

(* A later anchor: the package has its own beside the one for its head.      *)
Later(p, head) ==
  [p EXCEPT !.payloads = [anchor |-> head.payloads.anchor, inclusion_anchor |-> @.anchor],
            !.receipts = [anchor |-> head.receipts.anchor, inclusion_anchor |-> @.anchor],
            !.anchor_sha256 = head.anchor_sha256,
            !.inclusion.payload_file = "inclusion_anchor", !.inclusion.receipt_file = "inclusion_anchor"]
(* The leaf of l under the index, the size and the path of others, and that  *)
(* path cut short, one longer, with a side turned or an element lost.        *)
Turned(s) == IF s = "L" THEN "R" ELSE "L"
Cut(path) ==
  <<path, Append(path, [side |-> "L", hash |-> <<3>>])>> \o
  (IF path = <<>> THEN <<path, path, path, path, path>>
   ELSE <<Tail(path), SubSeq(path, 1, Len(path) - 1), [path EXCEPT ![1] = Null],
          [path EXCEPT ![1].side = Turned(@)], [path EXCEPT ![Len(path)].side = Turned(@)]>>)
LeafSeq == FlattenSeq([n \in MCSizes |-> [k \in 1..n |-> <<n, k - 1>>]])
ForLeaves(F(_, _)) == [k \in 1..Len(LeafSeq) |-> F(LeafSeq[k][1], LeafSeq[k][2])]
Written(P) ==
  ForLeaves(LAMBDA n, i : P[n][i]) \o ForLeaves(LAMBDA n, i : Later(P[n][i], P[1][0]))
  \o ForLeaves(LAMBDA n, i : Later(P[n][i], P[2][0]))
MCIssued == 1..3 * Len(LeafSeq)   \* Written
MovedLeaf(p, i, P) ==
  ForLeaves(LAMBDA m, j :
    [p EXCEPT !.inclusion.leaf_index = i, !.inclusion.audit_path = P[m][j].inclusion.audit_path])
Moved(P) ==
  FlattenSeq([n \in MCSizes |-> FlattenSeq([l \in 1..MaxLeaves |->
    FlattenSeq([i \in 1..MaxLeaves |-> MovedLeaf(P[n][l - 1], i - 1, P)])])])
ClaimedAs(i, count, cut, P) ==
  ForLeaves(LAMBDA n, j :
    [P[n][j] EXCEPT !.inclusion.leaf_index = i, !.inclusion.leaf_count = count,
                    !.inclusion.audit_path = Cut(@)[cut]])
Claimed(P) ==
  FlattenSeq([i \in 1..MaxLeaves+1 |-> FlattenSeq([count \in MCSizes |->
    FlattenSeq([cut \in 1..7 |-> ClaimedAs(i - 1, count, cut, P)])])])

Edited(p, one, proof0) ==
  <<[p EXCEPT !.proof_id = 0], [p EXCEPT !.eidas_ok = FALSE], [p EXCEPT !.anchor = FALSE],
    [p EXCEPT !.anchor_sha256 = Null], [p EXCEPT !.anchor_sha256 = Sha(one)],
    [p EXCEPT !.eidas_payload = Null], [p EXCEPT !.eidas_payload = proof0],
    [p EXCEPT !.eidas_payload.proof_id = Null], [p EXCEPT !.eidas_payload.proof_id = 0],
    [p EXCEPT !.payloads["anchor"] = Null], [p EXCEPT !.payloads["anchor"].payload = one],
    [p EXCEPT !.payloads["anchor"].canonical = FALSE], [p EXCEPT !.receipts["anchor"] = Null],
    [p EXCEPT !.receipts["anchor"].digest = Sha(one)], [p EXCEPT !.receipts["anchor"].head = "v2"],
    [p EXCEPT !.receipts["anchor"].head = "other"], [p EXCEPT !.receipts["anchor"].tagged = FALSE],
    [p EXCEPT !.receipts["anchor"] = Null, !.ots = FALSE]>>
EditedInclusion(p, one, two, proof0) ==
  <<p, [p EXCEPT !.inclusion = Null], [p EXCEPT !.inclusion = Unreadable],
    [p EXCEPT !.inclusion.proof_id = Null], [p EXCEPT !.inclusion.proof_id = 0],
    [p EXCEPT !.inclusion.leaf_algo = FALSE], [p EXCEPT !.inclusion.eidas_payload_sha256 = Sha(proof0)],
    [p EXCEPT !.inclusion.leaf_hash = LeafOf(0)], [p EXCEPT !.inclusion.leaf_index = Null],
    [p EXCEPT !.inclusion.leaf_count = Null], [p EXCEPT !.inclusion.audit_path = Null],
    [p EXCEPT !.inclusion.merkle_root = Null], [p EXCEPT !.inclusion.merkle_root = two.merkle_root],
    [p EXCEPT !.inclusion.anchor_payload = Null], [p EXCEPT !.inclusion.anchor_payload = two],
    [p EXCEPT !.inclusion.anchor_payload.current = FALSE],
    [p EXCEPT !.inclusion.anchor_payload_sha256 = Sha(one)],
    [p EXCEPT !.inclusion.payload_file = "elsewhere"], [p EXCEPT !.inclusion.receipt_file = "elsewhere"]>>
(* Another payload, its digest in inclusion.json and the leaf as it was.     *)
Restamped(p, e) == [p EXCEPT !.eidas_payload = e, !.inclusion.eidas_payload_sha256 = Sha(e)]
Bases(p, head) ==
  <<p, Later(p, head), Restamped(p, [p.eidas_payload EXCEPT !.text = otherBody]), [p EXCEPT !.proof_id = 2]>>
Edits(P) ==
  FlattenSeq([n \in 1..4 |-> FlattenSeq([m \in 1..19 |->
    Edited(EditedInclusion(Bases(P[3][1], P[2][0])[n], ApIn(P, 1), ApIn(P, 2), Payload(0))[m],
           ApIn(P, 1), Payload(0))])])

(* Receipts of the anchor with up to two attestations, right and wrong.      *)
Attestation(h, p) == [height |-> h, path |-> p]
Attestations ==
  <<Attestation(1, p1), Attestation(1, p2), Attestation(2, p1), Attestation(2, p2), Attestation(9, p1)>>
Pairs == <<<<1, 4>>, <<4, 1>>, <<1, 1>>, <<1, 3>>, <<3, 1>>, <<4, 5>>>>
Several ==
  <<<<>>>> \o [a \in 1..5 |-> <<Attestations[a]>>]
  \o [n \in 1..Len(Pairs) |-> <<Attestations[Pairs[n][1]], Attestations[Pairs[n][2]]>>]
Asking(p, atts) == [p EXCEPT !.bitcoin_rpc = TRUE, !.receipts["anchor"].attestations = atts]
Broken(p, other) ==
  <<[p EXCEPT !.receipts["anchor"].parses = FALSE], [p EXCEPT !.deps = FALSE], [p EXCEPT !.anchor_sha256 = other]>>
WithNode(same, head, receipts) ==
  [n \in 1..Len(receipts) |-> Asking(same, receipts[n])]
  \o [n \in 1..Len(receipts) |->
        [Asking(Later(same, head), <<Attestation(2, p1)>>)
           EXCEPT !.receipts["inclusion_anchor"].attestations = receipts[n]]]
  \o Broken(Asking(same, <<Attestation(1, p1)>>), head.anchor_sha256)
AllFrom(P) == Written(P) \o Moved(P) \o Claimed(P) \o Edits(P) \o WithNode(P[2][1], P[1][0], Several)
(* A definition of its own: TLC evaluates it once, and not at every use.     *)
Cases == AllFrom(PackageTable)
MCPackages == Cases

MCBlocks == {b1, b2, b3}
MCHeaderRoot ==
  [b \in MCBlocks |-> CASE b = b1 -> Commit(Sha(Ap(2)), p1) [] b = b2 -> Commit(Sha(Ap(2)), p2)
                        [] OTHER -> Commit(Sha(Ap(1)), p1)]
MCChains == {<<b1, b2>>, <<b1, b3>>, <<b3, b2>>}
=============================================================================
