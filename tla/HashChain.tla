------------------------------ MODULE HashChain ------------------------------
(***************************************************************************)
(* check_chain_integrity of core.py, entry by entry, on a package whose    *)
(* chain files were edited after they left the service's log.  A digest is *)
(* the pair of what it hashes: SHA-256 is taken to be collision-free, and  *)
(* event_type|proof_id|data_hash is one value, the entry's content.        *)
(***************************************************************************)
EXTENDS Integers, Sequences

CONSTANTS
  Contents,      \* event_type|proof_id|data_hash of an entry
  Nodes,         \* the digests an edited prev_hash may hold
  Null, Empty,   \* a missing field or file; the empty string
  Malformed,     \* a line of proof_chain.jsonl that is not JSON
  MaxLog,        \* bound on the service's log
  MaxEdits       \* bound on the changes made to the chain files

Digests == (Nodes \cup {Empty}) \X Contents
Entries == [seq : Int, prev : Nodes \cup {Null, Empty}, content : Contents,
            hash : Nodes \cup Digests]
ASSUME ChainAssumption ==
  /\ {Null, Empty, Malformed} \cap (Digests \cup Nodes) = {} /\ Malformed \notin Entries
  /\ Null \notin BOOLEAN
  /\ MaxLog \in Nat /\ MaxEdits \in Nat

VARIABLES
  log,         \* the service's chain, entry by entry
  file, head,  \* chain/proof_chain.jsonl and chain/chain_head.json of the package
  edits,       \* changes made so far
  pc,          \* "log", "held", then the phases of check_chain_integrity
  i,           \* the entry the loop is at
  failures,    \* the length of check_chain_integrity's list
  passed       \* the check's result, Null while it runs

vars == <<log, file, head, edits, pc, i, failures, passed>>

(* sha256 of prev_hash|content, a missing prev_hash hashed as "".          *)
Digest(prev, content) == <<IF prev = Null THEN Empty ELSE prev, content>>
Entry(seq, prev, content) ==
  [seq |-> seq, prev |-> prev, content |-> content, hash |-> Digest(prev, content)]
HeadOf(entry) == [seq |-> entry.seq, hash |-> entry.hash]

Init ==
  /\ log = <<>> /\ file = <<>> /\ head = Null
  /\ edits = 0 /\ pc = "log" /\ i = 0 /\ failures = 0 /\ passed = Null

-----------------------------------------------------------------------------
(* The service appends entries, and exports the chain from some entry on   *)
(* (external: the repository holds no producer).                           *)
LastHash == IF log = <<>> THEN Null ELSE log[Len(log)].hash
AppendEntry ==
  /\ pc = "log" /\ Len(log) < MaxLog /\ LastHash \in Nodes \cup {Null}
  /\ \E c \in Contents : log' = Append(log, Entry(Len(log), LastHash, c))
  /\ UNCHANGED <<file, head, edits, pc, i, failures, passed>>
Export ==
  /\ pc = "log"
  /\ \E first \in 1..Len(log), last \in 1..Len(log) :
       /\ first <= last
       /\ file' = SubSeq(log, first, last)
       /\ head' = HeadOf(log[last])
  /\ pc' = "held"
  /\ UNCHANGED <<log, edits, i, failures, passed>>

(* The holder edits the files.                                             *)
Editing == pc = "held" /\ edits < MaxEdits /\ edits' = edits + 1
           /\ UNCHANGED <<log, pc, i, failures, passed>>
Readable == \A k \in 1..Len(file) : file[k] # Malformed
EditLine == \E k \in 1..Len(file) :
  /\ Editing /\ UNCHANGED head
  /\ \/ file' = [file EXCEPT ![k] = Malformed]
     \/ /\ file[k] # Malformed
        /\ \/ \E c \in Contents : file' = [file EXCEPT ![k].content = c]
           \/ \E h \in Nodes \cup {Null, Empty} : file' = [file EXCEPT ![k].prev = h]
           \/ \E h \in Nodes : file' = [file EXCEPT ![k].hash = h]
           \/ file' = [file EXCEPT ![k].hash = Digest(file[k].prev, file[k].content)]
           \/ file' = [file EXCEPT ![k].seq = @ + 1]
DropLine == \E k \in 1..Len(file) :
  /\ Editing /\ UNCHANGED head
  /\ file' = SubSeq(file, 1, k - 1) \o SubSeq(file, k + 1, Len(file))
SwapLines == \E k \in 1..(Len(file) - 1) :
  /\ Editing /\ UNCHANGED head
  /\ file' = [file EXCEPT ![k] = file[k + 1], ![k + 1] = file[k]]
(* Recompute a line's link and its hash, as far as Nodes reaches.          *)
Relink == \E k \in 2..Len(file) :
  /\ Editing /\ UNCHANGED head
  /\ file[k - 1] # Malformed /\ file[k] # Malformed /\ file[k - 1].hash \in Nodes
  /\ file' = [file EXCEPT ![k].prev = file[k - 1].hash,
                          ![k].hash = Digest(file[k - 1].hash, file[k].content)]
EditHead ==
  /\ Editing /\ UNCHANGED file
  /\ \/ head' = Null
     \/ \E k \in 1..Len(log) : head' = HeadOf(log[k])
     \/ \E k \in 1..Len(file) : file[k] # Malformed /\ head' = HeadOf(file[k])
Hold == EditLine \/ DropLine \/ SwapLines \/ Relink \/ EditHead

-----------------------------------------------------------------------------
(* Every line is parsed before any is checked; no file, no entry or a      *)
(* malformed line fails the check at once.                                 *)
Parse ==
  /\ pc = "held"
  /\ IF file # <<>> /\ Readable
     THEN pc' = "walk" /\ i' = 1 /\ UNCHANGED passed
     ELSE pc' = "done" /\ passed' = FALSE /\ UNCHANGED i
  /\ UNCHANGED <<log, file, head, edits, failures>>

(* One round of the loop.  It never stops early: failures add up.          *)
\* Mutant: a missing prev_hash is not hashed as "".
BadHash_NoDefault(k) == file[k].hash # <<file[k].prev, file[k].content>>
BadHash(k) == file[k].hash # Digest(file[k].prev, file[k].content)
\* Mutant: the link of every second entry only.
BadLink_OffByOne(k) == k > 2 /\ file[k].prev # file[k - 1].hash
BadLink(k) == k > 1 /\ file[k].prev # file[k - 1].hash
One(bad) == IF bad THEN 1 ELSE 0
\* Mutant: every second entry.
WalkEntry_Skips ==
  /\ pc = "walk" /\ i <= Len(file)
  /\ failures' = failures + One(BadHash(i)) + One(BadLink(i))
  /\ i' = i + 2
  /\ UNCHANGED <<log, file, head, edits, pc, passed>>
WalkEntry ==
  /\ pc = "walk" /\ i <= Len(file)
  /\ failures' = failures + One(BadHash(i)) + One(BadLink(i))
  /\ i' = i + 1
  /\ UNCHANGED <<log, file, head, edits, pc, passed>>

(* chain_head.json, when there is one, must name the last entry.           *)
Last == file[Len(file)]
BadHead == head # Null /\ head # HeadOf(Last)
CheckHead ==
  /\ pc = "walk" /\ i > Len(file)
  /\ failures' = failures + One(BadHead)
  /\ passed' = (failures' = 0)
  /\ pc' = "done"
  /\ UNCHANGED <<log, file, head, edits, i>>

Next == AppendEntry \/ Export \/ Hold \/ Parse \/ WalkEntry \/ CheckHead
Spec == Init /\ [][Next]_vars

-----------------------------------------------------------------------------
TypeOK ==
  /\ log \in Seq(Entries) /\ Len(log) <= MaxLog
  /\ file \in Seq(Entries \cup {Malformed}) /\ Len(file) <= MaxLog
  /\ head \in {Null} \cup [seq : Int, hash : Nodes \cup Digests]
  /\ edits \in 0..MaxEdits
  /\ pc \in {"log", "held", "walk", "done"} /\ i \in 0..(MaxLog + 1)
  /\ failures \in Nat /\ passed \in {Null} \cup BOOLEAN

(* README "Layer 3": a passing chain whose last entry the service wrote     *)
(* (chain_head.json's hash is the one in the log, as the anchor shows) is,  *)
(* entry for entry, the part of the log that ends there: nothing hashed was *)
(* changed, dropped, inserted or moved, however many lines were edited.     *)
EndsAt(k) == Last.hash = log[k].hash
SameHashed(entry, logged) ==
  Digest(entry.prev, entry.content) = Digest(logged.prev, logged.content)
SuffixOfLog ==
  passed = TRUE =>
    \A k \in 1..Len(log) : EndsAt(k) =>
      /\ Len(file) <= k
      /\ \A j \in 0..(Len(file) - 1) : SameHashed(file[Len(file) - j], log[k - j])

(* An export nobody edited passes.                                          *)
UneditedPasses ==
  pc = "done" /\ (\E first \in 1..Len(log), last \in 1..Len(log) :
      first <= last /\ file = SubSeq(log, first, last) /\ head = HeadOf(log[last]))
    => passed = TRUE

(* README.md:396, "Modify chain entry | Layer 3": the entries of a passing   *)
(* chain that ends at the entry its head names carry the sequence numbers   *)
(* the service gave them.                                                   *)
NoEntryModified ==
  passed = TRUE => \A k \in 1..Len(log) : head = HeadOf(log[k]) =>
    \A j \in 0..(Len(file) - 1) : file[Len(file) - j].seq = log[k - j].seq
=============================================================================
