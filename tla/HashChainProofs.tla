--------------------------- MODULE HashChainProofs ---------------------------
(***************************************************************************)
(* check_chain_integrity authenticates the whole file from its last entry, *)
(* for logs and files of any length and any edits.  The chain is verified  *)
(* from the front and trusted from the back, so the invariant is indexed   *)
(* by the entry the loop has reached: if that entry is one of the log's,   *)
(* everything before it is the log's too.                                  *)
(***************************************************************************)
EXTENDS HashChain, SequenceTheorems, TLAPS

(* The log is what AppendEntry makes it.                                   *)
LogLinked == \A k \in 1..Len(log) :
  /\ log[k].hash = Digest(log[k].prev, log[k].content)
  /\ k = 1 => log[k].prev = Null
  /\ k > 1 => log[k].prev = log[k - 1].hash

(* Entry n of the file and all before it agree with the log, wherever the  *)
(* log holds entry n's hash.                                               *)
Walked(n) == \A k \in 1..Len(log) :
  file[n].hash = log[k].hash =>
    n <= k /\ \A j \in 0..(n - 1) : SameHashed(file[n - j], log[k - j])

WalkInv ==
  /\ pc = "walk" => Readable /\ file # <<>> /\ i \in 1..(Len(file) + 1)
  /\ pc = "walk" /\ failures = 0 /\ i > 1 => Walked(i - 1)
  /\ passed = TRUE => pc = "done" /\ file # <<>> /\ Walked(Len(file))
ChainInv == TypeOK /\ LogLinked /\ WalkInv

-----------------------------------------------------------------------------
LEMMA EntryType ==
  ASSUME NEW seq \in Int, NEW prev \in Nodes \cup {Null, Empty}, NEW content \in Contents
  PROVE  Digest(prev, content) \in Digests /\ Entry(seq, prev, content) \in Entries
BY DEF Digest, Digests, Entry, Entries

LEMMA AppendType == TypeOK /\ LogLinked /\ AppendEntry => TypeOK' /\ LogLinked'
<1> SUFFICES ASSUME TypeOK, LogLinked, AppendEntry PROVE TypeOK' /\ LogLinked'
  OBVIOUS
<1>1. PICK c \in Contents : log' = Append(log, Entry(Len(log), LastHash, c))
  BY DEF AppendEntry
<1>2. Len(log) \in Nat /\ LastHash \in Nodes \cup {Null}
  BY DEF AppendEntry, TypeOK
<1>3. Entry(Len(log), LastHash, c) \in Entries
  BY <1>2, EntryType
<1>4. log' \in Seq(Entries) /\ Len(log') = Len(log) + 1
  BY <1>1, <1>3 DEF TypeOK
<1>5. TypeOK'
  BY <1>2, <1>4, ChainAssumption DEF AppendEntry, TypeOK
<1>6. LogLinked'
  <2> SUFFICES ASSUME NEW k \in 1..Len(log')
               PROVE  /\ log'[k].hash = Digest(log'[k].prev, log'[k].content)
                      /\ k = 1 => log'[k].prev = Null
                      /\ k > 1 => log'[k].prev = log'[k - 1].hash
    BY DEF LogLinked, Digest
  <2>1. CASE k <= Len(log)
    <3>1. log'[k] = log[k] /\ (k > 1 => log'[k - 1] = log[k - 1])
      BY <1>1, <1>2, <2>1 DEF TypeOK
    <3>2. QED BY <1>2, <2>1, <3>1 DEF LogLinked
  <2>2. CASE k = Len(log) + 1
    <3>1. log'[k] = Entry(Len(log), LastHash, c) /\ (k > 1 => log'[k - 1] = log[k - 1])
      BY <1>1, <1>2, <2>2 DEF TypeOK
    <3>2. k = 1 => log = <<>>
      BY <2>2 DEF TypeOK
    <3>3. k > 1 => log # <<>> /\ k - 1 = Len(log)
      BY <1>2, <2>2
    <3>4. QED BY <3>1, <3>2, <3>3 DEF Entry, LastHash
  <2>3. QED BY <1>2, <1>4, <2>1, <2>2
<1>7. QED BY <1>5, <1>6

LEMMA ExportType == TypeOK /\ Export => TypeOK'
<1> SUFFICES ASSUME TypeOK, Export PROVE TypeOK'
  OBVIOUS
<1>1. PICK first \in 1..Len(log), last \in 1..Len(log) :
        first <= last /\ file' = SubSeq(log, first, last) /\ head' = HeadOf(log[last])
  BY DEF Export
<1>2. Len(log) \in Nat /\ log \in Seq(Entries) /\ log[last] \in Entries
  BY DEF TypeOK
<1>3. file' \in Seq(Entries) /\ Len(file') = last - first + 1
  BY <1>1, <1>2
<1>4. file' \in Seq(Entries \cup {Malformed}) /\ Len(file') <= MaxLog
  BY <1>1, <1>2, <1>3, ChainAssumption DEF TypeOK
<1>5. head' \in [seq : Int, hash : Nodes \cup Digests]
  BY <1>1, <1>2 DEF HeadOf, Entries
<1>6. QED BY <1>4, <1>5 DEF Export, TypeOK

LEMMA LineType ==
  ASSUME TypeOK, Editing, UNCHANGED head, NEW k \in 1..Len(file),
         NEW line \in Entries \cup {Malformed}, file' = [file EXCEPT ![k] = line]
  PROVE  TypeOK'
<1>1. edits' \in 0..MaxEdits
  BY ChainAssumption DEF Editing, TypeOK
<1>2. file' \in Seq(Entries \cup {Malformed}) /\ Len(file') = Len(file)
  BY DEF TypeOK
<1>3. QED BY <1>1, <1>2 DEF Editing, TypeOK

LEMMA EditLineType == TypeOK /\ EditLine => TypeOK'
<1> SUFFICES ASSUME TypeOK, EditLine PROVE TypeOK'
  OBVIOUS
<1>1. PICK k \in 1..Len(file) :
        /\ Editing /\ UNCHANGED head
        /\ \/ file' = [file EXCEPT ![k] = Malformed]
           \/ /\ file[k] # Malformed
              /\ \/ \E c \in Contents : file' = [file EXCEPT ![k].content = c]
                 \/ \E h \in Nodes \cup {Null, Empty} : file' = [file EXCEPT ![k].prev = h]
                 \/ \E h \in Nodes : file' = [file EXCEPT ![k].hash = h]
                 \/ file' = [file EXCEPT ![k].hash = Digest(file[k].prev, file[k].content)]
                 \/ file' = [file EXCEPT ![k].seq = @ + 1]
  BY DEF EditLine
<1>2. CASE file' = [file EXCEPT ![k] = Malformed]
  BY <1>1, <1>2, LineType
<1>3. CASE file[k] # Malformed
  <2>1. file[k] \in Entries
    BY <1>1, <1>3 DEF TypeOK
  <2>2. /\ file[k].prev \in Nodes \cup {Null, Empty} /\ file[k].content \in Contents
        /\ file[k].seq \in Int
    BY <2>1 DEF Entries
  <2>3. ASSUME NEW c \in Contents, file' = [file EXCEPT ![k].content = c] PROVE TypeOK'
    <3>1. [file[k] EXCEPT !.content = c] \in Entries
      BY <2>1 DEF Entries
    <3>2. QED BY <1>1, <2>3, <3>1, LineType
  <2>4. ASSUME NEW h \in Nodes \cup {Null, Empty}, file' = [file EXCEPT ![k].prev = h]
        PROVE  TypeOK'
    <3>1. [file[k] EXCEPT !.prev = h] \in Entries
      BY <2>1 DEF Entries
    <3>2. QED BY <1>1, <2>4, <3>1, LineType
  <2>5. ASSUME NEW h \in Nodes \cup Digests, file' = [file EXCEPT ![k].hash = h] PROVE TypeOK'
    <3>1. [file[k] EXCEPT !.hash = h] \in Entries
      BY <2>1 DEF Entries
    <3>2. QED BY <1>1, <2>5, <3>1, LineType
  <2>6. Digest(file[k].prev, file[k].content) \in Digests
    BY <2>2 DEF Digest, Digests
  <2>7. ASSUME file' = [file EXCEPT ![k].seq = @ + 1] PROVE TypeOK'
    <3>1. [file[k] EXCEPT !.seq = @ + 1] \in Entries
      BY <2>1, <2>2 DEF Entries
    <3>2. QED BY <1>1, <2>7, <3>1, LineType
  <2>8. QED BY <1>1, <1>2, <2>3, <2>4, <2>5, <2>6, <2>7
<1>4. QED BY <1>1, <1>2, <1>3

LEMMA DropLineType == TypeOK /\ DropLine => TypeOK'
<1> SUFFICES ASSUME TypeOK, DropLine PROVE TypeOK'
  OBVIOUS
<1>1. PICK k \in 1..Len(file) :
        /\ Editing /\ UNCHANGED head
        /\ file' = SubSeq(file, 1, k - 1) \o SubSeq(file, k + 1, Len(file))
  BY DEF DropLine
<1> DEFINE Line == Entries \cup {Malformed}
           front == SubSeq(file, 1, k - 1)
           back == SubSeq(file, k + 1, Len(file))
<1>2. file \in Seq(Line) /\ Len(file) \in Nat
  BY DEF TypeOK
<1>3. front \in Seq(Line) /\ Len(front) = k - 1
  BY <1>2
<1>4. back \in Seq(Line) /\ Len(back) = Len(file) - k
  BY <1>2
<1> HIDE DEF front, back, Line
<1>5. front \o back \in Seq(Line) /\ Len(front \o back) = Len(front) + Len(back)
  BY <1>3, <1>4, ConcatProperties
<1>6. file' = front \o back
  BY <1>1 DEF front, back
<1>10. file' \in Seq(Line) /\ Len(file') = Len(file) - 1
  <2>1. file' \in Seq(Line) /\ Len(file') = Len(front) + Len(back)
    BY <1>5, <1>6, Zenon
  <2>2. k \in Int
    BY <1>2
  <2>3. QED BY <1>2, <1>3, <1>4, <2>1, <2>2
<1>7. edits' \in 0..MaxEdits
  BY <1>1, ChainAssumption DEF Editing, TypeOK
<1>8. Len(file') <= MaxLog
  BY <1>2, <1>10, ChainAssumption DEF TypeOK
<1>9. QED BY <1>1, <1>10, <1>7, <1>8 DEF Editing, TypeOK, Line

LEMMA HoldType == TypeOK /\ Hold => TypeOK'
<1> SUFFICES ASSUME TypeOK, Hold PROVE TypeOK'
  OBVIOUS
<1>1. CASE EditLine BY <1>1, EditLineType
<1>2. CASE DropLine BY <1>2, DropLineType
<1>3. CASE SwapLines
  <2>1. PICK k \in 1..(Len(file) - 1) :
          /\ Editing /\ UNCHANGED head
          /\ file' = [file EXCEPT ![k] = file[k + 1], ![k + 1] = file[k]]
    BY <1>3 DEF SwapLines
  <2>2. file' \in Seq(Entries \cup {Malformed}) /\ Len(file') = Len(file)
    BY <2>1 DEF TypeOK
  <2>3. edits' \in 0..MaxEdits
    BY <2>1, ChainAssumption DEF Editing, TypeOK
  <2>4. QED BY <2>1, <2>2, <2>3 DEF Editing, TypeOK
<1>4. CASE Relink
  <2>1. PICK k \in 2..Len(file) :
          /\ Editing /\ UNCHANGED head
          /\ file[k - 1] # Malformed /\ file[k] # Malformed /\ file[k - 1].hash \in Nodes
          /\ file' = [file EXCEPT ![k].prev = file[k - 1].hash,
                                  ![k].hash = Digest(file[k - 1].hash, file[k].content)]
    BY <1>4 DEF Relink
  <2>2. file[k] \in Entries /\ k \in 1..Len(file)
    BY <2>1 DEF TypeOK
  <2>3. Digest(file[k - 1].hash, file[k].content) \in Digests
    BY <2>1, <2>2 DEF Entries, Digest, Digests
  <2> DEFINE line == [file[k] EXCEPT !.prev = file[k - 1].hash,
                                     !.hash = Digest(file[k - 1].hash, file[k].content)]
  <2>4. line \in Entries
    BY <2>1, <2>2, <2>3 DEF Entries
  <2>5. file' = [file EXCEPT ![k] = line]
    BY <2>1, <2>2 DEF TypeOK
  <2> HIDE DEF line
  <2>6. QED BY <2>1, <2>2, <2>4, <2>5, LineType
<1>5. CASE EditHead
  <2>1. ASSUME NEW entry \in Entries PROVE HeadOf(entry) \in [seq : Int, hash : Nodes \cup Digests]
    BY DEF HeadOf, Entries
  <2>2. \A k \in 1..Len(log) : log[k] \in Entries
    BY DEF TypeOK
  <2>3. \A k \in 1..Len(file) : file[k] # Malformed => file[k] \in Entries
    BY DEF TypeOK
  <2>4. head' \in {Null} \cup [seq : Int, hash : Nodes \cup Digests]
    BY <1>5, <2>1, <2>2, <2>3 DEF EditHead
  <2>5. edits' \in 0..MaxEdits
    BY <1>5, ChainAssumption DEF EditHead, Editing, TypeOK
  <2>6. QED BY <1>5, <2>4, <2>5 DEF EditHead, Editing, TypeOK
<1>6. QED BY <1>1, <1>2, <1>3, <1>4, <1>5 DEF Hold

LEMMA CheckType == TypeOK /\ (Parse \/ WalkEntry \/ CheckHead) => TypeOK'
<1> SUFFICES ASSUME TypeOK, Parse \/ WalkEntry \/ CheckHead PROVE TypeOK'
  OBVIOUS
<1>1. Len(file) \in Nat /\ MaxLog \in Nat
  BY ChainAssumption DEF TypeOK
<1>2. CASE Parse
  <2>1. pc' \in {"walk", "done"} /\ i' \in 0..(MaxLog + 1)
    BY <1>1, <1>2 DEF Parse, TypeOK
  <2>2. passed' = passed \/ passed' = FALSE
    BY <1>2 DEF Parse
  <2>3. passed' \in {Null} \cup BOOLEAN
    BY <2>2, Zenon DEF TypeOK
  <2>4. QED BY <1>2, <2>1, <2>3 DEF Parse, TypeOK
<1>3. CASE WalkEntry
  <2>1. failures' \in Nat
    BY <1>3 DEF WalkEntry, One, TypeOK
  <2>2. i' \in 0..(MaxLog + 1)
    BY <1>1, <1>3 DEF WalkEntry, TypeOK
  <2>3. QED BY <1>3, <2>1, <2>2 DEF WalkEntry, TypeOK
<1>4. CASE CheckHead
  BY <1>4 DEF CheckHead, One, TypeOK
<1>5. QED BY <1>2, <1>3, <1>4

-----------------------------------------------------------------------------
(* The heart of the argument.  A line whose hash is in the log hashes what *)
(* the logged entry hashes, its link included; SHA-256 being injective, so *)
(* does the line before it, and the log cannot have begun in between.      *)
LEMMA WalkBack ==
  ASSUME TypeOK, LogLinked, Readable, NEW n \in 1..Len(file),
         ~BadHash(n), ~BadLink(n), n > 1 => Walked(n - 1)
  PROVE  Walked(n)
<1> SUFFICES ASSUME NEW k \in 1..Len(log), file[n].hash = log[k].hash
             PROVE  n <= k /\ \A j \in 0..(n - 1) : SameHashed(file[n - j], log[k - j])
  BY DEF Walked
<1>1. /\ Len(file) \in Nat /\ Len(log) \in Nat
      /\ \A m \in 1..Len(file) : file[m] \in Entries
      /\ log[k] \in Entries
  BY DEF TypeOK, Readable
<1>2. SameHashed(file[n], log[k])
  BY DEF BadHash, LogLinked, SameHashed
<1>3. CASE n = 1
  BY <1>1, <1>2, <1>3
<1>4. CASE n > 1
  <2>1. file[n].prev = file[n - 1].hash /\ file[n - 1].hash \in Nodes \cup Digests
    BY <1>1, <1>4 DEF BadLink, Entries
  <2>2. file[n - 1].hash # Null /\ file[n - 1].hash # Empty
    BY <2>1, ChainAssumption
  <2>3. file[n - 1].hash = (IF log[k].prev = Null THEN Empty ELSE log[k].prev)
    BY <1>2, <2>1, <2>2 DEF SameHashed, Digest
  <2>4. log[k].prev # Null /\ log[k].prev = file[n - 1].hash
    BY <2>2, <2>3
  <2>5. k > 1 /\ log[k].prev = log[k - 1].hash
    BY <1>1, <2>4 DEF LogLinked
  <2>6. /\ n - 1 <= k - 1
        /\ \A j \in 0..(n - 2) : SameHashed(file[(n - 1) - j], log[(k - 1) - j])
    <3>1. Walked(n - 1) /\ k - 1 \in 1..Len(log) /\ file[n - 1].hash = log[k - 1].hash
      BY <1>1, <1>4, <2>4, <2>5
    <3>2. /\ n - 1 <= k - 1
          /\ \A j \in 0..((n - 1) - 1) : SameHashed(file[(n - 1) - j], log[(k - 1) - j])
      BY <3>1 DEF Walked
    <3>3. QED BY <3>2
  <2>7. ASSUME NEW j \in 0..(n - 1) PROVE SameHashed(file[n - j], log[k - j])
    <3>1. CASE j = 0 BY <1>1, <1>2, <3>1
    <3>2. CASE j > 0
      <4>1. j - 1 \in 0..(n - 2) /\ (n - 1) - (j - 1) = n - j /\ (k - 1) - (j - 1) = k - j
        BY <1>1, <3>2
      <4>2. QED BY <2>6, <4>1
    <3>3. QED BY <3>1, <3>2
  <2>8. QED BY <1>1, <2>6, <2>7
<1>5. QED BY <1>3, <1>4

LEMMA WalkStep == ChainInv /\ WalkEntry => WalkInv'
<1> SUFFICES ASSUME ChainInv, WalkEntry PROVE WalkInv'
  OBVIOUS
<1>1. /\ TypeOK /\ LogLinked /\ pc = "walk" /\ Readable /\ file # <<>>
      /\ i \in 1..Len(file) /\ Len(file) \in Nat /\ failures \in Nat
      /\ UNCHANGED <<log, file, pc, passed>> /\ i' = i + 1
  BY DEF ChainInv, WalkInv, WalkEntry, TypeOK
<1>2. passed # TRUE
  BY <1>1 DEF ChainInv, WalkInv
<1>3. ASSUME failures' = 0 PROVE Walked(i)
  <2>1. failures = 0 /\ ~BadHash(i) /\ ~BadLink(i)
    BY <1>1, <1>3 DEF WalkEntry, One
  <2>2. i > 1 => Walked(i - 1)
    BY <1>1, <2>1 DEF ChainInv, WalkInv
  <2>3. QED BY <1>1, <2>1, <2>2, WalkBack
<1>4. failures' = 0 => Walked(i - 1)'
  <2>1. i' - 1 = i
    BY <1>1
  <2>2. QED BY <1>1, <1>3, <2>1 DEF Walked, SameHashed
<1>5. Readable' /\ file' # <<>> /\ i' \in 1..(Len(file') + 1)
  BY <1>1 DEF Readable
<1>6. QED BY <1>1, <1>2, <1>4, <1>5 DEF WalkInv

LEMMA NextChain == ChainInv /\ [Next]_vars => ChainInv'
<1> SUFFICES ASSUME ChainInv, [Next]_vars PROVE ChainInv'
  OBVIOUS
<1>1. TypeOK /\ LogLinked /\ WalkInv /\ Len(file) \in Nat
  BY DEF ChainInv, TypeOK
<1>2. CASE AppendEntry
  <2>1. pc' = "log" /\ passed' # TRUE
    BY <1>1, <1>2 DEF AppendEntry, WalkInv
  <2>2. WalkInv'
    BY <2>1 DEF WalkInv
  <2>3. QED BY <1>1, <1>2, <2>2, AppendType DEF ChainInv
<1>3. CASE Export \/ Hold
  <2>1. pc' = "held" /\ passed' # TRUE /\ UNCHANGED log
    BY <1>1, <1>3 DEF Export, Hold, EditLine, DropLine, SwapLines, Relink, EditHead,
                      Editing, WalkInv
  <2>2. WalkInv' /\ LogLinked'
    BY <1>1, <2>1 DEF WalkInv, LogLinked
  <2>3. QED BY <1>1, <1>3, <2>2, ExportType, HoldType DEF ChainInv
<1>4. CASE Parse
  <2>1. passed' # TRUE /\ UNCHANGED <<log, file>>
    BY <1>1, <1>4 DEF Parse, WalkInv
  <2>2. pc' = "walk" => Readable' /\ file' # <<>> /\ i' = 1
    BY <1>1, <1>4 DEF Parse, Readable
  <2>3. LogLinked'
    BY <1>1, <2>1 DEF LogLinked
  <2>4. i' > 1 => pc' # "walk"
    BY <2>2
  <2>5. pc' = "walk" => i' \in 1..(Len(file') + 1)
    BY <1>1, <2>1, <2>2
  <2>6. WalkInv'
    BY <2>1, <2>2, <2>4, <2>5 DEF WalkInv
  <2>7. QED BY <1>1, <1>4, <2>3, <2>6, CheckType DEF ChainInv
<1>5. CASE WalkEntry
  <2>1. LogLinked'
    BY <1>1, <1>5 DEF WalkEntry, LogLinked
  <2>2. QED BY <1>1, <1>5, <2>1, WalkStep, CheckType DEF ChainInv
<1>6. CASE CheckHead
  <2>1. pc' = "done" /\ UNCHANGED <<log, file>> /\ file # <<>>
    BY <1>1, <1>6 DEF CheckHead, WalkInv
  <2>2. passed' = TRUE => Walked(Len(file))
    <3> SUFFICES ASSUME passed' = TRUE PROVE Walked(Len(file))
      OBVIOUS
    <3>1. failures = 0
      <4>1. failures + One(BadHead) = 0
        BY <1>6 DEF CheckHead
      <4>2. failures \in Nat /\ One(BadHead) \in Nat
        BY <1>1 DEF TypeOK, One
      <4>3. QED BY <4>1, <4>2
    <3>4. i = Len(file) + 1 /\ i > 1
      <4>1. i > Len(file) /\ i \in 1..(Len(file) + 1) /\ file # <<>>
        BY <1>1, <1>6 DEF CheckHead, WalkInv
      <4>2. Len(file) > 0
        BY <2>1 DEF TypeOK, ChainInv
      <4>3. QED BY <1>1, <4>1, <4>2
    <3>2. i - 1 = Len(file)
      BY <1>1, <3>4
    <3>3. QED BY <1>1, <1>6, <3>1, <3>2, <3>4 DEF CheckHead, WalkInv
  <2>3. WalkInv' /\ LogLinked'
    BY <1>1, <2>1, <2>2 DEF WalkInv, LogLinked, Walked, SameHashed
  <2>4. QED BY <1>1, <1>6, <2>3, CheckType DEF ChainInv
<1>7. CASE UNCHANGED vars
  BY <1>1, <1>7 DEF vars, ChainInv, TypeOK, LogLinked, WalkInv, Walked, SameHashed, Readable
<1>8. QED BY <1>2, <1>3, <1>4, <1>5, <1>6, <1>7 DEF Next

LEMMA InitChain == Init => ChainInv
<1> SUFFICES ASSUME Init PROVE ChainInv
  OBVIOUS
<1>1. TypeOK
  BY ChainAssumption DEF Init, TypeOK
<1>2. LogLinked /\ WalkInv
  <2>1. Len(log) = 0 /\ pc = "log" /\ passed = Null
    BY DEF Init
  <2>2. passed # TRUE
    BY <2>1, ChainAssumption
  <2>3. LogLinked
    BY <2>1 DEF LogLinked
  <2>4. WalkInv
    BY <2>1, <2>2 DEF WalkInv
  <2>5. QED BY <2>3, <2>4
<1>3. QED BY <1>1, <1>2 DEF ChainInv

(* The state of the walk is well typed: log, files, loop index, result.     *)
THEOREM TypeCorrect == Spec => []TypeOK
<1>1. ChainInv => TypeOK
  BY DEF ChainInv
<1>2. QED BY <1>1, InitChain, NextChain, PTL DEF Spec

(* A passing chain that ends at a logged entry is the part of the log that  *)
(* ends there, whatever was done to the files and however long they are.   *)
THEOREM SuffixAuthentic == Spec => []SuffixOfLog
<1>2. ChainInv => SuffixOfLog
  <2> SUFFICES ASSUME ChainInv, passed = TRUE, NEW k \in 1..Len(log), EndsAt(k)
               PROVE  /\ Len(file) <= k
                      /\ \A j \in 0..(Len(file) - 1) : SameHashed(file[Len(file) - j], log[k - j])
    BY DEF SuffixOfLog
  <2>1. Walked(Len(file))
    BY DEF ChainInv, WalkInv
  <2>2. QED BY <2>1 DEF Walked, EndsAt, Last
<1>3. QED BY <1>2, InitChain, NextChain, PTL DEF Spec

-----------------------------------------------------------------------------
(* The other direction: on an export as it was made nothing is counted.    *)
Unedited == \E first \in 1..Len(log), last \in 1..Len(log) :
  first <= last /\ file = SubSeq(log, first, last) /\ head = HeadOf(log[last])
CleanInv ==
  /\ pc \in {"log", "held"} => failures = 0
  /\ pc = "walk" /\ Unedited => failures = 0
  /\ pc = "done" /\ Unedited => passed = TRUE

LEMMA UneditedGood ==
  ASSUME TypeOK, LogLinked, Unedited
  PROVE  /\ file # <<>> /\ Readable /\ ~BadHead
         /\ \A k \in 1..Len(file) : ~BadHash(k) /\ ~BadLink(k)
<1>1. PICK first \in 1..Len(log), last \in 1..Len(log) :
        first <= last /\ file = SubSeq(log, first, last) /\ head = HeadOf(log[last])
  BY DEF Unedited
<1>2. /\ log \in Seq(Entries) /\ Len(log) \in Nat /\ first \in Int /\ last \in Int
      /\ 1 <= first /\ first <= last /\ last <= Len(log)
  BY <1>1 DEF TypeOK
<1>3. Len(file) = last - first + 1 /\ \A k \in 1..(last - first + 1) : file[k] = log[first + k - 1]
  BY <1>1, <1>2
<1>4. ASSUME NEW k \in 1..Len(file)
      PROVE  /\ first + k - 1 \in 1..Len(log) /\ file[k] = log[first + k - 1] /\ file[k] \in Entries
             /\ k > 1 => file[k - 1] = log[(first + k - 1) - 1] /\ first + k - 1 > 1
  <2>1. first + k - 1 \in 1..Len(log) /\ file[k] = log[first + k - 1]
    BY <1>2, <1>3
  <2>2. k > 1 => k - 1 \in 1..(last - first + 1) /\ first + (k - 1) - 1 = (first + k - 1) - 1
    BY <1>2, <1>3
  <2>3. k > 1 => file[k - 1] = log[(first + k - 1) - 1]
    BY <1>3, <2>2
  <2>4. file[k] \in Entries
    BY <1>2, <2>1
  <2> QED BY <1>2, <2>1, <2>3, <2>4
<1>5. file # <<>> /\ Readable
  BY <1>2, <1>3, <1>4, ChainAssumption DEF Readable
<1>6. ~BadHead
  <2>1. file[Len(file)] = log[last]
    BY <1>2, <1>3
  <2> QED BY <1>1, <2>1 DEF BadHead, Last
<1>7. ASSUME NEW k \in 1..Len(file) PROVE ~BadHash(k) /\ ~BadLink(k)
  BY <1>4 DEF LogLinked, BadHash, BadLink
<1> QED BY <1>5, <1>6, <1>7

LEMMA NextClean == ChainInv /\ CleanInv /\ [Next]_vars => CleanInv'
<1> SUFFICES ASSUME ChainInv, CleanInv, [Next]_vars PROVE CleanInv'
  OBVIOUS
<1>1. TypeOK /\ LogLinked /\ WalkInv /\ Len(file) \in Nat /\ failures \in Nat
  BY DEF ChainInv, TypeOK
<1>2. CASE AppendEntry \/ Export \/ Hold
  BY <1>2 DEF AppendEntry, Export, Hold, EditLine, DropLine, SwapLines, Relink, EditHead, Editing, CleanInv
<1>3. CASE UNCHANGED <<log, file, head>> /\ ~Unedited /\ pc' \in {"walk", "done"}
  BY <1>3 DEF CleanInv, Unedited
<1>4. ASSUME UNCHANGED <<log, file, head>>, Unedited PROVE Unedited'
  BY <1>4 DEF Unedited
<1>5. CASE Parse
  <2>1. UNCHANGED <<log, file, head>> /\ pc' \in {"walk", "done"} /\ failures' = 0
    BY <1>5 DEF Parse, CleanInv
  <2>2. CASE Unedited
    <3>1. pc' = "walk"
      BY <1>1, <1>5, <2>2, UneditedGood DEF Parse
    <3> QED BY <2>1, <3>1 DEF CleanInv
  <2> QED BY <1>3, <2>1, <2>2
<1>6. CASE WalkEntry
  <2>1. UNCHANGED <<log, file, head>> /\ pc = "walk" /\ pc' = "walk" /\ i \in 1..Len(file)
    BY <1>1, <1>6 DEF WalkEntry, WalkInv
  <2>2. CASE Unedited
    <3>1. failures = 0 /\ ~BadHash(i) /\ ~BadLink(i)
      BY <1>1, <2>1, <2>2, UneditedGood DEF CleanInv
    <3>2. failures' = 0
      BY <1>6, <3>1 DEF WalkEntry, One
    <3> QED BY <2>1, <3>2 DEF CleanInv
  <2> QED BY <1>3, <2>1, <2>2
<1>7. CASE CheckHead
  <2>1. UNCHANGED <<log, file, head>> /\ pc = "walk" /\ pc' = "done"
    BY <1>7 DEF CheckHead
  <2>2. CASE Unedited
    <3>1. failures = 0 /\ ~BadHead
      BY <1>1, <2>1, <2>2, UneditedGood DEF CleanInv
    <3>2. failures' = 0
      BY <1>7, <3>1 DEF CheckHead, One
    <3>3. passed' = TRUE
      BY <1>7, <3>2 DEF CheckHead
    <3> QED BY <2>1, <3>3 DEF CleanInv
  <2> QED BY <1>3, <2>1, <2>2
<1>8. CASE UNCHANGED vars
  BY <1>8 DEF vars, CleanInv, Unedited
<1> QED BY <1>2, <1>5, <1>6, <1>7, <1>8 DEF Next

(* An export of any length that nobody edited passes the check.             *)
THEOREM UneditedAccepted == Spec => []UneditedPasses
<1>1. Init => CleanInv
  BY DEF Init, CleanInv
<1>2. CleanInv => UneditedPasses
  BY DEF CleanInv, Unedited, UneditedPasses
<1> QED BY <1>1, <1>2, InitChain, NextChain, NextClean, PTL DEF Spec
=============================================================================
