----------------------------- MODULE SealVerdict -----------------------------
(***************************************************************************)
(* What a verdict promises: a package changes hands until it is judged,    *)
(* once, and is only given a verdict it deserves; from then on neither the *)
(* package nor the verdict changes.                                        *)
(***************************************************************************)
CONSTANT Null
VARIABLES
  package,     \* whatever a package consists of
  deserves,    \* the verdicts it deserves
  verdict      \* Null until judged

vars == <<package, deserves, verdict>>

Init == verdict = Null
Change == verdict = Null /\ verdict' = Null
Judge == verdict = Null /\ verdict' \in deserves /\ UNCHANGED <<package, deserves>>
Next == Change \/ Judge
Spec == Init /\ [][Next]_vars
=============================================================================
