----------------------------- MODULE MCHashChain -----------------------------
(***************************************************************************)
(* Logs of up to three entries over two contents, so that a chain can be   *)
(* cut at either end, re-linked and mixed.                                 *)
(***************************************************************************)
EXTENDS HashChain

CONSTANTS a, b
MCContents == {a, b}
Level1 == {Empty} \X MCContents
Level2 == Level1 \X MCContents
MCNodes == Level1 \cup Level2 \cup (Level2 \X MCContents)
=============================================================================
