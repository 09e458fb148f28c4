------------------------------ MODULE MCLists ------------------------------
(***************************************************************************)
(* LinkList for TLC; nodes and items are interchangeable.                  *)
(***************************************************************************)
EXTENDS LinkList, TLC

Interchangeable == Permutations(Node) \cup Permutations(Items)
=============================================================================
