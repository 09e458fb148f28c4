------------------------------ MODULE MCReport -----------------------------
(***************************************************************************)
(* Mld2Report for TLC; groups and sources are interchangeable.             *)
(***************************************************************************)
EXTENDS Mld2Report

T == INSTANCE TLC

Interchangeable == T!Permutations(Groups) \cup T!Permutations(Sources)
=============================================================================
