---------------------------- MODULE MCRecommend -----------------------------
(* Small instances of Recommend for TLC. *)
EXTENDS Recommend

CONSTANTS pyTag, nodeTag, pyDoc, nodeDoc, python, node

MCRepoOf == [x \in Images \union Docs |-> IF x \in {pyTag, pyDoc} THEN python ELSE node]
=============================================================================
