------------------------------ MODULE MCFetchAgain ------------------------------
(* Copies of a repository with two branches that leave the same root.      *)
EXTENDS CloneRepository

MCParents == <<{}, {1}, {1}>>
=============================================================================
