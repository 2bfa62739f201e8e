------------------------ MODULE MCCredentialRefresh ------------------------
(* Instances of CredentialRefresh for TLC.                                 *)
EXTENDS CredentialRefresh, TLC

(* Workers are interchangeable; tokens and locks are not, CHOOSE picks them.*)
Symmetry == Permutations(Workers)
=============================================================================
