------------------------ MODULE MCCredentialRecovery ------------------------
(* Instances of CredentialRecovery for TLC.                                *)
EXTENDS CredentialRecovery
=============================================================================
