------------------------- MODULE MCCredentialStore --------------------------
(* The processes, profiles and tokens of credentials.cfg are alike. *)
EXTENDS CredentialStore, TLC

Symmetry == Permutations(Processes) \cup Permutations(Profiles) \cup Permutations(Tokens)
=============================================================================
