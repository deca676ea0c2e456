---------------------------- MODULE MCIamAccounts ----------------------------
(* Instances of IamAccounts and IdentityQuery for TLC.                     *)
EXTENDS IdentityQuery, TLC

MCSymmetry == Permutations(Logins) \cup Permutations(Admins)
=============================================================================
