-------------------------- MODULE MCVerification --------------------------
(***************************************************************************)
(* Instances of AccessTokens and the modules it extends for TLC.           *)
(***************************************************************************)
EXTENDS AccessTokens, TLC

MCSymmetry == Permutations(Requests) \union Permutations(Addresses)
===========================================================================
