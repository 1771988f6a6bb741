--------------------------- MODULE MCConnection ---------------------------
(***************************************************************************)
(* Instances of MailAccountConnection for TLC.                             *)
(***************************************************************************)
EXTENDS MailboxAccess, TLC

\* Users, addresses, states and callbacks are interchangeable.
ConnectionSymmetry ==
    Permutations(Users) \union Permutations(Addresses)
        \union Permutations(States) \union Permutations(Runs) \union Permutations(Callbacks)
===========================================================================
