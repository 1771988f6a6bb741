----------------------------- MODULE MCVendor -----------------------------
(***************************************************************************)
(* Instances of VendorRegistration for TLC.                                *)
(***************************************************************************)
EXTENDS VendorRegistration
===========================================================================
