------------------------- MODULE MCVendorResolution -------------------------
(***************************************************************************)
(* Instances of VendorResolution.  Three texts spell two names, one is     *)
(* blank; of the keywords two are equally long and one is longer.          *)
(***************************************************************************)
EXTENDS VendorResolution, TLC

MCNormalizeLooseText ==
    "Acme" :> "acme" @@ "ACME " :> "acme" @@ "Beta" :> "beta" @@ " " :> ""

MCRuneCount == "bill" :> 4 @@ "paid" :> 4 @@ "invoice" :> 7

Mail(name, domain, sender, subject) ==
    [name |-> name, domain |-> domain, sender |-> sender, subject |-> subject]

MCMails ==
    {Mail("Acme", "acme.example", " ", {}),
     Mail("ACME ", "", "Beta", {"bill", "paid"}),
     Mail("Beta", "", " ", {"bill", "paid"}),
     Mail(" ", "acme.example", " ", {"bill", "paid", "invoice"})}

MCVendors == {"acme", "beta"}

RunSymmetry == Permutations(Runs)
=============================================================================
