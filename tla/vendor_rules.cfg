SPECIFICATION Spec
CONSTANTS
    Runs = {r1, r2}
    None = None
    Mails <- MCMails
    NormalizeLooseText <- MCNormalizeLooseText
    RuneCount <- MCRuneCount
    Vendors <- MCVendors
    TooLong = {"beta"}
    MaxAdded = 2
SYMMETRY RunSymmetry
INVARIANTS
    DecisionJustified
    SameNameSameDecision
