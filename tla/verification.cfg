CONSTANTS
    Addresses = {a1, a2}
    Requests = {r1, r2, r3}
    None = None
    maxResendCountPerWindow = 1
    Faults = {"error", "mail_lost"}
SPECIFICATION AccessSpec
SYMMETRY MCSymmetry
INVARIANTS
    VerificationInv
    AnsweredAccountIsTheOnlyOne
    LinkVerifiesItsAccount
    FailedRegistrationLeavesNothing
    ResendsLimited
    AdmittedByOwnLink
