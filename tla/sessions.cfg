CONSTANTS
    Users = {u1, u2}
    Requests = {r1, r2, r3, r4}
    None = None
    Faults = {"error", "lost_reply"}
SPECIFICATION FairSpec
INVARIANTS
    SessionInv
    ChainsAreSound
PROPERTIES
    EndedStaysEnded
    RequestsAnswered
