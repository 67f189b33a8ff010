\* Detect runs once and the process exits: the final state has no successor.
CONSTANTS
    v1 = v1
    NoName = NoName
    Unset = Unset
    Vendors <- MCVendors
    MaxPieces = 2

SPECIFICATION Spec

CHECK_DEADLOCK FALSE

INVARIANTS
    VendorsFollowConfig
    SelectionHonoured
