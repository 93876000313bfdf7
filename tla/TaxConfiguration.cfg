SPECIFICATION Spec
CONSTANTS
    r1 = r1
    r2 = r2
    None = None
    EUMembers = {"AT", "DE"}
    RawPacks <- ShippedPacks
    GenericPack = "eu_generic"
    Countries = {"AT", "DE", "US"}
    OwnCodes = {"OWN"}
    CustomKeys <- Custom
    TypedRates = {0, 21}
    Requests = {r1, r2}
    MaxEdits = 3
    MaxOverlaps = 1
SYMMETRY Symmetry
INVARIANTS EverySalePriced OwnRateUnlessReason PairsAgree
PROPERTIES EditsSurvive UnsetStaysOff
CHECK_DEADLOCK FALSE
