SPECIFICATION Spec
CONSTANTS
    q1 = q1
    q2 = q2
    i1 = i1
    i2 = i2
    i3 = i3
    None = None
    Requests = {q1, q2}
    MaxEdits = 4
    MaxOverlaps = 1
    Ids = {i1, i2, i3}
    Codes = {"OWN"}
    MaxNumber = 1
    PartyRoles <- RolesGiven
    Typed <- TypedNumbers
    Accounts = {i1, i2, i3}
    Ibans = {1, 2, 3}
    People = {i1, i2, i3}
    Owners = {1, 2}
    Mailboxes = {"a", "b"}
    MailedCodes = {1, 2}
    MaxAttempts = 1
    HasGuid = TRUE
    Chains <- Trees
    KindOf <- Identifiers
    Covered = {"DE1"}
    Heard <- Tries
    AddressForms <- Forms
    TaxCountries = {"DE"}
    Override <- DomesticAlways
    EUMembers = {"AT", "DE"}
    SellerCountry = "AT"
    SellerCodes <- AustrianCodes
    SellerClasses <- AustrianClasses
    SellerRules <- AustrianRules
SYMMETRY Symmetry
INVARIANTS OneLevelEach OneDefault NothingUntaxedUnproved BlankLevelTransparent TriesBounded
PROPERTIES SwitchStrandsNobody NumberedUnlessMissing DefaultOnlyAsAsked SuperadminRemains DeactivationHolds AddressProved
CHECK_DEADLOCK FALSE
