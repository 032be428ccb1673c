\* Two accounts of one realm, two discoveries, two panels and the host.
SPECIFICATION Spec
CONSTANTS
    ChatUsable = {"m1", "m2", "m3", "m4"}
    MaxPromotions = 2
    Accounts = {1, 2}
    RealmsOf <- SomeRealms
    Answers <- SomeAnswers
    b1 = b1
    b2 = b2
    Panels = {b1, b2}
    Touched = {"m1"}
    Host = Host
    Custom = "x"
    Orders <- SomeOrders
    Lists <- SomeLists
    Tiered = {"m1"}
    Tier = 7
    MaxFetches = 2
    MaxMoves = 3
SYMMETRY Symmetry
CHECK_DEADLOCK FALSE
INVARIANTS
    CatalogComplete
    PanelUnion
    ViewsAgree
    ConfigRules
