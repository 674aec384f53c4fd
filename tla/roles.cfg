SPECIFICATION Spec
CONSTANTS
    w1 = w1  w2 = w2
    ada = ada  bob = bob
    Nil = Nil
    Workers = {w1, w2}
    Users = {ada, bob}
    RoleNames <- MCRoleNames
    Catalogue <- MCCatalogue
    Stage <- MCStage
    Gives <- MCGives
    InitialRole <- MCInitialRole
    Requests <- MCRequests
    Faults = TRUE
SYMMETRY Interchangeable
PROPERTIES
    PowerComesFromOthers
    LeaderlessForever
    StagedRoleStrands
