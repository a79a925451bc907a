SPECIFICATION Spec
CONSTANTS
    o1 = o1
    o2 = o2
    g1 = g1
    Onus <- MCOnus
    OLT = OLT
    NNI = NNI
    Controller = Controller
    None = None
    Any = Any
    Groups = {g1}
    FlowMods <- MCFlowMods
    MaxFlows = 2
INVARIANTS
    RoutesFresh
    DevicesFollow
    FlowsUnique
