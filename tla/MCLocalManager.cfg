CONSTANTS
    c1 = c1
    c2 = c2
    Conns = {c1, c2}
    Kinds <- MCKinds
    g1 = g1
    Groups = {g1}
    GroupOf <- MCGroupOf
    Api = Api
    Null = Null
    MaxRestarts = 1
    MaxTimeouts = 1
SPECIFICATION Spec
INVARIANTS LinkedAsConfigured NoDanglingLink OneInput NoLeak
    HolderIsAnswered
CHECK_DEADLOCK FALSE
