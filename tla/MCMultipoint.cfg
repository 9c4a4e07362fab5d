CONSTANTS
    Receivers = {rx, rxb}
    Transmitters = {tx, txb}
    Groups = {g1, g2}
    Bridges = {rxb, txb}
    Null = Null
SPECIFICATION FairSpec
INVARIANTS NoUseAfterFree OneHotThread LinksAgree
PROPERTIES ControlCompletes
