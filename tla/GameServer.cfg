SPECIFICATION GsSpec
CONSTANTS
    alice = alice
    bob = bob
    carol = carol
    a1 = a1
    b1 = b1
    b2 = b2
    cc1 = cc1
    None = None
    Conns = {a1, b1, b2, cc1}
    NameOf <- McNameOf
    Mods <- McMods
    g1 = g1
    g2 = g2
    Games = {g1, g2}
    Scenarios <- McScenarios
INVARIANTS
    GsTypeOK
    
    SidesArePlayed
SYMMETRY McSymmetry
CONSTRAINT McOneGoesOn
PROPERTY LobbySpec
