CONSTANTS
    alice = alice
    bob = bob
    h1 = h1
    h2 = h2
    NoEntry = NoEntry
    NoGrant = NoGrant
    Conn = {c1, c2}
    Client = {alice, bob}
    Host = {h1, h2}
    Grants <- MCGrants
SPECIFICATION FairSpec
INVARIANTS NoGhost OneOwner LastWriteWinsAlone UnroutedIsDoomed
PROPERTIES ImplementsTable KickReaches ClosedIsForgotten HandshakeResolves ShutdownDrains
