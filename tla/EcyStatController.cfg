SPECIFICATION FairSpec
CONSTANTS
    Temps = {cool, warm}
    NotFinite = NotFinite
    Malformed = Malformed
    Lost = Lost
    NotRead = NotRead
INVARIANTS
    TypeOK
    VerifiedConfirmed
    FieldReportsHonest
    SessionClosed
PROPERTIES
    WritesAuthorized
    FanAfterTarget
    ImplementsContract
    EveryCallReturns
