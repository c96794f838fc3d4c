SPECIFICATION FairSpec
CONSTANTS
    a = a
    b = b
    c = c
    Keys = {a, b, c}
    MaxObjects = 1
    Dispatches = TRUE
    MaxUploads = 3
    MaxFaults = 1
    Flights <- TwoFlights
    StreamsOf <- Streams
    Tables = {c}
    Unreadable <- Damaged
INVARIANTS
    RegistryIsTrue
    ShownIsExact
    SavedIsDecoded
    ReadersFindPlots
PROPERTIES
    ReceivedIsImmutable
    ProductsNeverShrink
    SuccessIsEarned
    FlightsCatchUp
