SPECIFICATION FairSpec
CONSTANTS
    Namespace = {"home", "seat"}
    Home = "home"
    User = {"ann", "Ann"}
    Group = {"default/staff", "staff"}
    Lower <- Lowers
    Last <- Lasts
    ConnSpec <- Specs
    Annotations <- Seats
    Model <- Brains
    Handiwork <- Hands
    Absent = Absent
    Empty = Empty
    Nothing = Nothing
    MaxEdits = 2
    MaxFaults = 1
INVARIANTS TypeOK OffersExact
PROPERTIES RoutesSettle
