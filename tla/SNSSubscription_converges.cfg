CONSTANTS
    Values <- MCValues
    Nil = Nil
    MaxFailures = 1
    MaxEdits = 1
    MaxDrift = 2
SPECIFICATION FairSpec
INVARIANT TypeOK
INVARIANT DiffAgreesWithUpToDate
PROPERTY Converges
PROPERTY ImplementsFairManagedResource
