CONSTANTS
    a1 = a1  a2 = a2  i1 = i1  i2 = i2  i3 = i3  i4 = i4  i5 = i5
    Nil = Nil
    Apis <- MCApis
    Keys <- MCKeys
    Ids <- MCIds
    Filter = "byKey"
    MaxFailures = 1
    MaxEdits = 1
    DomainDeletable = FALSE
    MaxForeign = 1

SPECIFICATION FairSpec

PROPERTY Converges
