CONSTANTS
    r1 = r1
    r2 = r2
    a1 = a1
    a2 = a2
    i1 = i1
    i2 = i2
    i3 = i3
    i4 = i4
    i5 = i5
    Resources <- TwoResources
    Apis <- MCApis
    Names <- MCNames
    Ids <- MCIds
    ExternalName <- DistinctExternalNames
    Nil = Nil
    MaxFailures = 1
    MaxEdits = 1
    MaxForeign = 1
SYMMETRY Symmetry
SPECIFICATION Spec
INVARIANT TypeOK
INVARIANT NoDuplicateAuthorizer
PROPERTY DeletesOnlyExternalName
