CONSTANTS
    Values <- MCValues
    Nil = Nil
    MaxFailures = 0
    MaxEdits = 0
    MaxDrift = 1
SPECIFICATION Spec
PROPERTY UpdateSendsOnlySetParameters
