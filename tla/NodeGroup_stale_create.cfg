CONSTANTS
    Versions <- MCVersions
    Sizes <- MCSizes
    DefaultVersion = "1.15"
    DefaultSize = "2"
    UserTags <- MCUserTags
    ExternalTags <- MCExternalTags
    Nil = Nil
    MaxFailures = 1
    MaxEdits = 1
    MaxOOB = 1
    MaxDegrade = 0
SPECIFICATION FairSpec
PROPERTY Converges
