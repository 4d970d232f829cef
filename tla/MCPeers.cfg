SPECIFICATION FairSpec
CONSTANTS
    MaxSends = 2
    MayClose <- Anybody
INVARIANT TypeOK
INVARIANT VersionsAgree
INVARIANT HonestNeverRejected
INVARIANT OnlyTheAdmittedSee
PROPERTY Settles
CHECK_DEADLOCK FALSE
