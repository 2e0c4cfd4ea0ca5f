\* A build of an org that extends another one, over every version of the files with
\* at most two of the variations, and with an edit between two readings.
CONSTANTS
    Versions <- MCVersions
    World <- MCWorld
    Start <- MCStart
    PackStart <- MCPackStart
    PackRequests <- MCPackRequests
    Edits <- MCEdits
    Requests <- MCRequests
    Bare <- MCBare
    Library <- MCLibrary
    Groups <- MCGroups
    Specialists <- MCSpecialists
    Natives <- MCNatives
    Dynamic <- MCDynamic
    Retrieval <- MCRetrieval
    None = None
SPECIFICATION AgentsSpec
INVARIANTS
    ExcludedComesBack
    WideOnlyWhenUnlisted
    SupervisorOnlyOptedIn
    AuditCovers
    KitAgrees
    OffloadedCanBeFetched
    AncestorExclusionsHold
    PackStandsAlone
    ShippedWasScanned
    VerifyTells
CHECK_DEADLOCK FALSE
