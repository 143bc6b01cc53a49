CONSTANTS
    None = None
    Replication = "REPLICATION"
    Round = {}
    Request = {"q1", "q2"}
    Autocommit <- MCAutocommit
    General <- MCGeneral
    File <- MCFileReset
    Master <- MCMasterReset
    Installed = {"AUTH", "DOOR", "REPLICATION", "RESET"}
    Broken = {"a6"}
    Rank <- MCRank
SPECIFICATION Spec
INVARIANTS
    FetchIsSnapshot
    VersionTellsModules
    NoImportKept
    InstanceNameKept
CHECK_DEADLOCK FALSE
