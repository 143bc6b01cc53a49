CONSTANTS
    None = None
    Replication = "REPLICATION"
    Round = {"r1"}
    Request = {}
    Autocommit <- MCAutocommit
    General <- MCGeneral
    File <- MCFile
    Master <- MCMaster
    Installed = {"AUTH", "DOOR", "REPLICATION", "RESET"}
    Broken = {}
    Rank <- MCRank
SPECIFICATION Spec
INVARIANTS
    FetchCompleteAtSync
CHECK_DEADLOCK FALSE
