CONSTANTS
    None = None
    Replication = "REPLICATION"
    Round = {"r1", "r2"}
    Request = {}
    Autocommit <- MCAutocommit
    General <- MCGeneral
    File <- MCFile
    Master <- MCMasterAuthFixed
    Installed = {"AUTH", "DOOR", "REPLICATION", "RESET"}
    Broken = {}
    Rank <- MCRank
SPECIFICATION FairSpec
PROPERTIES
    ReactorServed
CHECK_DEADLOCK FALSE
