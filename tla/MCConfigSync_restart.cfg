CONSTANTS
    None = None
    Replication = "REPLICATION"
    Round = {"r1"}
    Request = {}
    Autocommit <- MCAutocommit
    General <- MCGeneral
    File <- MCFile
    Master <- MCMasterLogOnly
    Installed = {"AUTH", "DOOR", "REPLICATION", "RESET"}
    Broken = {}
    Rank <- MCRank
SPECIFICATION Spec
INVARIANTS
    UnitComesBack
CHECK_DEADLOCK FALSE
