CONSTANTS
    None = None
    Replication = "REPLICATION"
    Round = {"r1"}
    Request = {"q2"}
    Autocommit <- MCAutocommit
    General <- MCGeneral
    File <- MCFile
    Master <- MCMasterAuthFixed
    Installed = {"AUTH", "DOOR", "REPLICATION", "RESET"}
    Broken = {}
    Rank <- MCRank
SPECIFICATION FairSpec
INVARIANTS
    TypeOK
    InstanceNameKept
PROPERTIES
    NoModuleRunsDuringImport
    
    SyncTakesEffect
CHECK_DEADLOCK FALSE
