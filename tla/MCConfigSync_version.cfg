CONSTANTS
    None = None
    Replication = "REPLICATION"
    Round = {}
    Request = {"q1", "q2"}
    Autocommit <- MCAutocommit
    General <- MCGeneral
    File <- MCFileAuth
    Master <- MCMasterAuth
    Installed = {"AUTH", "DOOR", "REPLICATION", "RESET"}
    Broken = {}
    Rank <- MCRank
SPECIFICATION Spec
PROPERTIES
    VersionIncreases
