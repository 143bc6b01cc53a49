---------------------------- MODULE MCConfigSync ----------------------------
(***************************************************************************)
(* Instances of ConfigSync: a unit with the AUTH module and a module that  *)
(* it does not import, REPLICATION or RESET; a second unit that runs AUTH  *)
(* and DOOR and changes its configuration once.                            *)
(***************************************************************************)
EXTENDS ConfigSync, TLC

MCRank == "AUTH" :> 1 @@ "DOOR" :> 2 @@ "REPLICATION" :> 3 @@ "RESET" :> 4

Cfg(level, data) == [level |-> level, data |-> data]

FileWith(own) ==
    [ kconfig |-> "instance_name" :> "slave" @@ "plugin_directories" :> "p0"
                  @@ "log" :> "l0" @@ "no_import" :> {own},
      modules |-> "AUTH" :> Cfg(41, "a0") @@ own :> Cfg(11, "r0") ]

MCFile == FileWith("REPLICATION")

\* The general configuration is imported by tag.
MCFileReset == [FileWith("RESET") EXCEPT !.kconfig = @ @@ "sync_dest" :> {"log", "network"}]

MasterConfig(v, auth, others) ==
    [ kconfig |-> "instance_name" :> "master" @@ "plugin_directories" :> "p0"
                  @@ "log" :> auth,
      modules |-> "AUTH" :> Cfg(41, auth) @@ others,
      version |-> v,
      instance_name |-> "master" ]

MCMaster ==
    << MasterConfig(5, "a5", "DOOR" :> Cfg(50, "d5")),
       MasterConfig(6, "a6", "DOOR" :> Cfg(50, "d6")) >>

\* The other unit also runs RESET.
MCMasterReset ==
    << MasterConfig(5, "a5", "RESET" :> Cfg(101, "t5")),
       MasterConfig(6, "a6", "RESET" :> Cfg(101, "t5")) >>

\* The other unit exports only its log configuration, as in the documentation.
MCMasterLogOnly ==
    << [MCMaster[1] EXCEPT !.kconfig = @ @@ "sync_source" :> {"log"}] >>

\* Only AUTH on both sides.
MCFileAuth == [MCFile EXCEPT !.modules = Only(@, {"AUTH"})]
MCMasterAuth == [k \in 1..2 |-> [MCMaster[k] EXCEPT !.modules = Only(@, {"AUTH"})]]
MCMasterAuthFixed == << MCMasterAuth[1] >>

MCFlags(S) == [q \in Request |-> q \in S]
MCAutocommit == MCFlags({"q2"})
MCGeneral == MCFlags({"q2"})
=============================================================================
