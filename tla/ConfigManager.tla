---------------------------- MODULE ConfigManager ---------------------------
(***************************************************************************)
(* core/config/ConfigManager.cpp as operators on the state of the object.  *)
(*                                                                         *)
(* kernel_config_ is a function from the tags that are present to their    *)
(* values.  The value of "sync_source" and "sync_dest" is the set of tags  *)
(* they set to true, that of "no_import" a set of module names, and that   *)
(* of any other tag stands for its content.  modules_configs_ is a         *)
(* function from module names to configurations.                           *)
(***************************************************************************)
EXTENDS Naturals

\* The part of f on S.
Only(f, S) == [x \in DOMAIN f \cap S |-> f[x]]

\* f with the values of g put over it.
Put(f, g) ==
    [x \in DOMAIN f \cup DOMAIN g |-> IF x \in DOMAIN g THEN g[x] ELSE f[x]]

\* The function that maps k to v and nothing else.
Entry(k, v) == [x \in {k} |-> v]

-----------------------------------------------------------------------------
FileVersion(kconfig) ==
    IF "version" \in DOMAIN kconfig THEN kconfig["version"] ELSE 0

\* The object built from the general configuration in a file.
Constructed(kconfig) ==
    [ kconfig       |-> kconfig,
      modules       |-> [m \in {} |-> 0],
      version       |-> FileVersion(kconfig),
      instance_name |-> kconfig["instance_name"] ]

\* The tags that get_general_config() copies.
GeneralTags ==
    {"remote", "plugin_directories", "log", "network", "autosave", "sync_dest",
     "no_import", "instance_name"}

get_general_config(cm) ==
    Put(Only(cm.kconfig, GeneralTags), Entry("version", cm.version))

\* What GENERAL_CONFIG answers.
get_exportable_general_config(cm) ==
    LET general == get_general_config(cm)
        private == {"no_import", "instance_name"}
    IN  IF "sync_source" \notin DOMAIN cm.kconfig
        THEN Only(general, DOMAIN general \ private)
        ELSE Only(general, cm.kconfig["sync_source"] \ private)

\* What save_config() writes: the general configuration and every module's.
get_application_config(cm) ==
    [kconfig |-> get_general_config(cm), modules |-> cm.modules]

\* Mutant of set_kconfig: the instance name is not put back.
set_kconfig_renames(cm, new) ==
    [cm EXCEPT !.kconfig = Put(new, Only(cm.kconfig, {"no_import", "kernel-cfg"}))]

\* The general configuration new of another unit is merged into ours.
set_kconfig(cm, new) ==
    LET kept == Only(cm.kconfig, {"no_import", "kernel-cfg"})
        name == Entry("instance_name", cm.instance_name)
        merged == IF "sync_dest" \notin DOMAIN cm.kconfig
                  THEN Put(Put(new, kept), name)
                  ELSE Put(cm.kconfig, Only(new, cm.kconfig["sync_dest"]))
    IN  [cm EXCEPT !.kconfig = merged]

has_config(cm, module) == module \in DOMAIN cm.modules

get_non_importable_modules(cm) ==
    IF "no_import" \in DOMAIN cm.kconfig THEN cm.kconfig["no_import"] ELSE {}

\* Mutant of is_module_importable: every module is.
every_module_importable(cm, module) == TRUE

is_module_importable(cm, module) == module \notin get_non_importable_modules(cm)

config_version(cm, version) == [cm EXCEPT !.version = version]
=============================================================================
