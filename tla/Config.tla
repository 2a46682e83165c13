------------------------------- MODULE Config -------------------------------
(***************************************************************************)
(* The configuration (source/core/config.c): a JSON object kept in memory, *)
(* validated when it is read, written back after every change, replaced by *)
(* the default of the program when it cannot be read.  Every setting is a  *)
(* key with a value; a value no check accepts is "bad".                    *)
(***************************************************************************)
EXTENDS Integers, FiniteSets

CONSTANTS ConfigKeys,   \* the settings, those of the nested objects included
          ConfigValues, \* what a setting can validly be
          MaxSets,      \* bound: changes and restarts
          BadFile       \* stands for a file that is missing or holds no object

ASSUME ConfigAssumption == ConfigValues # {}

DefaultValue == CHOOSE v \in ConfigValues : TRUE
DefaultConfig == [k \in ConfigKeys |-> DefaultValue]
Objects == UNION {[K -> ConfigValues \cup {"bad"}] : K \in SUBSET (ConfigKeys \cup {"other"})}

NoJson == <<>>

VARIABLES configInit, \* g_configInterfaceInit
          configJson, \* g_configJson
          configFile, \* the file, an object, or BadFile: missing or torn
          sets,       \* bound
          lasting     \* history: the object the last complete write stored

cfgvars == <<configInit, configJson, configFile, sets, lasting>>

CfgInit == /\ configInit = FALSE /\ configJson = NoJson /\ sets = 0
           /\ configFile \in Objects \cup {BadFile}
           /\ lasting = BadFile

\* Mutant of configValidateJsonRootObject: a missing key goes unnoticed.
ValidateKnownKeys(obj) == \A k \in DOMAIN obj : k \in ConfigKeys /\ obj[k] \in ConfigValues

\* configValidateJsonRootObject and the four nested objects: every key is
\* known and its value valid, and none is missing.
configValidateJsonRootObject(obj) ==
  /\ \A k \in DOMAIN obj : k \in ConfigKeys /\ obj[k] \in ConfigValues
  /\ ConfigKeys \subseteq DOMAIN obj

\* json_object_to_file_ext truncates first: a failed write leaves no object.
configWriteConfigJson(obj, ok) ==
  /\ configFile' = IF ok THEN obj ELSE BadFile
  /\ lasting' = IF ok THEN obj ELSE BadFile

\* configParseConfigJson, with configResetConfigJson when the file is of no use.
configInitialize(ok) ==
  /\ ~configInit /\ configInit' = TRUE
  /\ IF configFile # BadFile /\ configValidateJsonRootObject(configFile)
     THEN configJson' = configFile /\ UNCHANGED <<configFile, lasting>>
     ELSE configJson' = DefaultConfig /\ configWriteConfigJson(DefaultConfig, ok)
  /\ UNCHANGED sets

\* configSetBoolean, configSetInteger.
configSet(k, v, ok) ==
  /\ configInit /\ sets < MaxSets /\ sets' = sets + 1
  /\ configJson' = [configJson EXCEPT ![k] = v]
  /\ configWriteConfigJson(configJson', ok)
  /\ UNCHANGED configInit

configResetSettings(ok) ==
  /\ configInit /\ sets < MaxSets /\ sets' = sets + 1
  /\ configJson' = DefaultConfig
  /\ configWriteConfigJson(DefaultConfig, ok)
  /\ UNCHANGED configInit

configExit ==
  /\ configInit /\ configInit' = FALSE /\ configJson' = NoJson
  /\ UNCHANGED <<configFile, sets, lasting>>

CfgNext == \/ \E ok \in BOOLEAN :
                \/ configInitialize(ok) \/ configResetSettings(ok)
                \/ \E k \in ConfigKeys, v \in ConfigValues : configSet(k, v, ok)
           \/ configExit

----------------------------------------------------------------------------
\* Whatever file is found, and whichever write of an earlier run failed, a
\* running program has a complete and valid configuration, and the settings
\* whose write succeeded are the ones it starts with again.
ConfigSurvives ==
  configInit => /\ configJson \in [ConfigKeys -> ConfigValues]
                /\ lasting # BadFile => configJson = lasting
=============================================================================
