------------------------------- MODULE MCCore -------------------------------
(***************************************************************************)
(* The application core on small instances: Titles and App together, or    *)
(* the log, or the configuration, which share nothing with them.           *)
(***************************************************************************)
EXTENDS App, Log, Config

VARIABLE focus \* which of the independent parts moves

allvars == <<appvars, logvars, cfgvars, focus>>

Key(type, id, ver) == [type |-> type, id |-> id, ver |-> ver]

\* Three applications, their patches, two add-on contents and a data patch each.
A == 8192
B == 16384
C == 24576
AppK(x) == Key(Application, x, 0)
PatchK(x, v) == Key(Patch, x + 2048, v)
AocK(x, n) == Key(AddOnContent, x + 4096 + n, 0)
DPatchK(x, n) == Key(DataPatch, x + 4096 + 2048 + n, 1)
SysK(id) == Key(1, id, 0)

MCSystemTitles == {256, 257}

World(user, sd, ns, ctl, broken, sdIn) ==
  [sys |-> {SysK(256), SysK(258)}, user |-> user, sd |-> sd, ns |-> ns, ctl |-> ctl,
   broken |-> broken, sdIn |-> sdIn]

MCWorlds ==
  { \* A installed on two storages; a patch and an add-on content of B wait for B
    World({AppK(A), PatchK(A, 1), AocK(A, 1), PatchK(B, 1)},
          {PatchK(A, 2), AocK(A, 2), AocK(B, 1), DPatchK(A, 1)}, {A}, {A, B}, {}, TRUE),
    \* NS knows nothing, no SD card title storage, an unreadable title
    World({PatchK(B, 1), AocK(B, 2), AocK(C, 1), Key(Delta, A + 3072, 0)}, {}, {}, {C},
          {AocK(B, 2)}, FALSE),
    \* B on the console as well, of which NS has no control data
    World({AppK(A), AppK(B)}, {DPatchK(B, 1), AocK(B, 1)}, {A, B}, {A}, {}, TRUE),
    \* records without control data, and a storage without a usable title
    World({AppK(A)}, {}, {A}, {}, {}, TRUE),
    World({AppK(A)}, {AocK(A, 1)}, {A}, {A}, {AocK(A, 1)}, TRUE),
    \* several titles that wait for B, and nothing else
    World({AocK(B, 2), DPatchK(B, 1), DPatchK(B, 2)}, {}, {}, {}, {}, TRUE)}

MCCards ==
  { [keys |-> {AppK(B), PatchK(B, 2), AocK(B, 1)}, ncm |-> TRUE, loads |-> TRUE, nca |-> {}],
    [keys |-> {PatchK(B, 3), AocK(C, 2)}, ncm |-> TRUE, loads |-> TRUE, nca |-> {}],
    [keys |-> {AppK(C), PatchK(C, 1), AocK(C, 1), AocK(A, 1)}, ncm |-> FALSE,
     loads |-> TRUE, nca |-> {C}],
    [keys |-> {PatchK(B, 3)}, ncm |-> FALSE, loads |-> TRUE, nca |-> {B}],
    [keys |-> {AppK(A)}, ncm |-> FALSE, loads |-> FALSE, nca |-> {}] }

MCDevices == {{}, {"ums0"}, {"ums0", "ums1"}}

Calm == CHOOSE w \in Worlds : w.ns \subseteq w.ctl /\ w.sdIn /\ w.broken = {}

\* titles: every console and card, and what the title thread and the user
\* interface do with them.  start: a start that can fail at every step, and a
\* long running process.  ums: mass storage devices that come and go.
Init ==
  /\ AppInit /\ LogInit /\ CfgInit
  /\ focus \in {"titles", "start", "ums", "log", "config"}
  /\ focus # "titles" => world = Calm
  /\ focus \notin {"titles", "start"} => card = NoCard
  /\ focus # "config" => configFile = BadFile

StartStepFails == mpc = "start" /\ mpc' = "close" /\ StartOrder[step] # "title"

Within ==
  /\ focus # "start" => ~StartStepFails /\ ~longRun'
  /\ focus # "titles" => changes' = 0
  /\ focus # "ums" => umsChanges' = 0 /\ uiOutput' = "sd"

Next ==
  \/ /\ focus \in {"titles", "start", "ums"} /\ AppNext /\ Within
     /\ UNCHANGED <<logvars, cfgvars, focus>>
  \/ focus = "log" /\ LogNext /\ UNCHANGED <<appvars, cfgvars, focus>>
  \/ focus = "config" /\ CfgNext /\ UNCHANGED <<appvars, logvars, focus>>

Spec == Init /\ [][Next]_allvars /\ AppFairness
=============================================================================
