-------------------------------- MODULE App ---------------------------------
(***************************************************************************)
(* The application core: utilsInitializeResources and utilsCloseResources  *)
(* (source/core/nxdt_utils.c) around the main loop of source/main.cpp,     *)
(* with the USB mass storage interface (source/core/ums.c), the repeating  *)
(* tasks that carry status changes to the user interface (source/tasks),   *)
(* and the tabs that show them (source/views).  Composed with Titles,      *)
(* whose game card info thread runs beside the main thread.                *)
(***************************************************************************)
EXTENDS Titles

CONSTANTS Devices,    \* sets of mass storage devices that can be plugged in
          MaxUms      \* bound: changes of the mass storage devices

VARIABLES
  mpc,        \* "start", "run", "close" or "end"
  step,       \* position in StartOrder or CloseOrder
  up,         \* resources that are initialized
  longRun,    \* g_longRunningProcess, with the HOME button and the clocks
  umsMutex,   \* g_umsMutex: "free" or its holder
  umsInit,    \* g_umsInterfaceInit
  umsDevices, \* g_umsDevices
  umsUpdated, \* g_umsDeviceInfoUpdated
  umsCall,    \* the devices a populate callback is bringing, or None
  umsChanges, \* bound
  upc,        \* what a task of the user interface is doing
  uiTitles,   \* user_metadata_info of TitleMetadataTask, shown by the titles tab
  uiDevices,  \* ums_devices of UmsTask
  uiOutput,   \* the chosen output storage: "sd", "usb" or a device
  uiCard,     \* the card status the game card tab shows, and the entries
  unseen      \* history: an update flag was overwritten before it was polled

umsvars == <<umsMutex, umsInit, umsDevices, umsUpdated, umsCall, umsChanges>>
uivars == <<upc, uiTitles, uiDevices, uiOutput, uiCard>>
mainvars == <<mpc, step, up, longRun>>
appvars == <<tvars, mainvars, umsvars, uivars, unseen>>

----------------------------------------------------------------------------
\* The resources in the order of the code.

StartOrder == <<"exitlock", "sdfs", "services", "nxlink", "environment", "http", "usb",
                "ums", "keys", "ncabuffer", "gamecard", "title", "bfttf", "sysupdate",
                "romfs", "config", "clockhook", "bis">>

CloseOrder == <<"bis", "devices", "longrun", "clockhook", "config", "romfs", "sysupdate",
                "bfttf", "title", "gamecard", "ncabuffer", "ums", "usb", "http",
                "nxlink", "services", "log", "exitlock">>

\* Steps of utilsInitializeResources that cannot fail.
CannotFail == {"exitlock", "nxlink", "clockhook"}
\* What has nothing to be closed, or is closed by the steps of other names.
NeverClosed == {"sdfs", "environment", "keys"}

\* What the code of a resource calls while it works.
Uses(r) ==
  CASE r = "title"     -> {"gamecard", "ncabuffer", "services", "keys"}
    [] r = "bfttf"     -> {"title", "ncabuffer", "services"}
    [] r = "sysupdate" -> {"title", "services"}
    [] r = "gamecard"  -> {"services", "keys"}
    [] r = "config"    -> {"romfs"}
    [] r = "longrun"   -> {"config", "services"}
    [] r = "bis"       -> {"services", "keys"}
    [] r \in {"usb", "http", "nxlink", "ums"} -> {"services"}
    [] OTHER -> {}

----------------------------------------------------------------------------
AppInit ==
  /\ TInit
  /\ mpc = "start" /\ step = 1 /\ up = {} /\ longRun = FALSE
  /\ umsMutex = "free" /\ umsInit = FALSE /\ umsDevices = {} /\ umsUpdated = FALSE
  /\ umsCall = None /\ umsChanges = 0
  /\ upc = "idle" /\ uiTitles = {} /\ uiDevices = {} /\ uiOutput = "sd"
  /\ uiCard = [loads |-> FALSE, keys |-> {}, entries |-> {}]
  /\ unseen = FALSE

Advance == step' = step + 1 /\ up' = up \cup {StartOrder[step]}

\* One step of utilsInitializeResources other than ums and title.
StartStep ==
  /\ mpc = "start" /\ step <= Len(StartOrder)
  /\ StartOrder[step] \notin {"ums", "title"}
  /\ Advance /\ UNCHANGED mpc
  /\ UNCHANGED <<tvars, longRun, umsvars, uivars, unseen>>

\* A step that fails: the message is shown, main returns, and the scope exit
\* closes the resources.
StartFails ==
  /\ mpc = "start" /\ step <= Len(StartOrder)
  /\ StartOrder[step] \notin CannotFail \cup {"title"}
  /\ mpc' = "close" /\ step' = 1
  /\ UNCHANGED <<tvars, up, longRun, umsvars, uivars, unseen>>

\* titleInitialize, with its own reasons to fail.
StartTitle ==
  /\ mpc = "start" /\ step <= Len(StartOrder) /\ StartOrder[step] = "title"
  /\ titleInitialize
  /\ IF titleInit' THEN Advance /\ UNCHANGED mpc
     ELSE mpc' = "close" /\ step' = 1 /\ UNCHANGED up
  /\ UNCHANGED <<longRun, umsvars, uivars, unseen>>

\* umsInitialize: the callback can run as soon as the library is up, and waits
\* for the mutex.
StartUms ==
  /\ mpc = "start" /\ step <= Len(StartOrder) /\ StartOrder[step] = "ums"
  /\ umsMutex = "free" /\ umsInit' = TRUE
  /\ Advance
  /\ UNCHANGED <<tvars, mpc, longRun, umsMutex, umsDevices, umsUpdated, umsCall,
                 umsChanges, uivars, unseen>>

\* RootView: TitleMetadataTask fills its lists when it is created.
StartUi ==
  /\ mpc = "start" /\ step > Len(StartOrder) /\ titleMutex = "free"
  /\ mpc' = "run" /\ uiTitles' = filtered.user
  /\ UNCHANGED <<tvars, step, up, longRun, umsvars, upc, uiDevices, uiOutput, uiCard, unseen>>

----------------------------------------------------------------------------
\* USB mass storage: the callback of the library's thread, in two steps.

UmsPlugged ==
  /\ "ums" \in up /\ umsCall = None /\ umsChanges < MaxUms
  /\ \E d \in Devices : d # umsDevices /\ umsCall' = d
  /\ umsChanges' = umsChanges + 1
  /\ UNCHANGED <<tvars, mainvars, umsMutex, umsInit, umsDevices, umsUpdated, uivars, unseen>>

umsPopulateCallback ==
  /\ umsCall # None /\ umsMutex = "free"
  /\ umsDevices' = umsCall /\ umsUpdated' = TRUE /\ umsCall' = None
  /\ UNCHANGED <<tvars, mainvars, umsMutex, umsInit, umsChanges, uivars, unseen>>

----------------------------------------------------------------------------
\* The repeating tasks, run by the main thread between two frames.

\* TitleMetadataTask::run: titleIsGameCardInfoUpdated only tries the lock.
PollTitles ==
  /\ mpc = "run" /\ upc = "idle"
  /\ titleMutex = "free" /\ titleInit /\ updated
  /\ updated' = FALSE /\ upc' = "titles"
  /\ UNCHANGED <<feed, titleMutex, titleInit, tpc, exitEvent, loaded, info, available,
                 mainvars, umsvars, uiTitles, uiDevices, uiOutput, uiCard, unseen>>

\* PopulateApplicationMetadataInfo, and the listener of the titles tab.
PopulateApplicationMetadataInfo ==
  /\ upc = "titles" /\ titleMutex = "free"
  /\ uiTitles' = filtered.user /\ upc' = "idle"
  /\ UNCHANGED <<tvars, mainvars, umsvars, uiDevices, uiOutput, uiCard, unseen>>

\* Mutant of PollUms: the flag is cleared and the new list is not asked for.
PollUmsDrops ==
  /\ mpc = "run" /\ upc = "idle"
  /\ umsMutex = "free" /\ umsInit /\ umsUpdated
  /\ umsUpdated' = FALSE
  /\ UNCHANGED <<tvars, mainvars, umsMutex, umsInit, umsDevices, umsCall, umsChanges,
                 uivars, unseen>>

\* UmsTask::run: umsIsDeviceInfoUpdated clears the flag.
PollUms ==
  /\ mpc = "run" /\ upc = "idle"
  /\ umsMutex = "free" /\ umsInit /\ umsUpdated
  /\ umsUpdated' = FALSE /\ upc' = "ums"
  /\ UNCHANGED <<tvars, mainvars, umsMutex, umsInit, umsDevices, umsCall, umsChanges,
                 uiTitles, uiDevices, uiOutput, uiCard, unseen>>

\* PopulateUmsDeviceVector, and the listener of RootView: an output storage
\* that is a device is given up.
PopulateUmsDeviceVector ==
  /\ upc = "ums" /\ umsMutex = "free"
  /\ uiDevices' = umsDevices /\ upc' = "idle"
  /\ uiOutput' = IF uiOutput \in {"sd", "usb"} THEN uiOutput ELSE "sd"
  /\ UNCHANGED <<tvars, mainvars, umsvars, uiTitles, uiCard, unseen>>

\* Mutant of PollCard: every application of the title interface is listed.
PollCardListsAll ==
  /\ mpc = "run" /\ upc = "idle" /\ titleMutex = "free"
  /\ card.loads # uiCard.loads
  /\ uiCard' = [loads |-> card.loads, keys |-> IF card.loads THEN card.keys ELSE {},
                entries |-> IF card.loads THEN {[app |-> a] : a \in filtered.user} ELSE {}]
  /\ UNCHANGED <<tvars, mainvars, umsvars, upc, uiTitles, uiDevices, uiOutput, unseen>>

\* GameCardStatusTask::run and GameCardTab::ProcessGameCardStatus: the list is
\* filled with the entries of the title interface.
PollCard ==
  /\ mpc = "run" /\ upc = "idle" /\ titleMutex = "free"
  /\ card.loads # uiCard.loads
  /\ uiCard' = [loads |-> card.loads, keys |-> IF card.loads THEN card.keys ELSE {},
                entries |-> IF card.loads /\ available THEN gcMeta ELSE {}]
  /\ UNCHANGED <<tvars, mainvars, umsvars, upc, uiTitles, uiDevices, uiOutput, unseen>>

\* The output storage list of the dump options offers the devices shown.
ChooseOutput ==
  /\ mpc = "run" /\ upc = "idle"
  /\ \E o \in {"sd", "usb"} \cup uiDevices : o # uiOutput /\ uiOutput' = o
  /\ UNCHANGED <<tvars, mainvars, umsvars, upc, uiTitles, uiDevices, uiCard, unseen>>

\* utilsSetLongRunningProcessState, by a task frame that starts and ends.
utilsSetLongRunningProcessState(state) ==
  /\ mpc = "run" /\ upc = "idle" /\ longRun # state /\ longRun' = state
  /\ UNCHANGED <<tvars, mpc, step, up, umsvars, uivars, unseen>>

Quit ==
  /\ mpc = "run" /\ upc = "idle"
  /\ mpc' = "close" /\ step' = 1
  /\ UNCHANGED <<tvars, up, longRun, umsvars, uivars, unseen>>

----------------------------------------------------------------------------
\* utilsCloseResources.

ClosingAt(r) == mpc = "close" /\ step <= Len(CloseOrder) /\ CloseOrder[step] = r
CloseDone(r) == step' = step + 1 /\ up' = up \ {r} /\ UNCHANGED mpc

CloseStep ==
  /\ mpc = "close" /\ step <= Len(CloseOrder)
  /\ CloseOrder[step] \notin {"title", "ums"}
  /\ CloseDone(CloseOrder[step])
  /\ longRun' = IF CloseOrder[step] = "longrun" THEN FALSE ELSE longRun
  /\ UNCHANGED <<tvars, umsvars, uivars, unseen>>

CloseTitleBegins ==
  /\ ClosingAt("title") /\ titleExitBegins("main")
  /\ UNCHANGED <<mainvars, umsvars, uivars, unseen>>

CloseTitleEnds ==
  /\ ClosingAt("title") /\ titleExitEnds("main")
  /\ CloseDone("title")
  /\ UNCHANGED <<longRun, umsvars, uivars, unseen>>

\* umsExit: usbHsFsExit waits for the library's thread, with the mutex held.
CloseUmsBegins ==
  /\ ClosingAt("ums") /\ umsMutex = "free" /\ umsMutex' = "main"
  /\ UNCHANGED <<tvars, mainvars, umsInit, umsDevices, umsUpdated, umsCall, umsChanges,
                 uivars, unseen>>

CloseUmsEnds ==
  /\ ClosingAt("ums") /\ umsMutex = "main" /\ umsCall = None
  /\ umsMutex' = "free" /\ umsInit' = FALSE /\ umsDevices' = {} /\ umsUpdated' = FALSE
  /\ CloseDone("ums")
  /\ UNCHANGED <<tvars, longRun, umsCall, umsChanges, uivars, unseen>>

CloseEnds ==
  /\ mpc = "close" /\ step > Len(CloseOrder)
  /\ mpc' = "end"
  /\ UNCHANGED <<tvars, step, up, longRun, umsvars, uivars, unseen>>

----------------------------------------------------------------------------
\* The card feed runs once the game card interface is up.
CardNext == /\ "gamecard" \in up /\ (CardChanges \/ CardSignals)
            /\ UNCHANGED <<mainvars, umsvars, uivars, unseen>>

TitleThreadNext ==
  /\ ThreadNext
  /\ unseen' = (unseen \/ (updated /\ ~updated' /\ tpc # "wait"))
  /\ UNCHANGED <<mainvars, umsvars, uivars>>

MainNext ==
  \/ StartStep \/ StartFails \/ StartTitle \/ StartUms \/ StartUi
  \/ PollTitles \/ PopulateApplicationMetadataInfo
  \/ PollUms \/ PopulateUmsDeviceVector \/ PollCard \/ ChooseOutput
  \/ utilsSetLongRunningProcessState(TRUE) \/ utilsSetLongRunningProcessState(FALSE)
  \/ Quit \/ CloseStep \/ CloseTitleBegins \/ CloseTitleEnds
  \/ CloseUmsBegins \/ CloseUmsEnds \/ CloseEnds

AppNext == MainNext \/ TitleThreadNext \/ CardNext \/ UmsPlugged \/ umsPopulateCallback

AppSpec == AppInit /\ [][AppNext]_appvars

\* Every step of the title thread, and nothing else, moves it from one of
\* these places to another: fairness is stated of the move, as the
\* enabledness of the whole action is costly to compute.  The start likewise.
ThreadPlaces == {"wait", "woken", "locked", "load", "ended"}
ThreadCanMove == \/ tpc = "wait" /\ (event \/ exitEvent)
                 \/ tpc = "woken" /\ titleMutex = "free"
                 \/ tpc \in {"locked", "load"}

\* The user decides when to quit, to choose and to plug; every other step is
\* taken by a thread that keeps running.
AppFairness ==
  /\ WF_<<mpc, step>>(/\ mpc = "start" /\ titleMutex = "free"
                      /\ mpc' \in {"start", "run", "close"} /\ step' \in {1, step, step + 1})
  /\ WF_appvars(PollTitles \/ PopulateApplicationMetadataInfo)
  /\ WF_appvars(PollUms \/ PopulateUmsDeviceVector)
  /\ WF_appvars(CloseStep \/ CloseTitleBegins \/ CloseTitleEnds \/ CloseUmsBegins
             \/ CloseUmsEnds \/ CloseEnds)
  /\ WF_tpc(ThreadCanMove /\ tpc' \in ThreadPlaces \ {tpc})
  /\ WF_appvars("gamecard" \in up /\ CardSignals /\ UNCHANGED <<mainvars, umsvars, uivars, unseen>>)
  /\ WF_appvars(umsPopulateCallback)

----------------------------------------------------------------------------
\* Properties.

\* A resource is closed while everything its code still calls is open, in an
\* early failure of the start as well as after the main loop.
CloseInOrder ==
  mpc = "close" /\ step <= Len(CloseOrder) =>
    LET r == CloseOrder[step]
    IN r \in up \/ (r = "longrun" /\ longRun) => Uses(r) \subseteq up

\* Everything is closed in order, and when main returns nothing is left: no
\* resource, thread, title info or device list, no mutex held, the HOME button is
\* free again.
CloseLeavesNothing ==
  /\ CloseInOrder
  /\ mpc = "end" =>
       /\ up \subseteq NeverClosed /\ ~longRun
       /\ tpc = "off" /\ ~titleInit /\ titleMutex = "free" /\ AllOf(arrays) = {}
       /\ userMeta = {} /\ ~available /\ ~updated /\ gcNames = None
       /\ ~umsInit /\ umsMutex = "free" /\ umsDevices = {}

\* The game card tab never shows the applications of another card, even
\* though it fills its list when the status changes, which may be before the
\* title thread refreshed (gamecard_tab.cpp:90, title.c:3408).
TabShowsItsCard ==
  uiCard.loads /\ ~overtaken =>
    \A e \in uiCard.entries : \E k \in uiCard.keys : k.id = e.app

\* What a title refresh or a mass storage callback changed is shown in the
\* end, unless the program is being closed, or a later refresh that changed
\* nothing overwrote the flag before it was polled (title.c:3408).
UiFollows ==
  []<>(mpc = "run" => /\ unseen \/ uiTitles = filtered.user
                      /\ uiDevices = umsDevices)

\* Closing ends, unless the title thread or the library's callback was just
\* about to take the mutex that titleExit or umsExit holds while it waits.
CloseReturns ==
  (mpc = "close") ~> \/ mpc = "end"
                     \/ titleMutex = "main" /\ tpc = "woken"
                     \/ umsMutex = "main" /\ umsCall # None
=============================================================================
