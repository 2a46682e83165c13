------------------------------- MODULE Titles -------------------------------
(***************************************************************************)
(* The title information interface (source/core/title.c): what is          *)
(* installed on the console and what is on the inserted game card, kept in *)
(* one array of title infos per storage, linked into lists of siblings,    *)
(* with the application metadata the lists are shown under.  A background  *)
(* thread refreshes the game card part whenever the game card interface    *)
(* signals a status change; every other access takes g_titleMutex.         *)
(*                                                                         *)
(* A title info is [st, key, inc]: its storage, its content meta key and   *)
(* the load that allocated it, so that a pointer to an info that was freed *)
(* is told apart from one to the info that replaced it.                    *)
(***************************************************************************)
EXTENDS Integers, Sequences, FiniteSets, SequencesExt

CONSTANTS
  SystemTitles, \* the IDs of g_systemTitles, the table of known system titles
  Worlds,      \* [sys, user, sd: sets of keys, ns: ids with an NS record,
               \*  ctl: ids whose control data NS returns, broken: keys whose
               \*  content infos cannot be read, sdIn: SD card title storage]
  Cards,       \* [keys, ncm: NCM opens the card, loads: its info can be loaded,
               \*  nca: ids whose control NCA can be read]
  MaxChanges,  \* bound: insertions and ejections
  None         \* a NULL pointer

NoCard == [keys |-> {}, ncm |-> FALSE, loads |-> FALSE, nca |-> {}]

\* NcmContentMetaKey.
MetaKeys == [type : Nat, id : Nat, ver : Nat]
MetaKeySet(K) == K \subseteq MetaKeys /\ IsFiniteSet(K)

ASSUME WorldsAssumption ==
  \A w \in Worlds : MetaKeySet(w.sys) /\ MetaKeySet(w.user) /\ MetaKeySet(w.sd)
ASSUME CardsAssumption ==
  \A c \in Cards : MetaKeySet(c.keys) /\ c.loads \in BOOLEAN

----------------------------------------------------------------------------
\* Content meta types and title IDs (title.h), with the real offsets.

Application  == 128
Patch        == 129
AddOnContent == 130
Delta        == 131
DataPatch    == 132

TITLE_PATCH_ID_OFFSET        == 2048
TITLE_ADDONCONTENT_ID_OFFSET == 4096
TITLE_DELTA_ID_OFFSET        == 3072

ConversionMask(id) == id - (id % 4096)

titleGetPatchIdByApplicationId(app) == app + TITLE_PATCH_ID_OFFSET
titleGetApplicationIdByPatchId(id) == id - TITLE_PATCH_ID_OFFSET
titleGetApplicationIdByDeltaId(id) == id - TITLE_DELTA_ID_OFFSET
titleGetDataPatchIdByAddOnContentId(id) == id + TITLE_PATCH_ID_OFFSET
titleGetAddOnContentIdByDataPatchId(id) == id - TITLE_PATCH_ID_OFFSET

titleGetApplicationIdByAddOnContentId(id) ==
  ConversionMask(id - TITLE_ADDONCONTENT_ID_OFFSET)

titleCheckIfAddOnContentIdBelongsToApplicationId(app, id) ==
  id - (ConversionMask(app) + TITLE_ADDONCONTENT_ID_OFFSET) \in 1..2000

titleCheckIfAddOnContentIdsAreSiblings(a, b) ==
  LET x == titleGetApplicationIdByAddOnContentId(a)
      y == titleGetApplicationIdByAddOnContentId(b)
  IN /\ x = y
     /\ titleCheckIfAddOnContentIdBelongsToApplicationId(x, a)
     /\ titleCheckIfAddOnContentIdBelongsToApplicationId(y, b)

titleCheckIfDataPatchIdBelongsToApplicationId(app, id) ==
  titleCheckIfAddOnContentIdBelongsToApplicationId(
    app, titleGetAddOnContentIdByDataPatchId(id))

titleCheckIfDataPatchIdsAreSiblings(a, b) ==
  titleCheckIfAddOnContentIdsAreSiblings(titleGetAddOnContentIdByDataPatchId(a),
                                         titleGetAddOnContentIdByDataPatchId(b))

titleGetApplicationIdByContentMetaKey(k) ==
  CASE k.type = Patch        -> titleGetApplicationIdByPatchId(k.id)
    [] k.type = AddOnContent -> titleGetApplicationIdByAddOnContentId(k.id)
    [] k.type = Delta        -> titleGetApplicationIdByDeltaId(k.id)
    [] k.type = DataPatch    -> titleGetApplicationIdByAddOnContentId(
                                  titleGetAddOnContentIdByDataPatchId(k.id))
    [] OTHER                 -> k.id

\* The title belongs to the application: what the lists of the user
\* interface and titleIsUserApplicationContentAvailable go by.
BelongsTo(app, k) ==
  \/ k.type = Application /\ k.id = app
  \/ k.type = Patch /\ k.id = titleGetPatchIdByApplicationId(app)
  \/ k.type = AddOnContent
     /\ titleCheckIfAddOnContentIdBelongsToApplicationId(app, k.id)
  \/ k.type = DataPatch /\ titleCheckIfDataPatchIdBelongsToApplicationId(app, k.id)

\* The place of a number between those of two applications, and the one that
\* each kind of title has.
Place(id) == id % 8192
IsTitleId(k) ==
  LET n == Place(k.id)
  IN \/ k.type = Application /\ n = 0
     \/ k.type = Patch /\ n = TITLE_PATCH_ID_OFFSET
     \/ k.type = Delta /\ n = TITLE_DELTA_ID_OFFSET
     \/ k.type = AddOnContent /\ n - TITLE_ADDONCONTENT_ID_OFFSET \in 1..2000
     \/ k.type = DataPatch
        /\ n - TITLE_ADDONCONTENT_ID_OFFSET - TITLE_PATCH_ID_OFFSET \in 1..2000

\* Titles of the user have such numbers, above those of the system titles, and
\* NS keeps its records under those of applications.
ASSUME TitleIdsAssumption ==
  \A w \in Worlds :
    /\ IsFiniteSet(w.ns)
    /\ \A app \in w.ns : app \in Nat /\ Place(app) = 0
    /\ \A k \in w.user \cup w.sd \cup UNION {c.keys : c \in Cards} :
         /\ IsTitleId(k)
         /\ \A s \in w.sys : s.id < titleGetApplicationIdByContentMetaKey(k)

----------------------------------------------------------------------------
\* The storages, in the order of g_titleStorage, and the arrays of infos.

GameCard == 1
BuiltInSystem == 2
BuiltInUser == 3
SdCard == 4
Storages == GameCard..SdCard

TitleInfos == [st : Storages, key : MetaKeys, inc : Nat]
ASSUME NoneAssumption == None \notin TitleInfos

\* Before titleInfoSortFunction's order within a storage, the order of the
\* storages: the order in which every loop over all infos visits them.
Visits(a, b) ==
  \/ a.st < b.st
  \/ a.st = b.st /\ a.key.id < b.key.id
  \/ a.st = b.st /\ a.key.id = b.key.id /\ a.key.ver < b.key.ver

Earliest(S) == CHOOSE x \in S : \A y \in S \ {x} : Visits(x, y)
Latest(S) == CHOOSE x \in S : \A y \in S \ {x} : Visits(y, x)

AllOf(T) == UNION {T[s] : s \in Storages}
UserOf(T) == AllOf(T) \ T[BuiltInSystem]

\* The first info with the ID, over one storage or over all of them.
_titleGetTitleInfoEntryFromStorageByTitleId(T, sts, id) ==
  LET found == {i \in AllOf(T) : i.st \in sts /\ i.key.id = id}
  IN IF found = {} THEN None ELSE Earliest(found)

\* titleGenerateTitleInfoEntry, for each of the keys.
InfosOf(st, keys, inc) == {[st |-> st, key |-> k, inc |-> inc] : k \in keys}

----------------------------------------------------------------------------
\* titleUpdateTitleInfoLinkedLists as a function of the arrays T and of the
\* set M of infos whose app_metadata is set: the new M, the orphans and the
\* previous and next pointers.

LinkedType(k) == k.type \in {Application, Patch, AddOnContent, DataPatch}

ParentOf(T, i) ==
  _titleGetTitleInfoEntryFromStorageByTitleId(
    T, Storages, titleGetApplicationIdByContentMetaKey(i.key))

\* Not an application, no metadata and no application to inherit it from.
IsOrphan(T, M, i) ==
  \/ ~LinkedType(i.key)
  \/ i.key.type # Application /\ i \notin M /\ ParentOf(T, i) = None

\* Mutant of AreSiblings: titles of different storages are never linked.
AreSiblingsInStorage(a, b) == a.st = b.st /\ a.key.type = b.key.type

AreSiblings(a, b) ==
  /\ a.key.type = b.key.type
  /\ \/ a.key.type \in {Application, Patch} /\ a.key.id = b.key.id
     \/ a.key.type = AddOnContent
        /\ titleCheckIfAddOnContentIdsAreSiblings(a.key.id, b.key.id)
     \/ a.key.type = DataPatch
        /\ titleCheckIfDataPatchIdsAreSiblings(a.key.id, b.key.id)

\* Mutant of PreviousOf: the first sibling instead of the closest one.
PreviousOfFirst(T, i) ==
  LET earlier == {j \in UserOf(T) : Visits(j, i) /\ AreSiblings(j, i)}
  IN IF earlier = {} THEN None ELSE Earliest(earlier)

\* The closest sibling visited earlier, on any user storage.
PreviousOf(T, i) ==
  LET earlier == {j \in UserOf(T) : Visits(j, i) /\ AreSiblings(j, i)}
  IN IF earlier = {} THEN None ELSE Latest(earlier)

Relinked(T, M) ==
  LET orphaned  == {i \in UserOf(T) : IsOrphan(T, M, i)}
      inherits  == {i \in UserOf(T) \ (orphaned \cup M) :
                      i.key.type # Application /\ ParentOf(T, i) \in M}
      linked    == UserOf(T) \ orphaned
      previous  == [i \in AllOf(T) |->
                      IF i \in linked THEN PreviousOf(T, i) ELSE None]
      next      == [i \in AllOf(T) |->
                      IF \E j \in linked : previous[j] = i
                      THEN CHOOSE j \in linked : previous[j] = i ELSE None]
  IN [md |-> (M \cup inherits) \cap AllOf(T), orphans |-> orphaned,
      previous |-> previous, next |-> next]

----------------------------------------------------------------------------
VARIABLES
  world,       \* what is installed on this console
  card,        \* the card whose status is published, or NoCard
  owed,        \* a status change was published and is not signalled yet
  event,       \* the status change user event (auto-clear)
  changes,     \* insertions and ejections so far (bound)
  titleMutex,  \* g_titleMutex: "free", or the thread that holds it
  titleInit,   \* g_titleInterfaceInit
  tpc,         \* where the game card info thread is
  exitEvent,   \* g_titleGameCardInfoThreadExitEvent
  loaded,      \* the status titleRefreshGameCardTitleInfo read
  arrays,      \* g_titleStorage[].titles
  lists,       \* the md, previous and next fields of the infos, the orphans
  sysMeta,     \* g_systemMetadata: IDs
  userMeta,    \* g_userMetadata: application IDs
  filtered,    \* g_filteredSystemMetadata and g_filteredUserMetadata
  gcMeta,      \* g_titleGameCardApplicationMetadata
  gcNames,     \* g_titleGameCardFileNames: the entries they were made from
  available,   \* g_titleGameCardAvailable
  updated,     \* g_titleGameCardInfoUpdated
  overtaken    \* history: the card changed between a signal and the refresh

feed == <<world, card, owed, event, changes, overtaken>>
info == <<arrays, lists, sysMeta, userMeta, filtered, gcMeta, gcNames>>
tvars == <<feed, titleMutex, titleInit, tpc, exitEvent, loaded, info, available,
           updated>>

\* titleGetContentInfosByMetaKey: NCM returns every content info of the key.
titleGetContentInfosByMetaKey(k) == k \notin world.broken

\* The control data of an application, cached by NS or in the control NCA of
\* a title of the card: what a metadata entry is made of.
titleGetApplicationControlDataFromNs(id) == id \in world.ctl
titleGetApplicationControlDataFromControlNca(i) ==
  /\ i.key.type \in {Application, Patch}
  /\ titleGetApplicationIdByContentMetaKey(i.key) \in card.nca

\* An entry named "Unknown" for a system title that is not in the table.
titleGetSystemMetadataEntry(S, id) == S \cup {id}

NoLists == [md |-> {}, orphans |-> {}, previous |-> <<>>, next |-> <<>>]
NoArrays == [s \in Storages |-> {}]

TInit ==
  /\ world \in Worlds
  /\ card \in Cards \cup {NoCard}
  /\ owed = TRUE \* gamecardThreadFunc signals once when it starts
  /\ event = FALSE /\ changes = 0 /\ overtaken = FALSE
  /\ titleMutex = "free" /\ titleInit = FALSE /\ tpc = "off" /\ exitEvent = FALSE
  /\ loaded = FALSE /\ arrays = NoArrays /\ lists = NoLists
  /\ sysMeta = {} /\ userMeta = {} /\ filtered = [sys |-> {}, user |-> {}]
  /\ gcMeta = {} /\ gcNames = None
  /\ available = FALSE /\ updated = FALSE

----------------------------------------------------------------------------
\* The game card interface as the title thread sees it: the status changes,
\* and after the processing of the insertion or ejection the event is signalled.

CardChanges ==
  /\ changes < MaxChanges /\ ~owed
  /\ \E c \in Cards \cup {NoCard} :
       /\ card = NoCard \/ c = NoCard
       /\ c # card
       /\ card' = c
  /\ owed' = TRUE /\ changes' = changes + 1
  /\ overtaken' = (overtaken \/ event \/ tpc \in {"woken", "locked"})
  /\ UNCHANGED <<world, event, titleMutex, titleInit, tpc, exitEvent, loaded, info,
                 available, updated>>

CardSignals ==
  /\ owed /\ owed' = FALSE /\ event' = TRUE
  /\ UNCHANGED <<world, card, changes, overtaken, titleMutex, titleInit, tpc,
                 exitEvent, loaded, info, available, updated>>

----------------------------------------------------------------------------
\* Filling the arrays.

titleIsUserApplicationContentAvailable(T, app) ==
  \E i \in UserOf(T) : BelongsTo(app, i.key)

FilteredUser(T, U) == {app \in U : titleIsUserApplicationContentAvailable(T, app)}
FilteredSystem(T, S) ==
  {id \in S : \E i \in T[BuiltInSystem] : i.key.id = id}

\* A fresh info finds its metadata by its application ID (the system storage
\* adds an entry for an ID it does not know).
HasMetadata(i, U) ==
  IF i.st = BuiltInSystem THEN TRUE
  ELSE titleGetApplicationIdByContentMetaKey(i.key) \in U

\* One storage: its keys listed, an info for each key whose content infos can
\* be read, then the lists are made anew.  No key at all is a success without
\* relinking; keys of which none is usable are a failure.
titleGenerateTitleInfoEntriesForTitleStorage(r, st, keys, inc) ==
  LET usable == {k \in keys : titleGetContentInfosByMetaKey(k)}
      T2 == [r.T EXCEPT ![st] = InfosOf(st, usable, inc)]
      M2 == r.L.md \cup {i \in T2[st] : HasMetadata(i, r.U)}
  IN CASE keys = {}   -> r
       [] usable = {} -> [r EXCEPT !.ok = FALSE]
       [] OTHER       -> [r EXCEPT !.T = T2, !.L = Relinked(T2, M2)]

\* The keys a storage lists.  An SD card without title storage is no error.
titleGetMetaKeysFromContentDatabase(st) ==
  CASE st = BuiltInSystem -> world.sys
    [] st = BuiltInUser   -> world.user
    [] st = GameCard      -> card.keys
    [] st = SdCard        -> IF world.sdIn THEN world.sd ELSE {}

\* System, user and SD card storage in turn, up to the first that fails.
titleInitializePersistentTitleStorages(U) ==
  LET open(r, st) ==
        IF r.ok THEN titleGenerateTitleInfoEntriesForTitleStorage(
                       r, st, titleGetMetaKeysFromContentDatabase(st), 0)
        ELSE r
      none == [ok |-> TRUE, T |-> NoArrays, L |-> NoLists, U |-> U]
  IN open(open(open(none, BuiltInSystem), BuiltInUser), SdCard)

\* An NS record becomes an entry when NS returns its control data; records
\* of which none does fail the initialization.
titleGenerateMetadataEntriesFromNsRecords ==
  LET ids == {id \in world.ns : titleGetApplicationControlDataFromNs(id)}
  IN [ok |-> world.ns = {} \/ ids # {}, ids |-> ids]

\* titleInitialize, one critical section that ends by starting the thread.  A
\* failure leaves what was filled so far for titleExit.
titleInitialize ==
  /\ titleMutex = "free" /\ ~titleInit /\ tpc = "off"
  /\ LET ns == titleGenerateMetadataEntriesFromNsRecords
         r  == titleInitializePersistentTitleStorages(ns.ids)
         S  == FoldSet(LAMBDA i, X : titleGetSystemMetadataEntry(X, i.key.id),
                       SystemTitles, r.T[BuiltInSystem])
     IN \/ /\ ~ns.ok
           /\ sysMeta' = SystemTitles
           /\ UNCHANGED <<userMeta, arrays, lists, filtered, titleInit, tpc>>
        \/ /\ ns.ok
           /\ sysMeta' = S /\ userMeta' = ns.ids /\ arrays' = r.T /\ lists' = r.L
           /\ \/ ~r.ok /\ UNCHANGED <<filtered, titleInit, tpc>>
              \/ /\ r.ok
                 /\ filtered' = [sys  |-> FilteredSystem(r.T, S),
                                 user |-> FilteredUser(r.T, ns.ids)]
                 /\ titleInit' = TRUE /\ tpc' = "wait"
  /\ exitEvent' = FALSE
  /\ UNCHANGED <<feed, titleMutex, loaded, gcMeta, gcNames, available, updated>>

----------------------------------------------------------------------------
\* The game card info thread.

ThreadWakes ==
  /\ tpc = "wait" /\ event
  /\ event' = FALSE /\ tpc' = "woken"
  /\ UNCHANGED <<world, card, owed, changes, overtaken, titleMutex, titleInit,
                 exitEvent, loaded, info, available, updated>>

ThreadLocks ==
  /\ tpc = "woken" /\ titleMutex = "free"
  /\ titleMutex' = "thread" /\ tpc' = "locked"
  /\ UNCHANGED <<feed, titleInit, exitEvent, loaded, info, available, updated>>

\* The entries of titleGenerateGameCardApplicationMetadataArray: one for each
\* application of the card with metadata, with the newest patch on the card.
PatchesFor(T, i) ==
  {p \in T[GameCard] : /\ p.key.type = Patch
                       /\ p.key.id = titleGetPatchIdByApplicationId(i.key.id)
                       /\ p.key.ver >= i.key.ver}
titleGenerateGameCardApplicationMetadataArray(T, M) ==
  {[app |-> i.key.id,
    has_patch |-> PatchesFor(T, i) # {},
    version |-> IF PatchesFor(T, i) = {} THEN i.key.ver
                ELSE Latest(PatchesFor(T, i)).key.ver,
    dlc_count |-> Cardinality(
       {d \in T[GameCard] :
          /\ d.key.type = AddOnContent
          /\ titleCheckIfAddOnContentIdBelongsToApplicationId(i.key.id, d.key.id)})] :
     i \in {j \in T[GameCard] \cap M : j.key.type = Application}}

\* What the file name is made of: the entries, or the package ID in the
\* header of the card when there are none.
_titleGenerateGameCardFileName(entries) ==
  IF entries # {} THEN entries ELSE {card.keys}

\* The end of the critical section: the arrays after the refresh, then the
\* entries, the names and, after an update, the list of applications.
FinishRefresh(T, L, U, success) ==
  LET entries == titleGenerateGameCardApplicationMetadataArray(T, L.md)
  IN /\ arrays' = T /\ lists' = L /\ userMeta' = U
     /\ available' = loaded' /\ updated' = success
     /\ gcMeta' = entries
     /\ gcNames' = IF loaded' THEN _titleGenerateGameCardFileName(entries) ELSE None
     /\ filtered' = IF success THEN [filtered EXCEPT !.user = FilteredUser(T, U)]
                    ELSE filtered
     /\ titleMutex' = "free" /\ tpc' = "wait"
     /\ UNCHANGED <<feed, titleInit, exitEvent, sysMeta>>

\* Mutant of Closed: the storage is closed and its title infos are left.
ClosedKeepsInfos(T) == T

\* titleCloseTitleStorage for the game card.
Closed(T) == [T EXCEPT ![GameCard] = {}]

\* titleRefreshGameCardTitleInfo: nothing to load unless a loaded card shows up.
ThreadReadsStatus ==
  /\ tpc = "locked"
  /\ loaded' = card.loads
  /\ \/ /\ loaded' = available \* nothing changed: a failure without cleanup
        /\ FinishRefresh(arrays, lists, userMeta, FALSE)
     \/ /\ loaded' # available /\ ~loaded'
        /\ FinishRefresh(Closed(arrays), Relinked(Closed(arrays), lists.md), userMeta, TRUE)
     \/ /\ loaded' # available /\ loaded'
        /\ tpc' = "load"
        /\ UNCHANGED <<feed, titleMutex, titleInit, exitEvent, info, available, updated>>

\* The storage opened through NCM.
GameCardByNcm ==
  LET r == [ok |-> card.ncm, T |-> Closed(arrays), L |-> lists, U |-> userMeta]
  IN IF card.ncm
     THEN titleGenerateTitleInfoEntriesForTitleStorage(
            r, GameCard, titleGetMetaKeysFromContentDatabase(GameCard), changes + 1)
     ELSE r

\* The metadata contents of the secure partition, when it can be read.
titleGetGameCardContentMetaContexts == IF card.loads THEN card.keys ELSE {}

\* The fallback: the metadata contents of the secure partition, in the order
\* of titleGameCardContentMetaContextSortFunction, with metadata from the
\* control data of applications and patches.  Add-on contents come first, so
\* they only find what was known before.
titleInitializeGameCardTitleStorageByHashFileSystem ==
  LET keys == titleGetGameCardContentMetaContexts
      T2 == [Closed(arrays) EXCEPT ![GameCard] = InfosOf(GameCard, keys, changes + 1)]
      own == {i \in T2[GameCard] : titleGetApplicationControlDataFromControlNca(i)}
      M2 == lists.md \cup own \cup {i \in T2[GameCard] : HasMetadata(i, userMeta)}
  IN [ok |-> card.loads, T |-> T2,
      L |-> IF keys # {} THEN Relinked(T2, M2) ELSE lists,
      U |-> userMeta \cup {titleGetApplicationIdByContentMetaKey(i.key) : i \in own}]

\* Metadata from NS for every title of the card that has none yet.
WithNsMetadata(r) ==
  LET app(i) == titleGetApplicationIdByContentMetaKey(i.key)
      U2 == r.U \cup {app(i) : i \in {j \in r.T[GameCard] \ r.L.md :
                                         titleGetApplicationControlDataFromNs(app(j))}}
      M2 == r.L.md \cup {i \in r.T[GameCard] : app(i) \in U2}
  IN [r EXCEPT !.U = U2,
               !.L = IF U2 # r.U THEN Relinked(r.T, M2) ELSE [r.L EXCEPT !.md = M2]]

ThreadLoads ==
  /\ tpc = "load"
  /\ UNCHANGED loaded
  /\ LET ncm == GameCardByNcm
         hfs == titleInitializeGameCardTitleStorageByHashFileSystem
         r   == IF ncm.ok THEN ncm ELSE hfs
     IN IF r.ok /\ r.T[GameCard] # {}
        THEN IF ncm.ok /\ \E i \in r.T[GameCard] : i.key.type = Application
             THEN LET n == WithNsMetadata(r) IN FinishRefresh(n.T, n.L, n.U, TRUE)
             ELSE FinishRefresh(r.T, r.L, r.U, TRUE)
        ELSE FinishRefresh(Closed(r.T), Relinked(Closed(r.T), r.L.md), r.U, FALSE)

\* Mutant of ThreadLeaves: the file names outlive the thread.
ThreadLeavesNames ==
  /\ tpc = "wait" /\ exitEvent
  /\ tpc' = "ended" /\ exitEvent' = FALSE
  /\ available' = FALSE /\ updated' = FALSE
  /\ UNCHANGED <<feed, titleMutex, titleInit, loaded, info>>

\* Woken by the exit event.  What follows runs without the mutex.
ThreadLeaves ==
  /\ tpc = "wait" /\ exitEvent
  /\ tpc' = "ended" /\ exitEvent' = FALSE
  /\ available' = FALSE /\ updated' = FALSE /\ gcNames' = None
  /\ UNCHANGED <<feed, titleMutex, titleInit, loaded, arrays, lists, sysMeta, userMeta,
                 filtered, gcMeta>>

ThreadNext == ThreadWakes \/ ThreadLocks \/ ThreadReadsStatus \/ ThreadLoads \/ ThreadLeaves

----------------------------------------------------------------------------
\* titleExit: the mutex is taken, the thread told to end and joined, and only
\* then the storages are closed and the lists freed.

\* Mutant of titleExitBegins: the thread is joined without being told to end.
titleExitBeginsSilent(who) ==
  /\ titleMutex = "free" /\ titleMutex' = who
  /\ UNCHANGED <<feed, titleInit, tpc, exitEvent, loaded, info, available, updated>>

titleExitBegins(who) ==
  /\ titleMutex = "free"
  /\ titleMutex' = who /\ exitEvent' = (tpc # "off")
  /\ UNCHANGED <<feed, titleInit, tpc, loaded, info, available, updated>>

titleExitEnds(who) ==
  /\ titleMutex = who /\ tpc \in {"off", "ended"}
  /\ titleMutex' = "free" /\ titleInit' = FALSE /\ tpc' = "off"
  /\ arrays' = NoArrays /\ lists' = NoLists
  /\ sysMeta' = {} /\ userMeta' = {} /\ filtered' = [sys |-> {}, user |-> {}]
  /\ gcMeta' = {}
  /\ UNCHANGED <<feed, exitEvent, loaded, gcNames, available, updated>>

----------------------------------------------------------------------------
\* The getters, as functions of the state under the mutex.

\* The infos from i on along the next pointers, i first.
FromNext(i) ==
  LET follow(list, n) ==
        LET j == lists.next[Last(list)] IN IF j = None THEN list ELSE Append(list, j)
  IN FoldLeft(follow, <<i>>, [n \in 1..Cardinality(AllOf(arrays)) |-> n])

ListFrom(i) == IF i = None THEN <<>> ELSE FromNext(i)

FirstOfType(type, app) ==
  LET found == {i \in UserOf(arrays) : i.key.type = type /\ BelongsTo(app, i.key)}
  IN IF found = {} THEN None ELSE Earliest(found)

_titleGetUserApplicationData(app) ==
  LET byId(id) == _titleGetTitleInfoEntryFromStorageByTitleId(arrays, Storages, id)
  IN [app |-> byId(app), patch |-> byId(titleGetPatchIdByApplicationId(app)),
      aoc |-> FirstOfType(AddOnContent, app),
      aoc_patch |-> FirstOfType(DataPatch, app)]

FromPrevious(i) ==
  LET follow(list, n) ==
        LET j == lists.previous[Head(list)] IN IF j = None THEN list ELSE <<j>> \o list
  IN FoldLeft(follow, <<i>>, [n \in 1..Cardinality(AllOf(arrays)) |-> n])

\* The copies of an info and of all its siblings, before and after it.
titleDuplicateTitleInfoFull(i) ==
  IF i = None THEN <<>> ELSE FromPrevious(i) \o Tail(FromNext(i))

titleGetUserApplicationData(app) ==
  LET d == _titleGetUserApplicationData(app)
  IN [f \in DOMAIN d |-> titleDuplicateTitleInfoFull(d[f])]

\* titleGetAddOnContentBaseOrPatchList: the copies of the infos with the ID
\* that goes with this one's.  Every copy after the first becomes the next of
\* the first, so of three copies the second is dropped.
titleGetAddOnContentBaseOrPatchList(i) ==
  LET id == IF i.key.type = AddOnContent
            THEN titleGetDataPatchIdByAddOnContentId(i.key.id)
            ELSE titleGetAddOnContentIdByDataPatchId(i.key.id)
      copy(out, j) == IF j.key.id # id THEN out
                      ELSE IF Len(out) < 2 THEN Append(out, j) ELSE <<out[1], j>>
  IN FoldLeft(copy, <<>>,
              ListFrom(_titleGetTitleInfoEntryFromStorageByTitleId(arrays, Storages, id)))

\* The rows of titleGenerateTitleRecordsCsv for the user titles: the lists of
\* each application shown, then the orphans.
titleGenerateTitleRecordsCsv(use_gamecard) ==
  LET row(rows, i) == IF i.st # GameCard \/ use_gamecard THEN Append(rows, i) ELSE rows
      rowsOf(rows, app) ==
        LET d == _titleGetUserApplicationData(app)
        IN FoldLeft(row, rows, ListFrom(d.app) \o ListFrom(d.patch)
                                 \o ListFrom(d.aoc) \o ListFrom(d.aoc_patch))
  IN FoldLeft(rowsOf, <<>>, SetToSeq(filtered.user)) \o SetToSeq(lists.orphans)

----------------------------------------------------------------------------
\* Properties.

Quiet == titleInit /\ tpc = "wait" /\ ~event /\ ~owed

\* Every pointer between title infos, and every orphan, is an info of the
\* arrays, and previous and next are each other's inverse: closing the game
\* card storage frees its infos, and the lists of the installed titles went
\* through them (title.c:3540-3547).
NoDanglingTitles ==
  titleMutex = "free" =>
    LET all == AllOf(arrays)
        p == lists.previous
        n == lists.next
    IN titleInit =>
       /\ lists.orphans \subseteq all /\ lists.md \subseteq all
       /\ DOMAIN p = all /\ DOMAIN n = all
       /\ \A i \in all : /\ p[i] # None => p[i] \in all /\ n[p[i]] = i
                         /\ n[i] # None => n[i] \in all /\ p[n[i]] = i

\* Once every status change was signalled and handled, the titles of the game
\* card are those of the card that is inserted, and the list of applications
\* is made from them - unless the card changed between a signal and the
\* refresh it was for, which compares only loaded with not loaded
\* (title.c:3438-3443).
TitlesMatchCard ==
  Quiet /\ ~overtaken =>
    /\ {i.key : i \in arrays[GameCard]} \in
         IF card.loads THEN {card.keys, card.keys \ world.broken} ELSE {{}}
    /\ filtered.user = FilteredUser(arrays, userMeta)
    /\ available = card.loads

\* No installed title gets lost: a title whose application has metadata, or
\* which is listed as an orphan, has a row in the title records, whatever
\* cards were inserted in between.
CsvMissesNothing ==
  titleInit /\ titleMutex = "free" =>
    LET rows == ToSet(titleGenerateTitleRecordsCsv(TRUE))
    IN \A i \in UserOf(arrays) : i \in lists.md \cup lists.orphans => i \in rows

\* The copies handed out for an application that is listed hold each of its
\* linked titles, on every storage, once: they are what a dump of all its
\* titles goes through, and those of an add-on content are among them; and the
\* records that are exported miss none.  Orphans are not linked: of several
\* that wait for one application, the copies hold the first.
AppDataIsWhole ==
  /\ CsvMissesNothing
  /\ titleInit /\ titleMutex = "free" =>
       \A app \in filtered.user :
         LET d == titleGetUserApplicationData(app)
             all == d.app \o d.patch \o d.aoc \o d.aoc_patch
         IN /\ \A m, n \in DOMAIN all : all[m] = all[n] => m = n
            /\ {i \in UserOf(arrays) \ lists.orphans : BelongsTo(app, i.key)} \subseteq ToSet(all)
            /\ \A i \in ToSet(d.aoc \o d.aoc_patch) :
                 LET other == ToSet(titleGetAddOnContentBaseOrPatchList(i))
                 IN other \ lists.orphans \subseteq ToSet(d.aoc \o d.aoc_patch) /\ i \notin other
=============================================================================
