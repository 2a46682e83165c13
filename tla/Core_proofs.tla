---------------------------- MODULE Core_proofs ------------------------------
(***************************************************************************)
(* Proofs about what runs on the console beside the dumps: Titles and App, *)
(* for every console, every card and every number of insertions, ejections *)
(* and mass storage devices, down to what the lists of an application's    *)
(* titles hold; the log and the configuration, the two files that outlive  *)
(* the program, for every buffer, message and setting; and a task, for     *)
(* every number of blocks and whether or not DoInBackground may throw.     *)
(***************************************************************************)
EXTENDS App, Log, Config, DataTransferTask, FiniteSetTheorems, SequenceTheorems,
        WellFoundedInduction, TLAPS

(***************************************************************************)
(* The inductive invariant.                                                *)
(***************************************************************************)

\* One array per storage, filled by one load.
ArraysOK(T) ==
  /\ T \in [Storages -> SUBSET TitleInfos]
  /\ \A s \in Storages : IsFiniteSet(T[s])
  /\ \A s \in Storages : \A i, j \in T[s] : i.st = s /\ i.inc = j.inc

\* What NoDanglingTitles says of the lists.
LinksOK(T, L) ==
  /\ L.orphans \subseteq AllOf(T) /\ L.md \subseteq AllOf(T)
  /\ DOMAIN L.previous = AllOf(T) /\ DOMAIN L.next = AllOf(T)
  /\ \A i \in AllOf(T) :
       /\ L.previous[i] # None =>
            L.previous[i] \in AllOf(T) /\ L.next[L.previous[i]] = i
       /\ L.next[i] # None =>
            L.next[i] \in AllOf(T) /\ L.previous[L.next[i]] = i

AppTypeOK ==
  /\ world \in Worlds /\ card \in Cards \cup {NoCard} /\ changes \in Nat
  /\ owed \in BOOLEAN /\ event \in BOOLEAN /\ overtaken \in BOOLEAN
  /\ titleInit \in BOOLEAN /\ exitEvent \in BOOLEAN /\ loaded \in BOOLEAN
  /\ available \in BOOLEAN /\ updated \in BOOLEAN
  /\ titleMutex \in {"free", "main", "thread"}
  /\ tpc \in {"off", "wait", "woken", "locked", "load", "ended"}
  /\ ArraysOK(arrays) /\ DOMAIN filtered = {"sys", "user"}

\* Who holds the mutex, and what an interface that is down has left.
Places ==
  /\ titleInit <=> tpc # "off"
  /\ titleMutex = "thread" <=> tpc \in {"locked", "load"}
  /\ tpc = "ended" => titleMutex = "main"
  /\ exitEvent => titleMutex = "main" /\ tpc \notin {"off", "ended"}
  /\ tpc \in {"off", "ended"} => ~available /\ ~updated /\ gcNames = None
  /\ tpc = "off" => gcMeta = {}

Linked == titleInit => LinksOK(arrays, lists)

\* A status change that the thread has not looked at yet.
Pending == owed \/ event \/ tpc \in {"woken", "locked"}

OfCard == {i.key : i \in arrays[GameCard]} \in {card.keys, card.keys \ world.broken}

\* How the game card part follows the card.
Follows ==
  tpc \notin {"off", "ended"} =>
    /\ filtered.user = FilteredUser(arrays, userMeta)
    /\ ~available => arrays[GameCard] = {}
    /\ tpc = "load" => ~available /\ loaded
    /\ \A e \in gcMeta : \E i \in arrays[GameCard] : i.key.id = e.app
    /\ ~overtaken =>
         /\ tpc = "load" /\ ~card.loads => owed \/ event
         /\ tpc # "load" /\ ~Pending => available = card.loads
         /\ tpc # "load" /\ available /\ card.loads => OfCard

TitleInv == AppTypeOK /\ Places /\ Linked /\ Follows

Resources == {StartOrder[k] : k \in 1..18}

\* Whatever is up, so is what it uses; what was closed is down.
Main ==
  /\ mpc \in {"start", "run", "close", "end"} /\ step \in 1..19
  /\ up \subseteq Resources
  /\ \A r \in up : Uses(r) \subseteq up
  /\ mpc = "start" => \A k \in 1..(step - 1) : StartOrder[k] \in up
  /\ mpc = "run" => Resources \subseteq up
  /\ mpc \in {"close", "end"} => \A k \in 1..(step - 1) : CloseOrder[k] \notin up
  /\ mpc = "end" => step = 19

LongRun ==
  /\ longRun \in BOOLEAN
  /\ longRun => /\ mpc = "run" \/ (mpc = "close" /\ step <= 3)
                /\ {"config", "services"} \subseteq up

TitlesUp ==
  /\ mpc = "start" => (titleInit <=> step > 12)
  /\ mpc = "start" /\ tpc = "off" => owed \/ event
  /\ mpc = "run" => titleInit
  /\ titleMutex = "main" => ClosingAt("title")
  /\ mpc \in {"close", "end"} /\ step > 9 => tpc = "off" /\ arrays = NoArrays /\ userMeta = {}

UmsUp ==
  /\ umsMutex \in {"free", "main"}
  /\ umsMutex = "main" => ClosingAt("ums")
  /\ "ums" \notin up => ~umsInit /\ umsDevices = {} /\ umsCall = None

AppInv == TitleInv /\ Main /\ LongRun /\ TitlesUp /\ UmsUp /\ TabShowsItsCard

(***************************************************************************)
(* The order of the infos.                                                 *)
(***************************************************************************)

LEMMA VisitsOrder ==
    ASSUME NEW a \in TitleInfos, NEW b \in TitleInfos, NEW c \in TitleInfos
    PROVE  /\ Visits(a, b) => a # b /\ ~Visits(b, a)
           /\ Visits(a, b) /\ Visits(b, c) => Visits(a, c)
  <1>1. a.st \in Int /\ b.st \in Int /\ c.st \in Int
    BY DEF TitleInfos, Storages, GameCard, SdCard
  <1>2. a.key \in MetaKeys /\ b.key \in MetaKeys /\ c.key \in MetaKeys
    BY DEF TitleInfos
  <1>3. /\ a.key.id \in Int /\ b.key.id \in Int /\ c.key.id \in Int
        /\ a.key.ver \in Int /\ b.key.ver \in Int /\ c.key.ver \in Int
    BY <1>2 DEF MetaKeys
  <1>. QED
    BY <1>1, <1>3 DEF Visits

LEMMA AllInfos ==
    ASSUME NEW T, ArraysOK(T)
    PROVE  /\ AllOf(T) \subseteq TitleInfos /\ UserOf(T) \subseteq AllOf(T)
           /\ None \notin AllOf(T)
           /\ IsFiniteSet(AllOf(T))
  <1>1. AllOf(T) \subseteq TitleInfos
    BY DEF ArraysOK, AllOf
  <1>2. AllOf(T) = T[GameCard] \cup T[BuiltInSystem] \cup T[BuiltInUser] \cup T[SdCard]
    <2>1. Storages = {GameCard, BuiltInSystem, BuiltInUser, SdCard}
      BY DEF Storages, GameCard, BuiltInSystem, BuiltInUser, SdCard
    <2>. QED
      BY <2>1, Zenon DEF AllOf
  <1>3. \A s \in {GameCard, BuiltInSystem, BuiltInUser, SdCard} : IsFiniteSet(T[s])
    BY DEF ArraysOK, Storages, GameCard, BuiltInSystem, BuiltInUser, SdCard
  <1>4. IsFiniteSet(T[GameCard] \cup T[BuiltInSystem])
    BY <1>3, FS_Union
  <1>5. IsFiniteSet(T[GameCard] \cup T[BuiltInSystem] \cup T[BuiltInUser])
    BY <1>3, <1>4, FS_Union
  <1>6. IsFiniteSet(T[GameCard] \cup T[BuiltInSystem] \cup T[BuiltInUser] \cup T[SdCard])
    BY <1>3, <1>5, FS_Union
  <1>. QED
    BY <1>1, <1>2, <1>6, NoneAssumption, Zenon DEF UserOf

\* Two infos of one type that are not visited one after the other are one.
LEMMA VisitsTotal ==
    ASSUME NEW T, ArraysOK(T), NEW a \in AllOf(T), NEW b \in AllOf(T),
           a.key.type = b.key.type, a # b
    PROVE  Visits(a, b) \/ Visits(b, a)
  <1>1. PICK s \in Storages : a \in T[s]
    BY DEF AllOf
  <1>2. PICK r \in Storages : b \in T[r]
    BY DEF AllOf
  <1>3. a \in TitleInfos /\ b \in TitleInfos
    BY AllInfos
  <1>4. a.st = s /\ b.st = r /\ (s = r => a.inc = b.inc)
    BY <1>1, <1>2 DEF ArraysOK
  <1>5. a.key \in MetaKeys /\ b.key \in MetaKeys
    BY <1>3 DEF TitleInfos
  <1>6. ~(a.st = b.st /\ a.key.id = b.key.id /\ a.key.ver = b.key.ver)
    <2>. SUFFICES ASSUME a.st = b.st, a.key.id = b.key.id, a.key.ver = b.key.ver
                  PROVE  FALSE
      OBVIOUS
    <2>1. a.key = b.key
      BY <1>5 DEF MetaKeys
    <2>2. a.inc = b.inc
      BY <1>4
    <2>3. a = b
      BY <1>3, <2>1, <2>2 DEF TitleInfos
    <2>. QED
      BY <2>3
  <1>7. a.st \in Int /\ b.st \in Int
    BY <1>3 DEF TitleInfos, Storages, GameCard, SdCard
  <1>8. a.key.id \in Int /\ b.key.id \in Int /\ a.key.ver \in Int /\ b.key.ver \in Int
    BY <1>5 DEF MetaKeys
  <1>. QED
    BY <1>6, <1>7, <1>8 DEF Visits

\* Infos of one type have a last one: the one after which the fewest come.
LEMMA LatestIsLast ==
    ASSUME NEW T, ArraysOK(T), NEW S, S \subseteq AllOf(T), S # {},
           \A a, b \in S : a.key.type = b.key.type
    PROVE  Latest(S) \in S /\ \A y \in S \ {Latest(S)} : Visits(y, Latest(S))
  <1>. DEFINE After(x) == {y \in S : Visits(x, y)}
              Afters == {After(x) : x \in S}
  <1>1. IsFiniteSet(S) /\ S \subseteq TitleInfos
    BY AllInfos, FS_Subset
  <1>2. Afters \subseteq FiniteSubsetsOf(S)
    <2>1. \A x \in S : After(x) \in SUBSET S
      OBVIOUS
    <2>. QED
      BY <1>1, <2>1, FS_FiniteSubsetsOfFinite
  <1>3. IsWellFoundedOn(StrictSubsetOrdering(S), FiniteSubsetsOf(S))
    BY FS_StrictSubsetOrderingWellFounded
  <1>4. Afters # {}
    OBVIOUS
  <1>5. PICK A \in Afters : \A B \in Afters : <<B, A>> \notin StrictSubsetOrdering(S)
    <2>. HIDE DEF Afters
    <2>. QED
      BY <1>2, <1>3, <1>4, WFMin
  <1>6. PICK x \in S : A = After(x)
    BY <1>5
  <1>7. \A y \in S : ~Visits(x, y)
    <2>. SUFFICES ASSUME NEW y \in S, Visits(x, y) PROVE FALSE
      OBVIOUS
    <2>1. After(y) \subseteq After(x)
      <3>. SUFFICES ASSUME NEW z \in S, Visits(y, z) PROVE Visits(x, z)
        OBVIOUS
      <3>. QED
        BY <1>1, VisitsOrder
    <2>2. y \in After(x) /\ y \notin After(y)
      BY <1>1, VisitsOrder
    <2>3. After(y) # After(x) /\ After(x) \in SUBSET S /\ After(y) \in SUBSET S
      BY <2>2
    <2>4. <<After(y), After(x)>> \in StrictSubsetOrdering(S)
      <3>. HIDE DEF After
      <3>. QED
        BY <2>1, <2>3 DEF StrictSubsetOrdering
    <2>. QED
      BY <1>5, <1>6, <2>4
  <1>8. \A y \in S \ {x} : Visits(y, x)
    <2>. SUFFICES ASSUME NEW y \in S, y # x PROVE Visits(y, x)
      OBVIOUS
    <2>1. Visits(x, y) \/ Visits(y, x)
      BY VisitsTotal
    <2>. QED
      BY <1>7, <2>1
  <1>. QED
    BY <1>6, <1>8, Zenon DEF Latest

(***************************************************************************)
(* The linked lists.                                                       *)
(***************************************************************************)

LEMMA SiblingsOfOne ==
    ASSUME NEW a, NEW b, NEW c, AreSiblings(a, c), AreSiblings(b, c)
    PROVE  AreSiblings(a, b) /\ a.key.type = b.key.type
  BY DEF AreSiblings, titleCheckIfAddOnContentIdsAreSiblings,
         titleCheckIfDataPatchIdsAreSiblings, Application, Patch, AddOnContent, DataPatch

LEMMA PreviousIsClosest ==
    ASSUME NEW T, ArraysOK(T), NEW i \in AllOf(T), PreviousOf(T, i) # None
    PROVE  LET p == PreviousOf(T, i)
           IN /\ p \in UserOf(T) /\ Visits(p, i) /\ AreSiblings(p, i)
              /\ \A y \in UserOf(T) :
                   Visits(y, i) /\ AreSiblings(y, i) /\ y # p => Visits(y, p)
  <1>. DEFINE earlier == {j \in UserOf(T) : Visits(j, i) /\ AreSiblings(j, i)}
  <1>1. earlier # {} /\ PreviousOf(T, i) = Latest(earlier)
    BY DEF PreviousOf
  <1>2. earlier \subseteq AllOf(T)
    BY AllInfos
  <1>3. \A a, b \in earlier : a.key.type = b.key.type
    BY SiblingsOfOne
  <1>4. Latest(earlier) \in earlier
        /\ \A y \in earlier \ {Latest(earlier)} : Visits(y, Latest(earlier))
    <2>. HIDE DEF earlier
    <2>. QED
      BY <1>1, <1>2, <1>3, LatestIsLast
  <1>. QED
    BY <1>1, <1>4

\* Two infos after the same one are the same: the one that is visited first
\* would be between that one and the other.
LEMMA PreviousIsInjective ==
    ASSUME NEW T, ArraysOK(T), NEW i, i # None, NEW j \in UserOf(T), NEW k \in UserOf(T),
           PreviousOf(T, j) = i, PreviousOf(T, k) = i
    PROVE  j = k
  <1>1. \A a, b \in UserOf(T) :
          PreviousOf(T, a) = i /\ PreviousOf(T, b) = i => ~Visits(a, b)
    <2>. SUFFICES ASSUME NEW a \in UserOf(T), NEW b \in UserOf(T),
                         PreviousOf(T, a) = i, PreviousOf(T, b) = i, Visits(a, b)
                  PROVE  FALSE
      OBVIOUS
    <2>1. a \in TitleInfos /\ b \in TitleInfos /\ a \in AllOf(T) /\ b \in AllOf(T)
      BY AllInfos
    <2>2. i \in UserOf(T) /\ Visits(i, a) /\ AreSiblings(i, a) /\ AreSiblings(i, b)
      BY <2>1, PreviousIsClosest
    <2>3. i \in TitleInfos
      BY <2>2, AllInfos
    <2>4. AreSiblings(a, b)
      <3>1. AreSiblings(a, i) /\ AreSiblings(b, i)
        BY <2>2 DEF AreSiblings, titleCheckIfAddOnContentIdsAreSiblings,
                    titleCheckIfDataPatchIdsAreSiblings
      <3>. QED
        BY <3>1, SiblingsOfOne
    <2>5. a # i /\ ~Visits(a, i)
      BY <2>1, <2>2, <2>3, VisitsOrder
    <2>6. a # i => Visits(a, i)
      BY <2>1, <2>4, PreviousIsClosest
    <2>. QED
      BY <2>5, <2>6
  <1>2. j.key.type = k.key.type
    <2>1. AreSiblings(i, j) /\ AreSiblings(i, k)
      BY AllInfos, PreviousIsClosest
    <2>. QED
      BY <2>1 DEF AreSiblings
  <1>. QED
    BY <1>1, <1>2, AllInfos, VisitsTotal

LEMMA RelinkedIsOK ==
    ASSUME NEW T, ArraysOK(T), NEW M
    PROVE  LinksOK(T, Relinked(T, M))
  <1>. DEFINE linked == UserOf(T) \ {i \in UserOf(T) : IsOrphan(T, M, i)}
              R == Relinked(T, M)
              p == [i \in AllOf(T) |-> IF i \in linked THEN PreviousOf(T, i) ELSE None]
              n == [i \in AllOf(T) |-> IF \E j \in linked : p[j] = i
                                       THEN CHOOSE j \in linked : p[j] = i ELSE None]
  <1>1. /\ R.previous = p /\ R.next = n
        /\ R.orphans = {i \in UserOf(T) : IsOrphan(T, M, i)}
        /\ R.md \subseteq AllOf(T)
    BY DEF Relinked
  <1>2. linked \subseteq UserOf(T) /\ UserOf(T) \subseteq AllOf(T) /\ None \notin AllOf(T)
    BY AllInfos
  <1>3. \A j \in AllOf(T) : p[j] # None => j \in linked /\ p[j] = PreviousOf(T, j)
    BY <1>2
  <1>4. \A j \in AllOf(T) : p[j] # None => p[j] \in AllOf(T)
    BY <1>2, <1>3, PreviousIsClosest
  <1>5. \A j, k \in AllOf(T) : p[j] # None /\ p[j] = p[k] => j = k
    BY <1>2, <1>3, PreviousIsInjective
  <1>6. \A i \in AllOf(T) : n[i] # None => n[i] \in linked /\ p[n[i]] = i
    <2>. HIDE DEF p, linked
    <2>. QED
      OBVIOUS
  <1>7. \A j \in AllOf(T) : p[j] # None => n[p[j]] = j
    <2>. SUFFICES ASSUME NEW j \in AllOf(T), p[j] # None PROVE n[p[j]] = j
      OBVIOUS
    <2>1. j \in linked /\ p[j] \in AllOf(T)
      BY <1>3, <1>4
    <2>2. n[p[j]] = CHOOSE k \in linked : p[k] = p[j]
      <3>. HIDE DEF p, linked
      <3>. QED
        BY <2>1
    <2>3. n[p[j]] \in linked /\ p[n[p[j]]] = p[j]
      <3>. HIDE DEF p, linked, n
      <3>. QED
        BY <2>1, <2>2
    <2>. HIDE DEF p, linked, n
    <2>. QED
      BY <1>2, <1>5, <2>3
  <1>8. DOMAIN p = AllOf(T) /\ DOMAIN n = AllOf(T)
    OBVIOUS
  <1>9. \A i \in AllOf(T) : n[i] # None => n[i] \in AllOf(T)
    <2>. HIDE DEF p, linked, n
    <2>. QED
      BY <1>2, <1>6
  <1>10. R.orphans \subseteq AllOf(T)
    BY <1>1, <1>2
  <1>. HIDE DEF p, n, linked, R
  <1>11. LinksOK(T, R)
    BY <1>1, <1>4, <1>6, <1>7, <1>8, <1>9, <1>10 DEF LinksOK
  <1>. QED
    BY <1>11 DEF R

(***************************************************************************)
(* Filling the arrays.                                                     *)
(***************************************************************************)

LEMMA StoragesAre ==
    /\ GameCard \in Storages /\ BuiltInSystem \in Storages
    /\ BuiltInUser \in Storages /\ SdCard \in Storages
    /\ \A s \in {BuiltInSystem, BuiltInUser, SdCard} : s # GameCard
  BY DEF Storages, GameCard, BuiltInSystem, BuiltInUser, SdCard

LEMMA NoKeys == MetaKeySet({})
  BY FS_EmptySet DEF MetaKeySet

LEMMA SomeKeys == ASSUME NEW K, MetaKeySet(K), NEW J \in SUBSET K PROVE MetaKeySet(J)
  <1>1. IsFiniteSet(J)
    BY FS_Subset DEF MetaKeySet
  <1>. QED
    BY <1>1 DEF MetaKeySet

LEMMA InfosAreFinite ==
    ASSUME NEW st \in Storages, NEW K, MetaKeySet(K), NEW inc \in Nat
    PROVE  /\ InfosOf(st, K, inc) \subseteq TitleInfos
           /\ IsFiniteSet(InfosOf(st, K, inc))
           /\ \A i \in InfosOf(st, K, inc) : i.st = st /\ i.inc = inc
           /\ {i.key : i \in InfosOf(st, K, inc)} = K
  <1>. DEFINE f == [k \in K |-> [st |-> st, key |-> k, inc |-> inc]]
              I == InfosOf(st, K, inc)
  <1>1. I \subseteq TitleInfos /\ \A i \in I : i.st = st /\ i.inc = inc
    BY DEF InfosOf, TitleInfos, MetaKeySet
  <1>2. f \in [K -> I] /\ \A i \in I : \E k \in K : f[k] = i
    BY DEF InfosOf
  <1>3. f \in Surjection(K, I)
    <2>. HIDE DEF f, I
    <2>. QED
      BY <1>2 DEF Surjection
  <1>4. IsFiniteSet(I)
    <2>. HIDE DEF f, I
    <2>. QED
      BY <1>3, FS_Surjection DEF MetaKeySet
  <1>5. {i.key : i \in I} = K
    <2>1. \A k \in K : f[k] \in I /\ f[k].key = k
      BY DEF InfosOf
    <2>2. \A i \in I : i.key \in K
      BY DEF InfosOf
    <2>. HIDE DEF f, I
    <2>. QED
      BY <2>1, <2>2
  <1>. QED
    BY <1>1, <1>4, <1>5

LEMMA FilledIsOK ==
    ASSUME NEW T, ArraysOK(T), NEW st \in Storages, NEW K, MetaKeySet(K), NEW inc \in Nat
    PROVE  ArraysOK([T EXCEPT ![st] = InfosOf(st, K, inc)])
  <1>. DEFINE I == InfosOf(st, K, inc)
  <1>1. I \in SUBSET TitleInfos /\ IsFiniteSet(I) /\ \A i, j \in I : i.st = st /\ i.inc = j.inc
    BY InfosAreFinite
  <1>. HIDE DEF I
  <1>2. [T EXCEPT ![st] = I] \in [Storages -> SUBSET TitleInfos]
    BY <1>1 DEF ArraysOK
  <1>3. \A s \in Storages : [T EXCEPT ![st] = I][s] = IF s = st THEN I ELSE T[s]
    BY DEF ArraysOK
  <1>4. ArraysOK([T EXCEPT ![st] = I])
    BY <1>1, <1>2, <1>3 DEF ArraysOK
  <1>. QED
    BY <1>4 DEF I

LEMMA ClosedIsOK ==
    ASSUME NEW T, ArraysOK(T)
    PROVE  ArraysOK(Closed(T)) /\ Closed(T)[GameCard] = {}
           /\ (T[GameCard] = {} => Closed(T) = T)
  <1>1. ArraysOK(Closed(T)) /\ Closed(T)[GameCard] = {}
    BY FS_EmptySet, StoragesAre DEF ArraysOK, Closed
  <1>2. T[GameCard] = {} => Closed(T) = T
    BY StoragesAre DEF ArraysOK, Closed
  <1>. QED
    BY <1>1, <1>2

LEMMA NothingIsOK == ArraysOK(NoArrays) /\ LinksOK(NoArrays, NoLists) /\ AllOf(NoArrays) = {}
  <1>1. ArraysOK(NoArrays)
    BY FS_EmptySet DEF ArraysOK, NoArrays
  <1>2. AllOf(NoArrays) = {}
    BY DEF AllOf, NoArrays
  <1>. QED
    BY <1>1, <1>2 DEF LinksOK, NoLists

SameBut(T, R, st) == \A s \in Storages : s # st => T[s] = R[s]

\* The result of a step of the filling.
Result(r) == DOMAIN r = {"ok", "T", "L", "U"}

\* What filling one storage does to a result.
Fills(q, r, st, keys, inc) ==
  /\ Result(q) /\ ArraysOK(q.T) /\ LinksOK(q.T, q.L) /\ q.U = r.U
  /\ SameBut(q.T, r.T, st)
  /\ \/ q.T = r.T
     \/ q.T[st] = InfosOf(st, keys \ world.broken, inc)
  /\ q.ok => keys = {} \/ q.T[st] = InfosOf(st, keys \ world.broken, inc)

LEMMA GeneratedIsOK ==
    ASSUME NEW r, Result(r), ArraysOK(r.T), LinksOK(r.T, r.L),
           NEW st \in Storages, NEW keys, MetaKeySet(keys), NEW inc \in Nat
    PROVE  Fills(titleGenerateTitleInfoEntriesForTitleStorage(r, st, keys, inc),
                 r, st, keys, inc)
  <1>. DEFINE usable == {k \in keys : titleGetContentInfosByMetaKey(k)}
              T2 == [r.T EXCEPT ![st] = InfosOf(st, usable, inc)]
              M2 == r.L.md \cup {i \in T2[st] : HasMetadata(i, r.U)}
              q == titleGenerateTitleInfoEntriesForTitleStorage(r, st, keys, inc)
  <1>1. usable = keys \ world.broken
    BY DEF titleGetContentInfosByMetaKey
  <1>2. ArraysOK(T2)
    BY FilledIsOK, SomeKeys
  <1>3. /\ SameBut(T2, r.T, st)
        /\ T2[st] = InfosOf(st, usable, inc)
    BY DEF ArraysOK, SameBut
  <1>4. LinksOK(T2, Relinked(T2, M2))
    <2>. HIDE DEF T2, M2
    <2>. QED
      BY <1>2, RelinkedIsOK
  <1>5. q = CASE keys = {}   -> r
              [] usable = {} -> [r EXCEPT !.ok = FALSE]
              [] OTHER       -> [r EXCEPT !.T = T2, !.L = Relinked(T2, M2)]
    BY Zenon DEF titleGenerateTitleInfoEntriesForTitleStorage
  <1>. HIDE DEF usable, T2, M2, q
  <1>6. /\ Result(q) /\ q.U = r.U
        /\ \/ q.T = r.T /\ q.L = r.L
           \/ q.T = T2 /\ q.L = Relinked(T2, M2)
        /\ q.ok => keys = {} \/ q.T = T2
    <2>. DEFINE fails == [r EXCEPT !.ok = FALSE]
                fills == [r EXCEPT !.T = T2, !.L = Relinked(T2, M2)]
    <2>1. Result(fails) /\ fails.T = r.T /\ fails.L = r.L /\ fails.U = r.U
          /\ ~fails.ok
      BY DEF Result
    <2>2. /\ Result(fills) /\ fills.T = T2 /\ fills.L = Relinked(T2, M2)
          /\ fills.U = r.U
      BY DEF Result
    <2>3. q = CASE keys = {} -> r [] usable = {} -> fails [] OTHER -> fills
      BY <1>5, Zenon
    <2>. HIDE DEF fails, fills
    <2>4. (keys = {} /\ q = r) \/ q = fails \/ q = fills
      BY <2>3
    <2>. QED
      BY <2>1, <2>2, <2>4
  <1>7. /\ Result(q) /\ ArraysOK(q.T) /\ LinksOK(q.T, q.L) /\ q.U = r.U
        /\ SameBut(q.T, r.T, st)
        /\ \/ q.T = r.T
           \/ q.T[st] = InfosOf(st, usable, inc)
        /\ q.ok => keys = {} \/ q.T[st] = InfosOf(st, usable, inc)
    BY <1>2, <1>3, <1>4, <1>6 DEF SameBut
  <1>8. Fills(q, r, st, keys, inc)
    BY <1>1, <1>7 DEF Fills
  <1>. QED
    BY <1>8 DEF q

LEMMA ListedKeys ==
    ASSUME AppTypeOK, NEW st \in Storages
    PROVE  MetaKeySet(titleGetMetaKeysFromContentDatabase(st))
  <1>1. MetaKeySet(world.sys) /\ MetaKeySet(world.user) /\ MetaKeySet(world.sd)
    BY WorldsAssumption DEF AppTypeOK
  <1>2. MetaKeySet(card.keys)
    BY CardsAssumption, NoKeys DEF AppTypeOK, NoCard
  <1>. QED
    BY <1>1, <1>2, NoKeys DEF titleGetMetaKeysFromContentDatabase, Storages,
       GameCard, BuiltInSystem, BuiltInUser, SdCard

LEMMA PersistentIsOK ==
    ASSUME AppTypeOK, NEW U
    PROVE  LET r == titleInitializePersistentTitleStorages(U)
           IN ArraysOK(r.T) /\ LinksOK(r.T, r.L) /\ r.T[GameCard] = {}
  <1>. DEFINE open(r, st) ==
                IF r.ok THEN titleGenerateTitleInfoEntriesForTitleStorage(
                               r, st, titleGetMetaKeysFromContentDatabase(st), 0)
                ELSE r
              none == [ok |-> TRUE, T |-> NoArrays, L |-> NoLists, U |-> U]
              OK(r) == /\ Result(r) /\ ArraysOK(r.T) /\ LinksOK(r.T, r.L)
                       /\ r.T[GameCard] = {}
  <1>1. OK(none)
    BY NothingIsOK, StoragesAre DEF Result, NoArrays
  <1>2. ASSUME NEW r, OK(r), NEW st \in {BuiltInSystem, BuiltInUser, SdCard}
        PROVE  OK(open(r, st))
    <2>1. MetaKeySet(titleGetMetaKeysFromContentDatabase(st)) /\ st \in Storages
      BY ListedKeys, StoragesAre
    <2>. DEFINE q == titleGenerateTitleInfoEntriesForTitleStorage(
                       r, st, titleGetMetaKeysFromContentDatabase(st), 0)
    <2>2. Fills(q, r, st, titleGetMetaKeysFromContentDatabase(st), 0)
      BY <1>2, <2>1, GeneratedIsOK
    <2>3. q.T[GameCard] = r.T[GameCard]
      <3>. HIDE DEF q
      <3>. QED
        BY <2>2, StoragesAre DEF SameBut, Fills
    <2>4. OK(q)
      <3>. HIDE DEF q
      <3>. QED
        BY <1>2, <2>2, <2>3 DEF Fills
    <2>. QED
      BY <1>2, <2>4, Zenon
  <1>3. titleInitializePersistentTitleStorages(U)
          = open(open(open(none, BuiltInSystem), BuiltInUser), SdCard)
    BY Zenon DEF titleInitializePersistentTitleStorages
  <1>. HIDE DEF open, none, OK
  <1>4. OK(open(none, BuiltInSystem))
    BY <1>1, <1>2
  <1>5. OK(open(open(none, BuiltInSystem), BuiltInUser))
    BY <1>2, <1>4
  <1>6. OK(open(open(open(none, BuiltInSystem), BuiltInUser), SdCard))
    BY <1>2, <1>5
  <1>. QED
    BY <1>3, <1>6 DEF OK

(***************************************************************************)
(* The refresh.                                                            *)
(***************************************************************************)

LEMMA EntriesAreOfCard ==
    ASSUME NEW T, NEW M, NEW e \in titleGenerateGameCardApplicationMetadataArray(T, M)
    PROVE  \E i \in T[GameCard] : i.key.id = e.app
  <1>1. PICK i \in T[GameCard] :
          \E a, b, c : e = [app |-> i.key.id, has_patch |-> a, version |-> b, dlc_count |-> c]
    BY Zenon DEF titleGenerateGameCardApplicationMetadataArray
  <1>. QED
    BY <1>1

KeysAreOf(T, c) == {i.key : i \in T[GameCard]} \in {c.keys, c.keys \ world.broken}

LEMMA CardLoads == ASSUME AppTypeOK PROVE card.loads \in BOOLEAN /\ MetaKeySet(card.keys)
  <1>1. CASE card \in Cards
    BY <1>1, CardsAssumption
  <1>2. CASE card = NoCard
    <2>1. card.loads = FALSE /\ card.keys = {}
      BY <1>2 DEF NoCard
    <2>. QED
      BY <2>1, NoKeys
  <1>. QED
    BY <1>1, <1>2 DEF AppTypeOK

\* What the arrays and lists have to be at the end of a refresh.
LEMMA FinishKeeps ==
    ASSUME AppTypeOK, Places, Follows, tpc \in {"locked", "load"}, loaded' \in BOOLEAN,
           NEW T, NEW L, NEW U, NEW success \in BOOLEAN,
           FinishRefresh(T, L, U, success), ArraysOK(T), LinksOK(T, L),
           success \/ FilteredUser(T, U) = FilteredUser(arrays, userMeta),
           ~loaded' => T[GameCard] = {},
           ~overtaken /\ ~owed /\ ~event => loaded' = card.loads,
           ~overtaken /\ loaded' /\ card.loads => KeysAreOf(T, card)
    PROVE  TitleInv'
  <1>1. /\ arrays' = T /\ lists' = L /\ userMeta' = U /\ available' = loaded'
        /\ updated' = success /\ titleMutex' = "free" /\ tpc' = "wait"
        /\ gcMeta' = titleGenerateGameCardApplicationMetadataArray(T, L.md)
        /\ filtered' = IF success THEN [filtered EXCEPT !.user = FilteredUser(T, U)]
                       ELSE filtered
        /\ UNCHANGED <<world, card, owed, event, changes, overtaken, titleInit, exitEvent>>
    BY Zenon DEF FinishRefresh, feed
  <1>2. DOMAIN filtered' = {"sys", "user"} /\ filtered'.user = FilteredUser(T, U)
    <2>. DEFINE F == FilteredUser(T, U)
    <2>. HIDE DEF F
    <2>1. filtered.user = FilteredUser(arrays, userMeta)
      BY DEF Follows
    <2>2. CASE success
      <3>1. filtered' = [filtered EXCEPT !.user = F]
        BY <1>1, <2>2 DEF F
      <3>2. DOMAIN filtered' = {"sys", "user"} /\ filtered'.user = F
        BY <3>1 DEF AppTypeOK
      <3>. QED
        BY <3>2 DEF F
    <2>3. CASE ~success
      BY <1>1, <2>1, <2>3 DEF AppTypeOK, F
    <2>. QED
      BY <2>2, <2>3
  <1>3. AppTypeOK'
    BY <1>1, <1>2 DEF AppTypeOK
  <1>4. Places'
    BY <1>1 DEF Places, AppTypeOK
  <1>5. Linked'
    BY <1>1 DEF Linked
  <1>6. Follows'
    <2>1. FilteredUser(arrays, userMeta)' = FilteredUser(T, U)
      BY <1>1, Zenon DEF FilteredUser, titleIsUserApplicationContentAvailable, UserOf, AllOf
    <2>2. \A e \in gcMeta' : \E i \in arrays'[GameCard] : i.key.id = e.app
      BY <1>1, EntriesAreOfCard
    <2>3. OfCard' <=> KeysAreOf(T, card)
      BY <1>1 DEF OfCard, KeysAreOf
    <2>4. filtered'.user = FilteredUser(arrays, userMeta)'
      BY <1>2, <2>1
    <2>. QED
      BY <1>1, <2>2, <2>3, <2>4 DEF Follows, Pending
  <1>. QED
    BY <1>3, <1>4, <1>5, <1>6 DEF TitleInv

LEMMA ThreadReadsStatusKeeps ==
    ASSUME TitleInv, ThreadReadsStatus
    PROVE  TitleInv'
  <1>. USE DEF TitleInv
  <1>1. tpc = "locked" /\ loaded' = card.loads /\ titleInit /\ LinksOK(arrays, lists)
    BY DEF ThreadReadsStatus, Places, Linked
  <1>2. card.loads \in BOOLEAN
    BY CardLoads
  <1>3. CASE /\ loaded' = available
             /\ FinishRefresh(arrays, lists, userMeta, FALSE)
    <2>1. ~loaded' => arrays[GameCard] = {}
      BY <1>1, <1>3 DEF Follows
    <2>2. ~overtaken /\ loaded' /\ card.loads => KeysAreOf(arrays, card)
      BY <1>1, <1>3 DEF Follows, OfCard, KeysAreOf
    <2>. QED
      BY <1>1, <1>2, <1>3, <2>1, <2>2, FinishKeeps DEF AppTypeOK
  <1>4. CASE /\ loaded' # available /\ ~loaded'
             /\ FinishRefresh(Closed(arrays), Relinked(Closed(arrays), lists.md), userMeta, TRUE)
    <2>1. ArraysOK(Closed(arrays)) /\ Closed(arrays)[GameCard] = {}
      BY ClosedIsOK DEF AppTypeOK
    <2>2. LinksOK(Closed(arrays), Relinked(Closed(arrays), lists.md))
      BY <2>1, RelinkedIsOK
    <2>. QED
      BY <1>1, <1>2, <1>4, <2>1, <2>2, FinishKeeps DEF AppTypeOK
  <1>5. CASE /\ loaded' # available /\ loaded' /\ tpc' = "load"
             /\ UNCHANGED <<feed, titleMutex, titleInit, exitEvent, info, available, updated>>
    <2>1. UNCHANGED <<world, card, owed, event, changes, overtaken, titleMutex, titleInit,
                      exitEvent, arrays, lists, userMeta, filtered, gcMeta, gcNames,
                      available, updated>>
      BY <1>5 DEF feed, info
    <2>2. AppTypeOK' /\ Places' /\ Linked'
      BY <1>1, <1>2, <1>5, <2>1 DEF AppTypeOK, Places, Linked
    <2>3. FilteredUser(arrays, userMeta)' = FilteredUser(arrays, userMeta)
      BY <2>1 DEF FilteredUser, titleIsUserApplicationContentAvailable, UserOf, AllOf
    <2>4. Follows'
      BY <1>1, <1>2, <1>5, <2>1, <2>3 DEF Follows, AppTypeOK
    <2>. QED
      BY <2>2, <2>4
  <1>. QED
    BY <1>1, <1>3, <1>4, <1>5 DEF ThreadReadsStatus

\* The storage filled through NCM, from a state in which it is empty.
LEMMA ByNcmIsOK ==
    ASSUME AppTypeOK, LinksOK(arrays, lists), arrays[GameCard] = {}
    PROVE  LET r == GameCardByNcm
           IN /\ Result(r) /\ ArraysOK(r.T) /\ LinksOK(r.T, r.L) /\ r.U = userMeta
              /\ (r.T[GameCard] = {} => r.T = arrays)
              /\ \/ r.T = arrays
                 \/ {i.key : i \in r.T[GameCard]} = card.keys \ world.broken
              /\ r.ok => \/ card.keys = {}
                         \/ {i.key : i \in r.T[GameCard]} = card.keys \ world.broken
  <1>. DEFINE base == [ok |-> card.ncm, T |-> Closed(arrays), L |-> lists, U |-> userMeta]
              inc == changes + 1
              keys == titleGetMetaKeysFromContentDatabase(GameCard)
              q == titleGenerateTitleInfoEntriesForTitleStorage(base, GameCard, keys, inc)
  <1>1. Closed(arrays) = arrays /\ ArraysOK(arrays)
    BY ClosedIsOK DEF AppTypeOK
  <1>2. /\ Result(base) /\ ArraysOK(base.T) /\ LinksOK(base.T, base.L)
        /\ base.T = arrays /\ base.U = userMeta
    BY <1>1 DEF Result
  <1>3. keys = card.keys
    BY DEF titleGetMetaKeysFromContentDatabase, GameCard, BuiltInSystem, BuiltInUser, SdCard
  <1>4. MetaKeySet(card.keys) /\ MetaKeySet(card.keys \ world.broken) /\ inc \in Nat
    BY CardLoads, SomeKeys DEF AppTypeOK
  <1>5. GameCardByNcm = IF card.ncm THEN q ELSE base
    BY Zenon DEF GameCardByNcm
  <1>. HIDE DEF base, keys, inc
  <1>6. Fills(q, base, GameCard, keys, inc)
    BY <1>2, <1>3, <1>4, StoragesAre, GeneratedIsOK
  <1>7. {i.key : i \in InfosOf(GameCard, keys \ world.broken, inc)}
          = card.keys \ world.broken
    BY <1>3, <1>4, StoragesAre, InfosAreFinite
  <1>. HIDE DEF q
  <1>8. q.T[GameCard] = {} => q.T = arrays
    BY <1>1, <1>2, <1>6, SMTT(30) DEF SameBut, ArraysOK, Fills
  <1>9. ~card.ncm => ~base.ok
    BY DEF base
  <1>. QED
    BY <1>2, <1>3, <1>5, <1>6, <1>7, <1>8, <1>9 DEF Fills

\* The storage filled from the secure partition.
LEMMA ByHfsIsOK ==
    ASSUME AppTypeOK, LinksOK(arrays, lists), arrays[GameCard] = {}
    PROVE  LET r == titleInitializeGameCardTitleStorageByHashFileSystem
           IN /\ Result(r) /\ ArraysOK(r.T) /\ (r.ok <=> card.loads)
              /\ (r.T[GameCard] # {} => LinksOK(r.T, r.L))
              /\ (r.T[GameCard] = {} => r.T = arrays /\ r.U = userMeta)
              /\ (card.loads => {i.key : i \in r.T[GameCard]} = card.keys)
              /\ (~card.loads => r.T[GameCard] = {})
  <1>. DEFINE keys == titleGetGameCardContentMetaContexts
              inc == changes + 1
              I == InfosOf(GameCard, keys, inc)
              T2 == [Closed(arrays) EXCEPT ![GameCard] = I]
              own == {i \in T2[GameCard] : titleGetApplicationControlDataFromControlNca(i)}
              M2 == lists.md \cup own \cup {i \in T2[GameCard] : HasMetadata(i, userMeta)}
              r == titleInitializeGameCardTitleStorageByHashFileSystem
  <1>1. Closed(arrays) = arrays /\ ArraysOK(arrays)
    BY ClosedIsOK DEF AppTypeOK
  <1>2. /\ MetaKeySet(keys) /\ inc \in Nat
        /\ keys = IF card.loads THEN card.keys ELSE {}
    BY CardLoads, NoKeys DEF titleGetGameCardContentMetaContexts, AppTypeOK
  <1>. HIDE DEF inc
  <1>3. ArraysOK(T2)
    BY <1>1, <1>2, StoragesAre, FilledIsOK
  <1>4. T2[GameCard] = I
    BY <1>1, StoragesAre DEF ArraysOK
  <1>5. {i.key : i \in I} = keys
    BY <1>2, StoragesAre, InfosAreFinite
  <1>6. I = {} <=> keys = {}
    <2>. HIDE DEF keys, I
    <2>. QED
      BY <1>5
  <1>7. I = {} => T2 = arrays /\ own = {}
    <2>. SUFFICES ASSUME I = {} PROVE T2 = arrays /\ own = {}
      OBVIOUS
    <2>1. T2 = [arrays EXCEPT ![GameCard] = {}]
      BY <1>1
    <2>2. T2 = arrays
      BY <1>1, <2>1, StoragesAre DEF ArraysOK
    <2>. QED
      BY <1>4, <2>2
  <1>8. r = [ok |-> card.loads, T |-> T2,
             L |-> IF keys # {} THEN Relinked(T2, M2) ELSE lists,
             U |-> userMeta \cup {titleGetApplicationIdByContentMetaKey(i.key) : i \in own}]
    BY Zenon DEF inc, titleInitializeGameCardTitleStorageByHashFileSystem
  <1>9. LinksOK(T2, Relinked(T2, M2))
    <2>. HIDE DEF T2, M2
    <2>. QED
      BY <1>3, RelinkedIsOK
  <1>10. own = {} =>
           userMeta \cup {titleGetApplicationIdByContentMetaKey(i.key) : i \in own} = userMeta
    <2>. HIDE DEF own
    <2>. QED
      OBVIOUS
  <1>. HIDE DEF keys, I, T2, own, M2, r
  <1>11. /\ Result(r) /\ r.ok = card.loads /\ r.T = T2
         /\ (keys # {} => r.L = Relinked(T2, M2))
         /\ r.U = userMeta \cup {titleGetApplicationIdByContentMetaKey(i.key) : i \in own}
    BY <1>8 DEF Result
  <1>12. r.T[GameCard] = I
    BY <1>4, <1>11
  <1>13. r.T[GameCard] # {} => LinksOK(r.T, r.L)
    BY <1>6, <1>9, <1>11, <1>12
  <1>14. r.T[GameCard] = {} => r.T = arrays /\ r.U = userMeta
    BY <1>7, <1>10, <1>11, <1>12
  <1>15. /\ (card.loads => {i.key : i \in r.T[GameCard]} = card.keys)
         /\ (~card.loads => r.T[GameCard] = {})
    BY <1>2, <1>5, <1>6, <1>12
  <1>. QED
    BY <1>3, <1>11, <1>13, <1>14, <1>15 DEF r

LEMMA NsMetadataIsOK ==
    ASSUME NEW r, Result(r), ArraysOK(r.T), LinksOK(r.T, r.L)
    PROVE  LET n == WithNsMetadata(r) IN n.T = r.T /\ LinksOK(n.T, n.L)
  <1>. DEFINE app(i) == titleGetApplicationIdByContentMetaKey(i.key)
              U2 == r.U \cup {app(i) : i \in {j \in r.T[GameCard] \ r.L.md :
                                         titleGetApplicationControlDataFromNs(app(j))}}
              M2 == r.L.md \cup {i \in r.T[GameCard] : app(i) \in U2}
              L2 == IF U2 # r.U THEN Relinked(r.T, M2) ELSE [r.L EXCEPT !.md = M2]
              n == WithNsMetadata(r)
  <1>1. n = [r EXCEPT !.U = U2, !.L = L2]
    BY Zenon DEF WithNsMetadata
  <1>2. LinksOK(r.T, Relinked(r.T, M2))
    <2>. HIDE DEF M2
    <2>. QED
      BY RelinkedIsOK
  <1>3. M2 \subseteq AllOf(r.T)
    <2>1. r.T[GameCard] \subseteq AllOf(r.T)
      BY StoragesAre DEF AllOf
    <2>2. r.L.md \subseteq AllOf(r.T)
      BY DEF LinksOK
    <2>. QED
      BY <2>1, <2>2, Zenon
  <1>. HIDE DEF U2, M2, n
  <1>. DEFINE E == [r.L EXCEPT !.md = M2]
  <1>4. /\ E.previous = r.L.previous /\ E.next = r.L.next /\ E.orphans = r.L.orphans
        /\ E.md \subseteq M2
    OBVIOUS
  <1>. HIDE DEF E
  <1>5. LinksOK(r.T, E)
    BY <1>3, <1>4 DEF LinksOK
  <1>6. LinksOK(r.T, L2)
    BY <1>2, <1>5, Zenon DEF E
  <1>. HIDE DEF L2
  <1>7. n.T = r.T /\ n.L = L2
    BY <1>1 DEF Result
  <1>. QED
    BY <1>6, <1>7 DEF n

LEMMA ThreadLoadsKeeps ==
    ASSUME TitleInv, ThreadLoads
    PROVE  TitleInv'
  <1>. USE DEF TitleInv
  <1>. DEFINE ncm == GameCardByNcm
              hfs == titleInitializeGameCardTitleStorageByHashFileSystem
              r == IF ncm.ok THEN ncm ELSE hfs
              n == WithNsMetadata(r)
              filled == r.ok /\ r.T[GameCard] # {}
              base == ncm.ok /\ \E i \in r.T[GameCard] : i.key.type = Application
  <1>1. /\ tpc = "load" /\ loaded' = loaded
        /\ IF filled THEN IF base THEN FinishRefresh(n.T, n.L, n.U, TRUE)
                                  ELSE FinishRefresh(r.T, r.L, r.U, TRUE)
           ELSE FinishRefresh(Closed(r.T), Relinked(Closed(r.T), r.L.md), r.U, FALSE)
    BY Zenon DEF ThreadLoads
  <1>2. /\ loaded /\ arrays[GameCard] = {} /\ LinksOK(arrays, lists)
        /\ ~overtaken /\ ~owed /\ ~event => card.loads
    BY <1>1 DEF Follows, Places, Linked
  <1>3. loaded' = TRUE /\ card.loads \in BOOLEAN
    BY <1>1, <1>2, CardLoads DEF AppTypeOK
  <1>4. /\ Result(ncm) /\ ArraysOK(ncm.T) /\ LinksOK(ncm.T, ncm.L) /\ ncm.U = userMeta
        /\ (ncm.T[GameCard] = {} => ncm.T = arrays)
        /\ (ncm.T = arrays \/ KeysAreOf(ncm.T, card))
        /\ (ncm.ok => card.keys = {} \/ KeysAreOf(ncm.T, card))
    BY <1>2, ByNcmIsOK DEF KeysAreOf
  <1>5. /\ Result(hfs) /\ ArraysOK(hfs.T) /\ (hfs.ok <=> card.loads)
        /\ (hfs.T[GameCard] # {} => LinksOK(hfs.T, hfs.L))
        /\ (hfs.T[GameCard] = {} => hfs.T = arrays /\ hfs.U = userMeta)
        /\ (card.loads => KeysAreOf(hfs.T, card))
        /\ (~card.loads => hfs.T[GameCard] = {})
    BY <1>2, ByHfsIsOK DEF KeysAreOf
  <1>6. \A T : T[GameCard] = {} /\ card.keys = {} => KeysAreOf(T, card)
    BY DEF KeysAreOf
  <1>. HIDE DEF ncm, hfs
  <1>7. /\ Result(r) /\ ArraysOK(r.T)
        /\ (r.T[GameCard] # {} => LinksOK(r.T, r.L))
        /\ (r.T[GameCard] = {} => r.T = arrays /\ r.U = userMeta)
        /\ (~filled => r.T[GameCard] = {})
        /\ (card.loads => KeysAreOf(r.T, card))
    <2>1. CASE ncm.ok
      BY <1>2, <1>4, <1>6, <2>1
    <2>2. CASE ~ncm.ok
      BY <1>5, <2>2
    <2>. QED
      BY <2>1, <2>2
  <1>. HIDE DEF r, base
  <1>8. CASE filled /\ base
    <2>1. n.T = r.T /\ LinksOK(n.T, n.L)
      BY <1>7, <1>8, NsMetadataIsOK
    <2>. HIDE DEF n, filled
    <2>2. FinishRefresh(n.T, n.L, n.U, TRUE)
      BY <1>1, <1>8, Zenon
    <2>. QED
      BY <1>1, <1>2, <1>3, <1>7, <2>1, <2>2, FinishKeeps
  <1>9. CASE filled /\ ~base
    <2>1. LinksOK(r.T, r.L)
      BY <1>7, <1>9
    <2>. HIDE DEF n, filled
    <2>2. FinishRefresh(r.T, r.L, r.U, TRUE)
      BY <1>1, <1>9, Zenon
    <2>. QED
      BY <1>1, <1>2, <1>3, <1>7, <2>1, <2>2, FinishKeeps
  <1>10. CASE ~filled
    <2>. DEFINE T == Closed(r.T)
                L == Relinked(T, r.L.md)
    <2>1. r.T = arrays /\ r.U = userMeta /\ T = arrays /\ T[GameCard] = {}
      BY <1>2, <1>7, <1>10, ClosedIsOK
    <2>2. ArraysOK(T) /\ LinksOK(T, L)
      BY <1>7, ClosedIsOK, RelinkedIsOK
    <2>. HIDE DEF n, filled, T, L
    <2>3. FinishRefresh(T, L, r.U, FALSE)
      BY <1>1, <1>10, Zenon DEF T, L
    <2>4. card.loads => KeysAreOf(T, card)
      BY <1>7, <2>1
    <2>. QED
      BY <1>1, <1>2, <1>3, <2>1, <2>2, <2>3, <2>4, FinishKeeps
  <1>. QED
    BY <1>8, <1>9, <1>10

\* Steps that leave the title infos and what is made of them alone.
LEMMA InfoStays ==
    ASSUME UNCHANGED info
    PROVE  /\ UNCHANGED <<arrays, lists, sysMeta, userMeta, filtered, gcMeta, gcNames>>
           /\ FilteredUser(arrays, userMeta)' = FilteredUser(arrays, userMeta)
  BY DEF info, FilteredUser, titleIsUserApplicationContentAvailable, UserOf, AllOf

LEMMA CardChangesKeeps ==
    ASSUME TitleInv, CardChanges
    PROVE  TitleInv'
  <1>. USE DEF TitleInv
  <1>1. PICK c \in Cards \cup {NoCard} :
          /\ card = NoCard \/ c = NoCard
          /\ card' = c
    BY DEF CardChanges
  <1>2. /\ ~owed /\ owed' = TRUE /\ changes' = changes + 1
        /\ overtaken' = (overtaken \/ event \/ tpc \in {"woken", "locked"})
        /\ UNCHANGED <<world, event, titleMutex, titleInit, tpc, exitEvent, loaded, info,
                       available, updated>>
    BY DEF CardChanges
  <1>3. AppTypeOK' /\ Places' /\ Linked'
    BY <1>1, <1>2, InfoStays DEF AppTypeOK, Places, Linked
  <1>4. ~NoCard.loads
    BY DEF NoCard
  <1>5. Follows'
    BY <1>1, <1>2, <1>4, InfoStays DEF Follows, Pending, AppTypeOK
  <1>. QED
    BY <1>3, <1>5

LEMMA SmallStepsKeep ==
    ASSUME TitleInv, \/ CardSignals \/ ThreadWakes \/ ThreadLocks
                     \/ titleExitBegins("main") \/ UNCHANGED tvars
    PROVE  TitleInv'
  <1>. USE DEF TitleInv
  <1>1. CASE CardSignals
    BY <1>1, InfoStays DEF CardSignals, AppTypeOK, Places, Linked, Follows, Pending, OfCard
  <1>2. CASE ThreadWakes
    BY <1>2, InfoStays DEF ThreadWakes, AppTypeOK, Places, Linked, Follows, Pending, OfCard
  <1>3. CASE ThreadLocks
    BY <1>3, InfoStays DEF ThreadLocks, feed, AppTypeOK, Places, Linked, Follows, Pending, OfCard
  <1>4. CASE titleExitBegins("main")
    BY <1>4, InfoStays DEF titleExitBegins, feed, AppTypeOK, Places, Linked, Follows, Pending, OfCard
  <1>5. CASE UNCHANGED tvars
    BY <1>5, InfoStays DEF tvars, feed, AppTypeOK, Places, Linked, Follows, Pending, OfCard
  <1>. QED
    BY <1>1, <1>2, <1>3, <1>4, <1>5

LEMMA ThreadLeavesKeeps == ASSUME TitleInv, ThreadLeaves PROVE TitleInv'
  BY DEF TitleInv, ThreadLeaves, feed, AppTypeOK, Places, Linked, Follows

LEMMA ExitEndsKeeps == ASSUME TitleInv, titleExitEnds("main") PROVE TitleInv'
  <1>1. /\ titleMutex = "main" /\ tpc \in {"off", "ended"}
        /\ titleMutex' = "free" /\ titleInit' = FALSE /\ tpc' = "off"
        /\ arrays' = NoArrays /\ filtered' = [sys |-> {}, user |-> {}] /\ gcMeta' = {}
        /\ UNCHANGED <<world, card, owed, event, changes, overtaken, exitEvent, loaded,
                       gcNames, available, updated>>
    BY DEF titleExitEnds, feed
  <1>2. DOMAIN filtered' = {"sys", "user"}
    BY <1>1
  <1>. QED
    BY <1>1, <1>2, NothingIsOK DEF TitleInv, AppTypeOK, Places, Linked, Follows

\* The flag is polled.
LEMMA PollKeeps ==
    ASSUME TitleInv, titleMutex = "free", titleInit, updated' = FALSE,
           UNCHANGED <<feed, titleMutex, titleInit, tpc, exitEvent, loaded, info, available>>
    PROVE  TitleInv'
  BY InfoStays DEF TitleInv, feed, AppTypeOK, Places, Linked, Follows, Pending, OfCard

LEMMA InitializeKeeps ==
    ASSUME TitleInv, titleInitialize, owed \/ event
    PROVE  TitleInv'
  <1>. USE DEF TitleInv
  <1>. DEFINE ns == titleGenerateMetadataEntriesFromNsRecords
              r == titleInitializePersistentTitleStorages(ns.ids)
  <1>1. /\ titleMutex = "free" /\ ~titleInit /\ tpc = "off" /\ exitEvent' = FALSE
        /\ UNCHANGED <<world, card, owed, event, changes, overtaken, titleMutex, loaded,
                       gcMeta, gcNames, available, updated>>
    BY DEF titleInitialize, feed
  <1>2. \/ UNCHANGED <<userMeta, arrays, lists, filtered, titleInit, tpc>>
        \/ /\ userMeta' = ns.ids /\ arrays' = r.T /\ lists' = r.L
           /\ \/ UNCHANGED <<filtered, titleInit, tpc>>
              \/ /\ titleInit' = TRUE /\ tpc' = "wait"
                 /\ \E S : filtered' = [sys |-> S, user |-> FilteredUser(r.T, ns.ids)]
    BY Zenon DEF titleInitialize
  <1>3. ArraysOK(r.T) /\ LinksOK(r.T, r.L) /\ r.T[GameCard] = {}
    BY PersistentIsOK
  <1>. HIDE DEF ns, r
  <1>4. CASE UNCHANGED <<titleInit, tpc, filtered>> /\ ArraysOK(arrays')
    BY <1>1, <1>4 DEF AppTypeOK, Places, Linked, Follows
  <1>5. CASE /\ userMeta' = ns.ids /\ arrays' = r.T /\ lists' = r.L
             /\ titleInit' = TRUE /\ tpc' = "wait"
             /\ \E S : filtered' = [sys |-> S, user |-> FilteredUser(r.T, ns.ids)]
    <2>1. DOMAIN filtered' = {"sys", "user"} /\ filtered'.user = FilteredUser(r.T, ns.ids)
      BY <1>5
    <2>2. FilteredUser(arrays, userMeta)' = FilteredUser(r.T, ns.ids)
      BY <1>5, Zenon DEF FilteredUser, titleIsUserApplicationContentAvailable, UserOf, AllOf
    <2>3. ~available /\ ~updated /\ gcNames = None /\ gcMeta = {}
      BY <1>1 DEF Places
    <2>4. AppTypeOK' /\ Places' /\ Linked'
      BY <1>1, <1>3, <1>5, <2>1, <2>3 DEF AppTypeOK, Places, Linked
    <2>5. Follows'
      BY <1>1, <1>3, <1>5, <2>1, <2>2, <2>3 DEF Follows, Pending
    <2>. QED
      BY <2>4, <2>5
  <1>. QED
    BY <1>2, <1>3, <1>4, <1>5 DEF AppTypeOK

LEMMA TitleInitInv == TInit => TitleInv
  <1>. SUFFICES ASSUME TInit PROVE TitleInv
    OBVIOUS
  <1>1. DOMAIN filtered = {"sys", "user"}
    BY DEF TInit
  <1>. QED
    BY <1>1, NothingIsOK DEF TInit, TitleInv, AppTypeOK, Places, Linked, Follows

(***************************************************************************)
(* The order in which resources are opened and closed.                     *)
(***************************************************************************)

LEMMA StartOrderIs ==
    /\ Len(StartOrder) = 18
    /\ StartOrder[1] = "exitlock" /\ StartOrder[2] = "sdfs" /\ StartOrder[3] = "services"
    /\ StartOrder[4] = "nxlink" /\ StartOrder[5] = "environment" /\ StartOrder[6] = "http"
    /\ StartOrder[7] = "usb" /\ StartOrder[8] = "ums" /\ StartOrder[9] = "keys"
    /\ StartOrder[10] = "ncabuffer" /\ StartOrder[11] = "gamecard"
    /\ StartOrder[12] = "title" /\ StartOrder[13] = "bfttf" /\ StartOrder[14] = "sysupdate"
    /\ StartOrder[15] = "romfs" /\ StartOrder[16] = "config"
    /\ StartOrder[17] = "clockhook" /\ StartOrder[18] = "bis"
  BY DEF StartOrder

LEMMA CloseOrderIs ==
    /\ Len(CloseOrder) = 18
    /\ CloseOrder[1] = "bis" /\ CloseOrder[2] = "devices" /\ CloseOrder[3] = "longrun"
    /\ CloseOrder[4] = "clockhook" /\ CloseOrder[5] = "config" /\ CloseOrder[6] = "romfs"
    /\ CloseOrder[7] = "sysupdate" /\ CloseOrder[8] = "bfttf" /\ CloseOrder[9] = "title"
    /\ CloseOrder[10] = "gamecard" /\ CloseOrder[11] = "ncabuffer"
    /\ CloseOrder[12] = "ums" /\ CloseOrder[13] = "usb" /\ CloseOrder[14] = "http"
    /\ CloseOrder[15] = "nxlink" /\ CloseOrder[16] = "services" /\ CloseOrder[17] = "log"
    /\ CloseOrder[18] = "exitlock"
  BY DEF CloseOrder

LEMMA UsesAre ==
    /\ Uses("title") = {"gamecard", "ncabuffer", "services", "keys"}
    /\ Uses("bfttf") = {"title", "ncabuffer", "services"}
    /\ Uses("sysupdate") = {"title", "services"}
    /\ Uses("gamecard") = {"services", "keys"}
    /\ Uses("config") = {"romfs"}
    /\ Uses("longrun") = {"config", "services"}
    /\ Uses("bis") = {"services", "keys"}
    /\ \A r \in {"usb", "http", "nxlink", "ums"} : Uses(r) = {"services"}
    /\ \A r \in {"exitlock", "sdfs", "services", "environment", "keys", "ncabuffer",
                 "romfs", "clockhook"} : Uses(r) = {}
  BY DEF Uses

LEMMA ResourcesAre ==
    Resources = {"exitlock", "sdfs", "services", "nxlink", "environment", "http", "usb",
                 "ums", "keys", "ncabuffer", "gamecard", "title", "bfttf", "sysupdate",
                 "romfs", "config", "clockhook", "bis"}
  <1>. DEFINE R == {"exitlock", "sdfs", "services", "nxlink", "environment", "http", "usb",
                    "ums", "keys", "ncabuffer", "gamecard", "title", "bfttf", "sysupdate",
                    "romfs", "config", "clockhook", "bis"}
  <1>1. \A k \in 1..18 : StartOrder[k] \in R
    <2>. SUFFICES ASSUME NEW k \in 1..18 PROVE StartOrder[k] \in R
      OBVIOUS
    <2>1. \/ k = 1 \/ k = 2 \/ k = 3 \/ k = 4 \/ k = 5 \/ k = 6 \/ k = 7 \/ k = 8 \/ k = 9
          \/ k = 10 \/ k = 11 \/ k = 12 \/ k = 13 \/ k = 14 \/ k = 15 \/ k = 16 \/ k = 17
          \/ k = 18
      OBVIOUS
    <2>. QED
      BY <2>1, StartOrderIs
  <1>2. \A r \in R : \E k \in 1..18 : StartOrder[k] = r
    BY StartOrderIs
  <1>. HIDE DEF R
  <1>3. Resources = R
    BY <1>1, <1>2 DEF Resources
  <1>. QED
    BY <1>3 DEF R

\* A resource is opened after what it uses, and closed after what uses it.
LEMMA StartedInOrder ==
    ASSUME NEW s \in 1..18, NEW u \in Uses(StartOrder[s])
    PROVE  \E k \in 1..(s - 1) : StartOrder[k] = u
  <1>1. \/ s \in {1, 2, 3, 4, 5, 6, 7, 8, 9}
        \/ s \in {10, 11, 12, 13, 14, 15, 16, 17, 18}
    OBVIOUS
  <1>2. CASE s \in {1, 2, 3, 4, 5, 6, 7, 8, 9}
    <2>1. u = "services" /\ s > 3
      BY <1>2, StartOrderIs, UsesAre
    <2>. QED
      BY <2>1, StartOrderIs
  <1>3. CASE s \in {10, 11, 12, 13, 14, 15, 16, 17, 18}
    <2>1. \/ u = "services"
          \/ u = "keys" /\ s > 9
          \/ u = "ncabuffer" /\ s > 10
          \/ u = "gamecard" /\ s > 11
          \/ u = "title" /\ s > 12
          \/ u = "romfs" /\ s > 15
      BY <1>3, StartOrderIs, UsesAre
    <2>. QED
      BY <1>3, <2>1, StartOrderIs
  <1>. QED
    BY <1>1, <1>2, <1>3

LEMMA ClosedInOrder ==
    ASSUME NEW s \in 1..18, NEW r \in Resources, CloseOrder[s] \in Uses(r)
    PROVE  \E k \in 1..(s - 1) : CloseOrder[k] = r
  <1>. DEFINE c == CloseOrder[s]
  <1>1. /\ c = "romfs" => s = 6
        /\ c = "title" => s = 9
        /\ c = "gamecard" => s = 10
        /\ c = "ncabuffer" => s = 11
        /\ c = "services" => s = 16
        /\ c # "keys"
    <2>1. \/ s = 1 \/ s = 2 \/ s = 3 \/ s = 4 \/ s = 5 \/ s = 6 \/ s = 7 \/ s = 8 \/ s = 9
          \/ s = 10 \/ s = 11 \/ s = 12 \/ s = 13 \/ s = 14 \/ s = 15 \/ s = 16 \/ s = 17
          \/ s = 18
      OBVIOUS
    <2>. QED
      BY <2>1, CloseOrderIs
  <1>. HIDE DEF c
  <1>2. \/ r = "config" /\ c = "romfs"
        \/ r \in {"bfttf", "sysupdate"} /\ c \in {"title", "ncabuffer", "services"}
        \/ r = "title" /\ c \in {"gamecard", "ncabuffer", "services"}
        \/ r \in {"gamecard", "bis", "usb", "http", "nxlink", "ums"} /\ c = "services"
    <2>1. c \in Uses(r) /\ c # "keys"
      BY <1>1 DEF c
    <2>2. r \notin {"exitlock", "sdfs", "services", "environment", "keys", "ncabuffer",
                    "romfs", "clockhook"}
      BY <2>1, UsesAre
    <2>3. \/ r \in {"bfttf", "sysupdate", "title", "config"}
          \/ r \in {"gamecard", "bis", "usb", "http", "nxlink", "ums"}
      BY <2>2, ResourcesAre
    <2>. QED
      BY <2>1, <2>3, UsesAre
  <1>3. CASE r = "config" /\ c = "romfs"
    BY <1>1, <1>3, CloseOrderIs
  <1>4. CASE r \in {"bfttf", "sysupdate"} /\ c \in {"title", "ncabuffer", "services"}
    BY <1>1, <1>4, CloseOrderIs
  <1>5. CASE r = "title" /\ c \in {"gamecard", "ncabuffer", "services"}
    BY <1>1, <1>5, CloseOrderIs
  <1>6. CASE r \in {"gamecard", "bis", "usb", "http", "nxlink", "ums"} /\ c = "services"
    BY <1>1, <1>6, CloseOrderIs
  <1>. QED
    BY <1>2, <1>3, <1>4, <1>5, <1>6

(***************************************************************************)
(* The steps of App.                                                       *)
(***************************************************************************)

LEMMA AppInitInv == AppInit => AppInv
  <1>. SUFFICES ASSUME AppInit PROVE AppInv
    OBVIOUS
  <1>1. TitleInv
    BY TitleInitInv DEF AppInit
  <1>2. Main /\ LongRun
    <2>1. mpc = "start" /\ step = 1 /\ up = {} /\ longRun = FALSE
      BY DEF AppInit
    <2>2. LongRun
      BY <2>1, Zenon DEF LongRun
    <2>3. up \subseteq Resources /\ \A r \in up : Uses(r) \subseteq up
      BY <2>1
    <2>. QED
      BY <2>1, <2>2, <2>3 DEF Main
  <1>3. TitlesUp /\ UmsUp
    BY DEF AppInit, TInit, TitlesUp, UmsUp
  <1>4. TabShowsItsCard
    <2>1. uiCard.loads = FALSE
      BY DEF AppInit
    <2>. QED
      BY <2>1 DEF TabShowsItsCard
  <1>. QED
    BY <1>1, <1>2, <1>3, <1>4 DEF AppInv

LEMMA TitlesStay ==
    ASSUME AppInv, UNCHANGED tvars
    PROVE  /\ TitleInv'
           /\ UNCHANGED <<titleInit, tpc, owed, event, titleMutex, arrays, userMeta, overtaken>>
  BY SmallStepsKeep DEF AppInv, tvars, feed, info

LEMMA TabStays ==
    ASSUME AppInv, UNCHANGED uiCard, overtaken => overtaken'
    PROVE  TabShowsItsCard'
  BY DEF AppInv, TabShowsItsCard

LEMMA AdvanceKeeps ==
    ASSUME Main, LongRun, mpc = "start", step <= Len(StartOrder), Advance,
           UNCHANGED <<mpc, longRun>>
    PROVE  Main' /\ LongRun'
  <1>1. step \in 1..18 /\ step' = step + 1 /\ up' = up \cup {StartOrder[step]}
    BY StartOrderIs DEF Main, Advance
  <1>2. StartOrder[step] \in Resources
    BY <1>1 DEF Resources
  <1>3. Uses(StartOrder[step]) \subseteq up
    <2>. SUFFICES ASSUME NEW u \in Uses(StartOrder[step]) PROVE u \in up
      OBVIOUS
    <2>1. PICK k \in 1..(step - 1) : StartOrder[k] = u
      BY <1>1, StartedInOrder
    <2>. QED
      BY <2>1 DEF Main
  <1>4. \A k \in 1..step : StartOrder[k] \in up'
    <2>1. \A k \in 1..step : k = step \/ k \in 1..(step - 1)
      BY <1>1
    <2>. QED
      BY <1>1, <2>1 DEF Main
  <1>5. LongRun'
    BY DEF LongRun
  <1>. QED
    BY <1>1, <1>2, <1>3, <1>4, <1>5, SMTT(30) DEF Main

LEMMA CloseDoneKeeps ==
    ASSUME Main, LongRun, mpc = "close", step <= Len(CloseOrder), CloseDone(CloseOrder[step]),
           longRun' = IF CloseOrder[step] = "longrun" THEN FALSE ELSE longRun
    PROVE  Main' /\ LongRun'
  <1>. DEFINE c == CloseOrder[step]
  <1>1. step \in 1..18 /\ step' = step + 1 /\ up' = up \ {c} /\ mpc' = "close"
    BY CloseOrderIs DEF Main, CloseDone
  <1>2. \A r \in up' : c \notin Uses(r)
    <2>. SUFFICES ASSUME NEW r \in up', c \in Uses(r) PROVE FALSE
      OBVIOUS
    <2>1. r \in Resources /\ r \in up
      BY <1>1 DEF Main
    <2>2. PICK k \in 1..(step - 1) : CloseOrder[k] = r
      BY <1>1, <2>1, ClosedInOrder
    <2>. QED
      BY <2>1, <2>2 DEF Main
  <1>3. \A k \in 1..(step' - 1) : CloseOrder[k] \notin up'
    <2>1. \A k \in 1..step : k = step \/ k \in 1..(step - 1)
      BY <1>1
    <2>. QED
      BY <1>1, <2>1 DEF Main
  <1>4. longRun' \in BOOLEAN
    BY DEF LongRun
  <1>5. longRun' => step' <= 3 /\ {"config", "services"} \subseteq up'
    <2>. SUFFICES ASSUME longRun' PROVE step' <= 3 /\ {"config", "services"} \subseteq up'
      OBVIOUS
    <2>1. longRun /\ c # "longrun"
      OBVIOUS
    <2>2. step \in {1, 2}
      BY <1>1, <2>1, CloseOrderIs DEF LongRun
    <2>3. c \in {"bis", "devices"}
      BY <2>2, CloseOrderIs
    <2>. QED
      BY <1>1, <2>1, <2>2, <2>3 DEF LongRun
  <1>6. \A r \in up' : Uses(r) \subseteq up'
    BY <1>1, <1>2 DEF Main
  <1>7. LongRun'
    BY <1>1, <1>4, <1>5 DEF LongRun
  <1>8. Main'
    BY <1>1, <1>3, <1>6 DEF Main
  <1>. QED
    BY <1>7, <1>8

LEMMA StartStepKeeps == ASSUME AppInv, StartStep PROVE AppInv'
  <1>. USE DEF AppInv
  <1>1. Main' /\ LongRun'
    BY AdvanceKeeps DEF StartStep
  <1>2. TitlesUp'
    <2>1. step # 12 /\ step' = step + 1 /\ step \in 1..18
      BY StartOrderIs DEF StartStep, Advance, Main
    <2>. QED
      BY <2>1, TitlesStay DEF StartStep, TitlesUp, ClosingAt
  <1>3. UmsUp'
    BY DEF StartStep, UmsUp, umsvars, Advance, ClosingAt
  <1>. QED
    BY <1>1, <1>2, <1>3, TitlesStay, TabStays DEF StartStep, uivars

LEMMA StartFailsKeeps == ASSUME AppInv, StartFails PROVE AppInv'
  <1>. USE DEF AppInv
  <1>1. Main' /\ LongRun'
    BY DEF StartFails, Main, LongRun
  <1>2. TitlesUp'
    BY TitlesStay DEF StartFails, TitlesUp, ClosingAt
  <1>3. UmsUp'
    BY DEF StartFails, UmsUp, umsvars, ClosingAt
  <1>. QED
    BY <1>1, <1>2, <1>3, TitlesStay, TabStays DEF StartFails, uivars

LEMMA StartTitleKeeps == ASSUME AppInv, StartTitle PROVE AppInv'
  <1>. USE DEF AppInv
  <1>1. /\ mpc = "start" /\ step = 12 /\ tpc = "off" /\ ~titleInit /\ titleMutex = "free"
        /\ UNCHANGED <<owed, event, overtaken, titleMutex>>
    <2>1. step \in 1..18 /\ StartOrder[step] = "title"
      BY StartOrderIs DEF StartTitle, Main
    <2>2. step = 12
      BY <2>1, StartOrderIs
    <2>. QED
      BY <2>2 DEF StartTitle, titleInitialize, feed
  <1>2. TitleInv'
    BY <1>1, InitializeKeeps DEF StartTitle, TitlesUp
  <1>3. CASE titleInit' /\ Advance /\ UNCHANGED mpc
    <2>1. Main' /\ LongRun'
      BY <1>1, <1>3, AdvanceKeeps DEF StartTitle
    <2>2. TitlesUp'
      BY <1>1, <1>2, <1>3 DEF TitlesUp, Advance, ClosingAt
    <2>3. UmsUp'
      BY <1>1, <1>3, StartOrderIs DEF StartTitle, UmsUp, umsvars, Advance, ClosingAt
    <2>. QED
      BY <1>1, <1>2, <2>1, <2>2, <2>3, TabStays DEF StartTitle, uivars
  <1>4. CASE ~titleInit' /\ mpc' = "close" /\ step' = 1 /\ UNCHANGED up
    <2>1. Main' /\ LongRun'
      BY <1>1, <1>4 DEF StartTitle, Main, LongRun
    <2>2. TitlesUp'
      BY <1>1, <1>4 DEF TitlesUp, ClosingAt
    <2>3. UmsUp'
      BY <1>1, <1>4 DEF StartTitle, UmsUp, umsvars, ClosingAt
    <2>. QED
      BY <1>1, <1>2, <2>1, <2>2, <2>3, TabStays DEF StartTitle, uivars
  <1>. QED
    BY <1>3, <1>4 DEF StartTitle

LEMMA StartUmsKeeps == ASSUME AppInv, StartUms PROVE AppInv'
  <1>. USE DEF AppInv
  <1>1. Main' /\ LongRun'
    BY AdvanceKeeps DEF StartUms
  <1>2. StartOrder[step] = "ums" /\ step = 8
    BY StartOrderIs DEF StartUms, Main
  <1>3. TitlesUp'
    <2>1. step = 8 /\ step' = 9 /\ mpc = "start" /\ mpc' = "start"
      BY <1>2 DEF StartUms, Advance
    <2>. QED
      BY <2>1, TitlesStay DEF StartUms, TitlesUp, ClosingAt
  <1>4. UmsUp'
    BY <1>2 DEF StartUms, UmsUp, Advance, ClosingAt
  <1>. QED
    BY <1>1, <1>3, <1>4, TitlesStay, TabStays DEF StartUms, uivars

LEMMA StartUiKeeps == ASSUME AppInv, StartUi PROVE AppInv'
  <1>. USE DEF AppInv
  <1>1. step = 19 /\ step' = 19 /\ up' = up /\ mpc = "start" /\ mpc' = "run" /\ longRun' = longRun
    BY StartOrderIs DEF StartUi, Main
  <1>2. Main' /\ LongRun'
    BY <1>1 DEF Main, LongRun, Resources
  <1>3. TitlesUp'
    <2>1. titleInit /\ titleMutex = "free"
      BY <1>1 DEF StartUi, TitlesUp
    <2>2. titleInit' /\ titleMutex' = "free"
      BY <2>1, TitlesStay DEF StartUi
    <2>. QED
      BY <1>1, <2>2 DEF TitlesUp
  <1>4. UmsUp'
    BY <1>1 DEF StartUi, UmsUp, umsvars, ClosingAt
  <1>. QED
    BY <1>2, <1>3, <1>4, TitlesStay, TabStays DEF StartUi

\* Steps of the user interface and of the mass storage callback: the titles and
\* the main thread's place stay.
LEMMA UiStepsKeep ==
    ASSUME AppInv, UNCHANGED mainvars, UmsUp',
           \/ UNCHANGED tvars /\ UNCHANGED uiCard
           \/ UNCHANGED tvars /\ TabShowsItsCard'
    PROVE  AppInv'
  <1>. USE DEF AppInv
  <1>1. Main' /\ LongRun'
    BY DEF mainvars, Main, LongRun
  <1>2. TitlesUp'
    BY TitlesStay DEF mainvars, TitlesUp, ClosingAt
  <1>. QED
    BY <1>1, <1>2, TitlesStay, TabStays

LEMMA PollTitlesKeeps == ASSUME AppInv, PollTitles PROVE AppInv'
  <1>. USE DEF AppInv
  <1>1. TitleInv'
    BY PollKeeps DEF PollTitles
  <1>2. Main' /\ LongRun'
    BY DEF PollTitles, mainvars, Main, LongRun
  <1>3. TitlesUp' /\ UmsUp'
    BY DEF PollTitles, mainvars, umsvars, feed, info, TitlesUp, UmsUp, ClosingAt
  <1>. QED
    BY <1>1, <1>2, <1>3, TabStays DEF PollTitles, feed

LEMMA PollCardKeeps == ASSUME AppInv, PollCard PROVE AppInv'
  <1>. USE DEF AppInv
  <1>1. TabShowsItsCard'
    <2>1. /\ mpc = "run" /\ titleMutex = "free" /\ UNCHANGED tvars
          /\ uiCard' = [loads |-> card.loads, keys |-> IF card.loads THEN card.keys ELSE {},
                        entries |-> IF card.loads /\ available THEN gcMeta ELSE {}]
      BY DEF PollCard
    <2>2. /\ uiCard'.loads = card.loads
          /\ uiCard'.keys = IF card.loads THEN card.keys ELSE {}
          /\ uiCard'.entries = IF card.loads /\ available THEN gcMeta ELSE {}
      BY <2>1, Zenon
    <2>3. overtaken' = overtaken
      BY <2>1 DEF tvars, feed
    <2>4. tpc \notin {"off", "ended", "locked", "load"}
      BY <2>1 DEF TitlesUp, TitleInv, Places
    <2>5. ASSUME ~overtaken, card.loads, available, NEW e \in gcMeta
          PROVE  \E k \in card.keys : k.id = e.app
      <3>1. PICK i \in arrays[GameCard] : i.key.id = e.app
        BY <2>4 DEF TitleInv, Follows
      <3>2. OfCard
        BY <2>4, <2>5 DEF TitleInv, Follows
      <3>3. {j.key : j \in arrays[GameCard]} \subseteq card.keys
        BY <3>2 DEF OfCard
      <3>4. i.key \in card.keys
        BY <3>3
      <3>. QED
        BY <3>1, <3>4
    <2>. QED
      BY <2>2, <2>3, <2>5 DEF TabShowsItsCard
  <1>2. UmsUp'
    BY DEF PollCard, mainvars, umsvars, UmsUp, ClosingAt
  <1>. QED
    BY <1>1, <1>2, UiStepsKeep DEF PollCard

LEMMA OtherUiStepsKeep ==
    ASSUME AppInv, \/ PopulateApplicationMetadataInfo \/ PollUms \/ PopulateUmsDeviceVector
                   \/ ChooseOutput \/ UmsPlugged \/ umsPopulateCallback
    PROVE  AppInv'
  <1>1. UNCHANGED <<tvars, mainvars, uiCard>>
    BY DEF PopulateApplicationMetadataInfo, PollUms, PopulateUmsDeviceVector, ChooseOutput,
           UmsPlugged, umsPopulateCallback, uivars
  <1>2. UmsUp'
    <2>1. UmsUp
      BY DEF AppInv
    <2>2. CASE PopulateApplicationMetadataInfo \/ ChooseOutput \/ PopulateUmsDeviceVector
      BY <2>1, <2>2 DEF PopulateApplicationMetadataInfo, ChooseOutput,
         PopulateUmsDeviceVector, mainvars, umsvars, UmsUp, ClosingAt
    <2>3. CASE PollUms
      BY <2>1, <2>3 DEF PollUms, mainvars, UmsUp, ClosingAt
    <2>4. CASE UmsPlugged
      BY <2>1, <2>4 DEF UmsPlugged, mainvars, UmsUp, ClosingAt
    <2>5. CASE umsPopulateCallback
      BY <2>1, <2>5 DEF umsPopulateCallback, mainvars, UmsUp, ClosingAt
    <2>. QED
      BY <2>2, <2>3, <2>4, <2>5
  <1>. QED
    BY <1>1, <1>2, UiStepsKeep

LEMMA LongRunKeeps ==
    ASSUME AppInv, NEW state \in BOOLEAN, utilsSetLongRunningProcessState(state)
    PROVE  AppInv'
  <1>. USE DEF AppInv
  <1>1. mpc = "run" /\ longRun' = state /\ UNCHANGED <<tvars, mpc, step, up, umsvars, uivars>>
    BY DEF utilsSetLongRunningProcessState
  <1>2. "config" \in up /\ "services" \in up
    BY <1>1, ResourcesAre DEF Main
  <1>3. Main' /\ LongRun'
    BY <1>1, <1>2 DEF Main, LongRun
  <1>4. TitlesUp'
    BY <1>1, TitlesStay DEF TitlesUp, ClosingAt
  <1>5. UmsUp'
    BY <1>1 DEF umsvars, UmsUp, ClosingAt
  <1>. QED
    BY <1>1, <1>3, <1>4, <1>5, TitlesStay, TabStays DEF uivars

LEMMA QuitKeeps == ASSUME AppInv, Quit PROVE AppInv'
  <1>. USE DEF AppInv
  <1>1. Main' /\ LongRun'
    BY DEF Quit, Main, LongRun
  <1>2. TitlesUp'
    <2>1. mpc = "run" /\ mpc' = "close" /\ step' = 1 /\ titleMutex # "main"
      BY DEF Quit, TitlesUp, ClosingAt
    <2>2. titleMutex' # "main"
      BY <2>1, TitlesStay DEF Quit
    <2>3. ~(step' > 9)
      BY <2>1
    <2>. QED
      BY <2>1, <2>2, <2>3, Zenon DEF TitlesUp
  <1>3. UmsUp'
    BY DEF Quit, umsvars, UmsUp, ClosingAt
  <1>. QED
    BY <1>1, <1>2, <1>3, TitlesStay, TabStays DEF Quit, uivars

LEMMA CloseStepKeeps == ASSUME AppInv, CloseStep PROVE AppInv'
  <1>. USE DEF AppInv
  <1>1. Main' /\ LongRun'
    BY CloseDoneKeeps DEF CloseStep
  <1>2. /\ mpc = "close" /\ mpc' = "close" /\ step \in 1..18 /\ step' = step + 1
        /\ CloseOrder[step] \notin {"title", "ums"} /\ step # 9
        /\ up' = up \ {CloseOrder[step]}
    BY CloseOrderIs DEF CloseStep, CloseDone, Main
  <1>3. titleMutex # "main" /\ umsMutex # "main"
    BY <1>2 DEF TitlesUp, UmsUp, ClosingAt
  <1>4. TitlesUp'
    BY <1>2, <1>3, TitlesStay DEF CloseStep, TitlesUp
  <1>5. UmsUp'
    BY <1>2, <1>3 DEF CloseStep, umsvars, UmsUp
  <1>. QED
    BY <1>1, <1>4, <1>5, TitlesStay, TabStays DEF CloseStep, uivars

LEMMA CloseTitleBeginsKeeps == ASSUME AppInv, CloseTitleBegins PROVE AppInv'
  <1>. USE DEF AppInv
  <1>1. TitleInv'
    BY SmallStepsKeep DEF CloseTitleBegins
  <1>2. Main' /\ LongRun'
    BY DEF CloseTitleBegins, mainvars, Main, LongRun
  <1>3. TitlesUp' /\ UmsUp'
    BY DEF CloseTitleBegins, titleExitBegins, mainvars, umsvars, feed, info, TitlesUp, UmsUp,
           ClosingAt
  <1>. QED
    BY <1>1, <1>2, <1>3, TabStays DEF CloseTitleBegins, titleExitBegins, feed, uivars

LEMMA CloseTitleEndsKeeps == ASSUME AppInv, CloseTitleEnds PROVE AppInv'
  <1>. USE DEF AppInv
  <1>1. TitleInv'
    BY ExitEndsKeeps DEF CloseTitleEnds
  <1>2. mpc = "close" /\ step \in 1..18 /\ CloseOrder[step] = "title"
        /\ step' = step + 1 /\ up' = up \ {"title"} /\ mpc' = "close"
    BY CloseOrderIs DEF CloseTitleEnds, ClosingAt, CloseDone, Main
  <1>3. Main' /\ LongRun'
    BY <1>2, CloseDoneKeeps DEF CloseTitleEnds, ClosingAt
  <1>4. /\ titleMutex' = "free" /\ tpc' = "off" /\ arrays' = NoArrays /\ userMeta' = {}
        /\ overtaken' = overtaken
    BY DEF CloseTitleEnds, titleExitEnds, feed
  <1>5. TitlesUp'
    BY <1>2, <1>4 DEF TitlesUp
  <1>6. UmsUp'
    BY <1>2 DEF CloseTitleEnds, umsvars, UmsUp, ClosingAt
  <1>. QED
    BY <1>1, <1>3, <1>4, <1>5, <1>6, TabStays DEF CloseTitleEnds, uivars

LEMMA CloseUmsKeeps == ASSUME AppInv, CloseUmsBegins \/ CloseUmsEnds PROVE AppInv'
  <1>. USE DEF AppInv
  <1>1. CASE CloseUmsBegins
    <2>1. UmsUp'
      BY <1>1 DEF CloseUmsBegins, mainvars, UmsUp, ClosingAt
    <2>. QED
      BY <1>1, <2>1, UiStepsKeep DEF CloseUmsBegins, uivars
  <1>2. CASE CloseUmsEnds
    <2>1. mpc = "close" /\ step \in 1..18 /\ CloseOrder[step] = "ums" /\ step # 9
          /\ step' = step + 1 /\ up' = up \ {"ums"} /\ mpc' = "close"
      BY <1>2, CloseOrderIs DEF CloseUmsEnds, ClosingAt, CloseDone, Main
    <2>2. Main' /\ LongRun'
      BY <1>2, <2>1, CloseDoneKeeps DEF CloseUmsEnds, ClosingAt
    <2>3. titleMutex # "main"
      BY <2>1 DEF TitlesUp, ClosingAt
    <2>4. TitlesUp'
      BY <1>2, <2>1, <2>3, TitlesStay DEF CloseUmsEnds, TitlesUp
    <2>5. UmsUp'
      BY <1>2, <2>1 DEF CloseUmsEnds, UmsUp
    <2>. QED
      BY <1>2, <2>2, <2>4, <2>5, TitlesStay, TabStays DEF CloseUmsEnds, uivars
  <1>. QED
    BY <1>1, <1>2

LEMMA CloseEndsKeeps == ASSUME AppInv, CloseEnds PROVE AppInv'
  <1>. USE DEF AppInv
  <1>1. mpc = "close" /\ mpc' = "end" /\ step = 19 /\ UNCHANGED <<step, up, longRun>>
    BY CloseOrderIs DEF CloseEnds, Main
  <1>2. Main' /\ LongRun'
    BY <1>1 DEF Main, LongRun
  <1>3. titleMutex # "main" /\ umsMutex # "main"
    BY <1>1, CloseOrderIs DEF TitlesUp, UmsUp, ClosingAt
  <1>4. TitlesUp' /\ UmsUp'
    BY <1>1, <1>3, TitlesStay DEF CloseEnds, umsvars, TitlesUp, UmsUp
  <1>. QED
    BY <1>2, <1>4, TitlesStay, TabStays DEF CloseEnds, uivars

LEMMA TitleThreadKeeps == ASSUME AppInv, TitleThreadNext PROVE AppInv'
  <1>. USE DEF AppInv
  <1>1. TitleInv'
    BY SmallStepsKeep, ThreadReadsStatusKeeps, ThreadLoadsKeeps, ThreadLeavesKeeps
       DEF TitleThreadNext, ThreadNext
  <1>2. /\ tpc # "off" /\ tpc' # "off" /\ titleInit' = titleInit /\ overtaken' = overtaken
        /\ titleMutex' \in {titleMutex, "thread", "free"}
    <2>1. CASE ThreadWakes \/ ThreadLocks \/ ThreadLeaves
      BY <2>1 DEF ThreadWakes, ThreadLocks, ThreadLeaves, feed
    <2>2. CASE ThreadReadsStatus
      BY <2>2 DEF ThreadReadsStatus, FinishRefresh, feed
    <2>3. CASE ThreadLoads
      <3>1. tpc = "load" /\ \E T, L, U, s : FinishRefresh(T, L, U, s)
        BY <2>3, Zenon DEF ThreadLoads
      <3>. QED
        BY <3>1 DEF FinishRefresh, feed
    <2>. QED
      BY <2>1, <2>2, <2>3 DEF TitleThreadNext, ThreadNext
  <1>3. Main' /\ LongRun'
    BY DEF TitleThreadNext, mainvars, Main, LongRun
  <1>4. TitlesUp'
    BY <1>2 DEF TitleThreadNext, mainvars, TitlesUp, ClosingAt
  <1>5. UmsUp'
    BY DEF TitleThreadNext, mainvars, umsvars, UmsUp, ClosingAt
  <1>. QED
    BY <1>1, <1>2, <1>3, <1>4, <1>5, TabStays DEF TitleThreadNext, uivars

LEMMA CardKeeps == ASSUME AppInv, CardNext PROVE AppInv'
  <1>. USE DEF AppInv
  <1>1. TitleInv'
    BY SmallStepsKeep, CardChangesKeeps DEF CardNext
  <1>2. /\ UNCHANGED <<titleInit, tpc, titleMutex, arrays, userMeta>>
        /\ owed' \/ event'
        /\ overtaken => overtaken'
    <2>1. CASE CardChanges
      BY <2>1, Zenon DEF CardChanges, info
    <2>2. CASE CardSignals
      BY <2>2, Zenon DEF CardSignals, info
    <2>. QED
      BY <2>1, <2>2 DEF CardNext
  <1>3. Main' /\ LongRun'
    BY DEF CardNext, mainvars, Main, LongRun
  <1>4. TitlesUp' /\ UmsUp'
    BY <1>2 DEF CardNext, mainvars, umsvars, TitlesUp, UmsUp, ClosingAt
  <1>. QED
    BY <1>1, <1>2, <1>3, <1>4, TabStays DEF CardNext, uivars

LEMMA AppNextKeeps == AppInv /\ [AppNext]_appvars => AppInv'
  <1>. SUFFICES ASSUME AppInv, [AppNext]_appvars PROVE AppInv'
    OBVIOUS
  <1>1. CASE UNCHANGED appvars
    <2>1. UmsUp'
      BY <1>1 DEF appvars, mainvars, umsvars, AppInv, UmsUp, ClosingAt
    <2>. QED
      BY <1>1, <2>1, UiStepsKeep DEF appvars, uivars
  <1>2. CASE MainNext
    BY <1>2, StartStepKeeps, StartFailsKeeps, StartTitleKeeps, StartUmsKeeps, StartUiKeeps,
       PollTitlesKeeps, PollCardKeeps, OtherUiStepsKeep, LongRunKeeps, QuitKeeps,
       CloseStepKeeps, CloseTitleBeginsKeeps, CloseTitleEndsKeeps, CloseUmsKeeps,
       CloseEndsKeeps DEF MainNext
  <1>. QED
    BY <1>1, <1>2, TitleThreadKeeps, CardKeeps, OtherUiStepsKeep DEF AppNext

(***************************************************************************)
(* The properties.                                                         *)
(***************************************************************************)

LEMMA AppInvAlways == AppSpec => []AppInv
  BY AppInitInv, AppNextKeeps, PTL DEF AppSpec

\* Whatever cards come and go and whichever step of the start fails, every pointer
\* between title infos is to an info of the arrays, and previous and next are each
\* other's inverse (titleUpdateTitleInfoLinkedLists).
THEOREM TitlesNeverDangle == AppSpec => []NoDanglingTitles
  <1>1. AppInv => NoDanglingTitles
    BY DEF AppInv, TitleInv, Linked, LinksOK, NoDanglingTitles
  <1>. QED
    BY <1>1, AppInvAlways, PTL

\* Once the title thread has handled every status change, the game card's titles,
\* the list of applications and the flag are those of the inserted card, unless a
\* second change overtook the refresh (title.c:3438).
THEOREM TitlesAlwaysMatchCard == AppSpec => []TitlesMatchCard
  <1>1. ASSUME AppInv PROVE TitlesMatchCard
    <2>. SUFFICES ASSUME Quiet, ~overtaken
                  PROVE  /\ {i.key : i \in arrays[GameCard]} \in
                              IF card.loads THEN {card.keys, card.keys \ world.broken}
                              ELSE {{}}
                         /\ filtered.user = FilteredUser(arrays, userMeta)
                         /\ available = card.loads
      BY DEF TitlesMatchCard
    <2>1. tpc = "wait" /\ ~Pending
      BY DEF Quiet, Pending
    <2>2. /\ filtered.user = FilteredUser(arrays, userMeta)
          /\ available = card.loads
          /\ available /\ card.loads => OfCard
          /\ ~available => arrays[GameCard] = {}
      BY <1>1, <2>1 DEF AppInv, TitleInv, Follows
    <2>3. CASE card.loads
      BY <2>2, <2>3 DEF OfCard
    <2>4. CASE ~card.loads
      <3>1. arrays[GameCard] = {}
        BY <2>2, <2>4
      <3>. QED
        BY <2>2, <2>4, <3>1
    <2>. QED
      BY <2>3, <2>4
  <1>. QED
    BY <1>1, AppInvAlways, PTL

\* The game card tab never lists an application of a card that is not the one it
\* shows, although it reads the entries before or after the refresh.
THEOREM TabAlwaysShowsItsCard == AppSpec => []TabShowsItsCard
  <1>1. AppInv => TabShowsItsCard
    BY DEF AppInv
  <1>. QED
    BY <1>1, AppInvAlways, PTL

\* utilsCloseResources closes a resource while everything it uses is up, after a
\* failed start too, and when main returns nothing is left open or locked.
THEOREM CloseAlwaysLeavesNothing == AppSpec => []CloseLeavesNothing
  <1>1. ASSUME AppInv PROVE CloseInOrder
    <2>. SUFFICES ASSUME mpc = "close", step <= Len(CloseOrder),
                         \/ CloseOrder[step] \in up
                         \/ CloseOrder[step] = "longrun" /\ longRun
                  PROVE  Uses(CloseOrder[step]) \subseteq up
      BY Zenon DEF CloseInOrder
    <2>1. CASE CloseOrder[step] \in up
      BY <1>1, <2>1 DEF AppInv, Main
    <2>2. CASE CloseOrder[step] = "longrun" /\ longRun
      BY <1>1, <2>2, UsesAre DEF AppInv, LongRun
    <2>. QED
      BY <2>1, <2>2
  <1>2. ASSUME AppInv, mpc = "end"
        PROVE  /\ up \subseteq NeverClosed /\ ~longRun
               /\ tpc = "off" /\ ~titleInit /\ titleMutex = "free" /\ AllOf(arrays) = {}
               /\ userMeta = {} /\ ~available /\ ~updated /\ gcNames = None
               /\ ~umsInit /\ umsMutex = "free" /\ umsDevices = {}
    <2>1. step = 19 /\ up \subseteq Resources /\ \A k \in 1..18 : CloseOrder[k] \notin up
      BY <1>2 DEF AppInv, Main
    <2>2. up \subseteq NeverClosed
      BY <2>1, ResourcesAre, CloseOrderIs DEF NeverClosed
    <2>3. ~longRun
      BY <1>2 DEF AppInv, LongRun
    <2>4. tpc = "off" /\ arrays = NoArrays /\ userMeta = {} /\ titleMutex # "main"
      BY <1>2, <2>1 DEF AppInv, TitlesUp, ClosingAt
    <2>5. /\ ~titleInit /\ titleMutex = "free" /\ ~available /\ ~updated
          /\ gcNames = None /\ AllOf(arrays) = {}
      BY <1>2, <2>4, NothingIsOK DEF AppInv, TitleInv, Places, AppTypeOK
    <2>6. "ums" \notin up
      BY <2>2 DEF NeverClosed
    <2>7. ~umsInit /\ umsMutex = "free" /\ umsDevices = {}
      BY <1>2, <2>6 DEF AppInv, UmsUp, ClosingAt
    <2>. QED
      BY <2>2, <2>3, <2>4, <2>5, <2>7
  <1>3. AppInv => CloseLeavesNothing
    BY <1>1, <1>2 DEF CloseLeavesNothing
  <1>. QED
    BY <1>3, AppInvAlways, PTL

(***************************************************************************)
(* The lists of the siblings are whole.                                    *)
(***************************************************************************)

AppId(i) == titleGetApplicationIdByContentMetaKey(i.key)

\* The place of an id within the ids of one application.
LEMMA PlaceIs ==
  ASSUME NEW n \in Nat
  PROVE  Place(n) \in Nat /\ Place(n) <= 8191 /\ Place(n) <= n /\ Place(n - Place(n)) = 0
  BY DEF Place

\* What the mask that gives an application's id clears.
LEMMA MaskIs ==
  ASSUME NEW n \in Nat, Place(n) = 0, NEW r \in Nat, r <= 4095
  PROVE  ConversionMask(n + r) = n
  BY DEF Place, ConversionMask

\* The id of an application is its own masked id.
LEMMA MaskOfApplication ==
  ASSUME NEW n \in Nat, Place(n) = 0
  PROVE  ConversionMask(n) = n
  BY DEF Place, ConversionMask

\* The number is one of the 2000 that begin at an offset from the application's.
Within(id, app, offset) == id - (app + offset) \in 1 .. 2000

\* The code compares masked ids; the proofs compare the distance.
LEMMA BelongsByNumber ==
  ASSUME NEW m \in Nat, Place(m) = 0, NEW id
  PROVE  titleCheckIfAddOnContentIdBelongsToApplicationId(m, id) <=> Within(id, m, 4096)
  BY MaskOfApplication DEF titleCheckIfAddOnContentIdBelongsToApplicationId,
     TITLE_ADDONCONTENT_ID_OFFSET, Within

\* What a title's number says of its application's, and of its type.
NumberFits(k, app) ==
  /\ app \in Nat /\ Place(app) = 0
  /\ k.type \in {Application, Patch, AddOnContent, Delta, DataPatch}
  /\ k.type = Application => k.id = app
  /\ k.type = Patch => k.id = app + 2048
  /\ k.type = Delta => k.id = app + 3072
  /\ k.type = AddOnContent => Within(k.id, app, 4096)
  /\ k.type = DataPatch => Within(k.id, app, 6144)

\* A title's id lies at its type's distance from its application's.
LEMMA NumberOfTitle ==
  ASSUME NEW k \in MetaKeys, IsTitleId(k)
  PROVE  NumberFits(k, titleGetApplicationIdByContentMetaKey(k))
  <1>. DEFINE n == Place(k.id)
              base == k.id - n
  <1>1. /\ k.id \in Nat /\ n \in Nat /\ n <= 8191 /\ base \in Nat /\ Place(base) = 0
        /\ k.id = base + n
    <2>1. k.id \in Nat
      BY DEF MetaKeys
    <2>. QED  BY <2>1, PlaceIs
  <1>2. \/ k.type = Application /\ n = 0
        \/ k.type = Patch /\ n = 2048
        \/ k.type = Delta /\ n = 3072
        \/ k.type = AddOnContent /\ n - 4096 \in 1..2000
        \/ k.type = DataPatch /\ n - 6144 \in 1..2000
    BY <1>1 DEF IsTitleId, TITLE_PATCH_ID_OFFSET, TITLE_ADDONCONTENT_ID_OFFSET,
       TITLE_DELTA_ID_OFFSET
  <1>. HIDE DEF n, base
  <1>3. \A r \in 1 .. 2000 : ConversionMask(base + r) = base
    BY <1>1, MaskIs
  <1>4. titleGetApplicationIdByContentMetaKey(k) = base
    <2>1. CASE k.type = Application \/ k.type = Patch \/ k.type = Delta
      BY <1>1, <1>2, <2>1 DEF titleGetApplicationIdByContentMetaKey, Application, Patch,
         Delta, AddOnContent, DataPatch,
         titleGetApplicationIdByPatchId, titleGetApplicationIdByDeltaId, TITLE_PATCH_ID_OFFSET,
         TITLE_DELTA_ID_OFFSET
    <2>2. CASE k.type = AddOnContent
      <3>1. k.id - 4096 = base + (n - 4096) /\ n - 4096 \in 1 .. 2000
        BY <1>1, <1>2, <2>2 DEF Application, Patch, Delta, AddOnContent, DataPatch
      <3>. QED
        BY <1>3, <2>2, <3>1 DEF titleGetApplicationIdByContentMetaKey, Application, Patch,
           Delta, AddOnContent, DataPatch,
         titleGetApplicationIdByAddOnContentId, TITLE_ADDONCONTENT_ID_OFFSET
    <2>3. CASE k.type = DataPatch
      <3>1. k.id - 2048 - 4096 = base + (n - 6144) /\ n - 6144 \in 1 .. 2000
        BY <1>1, <1>2, <2>3 DEF Application, Patch, Delta, AddOnContent, DataPatch
      <3>. QED
        BY <1>3, <2>3, <3>1 DEF titleGetApplicationIdByContentMetaKey, Application, Patch,
           Delta, AddOnContent, DataPatch,
           titleGetApplicationIdByAddOnContentId, TITLE_ADDONCONTENT_ID_OFFSET,
           titleGetAddOnContentIdByDataPatchId, TITLE_PATCH_ID_OFFSET
    <2>. QED  BY <1>2, <2>1, <2>2, <2>3
  <1>. QED
    BY <1>1, <1>2, <1>4 DEF NumberFits, Within, Application, Patch, Delta, AddOnContent,
       DataPatch

----------------------------------------------------------------------------
LinkedTypes == {Application, Patch, AddOnContent, DataPatch}

\* The keys of the arrays are those of a console and its cards.
UserKey(w, k) ==
  IsTitleId(k) /\ \A s \in w.sys : s.id < titleGetApplicationIdByContentMetaKey(k)
KeysOK(T, w) ==
  /\ \A i \in UserOf(T) : UserKey(w, i.key)
  /\ \A i \in T[BuiltInSystem] : i.key \in w.sys

\* Two infos that are of one list, once they are linked.
Alike(i, j) == i.key.type = j.key.type /\ i.key.type # Application /\ AppId(i) = AppId(j)

\* Of infos that are alike, one that was there before has metadata if a later
\* one has.
MetaAgrees(T, M) ==
  \A i, j \in UserOf(T) :
    Alike(i, j) /\ j \in M /\ (i.st = GameCard \/ j.st # GameCard) => i \in M

\* The lists are those of the arrays and of the metadata found so far.
ListsOK(T, L) ==
  /\ L.orphans = {i \in UserOf(T) : IsOrphan(T, L.md, i)}
  /\ L.previous = [i \in AllOf(T) |->
                     IF i \in UserOf(T) \ L.orphans THEN PreviousOf(T, i) ELSE None]

\* What the getters rely on.
Listed(T, L, w) ==
  ArraysOK(T) /\ LinksOK(T, L) /\ KeysOK(T, w) /\ MetaAgrees(T, L.md) /\ ListsOK(T, L)

\* So do the ids of the infos of the user's storages.
LEMMA NumberOfInfo ==
  ASSUME NEW T, ArraysOK(T), NEW w, KeysOK(T, w), NEW i \in UserOf(T)
  PROVE  /\ i \in TitleInfos /\ i \in AllOf(T) /\ i.key \in MetaKeys /\ i.key.id \in Nat
         /\ i.st \in Nat /\ NumberFits(i.key, AppId(i))
  <1>1. i \in TitleInfos /\ i \in AllOf(T)
    BY AllInfos
  <1>2. i.key \in MetaKeys /\ i.key.id \in Nat /\ i.st \in Nat
    BY <1>1 DEF TitleInfos, MetaKeys, Storages, GameCard, SdCard
  <1>3. IsTitleId(i.key)
    BY DEF KeysOK, UserKey
  <1>. QED  BY <1>1, <1>2, <1>3, NumberOfTitle DEF AppId

\* The place of a number in reach of an application's.
LEMMA PlaceOfSum ==
  ASSUME NEW n \in Nat, Place(n) = 0, NEW r \in Nat, r <= 8191
  PROVE  Place(n + r) = r
  BY DEF Place

\* Numbers of two applications that are in reach are those of one.
LEMMA SameApplication ==
  ASSUME NEW m \in Nat, Place(m) = 0, NEW n \in Nat, Place(n) = 0,
         NEW q \in Nat, q <= 8191, NEW r \in Nat, r <= 8191, m + q = n + r
  PROVE  m = n /\ q = r
  BY PlaceOfSum

\* No id is within reach of two applications.
LEMMA OneApplication ==
  ASSUME NEW m \in Nat, Place(m) = 0, NEW n \in Nat, Place(n) = 0, NEW id \in Nat,
         NEW offset \in {4096, 6144}, Within(id, m, offset), Within(id, n, offset)
  PROVE  m = n
  <1>. DEFINE q == id - m
              r == id - n
  <1>1. q \in Nat /\ r \in Nat /\ q <= 8191 /\ r <= 8191
    BY DEF Within
  <1>2. m + q = n + r
    OBVIOUS
  <1>. HIDE DEF q, r
  <1>. QED  BY <1>1, <1>2, SameApplication

\* The patch of an add-on content is 2048 above it.
LEMMA PatchOfAddOnContent ==
  ASSUME NEW id \in Nat, NEW m \in Nat
  PROVE  Within(id - 2048, m, 4096) <=> Within(id, m, 6144)
  BY DEF Within

\* The add-on contents and their patches that belong to an application.
LEMMA BelongsByOffset ==
  ASSUME NEW id \in Nat, NEW m \in Nat, Place(m) = 0
  PROVE  /\ titleCheckIfAddOnContentIdBelongsToApplicationId(m, id) <=> Within(id, m, 4096)
         /\ titleCheckIfAddOnContentIdBelongsToApplicationId(
              m, titleGetAddOnContentIdByDataPatchId(id))
              <=> Within(id, m, 6144)
  <1>. DEFINE x == titleGetAddOnContentIdByDataPatchId(id)
  <1>1. x = id - 2048
    BY DEF titleGetAddOnContentIdByDataPatchId, TITLE_PATCH_ID_OFFSET
  <1>. HIDE DEF x
  <1>. QED  BY <1>1, BelongsByNumber, PatchOfAddOnContent DEF x

\* An add-on content, or a patch of one, belongs to its own application alone.
LEMMA BelongsToOwn ==
  ASSUME NEW k, k.id \in Nat, NEW m, NumberFits(k, m), NEW app \in Nat, Place(app) = 0
  PROVE  /\ k.type = AddOnContent =>
              (titleCheckIfAddOnContentIdBelongsToApplicationId(app, k.id) <=> m = app)
         /\ k.type = DataPatch =>
              (titleCheckIfAddOnContentIdBelongsToApplicationId(
                 app, titleGetAddOnContentIdByDataPatchId(k.id)) <=> m = app)
  <1>1. /\ m \in Nat /\ Place(m) = 0
        /\ k.type = AddOnContent => Within(k.id, m, 4096)
        /\ k.type = DataPatch => Within(k.id, m, 6144)
    BY DEF NumberFits
  <1>2. \A o \in {4096, 6144} : Within(k.id, m, o) => (Within(k.id, app, o) <=> m = app)
    BY <1>1, OneApplication
  <1>. QED  BY <1>1, <1>2, BelongsByOffset

(***************************************************************************)
(* The order of the siblings and the links between them.                   *)
(***************************************************************************)

\* The titles of one list, and those of them that are linked.
Group(T, t, app) == {i \in UserOf(T) : i.key.type = t /\ AppId(i) = app}
Kept(T, L, t, app) == Group(T, t, app) \ L.orphans

\* Siblings are the infos of one type and one application.
LEMMA SiblingsAre ==
  ASSUME NEW T, ArraysOK(T), NEW w, KeysOK(T, w), NEW i \in UserOf(T), NEW j \in UserOf(T)
  PROVE  AreSiblings(i, j) <=>
           i.key.type = j.key.type /\ i.key.type \in LinkedTypes /\ AppId(i) = AppId(j)
  <1>. DEFINE m == AppId(i)
              n == AppId(j)
  <1>1. /\ NumberFits(i.key, m) /\ NumberFits(j.key, n) /\ i.key.id \in Nat /\ j.key.id \in Nat
    BY NumberOfInfo
  <1>2. m \in Nat /\ Place(m) = 0 /\ n \in Nat /\ Place(n) = 0
    BY <1>1 DEF NumberFits
  <1>3. CASE i.key.type # j.key.type \/ i.key.type \notin LinkedTypes
    BY <1>3 DEF AreSiblings, LinkedTypes
  <1>4. CASE i.key.type = j.key.type /\ i.key.type \in {Application, Patch}
    <2>. HIDE DEF m, n
    <2>1. i.key.id = j.key.id <=> m = n
      BY <1>1, <1>4 DEF NumberFits, Application, Patch
    <2>. QED
      BY <1>4, <2>1 DEF m, n, AreSiblings, LinkedTypes, Application, Patch, AddOnContent,
         DataPatch
  <1>5. CASE i.key.type = j.key.type /\ i.key.type = AddOnContent
    <2>1. /\ titleGetApplicationIdByAddOnContentId(i.key.id) = m
          /\ titleGetApplicationIdByAddOnContentId(j.key.id) = n
      BY <1>5 DEF AppId, titleGetApplicationIdByContentMetaKey, Patch, AddOnContent, Delta,
         DataPatch
    <2>. HIDE DEF m, n
    <2>2. /\ titleCheckIfAddOnContentIdBelongsToApplicationId(m, i.key.id)
          /\ titleCheckIfAddOnContentIdBelongsToApplicationId(n, j.key.id)
      BY <1>1, <1>2, <1>5, BelongsToOwn
    <2>3. titleCheckIfAddOnContentIdsAreSiblings(i.key.id, j.key.id) <=> m = n
      BY <2>1, <2>2, Zenon DEF titleCheckIfAddOnContentIdsAreSiblings
    <2>. QED
      BY <1>5, <2>3 DEF m, n, AreSiblings, LinkedTypes, Application, Patch, AddOnContent,
         DataPatch
  <1>6. CASE i.key.type = j.key.type /\ i.key.type = DataPatch
    <2>. DEFINE x == titleGetAddOnContentIdByDataPatchId(i.key.id)
                y == titleGetAddOnContentIdByDataPatchId(j.key.id)
    <2>1. /\ titleGetApplicationIdByAddOnContentId(x) = m
          /\ titleGetApplicationIdByAddOnContentId(y) = n
      BY <1>6 DEF AppId, titleGetApplicationIdByContentMetaKey, Patch, AddOnContent, Delta,
         DataPatch
    <2>. HIDE DEF m, n
    <2>2. /\ titleCheckIfAddOnContentIdBelongsToApplicationId(m, x)
          /\ titleCheckIfAddOnContentIdBelongsToApplicationId(n, y)
      BY <1>1, <1>2, <1>6, BelongsToOwn
    <2>. HIDE DEF x, y
    <2>3. titleCheckIfAddOnContentIdsAreSiblings(x, y) <=> m = n
      BY <2>1, <2>2, Zenon DEF titleCheckIfAddOnContentIdsAreSiblings
    <2>4. titleCheckIfDataPatchIdsAreSiblings(i.key.id, j.key.id) <=> m = n
      BY <2>3, Zenon DEF x, y, titleCheckIfDataPatchIdsAreSiblings
    <2>. QED
      BY <1>6, <2>4 DEF m, n, AreSiblings, LinkedTypes, Application, Patch, AddOnContent,
         DataPatch
  <1>. QED  BY <1>3, <1>4, <1>5, <1>6 DEF LinkedTypes

\* The user interface's way to tell an application's titles is the lists'.
LEMMA BelongsIs ==
  ASSUME NEW T, ArraysOK(T), NEW w, KeysOK(T, w), NEW i \in UserOf(T), NEW app \in Nat,
         Place(app) = 0
  PROVE  BelongsTo(app, i.key) <=> i.key.type \in LinkedTypes /\ AppId(i) = app
  <1>. DEFINE m == AppId(i)
  <1>1. /\ NumberFits(i.key, m) /\ i.key.id \in Nat
    BY NumberOfInfo
  <1>. HIDE DEF m
  <1>2. CASE i.key.type \in {Application, Patch}
    <2>1. BelongsTo(app, i.key) <=> m = app
      BY <1>1, <1>2 DEF BelongsTo, NumberFits, Application, Patch, AddOnContent, DataPatch,
        titleGetPatchIdByApplicationId, TITLE_PATCH_ID_OFFSET
    <2>. QED  BY <1>2, <2>1 DEF LinkedTypes, m
  <1>3. CASE i.key.type = AddOnContent
    <2>1. BelongsTo(app, i.key) <=> m = app
      BY <1>1, <1>3, BelongsToOwn DEF BelongsTo, Application, Patch, AddOnContent, DataPatch
    <2>. QED  BY <1>3, <2>1 DEF LinkedTypes, m
  <1>4. CASE i.key.type = DataPatch
    <2>1. BelongsTo(app, i.key) <=> m = app
      BY <1>1, <1>4, BelongsToOwn DEF BelongsTo, Application, Patch, AddOnContent, DataPatch,
         titleCheckIfDataPatchIdBelongsToApplicationId
    <2>. QED  BY <1>4, <2>1 DEF LinkedTypes, m
  <1>5. CASE i.key.type = Delta
    BY <1>5 DEF BelongsTo, LinkedTypes, Application, Patch, AddOnContent, DataPatch, Delta
  <1>. QED  BY <1>1, <1>2, <1>3, <1>4, <1>5 DEF NumberFits

\* How far above its application's a title's number is, by its type.
OffsetFits(t, r) ==
  \/ t = Application /\ r = 0
  \/ t = Patch /\ r = 2048
  \/ t = Delta /\ r = 3072
  \/ t = AddOnContent /\ r \in 4097 .. 6096
  \/ t = DataPatch /\ r \in 6145 .. 8144

\* The distance of a title from its application, as a number.
LEMMA OffsetIs ==
  ASSUME NEW k, k.id \in Nat, NEW m, NumberFits(k, m)
  PROVE  /\ k.id - m \in Nat /\ k.id - m <= 8191 /\ m + (k.id - m) = k.id
         /\ OffsetFits(k.type, k.id - m)
  <1>. DEFINE id == k.id
              r == id - m
              t == k.type
  <1>1. /\ id \in Nat /\ m \in Nat
        /\ \/ t = Application /\ id = m
           \/ t = Patch /\ id = m + 2048
           \/ t = Delta /\ id = m + 3072
           \/ t = AddOnContent /\ Within(id, m, 4096)
           \/ t = DataPatch /\ Within(id, m, 6144)
    BY DEF NumberFits
  <1>. HIDE DEF id, t
  <1>2. \/ t = Application /\ r = 0
        \/ t = Patch /\ r = 2048
        \/ t = Delta /\ r = 3072
        \/ t = AddOnContent /\ r \in 4097 .. 6096
        \/ t = DataPatch /\ r \in 6145 .. 8144
    <2>1. Within(id, m, 4096) => r \in 4097 .. 6096
      BY <1>1 DEF Within
    <2>2. Within(id, m, 6144) => r \in 6145 .. 8144
      BY <1>1 DEF Within
    <2>3. (id = m => r = 0) /\ (id = m + 2048 => r = 2048) /\ (id = m + 3072 => r = 3072)
      BY <1>1
    <2>. HIDE DEF r
    <2>. QED  BY <1>1, <2>1, <2>2, <2>3
  <1>3. m + r = id /\ r \in Int
    BY <1>1
  <1>. HIDE DEF r
  <1>4. r \in Nat /\ r <= 8191
    BY <1>2, <1>3
  <1>5. OffsetFits(t, r)
    BY <1>2, <1>3 DEF OffsetFits
  <1>. QED  BY <1>3, <1>4, <1>5 DEF id, r, t

\* A title whose number is in reach of an application's is of that application
\* and of the kind the number says.
LEMMA KindIs ==
  ASSUME NEW T, ArraysOK(T), NEW w, KeysOK(T, w), NEW i \in UserOf(T), NEW app \in Nat,
         Place(app) = 0,
         NEW q \in Nat, q <= 8191, i.key.id = app + q
  PROVE  AppId(i) = app /\ OffsetFits(i.key.type, q)
  <1>. DEFINE m == AppId(i)
              k == i.key
              r == k.id - m
  <1>1. /\ NumberFits(k, m) /\ k.id \in Nat /\ k.id = app + q
    BY NumberOfInfo
  <1>. HIDE DEF m, k
  <1>2. m \in Nat /\ Place(m) = 0
    BY <1>1 DEF NumberFits
  <1>3. r \in Nat /\ r <= 8191 /\ m + r = k.id /\ OffsetFits(k.type, r)
    BY <1>1, OffsetIs
  <1>. HIDE DEF r
  <1>4. m = app /\ q = r
    <2>1. m + r = app + q
      BY <1>1, <1>3
    <2>. QED  BY <1>2, <1>3, <2>1, SameApplication
  <1>. QED  BY <1>3, <1>4 DEF m, k

----------------------------------------------------------------------------
\* The lists.

\* Earlier titles of a list are linked if a later one is.
LEMMA KeptFromTheFirst ==
  ASSUME NEW T, NEW L, NEW w, Listed(T, L, w), NEW i \in UserOf(T), NEW j \in UserOf(T),
         i.key.type = j.key.type, AppId(i) = AppId(j), Visits(i, j), j \notin L.orphans
  PROVE  i \notin L.orphans
  <1>1. /\ i.st \in Nat /\ j.st \in Nat /\ i.st <= j.st
    BY NumberOfInfo DEF Listed, Visits
  <1>a. i.st # 0 /\ j.st # 0
    <2>1. i \in TitleInfos /\ j \in TitleInfos
      BY AllInfos DEF Listed
    <2>. QED  BY <2>1 DEF TitleInfos, Storages, GameCard, SdCard
  <1>2. ~IsOrphan(T, L.md, j)
    BY DEF Listed, ListsOK
  <1>3. ParentOf(T, i) = ParentOf(T, j)
    BY Zenon DEF ParentOf, AppId
  <1>4. i.key.type # Application /\ j \in L.md => i \in L.md
    <2>1. i.st = GameCard \/ j.st # GameCard
      BY <1>1, <1>a DEF GameCard
    <2>. QED  BY <2>1, Zenon DEF Listed, MetaAgrees, Alike
  <1>5. LinkedType(i.key)
    BY <1>2, Zenon DEF IsOrphan, LinkedType
  <1>6. ~IsOrphan(T, L.md, i)
    BY <1>2, <1>3, <1>4, <1>5, Zenon DEF IsOrphan
  <1>. QED  BY <1>6 DEF Listed, ListsOK

\* What every list of siblings is: finite, of one type, in the order of the visits.
LEMMA GroupsAre ==
  ASSUME NEW T, NEW L, NEW w, Listed(T, L, w), NEW t, NEW app
  PROVE  /\ Group(T, t, app) \subseteq UserOf(T)
         /\ Kept(T, L, t, app) \subseteq Group(T, t, app)
         /\ Group(T, t, app) \subseteq TitleInfos /\ Group(T, t, app) \subseteq AllOf(T)
         /\ IsFiniteSet(AllOf(T))
         /\ None \notin Group(T, t, app)
         /\ \A a, b \in Group(T, t, app) : a.key.type = b.key.type
         /\ \A a, b, c \in Group(T, t, app) : Visits(a, b) /\ Visits(b, c) => Visits(a, c)
         /\ \A a, b \in Group(T, t, app) : Visits(a, b) => a # b /\ ~Visits(b, a)
         /\ \A a, b \in Group(T, t, app) : a # b => Visits(a, b) \/ Visits(b, a)
  <1>1. Group(T, t, app) \subseteq UserOf(T) /\ Kept(T, L, t, app) \subseteq Group(T, t, app)
    BY DEF Group, Kept
  <1>2. /\ Group(T, t, app) \subseteq TitleInfos /\ Group(T, t, app) \subseteq AllOf(T)
        /\ None \notin Group(T, t, app) /\ IsFiniteSet(AllOf(T))
    BY <1>1, AllInfos DEF Listed
  <1>3. \A a, b \in Group(T, t, app) : a.key.type = b.key.type
    BY DEF Group
  <1>4. \A a, b, c \in Group(T, t, app) : Visits(a, b) /\ Visits(b, c) => Visits(a, c)
    BY <1>2, VisitsOrder
  <1>5. \A a, b \in Group(T, t, app) : Visits(a, b) => a # b /\ ~Visits(b, a)
    BY <1>2, VisitsOrder
  <1>6. \A a, b \in Group(T, t, app) : a # b => Visits(a, b) \/ Visits(b, a)
    BY <1>2, <1>3, VisitsTotal DEF Listed
  <1>. QED  BY <1>1, <1>2, <1>3, <1>4, <1>5, <1>6

\* Infos of one type have a first one.
LEMMA EarliestIsFirst ==
  ASSUME NEW T, ArraysOK(T), NEW S, S \subseteq AllOf(T), S # {},
         \A a, b \in S : a.key.type = b.key.type
  PROVE  Earliest(S) \in S /\ \A y \in S \ {Earliest(S)} : Visits(Earliest(S), y)
  <1>. DEFINE Before(x) == {y \in S : Visits(y, x)}
              Befores == {Before(x) : x \in S}
  <1>1. IsFiniteSet(S) /\ S \subseteq TitleInfos
    BY AllInfos, FS_Subset
  <1>2. Befores \subseteq FiniteSubsetsOf(S)
    <2>1. \A x \in S : Before(x) \in SUBSET S
      OBVIOUS
    <2>. QED
      BY <1>1, <2>1, FS_FiniteSubsetsOfFinite
  <1>3. IsWellFoundedOn(StrictSubsetOrdering(S), FiniteSubsetsOf(S))
    BY FS_StrictSubsetOrderingWellFounded
  <1>4. Befores # {}
    OBVIOUS
  <1>5. PICK A \in Befores : \A B \in Befores : <<B, A>> \notin StrictSubsetOrdering(S)
    <2>. HIDE DEF Befores
    <2>. QED
      BY <1>2, <1>3, <1>4, WFMin
  <1>6. PICK x \in S : A = Before(x)
    BY <1>5
  <1>7. \A y \in S : ~Visits(y, x)
    <2>. SUFFICES ASSUME NEW y \in S, Visits(y, x) PROVE FALSE
      OBVIOUS
    <2>1. Before(y) \subseteq Before(x)
      <3>. SUFFICES ASSUME NEW z \in S, Visits(z, y) PROVE Visits(z, x)
        OBVIOUS
      <3>. QED
        BY <1>1, VisitsOrder
    <2>2. y \in Before(x) /\ y \notin Before(y)
      BY <1>1, VisitsOrder
    <2>3. Before(y) # Before(x) /\ Before(x) \in SUBSET S /\ Before(y) \in SUBSET S
      BY <2>2
    <2>4. <<Before(y), Before(x)>> \in StrictSubsetOrdering(S)
      <3>. HIDE DEF Before
      <3>. QED
        BY <2>1, <2>3 DEF StrictSubsetOrdering
    <2>. QED
      BY <1>5, <1>6, <2>4
  <1>8. \A y \in S \ {x} : Visits(x, y)
    <2>. SUFFICES ASSUME NEW y \in S, y # x PROVE Visits(x, y)
      OBVIOUS
    <2>1. Visits(x, y) \/ Visits(y, x)
      BY VisitsTotal
    <2>. QED
      BY <1>7, <2>1
  <1>. QED
    BY <1>6, <1>8, Zenon DEF Earliest

\* What comes before a linked title is linked, and is its list's.
LEMMA PreviousIs ==
  ASSUME NEW T, NEW L, NEW w, Listed(T, L, w), NEW t \in LinkedTypes, NEW app,
         NEW i \in Kept(T, L, t, app)
  PROVE  /\ L.previous[i] = PreviousOf(T, i)
         /\ L.previous[i] = None => \A j \in Group(T, t, app) : ~Visits(j, i)
         /\ L.previous[i] # None =>
              /\ L.previous[i] \in Kept(T, L, t, app) /\ Visits(L.previous[i], i)
              /\ \A j \in Group(T, t, app) :
                   Visits(j, i) /\ j # L.previous[i] => Visits(j, L.previous[i])
  <1>. DEFINE earlier == {j \in UserOf(T) : Visits(j, i) /\ AreSiblings(j, i)}
              p == PreviousOf(T, i)
  <1>1. /\ i \in UserOf(T) \ L.orphans /\ i \in AllOf(T) /\ i.key.type = t /\ AppId(i) = app
        /\ ArraysOK(T) /\ KeysOK(T, w)
    BY AllInfos DEF Kept, Group, Listed
  <1>2. L.previous[i] = p
    BY <1>1 DEF Listed, ListsOK
  <1>3. \A j \in UserOf(T) : AreSiblings(j, i) <=> j \in Group(T, t, app)
    BY <1>1, SiblingsAre DEF Group
  <1>4. p = None => \A j \in Group(T, t, app) : ~Visits(j, i)
    <2>1. p = IF earlier = {} THEN None ELSE Latest(earlier)
      BY Zenon DEF PreviousOf
    <2>2. earlier # {} => Latest(earlier) \in AllOf(T)
      <3>1. earlier \subseteq AllOf(T) /\ \A a, b \in earlier : a.key.type = b.key.type
        BY <1>1, AllInfos, SiblingsOfOne
      <3>. HIDE DEF earlier
      <3>. QED  BY <1>1, <3>1, LatestIsLast
    <2>3. None \notin AllOf(T)
      BY <1>1, AllInfos
    <2>4. p = None => earlier = {}
      BY <2>1, <2>2, <2>3
    <2>. QED  BY <1>3, <2>4 DEF Group
  <1>5. ASSUME p # None
        PROVE  /\ p \in Kept(T, L, t, app) /\ Visits(p, i)
               /\ \A j \in Group(T, t, app) : Visits(j, i) /\ j # p => Visits(j, p)
    <2>1. /\ p \in UserOf(T) /\ Visits(p, i) /\ AreSiblings(p, i)
          /\ \A y \in UserOf(T) : Visits(y, i) /\ AreSiblings(y, i) /\ y # p => Visits(y, p)
      BY <1>1, <1>5, PreviousIsClosest
    <2>. HIDE DEF p
    <2>2. p \in Group(T, t, app)
      BY <1>3, <2>1
    <2>3. p \notin L.orphans
      BY <1>1, <2>1, <2>2, KeptFromTheFirst DEF Group
    <2>4. \A j \in Group(T, t, app) : j \in UserOf(T)
      BY DEF Group
    <2>. QED  BY <1>3, <2>1, <2>2, <2>3, <2>4 DEF Kept
  <1>. QED  BY <1>2, <1>4, <1>5

\* What comes after a linked title is the closest linked one of its list.
LEMMA NextIs ==
  ASSUME NEW T, NEW L, NEW w, Listed(T, L, w), NEW t \in LinkedTypes, NEW app,
         NEW i \in Kept(T, L, t, app)
  PROVE  /\ L.next[i] = None => \A y \in Kept(T, L, t, app) : ~Visits(i, y)
         /\ L.next[i] # None =>
              /\ L.next[i] \in Kept(T, L, t, app) /\ Visits(i, L.next[i])
              /\ \A y \in Kept(T, L, t, app) :
                   Visits(i, y) /\ y # L.next[i] => Visits(L.next[i], y)
  <1>. DEFINE N == Kept(T, L, t, app)
              G == Group(T, t, app)
  <1>1. /\ N \subseteq G /\ G \subseteq UserOf(T) /\ G \subseteq AllOf(T) /\ None \notin G
        /\ \A a, b \in G : a.key.type = b.key.type
        /\ \A a, b \in G : Visits(a, b) => a # b /\ ~Visits(b, a)
        /\ \A a, b \in G : a # b => Visits(a, b) \/ Visits(b, a)
    BY GroupsAre
  <1>2. ArraysOK(T) /\ LinksOK(T, L) /\ KeysOK(T, w) /\ ListsOK(T, L)
    BY DEF Listed
  <1>3. \A x \in N :
          /\ L.previous[x] = None => \A j \in G : ~Visits(j, x)
          /\ L.previous[x] # None =>
               /\ L.previous[x] \in N /\ Visits(L.previous[x], x)
               /\ \A j \in G : Visits(j, x) /\ j # L.previous[x] => Visits(j, L.previous[x])
    BY PreviousIs
  <1>4. /\ i \in N /\ i \in G /\ i \in AllOf(T) /\ i \in UserOf(T) /\ i.key.type = t
        /\ AppId(i) = app
    BY <1>1 DEF Group
  <1>5. ASSUME L.next[i] = None, NEW y \in N, Visits(i, y) PROVE FALSE
    <2>. DEFINE S == {x \in N : Visits(i, x)}
                z == Earliest(S)
                p == L.previous[z]
    <2>1. /\ S \subseteq N /\ S \subseteq AllOf(T) /\ S # {}
          /\ \A a, b \in S : a.key.type = b.key.type
      BY <1>1, <1>5
    <2>2. z \in S /\ \A x \in S \ {z} : Visits(z, x)
      <3>. HIDE DEF S
      <3>. QED  BY <1>2, <2>1, EarliestIsFirst
    <2>3. z \in N /\ Visits(i, z) /\ z \in AllOf(T)
      BY <1>1, <2>2
    <2>. HIDE DEF z, N, G
    <2>4. p # None /\ p \in N /\ Visits(p, z) /\ (i # p => Visits(i, p))
      BY <1>3, <1>4, <2>3
    <2>5. i = p
      <3>. SUFFICES ASSUME Visits(i, p) PROVE FALSE
        BY <2>4
      <3>1. p \in S /\ p # z
        BY <1>1, <2>3, <2>4
      <3>. QED  BY <1>1, <2>2, <2>3, <2>4, <3>1
    <2>6. L.next[p] = z
      BY <1>2, <2>3, <2>4 DEF LinksOK
    <2>. QED  BY <1>1, <1>5, <2>3, <2>5, <2>6
  <1>6. ASSUME L.next[i] # None
        PROVE  /\ L.next[i] \in N /\ Visits(i, L.next[i])
               /\ \A y \in N : Visits(i, y) /\ y # L.next[i] => Visits(L.next[i], y)
    <2>. DEFINE n == L.next[i]
    <2>1. n \in AllOf(T) /\ L.previous[n] = i /\ i # None
      BY <1>1, <1>2, <1>4, <1>6 DEF LinksOK
    <2>. HIDE DEF n
    <2>2. n \in UserOf(T) \ L.orphans /\ PreviousOf(T, n) = i
      BY <1>2, <2>1 DEF ListsOK
    <2>3. Visits(i, n) /\ AreSiblings(i, n)
      BY <1>2, <2>1, <2>2, PreviousIsClosest
    <2>4. n \in N
      BY <1>2, <1>4, <2>2, <2>3, SiblingsAre DEF Kept, Group
    <2>5. ASSUME NEW y \in N, Visits(i, y), y # n PROVE Visits(n, y)
      <3>1. Visits(n, y) \/ Visits(y, n)
        BY <1>1, <2>4, <2>5
      <3>2. y # i /\ ~Visits(y, i)
        BY <1>1, <1>4, <2>5
      <3>3. Visits(y, n) => Visits(y, i)
        <4>. HIDE DEF N, G
        <4>. QED  BY <1>1, <1>3, <2>1, <2>4, <3>2
      <3>. QED  BY <3>1, <3>2, <3>3
    <2>. QED  BY <2>3, <2>4, <2>5 DEF n
  <1>. QED  BY <1>5, <1>6

\* Orphans and titles of the system are not linked.
LEMMA UnlinkedIs ==
  ASSUME NEW T, NEW L, NEW w, Listed(T, L, w), NEW i \in AllOf(T),
         i \in L.orphans \/ i \notin UserOf(T)
  PROVE  L.next[i] = None /\ L.previous[i] = None
  <1>1. ArraysOK(T) /\ LinksOK(T, L) /\ KeysOK(T, w) /\ ListsOK(T, L)
    BY DEF Listed
  <1>2. L.previous[i] = None
    BY <1>1 DEF ListsOK
  <1>3. ASSUME L.next[i] # None PROVE FALSE
    <2>. DEFINE n == L.next[i]
    <2>1. n \in AllOf(T) /\ L.previous[n] = i /\ i # None
      BY <1>1, <1>3, AllInfos DEF LinksOK
    <2>. HIDE DEF n
    <2>2. n \in UserOf(T) \ L.orphans /\ PreviousOf(T, n) = i
      BY <1>1, <2>1 DEF ListsOK
    <2>3. i \in UserOf(T) /\ Visits(i, n) /\ AreSiblings(i, n)
      BY <1>1, <2>1, <2>2, PreviousIsClosest
    <2>4. i.key.type = n.key.type /\ AppId(i) = AppId(n)
      BY <1>1, <2>2, <2>3, SiblingsAre
    <2>5. i \notin L.orphans
      BY <2>2, <2>3, <2>4, KeptFromTheFirst
    <2>. QED  BY <2>3, <2>5
  <1>. QED  BY <1>2, <1>3

----------------------------------------------------------------------------
\* The loop along the next pointers.

\* A list that the next pointers go through from any of its titles on.
Chain(N, next) ==
  /\ IsFiniteSet(N)
  /\ \A a, b, c \in N : Visits(a, b) /\ Visits(b, c) => Visits(a, c)
  /\ \A a, b \in N : Visits(a, b) => a # b
  /\ \A a \in N : next[a] = None => \A y \in N : ~Visits(a, y)
  /\ \A a \in N : next[a] # None =>
       /\ next[a] \in N /\ Visits(a, next[a])
       /\ \A y \in N : Visits(a, y) /\ y # next[a] => Visits(next[a], y)

FollowStep(next, i, N, list, n) ==
  LET j == next[Last(list)] IN IF j = None THEN list ELSE Append(list, j)
Followed(next, i, N, k, list) ==
  /\ list \in Seq(N) /\ list # <<>> /\ list[1] = i
  /\ \A m, n \in 1 .. Len(list) : m < n => Visits(list[m], list[n])
  /\ \A y \in N :
       Visits(i, y) => (\E m \in 1 .. Len(list) : list[m] = y) \/ Visits(Last(list), y)
  /\ Len(list) = k + 1 \/ next[Last(list)] = None
Along == INSTANCE Folding WITH op <- FollowStep, Inv <- Followed

\* One step along next keeps to the chain and misses none of its infos.
LEMMA FollowKeeps ==
  ASSUME NEW N, NEW next, Chain(N, next), NEW i \in N, NEW k \in Nat \ {0}, NEW list,
         Followed(next, i, N, k - 1, list), NEW x
  PROVE  Followed(next, i, N, k, FollowStep(next, i, N, list, x))
  <1>. DEFINE l == Last(list)
              j == next[l]
  <1>1. /\ list \in Seq(N) /\ list # <<>> /\ Len(list) \in Nat \ {0} /\ l = list[Len(list)]
        /\ l \in N
        /\ \A m \in 1 .. Len(list) : list[m] \in N
    BY DEF Followed, Last
  <1>2. CASE j = None
    BY <1>1, <1>2 DEF Followed, FollowStep
  <1>3. CASE j # None
    <2>. DEFINE more == Append(list, j)
    <2>1. j \in N /\ Visits(l, j) /\ \A y \in N : Visits(l, y) /\ y # j => Visits(j, y)
      BY <1>1, <1>3 DEF Chain
    <2>. HIDE DEF j
    <2>2. /\ more \in Seq(N) /\ Len(more) = Len(list) + 1 /\ more[Len(list) + 1] = j
          /\ \A m \in 1 .. Len(list) : more[m] = list[m]
      BY <1>1, <2>1
    <2>3. Len(list) = k
      BY <1>1, <1>3 DEF Followed, j
    <2>4. Last(more) = j /\ more # <<>> /\ more[1] = i
      BY <1>1, <2>2 DEF Last, Followed
    <2>. HIDE DEF more, l
    <2>5. ASSUME NEW m \in 1 .. Len(more), NEW n \in 1 .. Len(more), m < n
          PROVE  Visits(more[m], more[n])
      <3>1. CASE n \in 1 .. Len(list)
        <4>1. m \in 1 .. Len(list)
          BY <1>1, <2>5, <3>1
        <4>. QED  BY <2>2, <2>5, <3>1, <4>1 DEF Followed
      <3>2. CASE n = Len(list) + 1
        <4>1. m \in 1 .. Len(list) /\ list[m] \in N /\ more[m] = list[m] /\ more[n] = j
          BY <1>1, <2>2, <2>5, <3>2
        <4>2. list[m] = l \/ Visits(list[m], l)
          <5>1. Len(list) \in 1 .. Len(list) /\ (m = Len(list) \/ m < Len(list))
            BY <1>1, <4>1
          <5>. QED  BY <1>1, <4>1, <5>1 DEF Followed
        <4>. QED  BY <1>1, <2>1, <4>1, <4>2 DEF Chain
      <3>. QED  BY <1>1, <2>2, <2>5, <3>1, <3>2
    <2>6. ASSUME NEW y \in N, Visits(i, y)
          PROVE  (\E m \in 1 .. Len(more) : more[m] = y) \/ Visits(Last(more), y)
      <3>1. CASE \E m \in 1 .. Len(list) : list[m] = y
        BY <1>1, <2>2, <3>1
      <3>2. CASE Visits(l, y)
        <4>1. y = j \/ Visits(j, y)
          BY <2>1, <3>2
        <4>2. Len(list) + 1 \in 1 .. Len(more)
          BY <1>1, <2>2
        <4>. QED  BY <2>2, <2>4, <4>1, <4>2
      <3>. QED  BY <2>6, <3>1, <3>2 DEF Followed, l
    <2>7. Followed(next, i, N, k, more)
      BY <1>1, <2>2, <2>3, <2>4, <2>5, <2>6 DEF Followed
    <2>8. FollowStep(next, i, N, list, x) = more
      BY <1>3, Zenon DEF FollowStep, more, j, l
    <2>. QED  BY <2>7, <2>8
  <1>. QED  BY <1>2, <1>3

\* Followed to the end, the list holds every title from the first one on, once.
LEMMA FollowEnds ==
  ASSUME NEW N, NEW next, Chain(N, next), NEW i \in N, NEW n \in Nat, Cardinality(N) <= n
  PROVE  LET list == Along!Folded(next, i, N, <<i>>, [m \in 1 .. n |-> m])
         IN  /\ list \in Seq(N) /\ list # <<>> /\ list[1] = i
             /\ \A m1, m2 \in 1 .. Len(list) : m1 < m2 => Visits(list[m1], list[m2])
             /\ \A y \in N : Visits(i, y) => y \in ToSet(list)
  <1>. DEFINE seq == [m \in 1 .. n |-> m]
              list == Along!Folded(next, i, N, <<i>>, seq)
  <1>1. Followed(next, i, N, 0, <<i>>)
    <2>1. <<i>> \in Seq(N) /\ <<i>> # <<>> /\ Len(<<i>>) = 1 /\ <<i>>[1] = i /\ Last(<<i>>) = i
      BY DEF Last
    <2>. QED  BY <2>1 DEF Followed
  <1>2. \A k \in 1 .. n : \A v :
          Followed(next, i, N, k - 1, v)
            => Followed(next, i, N, k, FollowStep(next, i, N, v, seq[k]))
    <2>. SUFFICES ASSUME NEW k \in 1 .. n, NEW v, Followed(next, i, N, k - 1, v)
                  PROVE  Followed(next, i, N, k, FollowStep(next, i, N, v, seq[k]))
      OBVIOUS
    <2>1. k \in Nat \ {0}
      OBVIOUS
    <2>. QED  BY <2>1, FollowKeeps
  <1>3. DOMAIN seq = 1 .. n
    OBVIOUS
  <1>. HIDE DEF seq
  <1>4. Followed(next, i, N, n, list)
    BY <1>1, <1>2, <1>3, Along!FoldKeeps
  <1>. HIDE DEF list
  <1>5. /\ list \in Seq(N) /\ Len(list) \in Nat \ {0} /\ Last(list) = list[Len(list)]
        /\ Last(list) \in N
        /\ \A m \in 1 .. Len(list) : list[m] \in N
    BY <1>4 DEF Followed, Last
  <1>6. next[Last(list)] = None
    <2>. SUFFICES ASSUME Len(list) = n + 1 PROVE FALSE
      BY <1>4 DEF Followed
    <2>1. IsFiniteSet(1 .. n + 1) /\ Cardinality(1 .. n + 1) = n + 1
      BY FS_Interval
    <2>2. IsFiniteSet(N) /\ Cardinality(N) \in Nat
      BY FS_CardinalityType DEF Chain
    <2>3. list \in [1 .. n + 1 -> N]
      BY <1>5
    <2>4. PICK x, y \in 1 .. n + 1 : x # y /\ list[x] = list[y]
      BY <2>1, <2>2, <2>3, FS_PigeonHole
    <2>5. \A a, b \in 1 .. n + 1 : a < b => list[a] # list[b]
      BY <1>4, <1>5 DEF Followed, Chain
    <2>6. x < y \/ y < x
      BY <2>4
    <2>. QED  BY <2>4, <2>5, <2>6
  <1>7. \A y \in N : Visits(i, y) => \E m \in 1 .. Len(list) : list[m] = y
    BY <1>4, <1>5, <1>6 DEF Followed, Chain
  <1>8. \A y \in N : Visits(i, y) => y \in ToSet(list)
    BY <1>5, <1>7 DEF ToSet
  <1>. QED  BY <1>4, <1>8 DEF Followed, seq, list

(***************************************************************************)
(* Following the links.                                                    *)
(***************************************************************************)

\* Following next visits each info of the chain after the first, once and in order.
LEMMA FromNextOf ==
  ASSUME IsFiniteSet(AllOf(arrays)), NEW N, N \subseteq AllOf(arrays), Chain(N, lists.next),
         NEW i \in N
  PROVE  /\ FromNext(i) \in Seq(N) /\ FromNext(i) # <<>> /\ FromNext(i)[1] = i
         /\ \A m, n \in 1 .. Len(FromNext(i)) : m < n => Visits(FromNext(i)[m], FromNext(i)[n])
         /\ \A y \in N : Visits(i, y) => y \in ToSet(FromNext(i))
  <1>. DEFINE n == Cardinality(AllOf(arrays))
              next == lists.next
              list == Along!Folded(next, i, N, <<i>>, [m \in 1 .. n |-> m])
  <1>1. n \in Nat /\ Cardinality(N) <= n
    BY FS_CardinalityType, FS_Subset
  <1>2. FromNext(i) = list
    BY Zenon DEF FromNext, FollowStep, Along!Folded, FoldLeft, Along!FoldLeft, MapThenFoldSet,
       Along!MapThenFoldSet, Max, Along!Max
  <1>. HIDE DEF n, next
  <1>3. /\ list \in Seq(N) /\ list # <<>> /\ list[1] = i
        /\ \A m1, m2 \in 1 .. Len(list) : m1 < m2 => Visits(list[m1], list[m2])
        /\ \A y \in N : Visits(i, y) => y \in ToSet(list)
    BY <1>1, FollowEnds, Zenon DEF next
  <1>. HIDE DEF list
  <1>. QED  BY <1>2, <1>3

\* The loop along the previous pointers, from a title that is the first.
BackStep(previous, i, c, list, n) ==
  LET j == previous[Head(list)] IN IF j = None THEN list ELSE <<j>> \o list
StaysFirst(previous, i, c, k, list) == list = <<i>>
Back == INSTANCE Folding WITH op <- BackStep, Inv <- StaysFirst

\* An info with no previous is the first of its list.
LEMMA FromPreviousOf ==
  ASSUME IsFiniteSet(AllOf(arrays)), NEW i, lists.previous[i] = None
  PROVE  FromPrevious(i) = <<i>>
  <1>. DEFINE n == Cardinality(AllOf(arrays))
              previous == lists.previous
              seq == [m \in 1 .. n |-> m]
              list == Back!Folded(previous, i, 0, <<i>>, seq)
  <1>1. n \in Nat
    BY FS_CardinalityType
  <1>2. FromPrevious(i) = list
    BY Zenon DEF FromPrevious, BackStep, Back!Folded, FoldLeft, Back!FoldLeft, MapThenFoldSet,
       Back!MapThenFoldSet, Max, Back!Max
  <1>. HIDE DEF n
  <1>3. DOMAIN seq = 1 .. n
    OBVIOUS
  <1>4. previous[i] = None
    OBVIOUS
  <1>. HIDE DEF seq, previous
  <1>5. StaysFirst(previous, i, 0, 0, <<i>>)
    BY DEF StaysFirst
  <1>6. \A k \in 1 .. n : \A v :
          StaysFirst(previous, i, 0, k - 1, v)
            => StaysFirst(previous, i, 0, k, BackStep(previous, i, 0, v, seq[k]))
    <2>1. Head(<<i>>) = i
      OBVIOUS
    <2>. QED  BY <1>4, <2>1 DEF StaysFirst, BackStep
  <1>7. StaysFirst(previous, i, 0, n, list)
    BY <1>1, <1>3, <1>5, <1>6, Back!FoldKeeps
  <1>. QED  BY <1>2, <1>7 DEF StaysFirst

\* The siblings that are linked are one chain.
LEMMA KeptIsChain ==
  ASSUME NEW T, NEW L, NEW w, Listed(T, L, w), NEW t \in LinkedTypes, NEW app
  PROVE  Chain(Kept(T, L, t, app), L.next) /\ Kept(T, L, t, app) \subseteq AllOf(T)
  <1>. DEFINE N == Kept(T, L, t, app)
  <1>1. /\ N \subseteq AllOf(T) /\ IsFiniteSet(N)
        /\ \A a, b, c \in N : Visits(a, b) /\ Visits(b, c) => Visits(a, c)
        /\ \A a, b \in N : Visits(a, b) => a # b
    BY GroupsAre, FS_Subset
  <1>2. \A i \in N : /\ L.next[i] = None => \A y \in N : ~Visits(i, y)
                     /\ L.next[i] # None =>
                          /\ L.next[i] \in N /\ Visits(i, L.next[i])
                          /\ \A y \in N : Visits(i, y) /\ y # L.next[i] => Visits(L.next[i], y)
    BY NextIs
  <1>. HIDE DEF N
  <1>3. Chain(N, L.next)
    BY <1>1, <1>2 DEF Chain
  <1>. QED  BY <1>1, <1>3 DEF N

\* An info that is not linked is a chain of its own.
LEMMA OneIsChain ==
  ASSUME NEW T, NEW L, NEW w, Listed(T, L, w), NEW i \in AllOf(T),
         i \in L.orphans \/ i \notin UserOf(T)
  PROVE  Chain({i}, L.next)
  <1>1. L.next[i] = None
    BY UnlinkedIs
  <1>2. i \in TitleInfos
    BY AllInfos DEF Listed
  <1>3. ~Visits(i, i)
    BY <1>2, VisitsOrder
  <1>. QED  BY <1>1, <1>3, FS_Singleton DEF Chain

\* Any title's list goes on with titles of its group.
LEMMA FromNextStays ==
  ASSUME Listed(arrays, lists, world), NEW t \in LinkedTypes, NEW app,
         NEW i \in Group(arrays, t, app)
  PROVE  /\ FromNext(i) \in Seq(Group(arrays, t, app)) /\ FromNext(i) # <<>>
         /\ FromNext(i)[1] = i
         /\ \A m, n \in 1 .. Len(FromNext(i)) : m < n => Visits(FromNext(i)[m], FromNext(i)[n])
         /\ i \notin lists.orphans =>
              \A y \in Kept(arrays, lists, t, app) : Visits(i, y) => y \in ToSet(FromNext(i))
  <1>. DEFINE G == Group(arrays, t, app)
              N == Kept(arrays, lists, t, app)
              list == FromNext(i)
  <1>1. /\ IsFiniteSet(AllOf(arrays)) /\ N \subseteq G /\ G \subseteq AllOf(arrays)
        /\ G \subseteq UserOf(arrays)
    BY GroupsAre
  <1>2. CASE i \notin lists.orphans
    <2>1. i \in N
      BY <1>2 DEF Kept
    <2>2. Chain(N, lists.next) /\ N \subseteq AllOf(arrays)
      BY KeptIsChain
    <2>. HIDE DEF N
    <2>3. /\ list \in Seq(N) /\ list # <<>> /\ list[1] = i
          /\ \A m, n \in 1 .. Len(list) : m < n => Visits(list[m], list[n])
          /\ \A y \in N : Visits(i, y) => y \in ToSet(list)
      BY <1>1, <2>1, <2>2, FromNextOf
    <2>. HIDE DEF list, G
    <2>4. list \in Seq(G)
      BY <1>1, <2>3
    <2>. QED  BY <2>3, <2>4 DEF list, G, N
  <1>3. CASE i \in lists.orphans
    <2>. DEFINE O == {i}
    <2>1. Chain(O, lists.next) /\ O \subseteq AllOf(arrays) /\ i \in O /\ O \subseteq G
      BY <1>1, <1>3, OneIsChain
    <2>. HIDE DEF O
    <2>2. /\ list \in Seq(O) /\ list # <<>> /\ list[1] = i
          /\ \A m, n \in 1 .. Len(list) : m < n => Visits(list[m], list[n])
      BY <1>1, <2>1, FromNextOf
    <2>. HIDE DEF list, G
    <2>3. list \in Seq(G)
      BY <2>1, <2>2
    <2>. QED  BY <1>3, <2>2, <2>3 DEF list, G
  <1>. QED  BY <1>2, <1>3

\* The first title of a group, from which the getters start.
FirstOf(T, t, app) == IF Group(T, t, app) = {} THEN None ELSE Earliest(Group(T, t, app))

\* The list that starts at the first info of an application has every linked sibling.
LEMMA FromTheFirst ==
  ASSUME Listed(arrays, lists, world), NEW t \in LinkedTypes, NEW app
  PROVE  LET list == ListFrom(FirstOf(arrays, t, app))
         IN  /\ titleDuplicateTitleInfoFull(FirstOf(arrays, t, app)) = list
             /\ list \in Seq(Group(arrays, t, app))
             /\ \A m, n \in 1 .. Len(list) : m < n => Visits(list[m], list[n])
             /\ Kept(arrays, lists, t, app) \subseteq ToSet(list)
  <1>. DEFINE G == Group(arrays, t, app)
              N == Kept(arrays, lists, t, app)
              i == FirstOf(arrays, t, app)
              list == ListFrom(i)
  <1>1. /\ IsFiniteSet(AllOf(arrays)) /\ N \subseteq G /\ G \subseteq AllOf(arrays)
        /\ G \subseteq UserOf(arrays)
        /\ None \notin G /\ \A a, b \in G : a.key.type = b.key.type
        /\ \A a, b \in G : Visits(a, b) => a # b /\ ~Visits(b, a)
    BY GroupsAre
  <1>2. CASE G = {}
    <2>1. i = None
      BY <1>2 DEF FirstOf
    <2>2. list = <<>> /\ titleDuplicateTitleInfoFull(i) = <<>>
      BY <2>1, Zenon DEF ListFrom, titleDuplicateTitleInfoFull
    <2>3. list \in Seq(G) /\ Len(list) = 0
      BY <2>2
    <2>. QED  BY <1>1, <1>2, <2>2, <2>3
  <1>3. CASE G # {}
    <2>1. i \in G /\ \A y \in G \ {i} : Visits(i, y)
      <3>1. i = Earliest(G)
        BY <1>3 DEF FirstOf
      <3>2. ArraysOK(arrays)
        BY DEF Listed
      <3>. HIDE DEF i, G
      <3>. QED  BY <1>1, <1>3, <3>1, <3>2, EarliestIsFirst
    <2>2. i # None
      BY <1>1, <2>1
    <2>3. /\ list = FromNext(i)
          /\ titleDuplicateTitleInfoFull(i) = FromPrevious(i) \o Tail(FromNext(i))
      BY <2>2, Zenon DEF ListFrom, titleDuplicateTitleInfoFull
    <2>. HIDE DEF i, list
    <2>4. /\ list \in Seq(G) /\ list # <<>> /\ list[1] = i
          /\ \A m, n \in 1 .. Len(list) : m < n => Visits(list[m], list[n])
          /\ i \notin lists.orphans => \A y \in N : Visits(i, y) => y \in ToSet(list)
      BY <2>1, <2>3, FromNextStays
    <2>5. lists.previous[i] = None
      <3>1. CASE i \in lists.orphans
        BY <1>1, <2>1, <3>1, UnlinkedIs
      <3>2. CASE i \notin lists.orphans
        <4>1. i \in N
          BY <2>1, <3>2 DEF Kept
        <4>2. lists.previous[i] # None =>
                lists.previous[i] \in N /\ Visits(lists.previous[i], i)
          BY <4>1, PreviousIs
        <4>. HIDE DEF N, G
        <4>. QED  BY <1>1, <2>1, <4>2
      <3>. QED  BY <3>1, <3>2
    <2>6. FromPrevious(i) = <<i>>
      BY <1>1, <2>5, FromPreviousOf
    <2>. HIDE DEF G, N
    <2>7. titleDuplicateTitleInfoFull(i) = list
      <3>1. <<i>> \o Tail(list) = list
        BY <2>4
      <3>. QED  BY <2>3, <2>6, <3>1
    <2>8. N \subseteq ToSet(list)
      <3>. SUFFICES ASSUME NEW y \in N PROVE y \in ToSet(list)
        OBVIOUS
      <3>1. y \in G
        BY <1>1
      <3>2. i \notin lists.orphans
        <4>1. i # y => Visits(i, y)
          BY <2>1, <3>1
        <4>2. /\ i \in UserOf(arrays) /\ y \in UserOf(arrays) /\ y \notin lists.orphans
              /\ i.key.type = y.key.type /\ AppId(i) = AppId(y)
          BY <2>1, <3>1 DEF G, N, Group, Kept
        <4>. QED  BY <4>1, <4>2, KeptFromTheFirst
      <3>3. CASE y = i
        <4>1. 1 \in DOMAIN list
          BY <2>4
        <4>. QED  BY <2>4, <3>3, <4>1 DEF ToSet
      <3>4. CASE y # i
        BY <2>1, <2>4, <3>1, <3>2, <3>4
      <3>. QED  BY <3>3, <3>4
    <2>. QED  BY <2>4, <2>7, <2>8 DEF i, list, G, N
  <1>. QED  BY <1>2, <1>3

(***************************************************************************)
(* What titleGetUserApplicationData returns.                               *)
(***************************************************************************)

\* Where a title is looked up by a number in reach of an application's, it is
\* one of the user that is of the application.
LEMMA SystemIsBelow ==
  ASSUME Listed(arrays, lists, world), NEW app \in Nat, Place(app) = 0,
         NEW u \in UserOf(arrays), AppId(u) = app,
         NEW i \in AllOf(arrays), NEW q \in Nat, q <= 8191, i.key.id = app + q
  PROVE  /\ i \in UserOf(arrays) /\ AppId(i) = app /\ OffsetFits(i.key.type, q)
         /\ i.st \in Storages
  <1>1. ArraysOK(arrays) /\ KeysOK(arrays, world)
    BY DEF Listed
  <1>2. i \in UserOf(arrays)
    <2>. SUFFICES ASSUME i \in arrays[BuiltInSystem] PROVE FALSE
      BY DEF UserOf
    <2>1. i.key \in world.sys
      BY <1>1 DEF KeysOK
    <2>2. UserKey(world, u.key)
      BY <1>1 DEF KeysOK
    <2>3. i.key.id < AppId(u)
      BY <2>1, <2>2 DEF UserKey, AppId
    <2>4. i.key.id < app
      BY <2>3
    <2>. QED  BY <2>4
  <1>3. i.st \in Storages
    BY <1>1, AllInfos DEF TitleInfos
  <1>. QED  BY <1>1, <1>2, <1>3, KindIs

\* titleGetUserApplicationData finds the first info of each type (title.c).
LEMMA DataIs ==
  ASSUME Listed(arrays, lists, world), NEW app \in Nat, Place(app) = 0,
         titleIsUserApplicationContentAvailable(arrays, app)
  PROVE  _titleGetUserApplicationData(app) =
           [app |-> FirstOf(arrays, Application, app), patch |-> FirstOf(arrays, Patch, app),
            aoc |-> FirstOf(arrays, AddOnContent, app),
            aoc_patch |-> FirstOf(arrays, DataPatch, app)]
  <1>1. ArraysOK(arrays) /\ KeysOK(arrays, world)
    BY DEF Listed
  <1>2. PICK u \in UserOf(arrays) : AppId(u) = app
    BY <1>1, BelongsIs DEF titleIsUserApplicationContentAvailable
  <1>3. \A i \in UserOf(arrays) :
          i \in AllOf(arrays) /\ NumberFits(i.key, AppId(i)) /\ i.st \in Storages
    <2>1. \A i \in UserOf(arrays) : i \in TitleInfos
      BY <1>1, AllInfos
    <2>. QED  BY <1>1, <2>1, NumberOfInfo DEF TitleInfos
  <1>. DEFINE found(id) == {i \in AllOf(arrays) : i.st \in Storages /\ i.key.id = id}
  <1>4. found(app) = Group(arrays, Application, app)
    <2>1. ASSUME NEW i \in AllOf(arrays), i.key.id = app
          PROVE  i \in Group(arrays, Application, app)
      <3>1. i.key.id = app + 0 /\ 0 \in Nat /\ 0 <= 8191
        BY <2>1
      <3>2. i \in UserOf(arrays) /\ AppId(i) = app /\ OffsetFits(i.key.type, 0)
        BY <1>2, <3>1, SystemIsBelow
      <3>3. i.key.type = Application
        BY <3>2 DEF OffsetFits
      <3>. QED  BY <3>2, <3>3 DEF Group
    <2>2. ASSUME NEW i \in Group(arrays, Application, app)
          PROVE  i.key.id = app /\ i \in UserOf(arrays)
      <3>1. i \in UserOf(arrays) /\ AppId(i) = app /\ i.key.type = Application
        BY DEF Group
      <3>. QED  BY <1>3, <3>1 DEF NumberFits
    <2>. QED  BY <1>3, <2>1, <2>2
  <1>5. found(titleGetPatchIdByApplicationId(app)) = Group(arrays, Patch, app)
    <2>. DEFINE id == titleGetPatchIdByApplicationId(app)
    <2>0. id = app + 2048
      BY DEF titleGetPatchIdByApplicationId, TITLE_PATCH_ID_OFFSET
    <2>. HIDE DEF id
    <2>1. ASSUME NEW i \in AllOf(arrays), i.key.id = id PROVE i \in Group(arrays, Patch, app)
      <3>1. i.key.id = app + 2048 /\ 2048 \in Nat /\ 2048 <= 8191
        BY <2>0, <2>1
      <3>2. i \in UserOf(arrays) /\ AppId(i) = app /\ OffsetFits(i.key.type, 2048)
        BY <1>2, <3>1, SystemIsBelow
      <3>3. i.key.type = Patch
        BY <3>2 DEF OffsetFits
      <3>. QED  BY <3>2, <3>3 DEF Group
    <2>2. ASSUME NEW i \in Group(arrays, Patch, app) PROVE i.key.id = id /\ i \in UserOf(arrays)
      <3>1. i \in UserOf(arrays) /\ AppId(i) = app /\ i.key.type = Patch
        BY DEF Group
      <3>. QED  BY <1>3, <2>0, <3>1 DEF NumberFits
    <2>3. found(id) = Group(arrays, Patch, app)
      BY <1>3, <2>1, <2>2
    <2>. QED  BY <2>3 DEF id
  <1>6. ASSUME NEW t \in LinkedTypes
        PROVE  {i \in UserOf(arrays) : i.key.type = t /\ BelongsTo(app, i.key)}
                 = Group(arrays, t, app)
    <2>1. \A i \in UserOf(arrays) :
            BelongsTo(app, i.key) <=> i.key.type \in LinkedTypes /\ AppId(i) = app
      BY <1>1, BelongsIs
    <2>. QED  BY <2>1 DEF Group
  <1>7. \A id : _titleGetTitleInfoEntryFromStorageByTitleId(arrays, Storages, id) =
                  IF found(id) = {} THEN None ELSE Earliest(found(id))
    BY Zenon DEF _titleGetTitleInfoEntryFromStorageByTitleId
  <1>. HIDE DEF found
  <1>8. /\ _titleGetTitleInfoEntryFromStorageByTitleId(arrays, Storages, app)
             = FirstOf(arrays, Application, app)
        /\ _titleGetTitleInfoEntryFromStorageByTitleId(
             arrays, Storages, titleGetPatchIdByApplicationId(app))
             = FirstOf(arrays, Patch, app)
    BY <1>4, <1>5, <1>7, Zenon DEF FirstOf
  <1>9. AddOnContent \in LinkedTypes /\ DataPatch \in LinkedTypes
    BY DEF LinkedTypes
  <1>10. /\ FirstOfType(AddOnContent, app) = FirstOf(arrays, AddOnContent, app)
         /\ FirstOfType(DataPatch, app) = FirstOf(arrays, DataPatch, app)
    BY <1>6, <1>9, Zenon DEF FirstOf, FirstOfType
  <1>. QED  BY <1>8, <1>10, Zenon DEF _titleGetUserApplicationData

\* The lists of the application: a title each, all of one kind.
ListOf(t, app) == ListFrom(FirstOf(arrays, t, app))

\* Its copies are the lists that start there.
LEMMA CopiesAre ==
  ASSUME Listed(arrays, lists, world), NEW app \in Nat, Place(app) = 0,
         titleIsUserApplicationContentAvailable(arrays, app)
  PROVE  titleGetUserApplicationData(app) =
           [app |-> ListOf(Application, app), patch |-> ListOf(Patch, app),
            aoc |-> ListOf(AddOnContent, app), aoc_patch |-> ListOf(DataPatch, app)]
  <1>. DEFINE d == [app |-> FirstOf(arrays, Application, app),
                    patch |-> FirstOf(arrays, Patch, app),
                    aoc |-> FirstOf(arrays, AddOnContent, app),
                    aoc_patch |-> FirstOf(arrays, DataPatch, app)]
  <1>1. _titleGetUserApplicationData(app) = d
    BY DataIs
  <1>2. titleGetUserApplicationData(app)
          = [f \in DOMAIN d |-> titleDuplicateTitleInfoFull(d[f])]
    BY <1>1, Zenon DEF titleGetUserApplicationData
  <1>3. /\ Application \in LinkedTypes /\ Patch \in LinkedTypes
        /\ AddOnContent \in LinkedTypes /\ DataPatch \in LinkedTypes
    BY DEF LinkedTypes
  <1>4. \A t \in LinkedTypes :
          titleDuplicateTitleInfoFull(FirstOf(arrays, t, app)) = ListOf(t, app)
    BY FromTheFirst DEF ListOf
  <1>5. \A a, b, c, e : LET r == [app |-> a, patch |-> b, aoc |-> c, aoc_patch |-> e]
                        IN [f \in DOMAIN r |-> titleDuplicateTitleInfoFull(r[f])]
                             = [app |-> titleDuplicateTitleInfoFull(a),
                                patch |-> titleDuplicateTitleInfoFull(b),
                                aoc |-> titleDuplicateTitleInfoFull(c),
                                aoc_patch |-> titleDuplicateTitleInfoFull(e)]
    OBVIOUS
  <1>. QED  BY <1>2, <1>3, <1>4, <1>5, Zenon

----------------------------------------------------------------------------
Distinct(s) == \A m, n \in DOMAIN s : s[m] = s[n] => m = n

Joined(q, s, r, S, R) == q \in Seq(S \cup R) /\ Distinct(q) /\ ToSet(q) = ToSet(s) \cup ToSet(r)

\* Two lists without repetition and with nothing in common, one after the other.
LEMMA JoinedLists ==
  ASSUME NEW S, NEW R, NEW s \in Seq(S), NEW r \in Seq(R), S \cap R = {}, Distinct(s),
         Distinct(r)
  PROVE  Joined(s \o r, s, r, S, R)
  <1>. DEFINE q == s \o r
              m == Len(s)
              n == Len(r)
  <1>1. /\ m \in Nat /\ n \in Nat /\ DOMAIN s = 1 .. m /\ DOMAIN r = 1 .. n
        /\ \A x \in 1 .. m : s[x] \in S
        /\ \A x \in 1 .. n : r[x] \in R
    OBVIOUS
  <1>2. q \in Seq(S \cup R)
    <2>1. s \in Seq(S \cup R) /\ r \in Seq(S \cup R)
      OBVIOUS
    <2>. QED  BY <2>1
  <1>3. /\ Len(q) = m + n /\ DOMAIN q = 1 .. m + n
        /\ \A x \in 1 .. m : q[x] = s[x]
        /\ \A x \in 1 .. n : q[m + x] = r[x]
        /\ \A x \in 1 .. m + n : x \in 1 .. m \/ (x - m \in 1 .. n /\ q[x] = r[x - m])
    <2>1. Len(q) = m + n /\ DOMAIN q = 1 .. m + n
      BY <1>1
    <2>2. \A x \in 1 .. m : q[x] = s[x]
      BY <1>1
    <2>3. \A x \in 1 .. m + n : x \in 1 .. m \/ (x - m \in 1 .. n /\ q[x] = r[x - m])
      BY <1>1
    <2>4. \A x \in 1 .. n : m + x \in 1 .. m + n /\ m + x \notin 1 .. m /\ (m + x) - m = x
      BY <1>1
    <2>. HIDE DEF q
    <2>5. \A x \in 1 .. n : q[m + x] = r[x]
      BY <2>3, <2>4
    <2>. QED  BY <2>1, <2>2, <2>3, <2>5
  <1>. HIDE DEF q, m, n
  <1>4. ASSUME NEW x \in 1 .. m + n, NEW y \in 1 .. m + n, q[x] = q[y] PROVE x = y
    <2>1. CASE x \in 1 .. m /\ y \in 1 .. m
      BY <1>1, <1>3, <1>4, <2>1 DEF Distinct
    <2>2. CASE x \in 1 .. m /\ y \notin 1 .. m
      <3>1. q[x] \in S /\ q[y] \in R
        BY <1>1, <1>3, <2>2
      <3>. QED  BY <1>4, <3>1
    <2>3. CASE x \notin 1 .. m /\ y \in 1 .. m
      <3>1. q[x] \in R /\ q[y] \in S
        BY <1>1, <1>3, <2>3
      <3>. QED  BY <1>4, <3>1
    <2>4. CASE x \notin 1 .. m /\ y \notin 1 .. m
      <3>1. x - m \in 1 .. n /\ y - m \in 1 .. n /\ r[x - m] = r[y - m]
        BY <1>3, <1>4, <2>4
      <3>2. x - m = y - m
        BY <1>1, <3>1 DEF Distinct
      <3>. QED  BY <1>1, <3>2
    <2>. QED  BY <2>1, <2>2, <2>3, <2>4
  <1>5. ToSet(q) = ToSet(s) \cup ToSet(r)
    <2>1. ASSUME NEW v, v \in ToSet(q) PROVE v \in ToSet(s) \cup ToSet(r)
      <3>1. PICK x \in 1 .. m + n : v = q[x]
        BY <1>3, <2>1 DEF ToSet
      <3>. QED  BY <1>1, <1>3, <3>1 DEF ToSet
    <2>2. ASSUME NEW v, v \in ToSet(s) PROVE v \in ToSet(q)
      <3>1. PICK x \in 1 .. m : v = s[x]
        BY <1>1, <2>2 DEF ToSet
      <3>2. x \in 1 .. m + n
        BY <1>1
      <3>. QED  BY <1>3, <3>1, <3>2 DEF ToSet
    <2>3. ASSUME NEW v, v \in ToSet(r) PROVE v \in ToSet(q)
      <3>1. PICK x \in 1 .. n : v = r[x]
        BY <1>1, <2>3 DEF ToSet
      <3>2. m + x \in 1 .. m + n
        BY <1>1
      <3>. QED  BY <1>3, <3>1, <3>2 DEF ToSet
    <2>. QED  BY <2>1, <2>2, <2>3
  <1>6. Distinct(q)
    BY <1>3, <1>4 DEF Distinct
  <1>. QED  BY <1>2, <1>5, <1>6 DEF q, Joined

\* The list of one type: no repetition, nothing foreign, no linked sibling missing.
LEMMA ListOfIs ==
  ASSUME Listed(arrays, lists, world), NEW t \in LinkedTypes, NEW app
  PROVE  /\ ListOf(t, app) \in Seq(Group(arrays, t, app)) /\ Distinct(ListOf(t, app))
         /\ Kept(arrays, lists, t, app) \subseteq ToSet(ListOf(t, app))
         /\ ToSet(ListOf(t, app)) \subseteq Group(arrays, t, app)
  <1>. DEFINE G == Group(arrays, t, app)
              l == ListOf(t, app)
  <1>1. /\ l \in Seq(G) /\ \A m, n \in 1 .. Len(l) : m < n => Visits(l[m], l[n])
        /\ Kept(arrays, lists, t, app) \subseteq ToSet(l)
    BY FromTheFirst DEF ListOf
  <1>2. \A a, b \in G : Visits(a, b) => a # b
    BY GroupsAre
  <1>. HIDE DEF G, l
  <1>3. Distinct(l)
    <2>1. Len(l) \in Nat /\ DOMAIN l = 1 .. Len(l) /\ \A m \in 1 .. Len(l) : l[m] \in G
      BY <1>1
    <2>2. \A m, n \in 1 .. Len(l) : m < n => l[m] # l[n]
      BY <1>1, <1>2, <2>1
    <2>3. \A m, n \in 1 .. Len(l) : m = n \/ m < n \/ n < m
      OBVIOUS
    <2>. QED  BY <2>1, <2>2, <2>3 DEF Distinct
  <1>4. ToSet(l) \subseteq G
    BY <1>1 DEF ToSet
  <1>. QED  BY <1>1, <1>3, <1>4 DEF G, l

\* The lists of one application put together.
LEMMA AllLists ==
  ASSUME Listed(arrays, lists, world), NEW app
  PROVE  LET all == ListOf(Application, app) \o ListOf(Patch, app)
                      \o ListOf(AddOnContent, app) \o ListOf(DataPatch, app)
             aocs == ListOf(AddOnContent, app) \o ListOf(DataPatch, app)
         IN  /\ Distinct(all)
             /\ \A t \in LinkedTypes : Kept(arrays, lists, t, app) \subseteq ToSet(all)
             /\ all \in Seq(UserOf(arrays))
             /\ ToSet(aocs)
                  = ToSet(ListOf(AddOnContent, app)) \cup ToSet(ListOf(DataPatch, app))
  <1>. DEFINE A == ListOf(Application, app)
              P == ListOf(Patch, app)
              C == ListOf(AddOnContent, app)
              D == ListOf(DataPatch, app)
              GA == Group(arrays, Application, app)
              GP == Group(arrays, Patch, app)
              GC == Group(arrays, AddOnContent, app)
              GD == Group(arrays, DataPatch, app)
  <1>1. \A t \in LinkedTypes :
          /\ ListOf(t, app) \in Seq(Group(arrays, t, app)) /\ Distinct(ListOf(t, app))
          /\ Kept(arrays, lists, t, app) \subseteq ToSet(ListOf(t, app))
    BY ListOfIs
  <1>2. /\ A \in Seq(GA) /\ Distinct(A) /\ P \in Seq(GP) /\ Distinct(P)
        /\ C \in Seq(GC) /\ Distinct(C) /\ D \in Seq(GD) /\ Distinct(D)
    BY <1>1, Zenon DEF LinkedTypes
  <1>3. /\ GA \cap GP = {} /\ (GA \cup GP) \cap GC = {} /\ (GA \cup GP \cup GC) \cap GD = {}
        /\ GC \cap GD = {}
    BY DEF Group, Application, Patch, AddOnContent, DataPatch
  <1>4. GA \cup GP \cup GC \cup GD \subseteq UserOf(arrays)
    BY DEF Group
  <1>5. \A t \in LinkedTypes :
          Kept(arrays, lists, t, app) \subseteq ToSet(A) \cup ToSet(P) \cup ToSet(C) \cup ToSet(D)
    BY <1>1, Zenon DEF LinkedTypes
  <1>. HIDE DEF A, P, C, D, GA, GP, GC, GD
  <1>. DEFINE AP == A \o P
              GAP == GA \cup GP
              APC == AP \o C
              GAPC == GAP \cup GC
              all == APC \o D
              aocs == C \o D
  <1>6. AP \in Seq(GAP) /\ Distinct(AP) /\ ToSet(AP) = ToSet(A) \cup ToSet(P)
    <2>1. Joined(AP, A, P, GA, GP)
      BY <1>2, <1>3, JoinedLists, Zenon
    <2>. HIDE DEF AP
    <2>. QED  BY <2>1, Zenon DEF Joined
  <1>. HIDE DEF AP
  <1>7. APC \in Seq(GAPC) /\ Distinct(APC) /\ ToSet(APC) = ToSet(AP) \cup ToSet(C)
    <2>1. GAP \cap GC = {}
      BY <1>3
    <2>. HIDE DEF GAP
    <2>2. Joined(APC, AP, C, GAP, GC)
      BY <1>2, <1>6, <2>1, JoinedLists, Zenon
    <2>. HIDE DEF APC
    <2>. QED  BY <2>2, Zenon DEF Joined
  <1>. HIDE DEF APC
  <1>8. all \in Seq(GAPC \cup GD) /\ Distinct(all) /\ ToSet(all) = ToSet(APC) \cup ToSet(D)
    <2>1. GAPC \cap GD = {}
      BY <1>3
    <2>. HIDE DEF GAPC
    <2>2. Joined(all, APC, D, GAPC, GD)
      BY <1>2, <1>7, <2>1, JoinedLists, Zenon
    <2>. HIDE DEF all
    <2>. QED  BY <2>2, Zenon DEF Joined
  <1>9. ToSet(aocs) = ToSet(C) \cup ToSet(D)
    <2>1. Joined(aocs, C, D, GC, GD)
      BY <1>2, <1>3, JoinedLists, Zenon
    <2>. HIDE DEF aocs
    <2>. QED  BY <2>1, Zenon DEF Joined
  <1>10. GAPC \cup GD \subseteq UserOf(arrays)
    BY <1>4
  <1>. HIDE DEF AP, GAP, APC, GAPC, all, aocs
  <1>11. all \in Seq(UserOf(arrays))
    BY <1>8, <1>10
  <1>12. \A t \in LinkedTypes : Kept(arrays, lists, t, app) \subseteq ToSet(all)
    BY <1>5, <1>6, <1>7, <1>8
  <1>. QED  BY <1>8, <1>9, <1>11, <1>12, Zenon DEF A, P, C, D, AP, APC, all, aocs

----------------------------------------------------------------------------
\* The titles with the number that goes with an add-on content's.
CopyStep(id, G, c, out, j) ==
  IF j.key.id # id THEN out ELSE IF Len(out) < 2 THEN Append(out, j) ELSE <<out[1], j>>
Copied(id, G, c, k, out) == out \in Seq(G)
Copies == INSTANCE Folding WITH op <- CopyStep, Inv <- Copied

CopyAll(id, list) ==
  FoldLeft(LAMBDA out, j : IF j.key.id # id THEN out
                           ELSE IF Len(out) < 2 THEN Append(out, j) ELSE <<out[1], j>>,
           <<>>, list)

\* Copying by id keeps to the list that is copied.
LEMMA CopiedStays ==
  ASSUME NEW id, NEW G, NEW list \in Seq(G)
  PROVE  CopyAll(id, list) \in Seq(G)
  <1>. DEFINE n == Len(list)
  <1>1. n \in Nat /\ DOMAIN list = 1 .. n /\ \A k \in 1 .. n : list[k] \in G
    OBVIOUS
  <1>. HIDE DEF n
  <1>2. Copied(id, G, 0, 0, <<>>)
    BY DEF Copied
  <1>3. \A k \in 1 .. n : \A v :
          Copied(id, G, 0, k - 1, v) => Copied(id, G, 0, k, CopyStep(id, G, 0, v, list[k]))
    <2>. SUFFICES ASSUME NEW k \in 1 .. n, NEW v \in Seq(G)
                  PROVE  CopyStep(id, G, 0, v, list[k]) \in Seq(G)
      BY DEF Copied
    <2>. DEFINE j == list[k]
    <2>1. j \in G
      BY <1>1
    <2>. HIDE DEF j
    <2>2. Append(v, j) \in Seq(G)
      BY <2>1
    <2>3. ~(Len(v) < 2) => <<v[1], j>> \in Seq(G)
      BY <2>1
    <2>4. /\ CopyStep(id, G, 0, v, j) \in {v, Append(v, j), <<v[1], j>>}
          /\ (CopyStep(id, G, 0, v, j) = <<v[1], j>> => CopyStep(id, G, 0, v, j) \in Seq(G))
      BY <2>2, <2>3 DEF CopyStep
    <2>. QED  BY <2>2, <2>4 DEF j
  <1>4. Copied(id, G, 0, n, Copies!Folded(id, G, 0, <<>>, list))
    BY <1>1, <1>2, <1>3, Copies!FoldKeeps
  <1>5. Copies!Folded(id, G, 0, <<>>, list)
          = CopyAll(id, list)
    BY Zenon DEF CopyAll, CopyStep, Copies!Folded, FoldLeft, Copies!FoldLeft, MapThenFoldSet,
       Copies!MapThenFoldSet, Max, Copies!Max
  <1>. QED  BY <1>4, <1>5, Zenon DEF Copied

FoundAt(T, sts, id) == {i \in AllOf(T) : i.st \in sts /\ i.key.id = id}

\* A search by id takes the earliest info that has it.
LEMMA EntryIs ==
  ASSUME NEW T, NEW sts, NEW id
  PROVE  _titleGetTitleInfoEntryFromStorageByTitleId(T, sts, id)
           = IF FoundAt(T, sts, id) = {} THEN None ELSE Earliest(FoundAt(T, sts, id))
  BY Zenon DEF FoundAt, _titleGetTitleInfoEntryFromStorageByTitleId

\* A list starts at an info, or is empty.
LEMMA ListFromIs ==
  ASSUME NEW x
  PROVE  ListFrom(x) = IF x = None THEN <<>> ELSE FromNext(x)
  BY Zenon DEF ListFrom

\* It stays within the siblings of that info.
LEMMA ListFromStays ==
  ASSUME Listed(arrays, lists, world), NEW t \in LinkedTypes, NEW app, NEW x,
         x = None \/ x \in Group(arrays, t, app)
  PROVE  ListFrom(x) \in Seq(Group(arrays, t, app))
  <1>1. CASE x = None
    <2>1. ListFrom(x) = <<>>
      BY <1>1, ListFromIs
    <2>. QED  BY <2>1
  <1>2. CASE x # None
    <2>1. x \in Group(arrays, t, app) /\ ListFrom(x) = FromNext(x)
      BY <1>2, ListFromIs
    <2>2. FromNext(x) \in Seq(Group(arrays, t, app))
      BY <2>1, FromNextStays
    <2>. QED  BY <2>1, <2>2
  <1>. QED  BY <1>1, <1>2

\* Titles of one kind only have numbers at the offset.
OnlyAt(q, t) == \A s : OffsetFits(s, q) => s = t

\* The list that is searched for them is of the other kind, of the application.
LEMMA ListByNumber ==
  ASSUME Listed(arrays, lists, world), NEW app \in Nat, Place(app) = 0,
         NEW u \in UserOf(arrays), AppId(u) = app,
         NEW id, NEW q \in Nat, q <= 8191, id = app + q, NEW t \in LinkedTypes, OnlyAt(q, t)
  PROVE  ListFrom(_titleGetTitleInfoEntryFromStorageByTitleId(arrays, Storages, id))
           \in Seq(Group(arrays, t, app))
  <1>. DEFINE found == FoundAt(arrays, Storages, id)
              x == _titleGetTitleInfoEntryFromStorageByTitleId(arrays, Storages, id)
              G == Group(arrays, t, app)
  <1>1. found \subseteq G
    <2>. SUFFICES ASSUME NEW i \in AllOf(arrays), i.key.id = id PROVE i \in G
      BY DEF FoundAt
    <2>1. i \in UserOf(arrays) /\ AppId(i) = app /\ OffsetFits(i.key.type, q)
      BY SystemIsBelow
    <2>. QED  BY <2>1 DEF Group, OnlyAt
  <1>2. x = IF found = {} THEN None ELSE Earliest(found)
    BY EntryIs
  <1>3. found # {} => Earliest(found) \in found
    <2>1. /\ ArraysOK(arrays) /\ found \subseteq AllOf(arrays)
          /\ \A a, b \in G : a.key.type = b.key.type
      BY GroupsAre DEF Listed, FoundAt
    <2>. HIDE DEF found, G
    <2>. QED  BY <1>1, <2>1, EarliestIsFirst
  <1>. HIDE DEF found, x, G
  <1>4. x = None \/ x \in G
    BY <1>1, <1>2, <1>3
  <1>. QED  BY <1>4, ListFromStays DEF x, G

\* The base and the patches of an add-on content are of the same application.
LEMMA OtherIs ==
  ASSUME Listed(arrays, lists, world), NEW app \in Nat, Place(app) = 0,
         NEW i \in UserOf(arrays), AppId(i) = app
  PROVE  /\ i.key.type = AddOnContent =>
              ToSet(titleGetAddOnContentBaseOrPatchList(i)) \subseteq Group(arrays, DataPatch, app)
         /\ i.key.type = DataPatch =>
              ToSet(titleGetAddOnContentBaseOrPatchList(i))
                \subseteq Group(arrays, AddOnContent, app)
  <1>. DEFINE id == IF i.key.type = AddOnContent
                    THEN titleGetDataPatchIdByAddOnContentId(i.key.id)
                    ELSE titleGetAddOnContentIdByDataPatchId(i.key.id)
              list == ListFrom(
                        _titleGetTitleInfoEntryFromStorageByTitleId(arrays, Storages, id))
  <1>1. titleGetAddOnContentBaseOrPatchList(i)
          = CopyAll(id, list)
    BY Zenon DEF CopyAll, titleGetAddOnContentBaseOrPatchList
  <1>2. i.key.id \in Nat /\ NumberFits(i.key, app)
    BY NumberOfInfo DEF Listed
  <1>. DEFINE k == i.key.id
              r == k - app
  <1>3. r \in Nat /\ app + r = k /\ OffsetFits(i.key.type, r)
    BY <1>2, OffsetIs
  <1>4. ASSUME i.key.type = AddOnContent PROVE list \in Seq(Group(arrays, DataPatch, app))
    <2>1. id = k + 2048
      BY <1>4 DEF titleGetDataPatchIdByAddOnContentId, TITLE_PATCH_ID_OFFSET
    <2>. HIDE DEF id, r, k
    <2>2. r \in 4097 .. 6096
      BY <1>3, <1>4 DEF OffsetFits, Application, Patch, AddOnContent, DataPatch, Delta
    <2>. DEFINE q == r + 2048
    <2>3. q \in Nat /\ q <= 8191 /\ id = app + q /\ q \in 6145 .. 8144
      BY <1>3, <2>1, <2>2
    <2>. HIDE DEF q
    <2>4. OnlyAt(q, DataPatch)
      BY <2>3 DEF OffsetFits, OnlyAt
    <2>5. DataPatch \in LinkedTypes
      BY DEF LinkedTypes
    <2>. QED  BY <2>3, <2>4, <2>5, ListByNumber
  <1>5. ASSUME i.key.type = DataPatch PROVE list \in Seq(Group(arrays, AddOnContent, app))
    <2>1. id = k - 2048
      BY <1>5 DEF titleGetAddOnContentIdByDataPatchId, TITLE_PATCH_ID_OFFSET, AddOnContent,
         DataPatch
    <2>. HIDE DEF id, r, k
    <2>2. r \in 6145 .. 8144
      BY <1>3, <1>5 DEF OffsetFits, Application, Patch, AddOnContent, DataPatch, Delta
    <2>. DEFINE q == r - 2048
    <2>3. q \in Nat /\ q <= 8191 /\ id = app + q /\ q \in 4097 .. 6096
      BY <1>3, <2>1, <2>2
    <2>. HIDE DEF q
    <2>4. OnlyAt(q, AddOnContent)
      BY <2>3 DEF OffsetFits, OnlyAt
    <2>5. AddOnContent \in LinkedTypes
      BY DEF LinkedTypes
    <2>. QED  BY <2>3, <2>4, <2>5, ListByNumber
  <1>. HIDE DEF id, list
  <1>6. ASSUME NEW G, list \in Seq(G) PROVE titleGetAddOnContentBaseOrPatchList(i) \in Seq(G)
    BY <1>1, <1>6, CopiedStays, Zenon
  <1>7. \A G, s : s \in Seq(G) => ToSet(s) \subseteq G
    BY DEF ToSet
  <1>. QED  BY <1>4, <1>5, <1>6, <1>7

(***************************************************************************)
(* The copies of an application.                                           *)
(***************************************************************************)

\* What AppDataIsWhole says of an application.
CopiesHold(app) ==
  LET d == titleGetUserApplicationData(app)
      all == d.app \o d.patch \o d.aoc \o d.aoc_patch
  IN /\ \A m, n \in DOMAIN all : all[m] = all[n] => m = n
     /\ {i \in UserOf(arrays) \ lists.orphans : BelongsTo(app, i.key)} \subseteq ToSet(all)
     /\ \A i \in ToSet(d.aoc \o d.aoc_patch) :
          LET other == ToSet(titleGetAddOnContentBaseOrPatchList(i))
          IN other \ lists.orphans \subseteq ToSet(d.aoc \o d.aoc_patch) /\ i \notin other

\* What AppDataIsWhole says, for one application.
LEMMA CopiesOfApplication ==
  ASSUME Listed(arrays, lists, world), NEW app \in Nat, Place(app) = 0,
         titleIsUserApplicationContentAvailable(arrays, app)
  PROVE  CopiesHold(app)
  <1>. DEFINE d == titleGetUserApplicationData(app)
              all == d.app \o d.patch \o d.aoc \o d.aoc_patch
              aocs == d.aoc \o d.aoc_patch
              A == ListOf(Application, app)
              P == ListOf(Patch, app)
              C == ListOf(AddOnContent, app)
              D == ListOf(DataPatch, app)
  <1>1. d.app = A /\ d.patch = P /\ d.aoc = C /\ d.aoc_patch = D
    <2>1. d = [app |-> A, patch |-> P, aoc |-> C, aoc_patch |-> D]
      BY CopiesAre, Zenon
    <2>. HIDE DEF d, A, P, C, D
    <2>. QED  BY <2>1
  <1>2. all = A \o P \o C \o D /\ aocs = C \o D
    <2>. HIDE DEF d, A, P, C, D
    <2>. QED  BY <1>1, Zenon
  <1>3. /\ Distinct(A \o P \o C \o D)
        /\ \A t \in LinkedTypes : Kept(arrays, lists, t, app) \subseteq ToSet(A \o P \o C \o D)
        /\ ToSet(C \o D) = ToSet(C) \cup ToSet(D)
    BY AllLists, Zenon
  <1>4. /\ ToSet(C) \subseteq Group(arrays, AddOnContent, app)
        /\ Kept(arrays, lists, AddOnContent, app) \subseteq ToSet(C)
        /\ ToSet(D) \subseteq Group(arrays, DataPatch, app)
        /\ Kept(arrays, lists, DataPatch, app) \subseteq ToSet(D)
    <2>1. AddOnContent \in LinkedTypes /\ DataPatch \in LinkedTypes
      BY DEF LinkedTypes
    <2>. QED  BY <2>1, ListOfIs
  <1>. HIDE DEF A, P, C, D, d
  <1>5. /\ Distinct(all)
        /\ \A t \in LinkedTypes : Kept(arrays, lists, t, app) \subseteq ToSet(all)
        /\ ToSet(aocs) = ToSet(C) \cup ToSet(D)
    BY <1>2, <1>3, Zenon
  <1>. HIDE DEF all, aocs
  <1>6. {i \in UserOf(arrays) \ lists.orphans : BelongsTo(app, i.key)} \subseteq ToSet(all)
    <2>. SUFFICES ASSUME NEW i \in UserOf(arrays) \ lists.orphans, BelongsTo(app, i.key)
                  PROVE  i \in ToSet(all)
      OBVIOUS
    <2>1. i.key.type \in LinkedTypes /\ AppId(i) = app
      BY BelongsIs DEF Listed
    <2>2. i \in Kept(arrays, lists, i.key.type, app)
      BY <2>1 DEF Kept, Group
    <2>. QED  BY <1>5, <2>1, <2>2
  <1>7. ASSUME NEW i \in ToSet(aocs)
        PROVE  LET other == ToSet(titleGetAddOnContentBaseOrPatchList(i))
               IN other \ lists.orphans \subseteq ToSet(aocs) /\ i \notin other
    <2>. DEFINE other == ToSet(titleGetAddOnContentBaseOrPatchList(i))
    <2>1. i \in Group(arrays, AddOnContent, app) \/ i \in Group(arrays, DataPatch, app)
      BY <1>4, <1>5, <1>7
    <2>2. i \in UserOf(arrays) /\ AppId(i) = app
      BY <2>1 DEF Group
    <2>3. /\ i.key.type = AddOnContent => other \subseteq Group(arrays, DataPatch, app)
          /\ i.key.type = DataPatch => other \subseteq Group(arrays, AddOnContent, app)
      BY <2>2, OtherIs
    <2>. HIDE DEF other
    <2>4. CASE i \in Group(arrays, AddOnContent, app)
      <3>1. i.key.type = AddOnContent /\ other \subseteq Group(arrays, DataPatch, app)
        BY <2>3, <2>4 DEF Group
      <3>2. other \ lists.orphans \subseteq ToSet(aocs)
        BY <1>4, <1>5, <3>1 DEF Kept
      <3>3. i \notin other
        BY <3>1 DEF Group, AddOnContent, DataPatch
      <3>. QED  BY <3>2, <3>3 DEF other
    <2>5. CASE i \in Group(arrays, DataPatch, app)
      <3>1. i.key.type = DataPatch /\ other \subseteq Group(arrays, AddOnContent, app)
        BY <2>3, <2>5 DEF Group
      <3>2. other \ lists.orphans \subseteq ToSet(aocs)
        BY <1>4, <1>5, <3>1 DEF Kept
      <3>3. i \notin other
        BY <3>1 DEF Group, AddOnContent, DataPatch
      <3>. QED  BY <3>2, <3>3 DEF other
    <2>. QED  BY <2>1, <2>4, <2>5
  <1>. QED  BY <1>5, <1>6, <1>7, Zenon DEF CopiesHold, d, all, aocs, Distinct

(***************************************************************************)
(* The records of the CSV.                                                 *)
(***************************************************************************)

\* The sequence that is made of a finite set has all of its elements.
LEMMA SeqHasAll ==
  ASSUME NEW S, IsFiniteSet(S)
  PROVE  SetToSeq(S) \in Seq(S) /\ ToSet(SetToSeq(S)) = S
  <1>. DEFINE n == Cardinality(S)
              q == SetToSeq(S)
  <1>1. n \in Nat /\ ExistsBijection(1 .. n, S)
    BY FS_CardinalityType
  <1>2. \E f \in [1 .. n -> S] : IsInjective(f)
    <2>1. PICK f \in Bijection(1 .. n, S) : TRUE
      BY <1>1 DEF ExistsBijection
    <2>2. f \in [1 .. n -> S] /\ IsInjective(f)
      BY <2>1 DEF Bijection, Injection, IsInjective
    <2>. QED  BY <2>2
  <1>3. q \in [1 .. n -> S] /\ IsInjective(q)
    BY <1>2, Zenon DEF SetToSeq
  <1>. HIDE DEF q
  <1>4. IsFiniteSet(1 .. n) /\ Cardinality(1 .. n) = n
    <2>. HIDE DEF n
    <2>. QED  BY <1>1, FS_Interval
  <1>5. q \in Surjection(1 .. n, S)
    <2>1. q \in Injection(1 .. n, S)
      BY <1>3, Zenon DEF Injection, IsInjective
    <2>. QED  BY <1>4, <2>1, FS_Injection
  <1>. HIDE DEF n
  <1>6. ToSet(q) = S
    <2>1. \A y \in S : \E x \in 1 .. n : q[x] = y
      BY <1>5 DEF Surjection
    <2>. QED  BY <1>3, <2>1 DEF ToSet
  <1>. QED  BY <1>1, <1>3, <1>6 DEF q

\* Appending misses nothing.
LEMMA AppendedAll ==
  ASSUME NEW S, NEW s \in Seq(S), NEW x \in S
  PROVE  Append(s, x) \in Seq(S) /\ ToSet(Append(s, x)) = ToSet(s) \cup {x}
  <1>. DEFINE q == Append(s, x)
              n == Len(s)
  <1>1. n \in Nat /\ DOMAIN s = 1 .. n /\ q \in Seq(S) /\ DOMAIN q = 1 .. n + 1 /\ q[n + 1] = x
        /\ \A k \in 1 .. n : q[k] = s[k]
    OBVIOUS
  <1>. HIDE DEF q, n
  <1>2. \A k : k \in 1 .. n + 1 <=> k \in 1 .. n \/ k = n + 1
    BY <1>1
  <1>. QED  BY <1>1, <1>2 DEF ToSet, q

\* Neither does joining.
LEMMA JoinedAll ==
  ASSUME NEW S, NEW s \in Seq(S), NEW r \in Seq(S)
  PROVE  ToSet(s) \cup ToSet(r) \subseteq ToSet(s \o r)
  <1>. DEFINE q == s \o r
              m == Len(s)
              n == Len(r)
  <1>1. /\ m \in Nat /\ n \in Nat /\ DOMAIN s = 1 .. m /\ DOMAIN r = 1 .. n
        /\ DOMAIN q = 1 .. m + n
    OBVIOUS
  <1>2. \A k \in 1 .. m : q[k] = s[k] /\ k \in 1 .. m + n
    BY <1>1
  <1>3. \A k \in 1 .. m + n : k \in 1 .. m \/ q[k] = r[k - m]
    BY <1>1
  <1>. HIDE DEF q, m, n
  <1>4. \A k \in 1 .. n : k + m \in 1 .. m + n /\ k + m \notin 1 .. m /\ (k + m) - m = k
    BY <1>1
  <1>5. \A k \in 1 .. n : q[k + m] = r[k] /\ k + m \in 1 .. m + n
    BY <1>3, <1>4
  <1>. QED  BY <1>1, <1>2, <1>5 DEF ToSet, q

----------------------------------------------------------------------------
\* The rows of one list, after those that are there.
AddRow(S, base, seq, rows, i) == IF i.st # GameCard \/ TRUE THEN Append(rows, i) ELSE rows
HasRows(S, base, seq, k, rows) ==
  /\ rows \in Seq(S) /\ ToSet(base) \subseteq ToSet(rows)
  /\ \A m \in 1 .. k : seq[m] \in ToSet(rows)
RowsOfList == INSTANCE Folding WITH op <- AddRow, Inv <- HasRows

ListRows(base, seq) ==
  FoldLeft(LAMBDA rows, i : IF i.st # GameCard \/ TRUE THEN Append(rows, i) ELSE rows,
           base, seq)

\* The rows of a list are those before it and all of its own.
LEMMA ListRowsAre ==
  ASSUME NEW S, NEW base \in Seq(S), NEW seq \in Seq(S)
  PROVE  /\ ListRows(base, seq) \in Seq(S)
         /\ ToSet(base) \cup ToSet(seq) \subseteq ToSet(ListRows(base, seq))
  <1>. DEFINE n == Len(seq)
  <1>1. n \in Nat /\ DOMAIN seq = 1 .. n /\ \A k \in 1 .. n : seq[k] \in S
    OBVIOUS
  <1>. HIDE DEF n
  <1>2. HasRows(S, base, seq, 0, base)
    BY DEF HasRows
  <1>3. ASSUME NEW k \in 1 .. n, NEW v, HasRows(S, base, seq, k - 1, v)
        PROVE  HasRows(S, base, seq, k, AddRow(S, base, seq, v, seq[k]))
    <2>. DEFINE x == seq[k]
                q == Append(v, x)
    <2>1. x \in S /\ v \in Seq(S) /\ ToSet(base) \subseteq ToSet(v)
      BY <1>1, <1>3 DEF HasRows
    <2>2. AddRow(S, base, seq, v, x) = q
      BY DEF AddRow
    <2>3. q \in Seq(S) /\ ToSet(q) = ToSet(v) \cup {x}
      <3>. HIDE DEF x
      <3>. QED  BY <2>1, AppendedAll
    <2>4. \A m \in 1 .. k : m \in 1 .. k - 1 \/ m = k
      BY <1>1
    <2>5. \A m \in 1 .. k : seq[m] \in ToSet(v) \cup {x}
      BY <1>3, <2>4 DEF HasRows
    <2>. HIDE DEF q
    <2>. QED  BY <2>1, <2>2, <2>3, <2>5 DEF HasRows
  <1>4. HasRows(S, base, seq, n, RowsOfList!Folded(S, base, seq, base, seq))
    <2>1. \A k \in 1 .. n : \A v :
            HasRows(S, base, seq, k - 1, v)
              => HasRows(S, base, seq, k, AddRow(S, base, seq, v, seq[k]))
      BY <1>3
    <2>. QED  BY <1>1, <1>2, <2>1, RowsOfList!FoldKeeps
  <1>5. RowsOfList!Folded(S, base, seq, base, seq) = ListRows(base, seq)
    BY Zenon DEF ListRows, AddRow, RowsOfList!Folded, FoldLeft, RowsOfList!FoldLeft,
       MapThenFoldSet,
       RowsOfList!MapThenFoldSet, Max, RowsOfList!Max
  <1>6. HasRows(S, base, seq, n, ListRows(base, seq))
    BY <1>4, <1>5, Zenon
  <1>. QED  BY <1>1, <1>6 DEF HasRows, ToSet

----------------------------------------------------------------------------
\* The rows of each application, after those that are there.
AppRows(app) ==
  LET d == _titleGetUserApplicationData(app)
  IN ListFrom(d.app) \o ListFrom(d.patch) \o ListFrom(d.aoc) \o ListFrom(d.aoc_patch)
AddRows(S, b, seq, rows, app) == ListRows(rows, AppRows(app))
HasLists(S, b, seq, k, rows) ==
  rows \in Seq(S) /\ \A m \in 1 .. k : ToSet(AppRows(seq[m])) \subseteq ToSet(rows)
RowsOfAll == INSTANCE Folding WITH op <- AddRows, Inv <- HasLists

AllRows(apps) == FoldLeft(LAMBDA rows, app : ListRows(rows, AppRows(app)), <<>>, apps)

\* The records are those of the applications, then those of the orphans.
LEMMA RowsAre ==
  titleGenerateTitleRecordsCsv(TRUE)
    = AllRows(SetToSeq(filtered.user)) \o SetToSeq(lists.orphans)
  BY Zenon DEF titleGenerateTitleRecordsCsv, AllRows, ListRows, AppRows

\* The rows of every application are among the records.
LEMMA AllRowsAre ==
  ASSUME NEW S, NEW apps, NEW n \in Nat, DOMAIN apps = 1 .. n,
         \A k \in 1 .. n : AppRows(apps[k]) \in Seq(S)
  PROVE  /\ AllRows(apps) \in Seq(S)
         /\ \A k \in 1 .. n : ToSet(AppRows(apps[k])) \subseteq ToSet(AllRows(apps))
  <1>2. HasLists(S, 0, apps, 0, <<>>)
    BY DEF HasLists
  <1>3. ASSUME NEW k \in 1 .. n, NEW v, HasLists(S, 0, apps, k - 1, v)
        PROVE  HasLists(S, 0, apps, k, AddRows(S, 0, apps, v, apps[k]))
    <2>. DEFINE x == AppRows(apps[k])
                q == ListRows(v, x)
    <2>1. x \in Seq(S) /\ v \in Seq(S)
      BY <1>3 DEF HasLists
    <2>2. AddRows(S, 0, apps, v, apps[k]) = q
      BY DEF AddRows
    <2>3. q \in Seq(S) /\ ToSet(v) \cup ToSet(x) \subseteq ToSet(q)
      <3>. HIDE DEF x
      <3>. QED  BY <2>1, ListRowsAre
    <2>4. \A m \in 1 .. k : m \in 1 .. k - 1 \/ m = k
      OBVIOUS
    <2>. HIDE DEF q
    <2>5. \A m \in 1 .. k : ToSet(AppRows(apps[m])) \subseteq ToSet(q)
      <3>1. \A m \in 1 .. k - 1 : ToSet(AppRows(apps[m])) \subseteq ToSet(v)
        BY <1>3 DEF HasLists
      <3>. QED  BY <2>3, <2>4, <3>1
    <2>. QED  BY <2>2, <2>3, <2>5 DEF HasLists
  <1>4. HasLists(S, 0, apps, n, RowsOfAll!Folded(S, 0, apps, <<>>, apps))
    <2>1. \A k \in 1 .. n : \A v :
            HasLists(S, 0, apps, k - 1, v)
              => HasLists(S, 0, apps, k, AddRows(S, 0, apps, v, apps[k]))
      BY <1>3
    <2>. QED  BY <1>2, <2>1, RowsOfAll!FoldKeeps
  <1>5. RowsOfAll!Folded(S, 0, apps, <<>>, apps) = AllRows(apps)
    BY Zenon DEF AllRows, AddRows, RowsOfAll!Folded, FoldLeft, RowsOfAll!FoldLeft,
       MapThenFoldSet,
       RowsOfAll!MapThenFoldSet, Max, RowsOfAll!Max
  <1>6. HasLists(S, 0, apps, n, AllRows(apps))
    BY <1>4, <1>5, Zenon
  <1>. QED  BY <1>6 DEF HasLists

\* Those of an application have every linked sibling.
LEMMA AppRowsAre ==
  ASSUME Listed(arrays, lists, world), NEW app \in Nat, Place(app) = 0,
         titleIsUserApplicationContentAvailable(arrays, app)
  PROVE  /\ AppRows(app) \in Seq(UserOf(arrays))
         /\ \A t \in LinkedTypes : Kept(arrays, lists, t, app) \subseteq ToSet(AppRows(app))
  <1>. DEFINE A == ListOf(Application, app)
              P == ListOf(Patch, app)
              C == ListOf(AddOnContent, app)
              D == ListOf(DataPatch, app)
              d == _titleGetUserApplicationData(app)
  <1>1. d = [app |-> FirstOf(arrays, Application, app), patch |-> FirstOf(arrays, Patch, app),
             aoc |-> FirstOf(arrays, AddOnContent, app),
             aoc_patch |-> FirstOf(arrays, DataPatch, app)]
    BY DataIs
  <1>. HIDE DEF d
  <1>2. /\ d.app = FirstOf(arrays, Application, app) /\ d.patch = FirstOf(arrays, Patch, app)
        /\ d.aoc = FirstOf(arrays, AddOnContent, app)
        /\ d.aoc_patch = FirstOf(arrays, DataPatch, app)
    BY <1>1
  <1>3. /\ ListFrom(d.app) = A /\ ListFrom(d.patch) = P /\ ListFrom(d.aoc) = C
        /\ ListFrom(d.aoc_patch) = D
    BY <1>2, Zenon DEF ListOf
  <1>. HIDE DEF A, P, C, D
  <1>4. AppRows(app) = A \o P \o C \o D
    BY <1>3, Zenon DEF AppRows, d
  <1>5. /\ A \o P \o C \o D \in Seq(UserOf(arrays))
        /\ \A t \in LinkedTypes : Kept(arrays, lists, t, app) \subseteq ToSet(A \o P \o C \o D)
    BY AllLists, Zenon DEF A, P, C, D
  <1>. QED  BY <1>4, <1>5, Zenon

\* Every title with metadata is of an application that has an entry.
MetaKnown(T, M, U) == \A i \in M \cap UserOf(T) : AppId(i) \in U

\* The entries are of applications.
AppsOK(U) == IsFiniteSet(U) /\ \A app \in U : app \in Nat /\ Place(app) = 0

\* No title of the user that has metadata or is an orphan is without a row.
LEMMA NoRowMissing ==
  ASSUME Listed(arrays, lists, world), MetaKnown(arrays, lists.md, userMeta), AppsOK(userMeta),
         filtered.user = FilteredUser(arrays, userMeta),
         NEW i \in UserOf(arrays), i \in lists.md \cup lists.orphans
  PROVE  i \in ToSet(titleGenerateTitleRecordsCsv(TRUE))
  <1>. DEFINE S == UserOf(arrays)
              F == filtered.user
              apps == SetToSeq(F)
              n == Cardinality(F)
              O == SetToSeq(lists.orphans)
              R == AllRows(apps)
  <1>1. \A app \in F :
          app \in Nat /\ Place(app) = 0 /\ titleIsUserApplicationContentAvailable(arrays, app)
    BY DEF AppsOK, FilteredUser
  <1>2. F \subseteq userMeta /\ IsFiniteSet(F)
    <2>1. F \subseteq userMeta
      BY DEF FilteredUser
    <2>. QED  BY <2>1, FS_Subset DEF AppsOK
  <1>3. apps \in Seq(F) /\ ToSet(apps) = F
    BY <1>2, SeqHasAll
  <1>4. lists.orphans \subseteq S /\ IsFiniteSet(lists.orphans)
    <2>1. lists.orphans \subseteq S
      BY DEF Listed, ListsOK
    <2>2. S \subseteq AllOf(arrays) /\ IsFiniteSet(AllOf(arrays))
      BY AllInfos DEF Listed
    <2>. QED  BY <2>1, <2>2, FS_Subset
  <1>5. O \in Seq(S) /\ ToSet(O) = lists.orphans
    <2>1. O \in Seq(lists.orphans) /\ ToSet(O) = lists.orphans
      BY <1>4, SeqHasAll
    <2>. HIDE DEF O, S
    <2>. QED  BY <1>4, <2>1
  <1>. DEFINE m == Len(apps)
  <1>6. m \in Nat /\ DOMAIN apps = 1 .. m /\ \A k \in 1 .. m : apps[k] \in F
    <2>. HIDE DEF apps, F
    <2>. QED  BY <1>3
  <1>7. \A app \in F :
          /\ AppRows(app) \in Seq(S)
          /\ \A t \in LinkedTypes : Kept(arrays, lists, t, app) \subseteq ToSet(AppRows(app))
    BY <1>1, AppRowsAre
  <1>. HIDE DEF apps, m, F, S, O
  <1>8. R \in Seq(S) /\ \A k \in 1 .. m : ToSet(AppRows(apps[k])) \subseteq ToSet(R)
    BY <1>6, <1>7, AllRowsAre
  <1>. HIDE DEF R
  <1>9. ToSet(R) \cup ToSet(O) \subseteq ToSet(titleGenerateTitleRecordsCsv(TRUE))
    <2>1. titleGenerateTitleRecordsCsv(TRUE) = R \o O
      BY RowsAre, Zenon DEF R, O, apps, F
    <2>2. ToSet(R) \cup ToSet(O) \subseteq ToSet(R \o O)
      BY <1>5, <1>8, JoinedAll
    <2>. QED  BY <2>1, <2>2
  <1>10. CASE i \in lists.orphans
    BY <1>5, <1>9, <1>10
  <1>11. CASE i \notin lists.orphans
    <2>1. i \in lists.md
      BY <1>11
    <2>2. AppId(i) \in userMeta
      BY <2>1 DEF MetaKnown, S
    <2>3. LinkedType(i.key)
      BY <1>11, Zenon DEF Listed, ListsOK, IsOrphan, S
    <2>4. i.key.type \in LinkedTypes
      BY <2>3 DEF LinkedType, LinkedTypes
    <2>5. BelongsTo(AppId(i), i.key)
      BY <2>2, <2>4, BelongsIs DEF Listed, AppsOK
    <2>6. AppId(i) \in F
      BY <2>2, <2>5 DEF F, FilteredUser, titleIsUserApplicationContentAvailable
    <2>7. i \in Kept(arrays, lists, i.key.type, AppId(i))
      BY <1>11, <2>4 DEF Kept, Group
    <2>8. i \in ToSet(AppRows(AppId(i)))
      BY <1>7, <2>4, <2>6, <2>7
    <2>9. PICK k \in 1 .. m : apps[k] = AppId(i)
      BY <1>3, <1>6, <2>6 DEF ToSet
    <2>. QED  BY <1>8, <1>9, <2>8, <2>9
  <1>. QED  BY <1>10, <1>11

(***************************************************************************)
(* What a step must keep.                                                  *)
(***************************************************************************)

\* What every getter relies on: the keys, the metadata and the lists go together.
TitlesGoTogether(T, L, U, w) ==
  KeysOK(T, w) /\ MetaKnown(T, L.md, U) /\ MetaAgrees(T, L.md) /\ AppsOK(U) /\ ListsOK(T, L)

\* The application a title inherits its metadata from is its own.
LEMMA ParentIs ==
  ASSUME NEW T, ArraysOK(T), NEW w, KeysOK(T, w), NEW i \in UserOf(T), ParentOf(T, i) # None
  PROVE  ParentOf(T, i) \in UserOf(T) /\ AppId(ParentOf(T, i)) = AppId(i)
  <1>. DEFINE found == FoundAt(T, Storages, AppId(i))
  <1>1. ParentOf(T, i) = IF found = {} THEN None ELSE Earliest(found)
    <2>1. ParentOf(T, i) = _titleGetTitleInfoEntryFromStorageByTitleId(T, Storages, AppId(i))
      BY Zenon DEF ParentOf, AppId
    <2>. QED  BY <2>1, EntryIs
  <1>2. AppId(i) \in Nat /\ Place(AppId(i)) = 0 /\ UserKey(w, i.key)
    BY NumberOfInfo DEF NumberFits, KeysOK
  <1>3. ASSUME NEW j \in found
        PROVE  /\ j \in UserOf(T) /\ AppId(j) = AppId(i) /\ j.key.type = Application
               /\ j \in AllOf(T)
    <2>1. j \in AllOf(T) /\ j.key.id = AppId(i)
      BY DEF FoundAt
    <2>2. j \in UserOf(T)
      <3>. SUFFICES ASSUME j \in T[BuiltInSystem] PROVE FALSE
        BY <2>1 DEF UserOf
      <3>1. j.key \in w.sys
        BY DEF KeysOK
      <3>2. j.key.id < AppId(i)
        BY <1>2, <3>1 DEF UserKey, AppId
      <3>. QED  BY <1>2, <2>1, <3>2
    <2>3. AppId(j) = AppId(i) /\ OffsetFits(j.key.type, 0)
      <3>1. 0 \in Nat /\ 0 <= 8191 /\ j.key.id = AppId(i) + 0
        BY <1>2, <2>1
      <3>. QED  BY <1>2, <2>2, <3>1, KindIs
    <2>4. j.key.type = Application
      BY <2>3 DEF OffsetFits
    <2>. QED  BY <2>1, <2>2, <2>3, <2>4
  <1>. HIDE DEF found
  <1>4. found # {}
    BY <1>1
  <1>5. Earliest(found) \in found
    <2>1. found \subseteq AllOf(T) /\ \A a, b \in found : a.key.type = b.key.type
      BY <1>3
    <2>. QED  BY <1>4, <2>1, EarliestIsFirst
  <1>. QED  BY <1>1, <1>3, <1>4, <1>5

\* Linking a set of titles whose metadata goes together makes lists that do.
LEMMA RelinkedGoTogether ==
  ASSUME NEW T, ArraysOK(T), NEW w, KeysOK(T, w), NEW M, NEW U, MetaKnown(T, M, U),
         MetaAgrees(T, M), AppsOK(U)
  PROVE  /\ TitlesGoTogether(T, Relinked(T, M), U, w)
         /\ M \cap AllOf(T) \subseteq Relinked(T, M).md
  <1>. DEFINE orphaned == {i \in UserOf(T) : IsOrphan(T, M, i)}
              inherits == {i \in UserOf(T) \ (orphaned \cup M) :
                             i.key.type # Application /\ ParentOf(T, i) \in M}
              linked == UserOf(T) \ orphaned
              p == [i \in AllOf(T) |-> IF i \in linked THEN PreviousOf(T, i) ELSE None]
              md == (M \cup inherits) \cap AllOf(T)
              L == Relinked(T, M)
  <1>1. L.md = md /\ L.orphans = orphaned /\ L.previous = p
    BY DEF Relinked
  <1>2. UserOf(T) \subseteq AllOf(T)
    BY AllInfos
  <1>. HIDE DEF L
  <1>3. ASSUME NEW i \in inherits
        PROVE  /\ i \in UserOf(T) /\ LinkedType(i.key) /\ ParentOf(T, i) # None
               /\ ParentOf(T, i) \in UserOf(T) /\ AppId(ParentOf(T, i)) = AppId(i)
               /\ AppId(i) \in U
    <2>1. /\ i \in UserOf(T) /\ i \notin M /\ ~IsOrphan(T, M, i) /\ i.key.type # Application
          /\ ParentOf(T, i) \in M
      OBVIOUS
    <2>2. LinkedType(i.key) /\ ParentOf(T, i) # None
      BY <2>1, Zenon DEF IsOrphan
    <2>3. ParentOf(T, i) \in UserOf(T) /\ AppId(ParentOf(T, i)) = AppId(i)
      BY <2>1, <2>2, ParentIs
    <2>4. AppId(i) \in U
      BY <2>1, <2>3 DEF MetaKnown
    <2>. QED  BY <2>1, <2>2, <2>3, <2>4
  <1>4. \A i \in UserOf(T) : IsOrphan(T, M, i) <=> IsOrphan(T, md, i)
    <2>. SUFFICES ASSUME NEW i \in UserOf(T) PROVE IsOrphan(T, M, i) <=> IsOrphan(T, md, i)
      OBVIOUS
    <2>1. i \in md <=> i \in M \/ i \in inherits
      BY <1>2
    <2>2. i \in inherits => ~IsOrphan(T, M, i) /\ LinkedType(i.key) /\ ParentOf(T, i) # None
      BY <1>3
    <2>. HIDE DEF md, inherits
    <2>. QED  BY <2>1, <2>2, Zenon DEF IsOrphan
  <1>5. ListsOK(T, L)
    <2>1. orphaned = {i \in UserOf(T) : IsOrphan(T, md, i)}
      <3>. HIDE DEF md
      <3>. QED  BY <1>4
    <2>. HIDE DEF orphaned, md
    <2>. QED  BY <1>1, <2>1, Zenon DEF ListsOK
  <1>6. MetaKnown(T, md, U)
    <2>. SUFFICES ASSUME NEW i \in md \cap UserOf(T) PROVE AppId(i) \in U
      BY DEF MetaKnown
    <2>. QED  BY <1>3 DEF MetaKnown
  <1>7. MetaAgrees(T, md)
    <2>. SUFFICES ASSUME NEW i \in UserOf(T), NEW j \in UserOf(T), Alike(i, j), j \in md,
                         i.st = GameCard \/ j.st # GameCard
                  PROVE  i \in M \cup inherits
      BY <1>2 DEF MetaAgrees
    <2>1. i.key.type = j.key.type /\ i.key.type # Application /\ AppId(i) = AppId(j)
      BY DEF Alike
    <2>2. CASE j \in M
      BY <2>2 DEF MetaAgrees
    <2>3. CASE j \notin M
      <3>1. j \in inherits
        BY <2>3
      <3>2. LinkedType(j.key) /\ ParentOf(T, j) # None /\ ParentOf(T, j) \in M
        BY <1>3, <3>1
      <3>3. ParentOf(T, i) = ParentOf(T, j)
        BY <2>1, Zenon DEF ParentOf, AppId
      <3>4. LinkedType(i.key)
        BY <2>1, <3>2 DEF LinkedType
      <3>5. ~IsOrphan(T, M, i)
        BY <3>2, <3>3, <3>4, Zenon DEF IsOrphan
      <3>. QED  BY <2>1, <3>2, <3>3, <3>5
    <2>. QED  BY <2>2, <2>3
  <1>8. M \cap AllOf(T) \subseteq md
    OBVIOUS
  <1>. HIDE DEF md
  <1>9. TitlesGoTogether(T, L, U, w) /\ M \cap AllOf(T) \subseteq L.md
    BY <1>1, <1>5, <1>6, <1>7, <1>8 DEF TitlesGoTogether
  <1>. QED  BY <1>9 DEF L

\* A title of the user is one that is not on the system storage.
LEMMA UserByStorage ==
  ASSUME NEW T, ArraysOK(T)
  PROVE  /\ \A i : i \in UserOf(T) <=> i \in AllOf(T) /\ i.st # BuiltInSystem
         /\ \A i \in AllOf(T) : i.st \in Storages /\ i \in T[i.st]
  <1>1. \A i \in AllOf(T) : \E s \in Storages : i \in T[s]
    BY DEF AllOf
  <1>2. \A s \in Storages : \A i \in T[s] : i.st = s /\ i \in AllOf(T)
    BY DEF ArraysOK, AllOf
  <1>. QED  BY <1>1, <1>2, StoragesAre DEF UserOf

\* When one storage is filled anew.
Refilled(T2, T, st, I) == T2 = [T EXCEPT ![st] = I]

\* What the arrays hold once a storage is filled.
LEMMA FilledIs ==
  ASSUME NEW T, ArraysOK(T), NEW st \in Storages, NEW I, NEW T2, ArraysOK(T2),
         Refilled(T2, T, st, I)
  PROVE  /\ \A i \in AllOf(T2) : (i \in I /\ i.st = st) \/ (i \in AllOf(T) /\ i.st # st)
         /\ \A i \in UserOf(T2) : (i \in I /\ i.st = st) \/ (i \in UserOf(T) /\ i.st # st)
         /\ T2[st] = I
  <1>1. T2[st] = I /\ \A s \in Storages \ {st} : T2[s] = T[s]
    BY DEF ArraysOK, Refilled
  <1>2. \A i \in AllOf(T2) : i.st \in Storages /\ i \in T2[i.st]
    BY UserByStorage
  <1>3. \A i \in AllOf(T2) : (i \in I /\ i.st = st) \/ (i \in AllOf(T) /\ i.st # st)
    BY <1>1, <1>2 DEF AllOf
  <1>4. \A i \in UserOf(T2) : i \in AllOf(T2) /\ i.st # BuiltInSystem
    BY UserByStorage
  <1>. QED  BY <1>1, <1>3, <1>4, UserByStorage

(***************************************************************************)
(* Filling the storages.                                                   *)
(***************************************************************************)

\* The keys of the console and of its card.
LEMMA UserKeys ==
  ASSUME AppTypeOK
  PROVE  \A k \in world.user \cup world.sd \cup card.keys : UserKey(world, k)
  <1>1. world \in Worlds /\ (card \in Cards \/ card.keys = {})
    BY DEF AppTypeOK, NoCard
  <1>2. \A k \in world.user \cup world.sd \cup card.keys :
          k \in world.user \cup world.sd \cup UNION {c.keys : c \in Cards}
    BY <1>1
  <1>. QED  BY <1>1, <1>2, TitleIdsAssumption, Zenon DEF UserKey

\* Finitely many infos are of finitely many applications.
LEMMA ImageIsFinite ==
  ASSUME NEW S, IsFiniteSet(S)
  PROVE  IsFiniteSet({AppId(i) : i \in S})
  <1>. DEFINE R == {AppId(i) : i \in S}
              f == [i \in S |-> AppId(i)]
  <1>1. f \in Surjection(S, R)
    <2>1. f \in [S -> R] /\ \A y \in R : \E x \in S : f[x] = y
      OBVIOUS
    <2>. HIDE DEF f, R
    <2>. QED  BY <2>1 DEF Surjection
  <1>. HIDE DEF f, R
  <1>2. IsFiniteSet(R)
    BY <1>1, FS_Surjection
  <1>. QED  BY <1>2 DEF R

\* Filling a storage with keys of the world keeps to keys of the world.
LEMMA FilledKeys ==
  ASSUME NEW T, ArraysOK(T), NEW w, KeysOK(T, w), NEW st \in Storages, NEW K, NEW inc, NEW T2,
         ArraysOK(T2),
         Refilled(T2, T, st, InfosOf(st, K, inc)),
         st = BuiltInSystem => K \subseteq w.sys,
         st # BuiltInSystem => \A k \in K : UserKey(w, k)
  PROVE  KeysOK(T2, w)
  <1>. DEFINE I == InfosOf(st, K, inc)
  <1>1. \A i \in I : i.key \in K
    BY DEF InfosOf
  <1>. HIDE DEF I
  <1>2. /\ \A i \in UserOf(T2) : (i \in I /\ i.st = st) \/ (i \in UserOf(T) /\ i.st # st)
        /\ T2[st] = I
    <2>1. Refilled(T2, T, st, I)
      BY DEF I
    <2>. QED  BY <2>1, FilledIs
  <1>3. \A i \in UserOf(T2) : i.st # BuiltInSystem
    BY UserByStorage
  <1>4. \A i \in UserOf(T2) : UserKey(w, i.key)
    BY <1>1, <1>2, <1>3 DEF KeysOK
  <1>5. st # BuiltInSystem => T2[BuiltInSystem] = T[BuiltInSystem]
    BY StoragesAre DEF ArraysOK, Refilled
  <1>. QED  BY <1>1, <1>2, <1>4, <1>5 DEF KeysOK

\* The card's titles, put beside those of the console.  The ones in own bring
\* an entry along, the others find one.
LEMMA CardFilled ==
  ASSUME AppTypeOK, LinksOK(arrays, lists), TitlesGoTogether(arrays, lists, userMeta, world),
         arrays[GameCard] = {}, NEW K \in SUBSET card.keys, NEW inc,
         NEW T2, ArraysOK(T2), Refilled(T2, arrays, GameCard, InfosOf(GameCard, K, inc)),
         NEW own \in SUBSET T2[GameCard],
         \A i, j \in T2[GameCard] : Alike(i, j) /\ j \in own => i \in own,
         NEW M, M = lists.md \cup own \cup {i \in T2[GameCard] : HasMetadata(i, userMeta)},
         NEW U, U = userMeta \cup {AppId(i) : i \in own}
  PROVE  /\ TitlesGoTogether(T2, Relinked(T2, M), U, world)
         /\ \A i \in T2[GameCard] : AppId(i) \in userMeta => i \in Relinked(T2, M).md
  <1>. DEFINE I == T2[GameCard]
  <1>1. ArraysOK(arrays) /\ GameCard \in Storages /\ KeysOK(arrays, world)
    BY StoragesAre DEF AppTypeOK, TitlesGoTogether
  <1>2. /\ \A i \in UserOf(T2) :
             (i \in I /\ i.st = GameCard) \/ (i \in UserOf(arrays) /\ i.st # GameCard)
        /\ \A i \in I : i.st = GameCard /\ i \in AllOf(T2) /\ i \in UserOf(T2)
    <2>1. \A i \in UserOf(T2) :
            (i \in I /\ i.st = GameCard) \/ (i \in UserOf(arrays) /\ i.st # GameCard)
      <3>. DEFINE J == InfosOf(GameCard, K, inc)
      <3>1. Refilled(T2, arrays, GameCard, J)
        OBVIOUS
      <3>. HIDE DEF J, I
      <3>2. /\ \A i \in UserOf(T2) :
                 (i \in J /\ i.st = GameCard) \/ (i \in UserOf(arrays) /\ i.st # GameCard)
            /\ T2[GameCard] = J
        BY <1>1, <3>1, FilledIs
      <3>. QED  BY <3>2 DEF I
    <2>2. \A i \in I : i.st = GameCard /\ i \in AllOf(T2)
      BY <1>1 DEF ArraysOK, AllOf
    <2>3. \A i \in I : i.st # BuiltInSystem
      BY <2>2, StoragesAre
    <2>. QED  BY <2>1, <2>2, <2>3, UserByStorage
  <1>3. KeysOK(T2, world)
    <2>1. GameCard # BuiltInSystem
      BY StoragesAre
    <2>2. \A k \in K : UserKey(world, k)
      BY UserKeys
    <2>. QED  BY <1>1, <2>1, <2>2, FilledKeys
  <1>4. \A i \in AllOf(arrays) : i.st # GameCard
    BY <1>1, UserByStorage
  <1>5. \A i \in lists.md : i \in AllOf(arrays) /\ i \notin I
    BY <1>2, <1>4 DEF LinksOK
  <1>6. \A i \in I : HasMetadata(i, userMeta) <=> AppId(i) \in userMeta
    BY <1>2, StoragesAre DEF HasMetadata, AppId
  <1>7. \A i \in lists.md \cap UserOf(T2) : i \in UserOf(arrays) /\ AppId(i) \in userMeta
    BY <1>2, <1>5 DEF TitlesGoTogether, MetaKnown
  <1>. HIDE DEF I
  <1>8. \A i \in M :
          i \in lists.md \/ (i \in own /\ i \in I) \/ (i \in I /\ AppId(i) \in userMeta)
    BY <1>6 DEF I
  <1>9. \A i \in I : i \in own \/ AppId(i) \in userMeta => i \in M
    BY <1>6 DEF I
  <1>10. MetaKnown(T2, M, U)
    BY <1>7, <1>8 DEF MetaKnown
  <1>11. MetaAgrees(T2, M)
    <2>. SUFFICES ASSUME NEW i \in UserOf(T2), NEW j \in UserOf(T2), Alike(i, j), j \in M,
                         i.st = GameCard \/ j.st # GameCard
                  PROVE  i \in M
      BY DEF MetaAgrees
    <2>1. AppId(i) = AppId(j)
      BY DEF Alike
    <2>2. CASE j \in lists.md
      <3>1. j \in UserOf(arrays) /\ AppId(i) \in userMeta
        BY <1>7, <2>1, <2>2
      <3>2. CASE i \in I
        BY <1>9, <3>1, <3>2
      <3>3. CASE i \notin I
        <4>1. i \in UserOf(arrays) /\ i.st # GameCard
          BY <1>2, <3>3
        <4>2. i \in lists.md
          BY <2>2, <3>1, <4>1 DEF TitlesGoTogether, MetaAgrees
        <4>. QED  BY <4>2
      <3>. QED  BY <3>2, <3>3
    <2>3. CASE j \notin lists.md
      <3>1. j \in I
        BY <1>8, <2>3
      <3>2. i.st = GameCard
        BY <1>2, <3>1
      <3>3. i \in I
        BY <1>2, <3>2
      <3>4. CASE j \in own
        <4>1. i \in own
          BY <3>1, <3>3, <3>4 DEF I
        <4>. QED  BY <1>9, <3>3, <4>1
      <3>5. CASE j \notin own
        <4>1. AppId(i) \in userMeta
          BY <1>8, <2>1, <2>3, <3>5
        <4>. QED  BY <1>9, <3>3, <4>1
      <3>. QED  BY <3>4, <3>5
    <2>. QED  BY <2>2, <2>3
  <1>12. AppsOK(U)
    <2>1. IsFiniteSet(own)
      <3>1. IsFiniteSet(T2[GameCard])
        BY <1>1 DEF ArraysOK
      <3>. QED  BY <3>1, FS_Subset
    <2>2. IsFiniteSet({AppId(i) : i \in own})
      BY <2>1, ImageIsFinite
    <2>3. IsFiniteSet(U)
      BY <2>2, FS_Union DEF TitlesGoTogether, AppsOK
    <2>4. ASSUME NEW i \in own PROVE AppId(i) \in Nat /\ Place(AppId(i)) = 0
      <3>1. i \in UserOf(T2)
        BY <1>2 DEF I
      <3>2. NumberFits(i.key, AppId(i))
        BY <1>3, <3>1, NumberOfInfo
      <3>. QED  BY <3>2 DEF NumberFits
    <2>. QED  BY <2>3, <2>4 DEF TitlesGoTogether, AppsOK
  <1>13. /\ TitlesGoTogether(T2, Relinked(T2, M), U, world)
         /\ M \cap AllOf(T2) \subseteq Relinked(T2, M).md
    BY <1>3, <1>10, <1>11, <1>12, RelinkedGoTogether
  <1>. QED  BY <1>2, <1>9, <1>13 DEF I

\* Metadata from NS for the titles of the card that have none.
LEMMA NsGoTogether ==
  ASSUME NEW r, Result(r), ArraysOK(r.T), LinksOK(r.T, r.L), NEW w,
         TitlesGoTogether(r.T, r.L, r.U, w),
         \A i \in r.T[GameCard] : AppId(i) \in r.U => i \in r.L.md
  PROVE  LET n == WithNsMetadata(r) IN TitlesGoTogether(n.T, n.L, n.U, w)
  <1>. DEFINE I == r.T[GameCard]
              asked == {j \in I \ r.L.md : titleGetApplicationControlDataFromNs(AppId(j))}
              U2 == r.U \cup {AppId(i) : i \in asked}
              M2 == r.L.md \cup {i \in I : AppId(i) \in U2}
              L2 == IF U2 # r.U THEN Relinked(r.T, M2) ELSE [r.L EXCEPT !.md = M2]
              n == WithNsMetadata(r)
  <1>1. n = [r EXCEPT !.U = U2, !.L = L2]
    BY Zenon DEF WithNsMetadata, AppId
  <1>2. /\ GameCard \in Storages
        /\ \A i \in I : i.st = GameCard /\ i \in AllOf(r.T) /\ i \in UserOf(r.T)
    <2>1. GameCard \in Storages /\ GameCard # BuiltInSystem
      BY StoragesAre
    <2>2. \A i \in I : i.st = GameCard /\ i \in AllOf(r.T)
      BY <2>1 DEF ArraysOK, AllOf
    <2>. QED  BY <2>1, <2>2, UserByStorage
  <1>3. IsFiniteSet(asked) /\ asked \subseteq I
    <2>1. IsFiniteSet(I)
      BY <1>2 DEF ArraysOK
    <2>. QED  BY <2>1, FS_Subset
  <1>4. CASE U2 = r.U
    <2>1. M2 = r.L.md
      <3>. HIDE DEF I, U2
      <3>. QED  BY <1>4 DEF I
    <2>2. L2 = [r.L EXCEPT !.md = M2]
      BY <1>4
    <2>. DEFINE E == [r.L EXCEPT !.md = M2]
    <2>3. E.md = r.L.md /\ E.orphans = r.L.orphans /\ E.previous = r.L.previous
      <3>. HIDE DEF M2
      <3>1. (E.md = M2 \/ E.md = r.L.md) /\ E.orphans = r.L.orphans /\ E.previous = r.L.previous
        OBVIOUS
      <3>. HIDE DEF E
      <3>. QED  BY <2>1, <3>1
    <2>. HIDE DEF U2, M2, E, L2
    <2>4. TitlesGoTogether(r.T, E, r.U, w)
      BY <2>3, Zenon DEF TitlesGoTogether, ListsOK
    <2>5. n.T = r.T /\ n.L = E /\ n.U = r.U
      <3>1. n.T = r.T /\ n.L = L2 /\ n.U = U2
        <4>. HIDE DEF n
        <4>. QED  BY <1>1 DEF Result
      <3>. HIDE DEF n
      <3>. QED  BY <1>4, <2>2, <3>1, Zenon DEF E
    <2>. HIDE DEF n
    <2>. QED  BY <2>4, <2>5, Zenon DEF n
  <1>5. CASE U2 # r.U
    <2>. HIDE DEF I, asked
    <2>1. MetaKnown(r.T, M2, U2)
      BY DEF TitlesGoTogether, MetaKnown
    <2>2. MetaAgrees(r.T, M2)
      <3>. SUFFICES ASSUME NEW i \in UserOf(r.T), NEW j \in UserOf(r.T), Alike(i, j), j \in M2,
                           i.st = GameCard \/ j.st # GameCard
                    PROVE  i \in M2
        BY DEF MetaAgrees
      <3>1. CASE j \in r.L.md
        <4>1. i \in r.L.md
          BY <3>1 DEF TitlesGoTogether, MetaAgrees
        <4>. QED  BY <4>1
      <3>2. CASE j \notin r.L.md
        <4>1. j \in I /\ AppId(j) \in U2
          BY <3>2
        <4>2. i \in UserOf(r.T) /\ i.st = GameCard /\ AppId(i) = AppId(j)
          BY <1>2, <4>1 DEF Alike
        <4>3. i \in I
          BY <4>2, UserByStorage DEF I
        <4>. HIDE DEF U2
        <4>. QED  BY <4>1, <4>2, <4>3
      <3>. QED  BY <3>1, <3>2
    <2>3. AppsOK(U2)
      <3>1. IsFiniteSet({AppId(i) : i \in asked})
        BY <1>3, ImageIsFinite
      <3>2. IsFiniteSet(U2)
        BY <3>1, FS_Union DEF TitlesGoTogether, AppsOK
      <3>3. ASSUME NEW i \in asked PROVE AppId(i) \in Nat /\ Place(AppId(i)) = 0
        <4>1. i \in UserOf(r.T)
          BY <1>2, <1>3
        <4>2. NumberFits(i.key, AppId(i))
          BY <4>1, NumberOfInfo DEF TitlesGoTogether
        <4>. QED  BY <4>2 DEF NumberFits
      <3>. QED  BY <3>2, <3>3 DEF TitlesGoTogether, AppsOK
    <2>. HIDE DEF U2, M2
    <2>4. TitlesGoTogether(r.T, Relinked(r.T, M2), U2, w)
      BY <2>1, <2>2, <2>3, RelinkedGoTogether DEF TitlesGoTogether
    <2>5. n.T = r.T /\ n.L = Relinked(r.T, M2) /\ n.U = U2
      <3>1. L2 = Relinked(r.T, M2)
        BY <1>5
      <3>. HIDE DEF n, L2
      <3>. QED  BY <1>1, <3>1 DEF Result
    <2>. HIDE DEF n
    <2>. QED  BY <2>4, <2>5, Zenon DEF n
  <1>. QED  BY <1>4, <1>5

(***************************************************************************)
(* The start and the open card.                                            *)
(***************************************************************************)

\* What filling a storage makes of the lists.
MetadataOf(r, T2, st) == r.L.md \cup {i \in T2[st] : HasMetadata(i, r.U)}

Generated(q, r, T2, st, keys) ==
  /\ q.U = r.U
  /\ (q.T = r.T /\ q.L = r.L) \/ (q.T = T2 /\ q.L = Relinked(T2, MetadataOf(r, T2, st)))
  /\ q.ok => \/ keys = {} /\ q = r
             \/ /\ keys \ world.broken # {} /\ q.T = T2
                /\ q.L = Relinked(T2, MetadataOf(r, T2, st))

\* titleGenerateTitleInfoEntriesForTitleStorage either changes nothing or fills and relinks.
LEMMA GeneratedIs ==
  ASSUME NEW r, Result(r), NEW st, NEW keys, NEW inc, NEW T2,
         Refilled(T2, r.T, st, InfosOf(st, keys \ world.broken, inc))
  PROVE  Generated(titleGenerateTitleInfoEntriesForTitleStorage(r, st, keys, inc),
                   r, T2, st, keys)
  <1>. DEFINE usable == {k \in keys : titleGetContentInfosByMetaKey(k)}
              N == [r.T EXCEPT ![st] = InfosOf(st, usable, inc)]
              M == r.L.md \cup {i \in N[st] : HasMetadata(i, r.U)}
              fails == [r EXCEPT !.ok = FALSE]
              fills == [r EXCEPT !.T = N, !.L = Relinked(N, M)]
              q == titleGenerateTitleInfoEntriesForTitleStorage(r, st, keys, inc)
              M2 == MetadataOf(r, T2, st)
  <1>1. usable = keys \ world.broken
    BY DEF titleGetContentInfosByMetaKey
  <1>2. N = T2
    <2>. HIDE DEF usable
    <2>. QED  BY <1>1, Zenon DEF Refilled
  <1>3. M = M2
    <2>. HIDE DEF N
    <2>. QED  BY <1>2, Zenon DEF MetadataOf
  <1>4. q = CASE keys = {} -> r [] usable = {} -> fails [] OTHER -> fills
    BY Zenon DEF titleGenerateTitleInfoEntriesForTitleStorage
  <1>. HIDE DEF usable, N, M, q, M2
  <1>5. fails.T = r.T /\ fails.L = r.L /\ fails.U = r.U /\ ~fails.ok
    BY DEF Result
  <1>6. fills.T = N /\ fills.L = Relinked(N, M) /\ fills.U = r.U
    BY DEF Result
  <1>. HIDE DEF fails, fills
  <1>7. (keys = {} /\ q = r) \/ q = fails \/ (usable # {} /\ q = fills)
    BY <1>4
  <1>8. fills.T = T2 /\ fills.L = Relinked(T2, M2)
    BY <1>2, <1>3, <1>6, Zenon
  <1>9. Generated(q, r, T2, st, keys)
    BY <1>1, <1>5, <1>6, <1>7, <1>8 DEF Generated, M2
  <1>. QED  BY <1>9 DEF q

\* Every title of an application that has an entry has metadata.
Full(T, M, U) == \A i \in UserOf(T) : AppId(i) \in U => i \in M

\* Where every info that can have metadata has it, siblings agree about it.
LEMMA FullAgrees ==
  ASSUME NEW T, NEW M, NEW U, MetaKnown(T, M, U), Full(T, M, U)
  PROVE  MetaAgrees(T, M)
  BY Zenon DEF MetaKnown, Full, MetaAgrees, Alike

\* One more storage of the console.
LEMMA OpenGoesTogether ==
  ASSUME AppTypeOK, NEW T, ArraysOK(T), NEW L, LinksOK(T, L), NEW U,
         TitlesGoTogether(T, L, U, world), Full(T, L.md, U),
         NEW st \in {BuiltInSystem, BuiltInUser, SdCard}, NEW T2, ArraysOK(T2),
         Refilled(T2, T, st,
                  InfosOf(st, titleGetMetaKeysFromContentDatabase(st) \ world.broken, 0)),
         NEW M2, M2 = L.md \cup {i \in T2[st] : HasMetadata(i, U)}
  PROVE  TitlesGoTogether(T2, Relinked(T2, M2), U, world) /\ Full(T2, Relinked(T2, M2).md, U)
  <1>. DEFINE K == titleGetMetaKeysFromContentDatabase(st) \ world.broken
              I == InfosOf(st, K, 0)
  <1>1. st \in Storages
    BY StoragesAre
  <1>2. /\ st = BuiltInSystem => K \subseteq world.sys
        /\ st # BuiltInSystem => \A k \in K : UserKey(world, k)
    <2>1. st = BuiltInSystem => K \subseteq world.sys
      BY DEF titleGetMetaKeysFromContentDatabase, GameCard, BuiltInSystem, BuiltInUser, SdCard
    <2>2. st # BuiltInSystem => K \subseteq world.user \cup world.sd
      BY DEF titleGetMetaKeysFromContentDatabase, GameCard, BuiltInSystem, BuiltInUser, SdCard
    <2>. HIDE DEF K
    <2>. QED  BY <2>1, <2>2, UserKeys
  <1>3. Refilled(T2, T, st, I)
    OBVIOUS
  <1>. HIDE DEF K
  <1>4. KeysOK(T2, world)
    <2>1. Refilled(T2, T, st, InfosOf(st, K, 0)) /\ KeysOK(T, world)
      BY <1>3 DEF TitlesGoTogether
    <2>. QED  BY <1>1, <1>2, <2>1, FilledKeys
  <1>. HIDE DEF I
  <1>5. /\ \A i \in UserOf(T2) : (i \in I /\ i.st = st) \/ (i \in UserOf(T) /\ i.st # st)
        /\ T2[st] = I
    BY <1>1, <1>3, FilledIs
  <1>6. \A i \in UserOf(T2) :
          i \in AllOf(T2) /\ i.st # BuiltInSystem /\ (HasMetadata(i, U) <=> AppId(i) \in U)
    BY UserByStorage DEF HasMetadata, AppId
  <1>7. \A i \in L.md \cap UserOf(T2) : i \in UserOf(T)
    <2>1. \A i \in L.md : i \in AllOf(T)
      BY DEF LinksOK
    <2>. QED  BY <1>6, <2>1, UserByStorage
  <1>8. MetaKnown(T2, M2, U)
    BY <1>6, <1>7 DEF MetaKnown, TitlesGoTogether
  <1>9. Full(T2, M2, U)
    BY <1>5, <1>6 DEF Full
  <1>10. /\ TitlesGoTogether(T2, Relinked(T2, M2), U, world)
         /\ M2 \cap AllOf(T2) \subseteq Relinked(T2, M2).md
    <2>1. MetaAgrees(T2, M2) /\ AppsOK(U)
      BY <1>8, <1>9, FullAgrees DEF TitlesGoTogether
    <2>. QED  BY <1>4, <1>8, <2>1, RelinkedGoTogether
  <1>. QED  BY <1>6, <1>9, <1>10 DEF Full

\* What titleInitializePersistentTitleStorages leaves.
LEMMA PersistentGoTogether ==
  ASSUME AppTypeOK, NEW U, AppsOK(U)
  PROVE  LET r == titleInitializePersistentTitleStorages(U)
         IN TitlesGoTogether(r.T, r.L, U, world)
  <1>. DEFINE open(r, st) ==
                IF r.ok THEN titleGenerateTitleInfoEntriesForTitleStorage(
                               r, st, titleGetMetaKeysFromContentDatabase(st), 0)
                ELSE r
              none == [ok |-> TRUE, T |-> NoArrays, L |-> NoLists, U |-> U]
              OK(r) == /\ Result(r) /\ ArraysOK(r.T) /\ LinksOK(r.T, r.L) /\ r.U = U
                       /\ TitlesGoTogether(r.T, r.L, U, world) /\ Full(r.T, r.L.md, U)
  <1>1. OK(none)
    <2>1. UserOf(NoArrays) = {} /\ AllOf(NoArrays) = {} /\ NoArrays[BuiltInSystem] = {}
      BY NothingIsOK, StoragesAre DEF UserOf, NoArrays
    <2>2. NoLists.md = {} /\ NoLists.orphans = {} /\ NoLists.previous = <<>>
      BY DEF NoLists
    <2>3. <<>> = [i \in AllOf(NoArrays) |->
                    IF i \in UserOf(NoArrays) \ NoLists.orphans
                    THEN PreviousOf(NoArrays, i) ELSE None]
      BY <2>1
    <2>4. ListsOK(NoArrays, NoLists)
      BY <2>1, <2>2, <2>3 DEF ListsOK
    <2>5. TitlesGoTogether(NoArrays, NoLists, U, world) /\ Full(NoArrays, NoLists.md, U)
      BY <2>1, <2>2, <2>4 DEF TitlesGoTogether, KeysOK, MetaKnown, MetaAgrees, Full
    <2>6. Result(none) /\ none.T = NoArrays /\ none.L = NoLists /\ none.U = U
      BY DEF Result
    <2>. HIDE DEF none
    <2>. QED  BY <2>5, <2>6, NothingIsOK
  <1>2. ASSUME NEW r, OK(r), NEW st \in {BuiltInSystem, BuiltInUser, SdCard}
        PROVE  OK(open(r, st))
    <2>. DEFINE keys == titleGetMetaKeysFromContentDatabase(st)
                q == titleGenerateTitleInfoEntriesForTitleStorage(r, st, keys, 0)
                T2 == [r.T EXCEPT ![st] = InfosOf(st, keys \ world.broken, 0)]
                M2 == MetadataOf(r, T2, st)
    <2>1. MetaKeySet(keys) /\ MetaKeySet(keys \ world.broken) /\ st \in Storages
      BY ListedKeys, StoragesAre, SomeKeys
    <2>2. Fills(q, r, st, keys, 0)
      BY <1>2, <2>1, GeneratedIsOK
    <2>3. ArraysOK(T2)
      BY <1>2, <2>1, FilledIsOK
    <2>4. Refilled(T2, r.T, st, InfosOf(st, keys \ world.broken, 0))
      BY Zenon DEF Refilled
    <2>5. M2 = r.L.md \cup {i \in T2[st] : HasMetadata(i, U)}
      BY <1>2 DEF MetadataOf
    <2>. HIDE DEF q, T2
    <2>6. /\ q.U = r.U
          /\ (q.T = r.T /\ q.L = r.L) \/ (q.T = T2 /\ q.L = Relinked(T2, M2))
      <3>1. Generated(q, r, T2, st, keys)
        BY <1>2, <2>4, GeneratedIs DEF q
      <3>. HIDE DEF keys
      <3>. QED  BY <3>1 DEF Generated
    <2>. HIDE DEF M2
    <2>7. TitlesGoTogether(T2, Relinked(T2, M2), U, world) /\ Full(T2, Relinked(T2, M2).md, U)
      BY <1>2, <2>3, <2>4, <2>5, OpenGoesTogether
    <2>8. OK(q)
      <3>. HIDE DEF keys
      <3>1. Result(q) /\ ArraysOK(q.T) /\ LinksOK(q.T, q.L)
        BY <2>2 DEF Fills
      <3>. QED  BY <1>2, <2>6, <2>7, <3>1
    <2>. QED  BY <1>2, <2>8, Zenon DEF q
  <1>3. titleInitializePersistentTitleStorages(U)
          = open(open(open(none, BuiltInSystem), BuiltInUser), SdCard)
    BY Zenon DEF titleInitializePersistentTitleStorages
  <1>. HIDE DEF open, none, OK
  <1>4. OK(open(none, BuiltInSystem))
    BY <1>1, <1>2
  <1>5. OK(open(open(none, BuiltInSystem), BuiltInUser))
    BY <1>2, <1>4
  <1>6. OK(open(open(open(none, BuiltInSystem), BuiltInUser), SdCard))
    BY <1>2, <1>5
  <1>. QED  BY <1>3, <1>6 DEF OK

\* What the invariant says.
TitlesWhole == titleInit => TitlesGoTogether(arrays, lists, userMeta, world)

\* titleInitialize.
LEMMA InitializeWhole ==
  ASSUME AppTypeOK, titleInitialize
  PROVE  TitlesWhole'
  <1>. DEFINE ns == titleGenerateMetadataEntriesFromNsRecords
              r == titleInitializePersistentTitleStorages(ns.ids)
  <1>1. ~titleInit /\ world' = world
    BY DEF titleInitialize, feed
  <1>2. \/ titleInit' = titleInit
        \/ userMeta' = ns.ids /\ arrays' = r.T /\ lists' = r.L
    BY Zenon DEF titleInitialize
  <1>3. ns.ids \subseteq world.ns
    BY DEF titleGenerateMetadataEntriesFromNsRecords
  <1>. HIDE DEF ns
  <1>4. AppsOK(ns.ids)
    <2>1. world \in Worlds
      BY DEF AppTypeOK
    <2>2. IsFiniteSet(world.ns) /\ \A app \in world.ns : app \in Nat /\ Place(app) = 0
      BY <2>1, TitleIdsAssumption
    <2>. QED  BY <1>3, <2>2, FS_Subset DEF AppsOK
  <1>5. TitlesGoTogether(r.T, r.L, ns.ids, world)
    BY <1>4, PersistentGoTogether
  <1>. HIDE DEF r
  <1>. SUFFICES ASSUME titleInit' PROVE TitlesGoTogether(arrays', lists', userMeta', world')
    BY DEF TitlesWhole
  <1>. QED  BY <1>1, <1>2, <1>5

(***************************************************************************)
(* The card goes and comes; every step.                                    *)
(***************************************************************************)

\* The card's storage is closed.
LEMMA ClosedGoTogether ==
  ASSUME NEW T, ArraysOK(T), NEW L, NEW U, NEW w, TitlesGoTogether(T, L, U, w)
  PROVE  TitlesGoTogether(Closed(T), Relinked(Closed(T), L.md), U, w)
  <1>. DEFINE T2 == Closed(T)
  <1>1. ArraysOK(T2)
    BY ClosedIsOK
  <1>2. \A s \in Storages : T2[s] \subseteq T[s]
    BY DEF Closed, ArraysOK
  <1>. HIDE DEF T2
  <1>3. UserOf(T2) \subseteq UserOf(T)
    <2>1. AllOf(T2) \subseteq AllOf(T)
      BY <1>2 DEF AllOf
    <2>. QED  BY <1>1, <2>1, UserByStorage
  <1>4. KeysOK(T2, w)
    BY <1>2, <1>3, StoragesAre DEF TitlesGoTogether, KeysOK
  <1>5. MetaKnown(T2, L.md, U) /\ MetaAgrees(T2, L.md)
    BY <1>3 DEF TitlesGoTogether, MetaKnown, MetaAgrees
  <1>6. TitlesGoTogether(T2, Relinked(T2, L.md), U, w)
    BY <1>1, <1>4, <1>5, RelinkedGoTogether DEF TitlesGoTogether
  <1>. QED  BY <1>6 DEF T2

\* What a refresh leaves is what it says.
LEMMA FinishWhole ==
  ASSUME NEW T, NEW L, NEW U, NEW success, FinishRefresh(T, L, U, success),
         TitlesGoTogether(T, L, U, world)
  PROVE  TitlesWhole'
  <1>1. arrays' = T /\ lists' = L /\ userMeta' = U /\ world' = world
    BY Zenon DEF FinishRefresh, feed
  <1>. QED  BY <1>1 DEF TitlesWhole

\* The title thread reads the status of the card.
LEMMA ReadsStatusWhole ==
  ASSUME TitleInv, TitlesWhole, ThreadReadsStatus
  PROVE  TitlesWhole'
  <1>1. tpc = "locked" /\ ArraysOK(arrays) /\ TitlesGoTogether(arrays, lists, userMeta, world)
    BY DEF ThreadReadsStatus, TitleInv, Places, AppTypeOK, TitlesWhole
  <1>2. TitlesGoTogether(Closed(arrays), Relinked(Closed(arrays), lists.md), userMeta, world)
    BY <1>1, ClosedGoTogether
  <1>3. \/ FinishRefresh(arrays, lists, userMeta, FALSE)
        \/ FinishRefresh(Closed(arrays), Relinked(Closed(arrays), lists.md), userMeta, TRUE)
        \/ UNCHANGED <<feed, info>>
    BY Zenon DEF ThreadReadsStatus
  <1>4. CASE UNCHANGED <<feed, info>>
    BY <1>1, <1>4 DEF feed, info, TitlesWhole
  <1>. QED  BY <1>1, <1>2, <1>3, <1>4, FinishWhole, Zenon

\* The storage filled through NCM.
LEMMA NcmGoesTogether ==
  ASSUME AppTypeOK, LinksOK(arrays, lists), TitlesGoTogether(arrays, lists, userMeta, world),
         arrays[GameCard] = {},
         GameCardByNcm.ok
  PROVE  LET r == GameCardByNcm
         IN /\ r.U = userMeta
            /\ r.T[GameCard] = {} => r.L = lists
            /\ TitlesGoTogether(r.T, r.L, r.U, world)
            /\ \A i \in r.T[GameCard] : AppId(i) \in r.U => i \in r.L.md
  <1>. DEFINE base == [ok |-> card.ncm, T |-> Closed(arrays), L |-> lists, U |-> userMeta]
              keys == titleGetMetaKeysFromContentDatabase(GameCard)
              K == card.keys \ world.broken
              inc == changes + 1
              T2 == [arrays EXCEPT ![GameCard] = InfosOf(GameCard, K, inc)]
              M2 == MetadataOf(base, T2, GameCard)
              q == titleGenerateTitleInfoEntriesForTitleStorage(base, GameCard, keys, inc)
  <1>1. Closed(arrays) = arrays /\ ArraysOK(arrays)
    BY ClosedIsOK DEF AppTypeOK
  <1>2. /\ Result(base) /\ base.T = arrays /\ base.U = userMeta /\ base.L = lists
        /\ base.ok = card.ncm
    BY <1>1 DEF Result
  <1>3. keys = card.keys
    BY DEF titleGetMetaKeysFromContentDatabase, GameCard, BuiltInSystem, BuiltInUser, SdCard
  <1>4. MetaKeySet(card.keys) /\ MetaKeySet(K) /\ inc \in Nat
    BY CardLoads, SomeKeys DEF AppTypeOK
  <1>5. GameCardByNcm = IF card.ncm THEN q ELSE base
    BY Zenon DEF GameCardByNcm
  <1>. HIDE DEF inc
  <1>6. ArraysOK(T2)
    BY <1>1, <1>4, StoragesAre, FilledIsOK
  <1>7. Refilled(T2, arrays, GameCard, InfosOf(GameCard, K, inc))
    BY Zenon DEF Refilled
  <1>8. T2[GameCard] = InfosOf(GameCard, K, inc) /\ {i.key : i \in T2[GameCard]} = K
    <2>1. T2[GameCard] = InfosOf(GameCard, K, inc)
      BY <1>1, StoragesAre DEF ArraysOK
    <2>2. {i.key : i \in InfosOf(GameCard, K, inc)} = K
      <3>. HIDE DEF K
      <3>. QED  BY <1>4, StoragesAre, InfosAreFinite
    <2>. HIDE DEF T2
    <2>. QED  BY <2>1, <2>2
  <1>. HIDE DEF base, T2, q
  <1>9. Generated(q, base, T2, GameCard, keys)
    <2>1. Refilled(T2, base.T, GameCard, InfosOf(GameCard, keys \ world.broken, inc))
      BY <1>2, <1>3, <1>7
    <2>. HIDE DEF keys
    <2>. QED  BY <1>2, <2>1, GeneratedIs DEF q
  <1>. HIDE DEF keys, M2
  <1>10. /\ TitlesGoTogether(T2, Relinked(T2, M2), userMeta, world)
         /\ \A i \in T2[GameCard] : AppId(i) \in userMeta => i \in Relinked(T2, M2).md
    <2>1. M2 = lists.md \cup {} \cup {i \in T2[GameCard] : HasMetadata(i, userMeta)}
      BY <1>2 DEF M2, MetadataOf
    <2>2. userMeta = userMeta \cup {AppId(i) : i \in {}}
      OBVIOUS
    <2>3. /\ {} \in SUBSET T2[GameCard]
          /\ \A i, j \in T2[GameCard] : Alike(i, j) /\ j \in {} => i \in {}
      OBVIOUS
    <2>4. K \in SUBSET card.keys
      OBVIOUS
    <2>. HIDE DEF K
    <2>. QED  BY <1>6, <1>7, <2>1, <2>2, <2>3, <2>4, CardFilled
  <1>. DEFINE r == GameCardByNcm
  <1>11. r.ok /\ r = IF card.ncm THEN q ELSE base
    BY <1>5
  <1>. HIDE DEF r, K
  <1>12. CASE K # {} /\ r.T = T2 /\ r.L = Relinked(T2, M2) /\ r.U = userMeta
    <2>1. r.T[GameCard] # {}
      BY <1>8, <1>12
    <2>. QED  BY <1>10, <1>12, <2>1 DEF r
  <1>13. CASE r = base
    BY <1>2, <1>13 DEF r
  <1>14. CASE card.ncm
    <2>1. r = q /\ q.ok /\ q.U = userMeta
      BY <1>2, <1>9, <1>11, <1>14 DEF Generated
    <2>2. r = base \/ (K # {} /\ q.T = T2 /\ q.L = Relinked(T2, M2))
      BY <1>3, <1>9, <2>1 DEF Generated, M2, K
    <2>. QED  BY <1>12, <1>13, <2>1, <2>2
  <1>. QED  BY <1>11, <1>13, <1>14

\* The storage filled from the secure partition.
LEMMA HfsGoesTogether ==
  ASSUME AppTypeOK, LinksOK(arrays, lists), TitlesGoTogether(arrays, lists, userMeta, world),
         arrays[GameCard] = {}
  PROVE  LET r == titleInitializeGameCardTitleStorageByHashFileSystem
         IN /\ r.T[GameCard] = {} => r.L = lists
            /\ r.T[GameCard] # {} => TitlesGoTogether(r.T, r.L, r.U, world)
  <1>. DEFINE keys == titleGetGameCardContentMetaContexts
              inc == changes + 1
              I == InfosOf(GameCard, keys, inc)
              T2 == [Closed(arrays) EXCEPT ![GameCard] = I]
              own == {i \in T2[GameCard] : titleGetApplicationControlDataFromControlNca(i)}
              M2 == lists.md \cup own \cup {i \in T2[GameCard] : HasMetadata(i, userMeta)}
              L2 == IF keys # {} THEN Relinked(T2, M2) ELSE lists
              U2 == userMeta \cup {titleGetApplicationIdByContentMetaKey(i.key) : i \in own}
              r == titleInitializeGameCardTitleStorageByHashFileSystem
  <1>1. Closed(arrays) = arrays /\ ArraysOK(arrays)
    BY ClosedIsOK DEF AppTypeOK
  <1>2. MetaKeySet(keys) /\ inc \in Nat /\ keys \in SUBSET card.keys
    BY CardLoads, NoKeys DEF titleGetGameCardContentMetaContexts, AppTypeOK
  <1>3. r = [ok |-> card.loads, T |-> T2, L |-> L2, U |-> U2]
    BY Zenon DEF inc, titleInitializeGameCardTitleStorageByHashFileSystem
  <1>. HIDE DEF inc
  <1>4. ArraysOK(T2)
    BY <1>1, <1>2, StoragesAre, FilledIsOK
  <1>5. T2[GameCard] = I /\ {i.key : i \in I} = keys
    BY <1>1, <1>2, StoragesAre, InfosAreFinite DEF ArraysOK
  <1>6. Refilled(T2, arrays, GameCard, InfosOf(GameCard, keys, inc))
    BY <1>1, Zenon DEF Refilled
  <1>7. U2 = userMeta \cup {AppId(i) : i \in own}
    BY Zenon DEF AppId
  <1>. HIDE DEF keys, I, T2
  <1>8. /\ own \in SUBSET T2[GameCard]
        /\ \A i, j \in T2[GameCard] : Alike(i, j) /\ j \in own => i \in own
    BY DEF Alike, AppId, titleGetApplicationControlDataFromControlNca
  <1>9. M2 = lists.md \cup own \cup {i \in T2[GameCard] : HasMetadata(i, userMeta)}
    OBVIOUS
  <1>. HIDE DEF own, M2, U2
  <1>10. TitlesGoTogether(T2, Relinked(T2, M2), U2, world)
    BY <1>2, <1>4, <1>6, <1>7, <1>8, <1>9, CardFilled
  <1>11. T2[GameCard] = {} <=> keys = {}
    BY <1>5
  <1>. HIDE DEF r
  <1>12. r.T = T2 /\ r.L = L2 /\ r.U = U2
    BY <1>3
  <1>. HIDE DEF L2
  <1>13. (keys = {} => L2 = lists) /\ (keys # {} => L2 = Relinked(T2, M2))
    BY DEF L2
  <1>. QED  BY <1>10, <1>11, <1>12, <1>13 DEF r

\* The title thread fills the card's storage or gives it up.
LEMMA LoadsWhole ==
  ASSUME TitleInv, TitlesWhole, ThreadLoads
  PROVE  TitlesWhole'
  <1>. DEFINE ncm == GameCardByNcm
              hfs == titleInitializeGameCardTitleStorageByHashFileSystem
              r == IF ncm.ok THEN ncm ELSE hfs
              n == WithNsMetadata(r)
              filled == r.ok /\ r.T[GameCard] # {}
              base == ncm.ok /\ \E i \in r.T[GameCard] : i.key.type = Application
  <1>1. /\ tpc = "load" /\ loaded' = loaded
        /\ IF filled THEN IF base THEN FinishRefresh(n.T, n.L, n.U, TRUE)
                                  ELSE FinishRefresh(r.T, r.L, r.U, TRUE)
           ELSE FinishRefresh(Closed(r.T), Relinked(Closed(r.T), r.L.md), r.U, FALSE)
    BY Zenon DEF ThreadLoads
  <1>2. /\ AppTypeOK /\ ArraysOK(arrays) /\ arrays[GameCard] = {} /\ LinksOK(arrays, lists)
        /\ TitlesGoTogether(arrays, lists, userMeta, world)
    BY <1>1 DEF TitleInv, AppTypeOK, Follows, Places, Linked, TitlesWhole
  <1>3. /\ Result(ncm) /\ ArraysOK(ncm.T) /\ LinksOK(ncm.T, ncm.L) /\ ncm.U = userMeta
        /\ (ncm.T[GameCard] = {} => ncm.T = arrays)
    BY <1>2, ByNcmIsOK
  <1>4. /\ (hfs.ok <=> card.loads)
        /\ (hfs.T[GameCard] = {} => hfs.T = arrays /\ hfs.U = userMeta)
        /\ (~card.loads => hfs.T[GameCard] = {})
    BY <1>2, ByHfsIsOK
  <1>5. ncm.ok => /\ ncm.T[GameCard] = {} => ncm.L = lists
                  /\ TitlesGoTogether(ncm.T, ncm.L, ncm.U, world)
                  /\ \A i \in ncm.T[GameCard] : AppId(i) \in ncm.U => i \in ncm.L.md
    <2>. HIDE DEF ncm
    <2>. SUFFICES ASSUME ncm.ok
                  PROVE  /\ ncm.T[GameCard] = {} => ncm.L = lists
                         /\ TitlesGoTogether(ncm.T, ncm.L, ncm.U, world)
                         /\ \A i \in ncm.T[GameCard] : AppId(i) \in ncm.U => i \in ncm.L.md
      OBVIOUS
    <2>. QED  BY <1>2, NcmGoesTogether DEF ncm
  <1>6. /\ hfs.T[GameCard] = {} => hfs.L = lists
        /\ hfs.T[GameCard] # {} => TitlesGoTogether(hfs.T, hfs.L, hfs.U, world)
    BY <1>2, HfsGoesTogether
  <1>. HIDE DEF ncm, hfs
  <1>7. /\ r.T[GameCard] # {} => TitlesGoTogether(r.T, r.L, r.U, world)
        /\ r.T[GameCard] = {} => r.T = arrays /\ r.L = lists /\ r.U = userMeta
        /\ (~filled => r.T[GameCard] = {})
        /\ (base => /\ Result(r) /\ ArraysOK(r.T) /\ LinksOK(r.T, r.L)
                    /\ \A i \in r.T[GameCard] : AppId(i) \in r.U => i \in r.L.md)
    <2>1. CASE ncm.ok
      BY <1>3, <1>5, <2>1
    <2>2. CASE ~ncm.ok
      BY <1>4, <1>6, <2>2
    <2>. QED  BY <2>1, <2>2
  <1>. HIDE DEF r, base
  <1>8. CASE filled /\ base
    <2>1. TitlesGoTogether(n.T, n.L, n.U, world)
      BY <1>7, <1>8, NsGoTogether
    <2>. HIDE DEF n, filled
    <2>2. FinishRefresh(n.T, n.L, n.U, TRUE)
      BY <1>1, <1>8, Zenon
    <2>. QED  BY <2>1, <2>2, FinishWhole
  <1>9. CASE filled /\ ~base
    <2>1. TitlesGoTogether(r.T, r.L, r.U, world)
      BY <1>7, <1>9
    <2>. HIDE DEF n, filled
    <2>2. FinishRefresh(r.T, r.L, r.U, TRUE)
      BY <1>1, <1>9, Zenon
    <2>. QED  BY <2>1, <2>2, FinishWhole
  <1>10. CASE ~filled
    <2>1. r.T = arrays /\ r.L = lists /\ r.U = userMeta
      BY <1>7, <1>10
    <2>2. TitlesGoTogether(Closed(arrays), Relinked(Closed(arrays), lists.md), userMeta, world)
      BY <1>2, ClosedGoTogether
    <2>. HIDE DEF n, filled
    <2>3. FinishRefresh(Closed(r.T), Relinked(Closed(r.T), r.L.md), r.U, FALSE)
      BY <1>1, <1>10, Zenon
    <2>4. FinishRefresh(Closed(arrays), Relinked(Closed(arrays), lists.md), userMeta, FALSE)
      BY <2>1, <2>3, Zenon
    <2>. QED  BY <2>2, <2>4, FinishWhole
  <1>. QED  BY <1>8, <1>9, <1>10

\* Steps that leave the titles alone.
LEMMA WholeStays ==
  ASSUME TitlesWhole, UNCHANGED <<titleInit, arrays, lists, userMeta, world>>
  PROVE  TitlesWhole'
  BY DEF TitlesWhole

\* Every step of App.
LEMMA NextWhole == AppInv /\ TitlesWhole /\ [AppNext]_appvars => TitlesWhole'
  <1>. SUFFICES ASSUME AppInv, TitlesWhole, [AppNext]_appvars PROVE TitlesWhole'
    OBVIOUS
  <1>1. UNCHANGED tvars => TitlesWhole'
    BY WholeStays DEF tvars, feed, info
  <1>2. CASE UNCHANGED appvars
    BY <1>1, <1>2 DEF appvars
  <1>3. CASE StartTitle
    BY <1>3, InitializeWhole DEF StartTitle, AppInv, TitleInv
  <1>4. CASE PollTitles
    BY <1>4, WholeStays DEF PollTitles, feed, info
  <1>5. CASE CloseTitleBegins
    BY <1>5, WholeStays DEF CloseTitleBegins, titleExitBegins, feed, info
  <1>6. CASE CloseTitleEnds
    BY <1>6 DEF CloseTitleEnds, titleExitEnds, TitlesWhole
  <1>7. CASE CardNext
    BY <1>7, WholeStays DEF CardNext, CardChanges, CardSignals, info
  <1>8. CASE TitleThreadNext
    <2>1. CASE ThreadWakes \/ ThreadLocks \/ ThreadLeaves
      BY <2>1, WholeStays DEF ThreadWakes, ThreadLocks, ThreadLeaves, feed, info
    <2>2. CASE ThreadReadsStatus
      BY <2>2, ReadsStatusWhole DEF AppInv
    <2>3. CASE ThreadLoads
      BY <2>3, LoadsWhole DEF AppInv
    <2>. QED  BY <1>8, <2>1, <2>2, <2>3 DEF TitleThreadNext, ThreadNext
  <1>9. CASE StartStep \/ StartFails \/ StartUms \/ StartUi \/ PopulateApplicationMetadataInfo
    BY <1>1, <1>9 DEF StartStep, StartFails, StartUms, StartUi, PopulateApplicationMetadataInfo
  <1>10. CASE \/ PollUms \/ PopulateUmsDeviceVector \/ PollCard \/ ChooseOutput
              \/ UmsPlugged \/ umsPopulateCallback
    BY <1>1, <1>10 DEF PollUms, PopulateUmsDeviceVector, PollCard, ChooseOutput, UmsPlugged,
       umsPopulateCallback
  <1>11. CASE utilsSetLongRunningProcessState(TRUE) \/ utilsSetLongRunningProcessState(FALSE)
    BY <1>1, <1>11 DEF utilsSetLongRunningProcessState
  <1>12. CASE Quit \/ CloseStep \/ CloseUmsBegins \/ CloseUmsEnds \/ CloseEnds
    BY <1>1, <1>12 DEF Quit, CloseStep, CloseUmsBegins, CloseUmsEnds, CloseEnds
  <1>. QED
    BY <1>2, <1>3, <1>4, <1>5, <1>6, <1>7, <1>8, <1>9, <1>10, <1>11, <1>12 DEF AppNext, MainNext

\* The second half of the inductive invariant.
LEMMA WholeAlways == AppSpec => []TitlesWhole
  <1>1. AppInit => TitlesWhole
    BY DEF AppInit, TInit, TitlesWhole
  <1>. QED  BY <1>1, NextWhole, AppInvAlways, PTL DEF AppSpec

\* Wherever the mutex of titles is free, the copies titleGetUserApplicationData returns
\* hold every linked title of the application once, the add-on contents and their
\* patches find each other among them, and the records of titleGenerateTitleRecordsCsv
\* miss no title of the user (title.c): for every console, card and order of changes.
THEOREM AppDataIsAlwaysWhole == AppSpec => []AppDataIsWhole
  <1>1. ASSUME AppInv, TitlesWhole PROVE AppDataIsWhole
    <2>1. ASSUME titleInit, titleMutex = "free"
          PROVE  /\ Listed(arrays, lists, world) /\ MetaKnown(arrays, lists.md, userMeta)
                 /\ AppsOK(userMeta) /\ filtered.user = FilteredUser(arrays, userMeta)
      <3>1. /\ ArraysOK(arrays) /\ LinksOK(arrays, lists)
            /\ TitlesGoTogether(arrays, lists, userMeta, world)
        BY <1>1, <2>1 DEF AppInv, TitleInv, AppTypeOK, Linked, TitlesWhole
      <3>2. tpc \notin {"off", "ended"}
        BY <1>1, <2>1 DEF AppInv, TitleInv, Places
      <3>3. filtered.user = FilteredUser(arrays, userMeta)
        BY <1>1, <3>2 DEF AppInv, TitleInv, Follows
      <3>. QED  BY <3>1, <3>3 DEF TitlesGoTogether, Listed
    <2>2. CsvMissesNothing
      <3>. SUFFICES ASSUME titleInit /\ titleMutex = "free", NEW i \in UserOf(arrays),
                           i \in lists.md \cup lists.orphans
                    PROVE  i \in ToSet(titleGenerateTitleRecordsCsv(TRUE))
        BY Zenon DEF CsvMissesNothing
      <3>. QED  BY <2>1, NoRowMissing
    <2>3. ASSUME titleInit /\ titleMutex = "free", NEW app \in filtered.user
          PROVE  CopiesHold(app)
      <3>1. app \in userMeta /\ titleIsUserApplicationContentAvailable(arrays, app)
        BY <2>1, <2>3 DEF FilteredUser
      <3>2. app \in Nat /\ Place(app) = 0
        BY <2>1, <2>3, <3>1 DEF AppsOK
      <3>. QED  BY <2>1, <2>3, <3>1, <3>2, CopiesOfApplication
    <2>. QED  BY <2>2, <2>3, Zenon DEF AppDataIsWhole, CopiesHold
  <1>. QED  BY <1>1, AppInvAlways, WholeAlways, PTL

----------------------------------------------------------------------------
(* The log and the configuration.                                          *)

(***************************************************************************)
(* The log.                                                                *)
(***************************************************************************)

LogSpec == LogInit /\ [][LogNext]_logvars

MsgByte == Nat \X Nat
Lengths == Seq(Nat \ {0})

\* LogIsWhole of any sequence of bytes, and its messages are known ones.
Whole(all, msgs, cut) ==
  \A p \in 1..Len(all) :
    LET m == all[p][1]
        k == all[p][2]
    IN /\ k = 1 => p = 1 \/ all[p - 1][1] < m
       /\ k > 1 => p > 1 /\ all[p - 1] = <<m, k - 1>>
       /\ (p = Len(all) \/ all[p + 1][1] # m) => k = msgs[m] \/ m \in cut
Known(all, msgs) == \A p \in 1..Len(all) : all[p][1] \in 1..Len(msgs)

FilesTypeOK == /\ logFile \in Seq(MsgByte) /\ logBuffer \in Seq(MsgByte)
          /\ messages \in Lengths

LogInv == /\ FilesTypeOK
        /\ Known(logFile \o logBuffer, messages)
        /\ Whole(logFile \o logBuffer, messages, torn)

(***************************************************************************)
(* Sequences of bytes.                                                     *)
(***************************************************************************)

LEMMA SeqOfLength ==
    ASSUME NEW n \in Nat, NEW s \in [1..n -> MsgByte]
    PROVE  s \in Seq(MsgByte) /\ Len(s) = n
  OBVIOUS

LEMMA BytesBegin ==
    ASSUME NEW m \in Nat, NEW n \in Nat
    PROVE  /\ Bytes(m, 1, n) \in Seq(MsgByte)
           /\ Len(Bytes(m, 1, n)) = n
           /\ \A k \in 1..n : Bytes(m, 1, n)[k] = <<m, k>>
  <1>1. n - 1 + 1 = n
    OBVIOUS
  <1>2. Bytes(m, 1, n) = [k \in 1..n |-> <<m, 1 + k - 1>>]
    BY <1>1, Zenon DEF Bytes
  <1>3. \A k \in 1..n : 1 + k - 1 = k /\ <<m, k>> \in MsgByte
    BY DEF MsgByte
  <1>4. \A k \in 1..n : Bytes(m, 1, n)[k] = <<m, k>>
    BY <1>2, <1>3
  <1>5. Bytes(m, 1, n) \in [1..n -> MsgByte]
    BY <1>2, <1>3
  <1>6. Bytes(m, 1, n) \in Seq(MsgByte) /\ Len(Bytes(m, 1, n)) = n
    BY <1>5, SeqOfLength
  <1>. QED
    BY <1>4, <1>6

LEMMA BytesEnd ==
    ASSUME NEW m \in Nat, NEW cut \in Nat, NEW to \in Nat, cut <= to
    PROVE  /\ Bytes(m, cut + 1, to) \in Seq(MsgByte)
           /\ Len(Bytes(m, cut + 1, to)) = to - cut
           /\ \A k \in 1..(to - cut) : Bytes(m, cut + 1, to)[k] = <<m, cut + k>>
  <1>1. to - (cut + 1) + 1 = to - cut /\ to - cut \in Nat
    OBVIOUS
  <1>2. Bytes(m, cut + 1, to) = [k \in 1..(to - cut) |-> <<m, cut + 1 + k - 1>>]
    BY <1>1, Zenon DEF Bytes
  <1>3. \A k \in 1..(to - cut) : cut + 1 + k - 1 = cut + k /\ <<m, cut + k>> \in MsgByte
    BY DEF MsgByte
  <1>4. \A k \in 1..(to - cut) : Bytes(m, cut + 1, to)[k] = <<m, cut + k>>
    BY <1>2, <1>3
  <1>5. Bytes(m, cut + 1, to) \in [1..(to - cut) -> MsgByte]
    BY <1>2, <1>3
  <1>6. Bytes(m, cut + 1, to) \in Seq(MsgByte) /\ Len(Bytes(m, cut + 1, to)) = to - cut
    BY <1>1, <1>5, SeqOfLength
  <1>. QED
    BY <1>4, <1>6

\* A message in two pieces is the message.
LEMMA BytesJoin ==
    ASSUME NEW m \in Nat, NEW cut \in Nat, NEW to \in Nat, cut <= to
    PROVE  Bytes(m, 1, cut) \o Bytes(m, cut + 1, to) = Bytes(m, 1, to)
  <1>. DEFINE a == Bytes(m, 1, cut)
              b == Bytes(m, cut + 1, to)
              c == Bytes(m, 1, to)
  <1>1. a \in Seq(MsgByte) /\ Len(a) = cut /\ \A k \in 1..cut : a[k] = <<m, k>>
    BY BytesBegin
  <1>2. /\ b \in Seq(MsgByte) /\ Len(b) = to - cut
        /\ \A k \in 1..(to - cut) : b[k] = <<m, cut + k>>
    BY BytesEnd
  <1>3. c \in Seq(MsgByte) /\ Len(c) = to /\ \A k \in 1..to : c[k] = <<m, k>>
    BY BytesBegin
  <1>. HIDE DEF a, b, c
  <1>. DEFINE ab == a \o b
  <1>4. /\ ab \in Seq(MsgByte) /\ Len(ab) = to
        /\ \A k \in 1..to : ab[k] = IF k <= cut THEN a[k] ELSE b[k - cut]
    <2>1. /\ a \o b \in Seq(MsgByte) /\ Len(a \o b) = Len(a) + Len(b)
          /\ \A k \in 1..(Len(a) + Len(b)) :
                (a \o b)[k] = IF k <= Len(a) THEN a[k] ELSE b[k - Len(a)]
      BY <1>1, <1>2, ConcatProperties
    <2>. QED
      BY <1>1, <1>2, <2>1
  <1>. HIDE DEF ab
  <1>5. \A k \in 1..to : k > cut => k - cut \in 1..(to - cut) /\ cut + (k - cut) = k
    OBVIOUS
  <1>6. \A k \in 1..to : ab[k] = <<m, k>>
    <2>1. \A k \in 1..cut : k \in 1..to /\ k <= cut
      OBVIOUS
    <2>2. \A k \in 1..cut : ab[k] = <<m, k>>
      BY <1>1, <1>4, <2>1
    <2>3. \A k \in (cut + 1)..to : ~(k <= cut) /\ k \in 1..to /\ k > cut
      OBVIOUS
    <2>4. \A k \in (cut + 1)..to : ab[k] = b[k - cut]
      BY <1>4, <2>3
    <2>5. \A k \in (cut + 1)..to : b[k - cut] = <<m, cut + (k - cut)>>
      BY <1>2, <1>5, <2>3
    <2>6. \A k \in (cut + 1)..to : ab[k] = <<m, k>>
      BY <1>5, <2>3, <2>4, <2>5
    <2>7. \A k \in 1..to : k \in 1..cut \/ k \in (cut + 1)..to
      OBVIOUS
    <2>. QED
      BY <2>2, <2>6, <2>7
  <1>7. ab = c
    <2>1. ab \in Seq(MsgByte) /\ c \in Seq(MsgByte) /\ Len(ab) = to /\ Len(c) = to
      BY <1>3, <1>4
    <2>2. \A k \in 1..to : ab[k] = c[k]
      BY <1>3, <1>6
    <2>3. Len(ab) = Len(c) /\ \A k \in 1..Len(ab) : ab[k] = c[k]
      BY <2>1, <2>2
    <2>. QED
      BY <2>1, <2>3, SeqEqual
  <1>. QED
    BY <1>7 DEF ab, a, b, c

\* The beginning of a new message behind whole ones: all of it, none of it, or
\* a part if it counts as torn from now on.
LEMMA AppendMessage ==
  \A cut, cut2 :
  \A all \in Seq(MsgByte), msgs \in Lengths, len \in Nat \ {0}, n \in Nat :
    /\ Known(all, msgs) /\ Whole(all, msgs, cut)
    /\ cut \subseteq cut2
    /\ n = 0 \/ n = len \/ Len(msgs) + 1 \in cut2
    => LET all2 == all \o Bytes(Len(msgs) + 1, 1, n)
           msgs2 == Append(msgs, len)
       IN Known(all2, msgs2) /\ Whole(all2, msgs2, cut2)
  <1>. TAKE cut, cut2
  <1>. TAKE all \in Seq(MsgByte), msgs \in Lengths, len \in Nat \ {0}, n \in Nat
  <1>. HAVE /\ Known(all, msgs) /\ Whole(all, msgs, cut)
            /\ cut \subseteq cut2
            /\ n = 0 \/ n = len \/ Len(msgs) + 1 \in cut2
  <1>. DEFINE new == Len(msgs) + 1
              bs == Bytes(new, 1, n)
              all2 == all \o bs
              msgs2 == Append(msgs, len)
              L == Len(all)
  <1>1. /\ bs \in Seq(MsgByte) /\ Len(bs) = n
        /\ \A k \in 1..n : bs[k] = <<new, k>>
    BY BytesBegin DEF Lengths
  <1>2. L \in Nat /\ Len(msgs) \in Nat /\ new \in Nat
    BY DEF Lengths
  <1>3. /\ Len(msgs2) = new /\ msgs2[new] = len
        /\ \A m \in 1..Len(msgs) : msgs2[m] = msgs[m]
    BY <1>2 DEF Lengths
  <1>4. /\ Len(all2) = L + n
        /\ \A p \in 1..L : all2[p] = all[p]
        /\ \A p \in (L + 1)..(L + n) : all2[p] = <<new, p - L>>
    <2>1. /\ Len(all2) = L + n
          /\ \A p \in 1..(L + n) : all2[p] = IF p <= L THEN all[p] ELSE bs[p - L]
      <3>. HIDE DEF bs
      <3>. QED
        BY <1>1, ConcatProperties
    <2>. HIDE DEF bs, all2
    <2>2. \A p \in (L + 1)..(L + n) : p - L \in 1..n
      BY <1>2
    <2>. QED
      BY <1>1, <1>2, <2>1, <2>2
  <1>5. \A p \in 1..L : all[p][1] \in 1..Len(msgs)
    BY DEF Known
  <1>. HIDE DEF all2, msgs2, bs, L, new
  <1>6. Known(all2, msgs2)
    BY <1>2, <1>3, <1>4, <1>5, SMTT(30) DEF Known, new
  <1>7. ASSUME NEW p \in 1..Len(all2)
        PROVE  LET m == all2[p][1]
                   k == all2[p][2]
               IN /\ k = 1 => p = 1 \/ all2[p - 1][1] < m
                  /\ k > 1 => p > 1 /\ all2[p - 1] = <<m, k - 1>>
                  /\ (p = Len(all2) \/ all2[p + 1][1] # m) => k = msgs2[m] \/ m \in cut2
    <2>1. CASE p \in 1..L
      <3>. DEFINE m == all[p][1]
                  k == all[p][2]
      <3>1. all2[p] = all[p] /\ m \in 1..Len(msgs)
        BY <1>4, <1>5, <2>1
      <3>2. /\ k = 1 => p = 1 \/ all[p - 1][1] < m
            /\ k > 1 => p > 1 /\ all[p - 1] = <<m, k - 1>>
            /\ (p = L \/ all[p + 1][1] # m) => k = msgs[m] \/ m \in cut
        BY <2>1 DEF Whole, L
      <3>3. p > 1 => all2[p - 1] = all[p - 1]
        BY <1>2, <1>4, <2>1
      <3>4. p # L => all2[p + 1] = all[p + 1] /\ Len(all2) # p
        BY <1>1, <1>2, <1>4, <2>1
      <3>5. msgs2[m] = msgs[m]
        BY <1>3, <3>1
      <3>. HIDE DEF m, k
      <3>6. k = 1 => p = 1 \/ all2[p - 1][1] < m
        BY <2>1, <1>2, <3>2, <3>3
      <3>7. k > 1 => p > 1 /\ all2[p - 1] = <<m, k - 1>>
        BY <3>2, <3>3
      <3>8. (p = Len(all2) \/ all2[p + 1][1] # m) => k = msgs2[m] \/ m \in cut2
        BY <3>2, <3>4, <3>5
      <3>. QED
        BY <3>1, <3>6, <3>7, <3>8 DEF m, k
    <2>2. CASE p \in (L + 1)..(L + n)
      <3>. DEFINE k == p - L
      <3>1. all2[p] = <<new, k>> /\ k \in 1..n
        BY <1>2, <1>4, <2>2
      <3>2. k = 1 => p = 1 \/ all2[p - 1][1] < new
        <4>. SUFFICES ASSUME p = L + 1, p # 1 PROVE all2[p - 1][1] < new
          BY <1>2, <2>2
        <4>1. L \in 1..L /\ p - 1 = L
          BY <1>2
        <4>2. all2[L] = all[L] /\ all[L][1] \in 1..Len(msgs)
          BY <1>4, <1>5, <4>1
        <4>. QED
          BY <1>2, <4>1, <4>2 DEF new
      <3>3. k > 1 => p > 1 /\ all2[p - 1] = <<new, k - 1>>
        <4>. SUFFICES ASSUME k > 1 PROVE p > 1 /\ all2[p - 1] = <<new, k - 1>>
          OBVIOUS
        <4>1. p - 1 \in (L + 1)..(L + n) /\ (p - 1) - L = k - 1 /\ p > 1
          BY <1>2, <2>2
        <4>. QED
          BY <1>4, <4>1
      <3>4. (p = Len(all2) \/ all2[p + 1][1] # new) => k = msgs2[new] \/ new \in cut2
        <4>1. CASE p = L + n
          BY <1>2, <1>3, <3>1, <4>1 DEF new
        <4>2. CASE p # L + n
          <5>1. p + 1 \in (L + 1)..(L + n)
            BY <1>2, <2>2, <4>2
          <5>2. all2[p + 1][1] = new
            BY <1>4, <5>1
          <5>. QED
            BY <1>4, <4>2, <5>2
        <4>. QED
          BY <4>1, <4>2
      <3>. HIDE DEF k
      <3>. QED
        BY <3>1, <3>2, <3>3, <3>4
    <2>. QED
      BY <1>1, <1>2, <1>4, <2>1, <2>2
  <1>8. Whole(all2, msgs2, cut2)
    BY <1>7 DEF Whole
  <1>. QED
    BY <1>6, <1>8 DEF all2, msgs2, bs, new

\* What is left when the end is dropped: its messages count as torn.
LEMMA DropEnd ==
  \A cut, cut2 :
  \A head, buf \in Seq(MsgByte), msgs \in Lengths :
    /\ Known(head \o buf, msgs) /\ Whole(head \o buf, msgs, cut)
    /\ cut \subseteq cut2
    /\ \A p \in 1..Len(buf) : buf[p][1] \in cut2
    => Known(head, msgs) /\ Whole(head, msgs, cut2)
  <1>. TAKE cut, cut2
  <1>. TAKE head, buf \in Seq(MsgByte), msgs \in Lengths
  <1>. DEFINE all == head \o buf
              F == Len(head)
              N == Len(buf)
  <1>. HAVE /\ Known(all, msgs) /\ Whole(all, msgs, cut)
            /\ cut \subseteq cut2
            /\ \A p \in 1..N : buf[p][1] \in cut2
  <1>1. F \in Nat /\ N \in Nat
    OBVIOUS
  <1>2. /\ Len(all) = F + N
        /\ \A p \in 1..(F + N) : all[p] = IF p <= F THEN head[p] ELSE buf[p - F]
    BY ConcatProperties
  <1>. HIDE DEF all, F, N
  <1>3. \A p \in 1..F : p \in 1..(F + N) /\ all[p] = head[p]
    BY <1>1, <1>2
  <1>4. N > 0 => F + 1 \in 1..(F + N) /\ all[F + 1] = buf[1] /\ buf[1][1] \in cut2
    <2>. SUFFICES ASSUME N > 0
                  PROVE  F + 1 \in 1..(F + N) /\ all[F + 1] = buf[1] /\ buf[1][1] \in cut2
      OBVIOUS
    <2>1. F + 1 \in 1..(F + N) /\ ~(F + 1 <= F) /\ (F + 1) - F = 1 /\ 1 \in 1..N
      BY <1>1
    <2>2. all[F + 1] = buf[(F + 1) - F]
      BY <1>2, <2>1
    <2>. QED
      BY <2>1, <2>2 DEF N
  <1>5. Known(head, msgs)
    BY <1>2, <1>3 DEF Known, F
  <1>6. ASSUME NEW p \in 1..F
        PROVE  LET m == head[p][1]
                   k == head[p][2]
               IN /\ k = 1 => p = 1 \/ head[p - 1][1] < m
                  /\ k > 1 => p > 1 /\ head[p - 1] = <<m, k - 1>>
                  /\ (p = F \/ head[p + 1][1] # m) => k = msgs[m] \/ m \in cut2
    <2>. DEFINE m == head[p][1]
                k == head[p][2]
    <2>1. /\ k = 1 => p = 1 \/ all[p - 1][1] < m
          /\ k > 1 => p > 1 /\ all[p - 1] = <<m, k - 1>>
          /\ (p = F + N \/ all[p + 1][1] # m) => k = msgs[m] \/ m \in cut
      BY <1>2, <1>3 DEF Whole
    <2>2. p > 1 => all[p - 1] = head[p - 1]
      BY <1>1, <1>3
    <2>3. p # F => all[p + 1] = head[p + 1] /\ p # F + N
      BY <1>1, <1>3
    <2>. HIDE DEF m, k
    <2>4. k = 1 => p = 1 \/ head[p - 1][1] < m
      BY <1>1, <2>1, <2>2
    <2>5. k > 1 => p > 1 /\ head[p - 1] = <<m, k - 1>>
      BY <2>1, <2>2
    <2>6. p = F => k = msgs[m] \/ m \in cut2
      <3>1. CASE N = 0
        BY <1>1, <2>1, <3>1
      <3>2. CASE N > 0
        BY <1>4, <2>1, <3>2
      <3>. QED
        BY <1>1, <3>1, <3>2
    <2>7. p # F /\ head[p + 1][1] # m => k = msgs[m] \/ m \in cut2
      BY <2>1, <2>3
    <2>. QED
      BY <2>4, <2>5, <2>6, <2>7 DEF m, k
  <1>7. Whole(head, msgs, cut2)
    BY <1>6 DEF Whole, F
  <1>. QED
    BY <1>5, <1>7

(***************************************************************************)
(* The steps.                                                              *)
(***************************************************************************)

LEMMA LogInitInv == LogInit => LogInv
  <1>. SUFFICES ASSUME LogInit PROVE LogInv
    OBVIOUS
  <1>1. logFile = <<>> /\ logBuffer = <<>> /\ messages = <<>>
    BY DEF LogInit
  <1>2. logFile \o logBuffer = <<>> /\ Len(<<>>) = 0 /\ 1..0 = {}
    BY <1>1
  <1>. QED
    BY <1>1, <1>2 DEF LogInv, FilesTypeOK, Known, Whole, Lengths

\* A flush moves bytes from the buffer to the file, or none.
LEMMA FlushMoves ==
  ASSUME FilesTypeOK, NEW ok \in BOOLEAN
  PROVE  LET f == _logFlushLogFile(ok)
         IN /\ f.file \in Seq(MsgByte) /\ f.rest \in Seq(MsgByte)
            /\ f.file \o f.rest = logFile \o logBuffer
            /\ f.rest = <<>> => f.file = logFile \o logBuffer
  <1>1. logFile \o logBuffer \in Seq(MsgByte) /\ <<>> \in Seq(MsgByte)
    BY DEF FilesTypeOK
  <1>2. (logFile \o logBuffer) \o <<>> = logFile \o logBuffer /\ logFile \o <<>> = logFile
    BY <1>1, ConcatEmptySeq DEF FilesTypeOK
  <1>3. CASE ok
    BY <1>1, <1>2, <1>3 DEF _logFlushLogFile
  <1>4. CASE ~ok
    BY <1>1, <1>2, <1>4 DEF _logFlushLogFile, FilesTypeOK
  <1>. QED
    BY <1>3, <1>4

LEMMA FlushKeeps ==
  ASSUME LogInv, NEW ok \in BOOLEAN, logFlushLogFile(ok)
  PROVE  LogInv'
  BY FlushMoves DEF LogInv, FilesTypeOK, logFlushLogFile

LEMMA CloseKeeps ==
  ASSUME LogInv, NEW ok \in BOOLEAN, logCloseLogFile(ok)
  PROVE  LogInv'
  <1>1. /\ logFile \in Seq(MsgByte) /\ logBuffer \in Seq(MsgByte) /\ messages \in Lengths
        /\ Known(logFile \o logBuffer, messages)
        /\ Whole(logFile \o logBuffer, messages, torn)
    BY DEF LogInv, FilesTypeOK
  <1>2. logBuffer' = <<>> /\ messages' = messages
    BY DEF logCloseLogFile
  <1>3. logFile' \in Seq(MsgByte) /\ logFile' \o logBuffer' = logFile'
    <2>1. logFile' \in Seq(MsgByte)
      BY FlushMoves DEF logCloseLogFile, LogInv, FilesTypeOK
    <2>. QED
      BY <1>2, <2>1, ConcatEmptySeq
  <1>4. CASE logBuffer # <<>> /\ ok
    BY <1>1, <1>2, <1>3, <1>4 DEF logCloseLogFile, _logFlushLogFile, LogInv, FilesTypeOK
  <1>5. CASE logBuffer = <<>>
    <2>1. logFile \o logBuffer = logFile
      BY <1>1, <1>5, ConcatEmptySeq
    <2>. QED
      BY <1>1, <1>2, <1>3, <1>5, <2>1 DEF logCloseLogFile, LogInv, FilesTypeOK
  <1>6. CASE logBuffer # <<>> /\ ~ok
    <2>1. logFile' = logFile /\ torn' = torn \cup {logBuffer[p][1] : p \in 1..Len(logBuffer)}
      BY <1>6 DEF logCloseLogFile, _logFlushLogFile
    <2>2. Known(logFile, messages) /\ Whole(logFile, messages, torn')
      <3>1. torn \subseteq torn' /\ \A p \in 1..Len(logBuffer) : logBuffer[p][1] \in torn'
        BY <2>1
      <3>. HIDE <2>1
      <3>. QED
        BY <1>1, <3>1, DropEnd
    <2>. QED
      BY <1>1, <1>2, <1>3, <2>1, <2>2 DEF LogInv, FilesTypeOK
  <1>. QED
    BY <1>4, <1>5, <1>6

\* What a message leaves in file and buffer, put together: the beginning of it
\* behind what was there.
Appends(len, n) ==
  /\ logFile' \in Seq(MsgByte) /\ logBuffer' \in Seq(MsgByte)
  /\ messages' = Append(messages, len)
  /\ logFile' \o logBuffer' = (logFile \o logBuffer) \o Bytes(Len(messages) + 1, 1, n)
  /\ torn \subseteq torn'
  /\ n = 0 \/ n = len \/ Len(messages) + 1 \in torn'

LEMMA AppendsKeeps ==
  ASSUME LogInv, NEW len \in Nat \ {0}, NEW n \in Nat, Appends(len, n)
  PROVE  LogInv'
  <1>1. logFile \o logBuffer \in Seq(MsgByte)
    BY DEF LogInv, FilesTypeOK
  <1>2. messages' \in Lengths
    BY DEF LogInv, FilesTypeOK, Appends, Lengths
  <1>3. Known(logFile' \o logBuffer', messages') /\ Whole(logFile' \o logBuffer', messages', torn')
    BY <1>1, AppendMessage DEF LogInv, FilesTypeOK, Appends
  <1>. QED
    BY <1>2, <1>3 DEF LogInv, FilesTypeOK, Appends

\* No byte appended.
LEMMA NothingAppended ==
  ASSUME LogInv
  PROVE  (logFile \o logBuffer) \o Bytes(Len(messages) + 1, 1, 0) = logFile \o logBuffer
  <1>1. Bytes(Len(messages) + 1, 1, 0) \in Seq(MsgByte) /\ Len(Bytes(Len(messages) + 1, 1, 0)) = 0
    <2>1. Len(messages) + 1 \in Nat
      BY DEF LogInv, FilesTypeOK, Lengths
    <2>. QED
      BY <2>1, BytesBegin
  <1>2. Bytes(Len(messages) + 1, 1, 0) = <<>>
    BY <1>1
  <1>3. logFile \o logBuffer \in Seq(MsgByte)
    BY DEF LogInv, FilesTypeOK
  <1>. QED
    BY <1>2, <1>3, ConcatEmptySeq

LEMMA MessageKeeps ==
  ASSUME LogInv, NEW len \in LogSizes, NEW opens \in BOOLEAN, NEW flushes \in BOOLEAN,
         NEW good \in 0..WholeBlocks(len), LogMessage(len, opens, flushes, good)
  PROVE  LogInv'
  <1>. DEFINE m == Len(messages) + 1
              f == _logFlushLogFile(flushes)
              B == LOG_BUF_SIZE
              blocks == WholeBlocks(len)
              all == logFile \o logBuffer
  <1>1. /\ len \in Nat \ {0} /\ B \in Nat \ {0} /\ m \in Nat
        /\ blocks \in Nat /\ good \in Nat /\ good <= blocks
        /\ good * B \in Nat /\ blocks * B \in Nat
        /\ good * B <= blocks * B /\ blocks * B <= len
    <2>1. len \in Nat \ {0} /\ B \in Nat \ {0} /\ m \in Nat
      BY LogAssumption DEF LogInv, FilesTypeOK, Lengths
    <2>2. blocks \in Nat /\ blocks * B <= len
      BY <2>1 DEF WholeBlocks
    <2>. HIDE DEF B, blocks
    <2>3. good \in Nat /\ good <= blocks
      BY <2>2 DEF blocks
    <2>. QED
      BY <2>1, <2>2, <2>3
  <1>2. /\ logFile \in Seq(MsgByte) /\ logBuffer \in Seq(MsgByte) /\ all \in Seq(MsgByte)
        /\ messages' = Append(messages, len)
    BY DEF LogInv, FilesTypeOK, LogMessage
  <1>3. /\ f.file \in Seq(MsgByte) /\ f.rest \in Seq(MsgByte)
        /\ f.file \o f.rest = all
        /\ f.rest = <<>> => f.file = all
    BY FlushMoves DEF LogInv
  <1>4. ASSUME logFile' \o logBuffer' = all, torn' = torn,
               logFile' \in Seq(MsgByte), logBuffer' \in Seq(MsgByte)
        PROVE  LogInv'
    <2>1. Appends(len, 0)
      BY <1>1, <1>2, <1>4, NothingAppended DEF Appends
    <2>. QED
      BY <1>1, <2>1, AppendsKeeps
  <1>5. ASSUME NEW n \in Nat, logFile' \in Seq(MsgByte), logBuffer' \in Seq(MsgByte),
               logFile' \o logBuffer' = all \o Bytes(m, 1, n), torn \subseteq torn',
               n = len \/ m \in torn'
        PROVE  LogInv'
    <2>1. Appends(len, n)
      BY <1>2, <1>5 DEF Appends
    <2>. QED
      BY <1>1, <2>1, AppendsKeeps
  <1>6. /\ Bytes(m, 1, len) \in Seq(MsgByte)
        /\ Bytes(m, 1, good * B) \in Seq(MsgByte) /\ Bytes(m, 1, blocks * B) \in Seq(MsgByte)
        /\ Bytes(m, blocks * B + 1, len) \in Seq(MsgByte)
        /\ Bytes(m, 1, blocks * B) \o Bytes(m, blocks * B + 1, len) = Bytes(m, 1, len)
    <2>. HIDE DEF m, B, blocks
    <2>. QED
      BY <1>1, BytesBegin, BytesEnd, BytesJoin
  <1>7. \A s, t, u \in Seq(MsgByte) :
           s \o t \in Seq(MsgByte) /\ (s \o t) \o u = s \o (t \o u)
    BY ConcatProperties, ConcatAssociative, SMTT(30)
  <1>8. \/ ~logOpenLogFile(opens) /\ UNCHANGED <<logFile, logBuffer, torn>>
        \/ /\ len < B /\ torn' = torn
           /\ \/ /\ logFile' = f.file
                 /\ logBuffer' = IF f.rest # <<>> THEN f.rest ELSE Bytes(m, 1, len)
              \/ logFile' = logFile /\ logBuffer' = logBuffer \o Bytes(m, 1, len)
        \/ f.rest # <<>> /\ logFile' = f.file /\ logBuffer' = f.rest /\ torn' = torn
        \/ /\ f.rest = <<>> /\ logFile' = f.file \o Bytes(m, 1, good * B)
           /\ torn' = IF good < blocks THEN torn \cup {m} ELSE torn
           /\ logBuffer' = IF good < blocks THEN <<>> ELSE Bytes(m, blocks * B + 1, len)
    BY DEF LogMessage, DirectWrites
  <1>. HIDE DEF m, f, B, blocks, all
  <1>9. CASE UNCHANGED <<logFile, logBuffer, torn>>
    BY <1>2, <1>4, <1>9 DEF all
  <1>10. CASE torn' = torn /\ logFile' = f.file
             /\ logBuffer' = IF f.rest # <<>> THEN f.rest ELSE Bytes(m, 1, len)
    <2>1. CASE f.rest # <<>>
      BY <1>3, <1>4, <1>10, <2>1
    <2>2. CASE f.rest = <<>>
      BY <1>1, <1>3, <1>5, <1>6, <1>10, <2>2
    <2>. QED
      BY <2>1, <2>2
  <1>11. CASE torn' = torn /\ logFile' = logFile /\ logBuffer' = logBuffer \o Bytes(m, 1, len)
    <2>1. logFile' \o logBuffer' = all \o Bytes(m, 1, len)
      <3>1. logFile' \o logBuffer' = logFile \o (logBuffer \o Bytes(m, 1, len))
        BY <1>11, Zenon
      <3>2. (logFile \o logBuffer) \o Bytes(m, 1, len)
              = logFile \o (logBuffer \o Bytes(m, 1, len))
        <4>1. logFile \in Seq(MsgByte) /\ logBuffer \in Seq(MsgByte)
          BY <1>2
        <4>2. Bytes(m, 1, len) \in Seq(MsgByte)
          BY <1>6
        <4>. QED
          BY <4>1, <4>2, <1>7
      <3>. QED
        BY <3>1, <3>2, Zenon DEF all
    <2>2. logBuffer' \in Seq(MsgByte)
      BY <1>2, <1>6, <1>11
    <2>. QED
      BY <1>1, <1>2, <1>5, <1>11, <2>1, <2>2
  <1>12. CASE f.rest # <<>> /\ logFile' = f.file /\ logBuffer' = f.rest /\ torn' = torn
    BY <1>3, <1>4, <1>12
  <1>13. CASE /\ f.rest = <<>> /\ logFile' = f.file \o Bytes(m, 1, good * B)
              /\ torn' = IF good < blocks THEN torn \cup {m} ELSE torn
              /\ logBuffer' = IF good < blocks THEN <<>> ELSE Bytes(m, blocks * B + 1, len)
    <2>1. logFile' = all \o Bytes(m, 1, good * B) /\ logFile' \in Seq(MsgByte)
      <3>1. f.file = all
        BY <1>3, <1>13
      <3>. QED
        BY <1>2, <1>6, <1>13, <1>7, <3>1, Zenon
    <2>2. CASE good < blocks
      <3>1. logBuffer' = <<>> /\ m \in torn' /\ torn \subseteq torn'
        BY <1>13, <2>2
      <3>2. logFile' \o logBuffer' = logFile' /\ logBuffer' \in Seq(MsgByte)
        BY <2>1, <3>1, ConcatEmptySeq
      <3>. QED
        BY <1>1, <1>5, <2>1, <3>1, <3>2
    <2>3. CASE ~(good < blocks)
      <3>1. good = blocks
        BY <1>1, <2>3
      <3>2. /\ logFile' = all \o Bytes(m, 1, blocks * B)
            /\ logBuffer' = Bytes(m, blocks * B + 1, len) /\ torn' = torn
        BY <1>13, <2>1, <2>3, <3>1
      <3>3. logFile' \o logBuffer'
              = all \o (Bytes(m, 1, blocks * B) \o Bytes(m, blocks * B + 1, len))
        BY <1>2, <1>6, <1>7, <3>2, ZenonT(30)
      <3>4. logFile' \o logBuffer' = all \o Bytes(m, 1, len) /\ logBuffer' \in Seq(MsgByte)
        BY <1>6, <3>2, <3>3
      <3>. QED
        BY <1>1, <1>5, <2>1, <3>2, <3>4
    <2>. QED
      BY <2>2, <2>3
  <1>. QED
    BY <1>8, <1>9, <1>10, <1>11, <1>12, <1>13

LEMMA LogNextKeeps == LogInv /\ [LogNext]_logvars => LogInv'
  <1>. SUFFICES ASSUME LogInv, [LogNext]_logvars PROVE LogInv'
    OBVIOUS
  <1>1. CASE UNCHANGED logvars
    BY <1>1 DEF logvars, LogInv, FilesTypeOK
  <1>. QED
    BY <1>1, MessageKeeps, FlushKeeps, CloseKeeps DEF LogNext

\* For every buffer size, and whichever flushes and direct writes fail, the log
\* file and the buffer of nxdt_log.c hold whole messages, in order, but for long
\* ones that were cut short by a failed write.
THEOREM LogIsAlwaysWhole == LogSpec => []LogIsWhole
  <1>1. LogInv => LogIsWhole
    BY DEF LogInv, Whole, LogIsWhole
  <1>. QED
    BY <1>1, LogInitInv, LogNextKeeps, PTL DEF LogSpec

(***************************************************************************)
(* The configuration.                                                      *)
(***************************************************************************)

\* A run of the program, and the next ones, as far as the configuration goes.
ConfigSpec == CfgInit /\ [][CfgNext]_cfgvars

Valid == [ConfigKeys -> ConfigValues]

\* What the file holds was written last, if that write succeeded; what is in
\* memory is complete, valid, and the same.
ConfigInv ==
    /\ configFile \in Objects \cup {BadFile}
    /\ lasting # BadFile => lasting \in Valid /\ configFile = lasting
    /\ ConfigSurvives

LEMMA DefaultIsValid == DefaultConfig \in Valid
  BY ConfigAssumption DEF DefaultConfig, DefaultValue, Valid

LEMMA ValidIsObject == Valid \subseteq Objects
  <1>. SUFFICES ASSUME NEW c \in Valid PROVE c \in Objects
    OBVIOUS
  <1>1. c \in [ConfigKeys -> ConfigValues \cup {"bad"}]
    BY DEF Valid
  <1>. QED
    BY <1>1 DEF Objects

\* configValidateJsonRootObject lets complete and valid objects through, and
\* no other.
LEMMA ValidationIsExact ==
    ASSUME NEW obj \in Objects
    PROVE  configValidateJsonRootObject(obj) <=> obj \in Valid
  <1>1. PICK K \in SUBSET (ConfigKeys \cup {"other"}) :
            obj \in [K -> ConfigValues \cup {"bad"}]
    BY DEF Objects
  <1>2. ASSUME configValidateJsonRootObject(obj) PROVE obj \in Valid
    <2>1. K = ConfigKeys /\ \A k \in K : obj[k] \in ConfigValues
      BY <1>1, <1>2 DEF configValidateJsonRootObject
    <2>. QED
      BY <1>1, <2>1 DEF Valid
  <1>3. obj \in Valid => configValidateJsonRootObject(obj)
    BY DEF Valid, configValidateJsonRootObject
  <1>. QED
    BY <1>2, <1>3

LEMMA ConfigInitInv == CfgInit => ConfigInv
  BY DEF CfgInit, ConfigInv, ConfigSurvives

\* Writing a valid configuration that is now the one in memory.
LEMMA WriteKeeps ==
    ASSUME configJson' \in Valid, NEW ok \in BOOLEAN,
           configWriteConfigJson(configJson', ok)
    PROVE  ConfigInv'
  BY ValidIsObject DEF configWriteConfigJson, ConfigInv, ConfigSurvives, Valid

LEMMA ConfigInitializeKeeps ==
    ASSUME ConfigInv, NEW ok \in BOOLEAN, configInitialize(ok)
    PROVE  ConfigInv'
  <1>1. CASE configFile # BadFile /\ configValidateJsonRootObject(configFile)
    <2>1. configFile \in Valid
      BY <1>1, ValidationIsExact DEF ConfigInv
    <2>. QED
      BY <1>1, <2>1 DEF configInitialize, ConfigInv, ConfigSurvives, Valid
  <1>2. CASE ~(configFile # BadFile /\ configValidateJsonRootObject(configFile))
    BY <1>2, DefaultIsValid, WriteKeeps DEF configInitialize
  <1>. QED
    BY <1>1, <1>2

LEMMA SetKeeps ==
    ASSUME ConfigInv, NEW k \in ConfigKeys, NEW v \in ConfigValues, NEW ok \in BOOLEAN,
           configSet(k, v, ok)
    PROVE  ConfigInv'
  <1>1. configJson' \in Valid
    BY DEF configSet, ConfigInv, ConfigSurvives, Valid
  <1>. QED
    BY <1>1, WriteKeeps DEF configSet

LEMMA ConfigNextKeeps == ConfigInv /\ [CfgNext]_cfgvars => ConfigInv'
  <1>. SUFFICES ASSUME ConfigInv, [CfgNext]_cfgvars PROVE ConfigInv'
    OBVIOUS
  <1>1. ASSUME NEW ok \in BOOLEAN, configResetSettings(ok) PROVE ConfigInv'
    BY <1>1, DefaultIsValid, WriteKeeps DEF configResetSettings
  <1>2. CASE configExit
    BY <1>2 DEF configExit, ConfigInv, ConfigSurvives
  <1>3. CASE UNCHANGED cfgvars
    BY <1>3 DEF cfgvars, ConfigInv, ConfigSurvives
  <1>. QED
    BY <1>1, <1>2, <1>3, ConfigInitializeKeeps, SetKeeps DEF CfgNext

\* Whatever file configInitialize finds and whichever writes fail, the running
\* program has a complete and valid configuration, and the settings whose write
\* succeeded are the ones it starts with again.
THEOREM ConfigAlwaysSurvives == ConfigSpec => []ConfigSurvives
  <1>1. ConfigInv => ConfigSurvives
    BY DEF ConfigInv
  <1>. QED
    BY <1>1, ConfigInitInv, ConfigNextKeeps, PTL DEF ConfigSpec

----------------------------------------------------------------------------
(* A task.                                                                 *)

\* How far the background thread and its file are.
ThreadInv ==
    /\ bg = "off" <=> status = "pending"
    /\ bg \in {"off", "size", "open"} => file = "none"
    /\ bg \in {"loop", "io", "publish"} => file = "partial"
    /\ bg = "io" => bgXfer # Blocks
    /\ bg = "end" => /\ bgResult = "exception" => cancelled
                     /\ bgResult = "error" => file # "whole"
                     /\ bgResult \notin {"error", "exception"} /\ ~cancelled => file = "whole"

\* The future, the status and the flag of the poll agree on the thread's end.
FutureInv ==
    /\ future \in {"ready", "taken"} => bg = "end"
    /\ status = "finished" => bg = "end"
    /\ finished => status = "finished"

\* One view is popped, and while the task runs only by a cancel.
FrameInv ==
    /\ frame = "none" <=> status = "pending"
    /\ frame = "popped" => pops = 1
    /\ frame # "popped" => pops = 0
    /\ frame = "popped" /\ status = "running" => cancelled
    /\ frame = "error" => bg = "end" /\ file # "whole" /\ result = "error" /\ status = "finished"
    /\ note = "complete" => bg = "end" /\ file = "whole"

ObjectInv ==
    /\ object # "alive" => frame = "popped"
    /\ object = "gone" => bg = "end"

IInv == TypeOK /\ ThreadInv /\ FutureInv /\ FrameInv /\ ObjectInv

LEMMA InitIInv == Init => IInv
  <1>. SUFFICES ASSUME Init PROVE IInv
    OBVIOUS
  <1>1. 0 \in 0..Blocks
    BY BlocksAssumption
  <1>2. TypeOK
    BY <1>1 DEF Init, TypeOK
  <1>3. ThreadInv /\ FutureInv /\ FrameInv /\ ObjectInv
    BY DEF Init, ThreadInv, FutureInv, FrameInv, ObjectInv
  <1>. QED
    BY <1>2, <1>3 DEF IInv

(***************************************************************************)
(* The background thread.                                                  *)
(***************************************************************************)

\* What a return of DoInBackground needs to keep the invariant.
LEMMA ReturnKeeps ==
    ASSUME IInv, NEW res \in {"ok", "error", "exception"}, Return(res),
           bg \notin {"off", "end"}, UNCHANGED <<status, result, total, xfer, bgXfer, uiVars,
                                                frameVars, object, crashed>>,
           res = "ok" => cancelled \/ (bgXfer = Blocks /\ file = "partial"),
           res # "ok" => file = "none" \/ bgXfer # Blocks
    PROVE  IInv'
  <1>1. cancelled' \in BOOLEAN /\ (cancelled => cancelled') /\ (res = "exception" => cancelled')
    BY DEF Return, IInv, TypeOK
  <1>2. bg' = "end" /\ bgResult' = res /\ future' = "ready"
    BY DEF Return
  <1>3. /\ file' \in {"none", "whole", "removed"}
        /\ res # "ok" => file' # "whole"
        /\ res = "ok" /\ ~cancelled' => file' = "whole"
    BY <1>1 DEF Return, IInv, TypeOK
  <1>. HIDE DEF Return
  <1>4. TypeOK'
    BY <1>1, <1>2, <1>3 DEF IInv, TypeOK, uiVars, frameVars
  <1>5. ThreadInv' /\ FutureInv'
    BY <1>1, <1>2, <1>3 DEF IInv, ThreadInv, FutureInv, uiVars
  <1>6. FrameInv' /\ ObjectInv'
    BY <1>1, <1>2 DEF IInv, FrameInv, ObjectInv, uiVars, frameVars
  <1>. QED
    BY <1>4, <1>5, <1>6 DEF IInv

\* A step of the thread short of its end: only its own place changes.
LEMMA ThreadStepKeeps ==
    ASSUME IInv, bg \notin {"off", "end"}, bg' \in {"open", "loop", "io", "publish"},
           bgXfer' \in 0..Blocks, total' \in {0, Blocks}, xfer' \in 0..Blocks,
           bg' = "open" => file' = "none",
           bg' # "open" => file' = "partial",
           bg' = "io" => bgXfer' # Blocks,
           UNCHANGED <<taskVars, future, bgResult, uiVars, frameVars, object, crashed>>
    PROVE  IInv'
  <1>1. TypeOK'
    BY DEF IInv, TypeOK, taskVars, uiVars, frameVars
  <1>2. ThreadInv' /\ FutureInv'
    BY DEF IInv, ThreadInv, FutureInv, taskVars, uiVars
  <1>3. FrameInv' /\ ObjectInv'
    BY DEF IInv, FrameInv, ObjectInv, taskVars, uiVars, frameVars
  <1>. QED
    BY <1>1, <1>2, <1>3 DEF IInv

LEMMA PublishTypes ==
    ASSUME TypeOK, NEW x \in 0..Blocks, PublishProgress(Blocks, x)
    PROVE  total' \in {0, Blocks} /\ xfer' \in 0..Blocks
  BY DEF PublishProgress, TypeOK

LEMMA BackgroundKeeps == IInv /\ Background => IInv'
  <1>. SUFFICES ASSUME IInv, Background PROVE IInv'
    OBVIOUS
  <1>0. Failures \subseteq {"error", "exception"} /\ Blocks \in Nat
    BY BlocksAssumption DEF Failures
  <1>1. CASE BgSize
    <2>1. file = "none"
      BY <1>1 DEF BgSize, IInv, ThreadInv
    <2>2. ASSUME NEW res \in Failures, Return(res), UNCHANGED <<total, xfer>> PROVE IInv'
      BY <1>0, <1>1, <2>1, <2>2, ReturnKeeps DEF BgSize
    <2>3. ASSUME bg' = "open", PublishProgress(Blocks, 0),
                 UNCHANGED <<cancelled, future, bgResult, file>>
          PROVE  IInv'
      <3>1. total' \in {0, Blocks} /\ xfer' \in 0..Blocks
        BY <1>0, <2>3, PublishTypes DEF IInv
      <3>2. bgXfer' \in 0..Blocks
        BY <1>1 DEF BgSize, IInv, TypeOK
      <3>. QED
        BY <1>1, <2>1, <2>3, <3>1, <3>2, ThreadStepKeeps DEF BgSize, taskVars
    <2>. QED
      BY <1>1, <2>2, <2>3 DEF BgSize
  <1>2. CASE BgOpen
    <2>1. file = "none" /\ bgXfer \in 0..Blocks /\ total \in {0, Blocks} /\ xfer \in 0..Blocks
      BY <1>2 DEF BgOpen, IInv, ThreadInv, TypeOK
    <2>2. ASSUME NEW res \in Failures, Return(res) PROVE IInv'
      BY <1>0, <1>2, <2>1, <2>2, ReturnKeeps DEF BgOpen
    <2>3. ASSUME bg' = "loop", file' = "partial", UNCHANGED <<cancelled, future, bgResult>>
          PROVE  IInv'
      BY <1>2, <2>1, <2>3, ThreadStepKeeps DEF BgOpen, taskVars
    <2>. QED
      BY <1>2, <2>2, <2>3 DEF BgOpen
  <1>3. CASE BgLoop
    <2>1. file = "partial" /\ bgXfer \in 0..Blocks /\ total \in {0, Blocks} /\ xfer \in 0..Blocks
      BY <1>3 DEF BgLoop, IInv, ThreadInv, TypeOK
    <2>2. CASE DumpEnds
      BY <1>3, <2>1, <2>2, ReturnKeeps DEF BgLoop, DumpEnds
    <2>3. CASE ~DumpEnds
      BY <1>3, <2>1, <2>3, ThreadStepKeeps DEF BgLoop, DumpEnds, taskVars
    <2>. QED
      BY <2>2, <2>3
  <1>4. CASE BgIo
    <2>1. /\ file = "partial" /\ bgXfer \in 0..Blocks /\ bgXfer # Blocks
          /\ total \in {0, Blocks} /\ xfer \in 0..Blocks
      BY <1>4 DEF BgIo, IInv, ThreadInv, TypeOK
    <2>2. ASSUME NEW res \in Failures, Return(res), bgXfer' = bgXfer PROVE IInv'
      BY <1>0, <1>4, <2>1, <2>2, ReturnKeeps DEF BgIo
    <2>3. ASSUME bg' = "publish", bgXfer' = bgXfer + 1,
                 UNCHANGED <<cancelled, future, bgResult, file>>
          PROVE  IInv'
      <3>1. bgXfer' \in 0..Blocks
        BY <1>0, <2>1, <2>3
      <3>. QED
        BY <1>4, <2>1, <2>3, <3>1, ThreadStepKeeps DEF BgIo, taskVars
    <2>. QED
      BY <1>4, <2>2, <2>3 DEF BgIo
  <1>5. CASE BgPublish
    <2>1. file = "partial" /\ bgXfer \in 0..Blocks
      BY <1>5 DEF BgPublish, IInv, ThreadInv, TypeOK
    <2>2. total' \in {0, Blocks} /\ xfer' \in 0..Blocks
      BY <1>5, <2>1, PublishTypes DEF BgPublish, IInv
    <2>. QED
      BY <1>5, <2>1, <2>2, ThreadStepKeeps DEF BgPublish, taskVars
  <1>. QED
    BY <1>1, <1>2, <1>3, <1>4, <1>5 DEF Background

(***************************************************************************)
(* The UI thread.                                                          *)
(***************************************************************************)

LEMMA ExecuteKeeps == IInv /\ Execute => IInv'
  BY DEF Execute, IInv, TypeOK, ThreadInv, FutureInv, FrameInv, ObjectInv

\* What a progress update may change.
LEMMA UpdateTypes ==
    ASSUME TypeOK, NEW st, NEW fin \in BOOLEAN, NEW res, OnProgressUpdate(st, fin, res)
    PROVE  /\ prevXfer' \in 0..Blocks /\ first' \in BOOLEAN /\ told' \in BOOLEAN
           /\ \/ UNCHANGED <<frame, pops>> /\ note' \in {note, "cancelled"}
              \/ ~cancelled /\ fin /\ res = "error" /\ frame' = "error" /\ UNCHANGED <<pops, note>>
              \/ /\ ~cancelled /\ fin /\ res # "error" /\ note' = "complete"
                 /\ frame' = "popped" /\ pops' = pops + 1
  <1>1. PICK second \in BOOLEAN :
          IF Progressed /\ ~Throttled(st, second)
          THEN prevXfer' = xfer /\ first' = FALSE /\ Listener(fin, res)
          ELSE UNCHANGED <<prevXfer, first, frameVars>>
    BY DEF OnProgressUpdate
  <1>2. CASE prevXfer' = xfer /\ first' = FALSE /\ Listener(fin, res)
    <2>1. told' \in BOOLEAN
      BY <1>2, Zenon DEF Listener, TypeOK
    <2>. QED
      BY <1>2, <2>1 DEF Listener, ListenerStops, Pop, TypeOK
  <1>3. CASE UNCHANGED <<prevXfer, first, frameVars>>
    BY <1>3 DEF frameVars, TypeOK
  <1>. QED
    BY <1>1, <1>2, <1>3

LEMMA PollProgressKeeps == IInv /\ PollProgress => IInv'
  <1>. SUFFICES ASSUME IInv, PollProgress PROVE IInv'
    OBVIOUS
  <1>1. finished = FALSE
    BY DEF PollProgress, Polls, IInv, TypeOK
  <1>2. /\ prevXfer' \in 0..Blocks /\ first' \in BOOLEAN /\ told' \in BOOLEAN
        /\ UNCHANGED <<frame, pops>> /\ note' \in {note, "cancelled"}
    BY <1>1, UpdateTypes DEF PollProgress, IInv
  <1>. QED
    BY <1>2 DEF PollProgress, IInv, TypeOK, ThreadInv, FutureInv, FrameInv, ObjectInv,
                taskVars, bgVars

LEMMA PollFinishKeeps == IInv /\ PollFinish => IInv'
  <1>. SUFFICES ASSUME IInv, PollFinish PROVE IInv'
    OBVIOUS
  <1>1. /\ status = "running" /\ future = "ready" /\ bg = "end" /\ object = "alive"
        /\ frame # "none" /\ frame # "error" /\ (~cancelled => frame # "popped")
    BY DEF PollFinish, Polls, IInv, FutureInv, FrameInv
  <1>2. /\ status' = "finished" /\ future' = "taken" /\ finished' = TRUE /\ longRunning' = FALSE
        /\ result' = Outcome /\ UNCHANGED <<cancelled, total, xfer, bgVars, object>>
    BY DEF PollFinish
  <1>3. crashed' \in BOOLEAN
    BY Zenon DEF PollFinish
  <1>4. /\ prevXfer' \in 0..Blocks /\ first' \in BOOLEAN /\ told' \in BOOLEAN
        /\ \/ UNCHANGED <<frame, pops>> /\ note' \in {note, "cancelled"}
           \/ ~cancelled /\ result' = "error" /\ frame' = "error" /\ UNCHANGED <<pops, note>>
           \/ /\ ~cancelled /\ result' # "error" /\ note' = "complete"
              /\ frame' = "popped" /\ pops' = pops + 1
    <2>1. CASE Outcome = "error"
      <3>1. OnProgressUpdate("finished", TRUE, "error")
        BY <2>1 DEF PollFinish, OnProgressUpdate, Listener
      <3>. QED
        BY <1>2, <2>1, <3>1, UpdateTypes DEF IInv
    <2>2. CASE Outcome = "ok"
      <3>1. OnProgressUpdate("finished", TRUE, "ok")
        BY <2>2 DEF PollFinish, OnProgressUpdate, Listener
      <3>. QED
        BY <1>2, <2>2, <3>1, UpdateTypes DEF IInv
    <2>. QED
      BY <2>1, <2>2 DEF Outcome
  <1>5. /\ result' \in {"ok", "error"} /\ (result' = "error" => file # "whole")
        /\ result' # "error" /\ ~cancelled => file = "whole"
    BY <1>1, <1>2 DEF Outcome, IInv, TypeOK, ThreadInv
  <1>6. TypeOK'
    <2>1. frame' \in {"none", "progress", "error", "popped"} /\ pops' \in Nat
      BY <1>4 DEF IInv, TypeOK
    <2>2. note' \in {"none", "complete", "cancelled"}
      BY <1>4 DEF IInv, TypeOK
    <2>3. prevXfer' \in 0..Blocks /\ first' \in BOOLEAN /\ told' \in BOOLEAN
      BY <1>4
    <2>4. result' \in {"ok", "error"}
      BY <1>5
    <2>. QED
      BY <1>2, <1>3, <2>1, <2>2, <2>3, <2>4, ZenonT(60) DEF IInv, TypeOK, bgVars
  <1>7. ThreadInv' /\ FutureInv'
    BY <1>1, <1>2 DEF IInv, ThreadInv, FutureInv, bgVars
  <1>8. FrameInv' /\ ObjectInv'
    BY <1>1, <1>2, <1>4, <1>5 DEF IInv, TypeOK, FrameInv, ObjectInv, bgVars
  <1>. QED
    BY <1>6, <1>7, <1>8 DEF IInv

LEMMA PressBKeeps == IInv /\ PressB => IInv'
  <1>. SUFFICES ASSUME IInv, PressB PROVE IInv'
    OBVIOUS
  <1>1. /\ cancelled' \in BOOLEAN /\ (cancelled => cancelled')
        /\ status = "running" => cancelled'
    BY DEF PressB, Cancelled, IInv, TypeOK
  <1>2. frame' = "popped" /\ pops' = 1 /\ frame \in {"progress", "error"}
    BY DEF PressB, Pop, IInv, FrameInv
  <1>. QED
    BY <1>1, <1>2
    DEF PressB, IInv, TypeOK, ThreadInv, FutureInv, FrameInv, ObjectInv, bgVars, uiVars

LEMMA DestroyKeeps == IInv /\ (Destroy \/ DestroyReturns) => IInv'
  <1>1. IInv /\ Destroy => IInv'
    <2>. SUFFICES ASSUME IInv, Destroy PROVE IInv'
      OBVIOUS
    <2>1. cancelled' \in BOOLEAN /\ (cancelled => cancelled')
      BY DEF Destroy, IInv, TypeOK
    <2>2. object' \in {"waiting", "gone"} /\ (object' = "gone" => bg = "end")
      BY DEF Destroy, MustWait, IInv, TypeOK, FrameInv, FutureInv
    <2>. QED
      BY <2>1, <2>2
      DEF Destroy, IInv, TypeOK, ThreadInv, FutureInv, FrameInv, ObjectInv, bgVars, uiVars,
          frameVars
  <1>2. IInv /\ DestroyReturns => IInv'
    BY DEF DestroyReturns, IInv, TypeOK, ThreadInv, FutureInv, FrameInv, ObjectInv, taskVars,
           bgVars, uiVars, frameVars
  <1>. QED
    BY <1>1, <1>2

(***************************************************************************)
(* The theorems.                                                           *)
(***************************************************************************)

LEMMA NextKeeps == IInv /\ [Next]_vars => IInv'
  <1>. SUFFICES ASSUME IInv, [Next]_vars PROVE IInv'
    OBVIOUS
  <1>1. CASE Background
    BY <1>1, BackgroundKeeps
  <1>2. CASE Ui
    BY <1>2, ExecuteKeeps, PollProgressKeeps, PollFinishKeeps, PressBKeeps, DestroyKeeps
    DEF Ui, Poll
  <1>3. CASE UNCHANGED vars
    BY <1>3 DEF vars, taskVars, bgVars, uiVars, frameVars, IInv, TypeOK, ThreadInv, FutureInv,
                FrameInv, ObjectInv
  <1>. QED
    BY <1>1, <1>2, <1>3 DEF Next

LEMMA TaskInvariant == Spec => []IInv
  <1>. QED
    BY InitIInv, NextKeeps, PTL DEF Spec

\* Every variable of a dump task and its frame keeps its type.
THEOREM TypeCorrect == Spec => []TypeOK
  <1>1. IInv => TypeOK
    BY DEF IInv
  <1>. QED
    BY <1>1, TaskInvariant, PTL

\* The frame says "complete" only of a whole file and shows an error only for
\* one that is not, whatever the B button and the thread do meanwhile.
THEOREM ReportIsAlwaysTrue == Spec => []ReportIsTrue
  <1>1. IInv => ReportIsTrue
    BY DEF IInv, FrameInv, ReportIsTrue
  <1>. QED
    BY <1>1, TaskInvariant, PTL

\* onCancel, from the B button and from the listener, pops one view in all.
THEOREM PopsOnlyOnce == Spec => []PopsOnce
  <1>1. IInv => PopsOnce
    BY DEF IInv, FrameInv, PopsOnce
  <1>. QED
    BY <1>1, TaskInvariant, PTL

\* ~AsyncTask never lets the object go before the thread's end.
THEOREM ThreadAlwaysEndsFirst == Spec => []ThreadEndsFirst
  <1>1. IInv => ThreadEndsFirst
    BY DEF IInv, ObjectInv, ThreadEndsFirst
  <1>. QED
    BY <1>1, TaskInvariant, PTL

=============================================================================
