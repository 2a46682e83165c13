------------------------------- MODULE Browser -------------------------------
(***************************************************************************)
(* The file browser of nxdt_rw_poc.c: a section of an NCA, a partition of  *)
(* the game card or a BIS partition is opened and mounted, its directories *)
(* are walked with the buttons, its files are dumped.                      *)
(***************************************************************************)
EXTENDS Devoptab

CONSTANTS
  PageSize, \* fsBrowser: page_size, 20 in the code
  BlockSize \* the size of a block of a dump

VARIABLE br \* fsBrowser

brvars == <<devvars, br>>

Outside == [at |-> "out", name |-> "", path |-> <<>>, entries |-> <<>>, selected |-> 0, scroll |-> 0,
            highlighted |-> 0, got |-> <<>>, leaks |-> 0]

----------------------------------------------------------------------------
(* Entries.                                                                *)

Rank(e) == IF e.type = "DIR" THEN 4 ELSE 8
fsBrowserDirEntrySortFunction(a, b) == Rank(a) < Rank(b) \/ (Rank(a) = Rank(b) /\ a.name < b.name)
fsBrowserGetDirEntries(name, path) ==
  LET f == On(name)
      es == RealEntries(f, path)
      shown(e) == [type |-> e.type, name |-> e.name, highlight |-> FALSE,
                   size |-> IF e.type = "REG" THEN Stat(f, Append(path, e.name)).value ELSE 0]
  IN  SortSeq([i \in DOMAIN es |-> shown(es[i])], fsBrowserDirEntrySortFunction)
Shown(name, path) ==
  [br EXCEPT !.at = "menu", !.name = name, !.path = path, !.selected = 0, !.scroll = 0,
             !.highlighted = 0, !.entries = fsBrowserGetDirEntries(name, path)]

----------------------------------------------------------------------------
(* Opening what is browsed.                                                *)

\* A section chosen by the user; other: the section of the base or the update
\* chosen with it, whose NCA is opened anew.  [ok, fs, opened, S].
MayBeOpened(N, id, other) ==
  LET ctx == N[id].ctx
  IN  /\ sec[id].on
      /\ ctx.section_type = "Nca0RomFs" => other = "none"
      /\ ctx.has_sparse_layer => other # "none" /\ N[other].nca.version >= N[id].nca.version
      /\ ctx.section_type = "PatchRomFs" => other # "none"
OtherOpened(N, other, ticket) ==
  IF other = "none" THEN [ok |-> TRUE, S |-> sec]
  ELSE With(ncaInitializeContext(N[other].nca, <<N[other].header>>, TRUE, ticket),
            LAMBDA nca : [ok |-> nca.ok,
                          S |-> [sec EXCEPT ![other] = IF nca.ok THEN Fresh(nca.sections[1], nca.keys)
                                                       ELSE NotMade]])
FsOpened(N, id, other, n) ==
  LET application == N[id].nca.version = 1
      patch == N[id].ctx.section_type = "PatchRomFs"
  IN  IF ~n.ok THEN NotOpened(n.S)
      ELSE IF N[id].ctx.section_type = "PartitionFs"
      THEN pfsInitializeContext(N, IF application /\ other # "none" /\ n.S[other].on THEN other ELSE id, n.S)
      ELSE romfsInitializeContext(N, IF patch THEN other ELSE id, IF patch THEN id ELSE other, n.S)
initializeNcaFsContext(N, id, other, ticket) ==
  IF ~MayBeOpened(N, id, other) THEN NotOpened(sec)
  ELSE FsOpened(N, id, other, OtherOpened(N, other, ticket))

\* room: newlib has a place for the device; named: the output path could be
\* made.  Without one the device stays mounted over what is freed.
browseNintendoContentArchiveFsSection(id, other, bad, ticket, room, named) ==
  /\ br.at = "out"
  /\ \E r \in {initializeNcaFsContext(World(bad), id, other, ticket)} :
       /\ sec' = r.S
       /\ \E name \in {IF r.fs.kind = "pfs" THEN "ncapfs" ELSE "ncaromfs"} :
          \E d \in {devoptabMountDevice(devices, devtab, r.fs, name, room)} :
          \E on \in {r.ok /\ d.ok} :
            /\ devtab' = IF on THEN d.devtab ELSE devtab
            /\ devices' = IF on THEN IF named THEN d.devices ELSE Forgotten(d.devices) ELSE devices
            /\ fs' = IF on /\ named THEN r.fs ELSE NoFs
            /\ sto' = IF on /\ named THEN StoragesAfter(r) ELSE sto
            /\ br' = IF ~on THEN br
                     ELSE IF named THEN [br EXCEPT !.at = "open", !.name = name]
                     ELSE [br EXCEPT !.leaks = @ + 1]
  /\ UNCHANGED <<last, bis, file, iter, answer>>
browseGameCardHfsPartition(room, named) ==
  LET d == devoptabMountDevice(devices, devtab, gamecardGetHashFileSystemContext, "hfs", room)
  IN  /\ br.at = "out"
      /\ devtab' = d.devtab
      /\ devices' = IF named THEN d.devices ELSE Forgotten(d.devices)
      /\ fs' = IF d.ok /\ named THEN gamecardGetHashFileSystemContext ELSE NoFs
      /\ br' = IF ~d.ok THEN br
               ELSE IF named THEN [br EXCEPT !.at = "open", !.name = "hfs"]
               ELSE [br EXCEPT !.leaks = @ + 1]
      /\ UNCHANGED <<stovars, bis, file, iter, answer>>
browseEmmcPartition(name) ==
  /\ br.at = "out" /\ bisStorageGetMountNameByBisPartitionId(name)
  /\ br' = [br EXCEPT !.at = "open", !.name = name]
  /\ UNCHANGED devvars
FirstEntries ==
  /\ br.at = "open"
  /\ br' = Shown(br.name, <<>>)
  /\ UNCHANGED devvars

\* Leaving unmounts by name and frees what was opened; a BIS partition stays.
Unmounted == devoptabUnmountDevice(devices, devtab, br.name)
LeaveBrowser ==
  /\ br' = [Outside EXCEPT !.leaks = br.leaks]
  /\ IF On(br.name).kind = "fat" THEN UNCHANGED <<devices, devtab, fs, sto>>
     ELSE /\ devices' = Forgotten(Unmounted.devices) /\ devtab' = Unmounted.devtab
          /\ FreeFs
  /\ UNCHANGED <<sec, last, bis, file, iter, answer>>

----------------------------------------------------------------------------
(* The buttons of fsBrowser.                                               *)

Count == Len(br.entries)
Selected == br.entries[br.selected + 1]
Press(next) == br.at = "menu" /\ br' = next /\ UNCHANGED devvars
EnterDirectory ==
  /\ Count > 0 /\ Selected.type = "DIR"
  /\ Press(Shown(br.name, Append(br.path, Selected.name)))
ParentDirectory == br.path # <<>> /\ Press(Shown(br.name, Front(br.path)))
ButtonB == br.at = "menu" /\ br.path = <<>> /\ LeaveBrowser
ButtonPlus == br.at = "menu" /\ LeaveBrowser

Highlight(h(_, _)) == [i \in DOMAIN br.entries |-> [br.entries[i] EXCEPT !.highlight = h(i, @)]]
ToggleEntry ==
  LET now == ~Selected.highlight
  IN  /\ Count > 0
      /\ Press([br EXCEPT !.entries[br.selected + 1].highlight = now,
                          !.highlighted = IF now THEN @ + 1 ELSE @ - 1])
InvertSelection ==
  /\ Count > 0
  /\ Press([br EXCEPT !.entries = Highlight(LAMBDA i, h : ~h),
                      !.highlighted = FoldLeft(LAMBDA n, e : IF e.highlight THEN n - 1 ELSE n + 1,
                                               @, br.entries)])
HighlightAll(on) ==
  /\ Count > 0
  /\ Press([br EXCEPT !.entries = Highlight(LAMBDA i, h : on), !.highlighted = IF on THEN Count ELSE 0])

\* wrap: the button, not a stick that is held.
MovedDown(wrap) ==
  LET next == br.selected + 1
  IN  IF next >= Count THEN IF wrap THEN [br EXCEPT !.selected = 0, !.scroll = 0] ELSE br
      ELSE [br EXCEPT !.selected = next,
                      !.scroll = IF next >= @ + PageSize \div 2 /\ Count > @ + PageSize THEN @ + 1 ELSE @]
MovedUp(wrap) ==
  LET next == br.selected - 1
  IN  IF next < 0
      THEN IF ~wrap THEN br
           ELSE [br EXCEPT !.selected = Count - 1, !.scroll = IF Count >= PageSize THEN Count - PageSize ELSE 0]
      ELSE [br EXCEPT !.selected = next, !.scroll = IF next < @ + PageSize \div 2 /\ @ > 0 THEN @ - 1 ELSE @]
MoveDown(wrap) == Count > 0 /\ Press(MovedDown(wrap))
MoveUp(wrap) == Count > 0 /\ Press(MovedUp(wrap))

----------------------------------------------------------------------------
(* Dumps.                                                                  *)

\* The size announced for the highlighted entries; their dump is left to the
\* threads, and the selection is cleared after it.
HighlightedSize ==
  SumOf([i \in DOMAIN br.entries |->
           LET e == br.entries[i]
           IN  IF ~e.highlight THEN 0
               ELSE IF e.type = "DIR"
               THEN utilsGetDirectorySize(On(br.name), Append(br.path, e.name))
               ELSE e.size])
fsBrowserDumpHighlightedEntries ==
  /\ br.at = "menu" /\ br.highlighted > 0
  /\ answer' = [Answer("dump", "0", HighlightedSize) EXCEPT !.data = br.entries]
  /\ br' = [br EXCEPT !.entries = Highlight(LAMBDA i, h : FALSE), !.highlighted = 0]
  /\ UNCHANGED <<Tables, file, iter>>

\* One file: opened, then read block by block until its size was read or a
\* read failed, then closed.  ready: the output was accepted.
fsBrowserDumpFile(ready) ==
  LET err == Open1(On(br.name), Append(br.path, Selected.name), FALSE).err
  IN  /\ br.at = "menu" /\ Count > 0 /\ Selected.type = "REG"
      /\ IF err = "0" /\ ready
         THEN /\ Open(br.name, Append(br.path, Selected.name), FALSE)
              /\ br' = [br EXCEPT !.at = "file", !.got = <<>>]
         ELSE UNCHANGED brvars
fsBrowserFileReadBlock(bad) ==
  LET left == Selected.size - Len(br.got)
  IN  /\ br.at = "file" /\ left > 0
      /\ ReadFile(AtMost(BlockSize, left), bad)
      /\ br' = IF answer'.err = "0" THEN [br EXCEPT !.got = @ \o answer'.data]
               ELSE [br EXCEPT !.at = "failed"]
fsBrowserFileDumped ==
  /\ br.at = "failed" \/ (br.at = "file" /\ Len(br.got) = Selected.size)
  /\ pfsdev_close
  /\ br' = [br EXCEPT !.at = "menu", !.got = <<>>]

\* The program ends: the devices that are left are unmounted.
utilsCloseResources ==
  LET r == devoptabUnmountAllDevices(devices, devtab)
  IN  /\ br.at = "out" /\ bis = {}
      /\ devices' = r.devices /\ devtab' = r.devtab
      /\ br' = Outside
      /\ UNCHANGED <<fsvars, bis, file, iter, answer>>

BrowserInit == DevInit /\ br = Outside
=============================================================================
