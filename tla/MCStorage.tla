----------------------------- MODULE MCStorage -----------------------------
(***************************************************************************)
(* Nine sections with every kind of crypto and every stack of storages,    *)
(* small enough that every block of them is read, and the file systems on  *)
(* them, on a game card and on a BIS partition, browsed; and the system saves  *)
(* of MCSaves, read by a client.                                           *)
(***************************************************************************)
EXTENDS Browser, MCSaves

VARIABLES
  mode,  \* what this behaviour is about: reads of a storage, the browser, or saves
  family \* the sections it is about

mcvars == <<brvars, save, reply, mode, family>>

Off == NcaHeaderSize + NcaFsHeaderSize \* where the section of every content starts
HashSize == 3

\* An NCA whose section holds the given cells, its sparse table after it.
Nca(version, cells, tail) ==
  [content |-> [i \in 1 .. Off |-> Cell(<<"h", i>>, Plain)] \o cells \o tail, bad |-> {},
   format_version |-> version, header_ok |-> TRUE, rights_id |-> FALSE, program_id |-> 1,
   content_type |-> "Program", id_offset |-> 0, version |-> 1]
NoBucket == [sane |-> TRUE, offset |-> 0, size |-> 0, entry_count |-> 0]
NoSparse == [sane |-> TRUE, generation |-> 0, physical |-> 0, offset |-> 0, size |-> 0,
             entry_count |-> 0]
Bucket(t) == [sane |-> TRUE, offset |-> t.offset, size |-> t.size, entry_count |-> t.entry_count]
Layers(n, end) == <<[offset |-> 0, size |-> n], [offset |-> n, size |-> end - n]>>
Header(type, hash, enc, idx, size, layers) ==
  [fs_type |-> type, hash_type |-> hash, encryption_type |-> enc, idx |-> idx, start |-> Off,
   size |-> size, upper_iv |-> 9, hash_ok |-> TRUE, layers |-> layers, indirect |-> FALSE,
   aes_ctr_ex |-> FALSE, sparse |-> NoSparse, compression |-> NoBucket]
Table(name, offset, n, gen, entries, end) ==
  LET last1(k) == IF k * EntriesPerSet < Len(entries) THEN k * EntriesPerSet ELSE Len(entries)
      set(k) == SubSeq(entries, (k - 1) * EntriesPerSet + 1, last1(k))
      of(sets) ==
        [name |-> name, offset |-> offset, size |-> 1 + sets, node_size |-> 1, gen |-> gen,
         entry_count |-> n,
         table |-> [offsets |-> [k \in 1 .. sets |-> entries[(k - 1) * EntriesPerSet + 1].virtual],
                    end |-> end,
                    sets |-> [k \in 1 .. sets |->
                                [index |-> k - 1, entries |-> set(k),
                                 end |-> IF k = sets THEN end
                                         ELSE entries[k * EntriesPerSet + 1].virtual]]]]
  IN  of(bktrGetEntrySetCount(Len(entries)))
Padding == <<Cell(<<"pad", 1>>, Plain)>> \* contents are whole AES blocks
Ind(v, p, i) == [virtual |-> v, physical |-> p, index |-> i]
Ex(v, g, c) == [virtual |-> v, gen |-> g, encrypted |-> c]
Com(v, p, m, n) == [virtual |-> v, physical |-> p, method |-> m, physical_size |-> n]
NoTables == [Sparse |-> 0, Indirect |-> 0, AesCtrEx |-> 0, Compressed |-> 0]
\* The cells of a table stored at position pos of the keystream of generation gen.
Stored(t, gen, pos) == [i \in 1 .. t.size |-> Cell(<<t.name, i>>, Ctr(gen, pos + i - 1))]
Section(nca, header, tables) == [nca |-> nca, header |-> header, tables |-> tables]

NoneSection ==
  Section(Nca(3, [i \in 1 .. 6 |-> Cell(<<"n", i>>, Plain)], <<>>), 
          Header("PartitionFs", "Auto", "Auto", 2, 6, Layers(1, 6)), NoTables)
XtsSection(version) ==
  Section(Nca(version, [i \in 1 .. 16 |->
                          Cell(<<"x", i>>, Xts(IF version = 0 THEN Off + i - 1 - NcaHeaderSize
                                               ELSE i - 1))], <<>>),
          Header("RomFs", IF version = 0 THEN "HierarchicalSha256" ELSE "HierarchicalIntegrity", "AesXts",
                 1, 15, Layers(1, 15)), NoTables)
SkipSection ==
  Section([Nca(3, [i \in 1 .. 14 |-> Cell(<<"k", i>>, IF i <= HashSize THEN Plain
                                                       ELSE Ctr(9, Off + i - 1))], <<>>)
             EXCEPT !.rights_id = TRUE],
          Header("PartitionFs", "HierarchicalSha256", "AesCtrSkipLayerHash", 0, 13,
                 Layers(HashSize, 13)), NoTables)

SparseTable ==
  Table("st", Off + 12, 4, 7, <<Ind(0, 0, 0), Ind(4, 0, 1), Ind(8, 4, 0), Ind(14, 0, 1)>>, 18)
SparseSection(sparse) ==
  LET at(p) == IF p < 4 THEN p ELSE p + 4 \* the virtual offset of the byte stored at p
  IN  Section(Nca(3, [i \in 1 .. 10 |-> Cell(<<"b", i>>, Ctr(9, Off + at(i - 1)))]
                      \o [i \in 1 .. 2 |-> Cell(<<"pad", i>>, Plain)],
                  Stored(sparse, 7, Off + 12)),
              [Header("RomFs", "Auto", "Auto", 1, 10, Layers(1, 18)) EXCEPT
                 !.sparse = [sane |-> TRUE, generation |-> 1, physical |-> Off, offset |-> 12,
                             size |-> sparse.size, entry_count |-> 4]],
              [NoTables EXCEPT !.Sparse = sparse])
BaseSection ==
  Section(Nca(3, [i \in 1 .. 18 |-> Cell(<<"b", i>>, Ctr(9, Off + i - 1))], <<>>),
          Header("RomFs", "Auto", "Auto", 1, 18, Layers(1, 18)), NoTables)

PatchIndirect == Table("it", 12, 5, 9, <<Ind(0, 2, 0), Ind(3, 5, 1), Ind(7, 9, 0), Ind(10, 0, 1),
                                          Ind(13, 12, 0)>>, 16)
PatchCtrEx == Table("et", 16, 3, 9, <<Ex(0, 5, TRUE), Ex(4, 6, TRUE), Ex(8, 0, FALSE)>>, 12)
PatchCells(indirect, ctr_ex) ==
  [i \in 1 .. 12 |-> Cell(<<"p", i>>, IF i > 8 THEN Plain
                                       ELSE Ctr(IF i <= 4 THEN 5 ELSE 6, Off + i - 1))]
    \o Stored(indirect, 9, Off + 12) \o Stored(ctr_ex, 9, Off + 16) \o Padding
PatchSection(indirect, ctr_ex) ==
  Section([Nca(3, PatchCells(indirect, ctr_ex), <<>>) EXCEPT !.version = 2],
          [Header("RomFs", "AutoSha3", "AesCtrEx", 1, 19, Layers(1, 16)) EXCEPT
             !.indirect = TRUE, !.aes_ctr_ex = TRUE],
          [NoTables EXCEPT !.Indirect = indirect, !.AesCtrEx = ctr_ex])

Blob(n) == [k \in 1 .. n |-> <<"z", k>>]
CompTable == Table("ct", 10, 4, 9, <<Com(0, 0, "None", 0), Com(3, 0, "Zero", 1),
                                      Com(5, 4, "LZ4", 2), Com(10, 7, "None", 0)>>, 13)
CompSection(compressed) ==
  Section(Nca(3, [i \in 1 .. HashSize + 10 |->
                    Cell(IF i = HashSize + 5 THEN <<"lz4", Blob(5), 1, 2>>
                         ELSE IF i = HashSize + 6 THEN <<"lz4", Blob(5), 2, 2>> ELSE <<"c", i>>,
                         Ctr(9, Off + i - 1))]
                 \o Stored(compressed, 9, Off + HashSize + 10), <<>>),
          [Header("RomFs", "HierarchicalIntegrity", "AesCtr", 1, HashSize + 13,
                  Layers(HashSize, HashSize + 13)) EXCEPT !.compression = Bucket(compressed)],
          [NoTables EXCEPT !.Compressed = compressed])

\* The update of a compressed section: its table and the second compressed
\* block come from the patch, the first one from the base.
PcompTable == Table("pt", 12, 4, 9, <<Com(0, 4, "LZ4", 2), Com(5, 6, "None", 0),
                                       Com(8, 10, "LZ4", 2), Com(12, 0, "None", 0)>>, 15)
PcompIndirect == Table("it", 12, 3, 9, <<Ind(0, 0, 0), Ind(HashSize + 7, 0, 1),
                                          Ind(HashSize + 15, 8, 1)>>, HashSize + 19)
PcompCtrEx == Table("et", 15, 2, 9, <<Ex(0, 5, TRUE), Ex(6, 6, TRUE)>>, 12)
PcompCells(indirect, ctr_ex) ==
  [i \in 1 .. 12 |-> Cell(IF i = 4 THEN <<"lz4", Blob(4), 1, 2>>
                          ELSE IF i = 5 THEN <<"lz4", Blob(4), 2, 2>>
                          ELSE IF i >= 6 /\ i <= 8 THEN <<"pt", i - 5>> ELSE <<"q", i>>,
                          Ctr(IF i <= 6 THEN 5 ELSE 6, Off + i - 1))]
    \o Stored(indirect, 9, Off + 12) \o Stored(ctr_ex, 9, Off + 15) \o Padding
PcompSection(indirect, ctr_ex, compressed) ==
  Section([Nca(3, PcompCells(indirect, ctr_ex), <<>>) EXCEPT !.version = 2],
          [Header("RomFs", "HierarchicalIntegrity", "AesCtrEx", 1, 17,
                  Layers(HashSize, HashSize + 19)) EXCEPT
             !.indirect = TRUE, !.aes_ctr_ex = TRUE, !.compression = Bucket(compressed)],
          [NoTables EXCEPT !.Indirect = indirect, !.AesCtrEx = ctr_ex,
                           !.Compressed = compressed])

MCSections == {"none", "xts", "xts0", "skip", "sparse", "base", "patch", "comp", "pcomp"}
MCSection(id) ==
  CASE id = "none" -> NoneSection
    [] id \in {"xts", "xts0"} -> XtsSection(IF id = "xts" THEN 2 ELSE 0)
    [] id = "skip" -> SkipSection [] id = "base" -> BaseSection
    [] id = "sparse" -> SparseSection(SparseTable)
    [] id = "patch" -> PatchSection(PatchIndirect, PatchCtrEx)
    [] id = "comp" -> CompSection(CompTable)
    [] id = "pcomp" -> PcompSection(PcompIndirect, PcompCtrEx, PcompTable)
WithContext(s) ==
  [nca |-> s.nca, header |-> s.header, tables |-> s.tables,
   ctx |-> ncaInitializeFsSectionContext(s.nca, s.header)]
MCImage == [id \in MCSections |-> WithContext(MCSection(id))]
MCBadBytes == {{}, {Off + 1}, {Off + 6}, {Off + 9}}

\* What is opened together: a section alone, or an update and its base.
Families ==
  {<<id>> : id \in {"none", "xts", "xts0", "skip", "sparse", "comp", "patch"}}
    \cup {<<"base", "patch">>, <<"sparse", "patch">>, <<"comp", "pcomp">>}
Top == family[Len(family)]
BaseStorage == IF Len(family) = 2 THEN sto[family[1]] ELSE Closed

\* The file systems.  Names are numbers, in the order of the alphabet.
Part(name, offset, size) == [name |-> name, offset |-> offset, size |-> size]
PartitionLayout == [header_size |-> 2, entries |-> <<Part(2, 0, 3), Part(1, 3, 2), Part(3, 5, 0)>>]
Dir(parent, name, next, dir, file1, bucket) ==
  [parent |-> parent, name |-> name, next |-> next, dir |-> dir, file |-> file1, bucket |-> bucket]
File(parent, name, next, offset, size, bucket) ==
  [parent |-> parent, name |-> name, next |-> next, offset |-> offset, size |-> size, bucket |-> bucket]
RomLayout ==
  [tables |-> [i \in 1 .. 5 |-> [offset |-> i - 1, size |-> 1]], body |-> 5,
   dirs |-> 0 :> Dir(0, 0, Void, 2, 0, Void) @@ 1 :> Dir(0, 1, Void, Void, 1, Void)
              @@ 2 :> Dir(0, 2, 1, Void, Void, 0),
   files |-> 0 :> File(0, 3, Void, 0, 4, Void) @@ 1 :> File(1, 3, 2, 4, 3, Void)
               @@ 2 :> File(1, 4, Void, 7, 0, 0),
   dir_bucket |-> 0 :> 2 @@ 1 :> 1, file_bucket |-> 0 :> 1 @@ 1 :> 2]
MCLayout ==
  [id \in {"base", "patch", "sparse", "xts0", "skip", "none", "card", "fat"} |->
     IF id \in {"skip", "none", "card"} THEN PartitionLayout ELSE RomLayout]
MCCard == [i \in 1 .. 8 |-> <<"card", i>>]
MCDrive == [i \in 1 .. 8 |-> <<"fat", i>>]
MCPartitions == <<"bissafe", "bissystem">>
Names == {"ncapfs", "ncaromfs", "hfs"} \cup ToSet(MCPartitions)

\* What is chosen in the browser: a section, and the base or the update of it.
Selections ==
  {<<"skip", "none">>, <<"xts0", "none">>, <<"base", "none">>, <<"base", "patch">>,
   <<"patch", "base">>, <<"patch", "none">>, <<"sparse", "patch">>, <<"sparse", "none">>}

MCInit ==
  /\ StorageInit /\ BrowserInit /\ SaveInit
  /\ devtab = [name \in Names |-> 0]
  /\ \/ mode = "storage" /\ family \in Families
     \/ mode = "browse" /\ family \in Selections
     \/ mode = "save" /\ family = <<"none">>
OpenStorage == \E bad \in BadBytes :
  \/ /\ Len(family) = 2 /\ ~IsOpen(sto[family[1]])
     /\ ncaStorageInitializeContext(family[1], Closed, bad)
  \/ /\ Len(family) = 2 => IsOpen(sto[family[1]])
     /\ ncaStorageInitializeContext(Top, BaseStorage, bad)
ReadBlock == \E offset \in 0 .. 19, size \in 0 .. 19, bad \in BadBytes :
  /\ IsOpen(sto[Top])
  /\ offset + size <= StorageEnd(sto[Top]) + 1
  /\ sec[Top].keys
  /\ bad # {} => size \in 4 .. 8
  /\ ncaStorageRead(Top, offset, size, bad)
AskUpdated == \E offset \in 0 .. 19, size \in 1 .. 19 :
  /\ IsOpen(sto[Top]) /\ offset + size <= StorageEnd(sto[Top])
  /\ ncaStorageIsBlockWithinPatchStorageRange(Top, offset, size)
Free == ncaStorageFreeContext(ToSet(family))
Renew == \E id \in ToSet(family), bad \in {{}, {1}}, ticket \in BOOLEAN :
  /\ sec[id] # Fresh(Image[id].ctx, TRUE) /\ (ticket \/ Image[id].nca.rights_id)
  /\ OpenNca(id, bad, ticket)
\* The caller takes the result of a call before it makes the next one.
Return == last.op # "idle" /\ last' = Idle /\ UNCHANGED <<sec, sto>>
StorageNext ==
  /\ mode = "storage"
  /\ \/ last.op = "idle" /\ (OpenStorage \/ ReadBlock \/ AskUpdated \/ Free \/ Renew)
     \/ Return
  /\ UNCHANGED <<fs, devices, devtab, bis, file, iter, answer, br, save, reply, mode, family>>

\* Bounds: MaxLeaks failures to name the output; a browser opened with other
\* devices mounted is left again; the client that uses a device by itself does
\* so from the first screen, and not on an update; the card and the BIS
\* partitions are there with one of the selections.
MaxLeaks == 2
CardAndBis == family = <<"skip", "none">>
AloneMounted == br.leaks = 0 /\ (bis # {} <=> On(br.name).kind = "fat")
SelectedSection == family[1]
NewSection ==
  /\ br.at = "out" /\ \E ticket \in BOOLEAN :
       /\ sec[SelectedSection] # Fresh(Image[SelectedSection].ctx, TRUE)
       /\ (ticket \/ Image[SelectedSection].nca.rights_id)
       /\ OpenNca(SelectedSection, {}, ticket)
  /\ UNCHANGED <<fs, devices, devtab, bis, file, iter, answer, br>>
Browse == \E named, room \in BOOLEAN :
  /\ named \/ br.leaks < MaxLeaks
  /\ room \/ named
  /\ \/ CardAndBis /\ browseGameCardHfsPartition(room, named)
     \/ \E bad \in {{}, {1}, {Off + 1}}, ticket \in {TRUE, ~Image[family[1]].nca.rights_id} :
          browseNintendoContentArchiveFsSection(family[1], family[2], bad, ticket, room, named)
Bis ==
  /\ br.at = "out" /\ CardAndBis
  /\ \/ \E readable \in {{"bissafe"}, ToSet(MCPartitions)} : bisStorageInitialize(readable)
     \/ bisStorageExit
  /\ UNCHANGED br
Buttons ==
  \/ ButtonB \/ ButtonPlus
  \/ /\ br.at = "menu" /\ AloneMounted
     /\ \/ EnterDirectory \/ ParentDirectory \/ ToggleEntry \/ InvertSelection
        \/ \E on \in BOOLEAN : HighlightAll(on)
        \/ \E wrap \in BOOLEAN : MoveDown(wrap) \/ MoveUp(wrap)
        \/ fsBrowserDumpHighlightedEntries
        \/ \E ready \in BOOLEAN : fsBrowserDumpFile(ready)
Blocks == \/ \E bad \in {{}, {1, 2, Off + 6}} : fsBrowserFileReadBlock(bad)
          \/ fsBrowserFileDumped
FirstScreen ==
  br.at = "menu" /\ br.path = <<>> /\ br.highlighted = 0 /\ br.selected = 0 /\ AloneMounted
Paths == {<<>>, <<1>>, <<2>>, <<3>>, <<1, 3>>, <<1, 4>>, <<2, 3>>}
Client ==
  /\ FirstScreen \/ file.open \/ iter.open
  /\ br.at = "menu" /\ family[2] = "none"
  /\ \/ \E path \in Paths, write \in BOOLEAN : Open(br.name, path, write)
     \/ \E len \in 0 .. 4, bad \in {{}, {1, 2}} : ~iter.open /\ ReadFile(len, bad)
     \/ \E pos \in -3 .. 4, dir \in {"SET", "CUR", "END"} : ~iter.open /\ Seek(pos, dir)
     \/ ~iter.open /\ (LookAtFile \/ pfsdev_close)
     \/ LookAtDevice(br.name)
     \/ \E path \in Paths : ~file.open /\ OpenDir(br.name, path)
     \/ ~file.open /\ (NextEntry \/ ResetDir \/ pfsdev_dirclose)
  /\ UNCHANGED br
TakeAnswer == answer # NoAnswer /\ answer' = NoAnswer /\ UNCHANGED <<Tables, file, iter, br>>
TakeCall == last # Idle /\ last' = Idle
              /\ UNCHANGED <<sec, sto, fs, devices, devtab, bis, file, iter, answer, br>>
BrowseNext ==
  /\ mode = "browse"
  /\ \/ TakeAnswer \/ TakeCall
     \/ /\ answer = NoAnswer /\ last = Idle
        /\ \/ NewSection \/ Bis \/ FirstEntries \/ Browse \/ utilsCloseResources
           \/ \E name \in ToSet(Partitions) : browseEmmcPartition(name)
           \/ ~file.open /\ ~iter.open /\ Buttons
           \/ Blocks
           \/ Client
  /\ UNCHANGED <<save, reply, mode, family>>
ReadSaves == mode = "save" /\ SaveNext /\ UNCHANGED <<brvars, mode, family>>
MCNext == StorageNext \/ BrowseNext \/ ReadSaves
Spec == MCInit /\ [][MCNext]_mcvars

\* A successful read through any stack of storages returns exactly the bytes
\* the images hold at that place, whatever was read before, and a read inside
\* the storage that meets no bad byte fails only where an update was opened
\* without the base it needs.
ReadIsExact ==
  LET c == sto[Top]
      n == Image[Top]
      base == Image[family[1]]
      range == {last.offset + i : i \in 0 .. last.size - 1}
  IN  last.op \in {"read", "badread"} =>
        /\ last.ok => last.data = [i \in 1 .. last.size |-> Byte(n, base, last.offset + i - 1)]
        /\ last.op = "read" =>
             (last.ok <=> /\ last.size > 0 /\ last.offset + last.size <= StorageEnd(c)
                          /\ HasOriginal(c) \/ \A v \in range : FromPatch(n, v))

\* A storage that was closed can be opened again when its bytes can be read,
\* except that an AesCtrEx read leaves its generation in the counter of the
\* section, with which the tables of the update cannot be read a second time.
OpensAgain ==
  [][last'.op = "open" /\ ~last'.ok => sec[last'.id] # Fresh(Image[last'.id].ctx, TRUE)]_mcvars

\* Asked whether an update changed a block, the storage says yes exactly when
\* some byte of the block comes from the update.  Blocks with LZ4 data are left
\* out: their extents below are computed from the uncompressed size.
UpdatedIsTrue ==
  LET range == last.offset .. last.offset + last.size - 1
      n == Image[Top]
  IN  last.op = "updated" /\ (\A v \in range : ~InLz4Block(n, v)) =>
        last.data = <<IF \E v \in range : ByteFromPatch(n, v) THEN "yes" ELSE "no">>

----------------------------------------------------------------------------
(* What the file systems hold, read off the layouts and the images.        *)

FileStart(f, l, i) ==
  CASE f.kind \in {"hfs", "pfs"} -> l.header_size + l.entries[i].offset
    [] f.kind = "fat" -> l.files[i].offset
    [] f.kind = "romfs" -> l.body + l.files[i].offset
FileBytes(f, i, from, n) ==
  LET l == Layout[IF f.kind = "hfs" THEN "card" ELSE IF f.kind = "fat" THEN "fat" ELSE f.id]
      at == FileStart(f, l, i) + from
      other == IF f.id = family[1] THEN family[2] ELSE family[1]
      of(section, base) ==
        With(at + Last(section.ctx.layers).offset,
             LAMBDA start : [k \in 1 .. n |-> Byte(section, base, start + k - 1)])
  IN  CASE f.kind = "hfs" -> SubSeq(Card, at + 1, at + n)
        [] f.kind = "fat" -> SubSeq(Drive, at + 1, at + n)
        [] f.kind \in {"pfs", "romfs"} ->
             of(Image[f.id], IF other = "none" THEN Image[f.id] ELSE Image[other])

\* Every byte a device returns is the byte of the file at the position it was
\* read at, through the whole stack of storages, whatever was read or sought
\* before; a dump of a file in the browser collects the file from its start;
\* and so for the files of the saves.
FilesAreExact ==
  LET n == Len(answer.data)
  IN  /\ SavesAreExact
      /\ answer.op = "read" /\ answer.err = "0" =>
           answer.data = FileBytes(On(file.name), file.index, file.offset - n, n)
      /\ br.at = "file" => br.got = FileBytes(On(br.name), file.index, 0, Len(br.got))

RECURSIVE IsBelow(_, _, _)
IsBelow(l, dir, top) == dir = top \/ (dir # 0 /\ IsBelow(l, l.dirs[dir].parent, top))
RECURSIVE PathOf(_, _)
PathOf(l, dir) == IF dir = 0 THEN <<>> ELSE PathOf(l, l.dirs[dir].parent) \o <<l.dirs[dir].name>>
Children(f, path) ==
  LET l == RomLayout
      here == CHOOSE d \in DOMAIN l.dirs : PathOf(l, d) = path
  IN  IF f.kind \in {"pfs", "hfs"}
      THEN {<<"REG", e.name, e.size>> : e \in ToSet(PartitionLayout.entries)}
      ELSE {<<"DIR", l.dirs[d].name, 0>> : d \in {x \in DOMAIN l.dirs \ {0} : l.dirs[x].parent = here}}
             \cup {<<"REG", l.files[i].name, l.files[i].size>> :
                    i \in {x \in DOMAIN l.files : l.files[x].parent = here}}
\* Directories are in the root only.
SizeBelow(name) ==
  LET l == RomLayout
      top == CHOOSE d \in DOMAIN l.dirs : l.dirs[d].name = name /\ d # 0
  IN  FoldSet(LAMBDA i, n : n + l.files[i].size, 0,
              {i \in DOMAIN l.files : IsBelow(l, l.files[i].parent, top)})

\* The selected entry is an entry of the directory and on the page that is
\* shown, however the list was walked and wrapped, and no page is left short.
CursorIsVisible ==
  br.at = "menu" /\ Count > 0 =>
    /\ br.selected \in 0 .. Count - 1
    /\ br.scroll <= br.selected /\ br.selected < br.scroll + PageSize
    /\ br.scroll + PageSize <= Count \/ br.scroll = 0

\* The browser shows exactly what the directory holds, each entry with its type
\* and size and once, directories first, and counts the highlighted ones; the
\* size it announces for a dump is that of the files under what is highlighted, and
\* the cursor is on the page.
ListingIsWhole ==
  /\ CursorIsVisible
  /\ LET seen == [i \in DOMAIN br.entries |-> <<br.entries[i].type, br.entries[i].name, br.entries[i].size>>]
         size(e) == IF ~e.highlight THEN 0 ELSE IF e.type = "DIR" THEN SizeBelow(e.name) ELSE e.size
     IN  /\ br.at = "menu" =>
              /\ ToSet(seen) = Children(On(br.name), br.path) /\ Len(seen) = Cardinality(ToSet(seen))
              /\ \A i, j \in DOMAIN seen : seen[i][1] = "REG" /\ seen[j][1] = "DIR" => j < i
              /\ br.highlighted = Cardinality({i \in DOMAIN br.entries : br.entries[i].highlight})
         /\ answer.op = "dump" =>
              answer.value = FoldLeft(LAMBDA n, e : n + size(e), 0, answer.data)

\* The path that is browsed leads to the file system that is open, and outside
\* of the browser the only slots in use are those of the BIS partitions and one
\* for every time the output could not be named.
DevicesComeBack ==
  /\ br.at # "out" => devtab[br.name] # 0 /\ devices[devtab[br.name]].live
  /\ br.at = "out" => Cardinality({i \in Slots : devices[i].on}) = br.leaks + Cardinality(bis)
=============================================================================
