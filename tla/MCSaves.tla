------------------------------ MODULE MCSaves ------------------------------
(***************************************************************************)
(* Four saves of one content: both versions of the format, with the first  *)
(* header broken in one of each, and with the other master bitmap.  Files  *)
(* and tables are in pieces, the journal and the remapped storages are     *)
(* scattered, and whatever does not count holds something else.            *)
(***************************************************************************)
EXTENDS SaveData

DataBlocks == 11
\* The blocks, in their order, of a file, and of the two tables.
BlocksOf == [x |-> <<7, 8, 3>>, y |-> <<5>>, s |-> <<9, 10>>, dirs |-> <<0, 4>>, files |-> <<1, 2, 6>>]
SparseBlock == 10
ListEntry(parent, name, start, length, next) == <<"entry", parent, name, start, length, next>>
SaveUnits(list) ==
  CASE list = "dirs" -> <<<<"list", 4>>, ListEntry(0, 0, 0, 0, 3), ListEntry(0, 0, 0, 0, 0),
                          ListEntry(2, 1, 0, 0, 2)>>
    [] list = "files" -> <<<<"list", 6>>, ListEntry(0, 0, 0, 0, 4), ListEntry(2, 1, 5, 2, 3),
                           ListEntry(3, 2, 7, 5, 5), ListEntry(2, 2, NoBlock, 0, 2), ListEntry(2, 3, 9, 4, 0)>>
    [] OTHER -> [k \in 1 .. 2 * Len(BlocksOf[list]) |-> <<"f", list, k>>]
\* The cell at a place of the data level.
DataCell(pos) ==
  LET list == CHOOSE l \in DOMAIN BlocksOf : pos \div 2 \in ToSet(BlocksOf[l])
      nth == CHOOSE k \in DOMAIN BlocksOf[list] : BlocksOf[list][k] = pos \div 2
  IN  IF pos \div 2 = SparseBlock THEN <<"stale">> ELSE SaveUnits(list)[2 * nth - 1 + (pos % 2)]
FatEntry(multi, next, first, prev) == <<"fat", multi, next, first, prev>>
Fat ==
  <<FatEntry(FALSE, 0, FALSE, 0), FatEntry(FALSE, 5, TRUE, 0), FatEntry(TRUE, 7, TRUE, 0), FatEntry(FALSE, 3, TRUE, 2),
    FatEntry(FALSE, 0, FALSE, 8), FatEntry(FALSE, 0, FALSE, 1), FatEntry(FALSE, 0, TRUE, 0), FatEntry(FALSE, 0, FALSE, 2),
    FatEntry(TRUE, 4, TRUE, 0), FatEntry(FALSE, 9, TRUE, 8), FatEntry(TRUE, 0, TRUE, 0), FatEntry(FALSE, 11, TRUE, 10)>>

\* The meta storage: journal map, three levels of hashes, allocation table.
JournalBlock(v) == (3 * v + 2) % 13
HashCell(k) == <<"hash", k>>
MetaUnits ==
  [v \in 1 .. DataBlocks |-> <<"map", JournalBlock(v - 1)>>] \o <<HashCell(1)>> \o [k \in 1 .. 3 |-> HashCell(k)]
    \o [k \in 1 .. DataBlocks |-> IF k - 1 = SparseBlock THEN ZeroCell ELSE HashCell(k)] \o Fat
MetaSize == 38
MetaMap == <<[virtual |-> 0, physical |-> 18, size |-> 20], [virtual |-> 20, physical |-> 0, size |-> 18]>>
\* What the duplex storage holds at a place.
DuplexCell(p) ==
  LET e == CHOOSE e \in ToSet(MetaMap) : e.physical <= p /\ p < e.physical + e.size
  IN  MetaUnits[p - e.physical + e.virtual + 1]
InB(block) == block \in {0, 3, 4, 8}  \* which copy of a block of the meta storage counts
BitInB(block) == block = 1            \* and of a block of that bitmap

\* The data storage: two copies of the bitmap and of the meta storage; journal.
DataMap ==
  <<[virtual |-> 0, physical |-> 30, size |-> 40], [virtual |-> 40, physical |-> 0, size |-> 30],
    [virtual |-> 70, physical |-> 70, size |-> 26], [virtual |-> 128, physical |-> 96, size |-> 26]>>
BitmapCell(i, b) == IF b = BitInB(i \div 4) THEN <<"bit", InB(i)>> ELSE <<"bit", ~InB(i)>>
MetaCell(p, b) == IF b = InB(p \div 4) THEN DuplexCell(p) ELSE <<"stale">>
JournalCell(q) ==
  LET here == {v \in 0 .. DataBlocks - 1 : JournalBlock(v) = q \div 2}
  IN  IF here = {} THEN <<"stale">> ELSE DataCell((CHOOSE v \in here : TRUE) * 2 + (q % 2))
DataUnit(v) ==
  CASE v < 10 -> BitmapCell(v, FALSE) [] v \in 10 .. 19 -> BitmapCell(v - 10, TRUE)
    [] v \in 20 .. 57 -> MetaCell(v - 20, FALSE) [] v \in 58 .. 95 -> MetaCell(v - 58, TRUE)
    [] OTHER -> JournalCell(v - 128)
DataStart == 7
SaveCells ==
  [at \in 0 .. DataStart + 121 |->
     CASE at = 0 -> HashCell(1)
       [] at \in 1 .. 4 -> <<"remap", DataMap[at].virtual, DataMap[at].physical, DataMap[at].size>>
       [] at \in 5 .. 6 -> <<"remap", MetaMap[at - 4].virtual, MetaMap[at - 4].physical, MetaMap[at - 4].size>>
       [] OTHER -> LET p == at - DataStart
                       e == CHOOSE e \in ToSet(DataMap) : e.physical <= p /\ p < e.physical + e.size
                   IN  DataUnit(p - e.physical + e.virtual)]

Bits(B(_)) == [i \in 1 .. 3 |-> <<"bit", B(i - 1)>>]
SaveHeader(version, index) ==
  [magic |-> TRUE, hash_ok |-> TRUE, version |-> version, file_map_data_offset |-> DataStart,
   file_map_entry_offset |-> 1, map_entry_count |-> 4, map_segment_count |-> 2, meta_map_entry_offset |-> 5,
   meta_entry_count |-> 2, meta_segment_count |-> 1, duplex_index |-> index, duplex_block_size |-> 4,
   master_a |-> Bits(LAMBDA i : IF index = 0 THEN BitInB(i) ELSE ~BitInB(i)),
   master_b |-> Bits(LAMBDA i : IF index = 1 THEN BitInB(i) ELSE ~BitInB(i)),
   duplex_l1_offset_a |-> 0, duplex_l1_offset_b |-> 10, duplex_l1_size |-> 10, duplex_data_offset_a |-> 20,
   duplex_data_offset_b |-> 58, duplex_data_size |-> MetaSize, journal_map_table_offset |-> 0,
   main_data_block_count |-> DataBlocks, journal_block_size |-> 2, journal_data_offset |-> 128,
   ivfc_master_hash_offset_a |-> 0,
   level_headers |-> <<[logical_offset |-> 11, block_size |-> 2], [logical_offset |-> 12, block_size |-> 2],
                       [logical_offset |-> 15, block_size |-> 2], [logical_offset |-> 0, block_size |-> 1]>>,
   fat_offset |-> IF version < 5 THEN 26 ELSE 0, fat_ivfc_offset |-> IF version < 5 THEN 0 ELSE 26, fat_size |-> 12,
   fs_block_size |-> 2, allocation_table_block_count |-> DataBlocks, directory_table_block |-> 0, file_table_block |-> 1]
WrongHash(h) == [h EXCEPT !.hash_ok = FALSE, !.version = 9 - @]
\* header[version, index]
SavesOf(cells, header) ==
  LET save1(a, b) == [cells |-> cells, a |-> a, b |-> b]
      none == [header[4, 0] EXCEPT !.magic = FALSE]
  IN  "s4" :> save1(header[4, 0], none) @@ "s5" :> save1(header[5, 1], none)
      @@ "s4b" :> save1(WrongHash(header[4, 0]), header[4, 1])
      @@ "s5b" :> save1(none, header[5, 0]) @@ "none" :> save1(none, WrongHash(header[5, 0]))
MCSaveFiles == SavesOf(SaveCells, [version \in 4 .. 5, index \in 0 .. 1 |-> SaveHeader(version, index)])

\* The files, by their paths: what a client may read of them.
SaveFile(path) ==
  CASE path = <<1>> -> [list |-> "y", size |-> 2] [] path = <<1, 2>> -> [list |-> "x", size |-> 5]
    [] path = <<3>> -> [list |-> "s", size |-> 4] [] path = <<2>> -> [list |-> "e", size |-> 0]
SavePaths == {<<1>>, <<1, 2>>, <<3>>, <<2>>}
SaveFileUnit(f, k) == IF f.list = "s" /\ k > 2 THEN ZeroCell ELSE <<"f", f.list, k>>

\* A client reads a file from its start, single units (its records, smaller
\* than a sector), or whole sectors.
SaveBad == {{}, {0}, {3}, {DataStart + 40}, {DataStart + 80}, {DataStart + 100}}
ReadSave == \E offset \in 0 .. 4, count \in 1 .. 5, bad \in SaveBad :
  /\ count = 1 \/ offset % 2 = 0
  /\ ReadSaveFile(offset, count, bad)
SaveInit == save = NoSave /\ reply = NoReply
TakeReply == reply # NoReply /\ reply' = NoReply /\ UNCHANGED save
SaveNext ==
  \/ TakeReply
  \/ /\ reply = NoReply
     /\ \/ \E name \in DOMAIN Saves, bad \in SaveBad \cup {{HeaderA}, {HeaderB}} : save_open_savefile(name, bad)
        \/ \E path \in SavePaths \cup {<<2, 2>>, <<4>>, <<3, 1>>}, bad \in SaveBad :
             save_get_fat_storage_from_file_entry_by_path(path, bad)
        \/ ReadSave \/ save_close_savefile

\* Of a save that can be read, every file is found under its path with its size
\* and nothing else is; a read that succeeds returns the file, with zeroes where
\* it was never written, and one that meets no bad place succeeds.
SavesAreExact ==
  LET f == SaveFile(save.path)
  IN  /\ reply.op = "open" /\ reply.bad = {} => (reply.ok <=> save.name # "none")
      /\ reply.op = "file" =>
           /\ reply.ok => save.path \in SavePaths /\ save.file.size = f.size
           /\ reply.bad = {} => (reply.ok <=> save.path \in SavePaths)
      /\ reply.op = "read" =>
           /\ reply.ok => \A k \in DOMAIN reply.data : reply.data[k] = SaveFileUnit(f, reply.at + k)
           /\ reply.bad = {} => reply.ok
=============================================================================
