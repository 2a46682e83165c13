------------------------------ MODULE SaveData ------------------------------
(***************************************************************************)
(* The reader of system save files (save.c), where tickets and             *)
(* certificates are looked up.  A file in a save is a list of blocks in an *)
(* allocation table; the blocks are in a journal, whose map says which     *)
(* physical block holds a virtual one; the tables are in a storage of      *)
(* which there are two copies, with a bitmap of which block of which copy  *)
(* counts, that has two copies itself; and both are scattered over the     *)
(* file by remap entries.                                                  *)
(*                                                                         *)
(* A cell is a tuple that says what it is: one of its units stands for a   *)
(* hash, a table entry, a block's bit or a piece of data.  A save is       *)
(* [cells, a, b]: the file behind the headers, and the two headers.        *)
(* Hashes are only looked at to see whether they are zero: no caller asks  *)
(* for ACTION_VERIFY.                                                      *)
(***************************************************************************)
EXTENDS Integers, FiniteSets, SequencesExt

CONSTANTS
  SegmentSize, \* 1 << (64 - segment_bits)
  Saves        \* the save files of the console, by name

VARIABLES
  save, \* the one save file that is open, and the file in it
  reply \* the result of the last call

ZeroCell == <<"zero">>
Missing == <<"missing">>
NoBlock == -1 \* 0xFFFFFFFF
NotFound == -1
WasRead(data) == \A i \in DOMAIN data : data[i] # Missing
Nothing(count) == [k \in 1 .. count |-> Missing]

\* fread at a place of the file; no cell of bad can be read.
FileCell(io, at) == IF at \in io.bad THEN Missing ELSE Saves[io.name].cells[at]

----------------------------------------------------------------------------
(* The duplex storage: two layers that choose between two copies.          *)

save_duplex_storage_init(block_size, data_a, data_b, bitmap) ==
  [block_size |-> block_size, data_a |-> data_a, data_b |-> data_b,
   bitmap |-> [i \in DOMAIN bitmap |-> bitmap[i] = <<"bit", TRUE>>]]
save_duplex_storage_read(layer, at) ==
  LET block_num == at \div layer.block_size
  IN  IF layer.bitmap[block_num + 1] THEN layer.data_b[at + 1] ELSE layer.data_a[at + 1]

----------------------------------------------------------------------------
(* Remap storages.                                                         *)

EndOfEntry(e) == e.virtual + e.size

\* A segment is a run of entries without a gap.
save_remap_init_segments(map_segment_count, entries) ==
  LET starts == {i \in DOMAIN entries : i = 1 \/ EndOfEntry(entries[i - 1]) # entries[i].virtual}
      run(i) == Cardinality({s \in starts : s <= i})
  IN  [k \in 1 .. map_segment_count |-> {entries[i] : i \in {j \in DOMAIN entries : run(j) = k}}]
\* Its entries, from the one the offset is in on.
save_remap_get_map_entry(segments, offset) ==
  LET idx == offset \div SegmentSize + 1
  IN  IF idx \in DOMAIN segments THEN {e \in segments[idx] : EndOfEntry(e) > offset} ELSE {}
\* The pieces are in the file, or in the duplex storage.
RemapCell(io, c, type, at) ==
  IF type = "BYTES" THEN FileCell(io, c.header.file_map_data_offset + at)
  ELSE save_duplex_storage_read(c.data_layer, at)
PiecesAt(entries, pos) == {e \in entries : e.virtual <= pos /\ pos < EndOfEntry(e)}
CellOfPiece(io, c, type, here, pos) ==
  IF here = {} THEN Missing
  ELSE LET of(e) == pos - e.virtual + e.physical
       IN  RemapCell(io, c, type, of(CHOOSE e \in here : TRUE))
CellsOfPieces(io, c, type, entries, offset, count) ==
  [k \in 1 .. count |-> CellOfPiece(io, c, type, PiecesAt(entries, offset + k - 1), offset + k - 1)]
save_remap_read(io, c, type, offset, count) ==
  CellsOfPieces(io, c, type,
                save_remap_get_map_entry(IF type = "BYTES" THEN c.data_segments ELSE c.meta_segments, offset),
                offset, count)
DataRead(io, c, offset, count) == save_remap_read(io, c, "BYTES", offset, count)
MetaRead(c, offset, count) == save_remap_read([name |-> "", bad |-> {}], c, "DUPLEX", offset, count)

\* The entries of a map are read from the file itself.
MapEntries(io, offset, count) ==
  LET of(cell) == IF cell = Missing THEN [virtual |-> 0, physical |-> 0, size |-> 0]
                  ELSE [virtual |-> cell[2], physical |-> cell[3], size |-> cell[4]]
      map(cells) == [ok |-> WasRead(cells), entries |-> [i \in 1 .. count |-> of(cells[i])]]
  IN  map([i \in 1 .. count |-> FileCell(io, offset + i - 1)])

----------------------------------------------------------------------------
(* Journal and integrity levels.                                           *)

save_journal_storage_read(io, c, offset, count) ==
  LET size == c.header.journal_block_size
      at(pos) == c.journal_map[pos \div size + 1] * size + (pos % size)
  IN  [k \in 1 .. count |->
         LET pos == offset + k - 1
         IN  IF pos \div size \in 0 .. Len(c.journal_map) - 1
             THEN DataRead(io, c, c.header.journal_data_offset + at(pos), 1)[1] ELSE Missing]

\* Level 0 is the master hash, in the file where header A is; level 4 the data.
save_ivfc_storage_init(master_hash_offset, level_headers) ==
  [level \in 0 .. 4 |->
     IF level = 0 THEN [type |-> "BYTES", data_offset |-> master_hash_offset, sector_size |-> 0]
     ELSE [type |-> IF level = 4 THEN "JOURNAL" ELSE "REMAP", data_offset |-> level_headers[level].logical_offset,
           sector_size |-> 2 ^ level_headers[level].block_size]]
save_ivfc_level_fread(io, c, level, offset, count) ==
  LET start == c.levels[level].data_offset + offset
      type == c.levels[level].type
  IN  CASE type = "BYTES" -> [k \in 1 .. count |-> FileCell(io, start + k - 1)]
        [] type = "REMAP" -> MetaRead(c, start, count)
        [] type = "JOURNAL" -> save_journal_storage_read(io, c, start, count)

\* A sector whose hash is zero was never written.
RECURSIVE save_ivfc_storage_read(_, _, _, _, _)
save_ivfc_storage_read(io, c, level, offset, count) ==
  LET sector_size == c.levels[level].sector_size
      block_index == offset \div sector_size
      under(hash) == IF hash = <<ZeroCell>> THEN [k \in 1 .. count |-> ZeroCell]
                     ELSE IF ~WasRead(hash) THEN Nothing(count)
                     ELSE save_ivfc_level_fread(io, c, level, offset, count)
  IN  IF count > sector_size THEN Nothing(count)
      ELSE under(IF level = 1 THEN save_ivfc_level_fread(io, c, 0, block_index, 1)
                 ELSE save_ivfc_storage_read(io, c, level - 1, block_index, 1))

----------------------------------------------------------------------------
(* The allocation table: an entry is <<"fat", has more than one block,     *)
(* next, is the first of its list, previous>>.                             *)

allocation_table_block_to_entry_index(block) == block + 1
allocation_table_entry_index_to_block(index) == index - 1

\* The second entry of a segment says where it ends.
save_allocation_table_read_entry_with_length(fat, block) ==
  LET index == allocation_table_block_to_entry_index(block)
      e == fat[index + 1]
      follow(i) == IF i = 0 THEN NoBlock ELSE allocation_table_entry_index_to_block(i)
  IN  [length |-> IF e[2] THEN fat[index + 2][3] - index + 1 ELSE IF e[4] /\ e[5] # 0 THEN 0 ELSE 1,
       next |-> follow(e[3]), prev |-> IF e[4] /\ e[5] = 0 THEN NoBlock ELSE follow(e[5])]

\* The segments of a list, in its order; at most one per block of the table.
RECURSIVE ListSegments(_, _, _)
ListSegments(fat, block, left) ==
  IF block = NoBlock THEN <<>>
  ELSE LET e == save_allocation_table_read_entry_with_length(fat, block)
       IN  IF e.length = 0 \/ left = 0 THEN <<[block |-> block, size |-> 0]>>
           ELSE <<[block |-> block, size |-> e.length]>> \o ListSegments(fat, e.next, left - 1)
VirtualBlock(segments, k) == FoldLeft(LAMBDA n, s : n + s.size, 0, SubSeq(segments, 1, k - 1))
save_allocation_table_get_list_length(c, block) ==
  LET segments == ListSegments(c.fat, block, c.header.allocation_table_block_count)
  IN  IF \E i \in DOMAIN segments : segments[i].size = 0 THEN 0 ELSE VirtualBlock(segments, Len(segments) + 1)
save_allocation_table_iterator_begin(c, block) ==
  LET e == save_allocation_table_read_entry_with_length(c.fat, block)
  IN  e.length # 0 /\ e.prev = NoBlock
save_allocation_table_iterator_seek(segments, block) ==
  {k \in DOMAIN segments : VirtualBlock(segments, k) <= block
                           /\ block < VirtualBlock(segments, k) + segments[k].size}

\* What lies in one segment is asked for in pieces of a sector at most, which
\* start where the read enters the segment.
PieceOfSegment(segment, from, offset, count, sector, size, pos) ==
  LET enter == IF offset > from THEN offset ELSE from
      end == from + segment.size * size
      leave == IF offset + count < end THEN offset + count ELSE end
      at(start) == [start |-> start, size |-> IF leave - start < sector THEN leave - start ELSE sector,
                    place |-> segment.block * size + start - from]
  IN  at(enter + ((pos - enter) \div sector) * sector)
CellOfSegment(io, c, piece, pos) ==
  save_ivfc_storage_read(io, c, 4, piece.place, piece.size)[pos - piece.start + 1]
CellsOfList(io, c, segments, offset, count) ==
  LET size == c.header.fs_block_size
      piece(k, pos) == PieceOfSegment(segments[k], VirtualBlock(segments, k) * size, offset, count,
                                      c.levels[4].sector_size, size, pos)
      pieces(pos) == {piece(k, pos) : k \in save_allocation_table_iterator_seek(segments, pos \div size)}
  IN  [k \in 1 .. count |->
         IF pieces(offset + k - 1) = {} THEN Missing
         ELSE CellOfSegment(io, c, CHOOSE p \in pieces(offset + k - 1) : TRUE, offset + k - 1)]
save_allocation_table_storage_read(io, c, initial_block, offset, count) ==
  IF ~save_allocation_table_iterator_begin(c, initial_block) THEN Nothing(count)
  ELSE CellsOfList(io, c, ListSegments(c.fat, initial_block, c.header.allocation_table_block_count),
                   offset, count)

----------------------------------------------------------------------------
(* Directory and file table: lists in files.  The first entry of a list    *)
(* holds its capacity, the second leads to the first one in use; an entry  *)
(* is <<"entry", parent, name, start block, length, next>>.                *)

UsedListHead == 1
RootName == 0 \* the empty name
SameKey(e, key) == e[2] = key.parent /\ e[3] = key.name
NoSaveFile == [open |-> FALSE, block |-> NoBlock, size |-> 0]
Result(op, bad) == [op |-> op, ok |-> FALSE, bad |-> bad, at |-> 0, data |-> <<>>]
NoSave == [open |-> FALSE, name |-> "", c |-> <<>>, capacity |-> [dir |-> 0, file |-> 0], file |-> NoSaveFile,
           path |-> <<>>]
NoReply == Result("none", {})

\* Kept once it was read.
save_fs_list_get_capacity(io, c, block, kept) ==
  LET of(cell) == IF cell[1] = "list" THEN cell[2] ELSE 0
  IN  IF kept # 0 THEN kept ELSE of(save_allocation_table_storage_read(io, c, block, 0, 1)[1])
save_fs_list_read_entry(io, c, block, index) == save_allocation_table_storage_read(io, c, block, index, 1)[1]
RECURSIVE IndexFrom(_, _, _, _, _, _)
IndexAfter(io, c, block, capacity, key, index, e) ==
  IF e = Missing THEN NotFound
  ELSE IF SameKey(e, key) THEN index
  ELSE IndexFrom(io, c, block, capacity, key, e[6])
IndexFrom(io, c, block, capacity, key, index) ==
  IF index = 0 \/ index > capacity THEN NotFound
  ELSE IndexAfter(io, c, block, capacity, key, index, save_fs_list_read_entry(io, c, block, index))
IndexInList(io, c, block, capacity, key, head) ==
  IF head = Missing THEN NotFound ELSE IndexFrom(io, c, block, capacity, key, head[6])
save_fs_list_get_index_from_key(io, c, block, capacity, key) ==
  IF capacity = 0 THEN NotFound
  ELSE IndexInList(io, c, block, capacity, key, save_fs_list_read_entry(io, c, block, UsedListHead))
save_fs_list_get_value(io, c, block, capacity, index) ==
  IF capacity = 0 \/ index >= capacity THEN Missing ELSE save_fs_list_read_entry(io, c, block, index)

\* The directory of a path: the root has an empty name itself.
save_hierarchical_file_table_find_path_recursive(io, c, capacity, path) ==
  FoldLeft(LAMBDA parent, name :
             IF parent = NotFound THEN NotFound
             ELSE save_fs_list_get_index_from_key(io, c, c.header.directory_table_block, capacity,
                                                  [parent |-> parent, name |-> name]),
           0, <<RootName>> \o Front(path))
save_hierarchical_file_table_get_file_entry_by_path(io, c, capacity, parent, path) ==
  LET block == c.header.file_table_block
      at(index) == IF index = NotFound THEN Missing
                   ELSE save_fs_list_get_value(io, c, block, capacity, index)
  IN  IF parent = NotFound THEN Missing
      ELSE at(save_fs_list_get_index_from_key(io, c, block, capacity, [parent |-> parent, name |-> Last(path)]))

\* An empty list is no file that was ever written.
save_open_fat_storage(c, block) == block = NoBlock \/ save_allocation_table_get_list_length(c, block) # 0
save_filesystem_init(c) ==
  save_open_fat_storage(c, c.header.directory_table_block) /\ save_open_fat_storage(c, c.header.file_table_block)

----------------------------------------------------------------------------
(* Opening a save.                                                         *)

\* The magic words, and whether the hash of the header is right.
save_process_header(header) == header.magic /\ header.hash_ok
HeaderA == -1 \* where the headers are in the file
HeaderB == -2
ChosenHeader(io) ==
  LET s == Saves[io.name]
  IN  CASE HeaderA \in io.bad -> {}
        [] HeaderA \notin io.bad /\ save_process_header(s.a) -> {s.a}
        [] OTHER -> IF HeaderB \notin io.bad /\ save_process_header(s.b) THEN {s.b} ELSE {}

\* The four steps, each from what the ones before it made of the context: the
\* data storage, the two duplex layers, the meta storage, journal map and table.
Closed1 == [ok |-> FALSE, c |-> <<>>]
DataStorage(io, h) ==
  LET over(map) ==
        [ok |-> map.ok,
         c |-> [header |-> h, data_segments |-> save_remap_init_segments(h.map_segment_count, map.entries),
                meta_segments |-> <<>>, data_layer |-> <<>>, journal_map |-> <<>>, levels |-> <<>>, fat |-> <<>>]]
  IN  over(MapEntries(io, h.file_map_entry_offset, h.map_entry_count))
DuplexLayers(io, below) ==
  LET c == below.c
      h == c.header
      master == IF h.duplex_index = 1 THEN h.master_b ELSE h.master_a
      layer(a, b, bitmap) == save_duplex_storage_init(h.duplex_block_size, a, b, bitmap)
      over(layer0, a, b) ==
        layer(a, b, [i \in 1 .. h.duplex_l1_size |-> save_duplex_storage_read(layer0, i - 1)])
      made(l1a, l1b, a, b) ==
        [ok |-> WasRead(l1a) /\ WasRead(l1b) /\ WasRead(a) /\ WasRead(b),
         c |-> [c EXCEPT !.data_layer = over(layer(l1a, l1b, master), a, b)]]
  IN  IF ~below.ok THEN Closed1
      ELSE made(DataRead(io, c, h.duplex_l1_offset_a, h.duplex_l1_size),
                DataRead(io, c, h.duplex_l1_offset_b, h.duplex_l1_size),
                DataRead(io, c, h.duplex_data_offset_a, h.duplex_data_size),
                DataRead(io, c, h.duplex_data_offset_b, h.duplex_data_size))
MetaStorage(io, below) ==
  LET h == below.c.header
      over(map) == [ok |-> map.ok,
                    c |-> [below.c EXCEPT
                             !.meta_segments = save_remap_init_segments(h.meta_segment_count, map.entries)]]
  IN  IF ~below.ok THEN Closed1 ELSE over(MapEntries(io, h.meta_map_entry_offset, h.meta_entry_count))
\* From version 5 on the allocation table is a hierarchy of hashes as well, of
\* which only the last level is read.
JournalAndTable(below) ==
  LET c == below.c
      h == c.header
      block(cell) == IF cell = Missing THEN 0 ELSE cell[2]
      made(map, fat) ==
        [ok |-> WasRead(map) /\ WasRead(fat),
         c |-> [c EXCEPT !.journal_map = [i \in DOMAIN map |-> block(map[i])], !.fat = fat,
                         !.levels = save_ivfc_storage_init(h.ivfc_master_hash_offset_a, h.level_headers)]]
  IN  IF ~below.ok THEN Closed1
      ELSE made(MetaRead(c, h.journal_map_table_offset, h.main_data_block_count),
                MetaRead(c, IF h.version < 5 THEN h.fat_offset ELSE h.fat_ivfc_offset, h.fat_size))

Processed(io, h) == JournalAndTable(MetaStorage(io, DuplexLayers(io, DataStorage(io, h))))
save_process(io) ==
  LET checked(r) == IF r.ok /\ save_filesystem_init(r.c) THEN r ELSE Closed1
      from(headers) == IF headers = {} THEN Closed1 ELSE checked(Processed(io, CHOOSE h \in headers : TRUE))
  IN  from(ChosenHeader(io))

save_open_savefile(name, bad) ==
  /\ ~save.open
  /\ \E opened \in {save_process([name |-> name, bad |-> bad])} :
       /\ save' = [NoSave EXCEPT !.open = opened.ok, !.name = name, !.c = opened.c]
       /\ reply' = [Result("open", bad) EXCEPT !.ok = opened.ok]

\* A file is looked up in the save that is open, with what is kept of its lists.
save_get_fat_storage_from_file_entry_by_path(path, bad) ==
  LET io == [name |-> save.name, bad |-> bad]
      c == save.c
      capacity(block, kept) == save_fs_list_get_capacity(io, c, block, kept)
  IN  /\ save.open
      /\ \E dir \in {capacity(c.header.directory_table_block, save.capacity.dir)} :
         \E parent \in {save_hierarchical_file_table_find_path_recursive(io, c, dir, path)} :
         \E file \in {IF parent = NotFound THEN save.capacity.file
                     ELSE capacity(c.header.file_table_block, save.capacity.file)} :
         \E e \in {save_hierarchical_file_table_get_file_entry_by_path(io, c, file, parent, path)} :
         \E found \in {IF e = Missing THEN FALSE ELSE save_open_fat_storage(c, e[4])} :
           /\ save' = [save EXCEPT !.capacity = [dir |-> dir, file |-> file], !.path = path,
                         !.file = IF found THEN [open |-> TRUE, block |-> e[4], size |-> e[5]] ELSE NoSaveFile]
           /\ reply' = [Result("file", bad) EXCEPT !.ok = found]
\* What the client reads of the file, as much as it was told there is.
ReadSaveFile(offset, count, bad) ==
  /\ save.open /\ save.file.open /\ offset + count <= save.file.size
  /\ \E data \in {save_allocation_table_storage_read([name |-> save.name, bad |-> bad], save.c,
                                                       save.file.block, offset, count)} :
       reply' = [Result("read", bad) EXCEPT !.ok = WasRead(data), !.at = offset, !.data = data]
  /\ UNCHANGED save
save_close_savefile ==
  /\ save.open
  /\ save' = NoSave /\ UNCHANGED reply
=============================================================================
