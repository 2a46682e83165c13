------------------------------ MODULE PfsImage ------------------------------
(***************************************************************************)
(* The image of a partition file system, as pfs.c builds that of an NSP:   *)
(* entries are added one after the other, names change while the file is   *)
(* written, and the header goes out last.                                  *)
(*                                                                         *)
(* An image is [entries, name_table, fs_size].  A name is a sequence of    *)
(* cells, a content ID being one cell; Nul ends it in the name table.      *)
(***************************************************************************)
EXTENDS Integers, SequencesExt

CONSTANT PFS_HEADER_PADDING_ALIGNMENT \* scaled down: 0x20 in the code

Nul == <<"nul">>
pfsInitializeImageContext == [entries |-> <<>>, name_table |-> <<>>, fs_size |-> 0]

\* The fixed part of the header and an entry are one cell each.
NamelessSize(n) == 1 + n
RoundedUp(x) == ((x + PFS_HEADER_PADDING_ALIGNMENT - 1) \div PFS_HEADER_PADDING_ALIGNMENT)
                  * PFS_HEADER_PADDING_ALIGNMENT
strlen(table, at) == (CHOOSE k \in 0 .. Len(table) - at :
                        /\ table[at + k + 1] = Nul
                        /\ \A j \in 1 .. k : table[at + j] # Nul)
Replaced(table, at, cells) ==
  [i \in DOMAIN table |-> IF at < i /\ i <= at + Len(cells) THEN cells[i - at] ELSE table[i]]

\* The size of a name table that is too small for a new name: the header ends
\* aligned, and behind at least one byte of padding.
PaddedTableSize(n, unpadded) ==
  LET padded == RoundedUp(NamelessSize(n) + unpadded) - NamelessSize(n)
  IN  IF padded = unpadded THEN padded + PFS_HEADER_PADDING_ALIGNMENT ELSE padded

\* A new entry lies right behind the last one.
pfsAddEntryInformationToImageContext(img, name, size) ==
  LET prev == Last(img.entries)
      first == img.entries = <<>>
      name_offset == IF first THEN 0
                     ELSE prev.name_offset + strlen(img.name_table, prev.name_offset) + 1
      unpadded == name_offset + Len(name) + 1
      table == IF unpadded < Len(img.name_table) THEN img.name_table
               ELSE [i \in 1 .. PaddedTableSize(Len(img.entries) + 1, unpadded) |->
                       IF i <= name_offset THEN img.name_table[i] ELSE Nul]
  IN  [entries |-> Append(img.entries,
                          [offset |-> IF first THEN 0 ELSE prev.offset + prev.size,
                           size |-> size, name_offset |-> name_offset]),
       name_table |-> Replaced(table, name_offset, name),
       fs_size |-> img.fs_size + size]

pfsGetEntryNameByIndexFromImageContext(img, i) ==
  LET at == img.entries[i].name_offset
  IN  SubSeq(img.name_table, at + 1, at + strlen(img.name_table, at))

\* A shorter name leaves the tail of the previous one.
pfsUpdateEntryNameFromImageContext(img, i, name) ==
  IF Len(name) > Len(pfsGetEntryNameByIndexFromImageContext(img, i)) THEN [ok |-> FALSE, img |-> img]
  ELSE [ok |-> TRUE, img |-> [img EXCEPT !.name_table = Replaced(@, img.entries[i].name_offset, name)]]

HeaderSize(img) == NamelessSize(Len(img.entries)) + Len(img.name_table)
pfsWriteImageContextHeaderToMemoryBuffer(img, buf_size) ==
  [ok |-> img.entries # <<>> /\ HeaderSize(img) <= buf_size,
   header |-> <<<<"PFS0", Len(img.entries), Len(img.name_table)>>>>
                \o [i \in DOMAIN img.entries |->
                      <<"entry", img.entries[i].offset, img.entries[i].size, img.entries[i].name_offset>>]
                \o img.name_table]
=============================================================================
