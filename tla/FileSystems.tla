----------------------------- MODULE FileSystems -----------------------------
(***************************************************************************)
(* The file systems of a section or of a game card: the partition file     *)
(* system (pfs.c), the hash file system (hfs.c) and RomFS (romfs.c), with  *)
(* the one a caller has open in fs.                                        *)
(*                                                                         *)
(* What the bytes of a header or a table say is given by Layout; they are  *)
(* read through the storage before they are used.  A name is a number, a   *)
(* path a sequence of names.                                               *)
(***************************************************************************)
EXTENDS NcaStorage, Folds

CONSTANTS
  Layout, \* what the file system on each section, and on the card, holds
  Card    \* the bytes of the hash file system partition of a game card

VARIABLE fs \* the open file system

fsvars == <<stovars, fs>>

NoFs == [kind |-> "none"]
Void == -1 \* ROMFS_VOID_ENTRY
Intact(r) == r.ok /\ \A i \in DOMAIN r.data : r.data[i] # Garbage
NotOpened(S) == [ok |-> FALSE, fs |-> NoFs, opened |-> <<>>, S |-> S]

----------------------------------------------------------------------------
(* Partition and hash file systems.                                        *)

\* The header is read twice: its fixed part, then with the entries and names.
ReadWhole(N, c, size, offset, h) ==
  IF ~Intact(h) THEN Unread(h.S) ELSE StorageRead(N, c, size, offset, h.S)
ReadTwice(N, c, size, offset, S) ==
  ReadWhole(N, c, size, offset, StorageRead(N, c, 1, offset, S))
pfsInitializeContext(N, id, S) ==
  LET ctx == N[id].ctx
      l == Layout[id]
      made(c, at, r) ==
        IF ~r.ok \/ l.entries = <<>> THEN NotOpened(r.S)
        ELSE [ok |-> TRUE, opened |-> <<id>> :> c, S |-> r.S,
              fs |-> [kind |-> "pfs", id |-> id, offset |-> at.offset, size |-> at.size,
                      header_size |-> l.header_size, entries |-> l.entries]]
      opened(o) ==
        IF ~o.ok THEN NotOpened(o.S)
        ELSE With(ncaStorageGetHashTargetExtents(N, o.c),
                  LAMBDA at : made(o.c, at, ReadTwice(N, o.c, l.header_size, at.offset, o.S)))
  IN  IF \/ ~S[id].on \/ ~S[id].keys \/ ctx.has_sparse_layer
         \/ ctx.section_type # "PartitionFs" \/ ctx.hash_type \notin Sha256Types
      THEN NotOpened(S)
      ELSE opened(StorageOpened(N, id, Closed, S))

\* The partition was read and verified when the card was inserted.
gamecardGetHashFileSystemContext ==
  [kind |-> "hfs", id |-> "card", offset |-> 0, size |-> Len(Card),
   header_size |-> Layout["card"].header_size, entries |-> Layout["card"].entries]

\* The bytes of a file system, relative to its start.
pfsReadPartitionData(N, f, size, offset, S) ==
  IF size = 0 \/ offset + size > f.size THEN Unread(S)
  ELSE StorageRead(N, sto[f.id], size, f.offset + offset, S)
hfsReadPartitionData(f, size, offset, bad, S) ==
  IF \/ size = 0 \/ offset + size > f.size \/ \E x \in bad : offset <= x /\ x < offset + size
  THEN Unread(S)
  ELSE [ok |-> TRUE, data |-> SubSeq(Card, f.offset + offset + 1, f.offset + offset + size), S |-> S]

\* The first entry with that name, 0 when there is none.
pfsGetEntryIndexByName(f, name) ==
  LET found == {i \in DOMAIN f.entries : f.entries[i].name = name}
  IN  IF found = {} THEN 0 ELSE CHOOSE i \in found : \A j \in found : i <= j

hfsGetEntryIndexByName(f, name) ==
  LET found == {i \in DOMAIN f.entries : f.entries[i].name = name}
  IN  IF found = {} THEN 0 ELSE CHOOSE i \in found : \A j \in found : i <= j

----------------------------------------------------------------------------
(* RomFS.                                                                  *)

\* A base RomFS must be of the kind its format asks for; an update may be
\* opened without one.
BaseIsMissing(N, id, S) ==
  \/ id = "none" \/ ~S[id].on \/ N[id].ctx.section_type \notin {"RomFs", "Nca0RomFs"}
BaseIsUsable(N, id, S) ==
  LET ctx == N[id].ctx
  IN  /\ IF N[id].nca.format_version = 0
         THEN ctx.section_type = "Nca0RomFs" /\ ctx.hash_type = "HierarchicalSha256"
         ELSE ctx.section_type = "RomFs" /\ ctx.hash_type \in IntegrityTypes
      /\ S[id].keys
PatchIsUsable(N, base, patch, missing, S) ==
  /\ S[patch].on /\ S[patch].keys /\ N[patch].ctx.section_type = "PatchRomFs"
  /\ missing \/ N[patch].nca.format_version = N[base].nca.format_version

\* The header and the four tables, one read after the other; a table that is
\* empty or ends outside of the file system is refused.
RomTables(N, c, at, l, S) ==
  FoldLeft(LAMBDA r, t :
             IF ~r.ok \/ t.size = 0 \/ t.offset + t.size > at.size THEN [r EXCEPT !.ok = FALSE]
             ELSE With(StorageRead(N, c, t.size, at.offset + t.offset, r.S),
                       LAMBDA n : [ok |-> Intact(n), S |-> n.S]),
           [ok |-> TRUE, S |-> S], l.tables)
OpenedBase(N, base, missing, S) ==
  IF missing THEN [ok |-> TRUE, c |-> Closed, S |-> S] ELSE StorageOpened(N, base, Closed, S)
OpenedPatch(N, patch, below) ==
  IF patch = "none" \/ ~below.ok THEN below ELSE StorageOpened(N, patch, below.c, below.S)
romfsInitializeContext(N, base, patch, S) ==
  LET missing == BaseIsMissing(N, base, S)
      top == IF patch = "none" THEN base ELSE patch
      l == Layout[top]
      made(b, p, at, r) ==
        IF ~r.ok \/ l.body >= at.size THEN NotOpened(r.S)
        ELSE [ok |-> TRUE, S |-> r.S,
              opened |-> (IF missing THEN <<>> ELSE <<base>> :> b.c)
                           @@ (IF patch = "none" THEN <<>> ELSE <<patch>> :> p.c),
              fs |-> [kind |-> "romfs", id |-> top, base |-> IF missing THEN "none" ELSE base,
                      offset |-> at.offset, size |-> at.size, body |-> l.body, dirs |-> l.dirs,
                      files |-> l.files, dir_bucket |-> l.dir_bucket,
                      file_bucket |-> l.file_bucket]]
      over(b, p) ==
        IF ~p.ok THEN NotOpened(p.S)
        ELSE With(ncaStorageGetHashTargetExtents(N, p.c),
                  LAMBDA at : made(b, p, at, RomTables(N, p.c, at, l, p.S)))
      opened(b) == over(b, OpenedPatch(N, patch, b))
  IN  IF \/ patch = "none" /\ (missing \/ N[base].ctx.has_sparse_layer)
         \/ ~missing /\ ~BaseIsUsable(N, base, S)
         \/ patch # "none" /\ ~PatchIsUsable(N, base, patch, missing, S)
      THEN NotOpened(S)
      ELSE opened(OpenedBase(N, base, missing, S))

romfsReadFileSystemData(N, f, size, offset, S) ==
  IF size = 0 \/ offset + size > f.size THEN Unread(S)
  ELSE StorageRead(N, sto[f.id], size, f.offset + offset, S)

romfsCalculateEntryHash(parent, name, bucket) == (parent + name) % Cardinality(DOMAIN bucket)
\* Along the entries of a hash bucket, to the one of that name and directory.
RECURSIVE AlongBucket(_, _, _, _)
AlongBucket(table, at, parent, name) ==
  IF at = Void \/ at \notin DOMAIN table THEN Void
  ELSE IF table[at].parent = parent /\ table[at].name = name THEN at
  ELSE AlongBucket(table, table[at].bucket, parent, name)
romfsGetChildDirectoryEntryByName(f, dir, name) ==
  AlongBucket(f.dirs, f.dir_bucket[romfsCalculateEntryHash(dir, name, f.dir_bucket)], dir, name)
FirstOfBucket(f, dir, name) ==
  LET at == f.file_bucket[romfsCalculateEntryHash(dir, name, f.file_bucket)]
  IN  IF at # Void /\ f.files[at].parent = dir /\ f.files[at].name = name THEN at ELSE Void
romfsGetChildFileEntryByName(f, dir, name) ==
  AlongBucket(f.files, f.file_bucket[romfsCalculateEntryHash(dir, name, f.file_bucket)], dir, name)
romfsGetDirectoryEntryByPath(f, path) ==
  FoldLeft(LAMBDA dir, name : IF dir = Void THEN Void
                              ELSE romfsGetChildDirectoryEntryByName(f, dir, name), 0, path)
romfsGetFileEntryByPath(f, path) ==
  LET dir == romfsGetDirectoryEntryByPath(f, Front(path))
  IN  IF path = <<>> \/ dir = Void THEN Void ELSE romfsGetChildFileEntryByName(f, dir, Last(path))

\* The entries chained from a first one by their next_offset.
RECURSIVE Siblings(_, _)
Siblings(table, at) == IF at = Void THEN <<>> ELSE <<at>> \o Siblings(table, table[at].next)
SumOf(sizes) == FoldLeft(LAMBDA a, b : a + b, 0, sizes)
RECURSIVE romfsGetDirectoryDataSize(_, _)
romfsGetDirectoryDataSize(f, dir) ==
  LET files == Siblings(f.files, f.dirs[dir].file)
      dirs == Siblings(f.dirs, f.dirs[dir].dir)
  IN  SumOf([i \in DOMAIN files |-> f.files[files[i]].size])
        + SumOf([i \in DOMAIN dirs |-> romfsGetDirectoryDataSize(f, dirs[i])])
romfsGeneratePathFromDirectoryEntry(f, dir) ==
  LET RECURSIVE up(_)
      up(d) == IF d = 0 THEN <<>> ELSE up(f.dirs[d].parent) \o <<f.dirs[d].name>>
  IN  up(dir)
romfsGeneratePathFromFileEntry(f, file) ==
  romfsGeneratePathFromDirectoryEntry(f, f.files[file].parent) \o <<f.files[file].name>>

\* Did the update change a byte of the file?  "error" for an empty file, and
\* when the update was opened without its base.
romfsIsFileEntryUpdated(N, f, file) ==
  LET e == f.files[file]
  IN  IF \/ N[f.id].ctx.section_type # "PatchRomFs" \/ e.size = 0
         \/ e.offset + e.size > f.size \/ f.base = "none"
      THEN "error"
      ELSE bktrIsBlockWithinIndirectStorageRange(N, sto[f.id].tree, f.offset + f.body + e.offset, e.size)
romfsGetTotalDataSize(N, f, only_updated) ==
  LET total(updated) ==
        IF \E i \in DOMAIN updated : updated[i] = "error" THEN Void
        ELSE FoldFunction(LAMBDA a, b : a + b, 0,
               [i \in DOMAIN updated |-> IF updated[i] = "yes" THEN f.files[i].size ELSE 0])
  IN  total([i \in DOMAIN f.files |->
               IF only_updated THEN romfsIsFileEntryUpdated(N, f, i) ELSE "yes"])

----------------------------------------------------------------------------
(* Any of them.                                                            *)

\* A block of an entry, at an offset inside of it; size 0 refuses every read.
MayRead(f, e, size, offset) ==
  /\ e.size > 0 /\ e.offset + e.size <= f.size
  /\ size > 0 /\ offset + size <= e.size
EntryDataOfPartition(N, f, e, size, offset, S) ==
  IF ~MayRead(f, e, size, offset) THEN Unread(S)
  ELSE pfsReadPartitionData(N, f, size, e.offset + offset, S)
pfsReadEntryData(N, f, e, size, offset, S) ==
  IF ~MayRead(f, e, size, offset) THEN Unread(S)
  ELSE pfsReadPartitionData(N, f, size, f.header_size + e.offset + offset, S)
hfsReadEntryData(f, e, size, offset, bad, S) ==
  IF ~MayRead(f, e, size, offset) THEN Unread(S)
  ELSE hfsReadPartitionData(f, size, f.header_size + e.offset + offset, bad, S)
romfsReadFileEntryData(N, f, e, size, offset, S) ==
  IF ~MayRead(f, e, size, offset) THEN Unread(S)
  ELSE romfsReadFileSystemData(N, f, size, f.body + e.offset + offset, S)
pfsGetTotalDataSize(f) == SumOf([i \in DOMAIN f.entries |-> f.entries[i].size])
hfsGetTotalDataSize(f) == SumOf([i \in DOMAIN f.entries |-> f.entries[i].size])

\* Closing a file system frees the storages it opened.
Owned(f) == IF f.kind \in {"none", "hfs"} THEN {}
            ELSE {f.id} \cup (IF f.kind = "romfs" /\ f.base # "none" THEN {f.base} ELSE {})
StoragesAfter(r) ==
  [id \in Sections |-> IF <<id>> \in DOMAIN r.opened THEN r.opened[<<id>>] ELSE sto[id]]
FreeFs ==
  /\ fs' = NoFs
  /\ sto' = [id \in Sections |-> IF id \in Owned(fs) THEN Closed ELSE sto[id]]
=============================================================================
