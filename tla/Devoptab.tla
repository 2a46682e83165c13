------------------------------ MODULE Devoptab ------------------------------
(***************************************************************************)
(* The virtual devices of nxdt_devoptab.c, and the calls newlib makes of   *)
(* them: pfs_dev.c, hfs_dev.c, nxdt_romfs_dev.c, fat_dev.c and, for every  *)
(* call that would write, ro_dev.c.  A BIS partition (bis_storage.c) stays *)
(* mounted as a FAT device from initialization to exit.                    *)
(*                                                                         *)
(* One client has at most one file and one directory open.  A call leaves  *)
(* in answer what it returned; err is "0" when it sets no error.           *)
(***************************************************************************)
EXTENDS FileSystems

CONSTANTS
  DeviceCount, \* DEVOPTAB_DEVICE_COUNT
  Partitions,  \* the mount names of the BIS partitions, in order
  Drive        \* the bytes of the files of a BIS partition

VARIABLES
  devices, \* g_devoptabDevices
  devtab,  \* newlib: the slot a mount name leads to, 0 when there is none
  bis,     \* the partitions that are mounted
  file,    \* the open file
  iter,    \* the open directory
  answer   \* what the last call returned

devvars == <<fsvars, devices, devtab, bis, file, iter, answer>>

Slots == 1 .. DeviceCount
NoDevice == [on |-> FALSE, name |-> "", live |-> FALSE, fs |-> NoFs]
NoFile == [open |-> FALSE, name |-> "", index |-> 0, offset |-> 0]
NoIter == [open |-> FALSE, name |-> "", path |-> <<>>, left |-> <<>>]
NoAnswer == [op |-> "none", err |-> "0", value |-> 0, data |-> <<>>]
Answer(op, err, value) == [op |-> op, err |-> err, value |-> value, data |-> <<>>]

----------------------------------------------------------------------------
(* The slots.                                                              *)

devoptabFindDevice(ds, name) ==
  LET found == {i \in Slots : IF name = "" THEN ~ds[i].on ELSE ds[i].on /\ ds[i].name = name}
  IN  IF found = {} THEN 0 ELSE CHOOSE i \in found : \A j \in found : i <= j

\* newlib keeps one device per name: adding a second one replaces the first.
AddDevice(tab, name, slot) == [tab EXCEPT ![name] = slot]
RemoveDevice(tab, name) == [tab EXCEPT ![name] = 0]

\* [ok, devices, devtab]; room: newlib's table is not full.
devoptabMountDevice(ds, tab, f, name, room) ==
  LET i == devoptabFindDevice(ds, "")
  IN  IF i = 0 \/ ~room THEN [ok |-> FALSE, devices |-> ds, devtab |-> tab]
      ELSE [ok |-> TRUE, devtab |-> AddDevice(tab, name, i),
            devices |-> [ds EXCEPT ![i] = [on |-> TRUE, name |-> name, live |-> TRUE, fs |-> f]]]
ResetOfNewlibOnly(ds, tab, i) ==
  IF i = 0 \/ ~ds[i].on THEN [devices |-> ds, devtab |-> tab]
  ELSE [devices |-> ds, devtab |-> RemoveDevice(tab, ds[i].name)]
devoptabResetDevice(ds, tab, i) ==
  IF i = 0 \/ ~ds[i].on THEN [devices |-> ds, devtab |-> tab]
  ELSE [devices |-> [ds EXCEPT ![i] = NoDevice], devtab |-> RemoveDevice(tab, ds[i].name)]
devoptabUnmountDevice(ds, tab, name) == devoptabResetDevice(ds, tab, devoptabFindDevice(ds, name))
devoptabUnmountAllDevices(ds, tab) ==
  FoldLeft(LAMBDA r, i : devoptabResetDevice(r.devices, r.devtab, i),
           [devices |-> ds, devtab |-> tab], [i \in Slots |-> i])

\* What is on a device stays in its slot when the caller frees it.
Forgotten(ds) == [i \in Slots |-> IF ds[i].fs.kind = "fat" THEN ds[i] ELSE [ds[i] EXCEPT !.live = FALSE]]

----------------------------------------------------------------------------
(* BIS partitions: the first that cannot be mounted ends the initialization *)
(* and the ones before it stay mounted until it is tried again or exit.    *)

FatFs(name) ==
  [kind |-> "fat", id |-> name, dirs |-> Layout["fat"].dirs, files |-> Layout["fat"].files]
\* readable: the partitions FatFs accepts.
bisStorageMountPartition(r, name, readable) ==
  LET d == devoptabMountDevice(r.devices, r.devtab, FatFs(name), name, TRUE)
  IN  IF ~r.ok \/ name \in r.bis THEN r
      ELSE IF name \notin readable \/ ~d.ok THEN [r EXCEPT !.ok = FALSE]
      ELSE [ok |-> TRUE, bis |-> r.bis \cup {name}, devices |-> d.devices, devtab |-> d.devtab]
bisStorageMountAllPartitions(readable) ==
  FoldLeft(LAMBDA r, name : bisStorageMountPartition(r, name, readable),
           [ok |-> TRUE, bis |-> bis, devices |-> devices, devtab |-> devtab], Partitions)
bisStorageInitialize(readable) ==
  /\ bis # ToSet(Partitions)
  /\ \E r \in {bisStorageMountAllPartitions(readable)} :
       /\ bis' = r.bis /\ devices' = r.devices /\ devtab' = r.devtab
       /\ answer' = Answer("bis", IF r.ok THEN "0" ELSE "EIO", 0)
  /\ UNCHANGED <<fsvars, file, iter>>
bisStorageUnmountPartition(r, name) ==
  IF name \notin bis THEN r ELSE devoptabUnmountDevice(r.devices, r.devtab, name)
bisStorageExit ==
  LET r == FoldLeft(bisStorageUnmountPartition, [devices |-> devices, devtab |-> devtab], Partitions)
  IN  /\ bis # {}
      /\ devices' = r.devices /\ devtab' = r.devtab /\ bis' = {}
      /\ answer' = NoAnswer
      /\ UNCHANGED <<fsvars, file, iter>>
bisStorageGetMountNameByBisPartitionId(name) == bis = ToSet(Partitions) /\ name \in bis

----------------------------------------------------------------------------
(* Files.  A handler takes the file system f of the device, a path below    *)
(* the mount name or the open file h, and returns [err, ...].               *)

On(name) == devices[devtab[name]].fs
IsMounted(name) == devtab[name] # 0
Tables == <<fsvars, devices, devtab, bis>>

Opened1(err, index) == [err |-> err, index |-> index]
Found(index) == IF index \in {0, Void} THEN Opened1("ENOENT", 0) ELSE Opened1("0", index)

\* A partition has no directories but its root: a path with two names is
\* refused.  FatFs follows the names of a path itself.
pfsdev_get_truncated_path(path) == IF Len(path) > 1 THEN "EINVAL" ELSE "0"
hfsdev_get_truncated_path(path) == IF Len(path) > 1 THEN "EINVAL" ELSE "0"
RECURSIVE FatDir(_, _, _)
FatDir(f, dir, path) ==
  LET next == {d \in DOMAIN f.dirs : d # 0 /\ f.dirs[d].parent = dir /\ f.dirs[d].name = path[1]}
  IN  IF path = <<>> THEN dir
      ELSE IF next = {} THEN Void
      ELSE FatDir(f, CHOOSE d \in next : TRUE, Tail(path))
FatFile(f, path) ==
  LET dir == FatDir(f, 0, Front(path))
      found == {i \in DOMAIN f.files : f.files[i].parent = dir /\ f.files[i].name = Last(path)}
  IN  IF path = <<>> \/ dir = Void \/ found = {} THEN Void ELSE CHOOSE i \in found : TRUE

\* The results of FatFs a read of a partition can have.
fatdev_translate_error(res) ==
  CASE res = "FR_OK" -> "0" [] res = "FR_DISK_ERR" -> "EIO"
    [] res \in {"FR_NO_FILE", "FR_NO_PATH"} -> "ENOENT"
    [] OTHER -> "EPERM"

pfsdev_open(f, path, write) ==
  IF write THEN Opened1("EROFS", 0)
  ELSE IF pfsdev_get_truncated_path(path) # "0" THEN Opened1(pfsdev_get_truncated_path(path), 0)
  ELSE IF path = <<>> THEN Opened1("ENOENT", 0)
  ELSE Found(pfsGetEntryIndexByName(f, path[1]))
hfsdev_open(f, path, write) ==
  IF write THEN Opened1("EROFS", 0)
  ELSE IF hfsdev_get_truncated_path(path) # "0" THEN Opened1(hfsdev_get_truncated_path(path), 0)
  ELSE IF path = <<>> THEN Opened1("ENOENT", 0)
  ELSE Found(hfsGetEntryIndexByName(f, path[1]))
romfsdev_open(f, path, write) ==
  LET i == romfsGetFileEntryByPath(f, path)
  IN  IF write THEN Opened1("EROFS", 0) ELSE Opened1(IF i = Void THEN "ENOENT" ELSE "0", i)
fatdev_open(f, path, write) ==
  LET i == FatFile(f, path)
  IN  IF write THEN Opened1("EROFS", 0)
      ELSE Opened1(fatdev_translate_error(IF i = Void THEN "FR_NO_FILE" ELSE "FR_OK"), i)

\* A read of a section or of a card is all or nothing, one of FatFs stops at
\* the end of the file.
ReadOf(r) == [err |-> IF r.ok THEN "0" ELSE "EIO", data |-> r.data, S |-> r.S]
Refused == [err |-> "EINVAL", data |-> <<>>, S |-> sec]
pfsdev_read(f, h, len, bad) ==
  IF len = 0 THEN Refused ELSE ReadOf(pfsReadEntryData(World(bad), f, f.entries[h.index], len, h.offset, sec))
hfsdev_read(f, h, len, bad) ==
  IF len = 0 THEN Refused ELSE ReadOf(hfsReadEntryData(f, f.entries[h.index], len, h.offset, bad, sec))
romfsdev_read(f, h, len, bad) ==
  IF len = 0 THEN Refused ELSE ReadOf(romfsReadFileEntryData(World(bad), f, f.files[h.index], len, h.offset, sec))
fatdev_read(f, h, len, bad) ==
  LET e == f.files[h.index]
      at == e.offset + h.offset
      n == AtMost(len, e.size - h.offset)
  IN  IF len = 0 THEN Refused
      ELSE IF (at .. at + n - 1) \cap bad # {} THEN [err |-> fatdev_translate_error("FR_DISK_ERR"), data |-> <<>>, S |-> sec]
      ELSE [err |-> "0", data |-> SubSeq(Drive, at + 1, at + n), S |-> sec]

\* From the start, the position or the end; nothing moves past either end.
Sought(h, size, pos, dir) ==
  LET from == CASE dir = "SET" -> 0 [] dir = "CUR" -> h.offset [] dir = "END" -> size
  IN  [offset |-> from + pos,
       err |-> IF pos < 0 /\ from < -pos THEN "EINVAL"
               ELSE IF from + pos > size THEN "EOVERFLOW" ELSE "0"]
pfsdev_seek(f, h, pos, dir) == Sought(h, f.entries[h.index].size, pos, dir)
hfsdev_seek(f, h, pos, dir) == Sought(h, f.entries[h.index].size, pos, dir)
romfsdev_seek(f, h, pos, dir) == Sought(h, f.files[h.index].size, pos, dir)
fatdev_seek(f, h, pos, dir) == Sought(h, f.files[h.index].size, pos, dir)

\* Only files can be looked at on the first three, directories on FAT as well,
\* which does not support it on an open file.
pfsdev_fstat(f, h) == Answer("fstat", "0", f.entries[h.index].size)
hfsdev_fstat(f, h) == Answer("fstat", "0", f.entries[h.index].size)
romfsdev_fstat(f, h) == Answer("fstat", "0", f.files[h.index].size)
rodev_fstat == Answer("fstat", "ENOSYS", 0)
rodev_write == Answer("write", "ENOSYS", 0)
StatOf(o, size) == Answer("stat", o.err, IF o.err = "0" THEN size ELSE 0)
pfsdev_stat(f, path) ==
  LET o == pfsdev_open(f, path, FALSE) IN StatOf(o, f.entries[o.index].size)
hfsdev_stat(f, path) ==
  LET o == hfsdev_open(f, path, FALSE) IN StatOf(o, f.entries[o.index].size)
romfsdev_stat(f, path) ==
  LET o == romfsdev_open(f, path, FALSE) IN StatOf(o, f.files[o.index].size)
fatdev_stat(f, path) ==
  LET o == fatdev_open(f, path, FALSE)
  IN  IF o.err = "ENOENT" /\ path # <<>> /\ FatDir(f, 0, path) # Void THEN Answer("stat", "0", 0)
      ELSE StatOf(o, f.files[o.index].size)

\* The whole of a device is as large as its files.
pfsdev_statvfs(f) == Answer("statvfs", "0", pfsGetTotalDataSize(f))
hfsdev_statvfs(f) == Answer("statvfs", "0", hfsGetTotalDataSize(f))
romfsdev_statvfs(f) == Answer("statvfs", "0", romfsGetTotalDataSize(World({}), f, FALSE))
fatdev_statvfs(f) == Answer("statvfs", "0", Len(Drive))

----------------------------------------------------------------------------
(* Directories: "." and ".." first, except on FAT, then what the directory *)
(* holds, on a RomFS its directories before its files.  left is what the   *)
(* iterator has still to return.                                           *)

Item(type, name, size) == [type |-> type, name |-> name, size |-> size]
Dots == <<Item("DIR", -1, 0), Item("DIR", -2, 0)>>
RomItems(f, dir) ==
  LET dirs == Siblings(f.dirs, f.dirs[dir].dir)
      files == Siblings(f.files, f.dirs[dir].file)
  IN  [i \in DOMAIN dirs |-> Item("DIR", f.dirs[dirs[i]].name, 0)]
        \o [i \in DOMAIN files |-> Item("REG", f.files[files[i]].name, f.files[files[i]].size)]
FatItems(f, dir) == Reverse(RomItems(f, dir)) \* in any order the directory has
PartitionItems(f) == [i \in DOMAIN f.entries |-> Item("REG", f.entries[i].name, f.entries[i].size)]

Iter(path, left) == [err |-> "0", iter |-> [open |-> TRUE, name |-> "", path |-> path, left |-> left]]
NoDir == [err |-> "ENOENT", iter |-> NoIter]
pfsdev_diropen(f, path) == IF path # <<>> THEN NoDir ELSE Iter(path, Dots \o PartitionItems(f))
hfsdev_diropen(f, path) == IF path # <<>> THEN NoDir ELSE Iter(path, Dots \o PartitionItems(f))
romfsdev_diropen(f, path) ==
  LET dir == romfsGetDirectoryEntryByPath(f, path)
  IN  IF dir = Void THEN NoDir ELSE Iter(path, Dots \o RomItems(f, dir))
fatdev_diropen(f, path) ==
  LET dir == FatDir(f, 0, path)
  IN  IF dir = Void THEN NoDir ELSE Iter(path, FatItems(f, dir))
pfsdev_dirreset(f, it) == [it EXCEPT !.left = Dots \o PartitionItems(f)]
hfsdev_dirreset(f, it) == [it EXCEPT !.left = Dots \o PartitionItems(f)]
romfsdev_dirreset(f, it) ==
  [it EXCEPT !.left = Dots \o RomItems(f, romfsGetDirectoryEntryByPath(f, it.path))]
fatdev_dirreset(f, it) == [it EXCEPT !.left = FatItems(f, FatDir(f, 0, it.path))]
pfsdev_dirnext(it) ==
  IF it.left = <<>> THEN [err |-> "ENOENT", entry |-> Dots[1], iter |-> it]
  ELSE [err |-> "0", entry |-> Head(it.left), iter |-> [it EXCEPT !.left = Tail(@)]]

----------------------------------------------------------------------------
(* The calls of newlib, sent to the handlers of the device.                *)

Open1(f, path, write) ==
  CASE f.kind = "pfs" -> pfsdev_open(f, path, write) [] f.kind = "hfs" -> hfsdev_open(f, path, write)
    [] f.kind = "romfs" -> romfsdev_open(f, path, write) [] f.kind = "fat" -> fatdev_open(f, path, write)
Read1(f, h, len, bad) ==
  CASE f.kind = "pfs" -> pfsdev_read(f, h, len, bad) [] f.kind = "hfs" -> hfsdev_read(f, h, len, bad)
    [] f.kind = "romfs" -> romfsdev_read(f, h, len, bad) [] f.kind = "fat" -> fatdev_read(f, h, len, bad)
Seek1(f, h, pos, dir) ==
  CASE f.kind = "pfs" -> pfsdev_seek(f, h, pos, dir) [] f.kind = "hfs" -> hfsdev_seek(f, h, pos, dir)
    [] f.kind = "romfs" -> romfsdev_seek(f, h, pos, dir) [] f.kind = "fat" -> fatdev_seek(f, h, pos, dir)
Stat(f, path) ==
  CASE f.kind = "pfs" -> pfsdev_stat(f, path) [] f.kind = "hfs" -> hfsdev_stat(f, path)
    [] f.kind = "romfs" -> romfsdev_stat(f, path) [] f.kind = "fat" -> fatdev_stat(f, path)
OpenDir1(f, path) ==
  CASE f.kind = "pfs" -> pfsdev_diropen(f, path) [] f.kind = "hfs" -> hfsdev_diropen(f, path)
    [] f.kind = "romfs" -> romfsdev_diropen(f, path) [] f.kind = "fat" -> fatdev_diropen(f, path)

Open(name, path, write) ==
  /\ IsMounted(name) /\ ~file.open
  /\ \E o \in {Open1(On(name), path, write)} :
       /\ file' = IF o.err # "0" THEN NoFile
                  ELSE [open |-> TRUE, name |-> name, index |-> o.index, offset |-> 0]
       /\ answer' = Answer("open", o.err, 0)
  /\ UNCHANGED <<Tables, iter>>
pfsdev_close ==
  /\ file.open
  /\ file' = NoFile
  /\ answer' = Answer("close", "0", 0)
  /\ UNCHANGED <<Tables, iter>>
\* The position moves by what was read.
ReadFile(len, bad) ==
  /\ file.open
  /\ \E r \in {Read1(On(file.name), file, len, bad)} :
       /\ sec' = r.S
       /\ file' = [file EXCEPT !.offset = @ + Len(r.data)]
       /\ answer' = [op |-> "read", err |-> r.err, value |-> len, data |-> r.data]
  /\ UNCHANGED <<sto, last, fs, devices, devtab, bis, iter>>
Seek(pos, dir) ==
  LET r == Seek1(On(file.name), file, pos, dir)
  IN  /\ file.open
      /\ file' = IF r.err = "0" THEN [file EXCEPT !.offset = r.offset] ELSE file
      /\ answer' = Answer("seek", r.err, r.offset)
      /\ UNCHANGED <<Tables, iter>>
LookAtFile ==
  LET f == On(file.name)
  IN  /\ file.open
      /\ \/ answer' = rodev_write
         \/ answer' = CASE f.kind = "pfs" -> pfsdev_fstat(f, file) [] f.kind = "hfs" -> hfsdev_fstat(f, file)
                        [] f.kind = "romfs" -> romfsdev_fstat(f, file) [] f.kind = "fat" -> rodev_fstat
      /\ UNCHANGED <<Tables, file, iter>>
LookAtDevice(name) ==
  LET f == On(name)
  IN  /\ IsMounted(name)
      /\ answer' = CASE f.kind = "pfs" -> pfsdev_statvfs(f) [] f.kind = "hfs" -> hfsdev_statvfs(f)
                     [] f.kind = "romfs" -> romfsdev_statvfs(f) [] f.kind = "fat" -> fatdev_statvfs(f)
      /\ UNCHANGED <<Tables, file, iter>>
OpenDir(name, path) ==
  LET r == OpenDir1(On(name), path)
  IN  /\ IsMounted(name) /\ ~iter.open
      /\ iter' = [r.iter EXCEPT !.name = name]
      /\ answer' = Answer("diropen", r.err, 0)
      /\ UNCHANGED <<Tables, file>>
NextEntry ==
  LET r == pfsdev_dirnext(iter)
  IN  /\ iter.open
      /\ iter' = r.iter
      /\ answer' = [Answer("dirnext", r.err, r.entry.size) EXCEPT !.data = <<r.entry>>]
      /\ UNCHANGED <<Tables, file>>
ResetDir ==
  LET f == On(iter.name)
  IN  /\ iter.open
      /\ iter' = CASE f.kind = "pfs" -> pfsdev_dirreset(f, iter) [] f.kind = "hfs" -> hfsdev_dirreset(f, iter)
                   [] f.kind = "romfs" -> romfsdev_dirreset(f, iter) [] f.kind = "fat" -> fatdev_dirreset(f, iter)
      /\ answer' = Answer("dirreset", "0", 0)
      /\ UNCHANGED <<Tables, file>>
pfsdev_dirclose ==
  /\ iter.open
  /\ iter' = NoIter /\ answer' = Answer("dirclose", "0", 0)
  /\ UNCHANGED <<Tables, file>>

\* readdir until it fails.
RECURSIVE ReadDir(_)
ReadDir(it) ==
  LET r == pfsdev_dirnext(it) IN IF r.err # "0" THEN <<>> ELSE <<r.entry>> \o ReadDir(r.iter)
RealEntries(f, path) == SelectSeq(ReadDir(OpenDir1(f, path).iter), LAMBDA e : e.name > 0)

\* Everything below a directory; any entry that cannot be looked at fails it.
RECURSIVE utilsGetDirectorySize(_, _)
utilsGetDirectorySize(f, path) ==
  LET es == RealEntries(f, path)
      below(e) == IF e.type = "DIR" THEN utilsGetDirectorySize(f, Append(path, e.name))
                  ELSE Stat(f, Append(path, e.name)).value
  IN  SumOf([i \in DOMAIN es |-> below(es[i])])

DevInit ==
  /\ fs = NoFs
  /\ devices = [i \in Slots |-> NoDevice]
  /\ bis = {} /\ file = NoFile /\ iter = NoIter /\ answer = NoAnswer
=============================================================================
