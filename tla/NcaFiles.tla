------------------------------ MODULE NcaFiles ------------------------------
(***************************************************************************)
(* The files a dump looks at: the partition or RomFS of the section of an  *)
(* NCA, opened without an update, and what is read from it.  n.nca.fs says *)
(* what the bytes of the file system header mean: where the files begin    *)
(* and the entries [name, offset, size] of the files.                      *)
(***************************************************************************)
EXTENDS NcaPatch

LastLayer(n) == n.ctx.layers[Len(n.ctx.layers)]
KeysAreThere(n) == ~n.rights_id_available \/ n.titlekey_retrieved
\* The bytes of the file system, through every hash layer but unverified.
FsRead(n, size, offset) == _ncaReadFsSection(n.nca, n.ctx, size, LastLayer(n).offset + offset, n.st)
HeaderIsRead(n) ==
  With(FsRead(n, n.nca.fs.body, 0),
       LAMBDA r : r.ok /\ \A i \in DOMAIN r.data : r.data[i] # Garbage)
Opened(n) == [ok |-> TRUE, size |-> LastLayer(n).size, body |-> n.nca.fs.body, files |-> n.nca.fs.files]
NotOpened == [ok |-> FALSE, size |-> 0, body |-> 0, files |-> <<>>]

pfsOpened(n) ==
  IF /\ n.ctx.enabled /\ ~n.ctx.has_sparse_layer /\ n.ctx.section_type = "PartitionFs"
     /\ n.ctx.hash_type \in Sha256Types /\ KeysAreThere(n)
     /\ HeaderIsRead(n) /\ n.nca.fs.files # <<>>
  THEN Opened(n) ELSE NotOpened
romfsOpened(n) ==
  IF /\ n.ctx.enabled /\ ~n.ctx.has_sparse_layer /\ KeysAreThere(n)
     /\ IF n.nca.format_version = 0
        THEN n.ctx.section_type = "Nca0RomFs" /\ n.ctx.hash_type = "HierarchicalSha256"
        ELSE n.ctx.section_type = "RomFs" /\ n.ctx.hash_type \in IntegrityTypes
     /\ HeaderIsRead(n) /\ n.nca.fs.body < LastLayer(n).size
  THEN Opened(n) ELSE NotOpened

\* The first file of that name: [found, at].
FileByName(fs, name) ==
  LET found == {i \in DOMAIN fs.files : fs.files[i].name = name}
  IN  [found |-> found # {},
       at |-> IF found = {} THEN 0 ELSE CHOOSE i \in found : \A j \in found : i <= j]
FileData(n, fs, e) ==
  IF e.size = 0 \/ e.offset + e.size > fs.size THEN [ok |-> FALSE, data |-> <<>>]
  ELSE With(FsRead(n, e.size, fs.body + e.offset), LAMBDA r : [ok |-> r.ok, data |-> r.data])
=============================================================================
