----------------------------- MODULE NcaStorage -----------------------------
(***************************************************************************)
(* The storage contexts of nca_storage.c over the NCAs of a title and of   *)
(* its update: which bucket trees a section needs, opened bottom up, what  *)
(* is read through them, and what closing leaves.                          *)
(*                                                                         *)
(* A section [nca, header, ctx, tables] is opened with the tables its header       *)
(* names; the cells a table occupies must decrypt to it before it is used. *)
(***************************************************************************)
EXTENDS BucketTree

CONSTANTS
  Sections, \* the names of the sections
  Image,    \* [Sections -> [nca, header, ctx, tables]], ctx made from header
  BadBytes  \* the sets of content bytes that a call may fail to read

VARIABLES
  sec,  \* what each section context keeps between reads
  sto,  \* the open storage contexts
  last  \* the last call, its arguments and its outcome

stovars == <<sec, sto, last>>

Closed == [base |-> "Closed"]
IsOpen(c) == c.base # "Closed"

\* The section contexts, with the bytes that cannot be read during this call.
World(bad) == [id \in Sections |-> [Image[id] EXCEPT !.nca.bad = bad]]

----------------------------------------------------------------------------
(* Opening the tables: [ok, ctx, S].                                       *)

Tree(type, id, t) ==
  [type |-> type, id |-> id, table |-> t.table, start |-> t.table.offsets[1],
   end |-> t.table.end, sub |-> <<NoSub, NoSub>>]
NoTree(S) == [ok |-> FALSE, ctx |-> NoStorage, S |-> S]
TableCells(t) == [i \in 1 .. t.size |-> <<t.name, i>>]
bktrVerifyBucketInfo(t) ==
  t.size >= (1 + bktrGetEntrySetCount(t.entry_count)) * t.node_size
Opened(type, id, t, r) ==
  IF r.ok /\ r.S[id].keys /\ r.data = TableCells(t) /\ TableIsSane(t.table, t.entry_count)
  THEN [ok |-> TRUE, ctx |-> Tree(type, id, t), S |-> r.S]
  ELSE NoTree(r.S)

\* The sparse table is read raw and decrypted with a counter of its own, the
\* others through the section they belong to.
bktrInitializeSparseContext(N, id, S) ==
  LET t == N[id].tables.Sparse
      r == ncaReadContentFile(N[id].nca, t.size, t.offset)
  IN  IF ~bktrVerifyBucketInfo(t) \/ ~r.ok THEN NoTree(S)
      ELSE Opened("Sparse", id, t,
                  [ok |-> TRUE, data |-> Decrypted(r.data, t.gen, t.offset), S |-> S])
bktrInitializeIndirectStorageContext(N, id, S) ==
  LET t == N[id].tables.Indirect
  IN  IF ~bktrVerifyBucketInfo(t) THEN NoTree(S)
      ELSE Opened("Indirect", id, t,
                  Read(_ncaReadFsSection(N[id].nca, N[id].ctx, t.size, t.offset, S[id]), S, id))
bktrInitializeAesCtrExStorageContext(N, id, S) ==
  LET t == N[id].tables.AesCtrEx
  IN  IF ~bktrVerifyBucketInfo(t) THEN NoTree(S)
      ELSE Opened("AesCtrEx", id, t,
                  Read(_ncaReadFsSection(N[id].nca, N[id].ctx, t.size, t.offset, S[id]), S, id))
bktrInitializeCompressedStorageContext(N, id, sub, S) ==
  LET t == N[id].tables.Compressed
      as == [NoStorage EXCEPT !.type = "Compressed"]
      over(o) == IF o.ok THEN [o EXCEPT !.ctx.sub = <<sub, NoSub>>] ELSE o
  IN  IF ~bktrVerifyBucketInfo(t) THEN NoTree(S)
      ELSE over(Opened("Compressed", id, t,
                       bktrReadSubStorage(N, as, sub, t.size,
                                          N[id].ctx.hash_region.size + t.offset, 0, S)))

----------------------------------------------------------------------------
(* ncaStorageInitializeContext, one layer after the other: a failed layer  *)
(* frees the ones before it.                                               *)

\* The base storage a patch may be applied to.
BaseIsSane(N, id, base) ==
  /\ N[base.id].ctx.section_type = "RomFs"
  /\ N[id].nca.program_id = N[base.id].nca.program_id
  /\ N[id].nca.content_type = N[base.id].nca.content_type
  /\ N[id].nca.id_offset = N[base.id].nca.id_offset
  /\ N[id].nca.version >= N[base.id].nca.version

\* A patch reads its unchanged parts from the base section, through the sparse
\* storage when there is one; without a base they cannot be read.
PatchOriginalOfCompressed(base) ==
  IF ~IsOpen(base) THEN NoSub
  ELSE IF base.base # "Regular" THEN Through(base.tree)
  ELSE Regular(base.id)
ncaStorageSetPatchOriginalSubStorage(base) ==
  IF ~IsOpen(base) THEN NoSub
  ELSE IF base.base = "Sparse" THEN Through(base.tree)
  ELSE Regular(base.id)

SparseLayer(N, id, S) ==
  LET over(o) == [ok |-> o.ok, S |-> o.S,
                  c |-> [base |-> "Sparse", id |-> id,
                         tree |-> [o.ctx EXCEPT !.sub = <<Regular(id), NoSub>>]]]
  IN  IF ~N[id].ctx.has_sparse_layer
      THEN [ok |-> TRUE, c |-> [base |-> "Regular", id |-> id, tree |-> NoStorage], S |-> S]
      ELSE over(bktrInitializeSparseContext(N, id, S))
PatchLayer(N, id, base, below) ==
  LET tree(a, i) ==
        [i.ctx EXCEPT !.sub = <<ncaStorageSetPatchOriginalSubStorage(base),
                                Through([a.ctx EXCEPT !.sub = <<Regular(id), NoSub>>])>>]
      over(a, i) ==
        IF ~i.ok \/ (IsOpen(base) /\ ~BaseIsSane(N, id, base))
        THEN [below EXCEPT !.ok = FALSE, !.S = i.S]
        ELSE [ok |-> TRUE, c |-> [base |-> "Indirect", id |-> id, tree |-> tree(a, i)], S |-> i.S]
  IN  IF ~below.ok \/ N[id].ctx.section_type # "PatchRomFs" THEN below
      ELSE With(bktrInitializeAesCtrExStorageContext(N, id, below.S),
                LAMBDA a : IF ~a.ok THEN [below EXCEPT !.ok = FALSE, !.S = a.S]
                           ELSE over(a, bktrInitializeIndirectStorageContext(N, id, a.S)))
ncaStorageInitializeCompressedStorageBucketTreeContext(N, id, below) ==
  LET sub == IF below.c.base = "Indirect" THEN Through(below.c.tree) ELSE Regular(id)
      over(o) ==
        [ok |-> o.ok, c |-> [base |-> "Compressed", id |-> id, tree |-> o.ctx], S |-> o.S]
  IN  IF ~below.ok \/ ~N[id].ctx.has_compression_layer \/ N[id].ctx.has_sparse_layer
      THEN below
      ELSE over(bktrInitializeCompressedStorageContext(N, id, sub, below.S))

Call(op, id, offset, size, ok, data) ==
  [op |-> op, id |-> id, offset |-> offset, size |-> size, ok |-> ok, data |-> data]

Idle == Call("idle", CHOOSE id \in Sections : TRUE, 0, 0, TRUE, <<>>)

\* base is the storage a patch is applied to, Closed when there is none.
StorageOpened(N, id, base, S) ==
  LET over(r) == [r EXCEPT !.c = IF r.ok THEN @ ELSE Closed]
  IN  IF N[id].ctx.section_type = "PatchRomFs" /\ N[id].ctx.has_sparse_layer
      THEN [ok |-> FALSE, c |-> Closed, S |-> S]
      ELSE over(ncaStorageInitializeCompressedStorageBucketTreeContext(
                  N, id, PatchLayer(N, id, base, SparseLayer(N, id, S))))
ncaStorageInitializeContext(id, base, bad) ==
  /\ ~IsOpen(sto[id]) /\ sec[id].on
  /\ \E r \in {StorageOpened(World(bad), id, base, sec)} :
       /\ sec' = r.S
       /\ sto' = [sto EXCEPT ![id] = r.c]
       /\ last' = Call(IF bad = {} THEN "open" ELSE "badopen", id, 0, 0, r.ok, <<>>)

\* A read of the outermost layer.
StorageRead(N, c, size, offset, S) ==
  IF size = 0 THEN Unread(S)
  ELSE IF c.base = "Regular"
  THEN Read(_ncaReadFsSection(N[c.id].nca, N[c.id].ctx, size, offset, S[c.id]), S, c.id)
  ELSE bktrReadStorage(N, c.tree, size, offset, S)

ncaStorageRead(id, offset, size, bad) ==
  /\ IsOpen(sto[id])
  /\ \E r \in {StorageRead(World(bad), sto[id], size, offset, sec)} :
       /\ sec' = r.S
       /\ last' = Call(IF bad = {} THEN "read" ELSE "badread", id, offset, size, r.ok, r.data)
  /\ UNCHANGED sto

\* Used to dump only what an update changed.
ncaStorageIsBlockWithinPatchStorageRange(id, offset, size) ==
  /\ IsOpen(sto[id]) /\ Image[id].ctx.section_type = "PatchRomFs"
  /\ \E answer \in {bktrIsBlockWithinIndirectStorageRange(World({}), sto[id].tree, offset, size)} :
       last' = Call("updated", id, offset, size, answer # "error", <<answer>>)
  /\ UNCHANGED <<sec, sto>>

\* What the storage holds of the data the hash layers protect.
ncaStorageGetHashTargetExtents(N, c) ==
  IF c.base = "Compressed" THEN [offset |-> c.tree.start, size |-> c.tree.end]
  ELSE ncaGetFsSectionHashTargetExtents(N[c.id].ctx)

\* The trees of a storage are freed; the section contexts are the caller's and
\* keep what they are at.
ncaStorageFreeContext(ids) ==
  /\ \A id \in ids : IsOpen(sto[id])
  /\ sto' = [id \in Sections |-> IF id \in ids THEN Closed ELSE sto[id]]
  /\ last' = Call("free", CHOOSE id \in ids : TRUE, 0, 0, TRUE, <<>>)
  /\ UNCHANGED sec

\* The NCA of a section is opened anew, as the program does for every title it
\* looks at; ticket: its ticket can be retrieved.
OpenNca(id, bad, ticket) ==
  /\ ~IsOpen(sto[id])
  /\ \E n \in {World(bad)[id]} : \E r \in {ncaInitializeContext(n.nca, <<n.header>>, TRUE, ticket)} :
       /\ sec' = [sec EXCEPT ![id] = IF r.ok THEN Fresh(r.sections[1], r.keys) ELSE NotMade]
       /\ last' = Call(IF bad = {} THEN "nca" ELSE "badnca", id, 0, 0, r.ok, <<>>)
  /\ UNCHANGED sto

StorageInit ==
  /\ sec = [id \in Sections |-> NotMade]
  /\ sto = [id \in Sections |-> Closed]
  /\ last = Idle

----------------------------------------------------------------------------
(* What a storage holds, read off the images themselves.                   *)

PlainByte(n, p) == n.nca.content[n.ctx.section_offset + p + 1].v
EntriesOf(t) == UNION {ToSet(t.table.sets[i].entries) : i \in DOMAIN t.table.sets}
EntryAt(t, v) ==
  CHOOSE e \in EntriesOf(t) :
    e.virtual <= v /\ \A f \in EntriesOf(t) : f.virtual <= v => f.virtual <= e.virtual
BaseByte(n, v) ==
  LET in(e) == IF e.index = 1 THEN Zero ELSE PlainByte(n, v - e.virtual + e.physical)
  IN  IF ~n.ctx.has_sparse_layer THEN PlainByte(n, v) ELSE in(EntryAt(n.tables.Sparse, v))
FromPatch(n, v) == EntryAt(n.tables.Indirect, v).index = 1
ByteFromPatch(n, v) == \* of a compressed block, any byte of it
  LET in(e, p) ==
        CASE e.method = "None" -> FromPatch(n, p + v - e.virtual)
          [] e.method = "Zero" -> FALSE
          [] e.method = "LZ4" -> \E q \in p .. p + e.physical_size - 1 : FromPatch(n, q)
  IN  IF ~n.ctx.has_compression_layer THEN FromPatch(n, v)
      ELSE With(EntryAt(n.tables.Compressed, v),
                LAMBDA e : in(e, n.ctx.hash_region.size + e.physical))
InLz4Block(n, v) ==
  n.ctx.has_compression_layer /\ EntryAt(n.tables.Compressed, v).method = "LZ4"
PatchedByte(n, base, v) ==
  LET in(e) == With(v - e.virtual + e.physical,
                    LAMBDA p : IF e.index = 1 THEN PlainByte(n, p) ELSE BaseByte(base, p))
  IN  IF n.ctx.section_type # "PatchRomFs" THEN BaseByte(n, v)
      ELSE in(EntryAt(n.tables.Indirect, v))
\* n is the section, base that of the content an update is applied to.
Byte(n, base, v) ==
  LET in(e, p) ==
        CASE e.method = "None" -> PatchedByte(n, base, p + v - e.virtual)
          [] e.method = "Zero" -> Zero
          [] e.method = "LZ4" -> PatchedByte(n, base, p)[2][v - e.virtual + 1]
  IN  IF ~n.ctx.has_compression_layer \/ n.ctx.has_sparse_layer THEN PatchedByte(n, base, v)
      ELSE With(EntryAt(n.tables.Compressed, v),
                LAMBDA e : in(e, n.ctx.hash_region.size + e.physical))

\* The storage a patch was opened on, if any: BaseOf names the one it belongs to.
HasOriginal(c) ==
  LET t == IF c.base = "Compressed" /\ c.tree.sub[1].type = "Indirect"
           THEN c.tree.sub[1].ctx ELSE c.tree
  IN  t.type = "Indirect" => t.sub[1].type # "None"
StorageEnd(c) == IF c.base = "Regular" THEN Image[c.id].ctx.section_size ELSE c.tree.end
=============================================================================
