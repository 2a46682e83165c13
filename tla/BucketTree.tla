----------------------------- MODULE BucketTree -----------------------------
(***************************************************************************)
(* The bucket tree storages of bktr.c: how an entry is found, and how a    *)
(* sparse, indirect, AesCtrEx or compressed storage is read through the    *)
(* storage below it.                                                       *)
(*                                                                         *)
(* A table is [offsets, end, sets]: the first virtual offset of every      *)
(* entry set, the end of the storage, and the sets [index, end, entries].  *)
(* N holds the section contexts with their NCAs, S what each of them keeps *)
(* between reads.                                                          *)
(***************************************************************************)
EXTENDS NcaContext

CONSTANTS
  EntriesPerSet, \* entries that fit in a node (0x332, 0x3FF or 0x2AA)
  OffsetsPerNode \* offsets that fit in the offset node (0x7FF)

ASSUME NodeAssumption == {EntriesPerSet, OffsetsPerNode} \subseteq Nat \ {0}

Max64 == 2 ^ 30 \* what an unsigned subtraction that goes below zero wraps around
Minus(a, b) == (a - b) % Max64

bktrGetEntrySetCount(count) == (count + EntriesPerSet - 1) \div EntriesPerSet
bktrVerifyNodeHeader(node, index, per_node) ==
  /\ node.index = index
  /\ Len(node.entries) \in 1 .. per_node
TableIsSaneRoundedDown(table, entry_count) ==
  /\ Len(table.offsets) \in 1 .. OffsetsPerNode
  /\ table.offsets[1] < table.end
  /\ Len(table.offsets) = entry_count \div EntriesPerSet
TableIsSane(table, entry_count) ==
  LET sets == bktrGetEntrySetCount(entry_count)
  IN  /\ Len(table.offsets) \in 1 .. OffsetsPerNode
      /\ table.offsets[1] < table.end
      /\ Len(table.offsets) = sets

bktrIsValidContext(ctx) == ctx.type # "None" /\ ctx.end > ctx.start
bktrIsOffsetWithinStorageRange(ctx, offset) ==
  bktrIsValidContext(ctx) /\ ctx.start <= offset /\ offset < ctx.end
bktrIsBlockWithinStorageRange(ctx, size, offset) ==
  bktrIsValidContext(ctx) /\ size > 0 /\ ctx.start <= offset /\ size <= Minus(ctx.end, offset)

NoStorage == [type |-> "None", start |-> 0, end |-> 0, sub |-> <<>>]
NoSub == [type |-> "None"]
Regular(id) == [type |-> "Regular", id |-> id]
Through(ctx) == [type |-> ctx.type, id |-> ctx.id, ctx |-> ctx]

----------------------------------------------------------------------------
(* Finding an entry.                                                       *)

\* Both binary searches: the last key that is not above x, 0 for none.
RECURSIVE LastNotAbove(_, _, _, _)
LastNotAbove(keys, x, low, high) ==
  LET half == (low + high) \div 2
  IN  IF low > high THEN 0
      ELSE IF keys[half] > x THEN LastNotAbove(keys, x, low, half - 1)
      ELSE IF half = Len(keys) \/ keys[half + 1] > x THEN half
      ELSE LastNotAbove(keys, x, half + 1, high)
bktrGetTreeNodeEntryIndex(offsets, x) == LastNotAbove(offsets, x, 1, Len(offsets))
VirtualOffsets(set) == [i \in DOMAIN set.entries |-> set.entries[i].virtual]
bktrStorageNodeFind(set, x) ==
  IF Len(set.entries) = 1 THEN 1
  ELSE LastNotAbove(VirtualOffsets(set), x, 1, Len(set.entries))

\* A visitor is [set, entry]; entry 0 when nothing was found.
NoVisitor == [set |-> 0, entry |-> 0]
bktrFindEntry(ctx, x, set) ==
  IF set > Len(ctx.table.sets) \/ ~bktrVerifyNodeHeader(ctx.table.sets[set], set - 1, EntriesPerSet)
  THEN NoVisitor
  ELSE [set |-> set, entry |-> bktrStorageNodeFind(ctx.table.sets[set], x)]
bktrFindStorageEntry(ctx, x) ==
  LET set == bktrGetTreeNodeEntryIndex(ctx.table.offsets, x)
  IN  IF x >= ctx.table.end \/ set = 0 THEN NoVisitor ELSE bktrFindEntry(ctx, x, set)

Entry(ctx, v) == ctx.table.sets[v.set].entries[v.entry]
bktrVisitorCanMoveNext(ctx, v) ==
  /\ v.entry # 0
  /\ v.entry < Len(ctx.table.sets[v.set].entries) \/ v.set < Len(ctx.table.sets)
\* The next entry, in the next set when this one is exhausted: the set must
\* start where the one before it ends.
bktrVisitorMoveNext(ctx, v) ==
  LET sets == ctx.table.sets
      next == v.set + 1
  IN  IF v.entry < Len(sets[v.set].entries) THEN [v EXCEPT !.entry = @ + 1]
      ELSE IF \/ ~bktrVerifyNodeHeader(sets[next], next - 1, EntriesPerSet)
              \/ sets[next].entries[1].virtual # sets[v.set].end
              \/ sets[next].entries[1].virtual >= sets[next].end
      THEN NoVisitor
      ELSE [set |-> next, entry |-> 1]

----------------------------------------------------------------------------
(* What is accepted of an entry of each type.                              *)

IndirectEntryIsSane(e) == e.index \in {0, 1}
AesCtrExEntryIsSane(e) == e.virtual % AES_BLOCK_SIZE = 0
CompressedEntryIsSane(e) ==
  /\ e.method \in {"None", "Zero", "LZ4"}
  /\ e.method = "None" <=> e.physical_size = 0 \* BKTR_COMPRESSION_INVALID_PHYS_SIZE
  /\ e.method = "LZ4" => e.physical % AES_BLOCK_SIZE = 0
EntryIsSane(ctx, e) ==
  CASE ctx.type \in {"Sparse", "Indirect"} -> IndirectEntryIsSane(e)
    [] ctx.type = "AesCtrEx" -> AesCtrExEntryIsSane(e)
    [] ctx.type = "Compressed" -> CompressedEntryIsSane(e)

\* The entry a block lies in, where the next one starts, and the visitor moved
\* on to that one; ok is FALSE when the table does not hold together.
EntryExtents(ctx, v, offset) ==
  LET of(cur, more, moved, next) ==
        [ok |-> /\ bktrIsOffsetWithinStorageRange(ctx, cur.virtual) /\ cur.virtual <= offset
                /\ EntryIsSane(ctx, cur)
                /\ more => /\ moved.entry # 0 /\ bktrIsOffsetWithinStorageRange(ctx, next)
                           /\ ctx.type # "AesCtrEx" => EntryIsSane(ctx, Entry(ctx, moved))
                /\ ctx.type = "AesCtrEx" => next % AES_BLOCK_SIZE = 0
                /\ cur.virtual < next /\ offset < next,
         cur |-> cur, next |-> next, visitor |-> moved]
  IN  IF ~bktrVisitorCanMoveNext(ctx, v) THEN of(Entry(ctx, v), FALSE, v, ctx.end)
      ELSE With(bktrVisitorMoveNext(ctx, v),
                LAMBDA moved : of(Entry(ctx, v), TRUE, moved,
                                  IF moved.entry = 0 THEN 0 ELSE Entry(ctx, moved).virtual))

----------------------------------------------------------------------------
(* Reading.                                                                *)

Read(r, S, id) == [ok |-> r.ok, data |-> r.data, S |-> [S EXCEPT ![id] = r.st]]
Unread(S) == [ok |-> FALSE, data |-> <<>>, S |-> S]
Zeroes(n) == [i \in 1 .. n |-> Zero]

\* A compressed block is the sequence of its parts <<"lz4", blob, part, of>>,
\* every other byte a shorter tuple or a model value.
LZ4_decompress_safe(data) ==
  IF /\ data # <<>>
     /\ \A i \in DOMAIN data :
          /\ data[i] \notin {Garbage, Zero}
          /\ Len(data[i]) = 4 /\ data[i] = <<"lz4", data[1][2], i, Len(data)>>
  THEN data[1][2] ELSE <<>>

RECURSIVE bktrReadStorage(_, _, _, _, _)
RECURSIVE ReadEntries(_, _, _, _, _, _, _)

\* The storage below: a section, or another bucket tree.  A sparse storage
\* tells the section where the block lies, unless that is offset 0.
SparseOffset(S, id, at) == IF at = 0 THEN S ELSE [S EXCEPT ![id].cur = at]
bktrReadSubStorage(N, ctx, sub, size, offset, virtual, S) ==
  IF size = 0 THEN Unread(S)
  ELSE IF sub.type # "Regular" THEN bktrReadStorage(N, sub.ctx, size, offset, S)
  ELSE LET T == IF ctx.type = "Sparse" THEN SparseOffset(S, sub.id, virtual) ELSE S
           n == N[sub.id]
       IN  Read(_ncaReadFsSection(n.nca, n.ctx, size, offset, T[sub.id]), T, sub.id)

\* One block of each type of storage: size bytes at offset, in entry e that
\* ends at next.
bktrReadIndirectStorage(N, ctx, e, next, size, offset, S) ==
  LET at == offset - e.virtual + e.physical
  IN  IF e.index = 1 /\ ctx.type = "Sparse" THEN [ok |-> TRUE, data |-> Zeroes(size), S |-> S]
      ELSE IF ctx.sub[e.index + 1].type = "None" THEN Unread(S)
      ELSE bktrReadSubStorage(N, ctx, ctx.sub[e.index + 1], size, at, offset, S)
bktrReadAesCtrExStorage(N, ctx, e, next, size, offset, S) ==
  LET n == N[ctx.id]
  IN  Read(_ncaReadAesCtrExStorage(n.nca, n.ctx, size, offset, e.gen, e.encrypted, S[ctx.id]),
           S, ctx.id)
bktrReadCompressedStorage(N, ctx, e, next, size, offset, S) ==
  LET base == N[ctx.id].ctx.hash_region.size + e.physical
      skip == offset - e.virtual
      part(r, blob) ==
        IF r.ok /\ Len(blob) = next - e.virtual
        THEN [r EXCEPT !.data = SubSeq(blob, skip + 1, skip + size)] ELSE Unread(r.S)
      unpacked(r) == IF e.method = "None" THEN r ELSE part(r, LZ4_decompress_safe(r.data))
      whole == e.method = "LZ4"
  IN  IF e.method = "Zero" THEN [ok |-> TRUE, data |-> Zeroes(size), S |-> S]
      ELSE unpacked(bktrReadSubStorage(N, ctx, ctx.sub[1], IF whole THEN e.physical_size ELSE size,
                                       IF whole THEN base ELSE base + skip, 0, S))
ReadEntry(N, ctx, e, next, size, offset, S) ==
  CASE ctx.type \in {"Sparse", "Indirect"} -> bktrReadIndirectStorage(N, ctx, e, next, size, offset, S)
    [] ctx.type = "AesCtrEx" -> bktrReadAesCtrExStorage(N, ctx, e, next, size, offset, S)
    [] ctx.type = "Compressed" -> bktrReadCompressedStorage(N, ctx, e, next, size, offset, S)

\* The loop all of them share: the first block starts inside its entry, the
\* others are whole entries, the last one is cut at the end of the read.
EntriesAfter(N, ctx, v, offset, read_size, accum, r) ==
  IF ~r.ok \/ accum >= read_size THEN r
  ELSE Then(r.data, ReadEntries(N, ctx, v, offset, read_size, accum, r.S))
EntriesFrom(N, ctx, x, offset, read_size, accum, S) ==
  LET block == x.next - (IF accum = 0 THEN offset ELSE x.cur.virtual)
      n == AtMost(block, read_size - accum)
  IN  IF ~x.ok THEN Unread(S)
      ELSE EntriesAfter(N, ctx, x.visitor, offset, read_size, accum + n,
                        ReadEntry(N, ctx, x.cur, x.next, n, offset + accum, S))
ReadEntries(N, ctx, v, offset, read_size, accum, S) ==
  IF v.entry = 0 THEN Unread(S)
  ELSE EntriesFrom(N, ctx, EntryExtents(ctx, v, offset + accum), offset, read_size, accum, S)

bktrReadStorage(N, ctx, read_size, offset, S) ==
  IF ~bktrIsBlockWithinStorageRange(ctx, read_size, offset) \/ offset + read_size > ctx.end
  THEN Unread(S)
  ELSE ReadEntries(N, ctx, bktrFindStorageEntry(ctx, offset), offset, read_size, 0, S)

----------------------------------------------------------------------------
(* Is any byte of a block taken from the patch?  "error" when the tables   *)
(* do not hold together.                                                   *)

FirstIsUpdated(ctx, first, v, end) == IF Entry(ctx, v).index = 1 THEN "yes" ELSE "no"
RECURSIVE IndirectIsUpdated(_, _, _, _)
IndirectIsUpdated(ctx, first, v, end) ==
  LET moved == bktrVisitorMoveNext(ctx, v)
  IN  IF Entry(ctx, v).index = 1 THEN "yes"
      ELSE IF ~bktrVisitorCanMoveNext(ctx, v) THEN "no"
      ELSE IF \/ moved.entry = 0 \/ Entry(ctx, moved).virtual <= first
              \/ ~bktrIsOffsetWithinStorageRange(ctx, Entry(ctx, moved).virtual)
      THEN "error"
      ELSE IF Entry(ctx, moved).virtual < end THEN IndirectIsUpdated(ctx, first, moved, end)
      ELSE "no"

RECURSIVE CompressedIsUpdated(_, _, _, _, _)
RECURSIVE bktrIsBlockWithinIndirectStorageRange(_, _, _, _)
CompressedIsUpdated(N, ctx, v, offset, size) ==
  LET e == Entry(ctx, v)
      more == bktrVisitorCanMoveNext(ctx, v)
      moved == IF more THEN bktrVisitorMoveNext(ctx, v) ELSE v
      next == IF more /\ moved.entry # 0 THEN Entry(ctx, moved).virtual ELSE ctx.end
      last == ~more \/ offset + size <= next
      inside == IF e.virtual <= offset THEN offset - e.virtual ELSE 0
      below == IF offset + size <= next THEN next - (offset + size) ELSE 0
      answer == bktrIsBlockWithinIndirectStorageRange(
                  N, ctx.sub[1].ctx, N[ctx.id].ctx.hash_region.size + e.physical + inside,
                  next - e.virtual - inside - below)
  IN  IF more /\ (moved.entry = 0 \/ next <= e.virtual
                  \/ ~bktrIsOffsetWithinStorageRange(ctx, next)) THEN "error"
      ELSE IF answer # "no" \/ last \/ next >= offset + size THEN answer
      ELSE CompressedIsUpdated(N, ctx, moved, offset, size)

bktrIsBlockWithinIndirectStorageRange(N, ctx, offset, size) ==
  LET v == bktrFindStorageEntry(ctx, offset)
  IN  IF \/ ~bktrIsBlockWithinStorageRange(ctx, size, offset)
         \/ ctx.type \notin {"Indirect", "Compressed"}
         \/ ctx.type = "Compressed" /\ ctx.sub[1].type # "Indirect"
         \/ v.entry = 0 \/ Entry(ctx, v).virtual > offset
         \/ ~bktrIsOffsetWithinStorageRange(ctx, Entry(ctx, v).virtual)
      THEN "error"
      ELSE IF ctx.type = "Compressed" THEN CompressedIsUpdated(N, ctx, v, offset, size)
      ELSE IndirectIsUpdated(ctx, Entry(ctx, v).virtual, v, offset + size)
=============================================================================
