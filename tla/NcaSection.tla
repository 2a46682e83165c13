----------------------------- MODULE NcaSection -----------------------------
(***************************************************************************)
(* How nca.c reads a filesystem section of an NCA: raw access to the       *)
(* content file, and the two readers that decrypt what they read, whatever *)
(* the alignment of the request and however small the crypto buffer is.    *)
(*                                                                         *)
(* A byte of a content is a cell [v, iv]: the plaintext and the keystream  *)
(* position it was encrypted at, Plain when it was not.  Decrypting at any *)
(* other position yields Garbage.                                          *)
(***************************************************************************)
EXTENDS Integers, Sequences, FiniteSets, SequencesExt

CONSTANTS
  AES_BLOCK_SIZE,          \* scaled down: 0x10 in the code
  NCA_AES_XTS_SECTOR_SIZE, \* scaled down: 0x200
  NCA_CRYPTO_BUFFER_SIZE,  \* scaled down: 8 MiB
  NcaHeaderSize,           \* scaled down: sizeof(NcaHeader)
  Zero,                    \* a zero byte
  Garbage,                 \* what a wrong key or counter decrypts to
  Plain                    \* the position of a byte that is not encrypted

ASSUME SizesAssumption ==
  /\ {AES_BLOCK_SIZE, NCA_AES_XTS_SECTOR_SIZE, NCA_CRYPTO_BUFFER_SIZE, NcaHeaderSize}
       \subseteq Nat \ {0}
  /\ NCA_CRYPTO_BUFFER_SIZE % NCA_AES_XTS_SECTOR_SIZE = 0
  /\ NCA_AES_XTS_SECTOR_SIZE % AES_BLOCK_SIZE = 0

ALIGN_DOWN(x, y) == (x \div y) * y
ALIGN_UP(x, y) == ALIGN_DOWN(x + y - 1, y)
AtMost(x, y) == IF x < y THEN x ELSE y
\* F of a value that is worked out once.
With(v, F(_)) == F(v)

Cell(v, iv) == [v |-> v, iv |-> iv]
Xts(pos) == <<0, pos>>
Ctr(gen, pos) == <<gen, pos>> \* gen: the upper half of the counter, at least 1

\* What the bytes read mean when they are used as they are, and when they are
\* decrypted with the keystream that starts at position pos of generation gen.
AsPlain(cells) == [i \in DOMAIN cells |-> IF cells[i].iv = Plain THEN cells[i].v ELSE Garbage]
Decrypted(cells, gen, pos) ==
  [i \in DOMAIN cells |->
     IF cells[i].iv = <<gen, pos + i - 1>> THEN cells[i].v ELSE Garbage]

\* What a section context keeps between two reads: the sparse virtual offset
\* (0: none) and the upper half of the counter, of which a regular read changes
\* nothing and an AesCtrEx read leaves the generation it used; on: the context
\* was made and the section enabled.  Without keys the counter is zero.
Fresh(ctx, keys) ==
  [on |-> ctx.enabled, keys |-> keys, cur |-> 0, gen |-> IF keys THEN ctx.ctr ELSE 0]
NotMade == [on |-> FALSE, keys |-> FALSE, cur |-> 0, gen |-> 0]

\* The outcome of a read: the bytes, and the state left in the section context.
Failed(st) == [ok |-> FALSE, data |-> <<>>, st |-> st]
Done(data, st) == [ok |-> TRUE, data |-> data, st |-> st]
Then(first, second) ==
  [second EXCEPT !.data = IF second.ok THEN first \o @ ELSE <<>>]

\* The content file: read through ncm, or from the game card at the content's
\* offset.  A range that touches a bad byte fails.
ncaReadContentFile(nca, size, offset) ==
  IF offset + size > Len(nca.content) \/ \E x \in nca.bad : offset <= x /\ x < offset + size
  THEN [ok |-> FALSE, data |-> <<>>]
  ELSE [ok |-> TRUE, data |-> SubSeq(nca.content, offset + 1, offset + size)]

\* The part of a block that lies in the hash layers the header leaves
\* unencrypted; size 0: none of it does.
ncaFsSectionCheckPlaintextHashRegionAccess(ctx, offset, size) ==
  LET end == ctx.hash_region.offset + ctx.hash_region.size
      start == IF ctx.hash_region.offset <= offset THEN offset ELSE ctx.hash_region.offset
  IN  [offset |-> start,
       size |-> IF ctx.skip_hash_layer_crypto /\ start < end /\ start < offset + size
                THEN AtMost(end, offset + size) - start ELSE 0]

CryptoUnit(ctx) ==
  IF ctx.encryption_type = "AesXts" THEN NCA_AES_XTS_SECTOR_SIZE ELSE AES_BLOCK_SIZE

\* The bytes read from the start of a crypto unit, decrypted: an XTS sector
\* number counts from the section (NCA0: from the end of the header), a
\* counter from iv_offset.
SectionDecrypted(nca, ctx, gen, cells, offset, iv_offset) ==
  LET sector == (IF nca.format_version # 0 THEN offset
                 ELSE ctx.section_offset + offset - NcaHeaderSize)
                  \div NCA_AES_XTS_SECTOR_SIZE
  IN  IF ctx.encryption_type = "AesXts"
      THEN Decrypted(cells, 0, sector * NCA_AES_XTS_SECTOR_SIZE)
      ELSE Decrypted(cells, gen, ALIGN_DOWN(iv_offset, AES_BLOCK_SIZE))

\* How an unaligned block is cut: what is read into the crypto buffer, where
\* the wanted bytes start in it and how many of them are handed out.
Chunk(unit, content_offset, read_size) ==
  LET start == ALIGN_DOWN(content_offset, unit)
      block == ALIGN_UP(content_offset + read_size, unit) - start
      more == block > NCA_CRYPTO_BUFFER_SIZE
      skip == content_offset - start
  IN  [start |-> start, size |-> IF more THEN NCA_CRYPTO_BUFFER_SIZE ELSE block, skip |-> skip,
       out |-> IF more THEN NCA_CRYPTO_BUFFER_SIZE - skip ELSE read_size, more |-> more]

\* However a read ends, the section forgets the sparse offset it was read at.
SectionReadEnds(ctx, r) == [r EXCEPT !.st.cur = IF ctx.has_sparse_layer THEN 0 ELSE @]

\* While st.cur is set it says where the block lies in the virtual storage,
\* whose counters encrypt it; what is left to read is <<size, offset>>.
_ncaReadFsSection(nca, ctx, read_size, offset, st) ==
  LET unit == CryptoUnit(ctx)
      virtual == ctx.has_sparse_layer /\ st.cur # 0
      raw(size, at) == ncaReadContentFile(nca, size, at)
      now(at) == [st EXCEPT !.cur = IF virtual THEN @ + (at - offset) ELSE @]
      iv_offset(at) == ctx.section_offset + IF virtual THEN now(at).cur ELSE at
      text(cells, at) == IF ctx.encryption_type = "None" THEN AsPlain(cells)
                         ELSE SectionDecrypted(nca, ctx, st.gen, cells, at, iv_offset(at))
      aligned(size, at) == \/ ctx.encryption_type = "None"
                           \/ (ctx.section_offset + at) % unit = 0 /\ size % unit = 0
      read[left \in Nat \X Nat] ==
        LET size == left[1]
            at == left[2]
            content_offset == ctx.section_offset + at
            failed == Failed(now(at))
            done(data) == Done(data, now(at))
            rest(first, n) == Then(first, read[<<size - n, at + n>>])
            whole(r) == IF r.ok THEN done(text(r.data, at)) ELSE failed
            buffered(chunk, r) ==
              IF ~r.ok THEN failed
              ELSE With(SubSeq(text(r.data, at), chunk.skip + 1, chunk.skip + chunk.out),
                        LAMBDA out : IF chunk.more THEN rest(out, chunk.out) ELSE done(out))
            plainFirst(n, r) == IF ~r.ok THEN failed
                                ELSE IF n = size THEN done(AsPlain(r.data)) ELSE rest(AsPlain(r.data), n)
            plainLast(first, r) == IF first.ok /\ r.ok THEN done(first.data \o AsPlain(r.data)) ELSE failed
            result(plain) ==
              IF content_offset + size > Len(nca.content) THEN failed
              ELSE IF plain.size > 0 /\ plain.offset = at
              THEN plainFirst(plain.size, raw(plain.size, content_offset))
              ELSE IF plain.size > 0
              THEN plainLast(read[<<plain.offset - at, at>>],
                             raw(size - (plain.offset - at), content_offset + (plain.offset - at)))
              ELSE IF aligned(size, at) THEN whole(raw(size, content_offset))
              ELSE With(Chunk(unit, content_offset, size),
                        LAMBDA chunk : buffered(chunk, raw(chunk.size, chunk.start)))
        IN  IF size = 0 \/ at + size > ctx.section_size THEN failed
            ELSE SectionReadEnds(ctx, result(ncaFsSectionCheckPlaintextHashRegionAccess(ctx, at, size)))
  IN  read[<<read_size, offset>>]

\* A block of a patch, whose counters carry the generation of its AesCtrEx
\* entry and count from the content, never from a sparse offset.
_ncaReadAesCtrExStorage(nca, ctx, read_size, offset, ctr_val, decrypt, st) ==
  LET used == [st EXCEPT !.gen = ctr_val]
      now(at) == IF at = offset THEN st ELSE used
      aligned(size, at) == at % AES_BLOCK_SIZE = 0 /\ size % AES_BLOCK_SIZE = 0
      read[left \in Nat \X Nat] ==
        LET size == left[1]
            at == left[2]
            content_offset == ctx.section_offset + at
            whole(r) ==
              IF ~r.ok THEN Failed(now(at))
              ELSE IF decrypt THEN Done(Decrypted(r.data, ctr_val, content_offset), used)
              ELSE Done(AsPlain(r.data), now(at))
            rest(first, n) == Then(first, read[<<size - n, at + n>>])
            part(chunk, r) ==
              IF ~r.ok THEN Failed(now(at))
              ELSE With(SubSeq(Decrypted(r.data, ctr_val, chunk.start),
                               chunk.skip + 1, chunk.skip + chunk.out),
                        LAMBDA out : IF chunk.more THEN rest(out, chunk.out) ELSE Done(out, used))
            cut(chunk) == part(chunk, ncaReadContentFile(nca, chunk.size, chunk.start))
        IN  IF \/ size = 0 \/ at + size > ctx.section_size
               \/ content_offset + size > Len(nca.content)
            THEN Failed(now(at))
            ELSE IF ~decrypt \/ aligned(size, content_offset)
            THEN whole(ncaReadContentFile(nca, size, content_offset))
            ELSE cut(Chunk(AES_BLOCK_SIZE, content_offset, size))
  IN  read[<<read_size, offset>>]

\* What of a section its hash layers protect: everything when there are none,
\* otherwise the last layer.
ncaGetFsSectionHashTargetExtents(ctx) ==
  IF ctx.hash_type = "None" THEN [offset |-> 0, size |-> ctx.section_size]
  ELSE [offset |-> ctx.layers[Len(ctx.layers)].offset, size |-> ctx.layers[Len(ctx.layers)].size]
=============================================================================
