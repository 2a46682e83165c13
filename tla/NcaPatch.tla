------------------------------ MODULE NcaPatch ------------------------------
(***************************************************************************)
(* How nca.c modifies an NCA that is dumped: its header, the data of a     *)
(* file of its section together with every hash layer above it, and how    *)
(* the modified bytes replace those of the blocks the NCA is read in.      *)
(*                                                                         *)
(* An NCA context is a record n.  n.header and n.fs_header are the headers *)
(* as they are now, n.encrypted what the last ncaEncryptHeader made of     *)
(* them, n.clean the header that was read.  An NCA has one section here,   *)
(* and n.st is what NcaSection keeps of it.  A hash is a tuple that holds  *)
(* what was hashed.                                                        *)
(***************************************************************************)
EXTENDS NcaContext, Folds

CONSTANT SHA256_HASH_SIZE \* scaled down: 0x20 in the code

Sha(x) == <<"sha", x>>
\* A value spread over several bytes: it is in the first, the others go with it.
Spread(tag, x, size) == [k \in 1 .. size |-> IF k = 1 THEN <<tag, x>> ELSE <<tag, k>>]
HashCells(h) == Spread("hash", h, SHA256_HASH_SIZE)
\* The hash of a whole content: what it is made from, and where it differs.
ContentHash(nca, cells) ==
  <<"nca", nca.name, [i \in {j \in DOMAIN cells : cells[j] # nca.clean[j]} |-> cells[i]]>>
\* The bytes of data put over those of buf, from the 0-based position at on.
Over(buf, at, data) ==
  [i \in DOMAIN buf |-> IF at < i /\ i <= at + Len(data) THEN data[i - at] ELSE buf[i]]

\* The headers as they are encrypted into the content.
PlainCells(values) == [k \in DOMAIN values |-> Cell(values[k], Plain)]
HeaderCells(header) == PlainCells(Spread("header", header, NcaHeaderSize))
FsHeaderCells(h) == PlainCells(Spread("fs header", h, NcaFsHeaderSize))
FsHeader(master_hash) == <<"fs", master_hash>>
NcaHeader(distribution_type, rights_id, key_area, fs_header) ==
  <<distribution_type, rights_id, key_area, Sha(fs_header)>>
WithFsHeader(header, fs_header) == [header EXCEPT ![4] = Sha(fs_header)]

----------------------------------------------------------------------------
(* The header.                                                             *)

NoRightsId == <<"none", 0>>
\* A mutated form: only the header of the section is looked at.
ncaIsFsHeaderDirty(n) == n.header[4] # n.clean[4]
ncaIsHeaderDirty(n) == n.header # n.clean
ncaSetDownloadDistributionType(n) == [n EXCEPT !.header[1] = "Download"]
\* The key area holds the key encrypted, except that of some NCA0s.
ncaKeyAreaCrypt(n, kaek) == kaek \/ (n.nca.format_version = 0 /\ n.nca.plain_key_area)
\* The title key moves to the key area and the rights ID goes.
ncaRemoveTitleKeyCrypto(n, kaek) ==
  IF ~n.rights_id_available \/ ~n.titlekey_retrieved THEN [ok |-> TRUE, n |-> n]
  ELSE IF ~ncaKeyAreaCrypt(n, kaek) THEN [ok |-> FALSE, n |-> n]
  ELSE [ok |-> TRUE,
        n |-> [n EXCEPT !.header[3] = n.titlekey, !.header[2] = NoRightsId, !.rights_id_available = FALSE]]
ncaEncryptHeader(n) ==
  IF ncaIsHeaderDirty(n) THEN [n EXCEPT !.encrypted = [header |-> n.header, fs_header |-> n.fs_header]]
  ELSE n
\* The modified content is named after its new hash.
ncaUpdateContentIdAndHash(n, hash) == [n EXCEPT !.content_id = hash, !.hash = hash]

----------------------------------------------------------------------------
(* A patch of the section.                                                 *)

\* Values encrypted for the place they are written to.
Encrypted(n, values, data_offset) ==
  LET content_offset == n.ctx.section_offset + data_offset
      sector == (IF n.nca.format_version # 0 THEN data_offset ELSE content_offset - NcaHeaderSize)
                  \div NCA_AES_XTS_SECTOR_SIZE
      iv(k) == CASE n.ctx.encryption_type = "None" -> Plain
                 [] n.ctx.encryption_type = "AesXts" -> Xts(sector * NCA_AES_XTS_SECTOR_SIZE + k)
                 [] OTHER -> Ctr(n.st.gen, content_offset + k)
  IN  [k \in DOMAIN values |-> Cell(values[k], iv(k - 1))]

\* What is not whole crypto blocks is completed with what the section holds.
ncaGenerateEncryptedFsSectionBlock(n, data, data_offset) ==
  LET unit == CryptoUnit(n.ctx)
      aligned == \/ n.ctx.encryption_type = "None"
                 \/ (n.ctx.section_offset + data_offset) % unit = 0 /\ Len(data) % unit = 0
      start == ALIGN_DOWN(data_offset, unit)
      size == ALIGN_UP(data_offset + Len(data), unit) - start
      completed(r) == [ok |-> r.ok, offset |-> n.ctx.section_offset + start,
                       cells |-> IF r.ok THEN Encrypted(n, Over(r.data, data_offset - start, data), start)
                                 ELSE <<>>]
  IN  IF \/ n.ctx.hash_type = "None" \/ data_offset + Len(data) > n.ctx.section_size
         \/ n.ctx.section_offset + data_offset + Len(data) > Len(n.nca.content)
      THEN [ok |-> FALSE, cells |-> <<>>, offset |-> 0]
      ELSE IF aligned
      THEN [ok |-> TRUE, cells |-> Encrypted(n, data, data_offset),
            offset |-> n.ctx.section_offset + data_offset]
      ELSE completed(_ncaReadFsSection(n.nca, n.ctx, size, start, n.st))

MayPatch(n, data, data_offset) ==
  LET layers == n.ctx.layers
  IN  /\ n.ctx.enabled /\ ~n.ctx.has_sparse_layer /\ ~n.ctx.has_compression_layer
      /\ n.ctx.hash_type \in Sha256Types => Len(layers) \in 1 .. MaxHashRegions
      /\ n.ctx.hash_type \in IntegrityTypes => Len(layers) = MaxHashRegions
      /\ n.ctx.hash_type \in Sha256Types \cup IntegrityTypes
      /\ n.ctx.encryption_type \in {"None", "AesXts", "AesCtr", "AesCtrSkipLayerHash"}
      /\ data # <<>> /\ data_offset + Len(data) <= layers[Len(layers)].size

\* The hashes of the blocks of a layer; the last block of an integrity level
\* is hashed with the zeroes that complete it.
ncaCalculateLayerHash(n, block, size) ==
  LET part(k) == SubSeq(block, (k - 1) * size + 1, AtMost(k * size, Len(block)))
      padding(k) == [i \in 1 .. size - Len(part(k)) |-> Zero]
  IN  FlattenSeq([k \in 1 .. ALIGN_UP(Len(block), size) \div size |->
                    HashCells(Sha(IF n.ctx.hash_type \in IntegrityTypes THEN part(k) \o padding(k)
                                  ELSE part(k)))])

\* One layer: the blocks the data lies in are read, the data put into them and
\* their hashes become the data of the layer above.  The first layer is read
\* as a whole, for the master hash.
PatchedLayer(n, i, w) ==
  LET layer == n.ctx.layers[i]
      size == n.nca.hash_block_size[i]
      start == IF i > 1 THEN ALIGN_DOWN(w.offset, size) ELSE 0
      end == IF i > 1 THEN AtMost(ALIGN_UP(w.offset + Len(w.data), size), layer.size) ELSE layer.size
      above == n.ctx.layers[i - 1].offset + (w.offset \div size) * SHA256_HASH_SIZE
      at == w.offset - ALIGN_DOWN(w.offset, size)
      piece(patched) == IF ~n.ctx.skip_hash_layer_crypto \/ i = Len(n.ctx.layers)
                        THEN ncaGenerateEncryptedFsSectionBlock(n, patched, layer.offset + w.offset)
                        ELSE [ok |-> TRUE, cells |-> PlainCells(patched),
                              offset |-> n.ctx.section_offset + layer.offset + w.offset]
      next(block, hashes, p) ==
        IF \/ ~p.ok
           \/ i > 1 /\ ~_ncaReadFsSection(n.nca, n.ctx, Len(hashes), above, n.st).ok
        THEN [w EXCEPT !.ok = FALSE]
        ELSE [ok |-> TRUE, data |-> IF i > 1 THEN hashes ELSE w.data,
              offset |-> IF i > 1 THEN (w.offset \div size) * SHA256_HASH_SIZE ELSE w.offset,
              master |-> IF i > 1 THEN w.master ELSE Sha(block),
              pieces |-> <<[cells |-> p.cells, offset |-> p.offset, written |-> FALSE]>> \o w.pieces]
      over(block) ==
        next(block, ncaCalculateLayerHash(n, block, size), piece(SubSeq(block, at + 1, at + Len(w.data))))
      read(r) == IF r.ok THEN over(Over(r.data, at, w.data)) ELSE [w EXCEPT !.ok = FALSE]
  IN  IF ~w.ok THEN w
      ELSE IF size <= 1 \/ layer.size = 0 \/ layer.offset + layer.size > n.ctx.section_size
      THEN [w EXCEPT !.ok = FALSE]
      ELSE read(_ncaReadFsSection(n.nca, n.ctx, end - start, layer.offset + start, n.st))

\* From the last layer to the first, then the headers.
ncaGenerateHashDataPatch(n, data, data_offset) ==
  LET patched(w) == IF ~w.ok THEN [ok |-> FALSE, n |-> n]
                    ELSE [ok |-> TRUE, n |-> [n EXCEPT !.fs_header = FsHeader(w.master),
                                                       !.header = WithFsHeader(@, FsHeader(w.master)),
                                                       !.patch = w.pieces]]
  IN  IF ~MayPatch(n, data, data_offset) THEN [ok |-> FALSE, n |-> n]
      ELSE patched(FoldRight(LAMBDA i, v : PatchedLayer(n, i, v),
                             [i \in DOMAIN n.ctx.layers |-> i],
                             [ok |-> TRUE, data |-> data, offset |-> data_offset, master |-> <<>>,
                              pieces |-> <<>>]))

pfsGenerateEntryPatch(n, pfs, e, data) ==
  IF e.size = 0 \/ e.offset + e.size > pfs.size \/ Len(data) > e.size THEN [ok |-> FALSE, n |-> n]
  ELSE ncaGenerateHashDataPatch(n, data, pfs.header_size + e.offset)
romfsGenerateFileEntryPatch(n, romfs, e, data) ==
  IF \/ n.ctx.section_type \notin {"Nca0RomFs", "RomFs"} \/ e.size = 0
     \/ e.offset + e.size > romfs.size \/ Len(data) > e.size
  THEN [ok |-> FALSE, n |-> n]
  ELSE ncaGenerateHashDataPatch(n, data, romfs.body_offset + e.offset)

----------------------------------------------------------------------------
(* The blocks the NCA is read in.                                          *)

\* A piece replaces what it covers of a block; done when its end was reached.
ncaWritePatchToMemoryBuffer(n, cells, offset, buf, buf_offset) ==
  IF \/ cells = <<>> \/ offset + Len(cells) > Len(n.nca.content)
     \/ buf_offset + Len(buf) <= offset \/ offset + Len(cells) <= buf_offset
  THEN [done |-> FALSE, buf |-> buf]
  ELSE LET from == IF offset < buf_offset THEN buf_offset - offset ELSE 0
           to == IF buf_offset < offset THEN offset - buf_offset ELSE 0
           size == AtMost(Len(buf) - to, Len(cells) - from)
       IN  [done |-> from + size = Len(cells),
            buf |-> Over(buf, to, SubSeq(cells, from + 1, from + size))]

\* The pieces of a patch; the patch is written when the last of them is.
WritePieces(n, buf, buf_offset) ==
  LET step(w, p) ==
        LET r == ncaWritePatchToMemoryBuffer(n, p.cells, p.offset, w.buf, buf_offset)
        IN  IF p.written THEN [w EXCEPT !.pieces = Append(@, p)]
            ELSE [buf |-> r.buf, pieces |-> Append(w.pieces, [p EXCEPT !.written = r.done])]
      w == FoldLeft(step, [buf |-> buf, pieces |-> <<>>], n.patch)
  IN  [buf |-> w.buf, n |-> [n EXCEPT !.patch = w.pieces,
                                      !.content_type_ctx_patch = \E i \in DOMAIN w.pieces :
                                                                   ~w.pieces[i].written]]

\* An NCA0 keeps the header of a section in the section.
FsHeaderOffset(n) == IF n.nca.format_version # 0 THEN NcaHeaderSize ELSE n.ctx.section_offset
ncaWriteEncryptedHeaderDataToMemoryBuffer(n, buf, buf_offset) ==
  LET first == ncaWritePatchToMemoryBuffer(n, HeaderCells(n.encrypted.header), 0, buf, buf_offset)
      second == ncaWritePatchToMemoryBuffer(n, FsHeaderCells(n.encrypted.fs_header), FsHeaderOffset(n),
                                            first.buf, buf_offset)
  IN  IF buf_offset < NcaHeaderSize /\ ~first.done
      THEN [n |-> [n EXCEPT !.header_written = FALSE], buf |-> first.buf]
      ELSE IF ~n.ctx.enabled \/ n.fs_header_written
      THEN [n |-> [n EXCEPT !.header_written = TRUE], buf |-> first.buf]
      ELSE [n |-> [n EXCEPT !.header_written = second.done, !.fs_header_written = second.done],
            buf |-> second.buf]
=============================================================================
