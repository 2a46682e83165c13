----------------------------- MODULE NcaContext -----------------------------
(***************************************************************************)
(* What nca.c makes of the headers of an NCA: which sections it enables,   *)
(* with which type, crypto and layers, and what a section context keeps.   *)
(*                                                                         *)
(* nca is [content, bad, format_version, header_ok, rights_id, ...]; the   *)
(* header of a section is a record with the fields of NcaFsHeader and      *)
(* NcaFsInfo that the decisions depend on.                                 *)
(***************************************************************************)
EXTENDS NcaSection

CONSTANTS
  NcaFsHeaderSize, \* scaled down: sizeof(NcaFsHeader)
  MaxHashRegions   \* scaled down: NCA_HIERARCHICAL_SHA256_MAX_REGION_COUNT, NCA_IVFC_LEVEL_COUNT

Sha256Types == {"HierarchicalSha256", "HierarchicalSha3256"}
IntegrityTypes == {"HierarchicalIntegrity", "HierarchicalIntegritySha3"}
SkipTypes == {"AesCtrSkipLayerHash", "AesCtrExSkipLayerHash"}

ncaIsFsInfoEntryValid(h) == h.start # 0 \/ h.size # 0
ncaVerifyBucketInfo(bucket) == bucket.sane

\* The types a header leaves to the index of the section.
HashType(h) ==
  CASE h.hash_type \notin {"Auto", "AutoSha3"} -> h.hash_type
    [] h.idx \in {0, 2} -> IF h.hash_type = "Auto" THEN "HierarchicalSha256"
                           ELSE "HierarchicalSha3256"
    [] h.idx = 1 -> IF h.hash_type = "Auto" THEN "HierarchicalIntegrity"
                    ELSE "HierarchicalIntegritySha3"
    [] OTHER -> "Invalid"
EncryptionType(nca, h) ==
  CASE nca.format_version = 0 -> "AesXts"
    [] nca.format_version # 0 /\ h.encryption_type # "Auto" -> h.encryption_type
    [] h.idx \in {0, 1} -> "AesCtr"
    [] h.idx = 2 -> "None"
    [] OTHER -> "Invalid"

SectionType(nca, h, hash, enc) ==
  CASE /\ h.fs_type = "PartitionFs"
       /\ \/ hash = "None" /\ enc \in {"None", "AesXts", "AesCtr"}
          \/ hash \in Sha256Types /\ enc \in {"None", "AesXts", "AesCtr", "AesCtrSkipLayerHash"}
     -> "PartitionFs"
    [] /\ h.fs_type = "RomFs" /\ hash \in IntegrityTypes \cup {"None"} /\ h.indirect /\ h.aes_ctr_ex
       /\ \/ enc \in {"None", "AesCtrEx"}
          \/ enc = "AesCtrExSkipLayerHash" /\ hash # "None"
     -> "PatchRomFs"
    [] /\ h.fs_type = "RomFs" /\ hash \in IntegrityTypes \cup {"None"} /\ ~h.indirect /\ ~h.aes_ctr_ex
       /\ \/ enc \in {"None", "AesXts", "AesCtr"}
          \/ enc = "AesCtrSkipLayerHash" /\ hash # "None"
     -> "RomFs"
    [] h.fs_type = "RomFs" /\ hash = "HierarchicalSha256" /\ nca.format_version = 0 -> "Nca0RomFs"
    [] OTHER -> "Invalid"

\* The hash layers are in order and, all but the last, inside the section.
ncaFsSectionValidateHashDataBoundaries(ctx) ==
  \/ ctx.section_type = "PatchRomFs" \/ ctx.has_sparse_layer \/ ctx.hash_type = "None"
  \/ LET n == Len(ctx.layers)
     IN  /\ n \in 1 .. MaxHashRegions
         /\ ctx.hash_type \in IntegrityTypes => n = MaxHashRegions
         /\ \A i \in 1 .. n :
              /\ ctx.layers[i].size > 0
              /\ i > 1 => ctx.layers[i].offset >= ctx.layers[i - 1].offset + ctx.layers[i - 1].size
              /\ i < n => ctx.layers[i].offset + ctx.layers[i].size <= ctx.section_size

\* A section with a sparse layer is as large as the data and the table it
\* stores; with an empty table it keeps the size of the header.
SparseSize(h) == h.sparse.offset + h.sparse.size
HasSparseData(h) == SparseSize(h) # 0 /\ h.sparse.entry_count # 0
SparseIsSane(nca, h) ==
  /\ ncaVerifyBucketInfo(h.sparse) /\ h.sparse.physical >= NcaHeaderSize
  /\ h.sparse.physical + SparseSize(h) <= Len(nca.content)
CompressionIsSane(nca, h, ctx) ==
  LET at == IF ctx.section_type = "PatchRomFs" \/ ctx.has_sparse_layer THEN 0
            ELSE ctx.hash_region.size + h.compression.offset
  IN  /\ ncaVerifyBucketInfo(h.compression) /\ h.compression.entry_count # 0
      /\ at # 0 => /\ at >= NcaHeaderSize /\ at + h.compression.size <= ctx.section_size
                   /\ ctx.section_offset + at + h.compression.size <= Len(nca.content)

\* The context made from a header; enabled when every check accepts it.
ncaInitializeFsSectionContext(nca, h) ==
  LET sparse == h.sparse.generation # 0
      made(hash, enc) ==
        [enabled |-> FALSE, section_type |-> SectionType(nca, h, hash, enc),
         encryption_type |-> enc, section_offset |-> h.start,
         section_size |-> IF sparse /\ HasSparseData(h) THEN SparseSize(h) ELSE h.size,
         ctr |-> h.upper_iv, has_sparse_layer |-> sparse,
         has_compression_layer |-> h.compression.offset # 0 /\ h.compression.size # 0,
         skip_hash_layer_crypto |-> enc \in SkipTypes, hash_type |-> hash,
         layers |-> h.layers, hash_region |-> [offset |-> 0, size |-> 0]]
      enabled(ctx) ==
        /\ ncaIsFsInfoEntryValid(h) /\ h.hash_ok
        /\ h.start >= NcaHeaderSize /\ h.size > 0
        /\ ctx.hash_type # "Invalid" /\ ctx.encryption_type # "Invalid"
        /\ sparse => SparseIsSane(nca, h)
        /\ (sparse /\ ~HasSparseData(h)) \/ h.start + ctx.section_size <= Len(nca.content)
        /\ ctx.section_type # "Invalid"
        /\ ncaFsSectionValidateHashDataBoundaries(ctx)
        /\ ctx.section_type = "PatchRomFs" \/ sparse
             \/ /\ ctx.hash_region.size <= ctx.section_size
                /\ h.start + ctx.hash_region.size <= Len(nca.content)
        /\ ctx.skip_hash_layer_crypto => ctx.hash_type # "None"
        /\ ctx.has_compression_layer => CompressionIsSane(nca, h, ctx)
      checked(ctx) == [ctx EXCEPT !.enabled = enabled(ctx)]
      bounded(ctx) ==
        checked([ctx EXCEPT !.hash_region.size = ncaGetFsSectionHashTargetExtents(ctx).offset])
  IN  bounded(made(HashType(h), EncryptionType(nca, h)))

\* The header is read and decrypted, then that of every section in use, which
\* an NCA0 keeps in the section itself.
ncaReadDecryptedHeader(nca, headers) ==
  /\ ncaReadContentFile(nca, NcaHeaderSize, 0).ok
  /\ nca.header_ok
  /\ \A i \in DOMAIN headers :
       ncaIsFsInfoEntryValid(headers[i]) =>
         ncaReadContentFile(nca, NcaFsHeaderSize,
                            IF nca.format_version = 0 THEN headers[i].start
                            ELSE NcaHeaderSize + (i - 1) * NcaFsHeaderSize).ok

\* Without a rights ID the keys come from the key area, otherwise from the
\* ticket; a ticket that cannot be retrieved leaves the counter and the key
\* zeroed, with the section enabled.
ncaInitializeContext(nca, headers, kaek, ticket) ==
  With([i \in DOMAIN headers |-> ncaInitializeFsSectionContext(nca, headers[i])],
       LAMBDA sections :
         [ok |-> /\ Len(nca.content) >= NcaHeaderSize + Len(headers) * NcaFsHeaderSize
                 /\ ncaReadDecryptedHeader(nca, headers)
                 /\ nca.rights_id \/ kaek
                 /\ \E i \in DOMAIN sections : sections[i].enabled,
          keys |-> ~nca.rights_id \/ ticket,
          sections |-> sections])
=============================================================================
