----------------------------- MODULE ContentMeta -----------------------------
(***************************************************************************)
(* The content meta of a title (cnmt.c): read from its Meta NCA, checked,  *)
(* used to verify the contents, and rewritten when they were modified.     *)
(*                                                                         *)
(* raw is the file, a sequence of cells: the packaged header, the extended *)
(* header, one info per content, one per referenced title, the extended    *)
(* data and the digest.                                                    *)
(***************************************************************************)
EXTENDS NcaFiles

ContentMetaPlatforms == {"Nx"}
\* The size of the extended header of each type, and whether it has extended data.
ExtendedHeaderSizes(type) ==
  CASE type = "AddOnContent" -> {1, 2} \* the legacy form is smaller
    [] type \in {"SystemUpdate", "Application", "Patch", "Delta", "DataPatch"} -> {1}
    [] OTHER -> {0}
WithExtendedData == {"SystemUpdate", "Patch", "Delta", "DataPatch"}

PackagedHeader(raw) == raw[1][2]
ExtendedHeader(raw) == raw[2][2]
ExtendedDataSize(raw) ==
  IF PackagedHeader(raw).extended_header_size # 0 /\ PackagedHeader(raw).type \in WithExtendedData
  THEN ExtendedHeader(raw).data_size ELSE 0
InfoAt(raw, i) == 1 + PackagedHeader(raw).extended_header_size + i
Infos(raw) == [i \in 1 .. PackagedHeader(raw).content_count |-> raw[InfoAt(raw, i)][2]]

\* A name is <<"cnmt", type, title ID, extension>>.
cnmtGetContentMetaTypeAndTitleIdFromFileName(name) ==
  [ok |-> name[2] # "unknown" /\ name[3] # 0, type |-> name[2], title_id |-> name[3]]

\* The header agrees with the name, every count with the type, and the parts
\* add up to the size of the file.
HeaderIsSane(raw, info) ==
  LET h == PackagedHeader(raw)
  IN  /\ h.title_id = info.title_id /\ h.type = info.type /\ h.platform \in ContentMetaPlatforms
      /\ h.content_count # 0 \/ h.type = "SystemUpdate"
      /\ (h.content_meta_count # 0) = (h.type = "SystemUpdate")
      /\ h.extended_header_size # 0 =>
           /\ h.extended_header_size \in ExtendedHeaderSizes(h.type)
           /\ h.type \in WithExtendedData => ExtendedDataSize(raw) > 1
SizesAddUp(raw) ==
  LET h == PackagedHeader(raw)
  IN  Len(raw) = 1 + h.extended_header_size + h.content_count + h.content_meta_count
                   + ExtendedDataSize(raw) + 1

NoCnmt == [ok |-> FALSE, raw |-> <<>>, raw_data_hash |-> <<>>, entry |-> 0, fs |-> NotOpened]
cnmtInitializeContext(n) ==
  LET read(fs, i, info, r) ==
        IF ~info.ok \/ ~r.ok THEN NoCnmt
        ELSE IF \/ \E k \in DOMAIN r.data : r.data[k] = Garbage
                \/ ~HeaderIsSane(r.data, info) \/ ~SizesAddUp(r.data)
        THEN NoCnmt
        ELSE [ok |-> TRUE, raw |-> r.data, raw_data_hash |-> Sha(r.data), entry |-> i, fs |-> fs]
      found(fs, i) == read(fs, i, cnmtGetContentMetaTypeAndTitleIdFromFileName(fs.files[i].name),
                           FileData(n, fs, fs.files[i]))
      opened(fs, named) == IF ~fs.ok \/ named = {} THEN NoCnmt
                           ELSE found(fs, CHOOSE j \in named : \A k \in named : j <= k)
  IN  IF n.content_type # "Meta" \/ n.content_type_ctx THEN NoCnmt
      ELSE With(pfsOpened(n),
                LAMBDA fs : opened(fs, {i \in DOMAIN fs.files : fs.files[i].name[1] = "cnmt"}))

\* The hash of a content that was read must be the one that is listed; that of
\* the Meta NCA is listed nowhere.
InfoById(raw, content_id) == {i \in DOMAIN Infos(raw) : Infos(raw)[i].content_id = content_id}
cnmtVerifyContentHash(cnmt, n, hash) ==
  \/ n.content_type = "Meta"
  \/ LET found == InfoById(cnmt.raw, n.content_id)
     IN  found # {} /\ Infos(cnmt.raw)[CHOOSE i \in found : \A j \in found : i <= j].hash = hash

\* A modified content is found by what did not change.
cnmtUpdateContentInfo(cnmt, n) ==
  LET raw == cnmt.raw
      found == {i \in DOMAIN Infos(raw) :
                  /\ Infos(raw)[i].size = Len(n.nca.content)
                  /\ Infos(raw)[i].content_type = n.content_type
                  /\ Infos(raw)[i].id_offset = n.id_offset}
      first == CHOOSE i \in found : \A j \in found : i <= j
      info == [Infos(raw)[first] EXCEPT !.hash = n.hash, !.content_id = n.content_id]
  IN  IF n.content_type = "Meta" THEN [ok |-> TRUE, cnmt |-> cnmt]
      ELSE IF found = {} THEN [ok |-> FALSE, cnmt |-> cnmt]
      ELSE [ok |-> TRUE, cnmt |-> [cnmt EXCEPT !.raw[InfoAt(raw, first)] = <<"info", info>>]]

\* Nothing to do when every info is as it was.
cnmtGenerateNcaPatch(cnmt, n) ==
  IF Sha(cnmt.raw) = cnmt.raw_data_hash THEN [ok |-> TRUE, n |-> n]
  ELSE With(pfsGenerateEntryPatch(n, [size |-> cnmt.fs.size, header_size |-> cnmt.fs.body],
                                  cnmt.fs.files[cnmt.entry], cnmt.raw),
            LAMBDA r : [r EXCEPT !.n.content_type_ctx_patch = r.ok])
cnmtWriteNcaPatch(n, buf, buf_offset) ==
  IF n.content_type = "Meta" /\ n.content_type_ctx_patch THEN WritePieces(n, buf, buf_offset)
  ELSE [buf |-> buf, n |-> n]

\* The title and the version that are needed, whatever the type calls them.
cnmtGetRequiredTitleId(raw) ==
  IF PackagedHeader(raw).type \in {"Application", "Patch", "AddOnContent", "DataPatch"}
  THEN ExtendedHeader(raw).required_title_id ELSE 0
cnmtGetRequiredTitleVersion(raw) ==
  IF PackagedHeader(raw).type \in {"Application", "Patch", "AddOnContent", "DataPatch"}
  THEN ExtendedHeader(raw).required_version ELSE 0
cnmtGetRequiredTitleVersionString(type) ==
  CASE type \in {"Application", "Patch"} -> "RequiredSystemVersion"
    [] type \in {"AddOnContent", "DataPatch"} -> "RequiredApplicationVersion"
    [] OTHER -> "Unknown"
cnmtGetRequiredTitleTypeString(type) ==
  CASE type = "Application" -> "PatchId" [] type \in {"Patch", "AddOnContent"} -> "ApplicationId"
    [] OTHER -> "Unknown"

\* The document that comes with an NSP, one element per content.  The hash of
\* a content that was not modified was never filled in.
cnmtGenerateAuthoringToolXml(cnmt, ns) ==
  LET type == PackagedHeader(cnmt.raw).type
      content(n) == <<"content", [type |-> n.content_type, id |-> n.content_id, hash |-> n.hash,
                                  size |-> Len(n.nca.content), id_offset |-> n.id_offset]>>
      required == IF type \in {"Application", "Patch", "AddOnContent", "DataPatch"}
                  THEN <<<<cnmtGetRequiredTitleVersionString(type), cnmtGetRequiredTitleVersion(cnmt.raw)>>,
                         <<cnmtGetRequiredTitleTypeString(type), cnmtGetRequiredTitleId(cnmt.raw)>>>>
                  ELSE <<>>
  IN  [ok |-> /\ Len(ns) <= PackagedHeader(cnmt.raw).content_count + 1
              /\ \A i \in DOMAIN ns : ns[i].content_type # "Meta" => InfoById(cnmt.raw, ns[i].content_id) # {},
       xml |-> <<<<"ContentMeta", type, PackagedHeader(cnmt.raw).title_id>>>>
                 \o [i \in DOMAIN ns |-> content(ns[i])]
                 \o <<<<"Digest", Last(cnmt.raw)>>>> \o required]
=============================================================================
