----------------------------- MODULE ProgramInfo -----------------------------
(***************************************************************************)
(* What is said about a program (program_info.c): its main.npdm (npdm.c)   *)
(* and its executables (nso.c), read from the ExeFS of its NCA and checked *)
(* field by field, and the document made from them.                        *)
(*                                                                         *)
(* A main.npdm is one cell <<"npdm", record>>, an executable two of        *)
(* <<"nso", record>>; offsets and sizes in them are in units of their own, *)
(* in which every header has size HeaderUnits.                             *)
(***************************************************************************)
EXTENDS NcaFiles

HeaderUnits == 2

----------------------------------------------------------------------------
(* main.npdm.                                                              *)

\* A part that has a size lies behind the header of what it is in, and in it.
Within(p, size) == p.offset >= HeaderUnits /\ p.offset + p.size <= size
Optional(p, size) == p.size # 0 => Within(p, size)
Apart(a, b) == a.offset + a.size <= b.offset \/ b.offset + b.size <= a.offset
NpdmMetaHeaderIsSane(m, size) ==
  /\ m.magic /\ m.limits_ok /\ m.stack_aligned
  /\ ~m.is_64bit => m.address_space \notin {"64BitOld", "64Bit"}
  /\ Within(m.aci, size) /\ m.aci.size >= HeaderUnits
  /\ Within(m.acid, size) /\ m.acid.size >= HeaderUnits
  /\ Apart(m.aci, m.acid)
NpdmAcidHeaderIsSane(a, acid_size) ==
  /\ a.magic /\ a.size = acid_size - 1 \* its signature, of one unit
  /\ a.program_id_min <= a.program_id_max
  /\ Within(a.fs_access_control, acid_size) /\ a.fs_access_control.size >= 1
  /\ Optional(a.srv_access_control, acid_size) /\ Optional(a.kernel_capability, acid_size)
NpdmAciHeaderIsSane(a, acid, program_id, aci_size) ==
  /\ a.magic /\ a.program_id = program_id
  /\ a.program_id \in acid.program_id_min .. acid.program_id_max
  /\ Within(a.fs_access_control, aci_size) /\ a.fs_access_control.size >= 1
  /\ Optional(a.srv_access_control, aci_size) /\ Optional(a.kernel_capability, aci_size)
npdmInitializeContext(n, fs) ==
  LET f == FileByName(fs, <<"main.npdm">>)
      none == [ok |-> FALSE, npdm |-> <<>>]
      checked(npdm, m) ==
        [ok |-> /\ NpdmMetaHeaderIsSane(m, npdm.size)
                /\ NpdmAcidHeaderIsSane(npdm.acid, m.acid.size)
                /\ NpdmAciHeaderIsSane(npdm.aci, npdm.acid, n.nca.program_id, m.aci.size)
                /\ HeaderUnits + m.acid.size + m.aci.size <= npdm.size,
         npdm |-> npdm]
      read(r) == IF ~r.ok THEN none
                 ELSE IF r.data[1] = Garbage \/ r.data[1][1] # "npdm" THEN none
                 ELSE checked(r.data[1][2], r.data[1][2].meta)
  IN  IF ~f.found \/ n.content_type # "Program" THEN none ELSE read(FileData(n, fs, fs.files[f.at]))

----------------------------------------------------------------------------
(* Executables.                                                            *)

\* A segment that is not compressed is stored as large as it is.
NsoSegmentIsSane(s, size) ==
  /\ s.file_offset >= HeaderUnits /\ s.size # 0 /\ s.file_offset + s.file_size <= size
  /\ IF s.compressed THEN s.file_size \in 1 .. s.size ELSE s.file_size = s.size
NsoSectionIsSane(p, nso) == p.size # 0 => p.offset + p.size <= nso.rodata.size
NsoHeaderIsSane(nso) ==
  /\ NsoSegmentIsSane(nso.text, nso.size) /\ NsoSegmentIsSane(nso.rodata, nso.size)
  /\ NsoSegmentIsSane(nso.data, nso.size)
  /\ nso.module_name.size > 1 => Within(nso.module_name, nso.size)
  /\ NsoSectionIsSane(nso.api_info, nso) /\ NsoSectionIsSane(nso.dynstr, nso) /\ NsoSectionIsSane(nso.dynsym, nso)
\* A segment is decompressed to its size, then verified when it has a hash.
nsoGetSegment(s) == (s.compressed => s.decompresses) /\ (s.verified => s.hash_ok)
nsoIsNnSdkVersionWithinSegment(s, memory_offset) ==
  memory_offset >= s.memory_offset /\ memory_offset + 1 <= s.memory_offset + s.size
\* The version of the SDK is in the code or in the constant data, or nowhere.
nsoGetNnSdkVersion(nso) ==
  LET at == nso.text.memory_offset + nso.nnsdk_version_offset
  IN  nso.has_nnsdk_version /\ nso.nnsdk_version_offset >= HeaderUnits
        => \/ nsoIsNnSdkVersionWithinSegment(nso.text, at)
           \/ nsoIsNnSdkVersionWithinSegment(nso.rodata, at)
nsoGetModuleName(nso) == IF nso.module_name.size > 1 THEN nso.module_name.text ELSE ""
nsoGetModulePath(nso) ==
  IF nso.text.memory_offset + nso.data_segment_offset = nso.data.memory_offset THEN "" ELSE nso.path
nsoGetSectionFromRoDataSegment(p) == IF p.size = 0 THEN <<>> ELSE p.entries
NoNso == [ok |-> FALSE]
nsoInitializeContext(n, fs, e) ==
  LET context(nso) ==
        [ok |-> /\ NsoHeaderIsSane(nso) /\ nsoGetSegment(nso.text) /\ nsoGetSegment(nso.rodata)
                /\ nsoGetNnSdkVersion(nso),
         name |-> e.name, module_name |-> nsoGetModuleName(nso), module_path |-> nsoGetModulePath(nso),
         api_info |-> nsoGetSectionFromRoDataSegment(nso.api_info),
         dynstr_size |-> nso.dynstr.size, dynsym |-> nsoGetSectionFromRoDataSegment(nso.dynsym)]
  IN  With(FileData(n, fs, e), LAMBDA r : IF r.ok THEN context(r.data[1][2]) ELSE NoNso)

NoProgram == [ok |-> FALSE, npdm |-> <<>>, nsos |-> <<>>]
\* Every file that begins like an executable must be one.
IsNso(n, fs, e) ==
  /\ e.name # <<"main.npdm">>
  /\ With(FileData(n, fs, [e EXCEPT !.size = AtMost(@, 1)]),
          LAMBDA r : r.ok /\ r.data[1] # Garbage /\ r.data[1][1] = "nso")
programInfoInitializeContext(n) ==
  LET context(npdm, nsos) ==
        IF ~npdm.ok THEN NoProgram
        ELSE [ok |-> nsos # <<>> /\ \A i \in DOMAIN nsos : nsos[i].ok, npdm |-> npdm.npdm, nsos |-> nsos]
      executables(fs, files) == [i \in DOMAIN files |-> nsoInitializeContext(n, fs, files[i])]
      opened(fs) == IF ~fs.ok THEN NoProgram
                    ELSE context(npdmInitializeContext(n, fs),
                                 executables(fs, SelectSeq(fs.files, LAMBDA e : IsNso(n, fs, e))))
  IN  IF n.content_type # "Program" \/ n.content_type_ctx THEN NoProgram ELSE opened(pfsOpened(n))

----------------------------------------------------------------------------
(* The document.  An entry of an api_info section is [prefix, vender, name,  *)
(* nnsdk, version, build_type]: nnsdk tells whether the name is that of     *)
(* the SDK itself.                                                          *)

programInfoIsApiInfoEntryValid(prefixes, entry, nnsdk) ==
  entry.prefix \in prefixes /\ entry.vender # "" /\ entry.name # "" /\ entry.nnsdk = nnsdk
SdkPrefixes == {"SDK MW", "SDK Debug", "SDK Private", "SDK Guideline", "SDK"}
\* The first entry of the SDK in the first "sdk" that has any entry.
programInfoGetSdkVersionAndBuildTypeFromSdkNso(c) ==
  LET sdk == SelectSeq(c.nsos, LAMBDA x : x.name = <<"sdk">> /\ x.api_info # <<>>)
      of == SelectSeq(IF sdk = <<>> THEN <<>> ELSE sdk[1].api_info,
                      LAMBDA e : programInfoIsApiInfoEntryValid(SdkPrefixes, e, TRUE))
  IN  IF of = <<>> THEN <<"", "">> ELSE <<of[1].version, of[1].build_type>>
\* Every entry of a kind, executable by executable.
programInfoAddNsoApiListToAuthoringToolXml(c, tag, prefix) ==
  LET in(x) == SelectSeq(x.api_info, LAMBDA e : programInfoIsApiInfoEntryValid({prefix}, e, FALSE))
      list == FlattenSeq([i \in DOMAIN c.nsos |->
                            [k \in DOMAIN in(c.nsos[i]) |->
                               <<tag, in(c.nsos[i])[k].name, in(c.nsos[i])[k].vender, c.nsos[i].name>>]])
  IN  IF list = <<>> THEN <<<<tag>>>> ELSE list
programInfoIsElfSymbolValid(s, dynstr_size) ==
  s.name < dynstr_size /\ s.type \in {"NOTYPE", "FUNC"} /\ s.undefined
\* What "main" leaves to others to resolve.
programInfoAddNsoSymbolsToAuthoringToolXml(c) ==
  LET main == SelectSeq(c.nsos, LAMBDA x : x.name = <<"main">> /\ x.dynstr_size # 0 /\ x.dynsym # <<>>)
      of == IF main = <<>> THEN <<>>
            ELSE SelectSeq(main[1].dynsym, LAMBDA s : programInfoIsElfSymbolValid(s, main[1].dynstr_size))
  IN  IF of = <<>> THEN <<<<"UnresolvedApi">>>> ELSE [i \in DOMAIN of |-> <<"UnresolvedApi", of[i].name>>]
programInfoAddFsAccessControlDataToAuthoringToolXml(c) ==
  LET fac == c.npdm.aci.fac
  IN  IF fac.save_data_owner_offset < HeaderUnits \/ fac.save_data_owners = <<>>
      THEN <<<<"FsAccessControlData">>>>
      ELSE [i \in DOMAIN fac.save_data_owners |-> <<"SaveDataOwnerId", fac.save_data_owners[i]>>]
programInfoGenerateAuthoringToolXml(c) ==
  LET sdk == programInfoGetSdkVersionAndBuildTypeFromSdkNso(c)
  IN  <<<<"ProgramInfo", sdk, c.npdm.meta.is_64bit, c.npdm.acid.desc>>>>
        \o programInfoAddNsoApiListToAuthoringToolXml(c, "Middleware", "SDK MW")
        \o programInfoAddNsoApiListToAuthoringToolXml(c, "DebugApi", "SDK Debug")
        \o programInfoAddNsoApiListToAuthoringToolXml(c, "PrivateApi", "SDK Private")
        \o programInfoAddNsoApiListToAuthoringToolXml(c, "GuidelineApi", "SDK Guideline")
        \o programInfoAddNsoSymbolsToAuthoringToolXml(c)
        \o programInfoAddFsAccessControlDataToAuthoringToolXml(c)
=============================================================================
