------------------------------- MODULE MCNsp --------------------------------
(***************************************************************************)
(* Small titles dumped to every kind of device, and keys files of every    *)
(* kind loaded on every kind of console.                                   *)
(***************************************************************************)
EXTENDS NspDump

----------------------------------------------------------------------------
(* Consoles and keys files.                                                *)

Unit(mariko, hos, atmosphere, device_key) ==
  [dev |-> "retail", mariko |-> mariko, hos |-> hos, atmosphere |-> atmosphere, device_key |-> device_key]
Line(key, index, value) ==
  [key |-> key, index |-> index, value |-> value, malformed |-> FALSE, whole |-> TRUE, end |-> "lf"]
RootLine(mariko, dev) ==
  LET name == IF mariko THEN "mariko_kek" ELSE "tsec_root_key" IN Line(name, 0, <<name, dev>>)
KekLine(name, dev) == Line(name, 0, <<name, dev>>)
MasterLine(i, dev) == Line("master_key", i, <<"master", dev, i>>)
File(lines) == [exists |-> TRUE, lines |-> lines]
NoFile == [exists |-> FALSE, lines |-> <<>>]

GoodUnit == Unit(FALSE, 2, 2, "personalized")
GoodFile == File(<<RootLine(FALSE, "retail"), KekLine("eticket_rsa_kek_personalized", "retail")>>)

Roots == {<<>>} \cup {<<RootLine(mariko, dev)>> : mariko \in BOOLEAN, dev \in {"retail", "prototype"}}
Keks == {<<KekLine("eticket_rsa_kek_personalized", "retail"), KekLine("eticket_rsa_kek", "retail")>>,
         <<KekLine("eticket_rsa_kek", "retail")>>, <<KekLine("eticket_rsa_kek_personalized", "prototype")>>}
Masters ==
  {<<>>, <<MasterLine(1, "retail")>>, <<MasterLine(2, "retail")>>, <<MasterLine(2, "prototype")>>,
   <<MasterLine(1, "prototype"), MasterLine(2, "retail"), MasterLine(3, "retail")>>,
   <<MasterLine(2, "retail"), MasterLine(3, "prototype")>>}
Spoiled(line) == {[line EXCEPT !.malformed = TRUE], [line EXCEPT !.whole = FALSE], [line EXCEPT !.key = ""]}
SpoiledFiles ==
  {File(<<bad>> \o Tail(GoodFile.lines)) :
     bad \in Spoiled(RootLine(FALSE, "retail")) \cup {[RootLine(FALSE, "retail") EXCEPT !.end = "error"]}}
Files == {File(r \o m \o k) : r \in Roots, m \in Masters, k \in Keks} \cup SpoiledFiles \cup {NoFile}
Units ==
  {Unit(mariko, hos, atmosphere, key) : mariko \in BOOLEAN, hos \in 1 .. 3, atmosphere \in 1 .. 3,
                                        key \in {"wiped", "old", "personalized"}}
\* Nothing ends its last line, which the parser drops.
LastLineFile == [GoodFile EXCEPT !.lines[2].end = "none"]

----------------------------------------------------------------------------
(* Contents, built from the data of their file system up.                  *)

Start1 == NcaHeaderSize + NcaFsHeaderSize
HashBlock == 4
NoBucket == [sane |-> TRUE, offset |-> 0, size |-> 0, entry_count |-> 0]
NoSparse == [sane |-> TRUE, generation |-> 0, physical |-> 0, offset |-> 0, size |-> 0, entry_count |-> 0]
Hashes(hash_type, values) == ncaCalculateLayerHash([ctx |-> [hash_type |-> hash_type]], values, HashBlock)
Extents(sizes) ==
  [i \in DOMAIN sizes |-> [offset |-> FoldLeft(+, 0, SubSeq(sizes, 1, i - 1)), size |-> sizes[i]]]
NoTitleKey == Empty
RightsOf(id, generation) == <<id, IF generation < Since301NUP THEN 0 ELSE generation>>
TitleKey(id, generation) ==
  <<"decrypted", <<"title key", id>>, <<"common", MasterKey(GoodUnit, generation - 1)>>>>

\* files: the entries of the file system; data: its header and their data.
HashTypeOf(rom) == IF rom THEN "HierarchicalIntegrity" ELSE "HierarchicalSha256"
Over2(rom, second, data) == IF rom THEN <<Hashes(HashTypeOf(rom), second), second, data>> ELSE <<second, data>>
LayersOf(rom, data) == Over2(rom, Hashes(HashTypeOf(rom), data), data)
Layered(type, name, rom, rights, generation, dist, files, layers, values, master) ==
  LET hash_type == HashTypeOf(rom)
      padding == [k \in 1 .. Len(values) % 2 |-> Cell(<<"padding", 0>>, Plain)]
      rights_id == IF rights = "none" THEN NoRightsId ELSE RightsOf(rights, generation)
      header == NcaHeader(dist, rights_id, <<"key area", name>>, FsHeader(master))
      cells == HeaderCells(header) \o FsHeaderCells(FsHeader(master))
                 \o [k \in DOMAIN values |-> Cell(values[k], Ctr(9, Start1 + k - 1))] \o padding
      nca == [content |-> cells, clean |-> cells, name |-> name, bad |-> {}, format_version |-> 3,
              header_ok |-> TRUE, rights_id |-> rights # "none", plain_key_area |-> FALSE, program_id |-> 1,
              hash_block_size |-> [i \in DOMAIN layers |-> HashBlock],
              fs |-> [body |-> 1, files |-> files]]
      fs == [fs_type |-> IF rom THEN "RomFs" ELSE "PartitionFs", hash_type |-> hash_type,
             encryption_type |-> "AesCtr", idx |-> 0, start |-> Start1, size |-> Len(values), upper_iv |-> 9,
             hash_ok |-> TRUE, layers |-> Extents([i \in DOMAIN layers |-> Len(layers[i])]),
             indirect |-> FALSE, aes_ctr_ex |-> FALSE, sparse |-> NoSparse, compression |-> NoBucket]
  IN  [content_id |-> ContentHash(nca, cells), content_type |-> type, id_offset |-> 0, nca |-> nca, fs |-> fs,
       header |-> header, key_generation |-> generation, master_hash |-> master,
       titlekey |-> IF rights = "none" THEN NoTitleKey ELSE TitleKey(rights, generation)]
Content(type, name, rom, rights, generation, dist, files, data) ==
  With(LayersOf(rom, data), LAMBDA layers :
    Layered(type, name, rom, rights, generation, dist, files, layers, FlattenSeq(layers), Sha(layers[1])))
FileAt(name, offset, size) == [name |-> name, offset |-> offset, size |-> size]

NpdmData ==
  LET part(offset, size) == [offset |-> offset, size |-> size]
      access == [fs_access_control |-> part(2, 1), srv_access_control |-> part(0, 0),
                 kernel_capability |-> part(3, 1)]
  IN  <<<<"npdm",
          [size |-> 11,
           meta |-> [magic |-> TRUE, limits_ok |-> TRUE, stack_aligned |-> TRUE, is_64bit |-> TRUE,
                     address_space |-> "64Bit", aci |-> part(2, 4), acid |-> part(6, 5)],
           acid |-> access @@ [magic |-> TRUE, size |-> 4, program_id_min |-> 1, program_id_max |-> 2, desc |-> 7],
           aci |-> access @@ [magic |-> TRUE, program_id |-> 1,
                              fac |-> [save_data_owner_offset |-> 2, save_data_owners |-> <<5>>]]]>>>>
Api(prefix, name, nnsdk) ==
  [prefix |-> prefix, vender |-> "v", name |-> name, nnsdk |-> nnsdk, version |-> "1", build_type |-> "R"]
NsoData ==
  LET segment(at, compressed) ==
        [file_offset |-> at, size |-> 2, file_size |-> IF compressed THEN 1 ELSE 2, compressed |-> compressed,
         decompresses |-> TRUE, verified |-> TRUE, hash_ok |-> TRUE, memory_offset |-> at]
      section(entries) == [offset |-> 0, size |-> Len(entries), entries |-> entries]
  IN  <<<<"nso",
          [size |-> 8, text |-> segment(2, TRUE), rodata |-> segment(4, FALSE), data |-> segment(6, FALSE),
           module_name |-> [offset |-> 2, size |-> 2, text |-> "main.nss"],
           api_info |-> section(<<Api("SDK MW", "mw", FALSE), Api("SDK", "nn", TRUE)>>),
           dynstr |-> section(<<"n">>), dynsym |-> section(<<[name |-> 0, type |-> "FUNC", undefined |-> TRUE]>>),
           has_nnsdk_version |-> TRUE, nnsdk_version_offset |-> 2, data_segment_offset |-> 3, path |-> "main.nrs"]>>,
        <<"nso", 2>>>>
ProgramContent ==
  Content("Program", "program", FALSE, "r1", 1, "Download",
          <<FileAt(<<"main">>, 0, 2), FileAt(<<"main.npdm">>, 2, 1)>>,
          <<<<"pfs header", 1>>>> \o NsoData \o NpdmData)

NacpData ==
  <<<<"account", [startup |-> "Required", option |-> {"IsOptional"}, switch_lock |-> "Enable"]>>,
    <<"screenshot", "Deny">>, <<"video_capture", "Disable">>, <<"hdcp", "Required">>,
    <<"rest",
      [supported_language |-> {"en", "ja"}, titles |-> <<[name |-> "n", publisher |-> "p"], [name |-> "", publisher |-> ""]>>,
       isbn |-> "", fields |-> 1, ratings |-> {[organization |-> 1, age |-> 12], [organization |-> 2, age |-> -1]},
       local_communication_id |-> <<1, 0>>, neighbor_groups |-> <<[id |-> 1, zero_key |-> FALSE]>>,
       required_add_on_contents |-> <<[index |-> 1, continues |-> TRUE], [index |-> 0, continues |-> FALSE]>>,
       accessible_launch_ids |-> <<1, 0>>, target_marketing |-> "None", upgrade |-> "None"]>>>>
ControlContent(dist) ==
  Content("Control", "control", TRUE, "none", 1, dist,
          <<FileAt(<<"icon", "en">>, 5, 2), FileAt(<<"control.nacp">>, 0, 5)>>,
          <<<<"romfs header", 1>>>> \o NacpData \o <<<<"jpg", 1>>, <<"jpg", 2>>>>)
LegalContent ==
  Content("LegalInformation", "legal", TRUE, "none", 3, "GameCard", <<FileAt(<<"legalinfo.xml">>, 0, 2)>>,
          <<<<"romfs header", 1>>, <<"legal", 1>>, <<"legal", 2>>>>)
DataContent(rights, generation) ==
  Content("Data", "data", TRUE, rights, generation, "Download", <<FileAt(<<"file">>, 0, 3)>>,
          <<<<"romfs header", 1>>, <<"d", 1>>, <<"d", 2>>, <<"d", 3>>>>)

Info(c) ==
  [content_id |-> c.content_id, hash |-> c.content_id, size |-> Len(c.nca.content),
   content_type |-> c.content_type, id_offset |-> c.id_offset]
\* Two contents of one size and type differ in their ID offset.
MetaContent(type, contents, dist) ==
  LET raw == <<<<"head", [title_id |-> 1, type |-> type, platform |-> "Nx", content_count |-> Len(contents),
                          content_meta_count |-> 0, extended_header_size |-> 1]>>,
               <<"ext", [required_title_id |-> 2, required_version |-> 3, data_size |-> 0]>>>>
               \o [i \in DOMAIN contents |-> <<"info", Info(contents[i])>>] \o <<<<"digest", 1>>>>
  IN  Content("Meta", "meta", FALSE, "none", 1, dist, <<FileAt(<<"cnmt", type, 1>>, 0, Len(raw))>>,
              <<<<"pfs header", 1>>>> \o raw)
Title(type, card, before, after, dist) ==
  [type |-> type, version |-> 1, card |-> card,
   contents |-> before \o <<MetaContent(type, before \o after, dist)>> \o after]

App == Title("Application", FALSE, <<ProgramContent>>, <<ControlContent("Download")>>, "Download")
CardApp == Title("Application", TRUE, <<ControlContent("GameCard"), LegalContent>>, <<>>, "GameCard")
CardRightsApp == Title("Application", TRUE, <<ControlContent("GameCard"), DataContent("r3", 3)>>, <<>>, "GameCard")
Dlc == Title("AddOnContent", FALSE, <<DataContent("r3", 3)>>, <<>>, "Download")
SparseData ==
  [DataContent("none", 1) EXCEPT !.fs.sparse = [sane |-> TRUE, generation |-> 1, physical |-> Start1, offset |-> 2,
                                                size |-> 2, entry_count |-> 1]]
SparseApp == Title("Application", FALSE, <<[SparseData EXCEPT !.content_type = "Program"]>>,
                   <<ControlContent("GameCard")>>, "GameCard")
\* A content that is not what is listed, and one that cannot be read.
Corrupted == [Dlc EXCEPT !.contents[1].nca.content[Start1 + 3] = Cell(<<"rot", 1>>, Plain)]
Unreadable == [App EXCEPT !.contents[1].nca.bad = {Start1 + 7}]

----------------------------------------------------------------------------
(* Tickets.                                                                *)

Es(ids, list, bin) ==
  [listed |-> TRUE, ids |-> ids, opened |-> TRUE, list |-> list \o <<LastRightsId>>, readable |-> 3, bin |-> bin]
NoEs == Es(<<>>, <<>>, <<>>)
Blob(rights, generation, signed, type) ==
  [sig |-> "Rsa2048Sha256", signed |-> signed, key |-> "none", issuer |-> <<"Root", "CA3", "XS20">>,
   titlekey_type |-> type, titlekey_block |-> <<"title key", rights>>, rights_id |-> RightsOf(rights, generation),
   key_generation |-> generation, console |-> FALSE, sect_total_size |-> 0]
Personal(rights, generation) ==
  [Blob(rights, generation, TRUE, "Personalized") EXCEPT
     !.titlekey_block = <<"wrapped", <<"title key", rights>>>>, !.issuer = <<"Root", "CA3", "XS21">>,
     !.console = TRUE, !.sect_total_size = 1]
Certs == [x \in {"CA3", "XS20", "XS21"} |-> [size_ok |-> TRUE, sig |-> "Rsa2048Sha256", pub_key |-> "Rsa2048"]]
NoTickets ==
  [card |-> [x \in {} |-> NoBlob], card_certs |-> [x \in {} |-> <<>>],
   es |-> [type \in {"Common", "Personalized"} |-> NoEs], cert_save |-> TRUE, certs |-> Certs, hos9 |-> TRUE,
   es_memory |-> <<>>]
R1 == RightsOf("r1", 1)
R3 == RightsOf("r3", 3)
Common(signed) ==
  [NoTickets EXCEPT !.es["Common"] = Es(<<R3, R1>>, <<R1, R3>>,
                                        <<Blob("r1", 1, signed, "Common"), Blob("r3", 3, signed, "Common")>>)]
PersonalOnes ==
  [NoTickets EXCEPT !.es["Personalized"] = Es(<<R1, R3>>, <<R1, R3>>, <<Personal("r1", 1), Personal("r3", 3)>>)]
Volatile ==
  [Common(TRUE) EXCEPT !.es["Common"].bin[1].key = "k2", !.es["Common"].bin[2].key = "k9",
                       !.es_memory = <<[pattern |-> TRUE, key |-> "k1", ctr_is_zero |-> TRUE],
                                       [pattern |-> TRUE, key |-> "k2", ctr_is_zero |-> TRUE],
                                       [pattern |-> TRUE, key |-> "k9", ctr_is_zero |-> FALSE]>>]
OnCard ==
  [NoTickets EXCEPT !.card = [x \in {R3} |-> Blob("r3", 3, TRUE, "Common")],
                    !.card_certs = [x \in {R3} |-> <<"CA3", "XS20">>]]
NoCerts == [PersonalOnes EXCEPT !.certs = [x \in {"XS20", "XS21"} |-> Certs[x]]]

----------------------------------------------------------------------------
(* What is tried.                                                          *)

MCOptions ==
  {{}, {"remove_console_data", "xml"}, {"set_download", "patch_sua", "xml"},
   {"set_download", "remove_titlekey_crypto", "patch_hdcp", "patch_screenshot"}}
MCTitles ==
  [name \in {"app", "card app", "card dlc", "dlc", "sparse", "corrupted", "unreadable"} |->
     CASE name = "app" -> App [] name = "card app" -> CardApp [] name = "card dlc" -> CardRightsApp
       [] name = "dlc" -> Dlc [] name = "sparse" -> SparseApp [] name = "corrupted" -> Corrupted
       [] OTHER -> Unreadable]
Dumping(env, titles) == [unit |-> GoodUnit, file |-> GoodFile, env |-> env, titles |-> titles]
DumpingConsoles ==
  [name \in {"no tickets", "common", "tampered", "personalized", "volatile", "no certificates", "card",
             "damaged", "wiped", "last line"} |->
     CASE name = "no tickets" -> Dumping(NoTickets, {"app", "dlc"})
       [] name = "common" -> Dumping(Common(TRUE), {"app", "dlc"})
       [] name = "tampered" -> Dumping(Common(FALSE), {"dlc"})
       [] name = "personalized" -> Dumping(PersonalOnes, {"app"})
       [] name = "volatile" -> Dumping(Volatile, {"app", "dlc"})
       [] name = "no certificates" -> Dumping(NoCerts, {"dlc"})
       [] name = "card" -> Dumping(OnCard, {"card app", "card dlc", "sparse"})
       [] name = "damaged" -> Dumping(Common(TRUE), {"corrupted", "unreadable"})
       [] name = "wiped" -> [Dumping(PersonalOnes, {"dlc"}) EXCEPT !.unit.device_key = "wiped"]
       [] OTHER -> [Dumping(NoTickets, {}) EXCEPT !.file = LastLineFile]]
MCConsoles ==
  [name \in {<<n>> : n \in DOMAIN DumpingConsoles} \cup (Units \X Files) |->
     IF Len(name) = 1 THEN DumpingConsoles[name[1]]
     ELSE [unit |-> name[1], file |-> name[2], env |-> NoTickets, titles |-> {}]]

MCLanguages == <<"en", "ja">>
\* Weak fairness of the thread, which can take a step unless it is done, written
\* out: deciding that of every step again would open every NCA again.
ThreadFair == []<>(pc = "done") \/ []<><<TRUE>>_threadvars
Spec == NspSpec /\ ThreadFair /\ WF_nspvars(Begins \/ Ends \/ Join)
=============================================================================
