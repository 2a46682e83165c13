----------------------------- MODULE ControlData -----------------------------
(***************************************************************************)
(* The control data of an application (nacp.c) and its legal information   *)
(* (legal_info.c): read from their NCAs for the documents that come with   *)
(* an NSP, control.nacp also modified on request.                          *)
(*                                                                         *)
(* control.nacp is five cells: what is asked of the user's account, then   *)
(* whether screenshots, video capture and HDCP are allowed or required,    *)
(* and a record of everything else.  A field is a string; one that is in   *)
(* none of the tables of names is written as "Unknown".                    *)
(***************************************************************************)
EXTENDS NcaFiles

CONSTANTS
  SupportedLanguages, \* NacpSupportedLanguage, in order
  MaxIconSize         \* NACP_MAX_ICON_SIZE

sizeof_NacpStruct == 5
NacpRest(data) == data[5][2]

NoNacp == [ok |-> FALSE, data |-> <<>>, data_hash |-> <<>>, entry |-> 0, fs |-> NotOpened, icons |-> <<>>]

\* A language without an icon is left out, an icon that is empty or too large
\* or cannot be read is not.
Icons(n, fs, data) ==
  FoldLeft(LAMBDA w, l :
             LET f == FileByName(fs, <<"icon", l>>)
                 read(r) == IF ~r.ok THEN [w EXCEPT !.ok = FALSE]
                            ELSE [w EXCEPT !.icons = Append(@, [language |-> l, data |-> r.data])]
             IN  IF l \notin NacpRest(data).supported_language \/ ~f.found THEN w
                 ELSE IF fs.files[f.at].size > MaxIconSize THEN [w EXCEPT !.ok = FALSE]
                 ELSE read(FileData(n, fs, fs.files[f.at])),
           [ok |-> TRUE, icons |-> <<>>], SupportedLanguages)
nacpInitializeContext(n) ==
  LET read(fs, f, r, w) == IF ~r.ok THEN NoNacp
                           ELSE [ok |-> w.ok, data |-> r.data, data_hash |-> Sha(r.data), entry |-> f.at,
                                 fs |-> fs, icons |-> w.icons]
      found(fs, f, r) == read(fs, f, r, Icons(n, fs, r.data))
      opened(fs, f) ==
        IF ~fs.ok \/ ~f.found THEN NoNacp
        ELSE IF fs.files[f.at].size # sizeof_NacpStruct THEN NoNacp
        ELSE found(fs, f, FileData(n, fs, fs.files[f.at]))
  IN  IF n.content_type # "Control" \/ n.content_type_ctx THEN NoNacp
      ELSE With(romfsOpened(n), LAMBDA fs : opened(fs, FileByName(fs, <<"control.nacp">>)))

\* What was asked for is changed in the copy in memory; no account also means
\* one that is not optional and cannot be switched.
nacpGenerateNcaPatch(c, n, o) ==
  LET account == c.data[1][2]
      data == [c.data EXCEPT
                 ![1] = IF o.patch_sua
                        THEN <<"account", [startup |-> "None", option |-> account.option \ {"IsOptional"},
                                           switch_lock |-> "Disable"]>>
                        ELSE @,
                 ![2] = IF o.patch_screenshot THEN <<"screenshot", "Allow">> ELSE @,
                 ![3] = IF o.patch_video_capture THEN <<"video_capture", "Enable">> ELSE @,
                 ![4] = IF o.patch_hdcp THEN <<"hdcp", "None">> ELSE @]
      told(r) == [ok |-> r.ok, n |-> [r.n EXCEPT !.content_type_ctx_patch = r.ok], c |-> [c EXCEPT !.data = data]]
  IN  IF Sha(data) = c.data_hash THEN [ok |-> TRUE, n |-> n, c |-> [c EXCEPT !.data = data]]
      ELSE told(romfsGenerateFileEntryPatch(n, [size |-> c.fs.size, body_offset |-> c.fs.body],
                                            c.fs.files[c.entry], data))
nacpWriteNcaPatch(n, buf, buf_offset) ==
  IF n.content_type = "Control" /\ n.content_type_ctx_patch THEN WritePieces(n, buf, buf_offset)
  ELSE [buf |-> buf, n |-> n]

----------------------------------------------------------------------------
(* The document, in its order: one element for each entry of a list, one   *)
(* for all the fields that are always there.                               *)

nacpString(table, value) == IF value \in table THEN value ELSE "Unknown"
nacpCheckBitflagField(flag, i) == i \in flag
nacpAddEnumFieldToAuthoringToolXml(tag, value, table) == <<tag, nacpString(table, value)>>
\* The flags with a name, in the order of their bits.
nacpAddBitflagFieldToAuthoringToolXml(tag, flag, names) ==
  [i \in DOMAIN SelectSeq(names, LAMBDA x : nacpCheckBitflagField(flag, x)) |->
     <<tag, SelectSeq(names, LAMBDA x : nacpCheckBitflagField(flag, x))[i]>>]
nacpAddStringFieldToAuthoringToolXml(tag, value) == IF value = "" THEN <<tag>> ELSE <<tag, value>>
\* A list that has no entry is still mentioned.
OrEmpty(tag, elements) == IF elements = <<>> THEN <<<<tag>>>> ELSE elements
Tagged(tag, values) == [i \in DOMAIN values |-> <<tag, values[i]>>]
InAnyOrder(tag, set) == Tagged(tag, SetToSeq(set))

\* Titles without a name or a publisher are left out.
TitleElements(rest) ==
  OrEmpty("Title", Tagged("Title", SelectSeq(rest.titles, LAMBDA t : t.name # "" /\ t.publisher # "")))
AccountElements(data) ==
  LET account == data[1][2]
  IN  <<nacpAddEnumFieldToAuthoringToolXml("StartupUserAccount", account.startup,
                                           {"None", "Required", "RequiredWithNetworkServiceAccountAvailable"})>>
        \o nacpAddBitflagFieldToAuthoringToolXml("StartupUserAccountOption", account.option, <<"IsOptional">>)
        \o <<nacpAddEnumFieldToAuthoringToolXml("UserAccountSwitchLock", account.switch_lock,
                                                {"Disable", "Enable"})>>
AllowanceElements(data) ==
  <<nacpAddEnumFieldToAuthoringToolXml("Screenshot", data[2][2], {"Allow", "Deny"}),
    nacpAddEnumFieldToAuthoringToolXml("VideoCapture", data[3][2], {"Disable", "Manual", "Enable"})>>
\* The fields that are always there, and a rating for each organisation with one.
FieldElements(rest, version, required_system_version) ==
  <<nacpAddStringFieldToAuthoringToolXml("Isbn", rest.isbn), <<"fields", rest.fields>>>>
    \o OrEmpty("Rating", InAnyOrder("Rating", {r \in rest.ratings : r.age >= 0}))
    \o <<<<"Version", version>>, <<"RequiredSystemVersion", required_system_version>>>>
    \o Tagged("LocalCommunicationId", SelectSeq(rest.local_communication_id, LAMBDA x : x # 0))
IconElements(icons) ==
  OrEmpty("Icon", [i \in DOMAIN icons |-> <<"Icon", icons[i].language, Sha(icons[i].data)>>])
HdcpElement(data) == <<nacpAddEnumFieldToAuthoringToolXml("Hdcp", data[4][2], {"None", "Required"})>>
\* All groups are written when one of them is in use.
NeighborElements(rest) ==
  IF \E i \in DOMAIN rest.neighbor_groups : rest.neighbor_groups[i].id # 0 /\ ~rest.neighbor_groups[i].zero_key
  THEN Tagged("GroupConfiguration", rest.neighbor_groups) ELSE <<>>
\* Written when the descriptors begin with one of an index, after none that ends
\* them; from there on only one that has an index ends them.
RequiredElements(rest) ==
  LET d == rest.required_add_on_contents
      available == \E i \in DOMAIN d : /\ d[i].index # 0
                                      /\ \A j \in 1 .. i - 1 : d[j].index = 0 /\ d[j].continues
      in == SelectSeq([i \in DOMAIN d |->
                         [index |-> d[i].index,
                          used |-> \A j \in 1 .. i - 1 : d[j].index # 0 => d[j].continues]],
                      LAMBDA x : x.used /\ x.index # 0)
  IN  IF available THEN [i \in DOMAIN in |-> <<"Index", in[i].index>>] ELSE <<>>
LaunchElements(rest) ==
  OrEmpty("AccessibleLaunchRequiredVersion",
          Tagged("ApplicationId", SelectSeq(rest.accessible_launch_ids, LAMBDA x : x # 0)))
PermissionElements(rest) ==
  <<<<"TargetMarketing", rest.target_marketing>>>> \o LaunchElements(rest) \o <<<<"Runtime", rest.upgrade>>>>
nacpGenerateAuthoringToolXml(c, version, required_system_version) ==
  LET rest == NacpRest(c.data)
  IN  TitleElements(rest) \o AccountElements(c.data) \o AllowanceElements(c.data)
        \o FieldElements(rest, version, required_system_version) \o IconElements(c.icons)
        \o HdcpElement(c.data) \o NeighborElements(rest) \o RequiredElements(rest)
        \o PermissionElements(rest)

----------------------------------------------------------------------------
(* The legal information is a document already.                            *)

legalInfoInitializeContext(n) ==
  LET missing == [ok |-> FALSE, xml |-> <<>>]
      opened(fs, f) ==
        IF ~fs.ok \/ ~f.found THEN missing
        ELSE With(FileData(n, fs, fs.files[f.at]), LAMBDA r : [ok |-> r.ok, xml |-> r.data])
  IN  IF n.content_type # "LegalInformation" \/ n.content_type_ctx THEN missing
      ELSE With(romfsOpened(n), LAMBDA fs : opened(fs, FileByName(fs, <<"legalinfo.xml">>)))
=============================================================================
