------------------------------ MODULE NspDump -------------------------------
(***************************************************************************)
(* The NSP dump of nxdt_rw_poc.c: saveNintendoSubmissionPackage starts     *)
(* nspThreadFunc, which opens every NCA of a title, modifies them as the   *)
(* options ask, lays out the partition that holds them with their          *)
(* documents, the ticket and its certificates, and writes it block by      *)
(* block.  What was modified gets a new hash and therefore a new name, so  *)
(* the header goes out last.                                               *)
(*                                                                         *)
(* A title is [type, version, card, contents], a content [content_id,      *)
(* content_type, id_offset, nca, fs, header, key_generation, titlekey]:    *)
(* what the console lists, the NCA with the header of its section and its  *)
(* own, and the title key that decrypts it.                                *)
(***************************************************************************)
EXTENDS ContentMeta, ControlData, ProgramInfo, PfsImage, Tickets

CONSTANTS
  Consoles,            \* by name: [unit, file, env, titles], the hardware, its keys file, its
                       \* tickets, and the names of its titles
  Titles,              \* by name
  OptionSets,          \* the options a user turns on: sets of names
  BLOCK_SIZE,          \* scaled down: 8 MiB
  HeaderBufferSize,    \* the same buffer, in units of the partition header
  FAT32_FILESIZE_LIMIT \* scaled down: 4 GiB - 1

IsSeq(s) == s \in Seq(ToSet(s))
\* Generations of keys are counted from zero, and a file has one line after the other.
ASSUME ConsolesAssumption ==
  \A name \in DOMAIN Consoles :
    /\ Consoles[name].unit.hos \in Nat /\ Consoles[name].unit.atmosphere \in Nat
    /\ IsSeq(Consoles[name].file.lines)

VARIABLES
  console, \* the console it runs on
  job,     \* [title, o, dev]: the title that is dumped, with which options, and to where
  mPc,     \* the thread of the menu
  pc,      \* nspThreadFunc
  nsp,     \* its contexts: ncas, cnmt, tik, img, and extra: what follows the contents
  pos,     \* [i, offset, dirty_header]: the content or the extra entry it is at
  total, written, error, cancelled, \* NspThreadData
  out,     \* the output: a file, or what the host was sent
  result   \* what the user is told, and the ticket that was saved

menu == <<console, job, mPc, result>>
shared == <<total, written, error, cancelled>>
nspvars == <<keyset, menu, pc, nsp, pos, shared, out>>

Devices == {"sd", "usb", "ums", "ums_fat"}
NoJob == [title |-> "none", o |-> {}, dev |-> "sd"]
NoNsp == [ncas |-> <<>>, cnmt |-> NoCnmt, tik |-> NoTicket, img |-> pfsInitializeImageContext, extra |-> <<>>]
Nowhere == [state |-> "none", size |-> 0, header |-> <<>>, body |-> <<>>, left |-> 0]
Start0 == [i |-> 1, offset |-> 0, dirty_header |-> FALSE]

Env == Consoles[console].env
\* The options that are on.
OptionNames ==
  {"set_download", "remove_console_data", "remove_titlekey_crypto", "patch_sua", "patch_screenshot",
   "patch_video_capture", "patch_hdcp", "xml"}
Options(on) == [name \in OptionNames |-> name \in on]

NspInit ==
  /\ console \in DOMAIN Consoles
  /\ keyset = NotLoaded /\ job = NoJob /\ mPc = "keys" /\ pc = "done"
  /\ nsp = NoNsp /\ pos = Start0 /\ out = Nowhere
  /\ total = 0 /\ written = 0 /\ error = FALSE /\ cancelled = FALSE
  /\ result = [told |-> "nothing", ticket |-> NoTicket]

----------------------------------------------------------------------------
(* The contexts.                                                           *)

ZeroHash == <<"zero hash">>
\* Without its title key, or with a wrong one, a section decrypts to garbage.
InitializedNca(title, c, tik) ==
  LET rights == c.header[2] # NoRightsId
      kaek == keysGetNcaKeyAreaEncryptionKey(c.key_generation)
      fs_header == FsHeader(c.master_hash)
      context(r, i) ==
      [ok |-> keysGetNcaHeaderKey /\ i.ok, tik |-> r.t, kaek |-> kaek,
       n |-> [nca |-> c.nca, ctx |-> i.sections[1], st |-> Fresh(i.sections[1], i.keys),
              header |-> c.header, fs_header |-> fs_header, clean |-> c.header,
              encrypted |-> [header |-> c.header, fs_header |-> fs_header],
              header_written |-> FALSE, fs_header_written |-> FALSE,
              content_id |-> c.content_id, hash |-> ZeroHash, patch |-> <<>>,
              titlekey_retrieved |-> r.ok, rights_id_available |-> rights, titlekey |-> r.t.dec_titlekey,
              content_type |-> c.content_type, id_offset |-> c.id_offset,
              content_type_ctx |-> FALSE, content_type_ctx_patch |-> FALSE]]
      initialized(r) ==
        context(r, ncaInitializeContext(c.nca, <<c.fs>>, kaek, r.ok /\ r.t.dec_titlekey = c.titlekey))
  IN  initialized(IF rights
                  THEN tikRetrieveTicketByRightsId(Env, tik, c.header[2], c.key_generation, title.card)
                  ELSE [ok |-> FALSE, t |-> tik])

Doc(suffix, data) == [suffix |-> suffix, data |-> data]
AsksForPatch(o) == o.patch_sua \/ o.patch_screenshot \/ o.patch_video_capture \/ o.patch_hdcp
\* What is read from a content: its documents, and the patch of control.nacp.
ContentContext(title, o, cnmt, n) ==
  LET icons(control) == [i \in DOMAIN control.icons |->
                           Doc(<<"nx", control.icons[i].language>>, control.icons[i].data)]
      xml(c) ==
        Doc(<<"nacp.xml">>,
            nacpGenerateAuthoringToolXml(c, title.version, cnmtGetRequiredTitleVersion(cnmt.raw)))
      read(ok, m, docs) == [ok |-> ok, n |-> [m EXCEPT !.content_type_ctx = ok], docs |-> docs]
      nothing == [ok |-> TRUE, n |-> n, docs |-> <<>>]
      ofProgram(program) ==
        read(program.ok, n,
             IF program.ok THEN <<Doc(<<"programinfo.xml">>, programInfoGenerateAuthoringToolXml(program))>>
             ELSE <<>>)
      patched(control, p) == read(p.ok, p.n, IF o.xml THEN Append(icons(control), xml(p.c)) ELSE <<>>)
      ofControl(control) ==
        IF control.ok THEN patched(control, nacpGenerateNcaPatch(control, n, o)) ELSE read(FALSE, n, <<>>)
      ofLegal(legal) == read(legal.ok, n, <<Doc(<<"legalinfo.xml">>, legal.xml)>>)
  IN  CASE n.ctx.has_sparse_layer -> nothing
        [] n.content_type = "Program" /\ o.xml /\ ~n.ctx.has_sparse_layer ->
             ofProgram(programInfoInitializeContext(n))
        [] n.content_type = "Control" /\ (o.xml \/ AsksForPatch(o)) /\ ~n.ctx.has_sparse_layer ->
             ofControl(nacpInitializeContext(n))
        [] n.content_type = "LegalInformation" /\ o.xml /\ ~n.ctx.has_sparse_layer ->
             ofLegal(legalInfoInitializeContext(n))
        [] OTHER -> nothing

\* One content after the other.  The first one without its title key asks
\* whether to proceed, and is then left as it is; the next ones are not.
NextNca(title, o, cnmt, proceed, w, c) ==
  LET failed == [w EXCEPT !.ok = FALSE]
      asks(n) == n.rights_id_available /\ ~n.titlekey_retrieved /\ ~w.asked
      listed(tik, context) ==
        IF ~context.ok THEN failed
        ELSE [w EXCEPT !.ncas = Append(@, ncaEncryptHeader(context.n)), !.docs = Append(@, context.docs),
                       !.tik = tik]
      left(i) == [w EXCEPT !.ncas = Append(@, i.n), !.docs = Append(@, <<>>), !.tik = i.tik, !.asked = TRUE]
      edited(i, n) == IF o.remove_titlekey_crypto THEN ncaRemoveTitleKeyCrypto(n, i.kaek)
                      ELSE [ok |-> TRUE, n |-> n]
      crypto(i) == edited(i, IF o.set_download THEN ncaSetDownloadDistributionType(i.n) ELSE i.n)
  IN  IF ~w.ok THEN w
      ELSE With(InitializedNca(title, c, w.tik), LAMBDA i :
             IF ~i.ok \/ (asks(i.n) /\ ~proceed) THEN failed
             ELSE IF asks(i.n) THEN left(i)
             ELSE With(crypto(i), LAMBDA x :
                    IF x.ok THEN listed(i.tik, ContentContext(title, o, cnmt, x.n)) ELSE failed))

\* The ticket that is shipped, with its certificates.
ShippedTicket(title, o, tik) ==
  IF o.remove_console_data /\ tikIsPersonalizedTicket(tik)
  THEN tikConvertPersonalizedTicketToCommonTicket(Env, tik)
  ELSE LET r == IF title.card
                THEN certRetrieveRawCertificateChainFromGameCardByRightsId(Env, tik.data.rights_id)
                ELSE certGenerateRawCertificateChainBySignatureIssuer(Env, tik.data.issuer)
       IN  [ok |-> r.ok, t |-> tik, chain |-> r.chain]

Named(id, suffix) == <<<<"id", id>>, <<"suffix", suffix>>>>
\* What follows the contents: the documents, named after their content (slot),
\* then the ticket and the certificates.
Extra(o, ncas, docs, xml, ships, t) ==
  LET of(i) == [k \in DOMAIN docs[i] |->
                  [slot |-> i, name |-> Named(ncas[i].content_id, docs[i][k].suffix), data |-> docs[i][k].data]]
      entry(suffix, data) == [slot |-> 0, name |-> Named(t.t.data.rights_id, suffix), data |-> data]
  IN  (IF o.xml THEN <<[slot |-> Len(ncas), name |-> Named(Last(ncas).content_id, <<"cnmt.xml">>), data |-> xml]>>
                       \o FlattenSeq([i \in DOMAIN docs |-> of(i)])
       ELSE <<>>)
        \o (IF ships THEN <<entry(<<"tik">>, Spread("tik", t.t.data, t.t.size)),
                            entry(<<"cert">>, Spread("cert", t.chain, Len(t.chain)))>>
            ELSE <<>>)

\* Everything there is before the output is opened.  The Meta NCA is opened
\* first and goes last.
Prepared(title, o, proceed) ==
  LET meta == CHOOSE c \in ToSet(title.contents) : c.content_type = "Meta"
      suffix(n) == IF n.content_type = "Meta" THEN <<"cnmt.nca">> ELSE <<"nca">>
      contents(ncas) ==
        FoldLeft(LAMBDA img, n : pfsAddEntryInformationToImageContext(
                                   img, Named(n.content_id, suffix(n)), Len(n.nca.content)),
                 pfsInitializeImageContext, ncas)
      all(ncas, extra) ==
        FoldLeft(LAMBDA g, e : pfsAddEntryInformationToImageContext(g, e.name, Len(e.data)),
                 contents(ncas), extra)
      output(ncas, cnmt, tik, extra, img) ==
        [ok |-> pfsWriteImageContextHeaderToMemoryBuffer(img, HeaderBufferSize).ok,
         nsp |-> [ncas |-> ncas, cnmt |-> cnmt, tik |-> tik, img |-> img, extra |-> extra]]
      entries(ncas, cnmt, tik, extra) == output(ncas, cnmt, tik, extra, all(ncas, extra))
      read(cnmt, w, ncas, document, ships, t) ==
        IF ~w.ok THEN [ok |-> FALSE]
        ELSE IF (o.xml /\ ~document.ok) \/ (ships /\ ~t.ok) THEN [ok |-> FALSE]
        ELSE entries(ncas, cnmt, IF ships THEN t.t ELSE NoTicket,
                     Extra(o, ncas, w.docs, document.xml, ships, t))
      documented(cnmt, w, ncas) ==
        read(cnmt, w, ncas, cnmtGenerateAuthoringToolXml(cnmt, ncas),
             ~o.remove_titlekey_crypto /\ tikIsValidTicket(w.tik), ShippedTicket(title, o, w.tik))
      none(m, cnmt) ==
        [ok |-> m.ok /\ cnmt.ok, ncas |-> <<>>, docs |-> <<>>, tik |-> m.tik, asked |-> FALSE]
  IN  With(InitializedNca(title, meta, NoTicket), LAMBDA m :
      With(cnmtInitializeContext(m.n), LAMBDA cnmt :
      With(FoldLeft(LAMBDA v, c : NextNca(title, o, cnmt, proceed, v, c), none(m, cnmt),
                    SelectSeq(title.contents, LAMBDA c : c.content_type # "Meta")), LAMBDA w :
        documented(cnmt, w, Append(w.ncas, [m.n EXCEPT !.content_type_ctx = TRUE])))))

----------------------------------------------------------------------------
(* The thread.                                                             *)

Usb == job.dev = "usb"
GiveUp == pc' = "end" /\ UNCHANGED <<keyset, menu, nsp, pos, shared, out>>

\* The output is opened, unless it is too large for it; a concatenation file
\* that cannot be opened then is left behind.
CanHold(size) == job.dev = "ums_fat" => size <= FAT32_FILESIZE_LIMIT
Prepare ==
  /\ pc = "prepare"
  /\ \/ GiveUp \* memory, the name, the free space
     \/ \E proceed \in BOOLEAN :
        \E p \in {Prepared(Titles[job.title], Options(job.o), proceed)} :
          IF ~p.ok THEN GiveUp
          ELSE LET size == HeaderSize(p.nsp.img) + p.nsp.img.fs_size
               IN  /\ nsp' = p.nsp /\ pos' = Start0
                   /\ \/ /\ CanHold(size) /\ pc' = "content" /\ total' = size
                         /\ out' = [Nowhere EXCEPT !.state = "open", !.size = size]
                      \/ /\ pc' = "end" /\ total' = total
                         /\ out' = [Nowhere EXCEPT !.state =
                                      IF job.dev = "sd" /\ size > FAT32_FILESIZE_LIMIT THEN "stray" ELSE "none"]
                   /\ UNCHANGED <<keyset, menu, written, error, cancelled>>

\* The Meta NCA gets what became of the others.
BeginContent ==
  /\ pc = "content"
  /\ LET n == nsp.ncas[pos.i]
         told(r) == IF n.content_type = "Meta" THEN ncaEncryptHeader(r.n) ELSE n
     IN  \E r \in {IF n.content_type = "Meta" THEN cnmtGenerateNcaPatch(nsp.cnmt, n)
                   ELSE [ok |-> TRUE, n |-> n]} :
         \E m \in {told(r)} :
         \/ (Usb \/ ~r.ok) /\ GiveUp
         \/ /\ r.ok /\ pc' = "block"
            /\ nsp' = [nsp EXCEPT !.ncas[pos.i] = m]
            /\ pos' = [pos EXCEPT !.offset = 0, !.dirty_header = ncaIsHeaderDirty(m)]
            /\ out' = [out EXCEPT !.left = IF Usb THEN Len(n.nca.content) ELSE 0]
            /\ UNCHANGED <<keyset, menu, shared>>

\* What a block becomes: the header first, then the patch of the content.
PatchedBlock(n, buf) ==
  LET h == IF n.header_written THEN [n |-> n, buf |-> buf]
           ELSE ncaWriteEncryptedHeaderDataToMemoryBuffer(n, buf, pos.offset)
      patched(m, b) == CASE n.content_type = "Meta" -> cnmtWriteNcaPatch(m, b, pos.offset)
                         [] n.content_type = "Control" -> nacpWriteNcaPatch(m, b, pos.offset)
                         [] OTHER -> [n |-> m, buf |-> b]
  IN  IF ~pos.dirty_header THEN [n |-> n, buf |-> buf, dirty |-> FALSE]
      ELSE With(patched(h.n, h.buf), LAMBDA p :
             [n |-> p.n, buf |-> p.buf, dirty |-> ~p.n.header_written \/ p.n.content_type_ctx_patch])

\* A mutated form: the content meta is not told.
EndOfContentUnlisted(s, clean, dirty) ==
  LET n == ncaUpdateContentIdAndHash(s.ncas[pos.i], dirty)
      g == pfsUpdateEntryNameFromImageContext(s.img, pos.i, <<<<"id", n.content_id>>>>)
  IN  IF clean = dirty THEN [ok |-> TRUE, nsp |-> s]
      ELSE [ok |-> g.ok, nsp |-> [s EXCEPT !.ncas[pos.i] = n, !.img = g.img]]
\* A content that is not what it was is listed and named anew.
EndOfContent(s, clean, dirty) ==
  LET n == ncaUpdateContentIdAndHash(s.ncas[pos.i], dirty)
      c == cnmtUpdateContentInfo(s.cnmt, n)
      g == pfsUpdateEntryNameFromImageContext(s.img, pos.i, <<<<"id", n.content_id>>>>)
  IN  IF clean = dirty THEN [ok |-> TRUE, nsp |-> s]
      ELSE [ok |-> c.ok /\ g.ok, nsp |-> [s EXCEPT !.ncas[pos.i] = n, !.cnmt = c.cnmt, !.img = g.img]]

Block ==
  /\ pc = "block"
  /\ LET n == nsp.ncas[pos.i]
         rest == Len(n.nca.content) - pos.offset
         size == AtMost(BLOCK_SIZE, rest)
         r == ncaReadContentFile(n.nca, size, pos.offset)
         clean == ContentHash(n.nca, n.nca.content)
         ended(kept, body) ==
           IF size < rest THEN [ok |-> TRUE, nsp |-> kept]
           ELSE EndOfContent(kept, clean, ContentHash(n.nca, SubSeq(body, Len(body) - Len(n.nca.content) + 1,
                                                                    Len(body))))
         more == pos.i < Len(nsp.ncas)
     IN  \/ /\ cancelled \/ Usb \/ ~r.ok
               \/ (size = rest /\ ~cnmtVerifyContentHash(nsp.cnmt, n, clean))
            /\ GiveUp
         \/ /\ ~cancelled /\ r.ok
            /\ size = rest => cnmtVerifyContentHash(nsp.cnmt, n, clean)
            /\ \E w \in {PatchedBlock(n, r.data)} :
               \E e \in {ended([nsp EXCEPT !.ncas[pos.i] = w.n], out.body \o w.buf)} :
                 /\ nsp' = e.nsp
                 /\ out' = [out EXCEPT !.body = @ \o w.buf, !.left = IF Usb THEN @ - size ELSE 0]
                 /\ written' = IF e.ok THEN written + size ELSE written
                 /\ pc' = CASE ~e.ok -> "end" [] e.ok /\ size < rest -> "block"
                            [] e.ok /\ size = rest /\ more -> "content" [] OTHER -> "extra"
                 /\ pos' = IF size < rest THEN [pos EXCEPT !.offset = @ + size, !.dirty_header = w.dirty]
                           ELSE [Start0 EXCEPT !.i = IF more THEN pos.i + 1 ELSE 1]
            /\ UNCHANGED <<keyset, menu, total, error, cancelled>>

\* A mutated form: the documents are those of the beginning.
ExtraEntryStale ==
  /\ pc = "extra" /\ pos.i \in DOMAIN nsp.extra
  /\ LET x == nsp.extra[pos.i]
         g == IF x.slot = 0 THEN [ok |-> TRUE, img |-> nsp.img]
              ELSE pfsUpdateEntryNameFromImageContext(nsp.img, Len(nsp.ncas) + pos.i,
                                                      <<<<"id", nsp.ncas[x.slot].content_id>>>>)
     IN  \/ (Usb \/ ~g.ok) /\ GiveUp
         \/ /\ g.ok
            /\ out' = [out EXCEPT !.body = @ \o x.data]
            /\ nsp' = [nsp EXCEPT !.img = g.img]
            /\ written' = written + Len(x.data)
            /\ pos' = [pos EXCEPT !.i = @ + 1]
            /\ UNCHANGED <<keyset, menu, pc, total, error, cancelled>>
\* An entry behind the contents; the content meta's document is made anew.
ExtraEntry ==
  /\ pc = "extra" /\ pos.i \in DOMAIN nsp.extra
  /\ LET x == nsp.extra[pos.i]
         document == cnmtGenerateAuthoringToolXml(nsp.cnmt, nsp.ncas)
         isMeta == x.slot = Len(nsp.ncas)
         data == IF isMeta THEN document.xml ELSE x.data
         g == IF x.slot = 0 THEN [ok |-> TRUE, img |-> nsp.img]
              ELSE pfsUpdateEntryNameFromImageContext(nsp.img, Len(nsp.ncas) + pos.i,
                                                      <<<<"id", nsp.ncas[x.slot].content_id>>>>)
     IN  \/ (Usb \/ (isMeta /\ ~document.ok) \/ ~g.ok) /\ GiveUp
         \/ /\ isMeta => document.ok
            /\ g.ok
            /\ out' = [out EXCEPT !.body = @ \o data]
            /\ nsp' = [nsp EXCEPT !.img = g.img]
            /\ written' = written + Len(data)
            /\ pos' = [pos EXCEPT !.i = @ + 1]
            /\ UNCHANGED <<keyset, menu, pc, total, error, cancelled>>
\* The header, with the names as they are now, goes last.
Header ==
  /\ pc = "extra" /\ pos.i > Len(nsp.extra)
  /\ LET r == pfsWriteImageContextHeaderToMemoryBuffer(nsp.img, HeaderBufferSize)
     IN  \/ (Usb \/ ~r.ok) /\ GiveUp
         \/ /\ r.ok
            /\ out' = [out EXCEPT !.state = "whole", !.header = r.header]
            /\ written' = written + HeaderSize(nsp.img)
            /\ pc' = "end"
            /\ UNCHANGED <<keyset, menu, nsp, pos, total, error, cancelled>>

\* A mutated form: the output stays.
EndKeepsOutput ==
  /\ pc = "end" /\ pc' = "done"
  /\ error' = (error \/ (out.state # "whole" /\ ~cancelled))
  /\ UNCHANGED <<keyset, menu, nsp, pos, total, written, cancelled, out>>
\* The output of a dump that was given up is removed; the host is told.
End ==
  /\ pc = "end" /\ pc' = "done"
  /\ error' = (error \/ (out.state # "whole" /\ ~cancelled))
  /\ out' = [out EXCEPT !.state = IF @ = "open" THEN "gone" ELSE @]
  /\ UNCHANGED <<keyset, menu, nsp, pos, total, written, cancelled>>

Thread == Prepare \/ BeginContent \/ Block \/ ExtraEntry \/ Header \/ End

----------------------------------------------------------------------------
(* The menu.                                                               *)

threadvars == <<pc, nsp, pos, total, written, error, out>>

\* Nothing is dumped before the keys are there.
LoadKeys ==
  /\ mPc = "keys" /\ keysLoadKeyset(Consoles[console].unit, Consoles[console].file)
  /\ mPc' = IF keyset'.loaded THEN "idle" ELSE "gone"
  /\ UNCHANGED <<console, job, result, threadvars, cancelled>>
StartDump(name, o, dev) ==
  /\ mPc = "idle"
  /\ mPc' = "preparing" /\ pc' = "prepare" /\ job' = [title |-> name, o |-> o, dev |-> dev]
  /\ UNCHANGED <<keyset, console, result, nsp, pos, shared, out>>
\* The user can cancel only once the size is known.
Begins ==
  /\ mPc = "preparing" /\ (total # 0 \/ error)
  /\ mPc' = IF error THEN "joining" ELSE "dumping"
  /\ UNCHANGED <<keyset, console, job, result, threadvars, cancelled>>
Cancel ==
  /\ mPc = "dumping" /\ written < total
  /\ mPc' = "joining" /\ cancelled' = TRUE
  /\ UNCHANGED <<keyset, console, job, result, threadvars>>
\* A mutated form: only a dump that was written ends.
EndsWhenWritten ==
  /\ mPc = "dumping" /\ written >= total
  /\ mPc' = "joining"
  /\ UNCHANGED <<keyset, console, job, result, threadvars, cancelled>>
Ends ==
  /\ mPc = "dumping" /\ (written >= total \/ error)
  /\ mPc' = "joining"
  /\ UNCHANGED <<keyset, console, job, result, threadvars, cancelled>>
Join ==
  /\ mPc = "joining" /\ pc = "done"
  /\ mPc' = "told"
  /\ result' = [result EXCEPT !.told = IF error THEN "error" ELSE IF cancelled THEN "cancelled" ELSE "success"]
  /\ UNCHANGED <<keyset, console, job, threadvars, cancelled>>

\* The ticket alone, of the content that tells whether there is one; saving it
\* may fail.
saveTicket(name, remove_console_data) ==
  \E title \in {Titles[name]} :
  LET type == IF title.type \in {"Application", "Patch"} THEN "Program" ELSE "Data"
      found == {c \in ToSet(title.contents) : c.content_type = type /\ c.id_offset = 0}
      taken(i) == IF remove_console_data /\ tikIsPersonalizedTicket(i.tik)
                  THEN tikConvertPersonalizedTicketToCommonTicket(Env, i.tik)
                  ELSE [ok |-> TRUE, t |-> i.tik]
      saved(i, t) == i.ok /\ i.n.rights_id_available /\ i.n.titlekey_retrieved /\ t.ok
      told(i, t) == {[result EXCEPT !.told = "error"]}
                      \cup (IF saved(i, t) THEN {[told |-> "success", ticket |-> t.t]} ELSE {})
      outcome(i) == told(i, taken(i))
  IN  /\ mPc = "idle" /\ mPc' = "told"
      /\ job' = [title |-> name, o |-> IF remove_console_data THEN {"remove_console_data"} ELSE {}, dev |-> "sd"]
      /\ IF found = {} THEN result' = [result EXCEPT !.told = "error"]
         ELSE result' \in outcome(InitializedNca(title, CHOOSE c \in found : TRUE, NoTicket))
      /\ UNCHANGED <<keyset, console, threadvars, cancelled>>

Dumps == \E title \in Consoles[console].titles, o \in OptionSets, dev \in Devices : StartDump(title, o, dev)
Saves == \E title \in Consoles[console].titles, remove \in BOOLEAN : saveTicket(title, remove)
Menu == LoadKeys \/ Dumps \/ Begins \/ Cancel \/ Ends \/ Join \/ Saves

NspNext == Menu \/ Thread
NspSpec == NspInit /\ [][NspNext]_nspvars

----------------------------------------------------------------------------
(* What is promised.                                                       *)

\* What is in the output, as somebody reads it who has nothing else.
IsWhole == out.state = "whole"
EntryCount == out.header[1][2]
EntryOffset(i) == out.header[1 + i][2]
EntryData(i) == SubSeq(out.body, EntryOffset(i) + 1, EntryOffset(i) + out.header[1 + i][3])
EntryName(i) ==
  LET table == SubSeq(out.header, EntryCount + 2, Len(out.header))
      at == out.header[1 + i][4]
  IN  SubSeq(table, at + 1, at + strlen(table, at))
ContentIndexes == DOMAIN nsp.ncas
Shipped(i) == [nsp.ncas[i] EXCEPT !.nca.content = EntryData(i)]
ShippedHash(i) == ContentHash(nsp.ncas[i].nca, EntryData(i))
ShippedHeader(i) == EntryData(i)[1].v[2]
ShippedFsHeader(i) == EntryData(i)[FsHeaderOffset(nsp.ncas[i]) + 1].v[2]
\* The NCA is readable, and therefore what was asked for was done to it.
IsReadable(i) == KeysAreThere(nsp.ncas[i]) /\ ~nsp.ncas[i].ctx.has_sparse_layer
ShippedFile(i, fs, e) == FileData(Shipped(i), fs, e).data
LayerData(i, k) ==
  LET n == Shipped(i)
  IN  _ncaReadFsSection(n.nca, n.ctx, n.ctx.layers[k].size, n.ctx.layers[k].offset, n.st).data
HashTreeVerifies(i) ==
  LET n == nsp.ncas[i]
  IN  /\ \A k \in 2 .. Len(n.ctx.layers) :
           LayerData(i, k - 1) = ncaCalculateLayerHash(n, LayerData(i, k), n.nca.hash_block_size[k])
      /\ ShippedFsHeader(i) = FsHeader(Sha(LayerData(i, 1)))
      /\ ShippedHeader(i)[4] = Sha(ShippedFsHeader(i))

\* What is announced is what is written, and the progress ends exactly with the
\* dump, so that the menu, which counts bytes, waits for the header as well.
SizesAreTrue ==
  /\ written <= total
  /\ IsWhole = (total # 0 /\ written = total)
  /\ IsWhole => Len(out.header) + Len(out.body) = total
  /\ out.left # 0 => pc \in {"block", "end", "done"}

\* A finished NSP can be installed: its entries fill it without a gap, every
\* content is named after its hash, the hash tree of every section that can be
\* read holds up to the header, and the content meta that is shipped lists the
\* contents that are shipped - whatever was patched, in however many blocks
\* (ncaGenerateHashDataPatch, cnmtUpdateContentInfo, the header last).  It is as
\* large as it was announced to be.
NspVerifies ==
  /\ SizesAreTrue
  /\ IsWhole =>
       /\ EntryCount = Len(nsp.ncas) + Len(nsp.extra)
       /\ \A i \in 1 .. EntryCount :
            EntryOffset(i) + out.header[1 + i][3] = IF i < EntryCount THEN EntryOffset(i + 1) ELSE Len(out.body)
       /\ \A i \in ContentIndexes : EntryName(i)[1] = <<"id", ShippedHash(i)>>
       /\ \A i \in ContentIndexes : IsReadable(i) => HashTreeVerifies(i)
       /\ LET meta == Len(nsp.ncas)
              raw == ShippedFile(meta, nsp.cnmt.fs, nsp.cnmt.fs.files[nsp.cnmt.entry])
          IN  {Infos(raw)[k] : k \in DOMAIN Infos(raw)} =
                {[content_id |-> ShippedHash(i), hash |-> ShippedHash(i), size |-> Len(EntryData(i)),
                  content_type |-> nsp.ncas[i].content_type, id_offset |-> nsp.ncas[i].id_offset] :
                   i \in ContentIndexes \ {meta}}

\* What the user asked for is in every content of a finished NSP that could be
\* read, and what nobody asked for is as it was (getNsp...Option, poc 6578-6585).
NacpOf(i) ==
  With(romfsOpened(nsp.ncas[i]),
       LAMBDA fs : ShippedFile(i, fs, fs.files[FileByName(fs, <<"control.nacp">>).at]))
CleanNacp(i) ==
  LET file(n, fs) == FileData(n, fs, fs.files[FileByName(fs, <<"control.nacp">>).at]).data
      content(n) == file(n, romfsOpened(n))
  IN  content([nsp.ncas[i] EXCEPT !.nca.content = nsp.ncas[i].nca.clean])
OptionsAreTaken ==
  IsWhole =>
    \A i \in ContentIndexes :
      nsp.ncas[i].content_type # "Meta" /\ IsReadable(i) =>
        /\ "set_download" \in job.o => ShippedHeader(i)[1] = "Download"
        /\ "remove_titlekey_crypto" \in job.o => ShippedHeader(i)[2] = NoRightsId
        /\ job.o \cap {"set_download", "remove_titlekey_crypto"} = {} =>
             SubSeq(ShippedHeader(i), 1, 3) = SubSeq(nsp.ncas[i].clean, 1, 3)
        /\ nsp.ncas[i].content_type = "Control" =>
             /\ ("patch_sua" \in job.o) = (NacpOf(i)[1] # CleanNacp(i)[1])
             /\ ("patch_screenshot" \in job.o) = (NacpOf(i)[2] = <<"screenshot", "Allow">>)
             /\ ("patch_hdcp" \in job.o) = (NacpOf(i)[4] = <<"hdcp", "None">>)
             /\ NacpOf(i)[5] = CleanNacp(i)[5]

\* The documents of a finished NSP tell of what is in it: each is named after
\* its content, that of the content meta lists the contents under the names
\* they have now, and that of a control.nacp is the one that is shipped.
DocumentsAgree ==
  IsWhole =>
    \A k \in DOMAIN nsp.extra :
      LET x == nsp.extra[k]
          at == Len(nsp.ncas) + k
          suffix == x.name[2][2]
          listed == SelectSeq(EntryData(at), LAMBDA e : e[1] = "content")
      IN  /\ EntryName(at)[2] = <<"suffix", suffix>>
          /\ x.slot # 0 => EntryName(at)[1] = <<"id", ShippedHash(x.slot)>>
          /\ suffix = <<"cnmt.xml">> =>
               [i \in DOMAIN listed |-> listed[i][2].id] = [i \in ContentIndexes |-> ShippedHash(i)]
          /\ suffix = <<"nacp.xml">> =>
               /\ HdcpElement(NacpOf(x.slot))[1] \in ToSet(EntryData(at))
               /\ ToSet(AccountElements(NacpOf(x.slot)) \o AllowanceElements(NacpOf(x.slot)))
                    \subseteq ToSet(EntryData(at))

\* Whoever has the NSP can decrypt it: the title key of each content that the
\* dump could read is in its header or in the ticket, and when the user asked to
\* remove console specific data, nothing of the console is in a ticket that is
\* shipped or saved, whose certificates are those of its issuer.
Conveys(t, titlekey) ==
  LET key == tikGetEncryptedTitleKey(t.data)
  IN  key.ok /\ tikGetDecryptedTitleKey(key.key, t.key_generation).key = titlekey
IsNeutral(t) == t.data.titlekey_type = "Common" /\ ~t.data.console /\ t.data.sect_total_size = 0
TrueTitleKey(name) ==
  LET found == {c \in ToSet(Titles[name].contents) : c.titlekey # Empty} IN (CHOOSE c \in found : TRUE).titlekey
KeysTravel ==
  /\ IsWhole =>
       /\ \A i \in ContentIndexes :
            nsp.ncas[i].titlekey_retrieved =>
              \/ ShippedHeader(i)[2] = NoRightsId /\ ShippedHeader(i)[3] = TrueTitleKey(job.title)
              \/ /\ nsp.tik.data.rights_id = ShippedHeader(i)[2]
                 /\ Conveys(nsp.tik, TrueTitleKey(job.title))
       /\ nsp.tik # NoTicket =>
            /\ EntryData(EntryCount - 1)[1] = <<"tik", nsp.tik.data>>
            /\ EntryData(EntryCount)[1] = <<"cert", Tail(nsp.tik.data.issuer)>>
            /\ "remove_console_data" \in job.o => IsNeutral(nsp.tik)
  /\ result.ticket # NoTicket =>
       /\ Conveys(result.ticket, TrueTitleKey(job.title))
       /\ "remove_console_data" \in job.o => IsNeutral(result.ticket)

\* What is given up is removed or was never there, and the user is told so,
\* wherever the dump fails and whenever the cancel comes; one that comes after
\* the last block still keeps the file, and a ticket is saved when it is said to
\* be.  Left aside: the concatenation file that could not be opened.
OutcomeIsTrue ==
  /\ pc = "done" => out.state # "open" /\ (error => ~IsWhole)
  /\ IsWhole => out.size = total
  /\ out.state = "gone" => error \/ cancelled
  /\ result.told = "success" => IsWhole \/ result.ticket # NoTicket
  /\ result.told = "cancelled" => cancelled
  /\ result.told = "error" => ~IsWhole

\* However a dump goes, the menu comes back (both wait loops and the join).
DumpReturns == mPc = "preparing" ~> mPc = "told"

\* A keyset that is handed out is right: every master key up to the newest that
\* its vectors can check is the console's own, whatever was in the file.  Newer
\* ones are taken from the file as they are.
KeysAreTrue ==
  keyset.loaded =>
    LET unit == Consoles[console].unit
        newest == IF LowMasterKeyRequirement(unit) THEN HosKeyGeneration(unit) ELSE CurrentIndex
    IN  /\ \A i \in 0 .. newest : keyset.master_keys[i] = MasterKey(unit, i)
        /\ \A i \in newest + 1 .. CurrentIndex : keyset.master_keys[i] \in {Empty, MasterKey(unit, i)}
        /\ \A i \in 0 .. NcaKeyGeneration_Max - 1 :
             (keyset.nca_kaek[i] = Empty) = (keyset.master_keys[i] = Empty)
=============================================================================
