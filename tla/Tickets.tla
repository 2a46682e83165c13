------------------------------ MODULE Tickets -------------------------------
(***************************************************************************)
(* Tickets (tik.c) and certificates (cert.c): where the ticket of a rights *)
(* ID comes from, how its title key is unwrapped and decrypted, and how it *)
(* is turned into one that is not bound to a console.                      *)
(*                                                                         *)
(* A rights ID is <<name, key generation byte>>; that byte is 0 for the    *)
(* generations before NcaKeyGeneration_Since301NUP.  An issuer is the      *)
(* sequence of the names in it.  Ticket sizes are in blocks: signature,    *)
(* common block, section records.  env is what the console has:            *)
(*   card, card_certs   the tickets and chains on the game card            *)
(*   es                 per title key type: the rights IDs the ES service  *)
(*                      lists, the list and the tickets in its save file   *)
(*   certs              the certificates in the ES save file               *)
(*   hos9, es_memory    the keys found in the memory of ES                 *)
(***************************************************************************)
EXTENDS Keys

CONSTANT
  Since301NUP \* NcaKeyGeneration_Since301NUP

SIGNED_TIK_MIN_SIZE == 2
SIGNED_TIK_MAX_SIZE == 4
LastRightsId == <<"last", 0>>
NoRights == <<"none", 0>>
Rsa2048 == {"Rsa2048Sha1", "Rsa2048Sha256"}
Rsa4096 == {"Rsa4096Sha1", "Rsa4096Sha256"}
Ecc480 == {"Ecc480Sha1", "Ecc480Sha256"}
Hmac160 == {"Hmac160Sha1"}
signatureIsValidType(sig) == sig \in Rsa2048 \cup Rsa4096 \cup Ecc480 \cup Hmac160

NoBlob == [sig |-> "none", signed |-> FALSE, key |-> "none", issuer |-> <<"none">>, titlekey_type |-> "Common",
           titlekey_block |-> Empty, rights_id |-> NoRights, key_generation |-> 0, console |-> FALSE,
           sect_total_size |-> 0]
NoTicket == [type |-> "None", size |-> 0, data |-> NoBlob, key_generation |-> 0,
             enc_titlekey |-> Empty, dec_titlekey |-> Empty]

\* A blob that is still encrypted does not start with a signature.
IsBlob(b) == b.key = "none" /\ signatureIsValidType(b.sig)
tikGetSignedTicketBlobSize(b) == 2 + b.sect_total_size
tikIsValidTicket(t) == t.type # "None" /\ t.size \in SIGNED_TIK_MIN_SIZE .. SIGNED_TIK_MAX_SIZE /\ IsBlob(t.data)
tikIsPersonalizedTicket(t) == tikIsValidTicket(t) /\ t.data.titlekey_type = "Personalized"
tikGetTicketTypeAndSize(b, data_size) ==
  [ok |-> IsBlob(b) /\ tikGetSignedTicketBlobSize(b) <= data_size,
   size |-> tikGetSignedTicketBlobSize(b),
   type |-> CASE b.sig \in Rsa4096 -> "SigRsa4096" [] b.sig \in Rsa2048 -> "SigRsa2048"
              [] b.sig \in Ecc480 -> "SigEcc480" [] OTHER -> "SigHmac160"]

----------------------------------------------------------------------------
(* Certificates.                                                           *)

\* By the two types every certificate there is has one of a signature and one
\* of a public key.
certGetCertificateType(c) == IF signatureIsValidType(c.sig) /\ c.pub_key # "none" THEN c.sig ELSE "None"
certOpenEsCertSaveFile(env) == env.cert_save
_certRetrieveCertificateByName(env, name) ==
  /\ name \in DOMAIN env.certs
  /\ env.certs[name].size_ok /\ certGetCertificateType(env.certs[name]) # "None"
certRetrieveCertificateByName(env, name) ==
  certOpenEsCertSaveFile(env) /\ _certRetrieveCertificateByName(env, name)
\* One certificate for each name behind the root.
certGetCertificateCountInSignatureIssuer(issuer) == Len(issuer) - 1
_certRetrieveCertificateChainBySignatureIssuer(env, issuer) ==
  /\ certGetCertificateCountInSignatureIssuer(issuer) > 0
  /\ \A i \in 2 .. Len(issuer) : _certRetrieveCertificateByName(env, issuer[i])
certRetrieveCertificateChainBySignatureIssuer(env, issuer) ==
  /\ issuer[1] = "Root" /\ certOpenEsCertSaveFile(env)
  /\ _certRetrieveCertificateChainBySignatureIssuer(env, issuer)
certGenerateRawCertificateChainBySignatureIssuer(env, issuer) ==
  [ok |-> certRetrieveCertificateChainBySignatureIssuer(env, issuer), chain |-> Tail(issuer)]
certRetrieveRawCertificateChainFromGameCardByRightsId(env, id) ==
  IF id \in DOMAIN env.card_certs THEN [ok |-> TRUE, chain |-> env.card_certs[id]]
  ELSE [ok |-> FALSE, chain |-> <<>>]

----------------------------------------------------------------------------
(* Where a ticket comes from.                                              *)

tikRetrieveTicketFromGameCardByRightsId(env, id) ==
  IF id \notin DOMAIN env.card THEN [ok |-> FALSE, data |-> NoBlob]
  ELSE [ok |-> tikGetTicketTypeAndSize(env.card[id], SIGNED_TIK_MAX_SIZE).ok, data |-> env.card[id]]

\* Common tickets are looked through first; a list that cannot be had is left out.
tikRetrieveRightsIdsByTitleKeyType(env, type) ==
  [ok |-> env.es[type].listed, ids |-> env.es[type].ids]
tikGetTitleKeyTypeForRightsId(env, id) ==
  LET has(type) == LET r == tikRetrieveRightsIdsByTitleKeyType(env, type)
                   IN  r.ok /\ \E i \in DOMAIN r.ids : r.ids[i] = id
  IN  CASE has("Common") -> [ok |-> TRUE, type |-> "Common"]
        [] ~has("Common") /\ has("Personalized") -> [ok |-> TRUE, type |-> "Personalized"]
        [] OTHER -> [ok |-> FALSE, type |-> "Common"]

\* The list ends with an entry that is none; the tickets are in its order.
tikGetTicketEntryOffsetFromTicketList(es, id) ==
  LET ends == {i \in DOMAIN es.list : es.list[i] = LastRightsId \/ i > es.readable}
      found == {i \in DOMAIN es.list : es.list[i] = id /\ \A j \in ends : i < j}
  IN  IF found = {} THEN 0 ELSE CHOOSE i \in found : \A j \in found : i <= j

\* A volatile ticket is stored encrypted, from version 9.0.0 on with a key
\* that is looked for in the memory of ES.
IsKeyEntry(entry) == entry.pattern /\ entry.key # "zero" /\ entry.ctr_is_zero
tikDecryptVolatileTicket(env, b) ==
  LET tried == {i \in DOMAIN env.es_memory : IsKeyEntry(env.es_memory[i]) /\ env.es_memory[i].key = b.key}
  IN  [ok |-> env.hos9 /\ tried # {} /\ b.issuer[1] = "Root", data |-> [b EXCEPT !.key = "none"]]
tikRetrieveTicketEntryFromTicketBin(env, es, id, i) ==
  LET b == IF i <= Len(es.bin) THEN es.bin[i] ELSE NoBlob
      volatile == ~IsBlob(b) \/ b.issuer[1] # "Root"
      d == IF volatile THEN tikDecryptVolatileTicket(env, b) ELSE [ok |-> TRUE, data |-> b]
  IN  [ok |-> i <= Len(es.bin) /\ d.ok /\ d.data.rights_id = id, data |-> d.data]

tikRetrieveTicketFromEsSaveDataByRightsId(env, id) ==
  LET type == tikGetTitleKeyTypeForRightsId(env, id)
      es == env.es[type.type]
      i == tikGetTicketEntryOffsetFromTicketList(es, id)
      r == tikRetrieveTicketEntryFromTicketBin(env, es, id, i)
  IN  IF ~type.ok \/ ~es.opened \/ i = 0 THEN [ok |-> FALSE, data |-> NoBlob]
      ELSE [ok |-> r.ok /\ tikGetTicketTypeAndSize(r.data, SIGNED_TIK_MAX_SIZE).ok, data |-> r.data]

----------------------------------------------------------------------------
(* What becomes of it.                                                     *)

CommonIssuer(b) == <<"Root", IF "CA4" \in ToSet(b.issuer) THEN "CA4" ELSE "CA3", "XS20">>
tikVerifyRsa2048Sha256Signature(env, b) ==
  b.signed /\ certRetrieveCertificateByName(env, Last(b.issuer))

\* A common ticket with a signature that is not right was tampered with, and
\* gets what a common ticket has; its rights ID and title key stay.
tikFixTamperedCommonTicket(env, t) ==
  IF \/ t.data.titlekey_type # "Common" \/ t.data.sig # "Rsa2048Sha256"
     \/ tikVerifyRsa2048Sha256Signature(env, t.data)
  THEN t
  ELSE [t EXCEPT !.size = 2,
                 !.data = [@ EXCEPT !.signed = FALSE, !.issuer = CommonIssuer(t.data),
                                    !.key_generation = t.key_generation, !.console = FALSE,
                                    !.sect_total_size = 0]]

\* The title key of a personalized ticket is wrapped for the console.
tikGetEncryptedTitleKey(b) ==
  CASE b.titlekey_type = "Common" -> [ok |-> TRUE, key |-> b.titlekey_block]
    [] b.titlekey_type = "Personalized" /\ keysDecryptRsaOaepWrappedTitleKey
         /\ b.titlekey_block[1] = "wrapped" -> [ok |-> TRUE, key |-> b.titlekey_block[2]]
    [] OTHER -> [ok |-> FALSE, key |-> Empty]
tikGetDecryptedTitleKey(key, key_generation) ==
  IF keysGetTicketCommonKey(key_generation)
  THEN [ok |-> TRUE,
        key |-> <<"decrypted", key, keyset.ticket_common_keys[GenerationIndex(key_generation)]>>]
  ELSE [ok |-> FALSE, key |-> Empty]

\* What is in t is used again when it is a ticket of that rights ID, whether or
\* not its title key was ever decrypted.
tikRetrieveTicketByRightsId(env, t, id, key_generation, use_gamecard) ==
  LET generation == IF key_generation < Since301NUP THEN 0 ELSE key_generation
      decrypted(tik, enc, dec) ==
        IF ~enc.ok THEN [ok |-> FALSE, t |-> tik]
        ELSE [ok |-> dec.ok, t |-> [tik EXCEPT !.enc_titlekey = enc.key, !.dec_titlekey = dec.key]]
      keys(tik, enc) == decrypted(tik, enc, tikGetDecryptedTitleKey(enc.key, key_generation))
      read(tik) == keys(tik, tikGetEncryptedTitleKey(tik.data))
      sized(data, info) ==
        read(tikFixTamperedCommonTicket(
               env, [NoTicket EXCEPT !.type = info.type, !.size = info.size, !.data = data,
                                     !.key_generation = key_generation]))
      retrieved(r) == IF id[2] # generation \/ ~r.ok THEN [ok |-> FALSE, t |-> NoTicket]
                      ELSE sized(r.data, tikGetTicketTypeAndSize(r.data, SIGNED_TIK_MAX_SIZE))
  IN  IF tikIsValidTicket(t) /\ t.data.rights_id = id THEN [ok |-> TRUE, t |-> t]
      ELSE retrieved(IF use_gamecard THEN tikRetrieveTicketFromGameCardByRightsId(env, id)
                     ELSE tikRetrieveTicketFromEsSaveDataByRightsId(env, id))

\* A mutated form: the title key stays wrapped.
tikConvertKeepingTheKey(env, t) ==
  LET issuer == CommonIssuer(t.data)
      chain == certGenerateRawCertificateChainBySignatureIssuer(env, issuer)
  IN  IF ~tikIsPersonalizedTicket(t) \/ ~chain.ok THEN [ok |-> FALSE, t |-> t, chain |-> <<>>]
      ELSE [ok |-> TRUE, chain |-> chain.chain,
            t |-> [t EXCEPT !.size = 2,
                            !.data = [@ EXCEPT !.signed = FALSE, !.issuer = issuer, !.titlekey_type = "Common",
                                               !.console = FALSE, !.sect_total_size = 0]]]
\* Nothing of the console is left: the key is the unwrapped one, the issuer that
\* of common tickets, and the chain is that issuer's.
tikConvertPersonalizedTicketToCommonTicket(env, t) ==
  LET issuer == CommonIssuer(t.data)
      chain == certGenerateRawCertificateChainBySignatureIssuer(env, issuer)
  IN  IF ~tikIsPersonalizedTicket(t) \/ ~chain.ok THEN [ok |-> FALSE, t |-> t, chain |-> <<>>]
      ELSE [ok |-> TRUE, chain |-> chain.chain,
            t |-> [t EXCEPT !.size = 2,
                            !.data = [@ EXCEPT !.signed = FALSE, !.issuer = issuer,
                                               !.titlekey_block = t.enc_titlekey,
                                               !.titlekey_type = "Common", !.console = FALSE,
                                               !.sect_total_size = 0]]]
=============================================================================
