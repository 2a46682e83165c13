-------------------------------- MODULE Keys --------------------------------
(***************************************************************************)
(* The keyset of keys.c: read from the keys file of the console, completed *)
(* by derivation and checked against the master key vectors, once, before  *)
(* anything is decrypted.                                                  *)
(*                                                                         *)
(* A key is a tuple, Empty one of zeroes.  True keys are those of the      *)
(* console's kind, retail or development; decrypting with any other key    *)
(* gives a key that is none of them.                                       *)
(***************************************************************************)
EXTENDS Integers, SequencesExt

CONSTANTS
  NcaKeyGeneration_Current, \* scaled down: the generations whose master key vectors are known
  NcaKeyGeneration_Max      \* scaled down: the generations there is room for

ASSUME GenerationsAssumption ==
  /\ NcaKeyGeneration_Current \in Nat \ {0} /\ NcaKeyGeneration_Max \in Nat
  /\ NcaKeyGeneration_Current <= NcaKeyGeneration_Max

VARIABLE keyset

Empty == <<"zero">>
Wrong(key) == <<"wrong", key>>
keysIsKeyEmpty(key) == key = Empty
MasterKey(unit, i) == <<"master", unit.dev, i>>
CurrentIndex == NcaKeyGeneration_Current - 1

\* unit is the console: dev, mariko, the index of the newest master key its
\* firmware uses (as if it was exact), that of its Atmosphere, and its eTicket
\* RSA device key: "wiped", "old" or "personalized".
keysGetHorizonOsKeyGeneration(unit) ==
  IF unit.hos > CurrentIndex THEN NcaKeyGeneration_Max ELSE unit.hos
HosKeyGeneration(unit) ==
  IF keysGetHorizonOsKeyGeneration(unit) > unit.atmosphere THEN unit.atmosphere
  ELSE keysGetHorizonOsKeyGeneration(unit)
LowMasterKeyRequirement(unit) == HosKeyGeneration(unit) < CurrentIndex
OutdatedMasterKeyVectors(unit) == ~LowMasterKeyRequirement(unit) /\ unit.atmosphere > CurrentIndex

NoKeys == [i \in 0 .. NcaKeyGeneration_Max - 1 |-> Empty]
NotLoaded == [loaded |-> FALSE, wiped |-> FALSE, undefined |-> FALSE, master_keys |-> NoKeys,
              root |-> Empty, eticket_rsa_kek |-> Empty, nca_header_key |-> Empty,
              nca_kaek |-> NoKeys, ticket_common_keys |-> NoKeys, gc_cardinfo_key |-> Empty]

----------------------------------------------------------------------------
(* The keys file.  A line has a key, a value and what can be wrong with it *)
(* as text: a character, the separator, an odd number of digits, something *)
(* after the value.                                                        *)

\* A line that is the last of the file and does not end in a line feed is cut
\* one character too late, and its end taken for a broken value.
keysGetKeyAndValueFromFile(line) ==
  CASE line.end = "error" -> "stop"
    [] line.end # "error" /\ line.key = "" -> "skip"
    [] line.end # "error" /\ line.key # "" /\ (line.malformed \/ line.end = "none") -> "skip"
    [] OTHER -> "line"
\* The number of digits must be that of the key.
keysParseHexKey(line) == line.whole

RootName(unit) == IF unit.mariko THEN "mariko_kek" ELSE "tsec_root_key"
EticketKekName(unit) == IF unit.device_key = "personalized" THEN "eticket_rsa_kek_personalized"
                        ELSE "eticket_rsa_kek"
\* The master keys that are looked for: the later the firmware, the fewer.
WantedMasterKeys(unit) ==
  (IF LowMasterKeyRequirement(unit) THEN HosKeyGeneration(unit) ELSE CurrentIndex)
    .. NcaKeyGeneration_Max - 1

\* The first root key and the first eTicket key count, the last of each master key.
ReadLine(unit, w, line) ==
  LET k == w.keys
  IN  IF w.stopped \/ keysGetKeyAndValueFromFile(line) = "stop" THEN [w EXCEPT !.stopped = TRUE]
      ELSE IF keysGetKeyAndValueFromFile(line) = "skip" \/ ~keysParseHexKey(line) THEN w
      ELSE IF line.key = RootName(unit) /\ k.root = Empty
      THEN [w EXCEPT !.keys.root = line.value, !.count = @ + 1]
      ELSE IF line.key = EticketKekName(unit) /\ k.eticket_rsa_kek = Empty
      THEN [w EXCEPT !.keys.eticket_rsa_kek = line.value, !.count = @ + 1]
      ELSE IF line.key = "master_key" /\ line.index \in WantedMasterKeys(unit)
      THEN [w EXCEPT !.keys.master_keys[line.index] = line.value, !.count = @ + 1]
      ELSE w
keysReadKeysFromFile(unit, file, keys) ==
  LET w == FoldLeft(LAMBDA v, line : ReadLine(unit, v, line),
                    [keys |-> keys, count |-> 0, stopped |-> FALSE], file.lines)
  IN  [ok |-> file.exists /\ w.count > 0 /\ w.keys.eticket_rsa_kek # Empty,
       keys |-> IF file.exists THEN w.keys ELSE keys]

----------------------------------------------------------------------------
(* Derivation.                                                             *)

\* The previous master key is the vector of a generation decrypted with its
\* master key; the first vector gives zeroes.
LowerMasterKey(unit, i, key) ==
  IF key # MasterKey(unit, i) THEN Wrong(key) ELSE IF i = 0 THEN Empty ELSE MasterKey(unit, i - 1)

keysDeriveCurrentMasterKey(unit, keys) ==
  IF ~keysIsKeyEmpty(keys.master_keys[CurrentIndex]) THEN [ok |-> TRUE, keys |-> keys]
  ELSE IF keys.root = Empty THEN [ok |-> FALSE, keys |-> keys]
  ELSE [ok |-> TRUE,
        keys |-> [keys EXCEPT !.master_keys[CurrentIndex] =
                    IF keys.root = <<RootName(unit), unit.dev>> THEN MasterKey(unit, CurrentIndex)
                    ELSE Wrong(keys.root)]]

\* A mutated form: the zeroes at the end are not looked at.
LowerKeysUnchecked(unit, keys, index) ==
  [ok |-> TRUE,
   keys |-> [keys EXCEPT !.master_keys =
               FoldLeft(LAMBDA m, n : [m EXCEPT ![index - n] =
                                         LowerMasterKey(unit, index - n + 1, m[index - n + 1])],
                        @, [n \in 1 .. index |-> n])]]
\* From the key of one generation down to the first; all of them must be true.
LowerKeys(unit, keys, index) ==
  LET all == FoldLeft(LAMBDA m, n : [m EXCEPT ![index - n] =
                                       LowerMasterKey(unit, index - n + 1, m[index - n + 1])],
                      keys.master_keys, [n \in 1 .. index |-> n])
  IN  [ok |-> keysIsKeyEmpty(LowerMasterKey(unit, 0, all[0])),
       keys |-> [keys EXCEPT !.master_keys = all]]

\* The newest master key in use is the file's or, failing that, derived.  The
\* search for one is unsigned: on the first firmwares it never ends above the
\* first master key, and goes on with what lies behind the keys.
keysDeriveMasterKeys(unit, keys) ==
  LET newer == CurrentIndex .. unit.atmosphere
      found == {i \in HosKeyGeneration(unit) .. CurrentIndex : ~keysIsKeyEmpty(keys.master_keys[i])}
      newest == CHOOSE i \in found : \A j \in found : j <= i
      derived == keysDeriveCurrentMasterKey(unit, keys)
  IN  CASE OutdatedMasterKeyVectors(unit) ->
             IF \E i \in newer : keysIsKeyEmpty(keys.master_keys[i]) THEN [ok |-> FALSE, keys |-> keys]
             ELSE LowerKeys(unit, keys, CurrentIndex)
        [] LowMasterKeyRequirement(unit) /\ found # {} -> LowerKeys(unit, keys, newest)
        [] LowMasterKeyRequirement(unit) /\ found = {} /\ HosKeyGeneration(unit) = 0 ->
             [ok |-> FALSE, keys |-> [keys EXCEPT !.undefined = TRUE]]
        [] OTHER -> IF derived.ok THEN LowerKeys(unit, derived.keys, CurrentIndex) ELSE derived

\* A key generated by the secure monitor from a master key.
keysGenerateAesKek(keys, source, key_generation) ==
  LET master == keys.master_keys[IF key_generation > 0 THEN key_generation - 1 ELSE 0]
  IN  [ok |-> ~keysIsKeyEmpty(master), kek |-> <<source, master>>]
keysLoadAesKeyFromAesKek(keys, source, key_generation) == keysGenerateAesKek(keys, source, key_generation)
keysGenerateAesKeyFromAesKek(keys, source, key_generation) ==
  keysGenerateAesKek(keys, source, key_generation)

keysDeriveNcaHeaderKey(keys) ==
  LET k == keysGenerateAesKek(keys, "header", 0)
  IN  [ok |-> k.ok, keys |-> [keys EXCEPT !.nca_header_key = IF k.ok THEN k.kek ELSE @]]
\* Generations without a master key are left out.
keysDerivePerGenerationKeys(keys) ==
  [keys EXCEPT !.nca_kaek = [i \in DOMAIN keys.master_keys |->
                               IF keysIsKeyEmpty(keys.master_keys[i]) THEN @[i]
                               ELSE keysLoadAesKeyFromAesKek(keys, "kaek", i + 1).kek],
               !.ticket_common_keys = [i \in DOMAIN keys.master_keys |->
                                         IF keysIsKeyEmpty(keys.master_keys[i]) THEN @[i]
                                         ELSE <<"common", keys.master_keys[i]>>]]
keysDeriveGcCardInfoKey(keys) ==
  LET k == keysGenerateAesKeyFromAesKek(keys, "cardinfo", 0)
  IN  [ok |-> k.ok, keys |-> [keys EXCEPT !.gc_cardinfo_key = IF k.ok THEN k.kek ELSE @]]

\* The device key is decrypted with the key of the file and tried out; a wiped
\* one is accepted and remembered.
keysTestEticketRsaDeviceKey(unit, keys) == keys.eticket_rsa_kek = <<EticketKekName(unit), unit.dev>>
keysGetDecryptedEticketRsaDeviceKey(unit, keys) ==
  IF unit.device_key = "wiped" THEN [ok |-> TRUE, keys |-> [keys EXCEPT !.wiped = TRUE]]
  ELSE [ok |-> keysTestEticketRsaDeviceKey(unit, keys), keys |-> keys]

----------------------------------------------------------------------------
(* The keyset and its users.                                               *)

LoadedKeys(unit, file, keys) ==
  LET unlocked(card, device) == [device.keys EXCEPT !.loaded = card.ok /\ device.ok]
      carded(card) == unlocked(card, keysGetDecryptedEticketRsaDeviceKey(unit, card.keys))
      headed(header) == IF ~header.ok THEN header.keys
                        ELSE carded(keysDeriveGcCardInfoKey(keysDerivePerGenerationKeys(header.keys)))
      mastered(master) == IF ~master.ok THEN master.keys ELSE headed(keysDeriveNcaHeaderKey(master.keys))
      read(r) == IF ~r.ok THEN r.keys ELSE mastered(keysDeriveMasterKeys(unit, r.keys))
  IN  read(keysReadKeysFromFile(unit, file, keys))
keysLoadKeyset(unit, file) == ~keyset.loaded /\ keyset' = LoadedKeys(unit, file, keyset)

\* Nothing is handed out before all of it was loaded, nor a key that is missing.
Known(key) == keyset.loaded /\ ~keysIsKeyEmpty(key)
GenerationIndex(key_generation) == IF key_generation > 0 THEN key_generation - 1 ELSE 0
keysGetNcaHeaderKey == keyset.loaded
keysGetGameCardInfoKey == keyset.loaded
keysGetNcaKeyAreaEncryptionKey(key_generation) ==
  key_generation <= NcaKeyGeneration_Max /\ Known(keyset.nca_kaek[GenerationIndex(key_generation)])
keysGetTicketCommonKey(key_generation) ==
  key_generation <= NcaKeyGeneration_Max /\ Known(keyset.ticket_common_keys[GenerationIndex(key_generation)])
keysDecryptRsaOaepWrappedTitleKey == keyset.loaded /\ ~keyset.wiped
=============================================================================
