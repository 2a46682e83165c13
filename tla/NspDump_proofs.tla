---------------------------- MODULE NspDump_proofs ----------------------------
(***************************************************************************)
(* Proofs about NspDump: the keys it needs and what becomes of its output, *)
(* for every console, every keys file, every title, every device and every *)
(* set of options.                                                         *)
(***************************************************************************)
EXTENDS NspDump, SequenceTheorems, WellFoundedInduction, TLAPS

(***************************************************************************)
(* The keys.                                                               *)
(***************************************************************************)

KeyIndexes == 0 .. NcaKeyGeneration_Max - 1
KeysetFields == DOMAIN NotLoaded

\* A keyset that nothing was derived for yet, whatever was read into it.
Blank(keys) ==
  /\ DOMAIN keys = KeysetFields /\ keys = [x \in KeysetFields |-> keys[x]]
  /\ ~keys.loaded /\ keys.nca_kaek = NoKeys
  /\ keys.master_keys = [i \in KeyIndexes |-> keys.master_keys[i]]

LEMMA NotLoadedIsBlank == Blank(NotLoaded)
  BY DEF Blank, NotLoaded, NoKeys, KeysetFields, KeyIndexes

LEMMA BlankUpdates ==
  ASSUME NEW keys, Blank(keys)
  PROVE  /\ \A v : Blank([keys EXCEPT !.root = v]) /\ Blank([keys EXCEPT !.eticket_rsa_kek = v])
         /\ \A i \in KeyIndexes : \A v : Blank([keys EXCEPT !.master_keys[i] = v])
         /\ \A v : Blank([keys EXCEPT !.undefined = v])
  BY DEF Blank, KeysetFields, NotLoaded

\* The steps of the loops over the lines of the file and over the generations.
ReadStep(unit, b, c, w, line) == ReadLine(unit, w, line)
ReadBlank(unit, b, c, k, w) == DOMAIN w = {"keys", "count", "stopped"} /\ Blank(w.keys)
Lines == INSTANCE Folding WITH op <- ReadStep, Inv <- ReadBlank

LEMMA WantedAreIndexes ==
  ASSUME NEW name \in DOMAIN Consoles
  PROVE  LET unit == Consoles[name].unit
         IN  /\ HosKeyGeneration(unit) \in Nat
             /\ WantedMasterKeys(unit) \subseteq KeyIndexes
  BY ConsolesAssumption, GenerationsAssumption
     DEF HosKeyGeneration, keysGetHorizonOsKeyGeneration, WantedMasterKeys, KeyIndexes, CurrentIndex,
         LowMasterKeyRequirement

\* Reading the file fills in keys and derives nothing.
LEMMA FileKeysAreBlank ==
  ASSUME NEW name \in DOMAIN Consoles
  PROVE  LET c == Consoles[name] IN Blank(keysReadKeysFromFile(c.unit, c.file, NotLoaded).keys)
  <1>. DEFINE unit == Consoles[name].unit
              lines == Consoles[name].file.lines
              base == [keys |-> NotLoaded, count |-> 0, stopped |-> FALSE]
              w == FoldLeft(LAMBDA v, line : ReadLine(unit, v, line), base, lines)
  <1>1. w = Lines!Folded(unit, 0, 0, base, lines)
    BY Zenon DEF ReadStep, Lines!Folded, FoldLeft, Lines!FoldLeft, MapThenFoldSet, Lines!MapThenFoldSet,
                 Max, Lines!Max
  <1>2. ReadBlank(unit, 0, 0, 0, base)
    BY NotLoadedIsBlank DEF ReadBlank
  <1>3. ASSUME NEW k \in 1 .. Len(lines), NEW v, ReadBlank(unit, 0, 0, k - 1, v)
        PROVE  ReadBlank(unit, 0, 0, k, ReadStep(unit, 0, 0, v, lines[k]))
    <2>. DEFINE line == lines[k]
    <2>1. Blank(v.keys) /\ DOMAIN v = {"keys", "count", "stopped"}
      BY <1>3 DEF ReadBlank
    <2>2. CASE ReadLine(unit, v, line) = [v EXCEPT !.stopped = TRUE]
      BY <2>1, <2>2 DEF ReadBlank, ReadStep
    <2>3. CASE ReadLine(unit, v, line) = v
      BY <2>1, <2>3 DEF ReadBlank, ReadStep
    <2>4. CASE ReadLine(unit, v, line) = [v EXCEPT !.keys.root = line.value, !.count = @ + 1]
      <3>. DEFINE ks == [v.keys EXCEPT !.root = line.value]
      <3>1. Blank(ks)
        BY <2>1, BlankUpdates, Zenon
      <3>2. /\ ReadStep(unit, 0, 0, v, lines[k]).keys = ks
            /\ DOMAIN ReadStep(unit, 0, 0, v, lines[k]) = {"keys", "count", "stopped"}
        BY <2>1, <2>4 DEF ReadStep
      <3>. HIDE DEF ks, line
      <3>. QED  BY <3>1, <3>2, Zenon DEF ReadBlank
    <2>5. CASE ReadLine(unit, v, line) = [v EXCEPT !.keys.eticket_rsa_kek = line.value, !.count = @ + 1]
      <3>. DEFINE ks == [v.keys EXCEPT !.eticket_rsa_kek = line.value]
      <3>1. Blank(ks)
        BY <2>1, BlankUpdates, Zenon
      <3>2. /\ ReadStep(unit, 0, 0, v, lines[k]).keys = ks
            /\ DOMAIN ReadStep(unit, 0, 0, v, lines[k]) = {"keys", "count", "stopped"}
        BY <2>1, <2>5 DEF ReadStep
      <3>. HIDE DEF ks, line
      <3>. QED  BY <3>1, <3>2, Zenon DEF ReadBlank
    <2>6. CASE /\ ReadLine(unit, v, line) = [v EXCEPT !.keys.master_keys[line.index] = line.value, !.count = @ + 1]
               /\ line.index \in WantedMasterKeys(unit)
      <3>0. line.index \in KeyIndexes
        BY <2>6, WantedAreIndexes
      <3>. DEFINE ks == [v.keys EXCEPT !.master_keys[line.index] = line.value]
      <3>1. Blank(ks)
        BY <2>1, <3>0, BlankUpdates, Zenon
      <3>2. /\ ReadStep(unit, 0, 0, v, lines[k]).keys = ks
            /\ DOMAIN ReadStep(unit, 0, 0, v, lines[k]) = {"keys", "count", "stopped"}
        BY <2>1, <2>6 DEF ReadStep
      <3>. HIDE DEF ks, line
      <3>. QED  BY <3>1, <3>2, Zenon DEF ReadBlank
    <2>. QED  BY <2>2, <2>3, <2>4, <2>5, <2>6, Zenon DEF ReadLine
  <1>4. Blank(w.keys)
    <2>1. lines \in Seq(ToSet(lines))
      BY ConsolesAssumption DEF IsSeq
    <2>2. Len(lines) \in Nat /\ DOMAIN lines = 1 .. Len(lines)
      BY <2>1
    <2>. HIDE DEF w, base, lines
    <2>3. ReadBlank(unit, 0, 0, Len(lines), Lines!Folded(unit, 0, 0, base, lines))
      BY <1>2, <1>3, <2>2, Lines!FoldKeeps
    <2>. QED  BY <1>1, <2>3 DEF ReadBlank
  <1>. QED  BY <1>4, NotLoadedIsBlank DEF keysReadKeysFromFile

\* The outcome of a step that may fail.
LEMMA IsOk ==
  ASSUME NEW r, NEW p, NEW k, r = [ok |-> p, keys |-> k], r.ok
  PROVE  p
  BY Zenon

\* What the vectors say of the master keys from index down.
LowerStep(unit, index, keys, m, n) ==
  [m EXCEPT ![index - n] = LowerMasterKey(unit, index - n + 1, m[index - n + 1])]
Lowered(unit, index, keys, k, m) ==
  /\ m = [i \in KeyIndexes |-> m[i]]
  /\ \A i \in KeyIndexes : i >= index => m[i] = keys[i]
  /\ \A j \in index - k + 1 .. index : m[j - 1] = LowerMasterKey(unit, j, m[j])
Generations == INSTANCE Folding WITH op <- LowerStep, Inv <- Lowered

LEMMA KeysDiffer ==
  ASSUME NEW unit, NEW i \in Int
  PROVE  /\ MasterKey(unit, i) # Empty
         /\ \A key : Wrong(key) # Empty /\ Wrong(key) # MasterKey(unit, i)
  BY DEF MasterKey, Empty, Wrong

\* When the vector of the first generation gives zeroes, every key from index
\* down is the true one.
LEMMA LoweredKeysAreTrue ==
  ASSUME NEW unit, NEW keys, NEW index \in KeyIndexes, Blank(keys), LowerKeys(unit, keys, index).ok
  PROVE  LET lower == LowerKeys(unit, keys, index).keys
         IN  /\ Blank(lower)
             /\ \A i \in 0 .. index : lower.master_keys[i] = MasterKey(unit, i)
             /\ \A i \in KeyIndexes : i > index => lower.master_keys[i] = keys.master_keys[i]
  <1>. DEFINE old == keys.master_keys
              seq == [n \in 1 .. index |-> n]
              all == FoldLeft(LAMBDA m, n : [m EXCEPT ![index - n] =
                                               LowerMasterKey(unit, index - n + 1, m[index - n + 1])],
                              keys.master_keys, seq)
  <1>1. all = Generations!Folded(unit, index, old, old, seq)
    BY Zenon DEF LowerStep, Generations!Folded, FoldLeft, Generations!FoldLeft, MapThenFoldSet,
                 Generations!MapThenFoldSet, Max, Generations!Max
  <1>2. index \in Nat /\ DOMAIN seq = 1 .. index
    BY GenerationsAssumption DEF KeyIndexes
  <1>3. Lowered(unit, index, old, 0, old)
    BY <1>2 DEF Lowered, Blank
  <1>4. ASSUME NEW k \in 1 .. index, NEW m, Lowered(unit, index, old, k - 1, m)
        PROVE  Lowered(unit, index, old, k, LowerStep(unit, index, old, m, seq[k]))
    <2>. DEFINE m2 == LowerStep(unit, index, old, m, seq[k])
    <2>1. index - k \in KeyIndexes
      BY <1>2, GenerationsAssumption DEF KeyIndexes
    <2>2. m = [i \in KeyIndexes |-> m[i]]
      BY <1>4, Zenon DEF Lowered
    <2>3. m2 = [m EXCEPT ![index - k] = LowerMasterKey(unit, index - k + 1, m[index - k + 1])]
      BY DEF LowerStep
    <2>. SUFFICES Lowered(unit, index, old, k, m2)
      OBVIOUS
    <2>. HIDE DEF m2
    <2>4. m2 = [i \in KeyIndexes |-> m2[i]]
      BY <2>2, <2>3
    <2>5. \A i \in KeyIndexes : m2[i] = IF i = index - k THEN LowerMasterKey(unit, index - k + 1, m[index - k + 1])
                                        ELSE m[i]
      BY <2>1, <2>2, <2>3
    <2>6. \A i \in KeyIndexes : i >= index => m2[i] = keys.master_keys[i]
      BY <1>2, <1>4, <2>5 DEF Lowered
    <2>7. ASSUME NEW j \in index - k + 1 .. index PROVE m2[j - 1] = LowerMasterKey(unit, j, m2[j])
      <3>1. j \in KeyIndexes /\ j - 1 \in KeyIndexes /\ j # index - k
        BY <1>2, GenerationsAssumption DEF KeyIndexes
      <3>2. m2[j] = m[j]
        BY <2>5, <3>1
      <3>3. CASE j = index - k + 1
        BY <1>2, <2>5, <3>1, <3>2, <3>3
      <3>4. CASE j # index - k + 1
        <4>1. j \in index - (k - 1) + 1 .. index
          BY <1>2, <3>4
        <4>2. m[j - 1] = LowerMasterKey(unit, j, m[j])
          BY <1>4, <4>1 DEF Lowered
        <4>. QED  BY <1>2, <2>5, <3>1, <3>2, <3>4, <4>2
      <3>. QED  BY <3>3, <3>4
    <2>. QED  BY <2>4, <2>6, <2>7 DEF Lowered
  <1>5. Lowered(unit, index, old, index, all)
    <2>. HIDE DEF old, seq, all
    <2>. QED  BY <1>1, <1>2, <1>3, <1>4, Generations!FoldKeeps
  <1>6. LowerKeys(unit, keys, index) = [ok |-> keysIsKeyEmpty(LowerMasterKey(unit, 0, all[0])),
                                        keys |-> [keys EXCEPT !.master_keys = all]]
    BY Zenon DEF LowerKeys
  <1>. DEFINE first == LowerMasterKey(unit, 0, all[0])
  <1>. HIDE DEF all
  <1>7. all[0] = MasterKey(unit, 0)
    <2>1. LowerMasterKey(unit, 0, all[0]) = Empty
      <3>1. keysIsKeyEmpty(first)
        <4>. DEFINE k == [keys EXCEPT !.master_keys = all]
                    r == LowerKeys(unit, keys, index)
        <4>1. r = [ok |-> keysIsKeyEmpty(first), keys |-> k] /\ r.ok
          BY <1>6, Zenon
        <4>. HIDE DEF k, r, first
        <4>. QED  BY <4>1, IsOk, Zenon
      <3>. QED  BY <3>1, Zenon DEF keysIsKeyEmpty
    <2>2. Wrong(all[0]) # Empty
      BY KeysDiffer
    <2>. QED  BY <2>1, <2>2, Zenon DEF LowerMasterKey
  <1>. DEFINE T == {i \in Nat : i <= index => all[i] = MasterKey(unit, i)}
  <1>8. 0 \in T
    BY <1>7
  <1>9. ASSUME NEW i \in Nat, i \in T PROVE i + 1 \in T
    <2>. SUFFICES ASSUME i + 1 <= index PROVE all[i + 1] = MasterKey(unit, i + 1)
      OBVIOUS
    <2>1. all[i] = LowerMasterKey(unit, i + 1, all[i + 1])
      <3>1. i + 1 \in index - index + 1 .. index /\ (i + 1) - 1 = i
        BY <1>2
      <3>. QED  BY <1>5, <3>1 DEF Lowered
    <2>2. all[i] = MasterKey(unit, i)
      BY <1>2, <1>9
    <2>. QED  BY <2>1, <2>2, KeysDiffer DEF LowerMasterKey
  <1>10. Nat \subseteq T
    <2>. HIDE DEF T
    <2>. QED  BY <1>8, <1>9, Generations!SetInduction
  <1>11. \A i \in 0 .. index : all[i] = MasterKey(unit, i)
    BY <1>2, <1>10
  <1>12. Blank([keys EXCEPT !.master_keys = all])
    BY <1>5 DEF Blank, Lowered, KeysetFields, NotLoaded
  <1>13. [keys EXCEPT !.master_keys = all].master_keys = all
    BY DEF Blank, KeysetFields, NotLoaded
  <1>14. \A i \in KeyIndexes : i > index => all[i] = keys.master_keys[i]
    <2>1. \A i \in KeyIndexes : i >= index => all[i] = keys.master_keys[i]
      BY <1>5, Zenon DEF Lowered
    <2>. QED  BY <1>2, <2>1 DEF KeyIndexes
  <1>15. LowerKeys(unit, keys, index).keys = [keys EXCEPT !.master_keys = all]
    BY <1>6
  <1>. QED  BY <1>11, <1>12, <1>13, <1>14, <1>15, Zenon

\* What KeysAreTrue says of the master keys.
Newest(unit) == IF LowMasterKeyRequirement(unit) THEN HosKeyGeneration(unit) ELSE CurrentIndex
MastersAreTrue(unit, m) ==
  /\ \A i \in 0 .. Newest(unit) : m[i] = MasterKey(unit, i)
  /\ \A i \in Newest(unit) + 1 .. CurrentIndex : m[i] \in {Empty, MasterKey(unit, i)}

LEMMA CurrentIsIndex == CurrentIndex \in KeyIndexes /\ CurrentIndex \in Nat
  BY GenerationsAssumption DEF CurrentIndex, KeyIndexes

\* A lowering that begins at the newest master key in use or above it is all it
\* takes, when what lies between is empty.
LEMMA LoweredMastersAreTrue ==
  ASSUME NEW name \in DOMAIN Consoles, NEW keys, Blank(keys), NEW index \in 0 .. CurrentIndex,
         index >= Newest(Consoles[name].unit),
         \A i \in index + 1 .. CurrentIndex : keys.master_keys[i] = Empty,
         LowerKeys(Consoles[name].unit, keys, index).ok
  PROVE  LET lower == LowerKeys(Consoles[name].unit, keys, index).keys
         IN  Blank(lower) /\ MastersAreTrue(Consoles[name].unit, lower.master_keys)
  <1>. DEFINE unit == Consoles[name].unit
              lower == LowerKeys(unit, keys, index).keys
  <1>1. HosKeyGeneration(unit) \in Nat
    BY WantedAreIndexes
  <1>. HIDE DEF unit
  <1>2. index \in KeyIndexes /\ index \in Nat
    BY CurrentIsIndex, GenerationsAssumption DEF KeyIndexes
  <1>3. /\ Blank(lower)
        /\ \A i \in 0 .. index : lower.master_keys[i] = MasterKey(unit, i)
        /\ \A i \in KeyIndexes : i > index => lower.master_keys[i] = keys.master_keys[i]
    <2>1. LowerKeys(unit, keys, index).ok
      BY DEF unit
    <2>. QED  BY <1>2, <2>1, LoweredKeysAreTrue
  <1>. HIDE DEF lower
  <1>4. Newest(unit) \in Nat /\ Newest(unit) <= index
    BY <1>1, CurrentIsIndex DEF Newest, unit
  <1>5. \A i \in 0 .. Newest(unit) : lower.master_keys[i] = MasterKey(unit, i)
    BY <1>2, <1>3, <1>4
  <1>6. ASSUME NEW i \in Newest(unit) + 1 .. CurrentIndex
        PROVE  lower.master_keys[i] \in {Empty, MasterKey(unit, i)}
    <2>0. i \in Nat /\ i \in KeyIndexes /\ i <= CurrentIndex
      BY <1>4, CurrentIsIndex, GenerationsAssumption DEF KeyIndexes
    <2>1. CASE i <= index
      BY <1>2, <1>3, <2>0, <2>1
    <2>2. CASE i > index
      <3>1. i \in index + 1 .. CurrentIndex
        BY <1>2, <2>0, <2>2, CurrentIsIndex
      <3>. QED  BY <1>3, <2>0, <2>2, <3>1
    <2>. QED  BY <1>2, <2>0, <2>1, <2>2
  <1>. QED  BY <1>3, <1>5, <1>6 DEF MastersAreTrue, lower, unit

\* The largest number of a set that has one below a bound.
LEMMA LargestExists ==
  ASSUME NEW low \in Nat, NEW high \in Nat, NEW S, S \subseteq low .. high, S # {}
  PROVE  \E i \in S : \A j \in S : j <= i
  <1>. DEFINE T == {high - i : i \in S}
  <1>1. T \subseteq Nat /\ T # {}
    OBVIOUS
  <1>2. PICK t \in T : \A u \in T : t <= u
    <2>. HIDE DEF T
    <2>. QED  BY <1>1, Generations!Least
  <1>3. PICK i \in S : t = high - i
    OBVIOUS
  <1>4. \A j \in S : j <= i
    <2>. TAKE j \in S
    <2>1. t <= high - j
      BY <1>2
    <2>. QED  BY <1>3, <2>1
  <1>. QED  BY <1>4

\* Once the master keys of the console are derived, they are its own.
LEMMA DerivedMastersAreTrue ==
  ASSUME NEW name \in DOMAIN Consoles, NEW keys, Blank(keys),
         keysDeriveMasterKeys(Consoles[name].unit, keys).ok
  PROVE  LET r == keysDeriveMasterKeys(Consoles[name].unit, keys)
         IN  Blank(r.keys) /\ MastersAreTrue(Consoles[name].unit, r.keys.master_keys)
  <1>. DEFINE unit == Consoles[name].unit
              Hos == HosKeyGeneration(unit)
              r == keysDeriveMasterKeys(unit, keys)
              found == {i \in Hos .. CurrentIndex : ~keysIsKeyEmpty(keys.master_keys[i])}
              newest == CHOOSE i \in found : \A j \in found : j <= i
              derived == keysDeriveCurrentMasterKey(unit, keys)
  <1>1. Hos \in Nat
    BY WantedAreIndexes
  <1>2. CurrentIndex \in 0 .. CurrentIndex /\ CurrentIndex >= Newest(unit)
        /\ CurrentIndex + 1 .. CurrentIndex = {}
    BY <1>1, CurrentIsIndex DEF Newest, LowMasterKeyRequirement
  <1>3. ASSUME NEW ks, Blank(ks), r = LowerKeys(unit, ks, CurrentIndex)
        PROVE  Blank(r.keys) /\ MastersAreTrue(unit, r.keys.master_keys)
    BY <1>2, <1>3, LoweredMastersAreTrue
  <1>4. CASE OutdatedMasterKeyVectors(unit)
    <2>1. \/ r = [ok |-> FALSE, keys |-> keys]
          \/ r = LowerKeys(unit, keys, CurrentIndex)
      BY <1>4, Zenon DEF keysDeriveMasterKeys, OutdatedMasterKeyVectors
    <2>2. r # [ok |-> FALSE, keys |-> keys]
      OBVIOUS
    <2>. QED  BY <1>3, <2>1, <2>2
  <1>5. CASE LowMasterKeyRequirement(unit) /\ found # {}
    <2>1. r = LowerKeys(unit, keys, newest)
      BY <1>5, Zenon DEF keysDeriveMasterKeys, OutdatedMasterKeyVectors
    <2>2. newest \in found /\ \A j \in found : j <= newest
      <3>1. \E i \in found : \A j \in found : j <= i
        BY <1>1, <1>5, CurrentIsIndex, LargestExists
      <3>. HIDE DEF found
      <3>. QED  BY <3>1
    <2>3. Newest(unit) = Hos
      BY <1>5 DEF Newest
    <2>. HIDE DEF newest
    <2>4. newest \in 0 .. CurrentIndex /\ newest >= Newest(unit)
      BY <1>1, <2>2, <2>3, CurrentIsIndex
    <2>5. \A i \in newest + 1 .. CurrentIndex : keys.master_keys[i] = Empty
      <3>. TAKE i \in newest + 1 .. CurrentIndex
      <3>1. i \notin found
        BY <2>2, <2>4, CurrentIsIndex
      <3>2. i \in Hos .. CurrentIndex
        BY <1>1, <2>3, <2>4, CurrentIsIndex
      <3>. QED  BY <3>1, <3>2 DEF keysIsKeyEmpty
    <2>. QED  BY <2>1, <2>4, <2>5, LoweredMastersAreTrue
  <1>6. CASE LowMasterKeyRequirement(unit) /\ found = {} /\ Hos = 0
    <2>1. r = [ok |-> FALSE, keys |-> [keys EXCEPT !.undefined = TRUE]]
      BY <1>6, Zenon DEF keysDeriveMasterKeys, OutdatedMasterKeyVectors
    <2>. QED  BY <2>1
  <1>7. CASE /\ ~OutdatedMasterKeyVectors(unit)
             /\ ~(LowMasterKeyRequirement(unit) /\ found # {})
             /\ ~(LowMasterKeyRequirement(unit) /\ found = {} /\ Hos = 0)
    <2>1. r = IF derived.ok THEN LowerKeys(unit, derived.keys, CurrentIndex) ELSE derived
      BY <1>7, Zenon DEF keysDeriveMasterKeys
    <2>2. derived.ok
      BY <2>1
    <2>3. Blank(derived.keys)
      <3>1. \/ derived.keys = keys
            \/ \E v : derived.keys = [keys EXCEPT !.master_keys[CurrentIndex] = v]
        BY DEF keysDeriveCurrentMasterKey
      <3>2. \A v : Blank([keys EXCEPT !.master_keys[CurrentIndex] = v])
        BY CurrentIsIndex, BlankUpdates, Zenon
      <3>. HIDE DEF derived
      <3>. QED  BY <3>1, <3>2, Zenon
    <2>4. r = LowerKeys(unit, derived.keys, CurrentIndex)
      BY <2>1, <2>2, Zenon
    <2>. QED  BY <1>3, <2>3, <2>4, Zenon
  <1>. QED  BY <1>4, <1>5, <1>6, <1>7, Zenon

\* Nothing that goes wrong before the end loads a keyset.
LEMMA NotLoadedYet ==
  ASSUME NEW unit, NEW keys, Blank(keys)
  PROVE  ~keysDeriveMasterKeys(unit, keys).keys.loaded
  <1>. DEFINE r == keysDeriveMasterKeys(unit, keys)
              derived == keysDeriveCurrentMasterKey(unit, keys)
  <1>1. ASSUME NEW ks, NEW index, ~ks.loaded, DOMAIN ks = KeysetFields
        PROVE  ~LowerKeys(unit, ks, index).keys.loaded
    <2>1. \E all : LowerKeys(unit, ks, index).keys = [ks EXCEPT !.master_keys = all]
      BY DEF LowerKeys
    <2>. QED  BY <1>1, <2>1
  <1>2. ~keys.loaded /\ DOMAIN keys = KeysetFields
    BY DEF Blank
  <1>3. ~derived.keys.loaded /\ DOMAIN derived.keys = KeysetFields
    <2>1. \/ derived.keys = keys
          \/ \E v : derived.keys = [keys EXCEPT !.master_keys[CurrentIndex] = v]
      BY DEF keysDeriveCurrentMasterKey
    <2>2. \A v : Blank([keys EXCEPT !.master_keys[CurrentIndex] = v])
      BY CurrentIsIndex, BlankUpdates, Zenon
    <2>. HIDE DEF derived
    <2>3. Blank(derived.keys)
      BY <2>1, <2>2, Zenon
    <2>. QED  BY <2>3 DEF Blank
  <1>4. \/ r = [ok |-> FALSE, keys |-> keys]
        \/ \E index : r = LowerKeys(unit, keys, index)
        \/ r = [ok |-> FALSE, keys |-> [keys EXCEPT !.undefined = TRUE]]
        \/ r = derived
        \/ r = LowerKeys(unit, derived.keys, CurrentIndex)
    BY Zenon DEF keysDeriveMasterKeys, OutdatedMasterKeyVectors, derived
  <1>. HIDE DEF derived
  <1>. SUFFICES ~r.keys.loaded
    OBVIOUS
  <1>. HIDE DEF r
  <1>5. CASE r = [ok |-> FALSE, keys |-> keys]
    BY <1>2, <1>5
  <1>6. CASE \E index : r = LowerKeys(unit, keys, index)
    BY <1>1, <1>2, <1>6
  <1>7. CASE r = [ok |-> FALSE, keys |-> [keys EXCEPT !.undefined = TRUE]]
    <2>. DEFINE k == [keys EXCEPT !.undefined = TRUE]
    <2>1. ~k.loaded
      BY <1>2
    <2>2. r = [ok |-> FALSE, keys |-> k]
      BY <1>7
    <2>. HIDE DEF k
    <2>. QED  BY <2>1, <2>2
  <1>8. CASE r = derived
    BY <1>3, <1>8
  <1>9. CASE r = LowerKeys(unit, derived.keys, CurrentIndex)
    BY <1>1, <1>3, <1>9
  <1>. QED  BY <1>4, <1>5, <1>6, <1>7, <1>8, <1>9, Zenon

\* A keyset that was loaded, as KeysAreTrue has it.
TrueKeys(unit, keys) ==
  /\ MastersAreTrue(unit, keys.master_keys)
  /\ \A i \in KeyIndexes : (keys.nca_kaek[i] = Empty) = (keys.master_keys[i] = Empty)

LEMMA LoadedAreTrue ==
  ASSUME NEW name \in DOMAIN Consoles
  PROVE  LET c == Consoles[name]
             k == LoadedKeys(c.unit, c.file, NotLoaded)
         IN  k.loaded => TrueKeys(c.unit, k)
  <1>. DEFINE unit == Consoles[name].unit
              file == Consoles[name].file
              k == LoadedKeys(unit, file, NotLoaded)
              r == keysReadKeysFromFile(unit, file, NotLoaded)
              m == keysDeriveMasterKeys(unit, r.keys)
              h == keysDeriveNcaHeaderKey(m.keys)
              g == keysDerivePerGenerationKeys(h.keys)
              c == keysDeriveGcCardInfoKey(g)
              d == keysGetDecryptedEticketRsaDeviceKey(unit, c.keys)
              all == [d.keys EXCEPT !.loaded = c.ok /\ d.ok]
  <1>1. k = IF ~r.ok THEN r.keys ELSE IF ~m.ok THEN m.keys ELSE IF ~h.ok THEN h.keys ELSE all
    BY Zenon DEF LoadedKeys
  <1>2. Blank(r.keys)
    BY FileKeysAreBlank
  <1>3. ~m.keys.loaded
    <2>. HIDE DEF r
    <2>. QED  BY <1>2, NotLoadedYet
  <1>4. m.ok => Blank(m.keys) /\ MastersAreTrue(unit, m.keys.master_keys)
    <2>. HIDE DEF r
    <2>. QED  BY <1>2, DerivedMastersAreTrue
  <1>5. ~r.keys.loaded
    <2>. HIDE DEF r
    <2>. QED  BY <1>2 DEF Blank
  <1>6. m.ok => /\ ~h.keys.loaded /\ DOMAIN h.keys = KeysetFields
                /\ h.keys.master_keys = m.keys.master_keys /\ h.keys.nca_kaek = NoKeys
    <2>1. \E v : h.keys = [m.keys EXCEPT !.nca_header_key = v]
      BY DEF keysDeriveNcaHeaderKey
    <2>. HIDE DEF m, h
    <2>. QED  BY <1>4, <2>1 DEF Blank
  <1>7. m.ok => /\ DOMAIN g = KeysetFields /\ g.master_keys = m.keys.master_keys
                /\ g.nca_kaek = [i \in DOMAIN m.keys.master_keys |->
                                   IF m.keys.master_keys[i] = Empty THEN Empty
                                   ELSE keysLoadAesKeyFromAesKek(h.keys, "kaek", i + 1).kek]
    <2>. HIDE DEF m, h
    <2>1. m.ok => DOMAIN m.keys.master_keys = KeyIndexes
      BY <1>4 DEF Blank
    <2>2. m.ok => /\ DOMAIN g = KeysetFields /\ g.master_keys = h.keys.master_keys
                  /\ g.nca_kaek = [i \in DOMAIN h.keys.master_keys |->
                                     IF h.keys.master_keys[i] = Empty THEN h.keys.nca_kaek[i]
                                     ELSE keysLoadAesKeyFromAesKek(h.keys, "kaek", i + 1).kek]
      BY <1>6 DEF keysDerivePerGenerationKeys, keysIsKeyEmpty, KeysetFields, NotLoaded
    <2>. QED  BY <1>6, <2>1, <2>2 DEF NoKeys, KeyIndexes
  <1>8. m.ok => \A i \in KeyIndexes : (g.nca_kaek[i] = Empty) = (m.keys.master_keys[i] = Empty)
    <2>. HIDE DEF m, h, g
    <2>. SUFFICES ASSUME m.ok, NEW i \in KeyIndexes
                  PROVE  (g.nca_kaek[i] = Empty) = (m.keys.master_keys[i] = Empty)
      OBVIOUS
    <2>1. keysLoadAesKeyFromAesKek(h.keys, "kaek", i + 1).kek # Empty
      BY DEF keysLoadAesKeyFromAesKek, keysGenerateAesKek, Empty
    <2>2. i \in DOMAIN m.keys.master_keys
      BY <1>4 DEF Blank
    <2>. QED  BY <1>7, <2>1, <2>2
  <1>9. m.ok => /\ DOMAIN c.keys = KeysetFields /\ c.keys.master_keys = g.master_keys
                /\ c.keys.nca_kaek = g.nca_kaek
    <2>1. \E v : c.keys = [g EXCEPT !.gc_cardinfo_key = v]
      BY DEF keysDeriveGcCardInfoKey
    <2>. HIDE DEF m, g, c
    <2>. QED  BY <1>7, <2>1
  <1>10. m.ok => all.master_keys = g.master_keys /\ all.nca_kaek = g.nca_kaek
    <2>1. d.keys = c.keys \/ d.keys = [c.keys EXCEPT !.wiped = TRUE]
      BY DEF keysGetDecryptedEticketRsaDeviceKey
    <2>2. \E v : all = [d.keys EXCEPT !.loaded = v]
      BY Zenon
    <2>3. m.ok => DOMAIN d.keys = KeysetFields
                  /\ d.keys.master_keys = c.keys.master_keys /\ d.keys.nca_kaek = c.keys.nca_kaek
      <3>. HIDE DEF m, g, c, d
      <3>1. CASE d.keys = c.keys
        BY <1>9, <3>1
      <3>2. CASE d.keys = [c.keys EXCEPT !.wiped = TRUE]
        BY <1>9, <3>2 DEF KeysetFields, NotLoaded
      <3>. QED  BY <2>1, <3>1, <3>2
    <2>4. m.ok => all.master_keys = d.keys.master_keys /\ all.nca_kaek = d.keys.nca_kaek
      <3>. HIDE DEF m, d, all
      <3>. QED  BY <2>2, <2>3
    <2>. HIDE DEF m, g, c, d, all
    <2>. QED  BY <1>9, <2>3, <2>4
  <1>11. CASE ~r.ok
    <2>. HIDE DEF r, m, h, g, c, d, all, k
    <2>. QED  BY <1>1, <1>5, <1>11 DEF k
  <1>12. CASE r.ok /\ ~m.ok
    <2>. HIDE DEF r, m, h, g, c, d, all, k
    <2>. QED  BY <1>1, <1>3, <1>12 DEF k
  <1>13. CASE r.ok /\ m.ok
    <2>. HIDE DEF r, m, h, g, c, d, all, k
    <2>1. k.loaded => k = all
      BY <1>1, <1>6, <1>13
    <2>2. k.loaded => TrueKeys(unit, k)
      BY <1>4, <1>7, <1>8, <1>10, <1>13, <2>1 DEF TrueKeys
    <2>. QED  BY <2>2 DEF k
  <1>. QED  BY <1>11, <1>12, <1>13

----------------------------------------------------------------------------
(* The machine loads the keys once, before anything else. *)

KeysInv ==
  /\ console \in DOMAIN Consoles
  /\ mPc = "keys" => keyset = NotLoaded
  /\ keyset.loaded => TrueKeys(Consoles[console].unit, keyset)

LEMMA KeysStep ==
  ASSUME KeysInv, [NspNext]_nspvars
  PROVE  KeysInv'
  <1>1. CASE LoadKeys
    <2>1. keyset = NotLoaded /\ keyset' = LoadedKeys(Consoles[console].unit, Consoles[console].file, NotLoaded)
      BY <1>1 DEF KeysInv, LoadKeys, keysLoadKeyset
    <2>2. keyset'.loaded => TrueKeys(Consoles[console].unit, keyset')
      BY <2>1, LoadedAreTrue DEF KeysInv
    <2>3. console' = console /\ mPc' # "keys"
      BY <1>1 DEF LoadKeys
    <2>. QED  BY <2>2, <2>3 DEF KeysInv, TrueKeys
  <1>2. CASE UNCHANGED <<keyset, console>> /\ (mPc' = "keys" => mPc = "keys")
    BY <1>2 DEF KeysInv, TrueKeys
  <1>3. CASE Thread
    BY <1>2, <1>3 DEF Thread, Prepare, GiveUp, BeginContent, Block, ExtraEntry, Header, End, menu
  <1>4. CASE Dumps \/ Begins \/ Cancel \/ Ends \/ Join
    BY <1>2, <1>4 DEF Dumps, StartDump, Begins, Cancel, Ends, Join
  <1>5. CASE Saves
    BY <1>2, <1>5 DEF Saves, saveTicket
  <1>6. CASE UNCHANGED nspvars
    BY <1>2, <1>6 DEF nspvars, menu
  <1>. QED  BY <1>1, <1>3, <1>4, <1>5, <1>6 DEF NspNext, Menu

\* A keyset that is handed out is right: every master key that the vectors can
\* check is the console's own, whatever was in the keys file
\* (keysReadKeysFromFile, keysDeriveMasterKeys, keysDerivePerGenerationKeys).
THEOREM KeysAreAlwaysTrue == NspSpec => []KeysAreTrue
  <1>1. NspInit => KeysInv
    BY DEF NspInit, KeysInv, NotLoaded
  <1>2. KeysInv /\ [NspNext]_nspvars => KeysInv'
    BY KeysStep
  <1>3. KeysInv => KeysAreTrue
    BY DEF KeysInv, TrueKeys, MastersAreTrue, Newest, KeysAreTrue, KeyIndexes
  <1>. QED  BY <1>1, <1>2, <1>3, PTL DEF NspSpec

(***************************************************************************)
(* The outcome.                                                            *)
(***************************************************************************)

\* A ticket that was retrieved is one.
LEMMA RetrievedIsTicket ==
  ASSUME NEW env, NEW id, NEW generation, NEW card,
         tikRetrieveTicketByRightsId(env, NoTicket, id, generation, card).ok
  PROVE  tikRetrieveTicketByRightsId(env, NoTicket, id, generation, card).t.type # "None"
  <1>. DEFINE r == IF card THEN tikRetrieveTicketFromGameCardByRightsId(env, id)
                   ELSE tikRetrieveTicketFromEsSaveDataByRightsId(env, id)
              info == tikGetTicketTypeAndSize(r.data, SIGNED_TIK_MAX_SIZE)
              first == [NoTicket EXCEPT !.type = info.type, !.size = info.size, !.data = r.data,
                                        !.key_generation = generation]
              tik == tikFixTamperedCommonTicket(env, first)
              enc == tikGetEncryptedTitleKey(tik.data)
              dec == tikGetDecryptedTitleKey(enc.key, generation)
              told == tikRetrieveTicketByRightsId(env, NoTicket, id, generation, card)
  <1>1. ~tikIsValidTicket(NoTicket)
    BY DEF tikIsValidTicket, NoTicket
  <1>2. told = IF id[2] # (IF generation < Since301NUP THEN 0 ELSE generation) \/ ~r.ok
               THEN [ok |-> FALSE, t |-> NoTicket]
               ELSE IF ~enc.ok THEN [ok |-> FALSE, t |-> tik]
               ELSE [ok |-> dec.ok,
                     t |-> [tik EXCEPT !.enc_titlekey = enc.key, !.dec_titlekey = dec.key]]
    BY <1>1, Zenon DEF tikRetrieveTicketByRightsId
  <1>3. info.type # "None"
    BY DEF tikGetTicketTypeAndSize
  <1>4. first.type = info.type /\ DOMAIN first = DOMAIN NoTicket
    <2>. HIDE DEF info, r
    <2>. QED  BY DEF NoTicket
  <1>5. tik.type = info.type /\ DOMAIN tik = DOMAIN NoTicket
    <2>. HIDE DEF first, info
    <2>. QED  BY <1>4 DEF tikFixTamperedCommonTicket, NoTicket
  <1>6. [tik EXCEPT !.enc_titlekey = enc.key, !.dec_titlekey = dec.key].type = tik.type
    <2>. HIDE DEF tik, enc, dec
    <2>. QED  BY <1>5 DEF NoTicket
  <1>7. told.ok => told.t = [tik EXCEPT !.enc_titlekey = enc.key, !.dec_titlekey = dec.key]
    <2>. HIDE DEF tik, enc, dec, r
    <2>. QED  BY <1>2
  <1>. QED  BY <1>3, <1>5, <1>6, <1>7


\* Making it common keeps it one.
LEMMA ConvertedIsTicket ==
  ASSUME NEW env, NEW t, tikConvertPersonalizedTicketToCommonTicket(env, t).ok
  PROVE  tikConvertPersonalizedTicketToCommonTicket(env, t).t # NoTicket
  <1>. DEFINE r == tikConvertPersonalizedTicketToCommonTicket(env, t)
  <1>1. t.type # "None"
    BY DEF tikConvertPersonalizedTicketToCommonTicket, tikIsPersonalizedTicket, tikIsValidTicket
  <1>2. r.t.type = t.type \/ r.t # NoTicket
    BY DEF tikConvertPersonalizedTicketToCommonTicket, NoTicket
  <1>. QED  BY <1>1, <1>2 DEF NoTicket

\* The title key of an NCA comes with its ticket.
LEMMA TicketOfNca ==
  ASSUME NEW title, NEW c, InitializedNca(title, c, NoTicket).n.titlekey_retrieved
  PROVE  InitializedNca(title, c, NoTicket).tik # NoTicket
  <1>. DEFINE i == InitializedNca(title, c, NoTicket)
              r == IF c.header[2] # NoRightsId
                   THEN tikRetrieveTicketByRightsId(Env, NoTicket, c.header[2], c.key_generation,
                                                    title.card)
                   ELSE [ok |-> FALSE, t |-> NoTicket]
  <1>1. i.tik = r.t /\ i.n.titlekey_retrieved = r.ok
    BY DEF InitializedNca
  <1>. HIDE DEF i
  <1>2. c.header[2] # NoRightsId /\ r.ok
    BY <1>1 DEF i
  <1>. QED  BY <1>1, <1>2, RetrievedIsTicket DEF NoTicket, i

\* What saveTicket says it saved is a ticket.
LEMMA SavedIsTicket ==
  ASSUME NEW name, NEW remove, saveTicket(name, remove), DOMAIN result = {"told", "ticket"}
  PROVE  /\ mPc = "idle" /\ mPc' = "told" /\ UNCHANGED <<threadvars, cancelled>>
         /\ \/ result' = [result EXCEPT !.told = "error"]
            \/ result'.told = "success" /\ result'.ticket # NoTicket
               /\ DOMAIN result' = {"told", "ticket"}
  <1>. DEFINE title == Titles[name]
              taken(i) == IF remove /\ tikIsPersonalizedTicket(i.tik)
                          THEN tikConvertPersonalizedTicketToCommonTicket(Env, i.tik)
                          ELSE [ok |-> TRUE, t |-> i.tik]
  <1>1. mPc = "idle" /\ mPc' = "told" /\ UNCHANGED <<threadvars, cancelled>>
    BY DEF saveTicket
  <1>2. ASSUME result' # [result EXCEPT !.told = "error"]
        PROVE  \E c : LET i == InitializedNca(title, c, NoTicket)
                      IN  /\ i.n.titlekey_retrieved /\ taken(i).ok
                          /\ result' = [told |-> "success", ticket |-> taken(i).t]
    BY <1>2, Zenon DEF saveTicket
  <1>3. ASSUME NEW c, InitializedNca(title, c, NoTicket).n.titlekey_retrieved
        PROVE  InitializedNca(title, c, NoTicket).tik # NoTicket
    BY <1>3, TicketOfNca
  <1>4. ASSUME NEW i, i.tik # NoTicket, taken(i).ok PROVE taken(i).t # NoTicket
    BY <1>4, ConvertedIsTicket
  <1>. QED
    <2>1. CASE result' # [result EXCEPT !.told = "error"]
      <3>1. PICK c : LET i == InitializedNca(title, c, NoTicket)
                     IN  /\ i.n.titlekey_retrieved /\ taken(i).ok
                         /\ result' = [told |-> "success", ticket |-> taken(i).t]
        BY <1>2, <2>1
      <3>2. taken(InitializedNca(title, c, NoTicket)).t # NoTicket
        BY <1>3, <1>4, <3>1, Zenon
      <3>. HIDE DEF taken
      <3>. QED  BY <1>1, <3>1, <3>2
    <2>. QED  BY <1>1, <2>1

\* Where the dump is and where its output is: who waits for whom, when the output
\* is open, and that a dump that is over either is whole, failed or was cancelled.
Stages ==
  /\ pc \in {"prepare", "content", "block", "extra", "end", "done"}
  /\ mPc \in {"keys", "idle", "gone", "preparing", "dumping", "joining", "told"}
  /\ DOMAIN out = DOMAIN Nowhere /\ DOMAIN result = {"told", "ticket"}
  /\ error \in BOOLEAN /\ cancelled \in BOOLEAN

Unstarted == pc = "done" /\ ~error /\ ~cancelled /\ out = Nowhere

OutcomeInv ==
  /\ Stages
  /\ mPc \in {"keys", "idle", "gone"} => Unstarted
  /\ pc # "done" => mPc \in {"preparing", "dumping", "joining"}
  /\ pc # "done" => ~error
  /\ pc = "prepare" => out = Nowhere
  /\ pc \in {"content", "block", "extra"} => out.state = "open" /\ out.size = total
  /\ IsWhole => pc \in {"end", "done"} /\ out.size = total /\ ~error
  /\ pc = "done" => out.state # "open"
  /\ out.state = "gone" => pc = "done" /\ (error \/ cancelled)
  /\ mPc \in {"preparing", "dumping", "joining"} /\ pc = "done" => error \/ cancelled \/ IsWhole
  /\ result.told # "nothing" => mPc = "told"
  /\ result.told = "success" => IsWhole \/ result.ticket # NoTicket
  /\ result.told = "cancelled" => cancelled
  /\ result.told = "error" => ~IsWhole

LEMMA PrepareKeeps ==
  ASSUME OutcomeInv, Prepare
  PROVE  OutcomeInv'
  <1>1. CASE GiveUp
    BY <1>1 DEF Prepare, GiveUp, OutcomeInv, Stages, Unstarted, IsWhole, Nowhere, menu, shared
  <1>2. CASE /\ UNCHANGED <<menu, error, cancelled>>
             /\ \E size : \/ pc' = "content" /\ total' = size
                             /\ out' = [Nowhere EXCEPT !.state = "open", !.size = size]
                          \/ pc' = "end" /\ total' = total
                             /\ \E state \in {"stray", "none"} : out' = [Nowhere EXCEPT !.state = state]
    BY <1>2 DEF Prepare, OutcomeInv, Stages, Unstarted, IsWhole, Nowhere, menu
  <1>. QED  BY <1>1, <1>2 DEF Prepare

LEMMA ThreadKeeps ==
  ASSUME OutcomeInv, Thread
  PROVE  OutcomeInv'
  <1>1. CASE GiveUp /\ pc \in {"content", "block", "extra"}
    BY <1>1 DEF GiveUp, OutcomeInv, Stages, Unstarted, IsWhole, menu, shared
  <1>2. CASE /\ pc \in {"content", "block", "extra"} /\ pc' \in {"content", "block", "extra", "end"}
             /\ UNCHANGED <<menu, total, error, cancelled>>
             /\ out'.state = out.state /\ out'.size = out.size /\ DOMAIN out' = DOMAIN out
    BY <1>2 DEF OutcomeInv, Stages, Unstarted, IsWhole, menu
  <1>3. CASE BeginContent
    BY <1>1, <1>2, <1>3 DEF BeginContent, OutcomeInv, Stages, Nowhere, shared
  <1>4. CASE Block
    BY <1>1, <1>2, <1>4 DEF Block, OutcomeInv, Stages, Nowhere
  <1>5. CASE ExtraEntry
    BY <1>1, <1>2, <1>5 DEF ExtraEntry, OutcomeInv, Stages, Nowhere
  <1>6. CASE Header
    <2>1. CASE GiveUp
      BY <1>1, <1>6, <2>1 DEF Header
    <2>2. CASE /\ out' = [out EXCEPT !.state = "whole", !.header = out'.header]
               /\ pc' = "end" /\ UNCHANGED <<menu, total, error, cancelled>>
      BY <1>6, <2>2 DEF Header, OutcomeInv, Stages, Unstarted, IsWhole, Nowhere, menu
    <2>. QED  BY <1>6, <2>1, <2>2 DEF Header
  <1>7. CASE End
    BY <1>7 DEF End, OutcomeInv, Stages, Unstarted, IsWhole, Nowhere, menu
  <1>. QED  BY <1>3, <1>4, <1>5, <1>6, <1>7, PrepareKeeps DEF Thread

LEMMA MenuKeeps ==
  ASSUME OutcomeInv, Menu
  PROVE  OutcomeInv'
  <1>1. CASE LoadKeys
    BY <1>1 DEF LoadKeys, threadvars, OutcomeInv, Stages, Unstarted, IsWhole
  <1>2. CASE Dumps
    BY <1>2 DEF Dumps, StartDump, shared, OutcomeInv, Stages, Unstarted, IsWhole,
       Nowhere
  <1>3. CASE Begins \/ Ends
    BY <1>3 DEF Begins, Ends, threadvars, OutcomeInv, Stages, Unstarted, IsWhole
  <1>4. CASE Cancel
    BY <1>4 DEF Cancel, threadvars, OutcomeInv, Stages, Unstarted, IsWhole
  <1>5. CASE Join
    BY <1>5 DEF Join, threadvars, OutcomeInv, Stages, Unstarted, IsWhole
  <1>6. CASE Saves
    <2>1. PICK name, remove : saveTicket(name, remove)
      BY <1>6 DEF Saves
    <2>2. /\ mPc = "idle" /\ mPc' = "told" /\ UNCHANGED <<threadvars, cancelled>>
          /\ \/ result' = [result EXCEPT !.told = "error"]
             \/ result'.told = "success" /\ result'.ticket # NoTicket
                /\ DOMAIN result' = {"told", "ticket"}
      BY <2>1, SavedIsTicket DEF OutcomeInv, Stages
    <2>. QED  BY <2>2 DEF threadvars, OutcomeInv, Stages, Unstarted, IsWhole, Nowhere
  <1>. QED  BY <1>1, <1>2, <1>3, <1>4, <1>5, <1>6 DEF Menu

\* Wherever a dump fails and whenever it is cancelled, what is given up is removed
\* and what the user is told is true (nspThreadFunc, the wait loops of
\* saveNintendoSubmissionPackage, saveTicket).
THEOREM OutcomeIsAlwaysTrue == NspSpec => []OutcomeIsTrue
  <1>1. NspInit => OutcomeInv
    <2>. SUFFICES ASSUME NspInit PROVE OutcomeInv
      OBVIOUS
    <2>1. /\ pc = "done" /\ mPc = "keys" /\ out = Nowhere /\ error = FALSE /\ cancelled = FALSE
          /\ result = [told |-> "nothing", ticket |-> NoTicket]
      BY DEF NspInit
    <2>. QED  BY <2>1 DEF OutcomeInv, Stages, Unstarted, IsWhole, Nowhere
  <1>2. OutcomeInv /\ [NspNext]_nspvars => OutcomeInv'
    <2>. SUFFICES ASSUME OutcomeInv, [NspNext]_nspvars PROVE OutcomeInv'
      OBVIOUS
    <2>1. CASE UNCHANGED nspvars
      BY <2>1 DEF nspvars, menu, shared, OutcomeInv, Stages, Unstarted, IsWhole
    <2>. QED  BY <2>1, MenuKeeps, ThreadKeeps DEF NspNext
  <1>3. OutcomeInv => OutcomeIsTrue
    BY DEF OutcomeInv, Stages, OutcomeIsTrue, IsWhole
  <1>. QED  BY <1>1, <1>2, <1>3, PTL DEF NspSpec
=============================================================================
