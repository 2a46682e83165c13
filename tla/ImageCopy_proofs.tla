-------------------------- MODULE ImageCopy_proofs --------------------------
(***************************************************************************)
(* For every size of the pages, the buffer, the areas, the part files and  *)
(* the blocks: a read of the image that returns gives the bytes the caller *)
(* asked for, a file that is kept is whole, and the one is the other's.    *)
(***************************************************************************)
EXTENDS ImageCopy, SequenceTheorems, TLAPS

\* What has been read so far is right, and what is left is accounted for.
Progress ==
    at = "read" =>
        /\ first <= offset /\ offset + left + rest = first + size /\ left > 0
        /\ rest # 0 => offset < normal /\ offset + left = normal
        /\ \A i \in 0..offset - first - 1 : out[i] = first + i

\* The sizes are those of the areas: what FS says is too much is corrected.
Loaded == at # "off" => normal = NormalSize /\ secure = SecureSize

ReadInv == TypeOK /\ Progress /\ ReadIsExact /\ Loaded /\ ReadSucceeds

LEMMA ReadTypes ==
    ASSUME TypeOK
    PROVE  /\ normal \in Nat /\ secure \in Nat /\ total \in Nat /\ first \in Nat /\ size \in Nat
           /\ offset \in Nat /\ left \in Nat /\ rest \in Nat
  BY ReadAssumption DEF TypeOK

\* Rounding to pages never goes the wrong way: the pages around the data of
\* gamecardReadStorageArea contain it.
LEMMA AlignBounds ==
    ASSUME NEW x \in Nat
    PROVE  /\ AlignDown(x) \in Nat /\ AlignDown(x) <= x /\ x - AlignDown(x) < Page
           /\ AlignUp(x) \in Nat /\ x <= AlignUp(x)
<1>1. Page \in Nat \ {0} BY ReadAssumption
<1>2. \A y \in Nat : y % Page \in 0..Page - 1 /\ y % Page <= y
  <2>1. SUFFICES ASSUME NEW y \in Nat PROVE y % Page \in 0..Page - 1 /\ y % Page <= y OBVIOUS
  <2>2. y % Page \in 0..Page - 1 BY <1>1
  <2>3. y % Page <= y BY <1>1, <2>2
  <2> QED BY <2>2, <2>3
<1>3. \A y \in Nat : AlignDown(y) \in Nat /\ AlignDown(y) <= y /\ y - AlignDown(y) < Page
  BY <1>1, <1>2 DEF AlignDown
<1>4. x + Page - 1 \in Nat BY <1>1
<1> QED BY <1>1, <1>3, <1>4 DEF AlignUp

\* The block that gamecardReadStorageArea reads into its buffer holds every
\* byte that it copies to the caller.
LEMMA ChunkHoldsData ==
    ASSUME TypeOK
    PROVE  /\ AreaStart + Base = offset /\ Base \in Nat
           /\ AreaStart + BlockStart + DataStart = offset /\ DataStart \in Nat
           /\ OutChunkSize \in Nat /\ ChunkSize \in Nat /\ DataStart + OutChunkSize <= ChunkSize
           /\ DataStart < Page
<1>1. normal \in Nat /\ offset \in Nat /\ left \in Nat BY ReadAssumption DEF TypeOK
<1>2. /\ AreaStart \in Nat /\ Base \in Nat /\ AreaStart + Base = offset
  BY <1>1 DEF AreaStart, Base
<1>3. /\ BlockStart \in Nat /\ BlockStart <= Base /\ Base - BlockStart < Page
  BY <1>2, AlignBounds DEF BlockStart
<1>4. Base + left \in Nat /\ AlignUp(Base + left) \in Nat /\ Base + left <= AlignUp(Base + left)
  BY <1>1, <1>2, AlignBounds
<1>5. Buffer \in Nat /\ Page \in Nat /\ Page <= Buffer BY ReadAssumption
<1>6. DataStart \in Nat /\ DataStart < Page /\ BlockStart + DataStart = Base
  BY <1>2, <1>3, <1>5 DEF DataStart
<1>7. BlockSize \in Nat /\ DataStart + left <= BlockSize
  BY <1>1, <1>2, <1>3, <1>4, <1>6 DEF BlockSize
<1>8. OutChunkSize \in Nat /\ ChunkSize \in Nat /\ DataStart + OutChunkSize <= ChunkSize
  BY <1>1, <1>5, <1>6, <1>7 DEF OutChunkSize, ChunkSize, InOneGo
<1> QED BY <1>2, <1>3, <1>6, <1>8

\* A part of n bytes that was copied from the right place keeps the invariant,
\* and so does what gamecardReadStorageArea does next.
LEMMA PartKeepsInv ==
    ASSUME ReadInv, at = "read", ~Spans, NEW n \in Nat, n > 0, Continue(n),
           out' \in [0..size - 1 -> {Stale} \cup Nat],
           \A i \in 0..size - 1 :
              out'[i] = IF i \in offset - first .. offset - first + n - 1
                        THEN first + i ELSE out[i]
    PROVE  ReadInv'
<1> USE DEF ReadInv, TypeOK, Progress, ReadIsExact, Loaded, ReadSucceeds
<1>1. /\ normal \in Nat /\ first \in Nat /\ size \in Nat /\ offset \in Nat /\ left \in Nat /\ rest \in Nat
  BY ReadAssumption
<1>2. UNCHANGED <<normal, secure, total, first, size>> BY DEF Continue, sizes, call
<1>3. \A i \in 0..offset - first - 1 : i \in 0..size - 1 /\ out[i] = first + i BY <1>1
<1>4. \A i \in 0..size - 1 : i < offset - first + n => out'[i] = first + i
  BY <1>1, <1>3
<1>5. CASE n < left
  <2>1. offset' = offset + n /\ left' = left - n /\ UNCHANGED <<at, rest>> BY <1>5 DEF Continue
  <2>2. TypeOK' BY <1>1, <1>2, <1>5, <2>1
  <2>3. Progress'
    <3>1. first <= offset' /\ offset' + left' + rest' = first + size /\ left' > 0 BY <1>1, <1>5, <2>1
    <3>2. rest' # 0 => offset' < normal /\ offset' + left' = normal BY <1>1, <1>5, <2>1
    <3>3. \A i \in 0..offset' - first - 1 : out'[i] = first + i BY <1>1, <1>4, <1>5, <2>1
    <3> QED BY <1>2, <3>1, <3>2, <3>3
  <2> QED BY <1>2, <2>1, <2>2, <2>3
<1>6. CASE ~(n < left) /\ rest # 0
  <2>1. offset' = normal /\ left' = rest /\ rest' = 0 /\ UNCHANGED at BY <1>6 DEF Continue
  <2>2. TypeOK' BY <1>1, <1>2, <2>1
  <2>3. Progress'
    <3>1. first <= offset' /\ offset' + left' + rest' = first + size /\ left' > 0 BY <1>1, <1>6, <2>1, SMTT(30)
    <3>3. \A i \in 0..offset' - first - 1 : out'[i] = first + i BY <1>1, <1>4, <1>6, <2>1
    <3> QED BY <1>2, <2>1, <3>1, <3>3
  <2> QED BY <1>2, <2>1, <2>2, <2>3
<1>7. CASE ~(n < left) /\ rest = 0
  <2>1. at' = "done" /\ UNCHANGED <<offset, left, rest>> BY <1>7 DEF Continue
  <2>2. TypeOK' BY <1>1, <1>2, <2>1
  <2>3. \A i \in 0..size - 1 : out'[i] = first + i BY <1>1, <1>4, <1>7
  <2> QED BY <1>2, <2>1, <2>2, <2>3
<1> QED BY <1>5, <1>6, <1>7

\* A size in whole pages, and what is left over.
LEMMA Pages ==
    ASSUME NEW y \in Nat
    PROVE  y = Page * (y \div Page) + (y % Page) /\ y \div Page \in Nat /\ y % Page \in 0..Page - 1
<1> DEFINE q == y \div Page
           r == y % Page
<1>1. Page \in Nat \ {0} BY ReadAssumption
<1>2. y = Page * q + r /\ q \in Nat /\ r \in 0..Page - 1 BY <1>1
<1> QED BY <1>2

\* Rounding to whole pages stays below every end that is on a page.
LEMMA AlignBelow ==
    ASSUME NEW x \in Nat, NEW end \in Nat, end % Page = 0, x <= end
    PROVE  AlignUp(x) <= end
<1> DEFINE y == x + Page - 1
           q == y \div Page
           e == end \div Page
<1>1. Page \in Nat \ {0} /\ y \in Nat BY ReadAssumption
<1>2. y = Page * q + (y % Page) /\ q \in Nat /\ y % Page \in Nat BY <1>1, Pages
<1>3. end = Page * e /\ e \in Nat BY <1>1
<1>4. AlignUp(x) = Page * q BY <1>1, <1>2 DEF AlignUp, AlignDown
<1>5. q <= e
  <2>1. SUFFICES ASSUME q >= e + 1 PROVE FALSE BY <1>2, <1>3
  <2>2. Page * q >= Page * (e + 1) BY <1>1, <1>2, <1>3, <2>1
  <2>3. Page * (e + 1) = Page * e + Page BY <1>1, <1>3
  <2> QED BY <1>1, <1>2, <1>3, <2>2, <2>3
<1>6. Page * q <= Page * e BY <1>1, <1>2, <1>3, <1>5
<1> QED BY <1>3, <1>4, <1>6

LEMMA MultipleIsOnPage == ASSUME NEW k \in Nat PROVE (Page * k) % Page = 0
<1> DEFINE y == Page * k
           q == y \div Page
           r == y % Page
<1>1. Page \in Nat \ {0} /\ y \in Nat BY ReadAssumption
<1>2. y = Page * q + r /\ q \in Nat /\ r \in 0..Page - 1 BY <1>1
<1>3. ~(k > q)
  <2>1. SUFFICES ASSUME k >= q + 1 PROVE FALSE BY <1>2
  <2>2. Page * k >= Page * (q + 1) BY <1>1, <1>2, <2>1
  <2>3. Page * (q + 1) = Page * q + Page BY <1>1, <1>2
  <2> QED BY <1>1, <1>2, <2>2, <2>3
<1>4. ~(k < q)
  <2>1. SUFFICES ASSUME q >= k + 1 PROVE FALSE BY <1>2
  <2>2. Page * q >= Page * (k + 1) BY <1>1, <1>2, <2>1
  <2>3. Page * (k + 1) = Page * k + Page BY <1>1
  <2> QED BY <1>1, <1>2, <2>2, <2>3
<1>5. k = q BY <1>2, <1>3, <1>4
<1> QED BY <1>1, <1>2, <1>5

\* The sum of two ends on a page is one.
LEMMA SumOfPages ==
    ASSUME NEW a \in Nat, NEW b \in Nat, a % Page = 0, b % Page = 0
    PROVE  (a + b) % Page = 0
<1> DEFINE m == a \div Page
           n == b \div Page
<1>1. Page \in Nat \ {0} BY ReadAssumption
<1>2. a = Page * m /\ b = Page * n /\ m \in Nat /\ n \in Nat BY <1>1
<1>3. a + b = Page * (m + n) /\ m + n \in Nat BY <1>1, <1>2
<1> QED BY <1>3, MultipleIsOnPage

\* A read fails only if it goes beyond the end of the secure area.
LEMMA ReadWithinSucceeds == ASSUME ReadInv, ReadFails PROVE first + size > normal + secure
<1> DEFINE end == Base + left
<1>1. /\ at = "read" /\ ~Spans /\ normal = NormalSize /\ secure = SecureSize /\ left > 0
      /\ offset + left + rest = first + size /\ (rest # 0 => offset < normal)
  BY DEF ReadFails, ReadInv, Progress, Loaded
<1>2. /\ normal \in Nat /\ secure \in Nat /\ first \in Nat /\ size \in Nat /\ offset \in Nat
      /\ left \in Nat /\ rest \in Nat
  BY ReadTypes DEF ReadInv
<1>3. Base \in Nat /\ AreaStart + Base = offset /\ DataStart \in Nat BY ChunkHoldsData DEF ReadInv
<1>4. AreaSize \in Nat /\ AreaSize % Page = 0 BY ReadAssumption DEF AreaSize
<1>5. SUFFICES ASSUME first + size <= normal + secure PROVE FALSE BY <1>2
<1>6. end \in Nat /\ end <= AreaSize
  <2>1. CASE offset < normal BY <1>1, <1>2, <1>3, <2>1 DEF Spans, AreaStart, AreaSize
  <2>2. CASE ~(offset < normal)
    <3>1. offset + left <= normal + secure BY <1>1, <1>2, <1>5
    <3> QED BY <1>1, <1>2, <1>3, <2>2, <3>1 DEF AreaStart, AreaSize
  <2> QED BY <2>1, <2>2
<1>7. AlignUp(end) <= AreaSize BY <1>4, <1>6, AlignBelow
<1>8. /\ BlockStart \in Nat /\ BlockStart <= Base /\ AlignUp(end) \in Nat /\ Buffer \in Nat
  BY <1>3, <1>6, AlignBounds, ReadAssumption DEF BlockStart
<1>9. BlockSize = AlignUp(end) - BlockStart BY DEF BlockSize
<1>10. BlockStart + ChunkSize <= AreaSize
  BY <1>4, <1>7, <1>8, <1>9 DEF ChunkSize, InOneGo
<1>11. ~NothingLeft
  <2>1. SUFFICES ASSUME ~InOneGo, Buffer - DataStart >= left PROVE FALSE
    BY DEF NothingLeft, OutChunkSize
  <2>2. end <= BlockStart + Buffer BY <1>2, <1>3, <1>8, <2>1 DEF DataStart
  <2>3. BlockStart % Page = 0
    <3> DEFINE m == Base \div Page
    <3>1. Page \in Nat \ {0} BY ReadAssumption
    <3>2. Base = Page * m + (Base % Page) /\ m \in Nat /\ Base % Page \in Nat BY <1>3, Pages
    <3>3. BlockStart = Page * m BY <1>3, <3>1, <3>2 DEF BlockStart, AlignDown
    <3> QED BY <3>2, <3>3, MultipleIsOnPage
  <2>4. (BlockStart + Buffer) % Page = 0 BY <1>8, <2>3, SumOfPages, ReadAssumption
  <2>5. AlignUp(end) <= BlockStart + Buffer BY <1>6, <1>8, <2>2, <2>4, AlignBelow
  <2> QED BY <1>8, <1>9, <2>1, <2>5 DEF InOneGo
<1>12. ChunkSize \in Nat BY ChunkHoldsData DEF ReadInv
<1> QED BY <1>4, <1>6, <1>8, <1>10, <1>11, <1>12 DEF ReadFails
LEMMA InitReadInv == Init => ReadInv
<1> SUFFICES ASSUME Init PROVE ReadInv OBVIOUS
<1>1. out \in [0..size - 1 -> {Stale} \cup Nat] BY DEF Init
<1>2. TypeOK BY <1>1 DEF Init, TypeOK
<1> QED BY <1>2 DEF Init, ReadInv, Progress, ReadIsExact, Loaded, ReadSucceeds

LEMMA LoadKeeps == ASSUME ReadInv, LoadSizes PROVE ReadInv'
<1>1. /\ normal' = NormalSize /\ secure' = SecureSize /\ at' = "idle" /\ total' = NormalSize + Reported
      /\ UNCHANGED <<call, offset, left, rest, out>>
  BY ReadAssumption, ReportedAssumption DEF LoadSizes
<1>2. TypeOK' BY <1>1, ReadTypes DEF ReadInv, TypeOK, call
<1> QED BY <1>1, <1>2 DEF ReadInv, Progress, ReadIsExact, Loaded, ReadSucceeds

LEMMA CallKeeps == ASSUME ReadInv, NEW o \in Nat, NEW n \in Nat, Call(o, n) PROVE ReadInv'
<1>1. /\ first' = o /\ size' = n /\ offset' = o /\ left' = n /\ rest' = 0 /\ at' = "read" /\ n # 0
      /\ out' = [i \in 0..n - 1 |-> Stale] /\ UNCHANGED sizes /\ at = "idle"
  BY DEF Call
<1>2. out' \in [0..size' - 1 -> {Stale} \cup Nat] BY <1>1
<1>3. TypeOK' BY <1>1, <1>2 DEF ReadInv, TypeOK, sizes
<1>4. Progress' BY <1>1 DEF Progress
<1> QED BY <1>1, <1>3, <1>4 DEF ReadInv, ReadIsExact, Loaded, ReadSucceeds, sizes

\* Back to the caller, or to one that gives up.
LEMMA ReturnKeeps ==
    ASSUME ReadInv, at # "off", at' = "idle", UNCHANGED <<sizes, call, offset, left, rest, out>>
    PROVE  ReadInv'
  BY DEF ReadInv, TypeOK, Progress, ReadIsExact, Loaded, ReadSucceeds, sizes, call

LEMMA StepKeeps == ASSUME ReadInv, Step PROVE ReadInv'
<1> USE DEF ReadInv
<1>0. /\ normal \in Nat /\ first \in Nat /\ size \in Nat /\ offset \in Nat /\ left \in Nat
      /\ rest \in Nat /\ total \in Nat
  BY ReadTypes
<1>1. CASE Split
  <2>1. /\ at = "read" /\ offset < normal /\ offset + left > normal
        /\ rest' = left - (normal - offset) /\ left' = normal - offset
        /\ UNCHANGED <<sizes, at, call, offset, out>>
    BY <1>1 DEF Split, Spans
  <2>2. rest = 0 BY <1>0, <2>1 DEF Progress
  <2>3. TypeOK' BY <1>0, <2>1 DEF TypeOK, sizes, call
  <2>4. Progress' BY <1>0, <2>1, <2>2 DEF Progress, sizes, call
  <2> QED BY <2>1, <2>3, <2>4 DEF ReadIsExact, Loaded, ReadSucceeds, sizes, call
<1>2. CASE ReadAligned
  <2>1. at = "read" /\ ~Spans /\ Continue(left) /\ left > 0 BY <1>2 DEF ReadAligned, Progress
  <2>2. AreaStart + Base = offset /\ Base \in Nat BY <1>0, ChunkHoldsData
  <2>3. out' = [i \in DOMAIN out |->
                 IF i \in offset - first .. offset - first + left - 1
                 THEN AreaStart + Base + (i - (offset - first)) ELSE out[i]]
    BY <1>2 DEF ReadAligned, Copy
  <2>4. DOMAIN out = 0..size - 1 BY DEF TypeOK
  <2>5. \A i \in 0..size - 1 : out[i] \in {Stale} \cup Nat BY DEF TypeOK
  <2>6. \A i \in 0..size - 1 :
           out'[i] = IF i \in offset - first .. offset - first + left - 1
                     THEN first + i ELSE out[i]
    BY <1>0, <2>2, <2>3, <2>4
  <2>7. out' \in [0..size - 1 -> {Stale} \cup Nat]
    <3>1. \A i \in 0..size - 1 : out'[i] \in {Stale} \cup Nat BY <1>0, <2>5, <2>6
    <3>2. DOMAIN out' = 0..size - 1 /\ out' = [i \in DOMAIN out' |-> out'[i]] BY <2>3, <2>4, Zenon
    <3> QED BY <3>1, <3>2
  <2> QED BY <1>0, <2>1, <2>6, <2>7, PartKeepsInv
<1>3. CASE ReadUnaligned
  <2>1. at = "read" /\ ~Spans /\ Continue(OutChunkSize) /\ ~NothingLeft /\ left > 0
    BY <1>3 DEF ReadUnaligned, Progress
  <2>2. /\ AreaStart + BlockStart + DataStart = offset /\ DataStart \in Nat
        /\ OutChunkSize \in Nat /\ ChunkSize \in Nat /\ DataStart + OutChunkSize <= ChunkSize
    BY <1>0, ChunkHoldsData
  <2>3. out' = [i \in DOMAIN out |->
                 IF i \in offset - first .. offset - first + OutChunkSize - 1
                 THEN IF DataStart + (i - (offset - first)) < ChunkSize
                      THEN AreaStart + BlockStart + DataStart + (i - (offset - first)) ELSE Stale
                 ELSE out[i]]
    BY <1>3 DEF ReadUnaligned, Copy
  <2>4. DOMAIN out = 0..size - 1 BY DEF TypeOK
  <2>5. \A i \in 0..size - 1 : out[i] \in {Stale} \cup Nat BY DEF TypeOK
  <2>6. \A i \in 0..size - 1 :
           out'[i] = IF i \in offset - first .. offset - first + OutChunkSize - 1
                     THEN first + i ELSE out[i]
    BY <1>0, <2>2, <2>3, <2>4
  <2>7. out' \in [0..size - 1 -> {Stale} \cup Nat]
    <3>1. \A i \in 0..size - 1 : out'[i] \in {Stale} \cup Nat BY <1>0, <2>5, <2>6
    <3>2. DOMAIN out' = 0..size - 1 /\ out' = [i \in DOMAIN out' |-> out'[i]] BY <2>3, <2>4, Zenon
    <3> QED BY <3>1, <3>2
  <2>8. OutChunkSize > 0
    <3>1. CASE InOneGo BY <2>1, <3>1 DEF OutChunkSize
    <3>2. CASE ~InOneGo
      <4>1. DataStart < Page BY ChunkHoldsData
      <4> QED BY <2>2, <3>2, <4>1, ReadAssumption DEF OutChunkSize
    <3> QED BY <3>1, <3>2
  <2> QED BY <1>0, <2>1, <2>2, <2>6, <2>7, <2>8, PartKeepsInv
<1>4. CASE ReadFails
  <2>1. /\ at = "read" /\ at' = "failed" /\ UNCHANGED <<sizes, call, offset, left, rest, out>>
    BY <1>4 DEF ReadFails
  <2>2. first + size > normal + secure BY <1>4, ReadWithinSucceeds
  <2> QED BY <2>1, <2>2 DEF TypeOK, Progress, ReadIsExact, Loaded, ReadSucceeds, sizes, call
<1> QED BY <1>1, <1>2, <1>3, <1>4 DEF Step

LEMMA NextReadInv == ReadInv /\ [Next]_vars => ReadInv'
<1> SUFFICES ASSUME ReadInv, [Next]_vars PROVE ReadInv' OBVIOUS
<1>1. ASSUME NEW o \in 0..total, NEW n \in 0..total, Call(o, n) PROVE ReadInv'
  <2>1. o \in Nat /\ n \in Nat BY ReadTypes DEF ReadInv
  <2> QED BY <1>1, <2>1, CallKeeps
<1>2. CASE Return BY <1>2, ReturnKeeps DEF Return
<1>3. CASE UNCHANGED vars
  BY <1>3 DEF vars, ReadInv, TypeOK, Progress, ReadIsExact, Loaded, ReadSucceeds, sizes, call
<1> QED BY <1>1, <1>2, <1>3, LoadKeeps, StepKeeps DEF Next

\* Every variable of gamecardReadStorageArea keeps its type, and no size or
\* offset it computes underflows.
THEOREM TypeCorrect == Spec => []TypeOK
<1>1. ReadInv => TypeOK BY DEF ReadInv
<1> QED BY <1>1, InitReadInv, NextReadInv, PTL DEF Spec

\* For every size of the pages, the buffer and the areas, a call of
\* gamecardReadStorageArea that succeeds has filled the caller's buffer with
\* the part of the image that was asked for.
THEOREM ReadIsAlwaysExact == Spec => []ReadIsExact
<1>1. ReadInv => ReadIsExact BY DEF ReadInv
<1> QED BY <1>1, InitReadInv, NextReadInv, PTL DEF Spec

\* No such call within the two areas is refused: widening it to whole pages
\* never reaches behind an area, and the call for the rest is never empty.
THEOREM ReadAlwaysSucceeds == Spec => []ReadSucceeds
<1>1. ReadInv => ReadSucceeds BY DEF ReadInv
<1> QED BY <1>1, InitReadInv, NextReadInv, PTL DEF Spec
-----------------------------------------------------------------------------
(***************************************************************************)
(* FileWriter.                                                             *)
(***************************************************************************)

Open == pc \in {"placeholder", "idle", "writing"}

\* What cur_size counts twice, once the placeholder is written; what has
\* landed in the file; and the open part file, with what lies before it.
Twice == IF pc = "placeholder" THEN 0 ELSE conf.header
Landed == curSize - Twice
OnDevice == conf.storage # "usb"
CurPart == IF W!InParts THEN partIdx ELSE 1
InPart == IF W!InParts THEN partSize ELSE Landed
Before(i) == IF W!InParts THEN (i - 1) * PartSize ELSE 0

\* The constructor's arguments, and a writer that has done nothing yet.
Asked ==
    /\ conf.header = 0 \/ conf.header < conf.total
    /\ conf.header <= PartSize
    /\ ~OnDevice => conf.header = 0
    /\ ~W!InParts => partSize = 0
    /\ pc \in {"writing", "placeholder"} => pending > 0
    /\ pc \in {"writing", "placeholder", "idle"} => created
Fresh ==
    /\ pc = "none" => /\ curSize = 0 /\ partIdx = 0 /\ partSize = 0 /\ ~created /\ fed = 0 /\ cut = 0
                      /\ usbLeft = 0 /\ \A i \in 1..Len(parts) : parts[i] = W!OldUnits
                      /\ fed = 0

\* cur_size is what landed, but for what it counts twice, and the running
\* Write does not go past total_size.
Counted ==
    /\ pc = "placeholder" => pending = conf.header - curSize
    /\ pc = "writing" => pending <= conf.total - curSize
    /\ Open => Landed \in 0..conf.total
    /\ pc \in {"idle", "writing"} => conf.header <= Landed
    /\ conf.header = 0 /\ (Open \/ pc = "failed") => fed = curSize /\ cut = 0
    /\ conf.header = 0 /\ pc = "failed" => curSize < conf.total
    /\ usbLeft = IF ~OnDevice /\ Open /\ ~gone THEN conf.total - curSize ELSE 0

\* The part files follow each other, and all but the open one are full.
Layout ==
    Open /\ OnDevice =>
        /\ CurPart \in 1..Len(parts) /\ Len(parts[CurPart]) = InPart
        /\ Landed = Before(CurPart) + InPart
        /\ W!InParts => partIdx <= W!PartCount
        /\ ~W!InParts => Len(parts) = 1

\* n units of the file, from the one behind the first b.
Run(b, n) == [j \in 1..n |-> b + j]

\* What they hold is the file so far, and behind them is what was there before.
Contents ==
    Open /\ OnDevice /\ conf.header = 0 =>
        \A i \in 1..Len(parts) :
            /\ i < CurPart => parts[i] = Run(Before(i), PartSize)
            /\ i = CurPart => parts[i] = Run(Before(i), InPart)
            /\ i > CurPart => parts[i] = W!OldUnits

FileInv ==
    /\ W!TypeOK /\ Asked /\ Fresh /\ Counted /\ Layout /\ Contents
    /\ W!KeptIsWhole /\ W!GivenUpIsUndone /\ W!PartsFit

LEMMA FileTypes ==
    ASSUME W!TypeOK
    PROVE  /\ PartSize \in Nat \ {0} /\ Fat32Limit \in Nat /\ PartSize <= Fat32Limit
           /\ conf.total \in Nat /\ conf.header \in Nat /\ W!DataSize \in Int
           /\ curSize \in Nat /\ partIdx \in Nat /\ partSize \in 0..PartSize
           /\ pending \in Nat /\ cut \in Nat /\ fed \in Nat /\ usbLeft \in Nat
           /\ parts \in Seq(Seq(Int)) /\ Len(parts) \in Nat
           /\ \A i \in 1..Len(parts) : parts[i] \in Seq(Int) /\ Len(parts[i]) \in Nat
  BY SizesAssumption DEF W!TypeOK, W!DataSize

\* A function over 1..n is a sequence of length n.
LEMMA SeqOfLen ==
    ASSUME NEW S, NEW n \in Nat, NEW s \in [1..n -> S]
    PROVE  s \in Seq(S) /\ Len(s) = n
<1>1. s \in Seq(S) BY SeqDef
<1>2. DOMAIN s = 1..n /\ DOMAIN s = 1..Len(s) /\ Len(s) \in Nat BY <1>1, LenProperties
<1> QED BY <1>1, <1>2

\* fopen of the next part file: the others are what they were.
LEMMA TruncatedFile ==
    ASSUME parts \in Seq(Seq(Int)), NEW idx \in Nat, idx <= Len(parts)
    PROVE  /\ W!Truncated(idx) \in Seq(Seq(Int))
           /\ Len(W!Truncated(idx)) = IF idx < Len(parts) THEN Len(parts) ELSE idx + 1
           /\ \A i \in 1..Len(W!Truncated(idx)) :
                 W!Truncated(idx)[i] = IF i = idx + 1 THEN <<>> ELSE parts[i]
           /\ \A i \in 1..Len(W!Truncated(idx)) : i # idx + 1 => i \in 1..Len(parts)
<1> DEFINE n == IF idx < Len(parts) THEN Len(parts) ELSE idx + 1
           T == [i \in 1..n |-> IF i = idx + 1 THEN <<>> ELSE parts[i]]
<1>1. n \in Nat /\ \A i \in 1..n : i # idx + 1 => i \in 1..Len(parts) OBVIOUS
<1>2. <<>> \in Seq(Int) BY EmptySeq
<1>3. \A i \in 1..Len(parts) : parts[i] \in Seq(Int) BY ElementOfSeq
<1>4. T \in [1..n -> Seq(Int)]
  <2>1. SUFFICES ASSUME NEW i \in 1..n PROVE (IF i = idx + 1 THEN <<>> ELSE parts[i]) \in Seq(Int)
    OBVIOUS
  <2> QED BY <1>1, <1>2, <1>3
<1>5. T \in Seq(Seq(Int)) /\ Len(T) = n
  <2> HIDE DEF T, n
  <2> QED BY <1>1, <1>4, SeqOfLen, ZenonT(30)
<1> QED BY <1>1, <1>5 DEF W!Truncated

\* The next n units land behind what the part file holds.
LEMMA LandedUnits ==
    ASSUME W!TypeOK, OnDevice, CurPart \in 1..Len(parts), NEW n \in 0..pending, W!Land(n)
    PROVE  /\ parts' \in Seq(Seq(Int)) /\ Len(parts') = Len(parts)
           /\ \A i \in 1..Len(parts) : i # CurPart => parts'[i] = parts[i]
           /\ Len(parts'[CurPart]) = Len(parts[CurPart]) + n
           /\ \A j \in 1..Len(parts[CurPart]) : parts'[CurPart][j] = parts[CurPart][j]
           /\ \A j \in 1..n : parts'[CurPart][Len(parts[CurPart]) + j] = W!Units[j]
<1> DEFINE add == SubSeq(W!Units, 1, n)
           old == parts[CurPart]
<1>1. W!Units \in Seq(Int) /\ Len(W!Units) = pending
  <2>1. pending \in Nat /\ fed \in Nat BY FileTypes
  <2>2. W!Units \in [1..pending -> Int] BY <2>1 DEF W!Units, W!Zeroes, W!DataUnits
  <2> QED BY <2>1, <2>2, SeqOfLen
<1>2. add \in Seq(Int) /\ Len(add) = n /\ \A j \in 1..n : add[j] = W!Units[j]
  <2>1. n \in Nat /\ \A j \in 1..n : W!Units[j] \in Int BY <1>1, FileTypes, ElementOfSeq
  <2> QED BY <2>1, SubSeqProperties
<1>3. old \in Seq(Int) /\ Len(old) \in Nat BY FileTypes
<1>4. parts' = [parts EXCEPT ![CurPart] = old \o add] BY DEF W!Land, OnDevice, CurPart
<1> HIDE DEF add, old
<1> DEFINE new == old \o add
<1>5. /\ new \in Seq(Int) /\ Len(new) = Len(old) + n
      /\ \A j \in 1..Len(old) + n : new[j] = IF j <= Len(old) THEN old[j] ELSE add[j - Len(old)]
  <2>1. /\ old \o add \in Seq(Int) /\ Len(old \o add) = Len(old) + Len(add)
        /\ \A j \in 1..Len(old) + Len(add) :
              (old \o add)[j] = IF j <= Len(old) THEN old[j] ELSE add[j - Len(old)]
    BY <1>2, <1>3, ConcatProperties
  <2> QED BY <1>2, <1>3, <2>1
<1> HIDE DEF new
<1>6. \A j \in 1..Len(old) : new[j] = old[j] BY <1>3, <1>5
<1>7. \A j \in 1..n : new[Len(old) + j] = W!Units[j]
  <2>1. SUFFICES ASSUME NEW j \in 1..n PROVE new[Len(old) + j] = W!Units[j] OBVIOUS
  <2>2. /\ Len(old) + j \in 1..Len(old) + n /\ ~(Len(old) + j <= Len(old))
        /\ Len(old) + j - Len(old) = j
    BY <1>3, FileTypes, SMTT(30)
  <2>3. new[Len(old) + j] = add[Len(old) + j - Len(old)] BY <1>5, <2>2
  <2> QED BY <1>2, <2>2, <2>3
<1>8. parts' = [parts EXCEPT ![CurPart] = new] BY <1>4 DEF new
<1>9. /\ parts' \in Seq(Seq(Int)) /\ Len(parts') = Len(parts)
      /\ \A i \in 1..Len(parts) : parts'[i] = IF i = CurPart THEN new ELSE parts[i]
  <2>1. parts \in Seq(Seq(Int)) BY FileTypes
  <2> QED BY <1>5, <1>8, <2>1, ExceptSeq
<1> QED BY <1>5, <1>6, <1>7, <1>9 DEF old

\* There is a part file for every unit, and no part file without one.
LEMMA PartCountIsEnough ==
    ASSUME NEW t \in Nat \ {0}
    PROVE  /\ (t + PartSize - 1) \div PartSize \in Nat \ {0}
           /\ \A k \in Nat : t <= k * PartSize => (t + PartSize - 1) \div PartSize <= k
<1> DEFINE y == t + PartSize - 1
           q == y \div PartSize
           r == y % PartSize
<1>1. PartSize \in Nat \ {0} /\ y \in Nat /\ y >= PartSize BY SizesAssumption
<1>2. y = PartSize * q + r /\ q \in Nat /\ r \in 0..PartSize - 1 BY <1>1
<1>3. q # 0 BY <1>1, <1>2
<1>4. ASSUME NEW k \in Nat, t <= k * PartSize, q >= k + 1 PROVE FALSE
  <2>1. PartSize * q >= PartSize * (k + 1) BY <1>1, <1>2, <1>4
  <2>2. PartSize * (k + 1) = k * PartSize + PartSize BY <1>1
  <2> QED BY <1>1, <1>2, <1>4, <2>1, <2>2
<1> QED BY <1>2, <1>3, <1>4

LEMMA InitFileInv == W!Init => FileInv
<1> SUFFICES ASSUME W!Init PROVE FileInv OBVIOUS
<1>1. /\ conf \in [storage : Storages, total : Nat, header : Nat]
      /\ conf.header \in 0..PartSize
  <2>1. conf \in [storage : Storages, total : TotalSizes, header : HeaderSizes] BY DEF W!Init
  <2>2. TotalSizes \subseteq Nat /\ HeaderSizes \subseteq 0..PartSize /\ 0..PartSize \subseteq Nat
    BY SizesAssumption
  <2> QED BY <2>1, <2>2
<1>2. parts \in Seq(Seq(Int)) /\ \A i \in 1..Len(parts) : parts[i] = W!OldUnits
  <2>0. W!OldUnits \in Seq(Int) BY DEF W!OldUnits
  <2>1. CASE parts = <<>> BY <2>1
  <2>2. CASE parts = <<W!OldUnits>> BY <2>0, <2>2
  <2>3. ASSUME NEW n \in OldParts, parts = [i \in 1..n |-> W!OldUnits]
        PROVE  parts \in Seq(Seq(Int)) /\ \A i \in 1..Len(parts) : parts[i] = W!OldUnits
    <3>1. n \in Nat /\ parts \in [1..n -> Seq(Int)] BY <2>0, <2>3, SizesAssumption
    <3>2. parts \in Seq(Seq(Int)) /\ Len(parts) = n BY <3>1, SeqOfLen
    <3> QED BY <2>3, <3>2
  <2> QED BY <2>1, <2>2, <2>3 DEF W!Init
<1>3. W!TypeOK
  <2>1. /\ pc = "none" /\ curSize = 0 /\ partIdx = 0 /\ partSize = 0 /\ fp = FALSE
        /\ created = FALSE /\ pending = 0 /\ cut = 0 /\ fed = 0 /\ usbLeft = 0 /\ gone = FALSE
    BY DEF W!Init
  <2>2. partSize \in 0..PartSize BY <2>1, SizesAssumption
  <2> QED BY <1>1, <1>2, <2>1, <2>2 DEF W!TypeOK
<1>4. W!PartsFit
  <2>1. Len(W!OldUnits) = 1 /\ 1 <= Fat32Limit BY SizesAssumption DEF W!OldUnits
  <2>2. \A i \in 1..Len(parts) : ~(i < partIdx) BY FileTypes, <1>3 DEF W!Init
  <2> QED BY <1>2, <2>1, <2>2 DEF W!PartsFit
<1>5. Asked /\ Fresh /\ Counted BY <1>1, <1>2 DEF W!Init, Asked, Fresh, Counted, Open, OnDevice
<1>6. Layout /\ Contents BY DEF W!Init, Layout, Contents, Open
<1>7. W!KeptIsWhole /\ W!GivenUpIsUndone
  BY DEF W!Init, W!KeptIsWhole, W!GivenUpIsUndone, W!Finished
<1> QED BY <1>3, <1>4, <1>5, <1>6, <1>7 DEF FileInv

LEMMA FileStays == ASSUME FileInv, UNCHANGED file PROVE FileInv'
<1> USE DEF FileInv, file
<1>1. W!TypeOK' BY DEF W!TypeOK
<1>2. Asked' /\ Fresh' BY DEF Asked, Fresh, OnDevice, W!InParts, W!Split
<1>3. Counted' BY DEF Counted, OnDevice, Open, Landed, Twice
<1>4. Layout'
  BY DEF Layout, OnDevice, Open, Landed, Twice, CurPart, InPart, Before, W!InParts, W!Split,
         W!PartCount
<1>5. Contents'
  BY DEF Contents, OnDevice, Open, Landed, Twice, CurPart, InPart, Before, W!InParts, W!Split
<1>6. W!KeptIsWhole' BY DEF W!KeptIsWhole, W!Finished, W!PartFiles, W!PartUnits, W!PartCount,
                            W!InParts, W!Split
<1>7. W!GivenUpIsUndone' BY DEF W!GivenUpIsUndone, W!Finished, W!DataSize
<1>8. W!PartsFit' BY DEF W!PartsFit, W!InParts, W!Split
<1> QED BY <1>1, <1>2, <1>3, <1>4, <1>5, <1>6, <1>7, <1>8

\* A failure, after which only Close follows: cur_size stays below total_size.
LEMMA FailureKeeps ==
    ASSUME FileInv, Open, pc' = "failed",
           UNCHANGED <<conf, curSize, partIdx, partSize, created, pending, cut, fed, gone>>,
           fp' \in BOOLEAN, usbLeft' = 0, conf.header = 0 => curSize < conf.total,
           parts' \in Seq(Seq(Int)), W!PartsFit'
    PROVE  FileInv'
<1> USE DEF FileInv
<1>1. W!TypeOK' BY DEF W!TypeOK
<1>2. Asked' /\ Fresh' /\ Counted'
  BY DEF Asked, Fresh, Counted, OnDevice, Open, W!InParts, W!Split
<1>3. Layout' /\ Contents' BY DEF Layout, Contents, Open
<1>4. W!KeptIsWhole' /\ W!GivenUpIsUndone' BY DEF W!KeptIsWhole, W!GivenUpIsUndone, W!Finished
<1> QED BY <1>1, <1>2, <1>3, <1>4

\* What Close keeps when cur_size has reached total_size is the whole file.
LEMMA CompleteIsWhole ==
    ASSUME FileInv, pc = "idle", OnDevice, conf.header = 0, curSize = conf.total
    PROVE  /\ W!PartFiles <= Len(parts)
           /\ \A i \in 1..Len(parts) :
                 parts[i] = IF i <= W!PartFiles THEN W!PartUnits(i) ELSE W!OldUnits
<1>1. /\ PartSize \in Nat \ {0} /\ conf.total \in Nat /\ partIdx \in Nat /\ partSize \in 0..PartSize
      /\ Len(parts) \in Nat
  BY FileTypes DEF FileInv
<1>2. /\ CurPart \in 1..Len(parts) /\ conf.total = Before(CurPart) + InPart
      /\ W!InParts => partIdx <= W!PartCount
      /\ ~W!InParts => Len(parts) = 1
  BY DEF FileInv, Layout, Open, Landed, Twice, W!TypeOK
<1>3. \A i \in 1..Len(parts) :
        /\ i < CurPart => parts[i] = Run(Before(i), PartSize)
        /\ i = CurPart => parts[i] = Run(Before(i), InPart)
        /\ i > CurPart => parts[i] = W!OldUnits
  BY DEF FileInv, Contents, Open
<1>4. CASE W!InParts
  <2>1. CurPart = partIdx /\ InPart = partSize /\ \A i : Before(i) = (i - 1) * PartSize
    BY <1>4 DEF CurPart, InPart, Before
  <2>2. partIdx * PartSize = (partIdx - 1) * PartSize + PartSize /\ (partIdx - 1) * PartSize \in Nat
    BY <1>1, <1>2, <2>1
  <2>3. conf.total > 0 BY <1>4, <1>1, SizesAssumption DEF W!InParts, W!Split
  <2>4. W!PartCount = partIdx
    <3>1. conf.total \in Nat \ {0} /\ conf.total <= partIdx * PartSize BY <1>1, <1>2, <2>1, <2>2, <2>3
    <3>2. W!PartCount \in Nat /\ W!PartCount <= partIdx
      BY <1>1, <3>1, PartCountIsEnough DEF W!PartCount
    <3> QED BY <1>1, <1>2, <1>4, <3>2
  <2>5. ASSUME NEW i \in 1..Len(parts), i < partIdx PROVE W!PartUnits(i) = Run(Before(i), PartSize)
    <3>1. (i - 1) * PartSize + PartSize = i * PartSize /\ (i - 1) * PartSize \in Nat BY <1>1
    <3>2. i * PartSize <= (partIdx - 1) * PartSize BY <1>1, <2>5
    <3>3. W!Smaller(PartSize, conf.total - Before(i)) = PartSize
      BY <1>1, <1>2, <2>1, <2>2, <3>1, <3>2, SMTT(30) DEF W!Smaller
    <3> QED BY <1>4, <3>3 DEF W!PartUnits, Before, Run
  <2>6. W!PartUnits(partIdx) = Run(Before(partIdx), partSize)
    <3>1. W!Smaller(PartSize, conf.total - Before(partIdx)) = partSize
      BY <1>1, <1>2, <2>1, <2>2 DEF W!Smaller
    <3> QED BY <1>4, <3>1 DEF W!PartUnits, Before, Run
  <2>7. W!PartFiles = partIdx BY <1>4, <2>4 DEF W!PartFiles
  <2>8. ASSUME NEW i \in 1..Len(parts)
        PROVE  parts[i] = IF i <= partIdx THEN W!PartUnits(i) ELSE W!OldUnits
    <3>1. i < partIdx \/ i = partIdx \/ (i > partIdx /\ ~(i <= partIdx)) BY <1>1
    <3>2. CASE i < partIdx
      <4>1. parts[i] = W!PartUnits(i) BY <1>3, <2>1, <2>5, <3>2, Zenon
      <4> QED BY <1>1, <3>2, <4>1
    <3>3. CASE i = partIdx
      <4>1. parts[i] = W!PartUnits(i) BY <1>3, <2>1, <2>6, <3>3, Zenon
      <4> QED BY <1>1, <3>3, <4>1
    <3>4. CASE i > partIdx /\ ~(i <= partIdx) BY <1>3, <2>1, <3>4
    <3> QED BY <3>1, <3>2, <3>3, <3>4
  <2> QED BY <1>2, <1>1, <2>1, <2>7, <2>8
<1>5. CASE ~W!InParts
  <2>1. CurPart = 1 /\ Before(1) = 0 /\ InPart = conf.total /\ W!PartFiles = 1 /\ Len(parts) = 1
    BY <1>1, <1>2, <1>5 DEF CurPart, InPart, Before, W!PartFiles, Landed, Twice
  <2>2. W!PartUnits(1) = Run(Before(1), conf.total) BY <1>5 DEF W!PartUnits, Before, Run
  <2>3. 1 \in 1..Len(parts) BY <2>1
  <2>4. parts[1] = Run(Before(1), InPart) BY <1>3, <2>1, <2>3, Zenon
  <2>5. parts[1] = W!PartUnits(1) BY <2>1, <2>2, <2>4
  <2> QED BY <2>1, <2>5
<1> QED BY <1>4, <1>5

LEMMA CloseKeeps == ASSUME FileInv, W!Close PROVE FileInv'
<1> USE DEF FileInv
<1>1. /\ pc \in {"idle", "failed"} /\ pc' = "closed" /\ fp' = FALSE
      /\ UNCHANGED <<conf, curSize, partIdx, partSize, created, pending, cut, fed, gone>>
      /\ parts' = IF W!Incomplete /\ created /\ ~gone THEN <<>> ELSE parts
      /\ usbLeft' = IF W!Incomplete /\ created THEN 0 ELSE usbLeft
  BY DEF W!Close, W!Removed, W!write
<1>2. /\ conf.total \in Nat /\ curSize \in Nat /\ <<>> \in Seq(Seq(Int)) /\ Len(<<>>) = 0
      /\ usbLeft \in Nat
  BY FileTypes, EmptySeq
<1>3. usbLeft' = 0 BY <1>1, <1>2 DEF Counted, Open, W!Incomplete, Asked
<1>4. W!TypeOK'
  <2>1. parts' \in Seq(Seq(Int)) BY <1>1, <1>2 DEF W!TypeOK
  <2>2. fp' \in BOOLEAN /\ usbLeft' \in Nat
    <3>1. fp' \in BOOLEAN BY <1>1, Zenon
    <3>2. usbLeft' \in Nat BY <1>3
    <3> QED BY <3>1, <3>2
  <2>3. /\ pc' \in {"none", "placeholder", "idle", "writing", "failed", "closed"}
        /\ UNCHANGED <<conf, curSize, partIdx, partSize, created, pending, cut, fed, gone>>
    BY <1>1
  <2> QED BY <2>1, <2>2, <2>3 DEF W!TypeOK
<1>5. Asked' /\ Fresh' /\ Counted' BY <1>1, <1>3 DEF Asked, Fresh, Counted, Open, OnDevice, W!InParts, W!Split
<1>6. Layout' /\ Contents' BY <1>1 DEF Layout, Contents, Open
<1>7. W!KeptIsWhole'
  <2>1. SUFFICES ASSUME W!Finished', conf.storage # "usb", conf.header = 0, parts' # <<>>
        PROVE  /\ W!PartFiles <= Len(parts')
               /\ \A i \in 1..Len(parts') :
                     parts'[i] = IF i <= W!PartFiles THEN W!PartUnits(i) ELSE W!OldUnits
    BY <1>1 DEF W!KeptIsWhole, W!PartFiles, W!PartUnits, W!PartCount, W!InParts, W!Split
  <2>2. curSize = conf.total /\ parts' = parts BY <1>1, <2>1 DEF W!Finished, W!Incomplete
  <2>3. pc = "idle" BY <1>1, <1>2, <2>1, <2>2 DEF Counted
  <2> QED BY <2>1, <2>2, <2>3, CompleteIsWhole DEF OnDevice
<1>8. W!GivenUpIsUndone'
  BY <1>1, <1>2, <1>3, FileTypes DEF W!GivenUpIsUndone, W!Finished, W!DataSize, W!Incomplete, Counted, Open
<1>9. W!PartsFit' BY <1>1, <1>2 DEF W!PartsFit, W!InParts, W!Split
<1> QED BY <1>4, <1>5, <1>6, <1>7, <1>8, <1>9

\* The constructor throws: there is no object to close.
LEMMA ThrowKeeps == ASSUME FileInv, W!ConstructorThrows \/ W!CreateFails PROVE FileInv'
<1> USE DEF FileInv
<1>1. /\ pc = "none" /\ pc' = "closed" /\ ~created /\ usbLeft = 0
      /\ UNCHANGED <<conf, curSize, partIdx, partSize, created, fp, pending, cut, fed, gone, usbLeft>>
      /\ parts' = parts \/ parts' = <<>>
  BY DEF W!ConstructorThrows, W!CreateFails, W!Removed, W!write, W!object, Fresh
<1>2. <<>> \in Seq(Seq(Int)) /\ Len(<<>>) = 0 BY EmptySeq
<1>3. W!TypeOK' BY <1>1, <1>2 DEF W!TypeOK
<1>4. Asked' /\ Fresh' /\ Counted' BY <1>1 DEF Asked, Fresh, Counted, Open, OnDevice, W!InParts, W!Split
<1>5. Layout' /\ Contents' BY <1>1 DEF Layout, Contents, Open
<1>6. W!KeptIsWhole' /\ W!GivenUpIsUndone' BY <1>1 DEF W!KeptIsWhole, W!GivenUpIsUndone, W!Finished
<1>7. W!PartsFit' BY <1>1, <1>2 DEF W!PartsFit, W!InParts, W!Split
<1> QED BY <1>3, <1>4, <1>5, <1>6, <1>7

\* A block is accepted or refused, before any unit of it is written.
LEMMA WriteKeeps == ASSUME FileInv, NEW n \in Nat \ {0}, W!Write(n) PROVE FileInv'
<1> USE DEF FileInv
<1>1. /\ pc = "idle" /\ pc' = "writing" /\ curSize < conf.total
      /\ pending' = W!Smaller(n, conf.total - curSize) /\ cut' = n - pending'
      /\ n <= conf.total - conf.header - fed
      /\ UNCHANGED <<conf, curSize, partIdx, partSize, fp, created, fed, parts, usbLeft, gone>>
  BY DEF W!Write, W!CanWrite, W!WriteSize, W!object, W!DataSize
<1>2. /\ conf.total \in Nat /\ curSize \in Nat /\ conf.header \in Nat /\ fed \in Nat
  BY FileTypes
<1>3. /\ pending' \in Nat \ {0} /\ cut' \in Nat /\ pending' <= conf.total - curSize
  BY <1>1, <1>2 DEF W!Smaller
<1>4. conf.header = 0 => fed' = curSize /\ cut' = 0
  <2>1. conf.header = 0 => fed = curSize BY <1>1 DEF Counted, Open
  <2> QED BY <1>1, <1>2, <2>1 DEF W!Smaller
<1>5. W!TypeOK' BY <1>1, <1>3 DEF W!TypeOK
<1>6. Asked' /\ Fresh' BY <1>1, <1>3 DEF Asked, Fresh, OnDevice, W!InParts, W!Split
<1>7. Counted' BY <1>1, <1>3, <1>4 DEF Counted, Open, Landed, Twice, OnDevice
<1>8. Layout' BY <1>1 DEF Layout, OnDevice, Open, Landed, Twice, CurPart, InPart, Before,
                          W!InParts, W!Split, W!PartCount
<1>9. Contents' BY <1>1 DEF Contents, OnDevice, Open, Landed, Twice, CurPart, InPart, Before,
                            W!InParts, W!Split
<1>10. W!KeptIsWhole' /\ W!GivenUpIsUndone' BY <1>1 DEF W!KeptIsWhole, W!GivenUpIsUndone, W!Finished
<1>11. W!PartsFit' BY <1>1 DEF W!PartsFit, W!InParts, W!Split
<1> QED BY <1>5, <1>6, <1>7, <1>8, <1>9, <1>10, <1>11

LEMMA RefusalKeeps == ASSUME FileInv, W!WriteRefused \/ W!WriteNspHeaderFails PROVE FileInv'
<1> USE DEF FileInv
<1>1. /\ pc = "idle" /\ pc' = "failed"
      /\ UNCHANGED <<conf, curSize, partIdx, partSize, fp, created, pending, cut, fed, parts, usbLeft, gone>>
      /\ \/ fed < W!DataSize /\ ~W!CanWrite
         \/ conf.header # 0
  BY DEF W!WriteRefused, W!WriteNspHeaderFails, W!object, W!write
<1>2. /\ conf.total \in Nat /\ curSize \in Nat /\ fed \in Nat BY FileTypes
<1>3. conf.header = 0 => curSize < conf.total
  BY <1>1, <1>2 DEF Counted, Open, W!DataSize
<1>4. usbLeft' = 0
  <2>1. CASE OnDevice BY <1>1, <2>1 DEF Counted
  <2>2. CASE ~OnDevice
    <3>1. conf.header = 0 /\ created BY <1>1, <2>2 DEF Asked
    <3> QED BY <1>1, <1>3, <2>2, <3>1 DEF W!CanWrite, OnDevice
  <2> QED BY <2>1, <2>2
<1>5. W!PartsFit' BY <1>1 DEF W!PartsFit, W!InParts, W!Split
<1>6. fp' \in BOOLEAN /\ parts' \in Seq(Seq(Int)) BY <1>1 DEF W!TypeOK
<1> QED BY <1>1, <1>3, <1>4, <1>5, <1>6, FailureKeeps DEF Open

LEMMA UnplugKeeps == ASSUME FileInv, W!Unplug PROVE FileInv'
<1> USE DEF FileInv
<1>1. /\ gone' = TRUE /\ usbLeft' = 0
      /\ UNCHANGED <<pc, conf, curSize, partIdx, partSize, fp, created, pending, cut, fed, parts>>
  BY DEF W!Unplug, W!object, W!write
<1>2. W!TypeOK'
  <2>1. gone' \in BOOLEAN BY <1>1, Zenon
  <2> QED BY <1>1, <2>1 DEF W!TypeOK
<1>3. Asked' /\ Fresh' BY <1>1 DEF Asked, Fresh, OnDevice, W!InParts, W!Split
<1>4. Counted' BY <1>1 DEF Counted, Open, Landed, Twice, OnDevice
<1>5. Layout' BY <1>1 DEF Layout, OnDevice, Open, Landed, Twice, CurPart, InPart, Before,
                          W!InParts, W!Split, W!PartCount
<1>6. Contents' BY <1>1 DEF Contents, OnDevice, Open, Landed, Twice, CurPart, InPart, Before,
                            W!InParts, W!Split
<1>7. W!KeptIsWhole' /\ W!GivenUpIsUndone' BY <1>1 DEF W!KeptIsWhole, W!GivenUpIsUndone, W!Finished
<1>8. W!PartsFit' BY <1>1 DEF W!PartsFit, W!InParts, W!Split
<1> QED BY <1>2, <1>3, <1>4, <1>5, <1>6, <1>7, <1>8

\* The file, or the first part file, is created over what was there before.
LEMMA ConstructKeeps == ASSUME FileInv, W!Construct PROVE FileInv'
<1> USE DEF FileInv
<1>1. /\ pc = "none" /\ created' = TRUE /\ ~gone
      /\ parts' = IF conf.storage = "usb" THEN <<>>
                  ELSE IF W!InParts THEN W!Truncated(0) ELSE <<<<>>>>
      /\ partIdx' = IF W!InParts THEN 1 ELSE 0
      /\ fp' = (conf.storage # "usb" /\ conf.total # 0)
      /\ usbLeft' = IF conf.storage = "usb" THEN conf.total ELSE 0
      /\ pc' = IF conf.header # 0 THEN "placeholder" ELSE "idle"
      /\ pending' = conf.header
      /\ UNCHANGED <<conf, curSize, partSize, cut, fed, gone>>
  BY DEF W!Construct
<1>2. /\ conf.total \in Nat /\ conf.header \in Nat /\ parts \in Seq(Seq(Int)) /\ Len(parts) \in Nat
      /\ PartSize \in Nat \ {0} /\ Fat32Limit \in Nat \ {0} /\ PartSize <= Fat32Limit
  BY FileTypes
<1>3. /\ curSize = 0 /\ partSize = 0 /\ fed = 0 /\ cut = 0
      /\ \A i \in 1..Len(parts) : parts[i] = W!OldUnits
  BY <1>1 DEF Fresh
<1>4. /\ <<>> \in Seq(Seq(Int)) /\ <<>> \in Seq(Int) /\ Len(<<>>) = 0
      /\ <<<<>>>> \in Seq(Seq(Int)) /\ Len(<<<<>>>>) = 1 /\ <<<<>>>>[1] = <<>>
  BY EmptySeq
<1>5. /\ W!Truncated(0) \in Seq(Seq(Int)) /\ Len(W!Truncated(0)) \in Nat \ {0}
      /\ W!Truncated(0)[1] = <<>>
      /\ \A i \in 1..Len(W!Truncated(0)) : i # 1 => W!Truncated(0)[i] = W!OldUnits
  BY <1>2, <1>3, TruncatedFile
<1>6. W!InParts' = W!InParts /\ OnDevice' = OnDevice /\ W!PartCount' = W!PartCount
  BY <1>1 DEF W!InParts, W!Split, OnDevice, W!PartCount
<1>7. W!TypeOK'
  <2>1. created' \in BOOLEAN /\ fp' \in BOOLEAN BY <1>1, Zenon
  <2>2. parts' \in Seq(Seq(Int)) BY <1>1, <1>4, <1>5
  <2>3. usbLeft' \in Nat /\ partIdx' \in Nat /\ pending' \in Nat BY <1>1, <1>2
  <2>4. pc' \in {"none", "placeholder", "idle", "writing", "failed", "closed"} BY <1>1
  <2> QED BY <1>1, <2>1, <2>2, <2>3, <2>4 DEF W!TypeOK
<1>8. Asked' /\ Fresh'
  BY <1>1, <1>2, <1>6 DEF Asked, Fresh, OnDevice
<1>9. Counted'
  BY <1>1, <1>2, <1>3, <1>6 DEF Counted, Open, Landed, Twice, OnDevice, Asked
<1>10. Landed' = 0 BY <1>1, <1>2, <1>3 DEF Landed, Twice
<1>11. /\ OnDevice => CurPart' = 1 /\ CurPart' \in 1..Len(parts') /\ parts'[1] = <<>>
       /\ InPart' = 0 /\ Before(1)' = 0
       /\ OnDevice => \A i \in 1..Len(parts') : i # 1 => parts'[i] = W!OldUnits
  BY <1>1, <1>3, <1>4, <1>5, <1>6, <1>10, <1>2 DEF CurPart, InPart, Before, OnDevice
<1>12. Layout'
  <2>1. W!InParts => 1 <= W!PartCount
    <3>1. W!InParts => conf.total \in Nat \ {0} BY <1>2 DEF W!InParts, W!Split
    <3>2. W!InParts => W!PartCount \in Nat \ {0} BY <3>1, PartCountIsEnough DEF W!PartCount
    <3> QED BY <3>2
  <2> QED BY <1>1, <1>4, <1>6, <1>10, <1>11, <2>1 DEF Layout, OnDevice
<1>13. Contents'
  <2>1. SUFFICES ASSUME OnDevice, NEW i \in 1..Len(parts')
        PROVE  /\ i < CurPart' => parts'[i] = Run(Before(i)', PartSize)
               /\ i = CurPart' => parts'[i] = Run(Before(i)', InPart')
               /\ i > CurPart' => parts'[i] = W!OldUnits
    BY <1>6 DEF Contents
  <2>2. <<>> = Run(Before(1)', InPart') BY <1>11 DEF Run
  <2> QED BY <1>11, <2>1, <2>2
<1>14. W!KeptIsWhole' /\ W!GivenUpIsUndone' BY <1>1 DEF W!KeptIsWhole, W!GivenUpIsUndone, W!Finished
<1>15. W!PartsFit'
  <2>1. SUFFICES ASSUME conf.storage = "umsFat", NEW i \in 1..Len(parts')
        PROVE  Len(parts'[i]) <= Fat32Limit /\ ~(W!InParts /\ i < partIdx')
    BY <1>1, <1>6 DEF W!PartsFit
  <2>2. Len(W!OldUnits) = 1 BY DEF W!OldUnits
  <2>3. OnDevice BY <2>1 DEF OnDevice
  <2>4. Len(parts'[i]) <= Fat32Limit
    <3>1. CASE i = 1
      <4>1. parts'[i] = <<>> BY <1>11, <2>3, <3>1
      <4>2. Len(parts'[i]) = 0 BY <1>4, <4>1
      <4> QED BY <1>2, <4>2
    <3>2. CASE i # 1
      <4>1. parts'[i] = W!OldUnits BY <1>11, <2>3, <3>2
      <4>2. 1 <= Fat32Limit BY <1>2
      <4> QED BY <2>2, <4>1, <4>2
    <3> QED BY <3>1, <3>2
  <2>5. ~(W!InParts /\ i < partIdx') BY <1>1, <2>1
  <2> QED BY <2>4, <2>5
<1> QED BY <1>7, <1>8, <1>9, <1>12, <1>13, <1>14, <1>15

\* The open part file is full, and the next one is opened.
LEMMA NextFileKeeps == ASSUME FileInv, W!OpenNextFile PROVE FileInv'
<1> USE DEF FileInv
<1>1. /\ pc \in {"writing", "placeholder"} /\ W!InParts /\ partSize >= PartSize /\ partIdx < W!PartCount
      /\ parts' = W!Truncated(partIdx)
      /\ partIdx' = partIdx + 1 /\ partSize' = 0 /\ fp' = TRUE
      /\ UNCHANGED <<pc, conf, curSize, created, pending, cut, fed, usbLeft, gone>>
  BY DEF W!OpenNextFile, W!Writing, W!PartFull, W!write
<1>2. /\ PartSize \in Nat \ {0} /\ partIdx \in Nat /\ partSize = PartSize /\ curSize \in Nat
      /\ parts \in Seq(Seq(Int)) /\ Len(parts) \in Nat /\ conf.total \in Nat /\ conf.header \in Nat
      /\ Fat32Limit \in Nat /\ PartSize <= Fat32Limit
  BY <1>1, FileTypes
<1>3. Open /\ OnDevice /\ Open' /\ OnDevice' /\ W!InParts' /\ W!PartCount' = W!PartCount
  BY <1>1 DEF Open, OnDevice, W!InParts, W!Split, W!PartCount
<1>4. /\ CurPart = partIdx /\ CurPart' = partIdx + 1 /\ InPart = partSize /\ InPart' = 0
      /\ Landed' = Landed
      /\ \A i : Before(i) = (i - 1) * PartSize /\ Before(i)' = (i - 1) * PartSize
  BY <1>1, <1>3 DEF CurPart, InPart, Landed, Twice, Before
<1>5. /\ partIdx \in 1..Len(parts) /\ Len(parts[partIdx]) = PartSize
      /\ Landed = (partIdx - 1) * PartSize + PartSize
  BY <1>2, <1>3, <1>4 DEF Layout
<1>6. /\ parts' \in Seq(Seq(Int)) /\ Len(parts') \in Nat /\ partIdx + 1 \in 1..Len(parts')
      /\ parts'[partIdx + 1] = <<>>
      /\ \A i \in 1..Len(parts') : i # partIdx + 1 => i \in 1..Len(parts) /\ parts'[i] = parts[i]
  <2> DEFINE T == W!Truncated(partIdx)
  <2>1. /\ T \in Seq(Seq(Int)) /\ Len(T) = IF partIdx < Len(parts) THEN Len(parts) ELSE partIdx + 1
        /\ \A i \in 1..Len(T) : T[i] = IF i = partIdx + 1 THEN <<>> ELSE parts[i]
        /\ \A i \in 1..Len(T) : i # partIdx + 1 => i \in 1..Len(parts)
    BY <1>2, <1>5, TruncatedFile
  <2>2. Len(T) \in Nat /\ partIdx + 1 \in 1..Len(T) BY <1>2, <1>5, <2>1
  <2> HIDE DEF T
  <2> QED BY <2>1, <2>2, <1>1 DEF T
<1>7. Len(<<>>) = 0 BY EmptySeq
<1>8. (partIdx + 1 - 1) * PartSize = (partIdx - 1) * PartSize + PartSize BY <1>2
<1>9. W!TypeOK'
  <2>1. fp' \in BOOLEAN BY <1>1, Zenon
  <2>2. partIdx' \in Nat /\ partSize' \in 0..PartSize BY <1>1, <1>2
  <2> QED BY <1>1, <1>6, <2>1, <2>2 DEF W!TypeOK
<1>10. Asked' /\ Fresh' BY <1>1, <1>3 DEF Asked, Fresh, OnDevice
<1>11. Counted' BY <1>1, <1>3, <1>4 DEF Counted, Open, OnDevice
<1>12. Layout'
  <2>1. partIdx' <= W!PartCount BY <1>1, <1>2, <1>3, PartCountIsEnough, SizesAssumption
                                DEF W!PartCount, W!InParts, W!Split
  <2> QED BY <1>1, <1>3, <1>4, <1>5, <1>6, <1>7, <1>8, <2>1 DEF Layout
<1>13. Contents'
  <2>1. SUFFICES ASSUME conf.header = 0, NEW i \in 1..Len(parts')
        PROVE  /\ i < CurPart' => parts'[i] = Run(Before(i)', PartSize)
               /\ i = CurPart' => parts'[i] = Run(Before(i)', InPart')
               /\ i > CurPart' => parts'[i] = W!OldUnits
    BY <1>1, <1>3 DEF Contents
  <2>2. CASE i = partIdx + 1
    <3>1. <<>> = Run(Before(i)', InPart') BY <1>4 DEF Run
    <3> QED BY <1>2, <1>4, <1>6, <2>2, <3>1, SMTT(30)
  <2>3. CASE i < partIdx
    <3>1. parts[i] = Run(Before(i), PartSize)
      BY <1>2, <1>3, <1>4, <1>6, <2>1, <2>3 DEF Contents
    <3>2. i < partIdx + 1 /\ ~(i = partIdx + 1) /\ ~(i > partIdx + 1) BY <1>2, <2>3
    <3>3. parts'[i] = parts[i] BY <1>6, <3>2
    <3>4. Before(i)' = Before(i) BY <1>4
    <3> QED BY <1>4, <3>1, <3>2, <3>3, <3>4
  <2>4. CASE i = partIdx
    <3>1. parts[i] = Run(Before(i), InPart)
      BY <1>2, <1>3, <1>4, <1>6, <2>1, <2>4 DEF Contents
    <3>2. parts[i] = Run(Before(i), PartSize) BY <1>2, <1>4, <3>1
    <3>3. i < partIdx + 1 /\ ~(i = partIdx + 1) /\ ~(i > partIdx + 1) BY <1>2, <2>4
    <3>4. parts'[i] = parts[i] BY <1>6, <3>3
    <3>5. Before(i)' = Before(i) BY <1>4
    <3> QED BY <1>4, <3>2, <3>3, <3>4, <3>5
  <2>5. CASE i > partIdx + 1
    <3>1. parts[i] = W!OldUnits BY <1>2, <1>3, <1>4, <1>6, <2>1, <2>5 DEF Contents
    <3>2. i # partIdx + 1 BY <1>2, <2>5
    <3>3. parts'[i] = W!OldUnits BY <1>6, <3>1, <3>2, Zenon
    <3> QED BY <1>2, <1>4, <2>5, <3>3
  <2> QED BY <1>2, <2>2, <2>3, <2>4, <2>5
<1>14. W!KeptIsWhole' /\ W!GivenUpIsUndone' BY <1>1 DEF W!KeptIsWhole, W!GivenUpIsUndone, W!Finished
<1>15. W!PartsFit'
  <2>1. SUFFICES ASSUME conf.storage = "umsFat", NEW i \in 1..Len(parts')
        PROVE  Len(parts'[i]) <= Fat32Limit /\ (i < partIdx + 1 => Len(parts'[i]) = PartSize)
    BY <1>1, <1>3 DEF W!PartsFit
  <2>2. CASE i = partIdx + 1
    <3>1. parts'[i] = <<>> BY <1>6, <2>2
    <3> QED BY <1>2, <1>7, <2>2, <3>1
  <2>3. CASE i = partIdx
    <3>1. i # partIdx + 1 /\ PartSize <= Fat32Limit BY <1>2, <2>3
    <3>2. parts'[i] = parts[partIdx] BY <1>6, <2>3, <3>1
    <3>3. Len(parts'[i]) = PartSize BY <1>5, <3>2
    <3> QED BY <3>1, <3>3
  <2>4. CASE i # partIdx /\ i # partIdx + 1
    <3>1. i < partIdx + 1 => i < partIdx BY <1>2, <2>4
    <3> QED BY <1>1, <1>6, <2>1, <2>4, <3>1 DEF W!PartsFit
  <2> QED BY <2>2, <2>3, <2>4
<1> QED BY <1>9, <1>10, <1>11, <1>12, <1>13, <1>14, <1>15

LEMMA NextFileFailureKeeps == ASSUME FileInv, W!OpenNextFileFails PROVE FileInv'
<1> USE DEF FileInv
<1>1. /\ pc \in {"writing", "placeholder"} /\ W!InParts /\ fp' = FALSE /\ pc' = "failed"
      /\ UNCHANGED <<conf, curSize, partIdx, partSize, created, pending, cut, fed, parts, usbLeft, gone>>
  BY DEF W!OpenNextFileFails, W!Writing, W!write
<1>2. conf.total \in Nat /\ curSize \in Nat /\ conf.header \in Nat /\ pending \in Nat BY FileTypes
<1>3. conf.header = 0 => curSize < conf.total BY <1>1, <1>2 DEF Counted, Asked
<1>4. usbLeft' = 0 BY <1>1 DEF Counted, OnDevice, W!InParts
<1>5. fp' \in BOOLEAN BY <1>1, Zenon
<1>6. W!PartsFit' /\ parts' \in Seq(Seq(Int)) BY <1>1 DEF W!PartsFit, W!InParts, W!Split, W!TypeOK
<1> QED BY <1>1, <1>3, <1>4, <1>5, <1>6, FailureKeeps DEF Open

\* What the next fwrite may land in the open part file.
LEMMA FwriteSizeFits ==
    ASSUME FileInv, pc \in {"writing", "placeholder"}
    PROVE  /\ W!FwriteSize \in 0..pending
           /\ W!InParts => partSize + W!FwriteSize <= PartSize
           /\ Landed \in Nat /\ Landed + pending <= conf.total
           /\ pending <= conf.total - curSize
<1> USE DEF FileInv
<1>1. /\ PartSize \in Nat /\ partSize \in Nat /\ partSize <= PartSize /\ pending \in Nat
      /\ curSize \in Nat /\ conf.total \in Nat /\ conf.header \in Nat
  BY FileTypes
<1>2. W!FwriteSize \in 0..pending /\ (W!InParts => partSize + W!FwriteSize <= PartSize)
  BY <1>1 DEF W!FwriteSize, W!Smaller
<1>3. Landed \in Nat BY <1>1 DEF Counted, Open
<1>4. Landed + pending <= conf.total /\ pending <= conf.total - curSize
  <2>1. CASE pc = "writing" BY <1>1, <2>1 DEF Counted, Landed, Twice
  <2>2. CASE pc = "placeholder"
    <3>1. conf.header <= conf.total BY <1>1 DEF Asked
    <3> QED BY <1>1, <2>2, <3>1 DEF Counted, Landed, Twice
  <2> QED BY <2>1, <2>2
<1> QED BY <1>2, <1>3, <1>4

LEMMA LandedFits ==
    ASSUME FileInv, pc \in {"writing", "placeholder"}, NEW n \in 0..W!FwriteSize, W!Land(n),
           UNCHANGED <<conf, partIdx>>
    PROVE  /\ n \in 0..pending /\ parts' \in Seq(Seq(Int)) /\ W!PartsFit'
           /\ ~OnDevice => parts' = parts
           /\ OnDevice => /\ Len(parts') = Len(parts)
                          /\ \A i \in 1..Len(parts) : i # CurPart => parts'[i] = parts[i]
                          /\ Len(parts'[CurPart]) = InPart + n
                          /\ \A j \in 1..InPart : parts'[CurPart][j] = parts[CurPart][j]
                          /\ \A j \in 1..n : parts'[CurPart][InPart + j] = W!Units[j]
<1> USE DEF FileInv
<1>1. /\ n \in 0..pending /\ n \in Nat /\ Landed + n <= conf.total /\ Landed \in Nat
      /\ W!InParts => partSize + n <= PartSize
  <2>1. pending \in Nat /\ W!FwriteSize \in Nat /\ W!FwriteSize <= pending /\ Landed \in Nat
        /\ Landed + pending <= conf.total /\ (W!InParts => partSize + W!FwriteSize <= PartSize)
        /\ conf.total \in Nat /\ partSize \in Nat /\ PartSize \in Nat
    BY FileTypes, FwriteSizeFits
  <2> QED BY <2>1
<1>2. W!InParts' = W!InParts BY DEF W!InParts, W!Split
<1>3. CASE ~OnDevice
  <2>1. parts' = parts BY <1>3 DEF W!Land, OnDevice
  <2>2. W!PartsFit' BY <2>1, <1>2 DEF W!PartsFit
  <2> QED BY <1>1, <1>3, <2>1, <2>2 DEF W!TypeOK
<1>4. CASE OnDevice
  <2>1. CurPart \in 1..Len(parts) /\ Len(parts[CurPart]) = InPart BY <1>4 DEF Layout, Open
  <2>2. /\ parts' \in Seq(Seq(Int)) /\ Len(parts') = Len(parts)
        /\ \A i \in 1..Len(parts) : i # CurPart => parts'[i] = parts[i]
        /\ Len(parts'[CurPart]) = InPart + n
        /\ \A j \in 1..InPart : parts'[CurPart][j] = parts[CurPart][j]
        /\ \A j \in 1..n : parts'[CurPart][InPart + j] = W!Units[j]
    BY <1>1, <1>4, <2>1, LandedUnits
  <2>3. W!PartsFit'
    <3>1. SUFFICES ASSUME conf.storage = "umsFat", NEW i \in 1..Len(parts)
          PROVE  Len(parts'[i]) <= Fat32Limit /\ (W!InParts /\ i < partIdx => Len(parts'[i]) = PartSize)
      BY <1>2, <2>2 DEF W!PartsFit
    <3>2. CASE i # CurPart
      <4>1. parts'[i] = parts[i] BY <2>2, <3>2
      <4> QED BY <3>1, <4>1 DEF W!PartsFit
    <3>3. CASE i = CurPart
      <4>1. /\ PartSize \in Nat /\ Fat32Limit \in Nat /\ PartSize <= Fat32Limit /\ conf.total \in Nat
            /\ partIdx \in Nat /\ partSize \in Nat
        BY FileTypes
      <4>2. InPart + n <= Fat32Limit
        <5>1. CASE W!InParts BY <1>1, <4>1, <5>1 DEF InPart
        <5>2. CASE ~W!InParts
          <6>1. conf.total <= Fat32Limit BY <3>1, <4>1, <5>2 DEF W!InParts, W!Split
          <6> QED BY <1>1, <4>1, <5>2, <6>1 DEF InPart
        <5> QED BY <5>1, <5>2
      <4>3. ~(W!InParts /\ i < partIdx) BY <3>3, <4>1 DEF CurPart
      <4>4. Len(parts'[i]) = InPart + n BY <2>2, <3>3
      <4> QED BY <4>2, <4>3, <4>4
    <3> QED BY <3>2, <3>3
  <2> QED BY <1>1, <1>4, <2>2, <2>3
<1> QED BY <1>3, <1>4

LEMMA FwriteFailureKeeps == ASSUME FileInv, W!FwriteFails PROVE FileInv'
<1> USE DEF FileInv
<1>1. /\ pc \in {"writing", "placeholder"} /\ pc' = "failed" /\ usbLeft' = 0 /\ W!FwriteSize # 0
      /\ UNCHANGED <<conf, curSize, partIdx, partSize, fp, created, pending, cut, fed, gone>>
  BY DEF W!FwriteFails, W!ReadyToWrite, W!Writing, W!object, W!write
<1>2. /\ conf.total \in Nat /\ curSize \in Nat /\ pending \in Nat /\ pending > 0
      /\ W!FwriteSize \in Nat /\ pending <= conf.total - curSize
  BY <1>1, FileTypes, FwriteSizeFits DEF Asked
<1>3. curSize < conf.total BY <1>2
<1>4. parts' \in Seq(Seq(Int)) /\ W!PartsFit'
  <2>1. CASE gone
    <3>1. parts' = parts BY <2>1 DEF W!FwriteFails
    <3> QED BY <1>1, <3>1 DEF W!PartsFit, W!InParts, W!Split, W!TypeOK
  <2>2. CASE ~gone
    <3>1. PICK n \in 0..(W!FwriteSize - 1) : W!Land(n) BY <2>2 DEF W!FwriteFails
    <3>2. n \in 0..W!FwriteSize BY <1>2
    <3> QED BY <1>1, <3>1, <3>2, LandedFits
  <2> QED BY <2>1, <2>2
<1>5. fp' \in BOOLEAN BY <1>1 DEF W!TypeOK
<1> QED BY <1>1, <1>3, <1>4, <1>5, FailureKeeps DEF Open

\* Units that continue a run make a longer one.
LEMMA LongerRun ==
    ASSUME NEW b \in Nat, NEW m \in Nat, NEW n \in Nat, NEW t \in Seq(Int), Len(t) = m + n,
           \A j \in 1..m : t[j] = b + j, \A j \in 1..n : t[m + j] = b + m + j
    PROVE  t = Run(b, m + n)
<1>1. \A j \in 1..m + n : t[j] = b + j
  <2>1. SUFFICES ASSUME NEW j \in 1..m + n, j > m PROVE t[j] = b + j OBVIOUS
  <2> DEFINE k == j - m
  <2>2. k \in 1..n /\ m + k = j BY <2>1
  <2>3. t[m + k] = b + m + k BY <2>2
  <2> QED BY <2>2, <2>3
<1>2. DOMAIN t = 1..m + n /\ t \in [1..m + n -> Int] BY LenProperties
<1> QED BY <1>1, <1>2 DEF Run

\* fwrite or usbSendFileData succeeds: the units are the next ones of the file.
LEMMA FwriteKeeps == ASSUME FileInv, W!FwriteDone PROVE FileInv'
<1> USE DEF FileInv
<1> DEFINE n == W!FwriteSize
<1>1. /\ pc \in {"writing", "placeholder"} /\ ~gone /\ W!Land(n)
      /\ partSize' = IF W!InParts THEN partSize + n ELSE partSize
      /\ pending' = pending - n
      /\ usbLeft' = IF conf.storage = "usb" THEN usbLeft - n ELSE 0
      /\ fed' = IF pc = "placeholder" THEN fed ELSE fed + n + (IF pending' = 0 THEN cut ELSE 0)
      /\ curSize' = curSize + n + (IF pc = "placeholder" /\ pending' = 0 THEN conf.header ELSE 0)
      /\ pc' = (IF pending' = 0 THEN "idle" ELSE pc)
      /\ cut' = (IF pending' = 0 THEN 0 ELSE cut)
      /\ UNCHANGED <<conf, partIdx, fp, created, gone>>
  BY DEF W!FwriteDone, W!ReadyToWrite, W!Writing
<1>2. /\ n \in 0..pending /\ (W!InParts => partSize + n <= PartSize)
      /\ Landed \in Nat /\ Landed + pending <= conf.total /\ pending <= conf.total - curSize
  BY <1>1, FwriteSizeFits
<1>3. n \in 0..W!FwriteSize /\ n \in Nat
  <2>1. pending \in Nat BY FileTypes
  <2> QED BY <1>2, <2>1
<1>4. /\ parts' \in Seq(Seq(Int)) /\ W!PartsFit'
      /\ OnDevice => /\ Len(parts') = Len(parts)
                     /\ \A i \in 1..Len(parts) : i # CurPart => parts'[i] = parts[i]
                     /\ Len(parts'[CurPart]) = InPart + n
                     /\ \A j \in 1..InPart : parts'[CurPart][j] = parts[CurPart][j]
                     /\ \A j \in 1..n : parts'[CurPart][InPart + j] = W!Units[j]
  BY <1>1, <1>3, LandedFits
<1> HIDE DEF n
<1>5. /\ PartSize \in Nat /\ conf.total \in Nat /\ conf.header \in Nat /\ curSize \in Nat
      /\ partIdx \in Nat /\ partSize \in Nat /\ pending \in Nat /\ cut \in Nat /\ fed \in Nat
      /\ usbLeft \in Nat /\ pending > 0
  BY <1>1, FileTypes DEF Asked
<1>6. /\ Open /\ Open' /\ OnDevice' = OnDevice /\ W!InParts' = W!InParts
      /\ W!PartCount' = W!PartCount
  BY <1>1 DEF Open, OnDevice, W!InParts, W!Split, W!PartCount
<1>7. pc = "placeholder" => pending = conf.header - curSize /\ Landed = curSize /\ conf.header > 0
  BY <1>5 DEF Counted, Landed, Twice
<1>8. pc = "writing" => Landed = curSize - conf.header /\ conf.header <= Landed
  BY DEF Counted, Landed, Twice
<1>9. Landed' = Landed + n
  BY <1>1, <1>2, <1>3, <1>5, <1>7, <1>8 DEF Landed, Twice
<1>10. /\ CurPart' = CurPart /\ InPart' = InPart + n
       /\ \A i : Before(i)' = Before(i)
  BY <1>1, <1>6, <1>9 DEF CurPart, InPart, Before
<1>11. ASSUME conf.header = 0 PROVE pc = "writing" /\ fed = curSize /\ cut = 0 /\ fed' = curSize' /\ cut' = 0
  <2>1. pc = "writing" BY <1>1, <1>5, <1>7, <1>11
  <2>2. fed = curSize /\ cut = 0 BY <1>6, <1>11 DEF Counted
  <2> QED BY <1>1, <1>3, <1>5, <2>1, <2>2, <1>11
<1>12. usbLeft' = IF ~OnDevice THEN conf.total - curSize' ELSE 0
  <2>1. CASE OnDevice BY <1>1, <2>1 DEF OnDevice
  <2>2. CASE ~OnDevice
    <3>1. conf.header = 0 /\ usbLeft = conf.total - curSize BY <1>1, <1>6, <2>2 DEF Asked, Counted
    <3>2. curSize' = curSize + n BY <1>1, <1>3, <1>5, <1>11, <3>1
    <3> QED BY <1>1, <1>3, <1>5, <2>2, <3>1, <3>2 DEF OnDevice
  <2> QED BY <2>1, <2>2
<1>13. W!TypeOK'
  <2>1. /\ pc' \in {"none", "placeholder", "idle", "writing", "failed", "closed"}
    BY <1>1
  <2>2. pending' \in Nat /\ cut' \in Nat /\ fed' \in Nat /\ curSize' \in Nat
    BY <1>1, <1>2, <1>3, <1>5
  <2>3. partSize' \in 0..PartSize
    <3>1. partSize \in 0..PartSize BY DEF W!TypeOK
    <3> QED BY <1>1, <1>2, <1>3, <1>5, <3>1
  <2>4. usbLeft' \in Nat
    <3>1. CASE OnDevice BY <1>12, <3>1
    <3>2. CASE ~OnDevice
      <4>1. usbLeft = conf.total - curSize BY <1>1, <1>6, <3>2 DEF Counted
      <4> QED BY <1>1, <1>2, <1>3, <1>5, <3>2, <4>1 DEF OnDevice
    <3> QED BY <3>1, <3>2
  <2> QED BY <1>1, <1>4, <2>1, <2>2, <2>3, <2>4 DEF W!TypeOK
<1>14. Asked' /\ Fresh'
  <2>1. pc' \in {"writing", "placeholder"} => pending' > 0 BY <1>1, <1>2, <1>3, <1>5
  <2>2. pc' # "none" /\ created' BY <1>1 DEF Asked
  <2>3. ~W!InParts => partSize' = 0 BY <1>1 DEF Asked
  <2> QED BY <1>1, <1>6, <2>1, <2>2, <2>3 DEF Asked, Fresh
<1>15. Counted'
  <2>1. pc' = "placeholder" => pending' = conf.header - curSize' BY <1>1, <1>3, <1>5, <1>7
  <2>2. pc' = "writing" => pending' <= conf.total - curSize' BY <1>1, <1>2, <1>3, <1>5
  <2>3. Landed' \in 0..conf.total BY <1>2, <1>3, <1>5, <1>9
  <2>4. pc' \in {"idle", "writing"} => conf.header <= Landed'
    <3>1. CASE pc = "writing" BY <1>2, <1>3, <1>5, <1>8, <1>9, <3>1
    <3>2. CASE pc = "placeholder" BY <1>1, <1>2, <1>3, <1>5, <1>7, <1>9, <3>2
    <3> QED BY <1>1, <3>1, <3>2
  <2>5. pc' # "failed" BY <1>1
  <2> QED BY <1>1, <1>6, <1>11, <1>12, <2>1, <2>2, <2>3, <2>4, <2>5 DEF Counted
<1>16. Layout'
  <2>1. SUFFICES ASSUME OnDevice PROVE Layout' BY <1>6 DEF Layout
  <2>2. /\ CurPart \in 1..Len(parts) /\ Len(parts[CurPart]) = InPart
        /\ Landed = Before(CurPart) + InPart
        /\ W!InParts => partIdx <= W!PartCount
        /\ ~W!InParts => Len(parts) = 1
    BY <1>6, <2>1 DEF Layout
  <2>3. Landed' = Before(CurPart)' + InPart'
    <3>1. Before(CurPart) \in Int /\ InPart \in Int
      BY <1>2, <1>5 DEF Before, InPart, CurPart
    <3> QED BY <1>3, <1>9, <1>10, <2>2, <3>1
  <2> QED BY <1>1, <1>4, <1>6, <1>10, <2>1, <2>2, <2>3 DEF Layout
<1>17. Contents'
  <2>1. SUFFICES ASSUME OnDevice, conf.header = 0, NEW i \in 1..Len(parts)
        PROVE  /\ i < CurPart => parts'[i] = Run(Before(i), PartSize)
               /\ i = CurPart => parts'[i] = Run(Before(i), InPart + n)
               /\ i > CurPart => parts'[i] = W!OldUnits
    BY <1>1, <1>4, <1>6, <1>10 DEF Contents
  <2>2. /\ i < CurPart => parts[i] = Run(Before(i), PartSize)
        /\ i = CurPart => parts[i] = Run(Before(i), InPart)
        /\ i > CurPart => parts[i] = W!OldUnits
    BY <1>6, <2>1 DEF Contents
  <2>3. CASE i # CurPart BY <1>4, <2>1, <2>2, <2>3
  <2>4. CASE i = CurPart
    <3>1. Before(i) \in Nat /\ InPart \in Nat /\ Landed = Before(i) + InPart
      <4>1. i \in Nat /\ i >= 1 /\ Landed = Before(i) + InPart BY <1>6, <2>1, <2>4 DEF Layout
      <4> QED BY <1>2, <1>5, <4>1 DEF Before, InPart
    <3>2. pc = "writing" /\ fed = Landed BY <1>5, <1>8, <1>11, <2>1
    <3>3. \A j \in 1..n : W!Units[j] = fed + j
      <4>1. \A j \in 1..n : j \in 1..pending BY <1>2, <1>3, <1>5
      <4> QED BY <3>2, <4>1 DEF W!Units, W!DataUnits
    <3>4. \A j \in 1..InPart : parts'[i][j] = Before(i) + j
      BY <1>4, <2>1, <2>2, <2>4 DEF Run
    <3>5. \A j \in 1..n : parts'[i][InPart + j] = Before(i) + InPart + j
      BY <1>3, <1>4, <2>1, <2>4, <3>1, <3>2, <3>3
    <3>6. parts'[i] \in Seq(Int) /\ Len(parts'[i]) = InPart + n
      <4>1. i \in 1..Len(parts') BY <1>4, <2>1
      <4> QED BY <1>4, <2>1, <2>4, <4>1, ElementOfSeq
    <3>7. parts'[i] = Run(Before(i), InPart + n) BY <1>3, <3>1, <3>4, <3>5, <3>6, LongerRun
    <3> QED BY <2>4, <3>7
  <2> QED BY <2>3, <2>4
<1>18. W!KeptIsWhole' /\ W!GivenUpIsUndone' BY <1>1 DEF W!KeptIsWhole, W!GivenUpIsUndone, W!Finished
<1> QED BY <1>4, <1>13, <1>14, <1>15, <1>16, <1>17, <1>18

\* The header takes the place of the placeholder: no part file changes its size.
LEMMA HeaderKeeps == ASSUME FileInv, W!WriteNspHeader PROVE FileInv'
<1> USE DEF FileInv
<1> DEFINE rest1 == SubSeq(parts[1], conf.header + 1, Len(parts[1]))
           new == W!HeaderUnits(conf.header) \o rest1
<1>1. /\ pc = "idle" /\ conf.header # 0 /\ parts' = [parts EXCEPT ![1] = new] /\ fp' = FALSE
      /\ UNCHANGED <<pc, conf, curSize, partIdx, partSize, created, pending, cut, fed, usbLeft, gone>>
  BY DEF W!WriteNspHeader, W!write
<1>2. /\ PartSize \in Nat /\ conf.header \in Nat /\ Landed \in Nat /\ partIdx \in Nat /\ Len(parts) \in Nat
  BY <1>1, FileTypes DEF Counted, Open
<1>3. OnDevice /\ Open BY <1>1 DEF Asked, Open
<1>4. /\ CurPart \in 1..Len(parts) /\ Len(parts[CurPart]) = InPart /\ Landed = Before(CurPart) + InPart
      /\ conf.header <= Landed /\ conf.header <= PartSize
  BY <1>1, <1>3 DEF Layout, Counted, Asked
<1>5. 1 \in 1..Len(parts) BY <1>2, <1>4
<1>6. parts[1] \in Seq(Int) /\ Len(parts[1]) \in Nat BY <1>5, FileTypes
<1>7. conf.header <= Len(parts[1])
  <2>1. CASE CurPart = 1
    <3>1. InPart \in Int /\ Before(1) = 0 BY <1>2, <1>4, <1>6, <2>1 DEF Before
    <3> QED BY <1>2, <1>4, <2>1, <3>1
  <2>2. CASE CurPart # 1
    <3>1. W!InParts /\ 1 < partIdx BY <1>2, <1>4, <2>2 DEF CurPart
    <3>2. conf.storage = "umsFat" BY <3>1 DEF W!InParts
    <3>3. Len(parts[1]) = PartSize BY <1>5, <3>1, <3>2 DEF W!PartsFit
    <3> QED BY <1>4, <3>3
  <2> QED BY <2>1, <2>2
<1>8. rest1 \in Seq(Int) /\ Len(rest1) = Len(parts[1]) - conf.header
  <2>1. \A i \in conf.header + 1..Len(parts[1]) : parts[1][i] \in Int BY <1>2, <1>6, ElementOfSeq
  <2>2. conf.header + 1 \in Int /\ Len(parts[1]) \in Int BY <1>2, <1>6
  <2>3. /\ rest1 \in Seq(Int)
        /\ Len(rest1) = IF conf.header + 1 <= Len(parts[1])
                        THEN Len(parts[1]) - (conf.header + 1) + 1 ELSE 0
    BY <2>1, <2>2, SubSeqProperties
  <2> HIDE DEF rest1
  <2> QED BY <1>2, <1>6, <1>7, <2>3
<1>9. W!HeaderUnits(conf.header) \in Seq(Int) /\ Len(W!HeaderUnits(conf.header)) = conf.header
  <2>1. W!HeaderUnits(conf.header) \in [1..conf.header -> Int] BY <1>2 DEF W!HeaderUnits
  <2> QED BY <1>2, <2>1, SeqOfLen
<1> HIDE DEF rest1
<1>10. new \in Seq(Int) /\ Len(new) = Len(parts[1])
  <2>1. new \in Seq(Int) /\ Len(new) = Len(W!HeaderUnits(conf.header)) + Len(rest1)
    BY <1>8, <1>9, ConcatProperties
  <2> HIDE DEF new
  <2> QED BY <1>2, <1>6, <1>8, <1>9, <2>1
<1> HIDE DEF new
<1>11. /\ parts' \in Seq(Seq(Int)) /\ Len(parts') = Len(parts)
       /\ \A i \in 1..Len(parts) : Len(parts'[i]) = Len(parts[i])
  <2>1. parts \in Seq(Seq(Int)) BY FileTypes
  <2>2. /\ parts' \in Seq(Seq(Int)) /\ Len(parts') = Len(parts)
        /\ \A i \in 1..Len(parts) : parts'[i] = IF i = 1 THEN new ELSE parts[i]
    BY <1>1, <1>5, <1>10, <2>1, ExceptSeq
  <2> QED BY <1>10, <2>2
<1>12. /\ Open' /\ OnDevice' = OnDevice /\ W!InParts' = W!InParts /\ W!PartCount' = W!PartCount
       /\ CurPart' = CurPart /\ InPart' = InPart /\ Before(CurPart)' = Before(CurPart) /\ Landed' = Landed
  BY <1>1, <1>3 DEF Open, OnDevice, W!InParts, W!Split, W!PartCount, CurPart, InPart, Before, Landed, Twice
<1>13. W!TypeOK'
  <2>1. fp' \in BOOLEAN BY <1>1, Zenon
  <2> QED BY <1>1, <1>11, <2>1 DEF W!TypeOK
<1>14. Asked' /\ Fresh' BY <1>1, <1>12 DEF Asked, Fresh
<1>15. Counted' BY <1>1, <1>12 DEF Counted, Open
<1>16. Layout' BY <1>1, <1>3, <1>4, <1>11, <1>12 DEF Layout
<1>17. Contents' BY <1>1 DEF Contents
<1>18. W!KeptIsWhole' /\ W!GivenUpIsUndone' BY <1>1 DEF W!KeptIsWhole, W!GivenUpIsUndone, W!Finished
<1>19. W!PartsFit' BY <1>1, <1>11, <1>12 DEF W!PartsFit
<1> QED BY <1>13, <1>14, <1>15, <1>16, <1>17, <1>18, <1>19

-----------------------------------------------------------------------------
(***************************************************************************)
(* The copy.                                                               *)
(***************************************************************************)

\* The read that is under way is the next block of the file, and its place in
\* the image is where the file has got to, behind the key area.
BlockIsNext ==
    conf.total # 0 /\ at \in {"read", "done", "failed"} =>
        /\ Copying /\ first = ImageOffset /\ size > 0 /\ size <= W!DataSize - fed

CopyInv == ReadInv /\ FileInv /\ BlockIsNext /\ prepends \in BOOLEAN

LEMMA InitCopyInv == CopyInit => CopyInv
  BY InitReadInv, InitFileInv DEF CopyInit, CopyInv, BlockIsNext, Init

LEMMA CardStays == ASSUME ReadInv, UNCHANGED card PROVE ReadInv'
  BY DEF card, vars, ReadInv, TypeOK, Progress, ReadIsExact, Loaded, ReadSucceeds, sizes, call

\* No block is being read while the file is created or written.
LEMMA NoBlock ==
    ASSUME CopyInv, pc # "idle", conf.total # 0
    PROVE  at \notin {"read", "done", "failed"}
  BY DEF CopyInv, BlockIsNext, Copying

\* A step of the file that leaves the card alone, while no block is read.
LEMMA FileStepKeeps ==
    ASSUME CopyInv, FileInv', UNCHANGED <<card, prepends, conf>>,
           conf.total # 0 => at \notin {"read", "done", "failed"}
    PROVE  CopyInv'
  BY CardStays DEF CopyInv, BlockIsNext, card, vars

LEMMA FileKeeps == ASSUME CopyInv, File PROVE CopyInv'
<1>1. FileInv'
  BY ConstructKeeps, ThrowKeeps, NextFileKeeps, NextFileFailureKeeps, FwriteKeeps, FwriteFailureKeeps
     DEF File, W!Constructor, W!Files, CopyInv
<1>2. UNCHANGED conf /\ pc # "idle"
  BY DEF File, W!Constructor, W!Files, W!ConstructorThrows, W!Construct, W!CreateFails, W!OpenNextFile,
         W!OpenNextFileFails, W!FwriteDone, W!FwriteFails, W!ReadyToWrite, W!Writing
<1> QED BY <1>1, <1>2, NoBlock, FileStepKeeps DEF File

LEMMA WriteKeyAreaKeeps == ASSUME CopyInv, WriteKeyArea PROVE CopyInv'
<1>1. KeyArea \in Nat \ {0} /\ prepends /\ fed = 0 /\ UNCHANGED <<card, prepends, conf>>
  BY SizesAssumption DEF WriteKeyArea, W!Write
<1>2. FileInv' BY <1>1, WriteKeeps DEF WriteKeyArea, CopyInv
<1>3. conf.total # 0 => at \notin {"read", "done", "failed"}
  BY <1>1 DEF CopyInv, BlockIsNext, Copying, KeySize
<1> QED BY <1>1, <1>2, <1>3, FileStepKeeps

LEMMA ReadBlockKeeps == ASSUME CopyInv, NEW n \in BlockSizes, ReadBlock(n) PROVE CopyInv'
<1> USE DEF CopyInv
<1>1. n \in Nat \ {0} BY SizesAssumption
<1>2. /\ Copying /\ Call(ImageOffset, W!Block(n)) /\ UNCHANGED <<file, prepends>> BY DEF ReadBlock
<1>3. fed \in Nat /\ W!DataSize \in Int /\ fed < W!DataSize /\ KeySize \in Nat /\ KeySize <= fed
  BY <1>2, FileTypes, SizesAssumption DEF Copying, KeySize, FileInv
<1>4. /\ ImageOffset \in Nat /\ W!Block(n) \in Nat /\ W!Block(n) > 0 /\ W!Block(n) <= W!DataSize - fed
  BY <1>1, <1>3 DEF ImageOffset, W!Block, W!Smaller
<1>5. ReadInv' BY <1>2, <1>4, CallKeeps
<1>6. BlockIsNext'
  BY <1>2, <1>4 DEF BlockIsNext, Call, Copying, ImageOffset, KeySize, W!DataSize, file
<1> QED BY <1>2, <1>5, <1>6, FileStays

LEMMA WriteBlockKeeps == ASSUME CopyInv, WriteBlock PROVE CopyInv'
<1> USE DEF CopyInv
<1>1. /\ Copying /\ at = "done" /\ at' = "idle" /\ UNCHANGED <<sizes, call, offset, left, rest, out>>
      /\ UNCHANGED prepends
  BY DEF WriteBlock, Return
<1>2. ReadInv' BY <1>1, ReturnKeeps
<1>3. conf.total # 0
  BY <1>1, FileTypes DEF Copying, W!DataSize, FileInv
<1>4. size \in Nat \ {0} BY <1>1, <1>3, ReadTypes DEF BlockIsNext, ReadInv
<1>5. FileInv' BY <1>4, WriteKeeps, RefusalKeeps DEF WriteBlock
<1> QED BY <1>1, <1>2, <1>5 DEF BlockIsNext

LEMMA StopsKeeps == ASSUME CopyInv, Stops PROVE CopyInv'
<1>1. at # "off" /\ at' = "idle" /\ UNCHANGED <<sizes, call, offset, left, rest, out, prepends>>
  BY DEF Stops
<1>2. ReadInv' BY <1>1, ReturnKeeps DEF CopyInv
<1>3. FileInv' BY CloseKeeps DEF Stops, CopyInv
<1> QED BY <1>1, <1>2, <1>3 DEF CopyInv, BlockIsNext

LEMMA CardStepKeeps == ASSUME CopyInv, CardStep PROVE CopyInv'
<1> USE DEF CopyInv
<1>1. ReadInv' BY StepKeeps DEF CardStep
<1>2. at = "read" /\ UNCHANGED <<first, size, file, prepends>>
  BY DEF CardStep, Step, Split, ReadAligned, ReadUnaligned, ReadFails, Continue, sizes, call
<1>3. BlockIsNext' BY <1>2 DEF BlockIsNext, Copying, ImageOffset, KeySize, W!DataSize, file
<1> QED BY <1>1, <1>2, <1>3, FileStays

\* Reads that have nothing to do with the file.
LEMMA OtherReadKeeps == ASSUME CopyInv, OtherRead PROVE CopyInv'
<1> USE DEF CopyInv
<1>1. conf.total = 0 /\ UNCHANGED <<file, prepends>> BY DEF OtherRead
<1>2. ReadInv'
  <2>1. CASE Return BY <2>1, ReturnKeeps DEF Return
  <2>2. ASSUME NEW o \in 0..total, NEW n \in 0..total, Call(o, n) PROVE ReadInv'
    <3>1. o \in Nat /\ n \in Nat BY ReadTypes DEF ReadInv
    <3> QED BY <2>2, <3>1, CallKeeps
  <2> QED BY <2>1, <2>2 DEF OtherRead
<1>3. BlockIsNext' BY <1>1 DEF BlockIsNext, file
<1> QED BY <1>1, <1>2, <1>3, FileStays

LEMMA NextCopyInv == CopyInv /\ [CopyNext]_copyvars => CopyInv'
<1> SUFFICES ASSUME CopyInv, [CopyNext]_copyvars PROVE CopyInv' OBVIOUS
<1> USE DEF CopyInv
<1>1. CASE GetSize
  <2>1. ReadInv' BY <1>1, LoadKeeps DEF GetSize
  <2>2. FileInv' BY <1>1, FileStays DEF GetSize
  <2> QED BY <1>1, <2>1, <2>2 DEF GetSize, LoadSizes, BlockIsNext
<1>2. CASE Nsp
  <2>1. at = "idle" /\ UNCHANGED <<card, prepends, conf>>
    BY <1>2 DEF Nsp, W!WriteNspHeader, W!WriteNspHeaderFails
  <2>2. FileInv' BY <1>2, HeaderKeeps, RefusalKeeps DEF Nsp
  <2> QED BY <2>1, <2>2, FileStepKeeps
<1>3. CASE Unplugged
  <2>1. UNCHANGED <<card, prepends, pc, conf, fed>> BY <1>3 DEF Unplugged, W!Unplug, W!write
  <2>2. FileInv' BY <1>3, UnplugKeeps DEF Unplugged
  <2>3. BlockIsNext'
    BY <2>1 DEF BlockIsNext, Copying, ImageOffset, KeySize, W!DataSize, card, vars, call
  <2> QED BY <2>1, <2>2, <2>3, CardStays
<1>4. CASE UNCHANGED copyvars
  <2>1. UNCHANGED card /\ UNCHANGED file /\ UNCHANGED prepends BY <1>4 DEF copyvars
  <2>2. BlockIsNext'
    BY <2>1 DEF BlockIsNext, Copying, ImageOffset, KeySize, W!DataSize, card, vars, call, file
  <2> QED BY <2>1, <2>2, CardStays, FileStays
<1> QED BY <1>1, <1>2, <1>3, <1>4, FileKeeps, WriteKeyAreaKeeps, WriteBlockKeeps, StopsKeeps,
           ReadBlockKeeps, CardStepKeeps, OtherReadKeeps DEF CopyNext, Copies

\* For every image, every block size and every place a dump is written to, the
\* file FileWriter keeps is the image: each block holds the bytes that come next
\* in the file, each unit of it lands once and in order, over part files FAT32
\* can hold, and what is given up is removed and its transfer closed.
THEOREM FileIsAlwaysImage == CopySpec => []FileIsImage
<1>1. CopyInv => FileIsImage
  <2>1. SUFFICES ASSUME CopyInv PROVE FileIsImage OBVIOUS
  <2>2. ASSUME Copying, at = "done"
        PROVE  size <= W!DataSize - fed /\ \A i \in 0..size - 1 : out[i] = ImageOffset + i
    <3>1. conf.total # 0 BY <2>1, <2>2, FileTypes DEF Copying, W!DataSize, FileInv, CopyInv
    <3> QED BY <2>1, <2>2, <3>1 DEF CopyInv, BlockIsNext, ReadInv, ReadIsExact
  <2> QED BY <2>1, <2>2 DEF CopyInv, ReadInv, FileInv, FileIsImage
<1> QED BY <1>1, InitCopyInv, NextCopyInv, PTL DEF CopySpec

\* Every variable of FileWriter keeps its type on the way: no count of what is
\* left of a block, a part file or a transfer underflows.
THEOREM WriterTypeCorrect == CopySpec => []W!TypeOK
<1>1. CopyInv => W!TypeOK BY DEF CopyInv, FileInv
<1> QED BY <1>1, InitCopyInv, NextCopyInv, PTL DEF CopySpec
=============================================================================
