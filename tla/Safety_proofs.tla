--------------------------- MODULE Safety_proofs ---------------------------
(***************************************************************************)
(* Proofs about the safety thread, for every set of pids and series, all   *)
(* sizes, and every number of samples and restarts: first the crash        *)
(* recorder of SafetyStatus (types, the indicator, the end of a record,    *)
(* its refinement, the samples before the crash), then the recorder and    *)
(* the driver assistance in any number of threads, which agree on every    *)
(* crash but in turns that overlap.                                        *)
(***************************************************************************)
EXTENDS Safety, FiniteSetTheorems, TLAPS

Cbufs == [buf : [C!Slots -> Nat], index : Nat]

(* What a write, and a dump, make of a buffer is a buffer again, and a     *)
(* dump sends BeforeSize entries.                                          *)
LEMMA WriteMailType ==
  ASSUME NEW c \in Cbufs, NEW m \in Nat
  PROVE  C!WriteMail(c, m) \in Cbufs
<1>1. [i \in C!Slots |-> IF i = c.index THEN m ELSE c.buf[i]]
        \in [C!Slots -> Nat]
  BY DEF Cbufs
<1>2. (IF c.index + 1 >= BeforeSize THEN 0 ELSE c.index + 1) \in Nat
  BY SizesAssumption DEF Cbufs
<1> QED
  BY <1>1, <1>2 DEF C!WriteMail, Cbufs

(* What a dump reads is at a number, inside or outside of the buffer.      *)
LEMMA AheadByType ==
  ASSUME NEW index \in Nat, NEW i \in Nat
  PROVE  C!AheadBy(C!DumpStart(index), i) \in Nat
<1>1. (BeforeSize + 1) % BeforeSize \in 0 .. BeforeSize - 1
  BY SizesAssumption
<1>2. C!DumpStart(index) \in Nat
  BY <1>1, SizesAssumption DEF C!DumpStart, C!MoveIndex
<1>3. (C!DumpStart(index) + i) % BeforeSize \in 0 .. BeforeSize - 1
  BY <1>2, SizesAssumption
<1> QED
  BY <1>2, <1>3, SizesAssumption DEF C!AheadBy

(* A dump leaves a buffer, and sends BeforeSize entries.                   *)
LEMMA DumpType ==
  ASSUME NEW c \in Cbufs
  PROVE  /\ C!DumpedCbuf(c) \in Cbufs
         /\ C!DumpMails(c) \in [1 .. BeforeSize -> C!Entry]
<1>1. c.index \in Nat /\ c.buf \in [C!Slots -> Nat]
  BY DEF Cbufs
<1>2. C!AheadBy(C!DumpStart(c.index), BeforeSize) \in Nat
  BY <1>1, AheadByType, SizesAssumption
<1>3. C!DumpedCbuf(c) \in Cbufs
  BY <1>1, <1>2 DEF C!DumpedCbuf, Cbufs
<1>4. ASSUME NEW i \in 1 .. BeforeSize
      PROVE  C!Cell(c, C!AheadBy(C!DumpStart(c.index), i)) \in C!Entry
  BY <1>1 DEF C!Cell, C!Entry, C!Outside
<1> QED
  BY <1>3, <1>4 DEF C!DumpMails

(* A zeroed buffer is a buffer.                                            *)
LEMMA FreshType == C!Fresh \in Cbufs
BY DEF C!Fresh, C!Unwritten, Cbufs

(* Before the first crash the recorder has sent nothing.                   *)
LEMMA NoDumpType == NoDump \in [Series -> [1 .. BeforeSize -> C!Entry]]
BY DEF NoDump, C!Unwritten, C!Entry

-----------------------------------------------------------------------------
(* The shape of a step: a crash, a sample while recording, or a sample     *)
(* while armed.                                                            *)
LEMMA SampleCases ==
  ASSUME NEW p \in Pids, NEW shift \in -1 .. 1, Sample(p, shift)
  PROVE  \/ Crash(Updated(p)) /\ crash_status = 0
         \/ Record(p) /\ crash_status = 2
         \/ UNCHANGED <<crash_status, logVars, dumpVars>>
BY DEF Sample, CrashDetected

(* The types of the variables hold in every reachable state.               *)
THEOREM TypeCorrect == Spec => []TypeOK
<1> USE DEF Cbufs
<1>1. Init => TypeOK
  BY SizesAssumption, FreshType, NoDumpType DEF Init, Zeroed, TypeOK
<1>2. TypeOK /\ [Next]_vars => TypeOK'
  <2> SUFFICES ASSUME TypeOK, [Next]_vars
               PROVE  TypeOK'
    OBVIOUS
  <2>1. ASSUME NEW p \in Pids, NEW shift \in -1 .. 1, Sample(p, shift)
        PROVE  TypeOK'
    <3>1. mean_i' \in [Pids -> Nat] /\ restarts' \in Nat
      BY <2>1 DEF Sample, TypeOK
    <3>2. Updated(p) \in [Series -> Cbufs]
      <4> SUFFICES ASSUME NEW s \in Series
                   PROVE  IF s \in SeriesOf[p]
                            THEN C!WriteMail(cbuf[s], mean_i[p] + 1) \in Cbufs
                            ELSE cbuf[s] \in Cbufs
        BY DEF Updated
      <4>1. cbuf[s] \in Cbufs /\ mean_i[p] + 1 \in Nat
        BY DEF TypeOK
      <4> QED
        BY <4>1, WriteMailType
    <3>3. CASE Crash(Updated(p))
      <4>1. cbuf' \in [Series -> Cbufs]
        BY <3>2, <3>3, DumpType DEF Crash
      <4>2. dump' \in [Series -> [1 .. BeforeSize -> C!Entry]]
        BY <3>2, <3>3, DumpType DEF Crash
      <4> QED
        BY <3>1, <3>3, <4>1, <4>2 DEF Crash, TypeOK, logVars
    <3>4. CASE Record(p) /\ cbuf' = Updated(p)
      <4>1. after' \in [Series -> 0 .. AfterSize + 1]
        BY <3>4, SizesAssumption DEF Record, CountRows, Counted, TypeOK
      <4>2. IsFiniteSet(Completing(p))
        BY SizesAssumption, SeriesAssumption, FS_Subset DEF Completing
      <4>3. indicator + Cardinality(Completing(p)) \in Nat
        BY <4>2, FS_CardinalityType DEF TypeOK
      <4>4. /\ crash_status' \in {0, 2}
            /\ indicator' \in Nat
            /\ ends' \in Nat
        BY <3>4, <4>3 DEF Record, TypeOK
      <4> QED
        BY <3>1, <3>2, <3>4, <4>1, <4>4 DEF Record, TypeOK, dumpVars
    <3>5. CASE UNCHANGED <<crash_status, logVars, dumpVars>>
               /\ cbuf' = Updated(p)
      BY <3>1, <3>2, <3>5 DEF TypeOK, logVars, dumpVars
    <3> QED
      BY <2>1, <3>3, <3>4, <3>5 DEF Sample
  <2>2. CASE Restart
    BY <2>2, SizesAssumption, FreshType, NoDumpType DEF Restart, Zeroed, TypeOK
  <2>3. CASE UNCHANGED vars
    BY <2>3 DEF vars, logVars, dumpVars, TypeOK
  <2> QED
    BY <2>1, <2>2, <2>3 DEF Next
<1> QED
  BY <1>1, <1>2, PTL DEF Spec

-----------------------------------------------------------------------------
(* The history of a record.  IndicatorCounts alone does not bound ends: a  *)
(* second END would need a series that completes after all have, so what   *)
(* is added is that ends counts the moment Done became the whole of        *)
(* Series, and that a record is open when a START has no END yet.          *)
RecordInv ==
  /\ IndicatorCounts
  /\ ends = 0 \/ (ends = 1 /\ Done = Series)
  /\ starts = ends + (IF crash_status = 2 THEN 1 ELSE 0)

(* The lemmas on the counters need their types only, so that they also     *)
(* serve the thread as a whole.                                            *)
RecordTypes == after \in [Series -> 0 .. AfterSize + 1] /\ indicator \in Nat

(* There is a series: the indicator has something to count.                *)
LEMMA SeriesNotEmpty == Series # {}
BY SeriesAssumption

(* A sample completes the series of its pid whose counter is at            *)
(* AfterSize, and no series is completed twice.                            *)
LEMMA DoneStep ==
  ASSUME RecordTypes, NEW p \in Pids, CountRows(p)
  PROVE  /\ Done' = Done \cup Completing(p)
         /\ Done \cap Completing(p) = {}
<1>1. ASSUME NEW s \in Series
      PROVE  /\ after[s] \in Nat /\ AfterSize \in Nat /\ SeriesOf[p] \subseteq Series
             /\ after'[s] = IF s \in SeriesOf[p] THEN Counted(after[s]) ELSE after[s]
  BY SizesAssumption, SeriesAssumption DEF RecordTypes, CountRows
<1>2. ASSUME NEW s \in Series
      PROVE  after'[s] > AfterSize <=>
               after[s] > AfterSize \/ (s \in SeriesOf[p] /\ after[s] = AfterSize)
  BY <1>1 DEF Counted
<1>3. Completing(p) = {s \in Series : s \in SeriesOf[p] /\ after[s] = AfterSize}
  BY SeriesAssumption DEF Completing
<1>4. Done' = Done \cup Completing(p)
  BY <1>2, <1>3 DEF Done
<1>5. Done \cap Completing(p) = {}
  BY <1>1, <1>3 DEF Done
<1> QED
  BY <1>4, <1>5

(* What found counts: the completed series, before and with this sample.   *)
LEMMA FoundCounts ==
  ASSUME RecordTypes, IndicatorCounts, NEW p \in Pids, CountRows(p)
  PROVE  \/ /\ Done = Series
            /\ Done' = Series
            /\ indicator + Cardinality(Completing(p)) = 0
         \/ /\ Done # Series
            /\ indicator + Cardinality(Completing(p)) = Cardinality(Done')
<1>1. /\ Done \subseteq Series /\ Completing(p) \subseteq Series
      /\ IsFiniteSet(Done) /\ IsFiniteSet(Completing(p))
  BY SeriesAssumption, SizesAssumption, FS_Subset DEF Done, Completing
<1>2. CASE Done = Series /\ indicator = 0
  <2>1. Completing(p) = {}
    BY <1>1, <1>2, DoneStep
  <2>2. Cardinality(Completing(p)) = 0
    BY <2>1, FS_EmptySet
  <2> QED
    BY <1>2, <2>1, <2>2, DoneStep
<1>3. CASE Done # Series /\ indicator = Cardinality(Done)
  <2>1. Cardinality(Done \cap Completing(p)) = 0
    BY DoneStep, FS_EmptySet
  <2>2. Cardinality(Done \cup Completing(p))
          = Cardinality(Done) + Cardinality(Completing(p))
            - Cardinality(Done \cap Completing(p))
    BY <1>1, FS_Union
  <2>3. Cardinality(Done) \in Nat /\ Cardinality(Completing(p)) \in Nat
    BY <1>1, FS_CardinalityType
  <2>4. Cardinality(Done \cup Completing(p))
          = Cardinality(Done) + Cardinality(Completing(p))
    BY <2>1, <2>2, <2>3
  <2> QED
    BY <1>3, <2>4, DoneStep
<1> QED
  BY <1>2, <1>3 DEF IndicatorCounts

(* The test for the end succeeds exactly when the last series completes.   *)
LEMMA FoundAll ==
  ASSUME RecordTypes, IndicatorCounts, NEW p \in Pids, CountRows(p)
  PROVE  AllFound(indicator + Cardinality(Completing(p)))
           <=> Done # Series /\ Done' = Series
<1>1. Done' \subseteq Series /\ IsFiniteSet(Done')
  BY SeriesAssumption, SizesAssumption, FS_Subset DEF Done
<1>2. /\ Cardinality(Done') <= Cardinality(Series)
      /\ Cardinality(Done') = Cardinality(Series) => Done' = Series
  BY <1>1, SizesAssumption, FS_Subset
<1>3. Cardinality(Done') \in Nat /\ Cardinality(Series) \in Nat \ {0}
  BY <1>1, SizesAssumption, SeriesNotEmpty, FS_CardinalityType, FS_EmptySet
<1> QED
  BY <1>2, <1>3, FoundCounts, SizesAssumption DEF AllFound

(* A sample in a record keeps the count of the completed series; it closes *)
(* the record only when it completes the last one.                         *)
LEMMA RecordKeeps ==
  ASSUME RecordTypes, IndicatorCounts, NEW p \in Pids, Record(p)
  PROVE  /\ IndicatorCounts'
         /\ starts' = starts
         /\ \/ /\ crash_status' = 0 /\ ends' = ends + 1
               /\ Done # Series /\ Done' = Series
            \/ /\ UNCHANGED <<crash_status, ends>>
               /\ Done = Series => Done' = Series
<1>1. CountRows(p) /\ starts' = starts
  BY DEF Record, dumpVars
<1>2. CASE AllFound(indicator + Cardinality(Completing(p)))
  <2>1. Done # Series /\ Done' = Series
    BY <1>1, <1>2, FoundAll
  <2> QED
    BY <1>1, <1>2, <2>1 DEF Record, IndicatorCounts
<1>3. CASE ~AllFound(indicator + Cardinality(Completing(p)))
  <2>1. /\ UNCHANGED <<crash_status, ends>>
        /\ indicator' = indicator + Cardinality(Completing(p))
    BY <1>3 DEF Record
  <2>2. Done = Series \/ Done' # Series
    BY <1>1, <1>3, FoundAll
  <2> QED
    BY <1>1, <2>1, <2>2, FoundCounts DEF IndicatorCounts
<1> QED
  BY <1>2, <1>3

(* Each step keeps the recorder's invariant.                               *)
LEMMA RecordInvStep == TypeOK /\ RecordInv /\ [Next]_vars => RecordInv'
<1> SUFFICES ASSUME TypeOK, RecordInv, [Next]_vars
             PROVE  RecordInv'
  OBVIOUS
<1>1. ASSUME NEW p \in Pids, NEW shift \in -1 .. 1, Sample(p, shift)
      PROVE  RecordInv'
  <2>1. CASE Crash(Updated(p)) /\ crash_status = 0
    BY <2>1 DEF Crash, logVars, RecordInv, IndicatorCounts, Done, TypeOK
  <2>2. CASE Record(p) /\ crash_status = 2
    <3>1. RecordTypes /\ IndicatorCounts
      BY DEF RecordInv, TypeOK, RecordTypes
    <3> QED
      BY <2>2, <3>1, RecordKeeps DEF RecordInv
  <2>3. CASE UNCHANGED <<crash_status, logVars, dumpVars>>
    BY <2>3 DEF logVars, dumpVars, RecordInv, IndicatorCounts, Done
  <2> QED
    BY <1>1, <2>1, <2>2, <2>3, SampleCases
<1>2. CASE Restart
  <2>1. Done' = {}
    BY <1>2, SizesAssumption DEF Restart, Zeroed, Done
  <2> QED
    BY <1>2, <2>1, SeriesNotEmpty, FS_EmptySet
    DEF Restart, Zeroed, RecordInv, IndicatorCounts
<1>3. CASE UNCHANGED vars
  BY <1>3 DEF vars, logVars, dumpVars, RecordInv, IndicatorCounts, Done
<1> QED
  BY <1>1, <1>2, <1>3 DEF Next

(* The recorder's invariant holds always.                                  *)
LEMMA RecordInvariant == Spec => []RecordInv
<1>1. Init => RecordInv
  <2> SUFFICES ASSUME Init PROVE RecordInv
    OBVIOUS
  <2>1. Done = {}
    BY SizesAssumption DEF Init, Zeroed, Done
  <2> QED
    BY <2>1, SeriesNotEmpty, FS_EmptySet
    DEF Init, Zeroed, RecordInv, IndicatorCounts
<1> QED
  BY <1>1, RecordInvStep, TypeCorrect, PTL DEF Spec

(* The indicator counts every completed series once.                       *)
THEOREM IndicatorCorrect == Spec => []IndicatorCounts
<1>1. RecordInv => IndicatorCounts
  BY DEF RecordInv
<1> QED
  BY <1>1, RecordInvariant, PTL

(* CRASH_END is sent only when every series has all its rows.              *)
THEOREM EndComplete == Spec => []EndMeansComplete
<1>1. TypeOK /\ RecordInv => EndMeansComplete
  BY DEF RecordInv, EndMeansComplete, Done, TypeOK
<1> QED
  BY <1>1, RecordInvariant, TypeCorrect, PTL

(* A thread sends CRASH_END at most once, and CRASH_START at most twice.   *)
THEOREM OneEnd == Spec => []OneEndPerThread
<1>1. RecordInv => OneEndPerThread
  BY DEF RecordInv, OneEndPerThread
<1> QED
  BY <1>1, RecordInvariant, PTL

-----------------------------------------------------------------------------
(* Every step of the recorder is a step of CrashRecord or leaves the       *)
(* record as it is.                                                        *)
LEMMA SampleRefines ==
  ASSUME TypeOK, RecordInv,
         NEW p \in Pids, NEW shift \in -1 .. 1, Sample(p, shift)
  PROVE  [R!Next]_(R!vars)
<1>1. CASE Crash(Updated(p)) /\ crash_status = 0
  BY <1>1 DEF Crash, logVars, Rows, R!Next, R!Open
<1>2. CASE Record(p) /\ crash_status = 2
  <2>1. CountRows(p)
    BY <1>2 DEF Record
  <2>2. CASE AllFound(indicator + Cardinality(Completing(p)))
    <3>1. Done' = Series
      BY <2>1, <2>2, FoundAll DEF RecordInv, TypeOK, RecordTypes
    <3>2. ASSUME NEW s \in Series
          PROVE  ~(after[s] < AfterSize) /\ ~(after'[s] < AfterSize)
      <4>1. after'[s] > AfterSize
        BY <3>1 DEF Done
      <4>2. after[s] \in 0 .. AfterSize + 1
        BY DEF TypeOK
      <4>3. after'[s] \in {after[s], after[s] + 1}
        BY <2>1 DEF CountRows, Counted
      <4> QED
        BY <4>1, <4>2, <4>3, SizesAssumption
    <3>3. \A s \in Series : Rows[s] = AfterSize
      BY <3>2 DEF Rows
    <3>4. Rows' = Rows
      BY <3>2 DEF Rows
    <3> QED
      BY <1>2, <2>2, <3>3, <3>4 DEF Record, R!Next, R!Close
  <2>3. CASE ~AllFound(indicator + Cardinality(Completing(p)))
    <3> DEFINE S == {s \in SeriesOf[p] : after[s] < AfterSize}
    <3>1. S \in SUBSET Series
      BY SeriesAssumption
    <3>2. \A s \in S : Rows[s] < AfterSize
      BY <3>1 DEF Rows
    <3>3. Rows' = [s \in Series |-> IF s \in S THEN Rows[s] + 1 ELSE Rows[s]]
      BY <2>1, SizesAssumption DEF CountRows, Counted, Rows, TypeOK
    <3>4. R!Record(S)
      BY <1>2, <2>3, <3>2, <3>3 DEF Record, R!Record
    <3> QED
      BY <3>1, <3>4 DEF R!Next
  <2> QED
    BY <2>2, <2>3
<1>3. CASE UNCHANGED <<crash_status, logVars, dumpVars>>
  BY <1>3 DEF logVars, Rows, R!vars
<1> QED
  BY <1>1, <1>2, <1>3, SampleCases

(* The recorder implements the abstract crash record.                      *)
THEOREM Refinement == Spec => ImplementsCrashRecord
<1>1. Init => R!Init
  BY SizesAssumption DEF Init, Zeroed, Rows, R!Init
<1>2. TypeOK /\ RecordInv /\ [Next]_vars => [R!Next]_(R!vars)
  <2> SUFFICES ASSUME TypeOK, RecordInv, [Next]_vars
               PROVE  [R!Next]_(R!vars)
    OBVIOUS
  <2>1. CASE Restart
    BY <2>1, SizesAssumption DEF Restart, Zeroed, Rows, R!Next, R!Abandon
  <2>2. CASE UNCHANGED vars
    BY <2>2 DEF vars, logVars, Rows, R!vars
  <2> QED
    BY <2>1, <2>2, SampleRefines DEF Next
<1> QED
  BY <1>1, <1>2, TypeCorrect, RecordInvariant, PTL
  DEF Spec, R!Spec, ImplementsCrashRecord

-----------------------------------------------------------------------------
(* The arithmetic of the circular buffers.                                 *)

(* The parts of a division.                                                *)
LEMMA ModParts ==
  ASSUME NEW n \in Int, NEW z \in Nat \ {0}
  PROVE  /\ n % z \in 0 .. z - 1
         /\ n \div z \in Int
         /\ n = z * (n \div z) + (n % z)
OBVIOUS

(* A quotient and a remainder are unique.                                  *)
LEMMA ModIs ==
  ASSUME NEW z \in Nat \ {0}, NEW a \in Int, NEW r \in 0 .. z - 1
  PROVE  (z * a + r) % z = r
<1> DEFINE n == z * a + r
           b == n \div z
           q == n % z
<1>1. n \in Int /\ z * a \in Int
  OBVIOUS
<1>2. q \in 0 .. z - 1 /\ b \in Int /\ n = z * b + q
  BY <1>1, ModParts
<1>3. n = z * a + r
  OBVIOUS
<1> HIDE DEF n, b, q
<1>4. ASSUME NEW x \in Int, NEW y \in Int, NEW c \in 0 .. z - 1, NEW d \in 0 .. z - 1,
             z * x + c = z * y + d, x < y
      PROVE  FALSE
  <2>1. PICK k \in Nat : y = x + 1 + k
    <3>1. y - (x + 1) \in Nat
      BY <1>4
    <3> QED
      BY <3>1
  <2>2. z * y = z * x + z + z * k
    BY <2>1
  <2>3. z * k \in Nat /\ z * x \in Int
    OBVIOUS
  <2> QED
    BY <1>4, <2>2, <2>3
<1>5. ~(a < b) /\ ~(b < a)
  BY <1>2, <1>3, <1>4
<1>6. a = b
  BY <1>2, <1>5
<1> QED
  BY <1>1, <1>2, <1>3, <1>6 DEF n, q

(* The remainder of the next number: what an index that counts round       *)
(* does.                                                                   *)
LEMMA ModStep ==
  ASSUME NEW n \in Int, NEW z \in Nat \ {0}
  PROVE  (n + 1) % z = IF (n % z) + 1 = z THEN 0 ELSE (n % z) + 1
<1>1. PICK a \in Int, r \in 0 .. z - 1 : n = z * a + r /\ r = n % z
  BY ModParts
<1>2. CASE r + 1 = z
  <2>1. n + 1 = z * (a + 1) + 0
    BY <1>1, <1>2
  <2>2. (z * (a + 1) + 0) % z = 0
    BY ModIs
  <2> QED
    BY <1>1, <1>2, <2>1, <2>2
<1>3. CASE r + 1 # z
  <2>1. n + 1 = z * a + (r + 1) /\ r + 1 \in 0 .. z - 1
    BY <1>1, <1>3
  <2>2. (z * a + (r + 1)) % z = r + 1
    BY <2>1, ModIs
  <2> QED
    BY <1>1, <1>3, <2>1, <2>2
<1> QED
  BY <1>2, <1>3

(* A whole turn leaves the remainder as it is.                             *)
LEMMA ModTurn ==
  ASSUME NEW n \in Int, NEW z \in Nat \ {0}
  PROVE  (n + z) % z = n % z
<1>1. PICK a \in Int, r \in 0 .. z - 1 : n = z * a + r /\ r = n % z
  BY ModParts
<1>2. n + z = z * (a + 1) + r
  BY <1>1
<1>3. (z * (a + 1) + r) % z = r
  BY ModIs
<1> QED
  BY <1>1, <1>2, <1>3

(* A remainder may be taken before or after an addition.                   *)
LEMMA ModAdd ==
  ASSUME NEW n \in Int, NEW i \in Int, NEW z \in Nat \ {0}
  PROVE  ((n % z) + i) % z = (n + i) % z
<1>1. PICK a \in Int, r \in 0 .. z - 1 : n = z * a + r /\ r = n % z
  BY ModParts
<1>2. PICK b \in Int, q \in 0 .. z - 1 : r + i = z * b + q /\ q = (r + i) % z
  <2>1. r + i \in Int
    OBVIOUS
  <2> QED
    BY <2>1, ModParts
<1>3. n + i = z * (a + b) + q
  <2>1. z * (a + b) = z * a + z * b
    OBVIOUS
  <2> QED
    BY <1>1, <1>2, <2>1
<1>4. (z * (a + b) + q) % z = q
  BY ModIs
<1> QED
  BY <1>1, <1>2, <1>3, <1>4

(* Two numbers less than a turn apart have different remainders: a slot    *)
(* of the buffer is not written twice within BeforeSize samples.           *)
LEMMA ModApart ==
  ASSUME NEW i \in Int, NEW j \in Int, NEW z \in Nat \ {0}, i < j, j < i + z
  PROVE  i % z # j % z
<1>1. PICK a \in Int, r \in 0 .. z - 1 : i = z * a + r /\ r = i % z
  BY ModParts
<1>2. PICK b \in Int, q \in 0 .. z - 1 : j = z * b + q /\ q = j % z
  BY ModParts
<1>3. SUFFICES ASSUME r = q PROVE FALSE
  BY <1>1, <1>2
<1>4. PICK k \in Int : b = a + k
  <2>1. b - a \in Int
    OBVIOUS
  <2> QED BY <2>1
<1>5. z * b = z * a + z * k
  BY <1>4
<1>6. z * k > 0 /\ z * k < z
  <2>1. z * k \in Int /\ z * a \in Int
    OBVIOUS
  <2>2. j = i + z * k
    BY <1>1, <1>2, <1>3, <1>5, <2>1
  <2> QED
    BY <2>1, <2>2
<1>7. k >= 1 \/ k <= 0
  OBVIOUS
<1>8. k >= 1 => z * k >= z
  <2> SUFFICES ASSUME k >= 1 PROVE z * k >= z
    OBVIOUS
  <2>1. PICK l \in Nat : k = 1 + l
    <3>1. k - 1 \in Nat
      OBVIOUS
    <3> QED BY <3>1
  <2>2. z * k = z + z * l /\ z * l \in Nat
    BY <2>1
  <2> QED BY <2>2
<1>9. k <= 0 => z * k <= 0
  <2> SUFFICES ASSUME k <= 0 PROVE z * k <= 0
    OBVIOUS
  <2>1. PICK l \in Nat : k = -l
    <3>1. -k \in Nat
      OBVIOUS
    <3> QED BY <3>1
  <2>2. z * k = -(z * l) /\ z * l \in Nat
    BY <2>1
  <2> QED BY <2>2
<1> QED
  BY <1>6, <1>7, <1>8, <1>9

-----------------------------------------------------------------------------
(* The samples before a crash.                                             *)

(* A buffer before the first crash holds the last samples, the newest one  *)
(* before its index.                                                       *)
Filled(c, n) ==
  /\ c.index = n % BeforeSize
  /\ \A i \in 1 .. BeforeSize : c.buf[(n - 1 + i) % BeforeSize] = C!Window(n)[i]

(* The dump, at sample d, leaves the index one slot back, or far outside   *)
(* the buffer, where the next sample is lost; the samples from d + 2 on    *)
(* are where they belong.                                                  *)
Moved(c, n, d) ==
  /\ d <= n
  /\ \/ c.index = (n - 1) % BeforeSize
     \/ n = d /\ c.index >= BeforeSize /\ (n - 1) % BeforeSize = BeforeSize - 1
  /\ \A j \in d + 2 .. n : n < j + BeforeSize => c.buf[(j - 2) % BeforeSize] = j

(* Each row of the first record belongs to a sample since the crash, so a  *)
(* second crash, which needs all rows of all series, finds the buffers     *)
(* filled again.                                                           *)
BufferInv ==
  \A p \in Pids : \A s \in SeriesOf[p] :
    /\ starts = 0 => Filled(cbuf[s], mean_i[p]) /\ after[s] = 0
    /\ starts = 1 => /\ Moved(cbuf[s], mean_i[p], crashAt[p])
                     /\ after[s] <= mean_i[p] - crashAt[p]

(* What a write does to a buffer.                                          *)
LEMMA WriteFacts ==
  ASSUME NEW c \in Cbufs, NEW m \in Nat
  PROVE  /\ C!WriteMail(c, m).index = IF c.index + 1 >= BeforeSize THEN 0 ELSE c.index + 1
         /\ \A i \in C!Slots : C!WriteMail(c, m).buf[i] = IF i = c.index THEN m ELSE c.buf[i]
BY DEF C!WriteMail

(* A sample keeps a buffer filled, the oldest one giving way.              *)
LEMMA FilledWrite ==
  ASSUME NEW c \in Cbufs, NEW n \in Nat, Filled(c, n)
  PROVE  Filled(C!WriteMail(c, n + 1), n + 1)
<1>w. PICK w : w = C!WriteMail(c, n + 1)
  OBVIOUS
<1>0. BeforeSize \in Nat \ {0} /\ n + 1 \in Nat /\ n \in Int
  BY SizesAssumption
<1>1. /\ w.index = IF c.index + 1 >= BeforeSize THEN 0 ELSE c.index + 1
      /\ \A i \in C!Slots : w.buf[i] = IF i = c.index THEN n + 1 ELSE c.buf[i]
  BY <1>w, <1>0, WriteFacts
<1>2. c.index = n % BeforeSize /\ c.index \in 0 .. BeforeSize - 1
  BY <1>0, ModParts DEF Filled
<1>3. w.index = (n + 1) % BeforeSize
  <2>1. (n + 1) % BeforeSize =
          IF (n % BeforeSize) + 1 = BeforeSize THEN 0 ELSE (n % BeforeSize) + 1
    BY <1>0, ModStep
  <2> QED
    BY <1>0, <1>1, <1>2, <2>1
<1>4. ASSUME NEW i \in 1 .. BeforeSize
      PROVE  w.buf[((n + 1) - 1 + i) % BeforeSize] = C!Window(n + 1)[i]
  <2>0. i \in Int /\ n + i \in Int /\ (n + 1) - 1 + i = n + i
    BY <1>0
  <2>1. (n + i) % BeforeSize \in C!Slots
    BY <1>0, <2>0, ModParts DEF C!Slots
  <2>2. C!Window(n + 1)[i] = IF (n + 1) - BeforeSize + i > 0 THEN (n + 1) - BeforeSize + i ELSE 0
    BY DEF C!Window, C!Unwritten
  <2>3. CASE i = BeforeSize
    <3>1. (n + i) % BeforeSize = c.index
      BY <1>0, <1>2, <2>3, ModTurn
    <3>2. C!Window(n + 1)[i] = n + 1
      BY <1>0, <2>2, <2>3
    <3> QED
      BY <1>1, <2>0, <2>1, <3>1, <3>2
  <2>4. CASE i # BeforeSize
    <3>1. (n + i) % BeforeSize # c.index
      <4>1. n < n + i /\ n + i < n + BeforeSize
        BY <1>0, <2>4
      <4> QED
        BY <1>0, <1>2, <2>0, <4>1, ModApart
    <3>2. i + 1 \in 1 .. BeforeSize /\ n - 1 + (i + 1) = n + i
      BY <1>0, <2>4
    <3>4. c.buf[(n + i) % BeforeSize] = C!Window(n)[i + 1]
      BY <3>2 DEF Filled
    <3>5. C!Window(n)[i + 1] = IF n - BeforeSize + (i + 1) > 0 THEN n - BeforeSize + (i + 1) ELSE 0
      BY <3>2 DEF C!Window, C!Unwritten
    <3>6. C!Window(n)[i + 1] = C!Window(n + 1)[i]
      BY <1>0, <2>2, <3>5
    <3> QED
      BY <1>1, <2>0, <2>1, <3>1, <3>4, <3>6
  <2> QED
    BY <2>3, <2>4
<1> QED
  BY <1>w, <1>3, <1>4 DEF Filled

(* A sample keeps a buffer that a dump moved in order; the one lost        *)
(* outside of the buffer is not among those that must be there.            *)
LEMMA MovedWrite ==
  ASSUME NEW c \in Cbufs, NEW n \in Nat, NEW d \in Nat, Moved(c, n, d)
  PROVE  Moved(C!WriteMail(c, n + 1), n + 1, d)
<1>w. PICK w : w = C!WriteMail(c, n + 1)
  OBVIOUS
<1>0. /\ BeforeSize \in Nat \ {0} /\ n + 1 \in Nat /\ n - 1 \in Int /\ n \in Int
      /\ (n - 1) + 1 = n /\ (n + 1) - 1 = n /\ (n + 1) - 2 = n - 1
      /\ d <= n /\ d <= n + 1
  BY SizesAssumption DEF Moved
<1>1. /\ w.index = IF c.index + 1 >= BeforeSize THEN 0 ELSE c.index + 1
      /\ \A i \in C!Slots : w.buf[i] = IF i = c.index THEN n + 1 ELSE c.buf[i]
  BY <1>w, <1>0, WriteFacts
<1>2. n % BeforeSize =
        IF ((n - 1) % BeforeSize) + 1 = BeforeSize THEN 0 ELSE ((n - 1) % BeforeSize) + 1
  BY <1>0, ModStep
<1>3. (n - 1) % BeforeSize \in 0 .. BeforeSize - 1
  BY <1>0, ModParts
<1>4. c.index \in Nat
  BY DEF Cbufs
<1>5. w.index = ((n + 1) - 1) % BeforeSize
  BY <1>0, <1>1, <1>2, <1>3, <1>4 DEF Moved
<1>6. ASSUME NEW j \in d + 2 .. n + 1, n + 1 < j + BeforeSize
      PROVE  w.buf[(j - 2) % BeforeSize] = j
  <2>0. j \in Int /\ j - 2 \in Int
    OBVIOUS
  <2>1. c.index = (n - 1) % BeforeSize
    BY <1>0, <1>6 DEF Moved
  <2>2. (j - 2) % BeforeSize \in C!Slots
    BY <1>0, <2>0, ModParts DEF C!Slots
  <2>3. CASE j = n + 1
    BY <1>0, <1>1, <2>1, <2>2, <2>3
  <2>4. CASE j # n + 1
    <3>1. (j - 2) % BeforeSize # (n - 1) % BeforeSize
      <4>1. j - 2 < n - 1 /\ n - 1 < (j - 2) + BeforeSize
        BY <1>0, <1>6, <2>4
      <4> QED
        BY <1>0, <2>0, <4>1, ModApart
    <3>2. j \in d + 2 .. n /\ n < j + BeforeSize
      BY <1>0, <1>6, <2>4
    <3>3. c.buf[(j - 2) % BeforeSize] = j
      BY <3>2 DEF Moved
    <3> QED
      BY <1>1, <2>1, <2>2, <3>1, <3>3
  <2> QED
    BY <2>3, <2>4
<1>7. \A j \in d + 2 .. n + 1 : n + 1 < j + BeforeSize => w.buf[(j - 2) % BeforeSize] = j
  BY <1>6
<1> QED
  BY <1>0, <1>w, <1>5, <1>7 DEF Moved

(* SAFETY_STATUS_LOG_BUFFER moves the index one slot back, or beyond the   *)
(* buffer, status.cpp.                                                     *)
LEMMA DumpStartIs ==
  ASSUME NEW index \in C!Slots
  PROVE  C!DumpStart(index) = IF index = 0 THEN BeforeSize + 1 ELSE index - 1
<1>1. BeforeSize \in Nat \ {0} /\ 1 \in 0 .. BeforeSize - 1
  BY SizesAssumption
<1>2. (BeforeSize * 1 + 1) % BeforeSize = 1
  BY <1>1, ModIs
<1>3. (BeforeSize + 1) % BeforeSize = 1
  BY <1>1, <1>2
<1>4. C!DumpStart(index) = IF index - 1 < 0 THEN BeforeSize - (index - 1) ELSE index - 1
  BY <1>3 DEF C!DumpStart, C!MoveIndex
<1> QED
  BY <1>1, <1>4 DEF C!Slots

(* What a dump sends of a buffer whose index is o samples behind n, and    *)
(* where it leaves the index.                                              *)
LEMMA DumpFacts ==
  ASSUME NEW c \in Cbufs, NEW n \in Int, c.index = n % BeforeSize
  PROVE  /\ n % BeforeSize = 0 =>
              /\ C!DumpMails(c) = [i \in 1 .. BeforeSize |-> C!Outside]
              /\ C!DumpedCbuf(c).index >= BeforeSize
         /\ n % BeforeSize # 0 =>
              /\ \A i \in 1 .. BeforeSize :
                   C!DumpMails(c)[i] = c.buf[(n - 1 + i) % BeforeSize]
              /\ C!DumpedCbuf(c).index = (n - 1) % BeforeSize
<1>0. /\ BeforeSize \in Nat \ {0} /\ n - 1 \in Int /\ (n - 1) + 1 = n
      /\ n % BeforeSize \in 0 .. BeforeSize - 1
      /\ (n - 1) % BeforeSize \in 0 .. BeforeSize - 1
  <2>1. BeforeSize \in Nat \ {0} /\ n - 1 \in Int /\ (n - 1) + 1 = n
    BY SizesAssumption
  <2> QED
    BY <2>1, ModParts
<1>1. c.index \in C!Slots
  BY <1>0 DEF C!Slots
<1>2. CASE n % BeforeSize = 0
  <2>1. C!DumpStart(c.index) = BeforeSize + 1
    BY <1>1, <1>2, DumpStartIs
  <2>2. \A i \in Nat : C!AheadBy(C!DumpStart(c.index), i) = BeforeSize + 1 + i
    BY <1>0, <2>1 DEF C!AheadBy
  <2>3. \A i \in 1 .. BeforeSize : C!Cell(c, C!AheadBy(C!DumpStart(c.index), i)) = C!Outside
    BY <1>0, <2>2 DEF C!Cell, C!Slots
  <2>4. C!DumpMails(c) = [i \in 1 .. BeforeSize |-> C!Outside]
    BY <2>3 DEF C!DumpMails
  <2>5. C!DumpedCbuf(c).index = BeforeSize + 1 + BeforeSize
    BY <1>0, <2>2 DEF C!DumpedCbuf, Cbufs
  <2> QED
    BY <1>0, <1>2, <2>4, <2>5
<1>3. CASE n % BeforeSize # 0
  <2>1. n % BeforeSize =
          IF ((n - 1) % BeforeSize) + 1 = BeforeSize THEN 0 ELSE ((n - 1) % BeforeSize) + 1
    BY <1>0, ModStep
  <2>2. C!DumpStart(c.index) = (n - 1) % BeforeSize
    BY <1>0, <1>1, <1>3, <2>1, DumpStartIs
  <2>3. ASSUME NEW i \in Nat
        PROVE  C!AheadBy(C!DumpStart(c.index), i) = (n - 1 + i) % BeforeSize
    <3>1. (((n - 1) % BeforeSize) + i) % BeforeSize = (n - 1 + i) % BeforeSize
      <4>1. i \in Int
        OBVIOUS
      <4> QED
        BY <1>0, <4>1, ModAdd
    <3> QED
      BY <1>0, <2>2, <3>1 DEF C!AheadBy
  <2>4. ASSUME NEW i \in 1 .. BeforeSize
        PROVE  C!DumpMails(c)[i] = c.buf[(n - 1 + i) % BeforeSize]
    <3>1. i \in Nat /\ n - 1 + i \in Int
      BY <1>0
    <3>2. (n - 1 + i) % BeforeSize \in C!Slots
      BY <1>0, <3>1, ModParts DEF C!Slots
    <3>3. C!AheadBy(C!DumpStart(c.index), i) = (n - 1 + i) % BeforeSize
      BY <2>3, <3>1
    <3>4. C!DumpMails(c)[i] = C!Cell(c, C!AheadBy(C!DumpStart(c.index), i))
      BY DEF C!DumpMails
    <3> QED
      BY <3>2, <3>3, <3>4 DEF C!Cell
  <2>5. C!DumpedCbuf(c).index = (n - 1) % BeforeSize
    <3>1. C!DumpedCbuf(c).index = (n - 1 + BeforeSize) % BeforeSize
      BY <1>0, <2>3 DEF C!DumpedCbuf, Cbufs
    <3> QED
      BY <1>0, <3>1, ModTurn
  <2> QED
    BY <1>3, <2>4, <2>5
<1> QED
  BY <1>2, <1>3

Sent(o, n) ==
  IF o % BeforeSize = 0 THEN [i \in 1 .. BeforeSize |-> C!Outside] ELSE C!Window(n)

(* The dump of the first crash is the window of the last samples, or,      *)
(* with the index at 0, nothing of the buffer.                             *)
LEMMA FilledDump ==
  ASSUME NEW c \in Cbufs, NEW n \in Nat, Filled(c, n)
  PROVE  /\ Moved(C!DumpedCbuf(c), n, n)
         /\ C!DumpMails(c) = Sent(n, n)
<1>0. BeforeSize \in Nat \ {0} /\ n \in Int /\ n - 1 \in Int /\ (n - 1) + 1 = n
  BY SizesAssumption
<1>1. c.index = n % BeforeSize
  BY DEF Filled
<1>2. \A j \in n + 2 .. n : FALSE
  OBVIOUS
<1>3. CASE n % BeforeSize = 0
  <2>1. (n - 1) % BeforeSize = BeforeSize - 1
    <3>1. n % BeforeSize =
            IF ((n - 1) % BeforeSize) + 1 = BeforeSize THEN 0 ELSE ((n - 1) % BeforeSize) + 1
      BY <1>0, ModStep
    <3>2. (n - 1) % BeforeSize \in 0 .. BeforeSize - 1
      BY <1>0, ModParts
    <3> QED
      BY <1>0, <1>3, <3>1, <3>2
  <2>2. /\ C!DumpMails(c) = [i \in 1 .. BeforeSize |-> C!Outside]
        /\ C!DumpedCbuf(c).index >= BeforeSize
    BY <1>0, <1>1, <1>3, DumpFacts
  <2> QED
    BY <1>2, <1>3, <2>1, <2>2 DEF Moved, Sent
<1>4. CASE n % BeforeSize # 0
  <2>1. /\ \A i \in 1 .. BeforeSize :
             C!DumpMails(c)[i] = c.buf[(n - 1 + i) % BeforeSize]
        /\ C!DumpedCbuf(c).index = (n - 1) % BeforeSize
    BY <1>0, <1>1, <1>4, DumpFacts
  <2>2. \A i \in 1 .. BeforeSize : C!DumpMails(c)[i] = C!Window(n)[i]
    BY <2>1 DEF Filled
  <2>3. C!DumpMails(c) = C!Window(n)
    BY <2>2 DEF C!DumpMails, C!Window
  <2> QED
    BY <1>2, <1>4, <2>1, <2>3 DEF Moved, Sent
<1> QED
  BY <1>3, <1>4

(* So is the dump of the second crash, once the samples since the first    *)
(* have filled the buffer again.                                           *)
LEMMA MovedDump ==
  ASSUME NEW c \in Cbufs, NEW n \in Nat, NEW d \in Nat, Moved(c, n, d), n > d + BeforeSize
  PROVE  C!DumpMails(c) = Sent(n - 1, n)
<1>0. BeforeSize \in Nat \ {0} /\ n \in Int /\ n - 1 \in Int /\ n # d
  BY SizesAssumption
<1>1. c.index = (n - 1) % BeforeSize
  BY <1>0 DEF Moved
<1>2. CASE (n - 1) % BeforeSize = 0
  BY <1>0, <1>1, <1>2, DumpFacts DEF Sent
<1>3. CASE (n - 1) % BeforeSize # 0
  <2>1. \A i \in 1 .. BeforeSize :
          C!DumpMails(c)[i] = c.buf[((n - 1) - 1 + i) % BeforeSize]
    BY <1>0, <1>1, <1>3, DumpFacts
  <2>2. ASSUME NEW i \in 1 .. BeforeSize
        PROVE  C!DumpMails(c)[i] = C!Window(n)[i]
    <3>1. PICK j : j = n - BeforeSize + i
      OBVIOUS
    <3>2. j \in d + 2 .. n /\ n < j + BeforeSize /\ j > 0 /\ j - 2 \in Int
      BY <1>0, <3>1
    <3>3. c.buf[(j - 2) % BeforeSize] = j
      BY <3>2 DEF Moved
    <3>4. (j - 2) + BeforeSize = (n - 1) - 1 + i
      BY <1>0, <3>1
    <3>5. ((n - 1) - 1 + i) % BeforeSize = (j - 2) % BeforeSize
      BY <1>0, <3>2, <3>4, ModTurn
    <3>6. C!Window(n)[i] = j
      BY <3>1, <3>2 DEF C!Window
    <3> QED
      BY <2>1, <3>3, <3>5, <3>6
  <2>3. C!DumpMails(c) = C!Window(n)
    BY <2>2 DEF C!DumpMails, C!Window
  <2> QED
    BY <1>3, <2>3 DEF Sent
<1> QED
  BY <1>2, <1>3

(* A zeroed buffer is filled with the samples before the first one.        *)
LEMMA FreshFilled == Filled(C!Fresh, 0)
<1>0. BeforeSize \in Nat \ {0} /\ 0 \in 0 .. BeforeSize - 1
  BY SizesAssumption
<1>1. 0 % BeforeSize = 0
  <2>1. (BeforeSize * 0 + 0) % BeforeSize = 0
    BY <1>0, ModIs
  <2> QED
    BY <1>0, <2>1
<1>2. ASSUME NEW i \in 1 .. BeforeSize
      PROVE  C!Fresh.buf[(0 - 1 + i) % BeforeSize] = C!Window(0)[i]
  <2>1. 0 - 1 + i \in Int
    OBVIOUS
  <2>2. (0 - 1 + i) % BeforeSize \in C!Slots
    BY <1>0, <2>1, ModParts DEF C!Slots
  <2>3. C!Window(0)[i] = C!Unwritten
    BY <1>0 DEF C!Window
  <2> QED
    BY <2>2, <2>3 DEF C!Fresh
<1> QED
  BY <1>1, <1>2 DEF Filled, C!Fresh

(* The buffer of a series, and the samples of its pid, after an update.    *)
LEMMA UpdateKeeps ==
  ASSUME TypeOK, NEW p \in Pids, mean_i' = [mean_i EXCEPT ![p] = @ + 1],
         NEW q \in Pids, NEW s \in SeriesOf[q]
  PROVE  /\ s \in Series /\ Updated(p)[s] \in Cbufs /\ mean_i'[q] \in Nat
         /\ mean_i'[q] >= mean_i[q]
         /\ s \in SeriesOf[p] => mean_i'[q] = mean_i[q] + 1
         /\ Filled(cbuf[s], mean_i[q]) => Filled(Updated(p)[s], mean_i'[q])
         /\ \A d \in Nat :
              Moved(cbuf[s], mean_i[q], d) => Moved(Updated(p)[s], mean_i'[q], d)
<1>1. s \in Series /\ (s \in SeriesOf[p] <=> q = p)
  BY SeriesAssumption
<1>2. cbuf[s] \in Cbufs /\ mean_i[q] \in Nat
  BY <1>1 DEF TypeOK, Cbufs
<1>3. CASE q = p
  <2>1. mean_i'[q] = mean_i[q] + 1 /\ mean_i[q] + 1 \in Nat
    BY <1>2, <1>3 DEF TypeOK
  <2>2. Updated(p)[s] = C!WriteMail(cbuf[s], mean_i[q] + 1)
    BY <1>1, <1>3 DEF Updated
  <2>3. C!WriteMail(cbuf[s], mean_i[q] + 1) \in Cbufs
    BY <1>2, <2>1, WriteMailType
  <2>4. Filled(cbuf[s], mean_i[q])
          => Filled(C!WriteMail(cbuf[s], mean_i[q] + 1), mean_i[q] + 1)
    BY <1>2, FilledWrite
  <2>5. \A d \in Nat : Moved(cbuf[s], mean_i[q], d)
          => Moved(C!WriteMail(cbuf[s], mean_i[q] + 1), mean_i[q] + 1, d)
    BY <1>2, MovedWrite
  <2> QED
    BY <1>1, <1>2, <2>1, <2>2, <2>3, <2>4, <2>5
<1>4. CASE q # p
  <2>1. mean_i'[q] = mean_i[q] /\ Updated(p)[s] = cbuf[s] /\ s \notin SeriesOf[p]
    BY <1>1, <1>4 DEF TypeOK, Updated
  <2> QED
    BY <1>1, <1>2, <2>1
<1> QED
  BY <1>3, <1>4

(* A crash moves every buffer, and its record is one of the two kinds.     *)
LEMMA CrashKeepsBuffers ==
  ASSUME TypeOK, RecordInv, BufferInv, PreCrashRecord,
         NEW p \in Pids, NEW shift \in -1 .. 1, Sample(p, shift),
         Crash(Updated(p)), crash_status = 0
  PROVE  BufferInv' /\ PreCrashRecord'
<1>1. /\ mean_i' = [mean_i EXCEPT ![p] = @ + 1]
      /\ starts' = starts + 1 /\ crashAt' = mean_i' /\ after' = after
      /\ dump' = [s \in Series |-> C!DumpMails(Updated(p)[s])]
      /\ cbuf' = [s \in Series |-> C!DumpedCbuf(Updated(p)[s])]
  BY DEF Sample, Crash, logVars
<1>2. starts = ends /\ (ends = 0 \/ (ends = 1 /\ Done = Series)) /\ starts \in {0, 1}
  BY DEF RecordInv, TypeOK
<1>3. CASE starts = 0
  <2>1. ASSUME NEW q \in Pids, NEW s \in SeriesOf[q]
        PROVE  /\ Moved(cbuf'[s], mean_i'[q], crashAt'[q])
               /\ after'[s] <= mean_i'[q] - crashAt'[q]
               /\ dump'[s] = Sent(crashAt'[q] - (starts' - 1), crashAt'[q])
    <3>1. /\ s \in Series /\ Updated(p)[s] \in Cbufs /\ mean_i'[q] \in Nat
          /\ Filled(Updated(p)[s], mean_i'[q])
      BY <1>1, <1>3, UpdateKeeps DEF BufferInv
    <3>2. /\ Moved(C!DumpedCbuf(Updated(p)[s]), mean_i'[q], mean_i'[q])
          /\ C!DumpMails(Updated(p)[s]) = Sent(mean_i'[q], mean_i'[q])
      BY <3>1, FilledDump
    <3>3. mean_i'[q] - (starts' - 1) = mean_i'[q]
      BY <1>1, <1>3, <3>1
    <3>4. after'[s] = 0
      BY <1>1, <1>3 DEF BufferInv
    <3> QED
      BY <1>1, <3>1, <3>2, <3>3, <3>4
  <2>2. starts' = 1
    BY <1>1, <1>3
  <2>3. BufferInv'
    BY <2>1, <2>2 DEF BufferInv
  <2>4. PreCrashRecord'
    BY <2>1 DEF PreCrashRecord, Sent
  <2> QED
    BY <2>3, <2>4
<1>4. CASE starts = 1
  <2>1. starts' = 2
    BY <1>1, <1>4
  <2>2. BufferInv'
    BY <2>1 DEF BufferInv
  <2>3. ASSUME AfterSize >= BeforeSize, NEW q \in Pids, NEW s \in SeriesOf[q]
        PROVE  dump'[s] = Sent(crashAt'[q] - (starts' - 1), crashAt'[q])
    <3>1. crashAt[q] \in Nat /\ mean_i[q] \in Nat
      BY DEF TypeOK
    <3>2. /\ s \in Series /\ Updated(p)[s] \in Cbufs /\ mean_i'[q] \in Nat
          /\ mean_i'[q] >= mean_i[q]
          /\ Moved(Updated(p)[s], mean_i'[q], crashAt[q])
      BY <1>1, <1>4, <3>1, UpdateKeeps DEF BufferInv
    <3>3. after[s] > AfterSize /\ after[s] \in Nat
      BY <1>2, <1>4, <3>2, SizesAssumption DEF Done, TypeOK
    <3>4. after[s] <= mean_i[q] - crashAt[q]
      BY <1>4 DEF BufferInv
    <3>5. mean_i'[q] > crashAt[q] + BeforeSize
      BY <2>3, <3>1, <3>2, <3>3, <3>4, SizesAssumption
    <3>6. C!DumpMails(Updated(p)[s]) = Sent(mean_i'[q] - 1, mean_i'[q])
      BY <3>1, <3>2, <3>5, MovedDump
    <3>7. starts' - 1 = 1
      BY <2>1
    <3> QED
      BY <1>1, <3>2, <3>6, <3>7
  <2>4. PreCrashRecord'
    BY <2>3 DEF PreCrashRecord, Sent
  <2> QED
    BY <2>2, <2>4
<1> QED
  BY <1>2, <1>3, <1>4

(* A sample that is no crash writes to the buffers of its pid and sends    *)
(* at most one row of each.                                                *)
LEMMA RowsKeepBuffers ==
  ASSUME TypeOK, RecordInv, BufferInv, PreCrashRecord,
         NEW p \in Pids, NEW shift \in -1 .. 1, Sample(p, shift),
         cbuf' = Updated(p),
         \/ Record(p) /\ crash_status = 2
         \/ UNCHANGED <<crash_status, logVars, dumpVars>>
  PROVE  BufferInv' /\ PreCrashRecord'
<1>1. /\ mean_i' = [mean_i EXCEPT ![p] = @ + 1]
      /\ starts' = starts /\ crashAt' = crashAt /\ dump' = dump
  BY DEF Sample, Record, dumpVars
<1>2. PreCrashRecord'
  BY <1>1 DEF PreCrashRecord
<1>3. ASSUME NEW q \in Pids, NEW s \in SeriesOf[q]
      PROVE  /\ starts = 0 => Filled(cbuf'[s], mean_i'[q]) /\ after'[s] = 0
             /\ starts = 1 => /\ Moved(cbuf'[s], mean_i'[q], crashAt[q])
                              /\ after'[s] <= mean_i'[q] - crashAt[q]
  <2>1. /\ s \in Series /\ mean_i'[q] \in Nat /\ mean_i[q] \in Nat /\ crashAt[q] \in Nat
        /\ mean_i'[q] >= mean_i[q]
        /\ s \in SeriesOf[p] => mean_i'[q] = mean_i[q] + 1
        /\ after[s] \in Nat
    <3>1. s \in Series /\ mean_i[q] \in Nat /\ crashAt[q] \in Nat /\ after[s] \in 0 .. AfterSize + 1
      BY SeriesAssumption DEF TypeOK
    <3>2. /\ mean_i'[q] \in Nat
          /\ s \in SeriesOf[p] => mean_i'[q] = mean_i[q] + 1
          /\ mean_i'[q] >= mean_i[q]
      BY <1>1, UpdateKeeps
    <3> QED
      BY <3>1, <3>2
  <2>2. starts = 0 => Filled(cbuf'[s], mean_i'[q])
    BY <1>1, UpdateKeeps DEF BufferInv
  <2>3. starts = 1 => Moved(cbuf'[s], mean_i'[q], crashAt[q])
    BY <1>1, <2>1, UpdateKeeps DEF BufferInv
  <2>4. starts = 0 => after'[s] = 0
    <3>1. starts = 0 => after[s] = 0 /\ crash_status # 2
      BY DEF BufferInv, RecordInv, TypeOK
    <3> QED
      BY <3>1 DEF logVars
  <2>5. starts = 1 => after'[s] <= mean_i'[q] - crashAt[q]
    <3>1. starts = 1 => after[s] <= mean_i[q] - crashAt[q]
      BY DEF BufferInv
    <3>2. \/ after'[s] = after[s]
          \/ after'[s] = after[s] + 1 /\ s \in SeriesOf[p]
      BY <2>1 DEF Record, CountRows, Counted, logVars
    <3> QED
      BY <2>1, <3>1, <3>2
  <2> QED
    BY <2>2, <2>3, <2>4, <2>5
<1>4. BufferInv'
  BY <1>1, <1>3 DEF BufferInv
<1> QED
  BY <1>2, <1>4

(* Each step keeps the invariant of the buffers, and with it               *)
(* PreCrashRecord.                                                         *)
LEMMA BufferStep ==
  TypeOK /\ RecordInv /\ BufferInv /\ PreCrashRecord /\ [Next]_vars
    => BufferInv' /\ PreCrashRecord'
<1> SUFFICES ASSUME TypeOK, RecordInv, BufferInv, PreCrashRecord, [Next]_vars
             PROVE  BufferInv' /\ PreCrashRecord'
  OBVIOUS
<1>1. ASSUME NEW p \in Pids, NEW shift \in -1 .. 1, Sample(p, shift)
      PROVE  BufferInv' /\ PreCrashRecord'
  <2>1. CASE Crash(Updated(p)) /\ crash_status = 0
    BY <1>1, <2>1, CrashKeepsBuffers
  <2>2. CASE ~(Crash(Updated(p)) /\ crash_status = 0)
    <3>1. /\ cbuf' = Updated(p)
          /\ \/ Record(p) /\ crash_status = 2
             \/ UNCHANGED <<crash_status, logVars, dumpVars>>
      BY <1>1, <2>2 DEF Sample, CrashDetected
    <3> QED
      BY <1>1, <3>1, RowsKeepBuffers
  <2> QED
    BY <2>1, <2>2
<1>2. CASE Restart
  <2>1. /\ starts' = 0
        /\ \A p \in Pids : mean_i'[p] = 0
        /\ \A s \in Series : cbuf'[s] = C!Fresh /\ after'[s] = 0
    BY <1>2 DEF Restart, Zeroed
  <2>2. BufferInv'
    BY <2>1, FreshFilled, SeriesAssumption DEF BufferInv
  <2> QED
    BY <2>1, <2>2 DEF PreCrashRecord
<1>3. CASE UNCHANGED vars
  BY <1>3 DEF vars, logVars, dumpVars, BufferInv, PreCrashRecord
<1> QED
  BY <1>1, <1>2, <1>3 DEF Next

(* A crash is recorded with the samples before it, or, when the index of   *)
(* the buffer stands at 0, with nothing of the buffer: there is no third   *)
(* case, for every size of the buffer, every number of series and any      *)
(* rates of their pids, the second crash of a thread included (status.cpp, *)
(* cbuf_mail.c).                                                           *)
THEOREM PreCrash == Spec => []PreCrashRecord
<1>1. Init => BufferInv /\ PreCrashRecord
  <2> SUFFICES ASSUME Init PROVE BufferInv /\ PreCrashRecord
    OBVIOUS
  <2>1. /\ starts = 0
        /\ \A p \in Pids : mean_i[p] = 0
        /\ \A s \in Series : cbuf[s] = C!Fresh /\ after[s] = 0
    BY DEF Init, Zeroed
  <2>2. BufferInv
    BY <2>1, FreshFilled, SeriesAssumption DEF BufferInv
  <2> QED
    BY <2>1, <2>2 DEF PreCrashRecord
<1> QED
  BY <1>1, BufferStep, TypeCorrect, RecordInvariant, PTL DEF Spec

-----------------------------------------------------------------------------
(* The threads: the recorder and the driver assistance together.           *)

SafetyTypes ==
  /\ crash_status \in {0, 1, 2}
  /\ RecordTypes
  /\ mean_i \in [Pids -> Nat]
  /\ starts \in Nat
  /\ speed_shift \in {0, 1}
  /\ call \in [Threads -> {"none", "receive", "assist", "log"}]
  /\ pid \in [Threads -> Pids]
  /\ asked \in SUBSET Threads
  /\ alone \in BOOLEAN

(* The threads whose log is about to give series s a row.                  *)
Pending(s) == {t \in Threads : call[t] = "log" /\ s \in SeriesOf[pid[t]]}

(* Why speed_shift is clear when a turn that is alone detects a crash: it  *)
(* is set only while crash_status is 1, and every acceleration clears it.  *)
(* If the record of that crash is still there, no series of an             *)
(* acceleration has gained a row but from the threads that were on their   *)
(* way to the log (or it is the second record, which never ends); if a     *)
(* thread was started, no acceleration has come since, or one is on its    *)
(* way to clear it.                                                        *)
ShiftIsFresh ==
  speed_shift = 1 =>
    \/ crash_status = 1
    \/ /\ crash_status = 2
       /\ \/ Done = Series
          \/ \A p \in Axes : \A s \in SeriesOf[p] :
               after[s] + Cardinality(Pending(s)) <= Cardinality(Threads)
    \/ \A p \in Axes : mean_i[p] = 0
    \/ \E t \in Threads : call[t] = "assist" /\ pid[t] \in Axes

(* What is inductive beside it: a crash that is not recorded yet is that   *)
(* of a turn under way; before it is recorded, no series has a row or all  *)
(* have all of them; and a turn that is alone has asked for help exactly   *)
(* if its log will find the crash.                                         *)
CrashInTurn == crash_status = 1 => InTurn # {}

AskedInTurn == \A t \in asked : call[t] = "log"

ArmedAtEnds == crash_status # 2 => (\A s \in Series : after[s] = 0) \/ Done = Series

AloneTurn ==
  alone => \A t \in InTurn :
    /\ InTurn = {t}
    /\ call[t] = "assist" /\ crash_status = 1 => pid[t] \in Axes /\ speed_shift = 0
    /\ call[t] = "log" => (t \in asked <=> crash_status = 1)

TurnInv ==
  /\ IndicatorCounts
  /\ CrashInTurn
  /\ AskedInTurn
  /\ ArmedAtEnds
  /\ AloneTurn
  /\ ShiftIsFresh

(* The placeholder is a pid.                                               *)
LEMMA AnyPidType == AnyPid \in Pids
BY SeriesAssumption DEF AnyPid

(* There are no more pending logs than threads.                            *)
LEMMA PendingCount ==
  ASSUME NEW s
  PROVE  /\ IsFiniteSet(Pending(s))
         /\ Cardinality(Pending(s)) \in Nat
         /\ Cardinality(Pending(s)) <= Cardinality(Threads)
         /\ Cardinality(Threads) \in Nat
<1>1. Pending(s) \subseteq Threads
  BY DEF Pending
<1> QED
  BY <1>1, ThreadsAssumption, FS_Subset, FS_CardinalityType

(* The case of the switch keeps speed_shift and sends no request, unless   *)
(* it is that of an acceleration.                                          *)
LEMMA SelectedShift ==
  ASSUME NEW p \in Pids, NEW crash \in BOOLEAN, Selected(p, crash)
  PROVE  /\ p \in Axes => IF crash /\ speed_shift = 0
                            THEN speed_shift' = 1 /\ "assist" \in sent'
                            ELSE speed_shift' = 0 /\ "assist" \notin sent'
         /\ p \notin Axes => speed_shift' = speed_shift /\ "assist" \notin sent'
<1>1. CASE p \in Axes
  <2>1. D!Acceleration(crash)
    BY <1>1, PidAssumption DEF Selected
  <2> QED
    BY <1>1, <2>1 DEF D!Acceleration
<1>2. CASE p \notin Axes
  <2>1. CASE D!Brake
    BY <1>2, <2>1 DEF D!Brake, D!BrakePressed, D!BrakeReleased, D!BrakeIdle
  <2>2. ASSUME NEW hard \in BOOLEAN, D!Pedal(hard)
        PROVE  speed_shift' = speed_shift /\ "assist" \notin sent'
    BY <2>2 DEF D!Pedal, D!PedalCount
  <2>3. CASE D!Other
    BY <1>2, <2>3 DEF D!Other
  <2> QED
    BY <1>2, <2>1, <2>2, <2>3 DEF Selected
<1> QED
  BY <1>1, <1>2

-----------------------------------------------------------------------------
(* The update: an acceleration will clear speed_shift, any other pid       *)
(* detects no crash.                                                       *)
LEMMA UpdateKeepsTurn ==
  ASSUME SafetyTypes, TurnInv,
         NEW t \in Threads, NEW p \in Pids, NEW shift \in -1 .. 1,
         Update(t, p, shift)
  PROVE  SafetyTypes' /\ TurnInv'
<1>1. /\ call[t] = "receive" /\ call' = [call EXCEPT ![t] = "assist"]
      /\ pid' = [pid EXCEPT ![t] = p]
      /\ mean_i' = [mean_i EXCEPT ![p] = @ + 1]
      /\ crash_status' = IF CrashDetected(shift) THEN 1 ELSE crash_status
      /\ alone' = (InTurn = {})
      /\ after' = after /\ indicator' = indicator /\ starts' = starts
      /\ speed_shift' = speed_shift /\ asked' = asked
  BY DEF Update, logVars, dumpVars, assistVars
<1>2. CrashDetected(shift) =>
        p \in Axes /\ mean_i[p] > 0 /\ shift = 1 /\ crash_status = 0
  BY DEF Update, CrashDetected, Shifts
<1>3. SafetyTypes'
  BY <1>1 DEF SafetyTypes, RecordTypes
<1>4. IndicatorCounts' /\ ArmedAtEnds'
  BY <1>1, <1>2 DEF TurnInv, IndicatorCounts, ArmedAtEnds, Done
<1>5. InTurn' = InTurn \cup {t}
  BY <1>1 DEF InTurn, SafetyTypes
<1>6. CrashInTurn' /\ AskedInTurn'
  BY <1>1, <1>5 DEF TurnInv, CrashInTurn, AskedInTurn, SafetyTypes
<1>7. ASSUME InTurn = {}, CrashDetected(shift)
      PROVE  speed_shift = 0
  <2>1. ~\E u \in Threads : call[u] = "assist" /\ pid[u] \in Axes
    BY <1>7 DEF InTurn
  <2> QED
    BY <1>2, <1>7, <2>1 DEF TurnInv, ShiftIsFresh, SafetyTypes
<1>8. AloneTurn'
  <2> SUFFICES ASSUME InTurn = {}
               PROVE  /\ InTurn' = {t}
                      /\ call'[t] = "assist"
                      /\ crash_status' = 1 => pid'[t] \in Axes /\ speed_shift' = 0
    BY <1>1, <1>5 DEF AloneTurn
  <2>1. crash_status # 1
    BY DEF TurnInv, CrashInTurn
  <2> QED
    BY <1>1, <1>2, <1>5, <1>7, <2>1 DEF SafetyTypes
<1>9. ShiftIsFresh'
  <2>1. CASE p \in Axes
    <3>1. call'[t] = "assist" /\ pid'[t] \in Axes
      BY <1>1, <2>1 DEF SafetyTypes
    <3> QED
      BY <3>1 DEF ShiftIsFresh
  <2>2. CASE p \notin Axes
    <3>1. crash_status' = crash_status
      BY <1>1, <1>2, <2>2
    <3>2. \A q \in Axes : mean_i'[q] = mean_i[q]
      BY <1>1, <2>2, SeriesAssumption DEF SafetyTypes
    <3>3. \A u \in Threads : call[u] = "assist" => call'[u] = "assist" /\ pid'[u] = pid[u]
      BY <1>1 DEF SafetyTypes
    <3>4. \A s \in Series : Pending(s)' = Pending(s)
      BY <1>1 DEF Pending, SafetyTypes
    <3>5. Done' = Done
      BY <1>1 DEF Done
    <3>6. \A q \in Axes : \A s \in SeriesOf[q] : s \in Series
      BY SeriesAssumption
    <3> QED
      BY <1>1, <3>1, <3>2, <3>3, <3>4, <3>5, <3>6 DEF TurnInv, ShiftIsFresh
  <2> QED
    BY <2>1, <2>2
<1> QED
  BY <1>3, <1>4, <1>6, <1>8, <1>9 DEF TurnInv

(* The assistance: speed_shift is set only while crash_status is 1.        *)
LEMMA AssistKeepsTurn ==
  ASSUME SafetyTypes, TurnInv, NEW t \in Threads, Assist(t)
  PROVE  SafetyTypes' /\ TurnInv'
<1>1. /\ call[t] = "assist" /\ call' = [call EXCEPT ![t] = "log"]
      /\ pid' = pid /\ mean_i' = mean_i /\ crash_status' = crash_status
      /\ alone' = alone /\ after' = after /\ indicator' = indicator
      /\ starts' = starts
      /\ asked' = IF "assist" \in sent' THEN asked \cup {t} ELSE asked
  BY DEF Assist, vars, logVars, dumpVars
<1>2. pid[t] \in Pids
  BY DEF SafetyTypes
<1>3. /\ pid[t] \in Axes => IF crash_status = 1 /\ speed_shift = 0
                              THEN speed_shift' = 1 /\ "assist" \in sent'
                              ELSE speed_shift' = 0 /\ "assist" \notin sent'
      /\ pid[t] \notin Axes => speed_shift' = speed_shift /\ "assist" \notin sent'
  BY <1>2, SelectedShift DEF Assist
<1>4. SafetyTypes'
  BY <1>1, <1>3 DEF SafetyTypes, RecordTypes
<1>5. IndicatorCounts' /\ ArmedAtEnds' /\ Done' = Done
  BY <1>1 DEF TurnInv, IndicatorCounts, ArmedAtEnds, Done
<1>6. InTurn' = InTurn
  BY <1>1 DEF InTurn, SafetyTypes
<1>7. CrashInTurn' /\ AskedInTurn'
  BY <1>1, <1>6 DEF TurnInv, CrashInTurn, AskedInTurn, SafetyTypes
<1>8. AloneTurn'
  <2> SUFFICES ASSUME alone
               PROVE  /\ InTurn' = {t}
                      /\ call'[t] = "log"
                      /\ t \in asked' <=> crash_status' = 1
    BY <1>1, <1>6 DEF AloneTurn
  <2>1. t \in InTurn /\ t \notin asked
    BY <1>1 DEF InTurn, TurnInv, AskedInTurn
  <2>2. /\ InTurn = {t}
        /\ crash_status = 1 => pid[t] \in Axes /\ speed_shift = 0
    BY <1>1, <2>1 DEF TurnInv, AloneTurn
  <2> QED
    BY <1>1, <1>3, <1>6, <2>1, <2>2 DEF SafetyTypes
<1>9. ShiftIsFresh'
  <2>1. CASE pid[t] \in Axes
    BY <1>1, <1>3, <2>1 DEF ShiftIsFresh
  <2>2. CASE pid[t] \notin Axes
    <3>1. \A u \in Threads : call[u] = "assist" /\ pid[u] \in Axes =>
                             call'[u] = "assist" /\ pid'[u] \in Axes
      BY <1>1, <2>2 DEF SafetyTypes
    <3>2. ASSUME NEW q \in Axes, NEW s \in SeriesOf[q]
          PROVE  Pending(s)' = Pending(s)
      <4>1. s \notin SeriesOf[pid[t]]
        BY <1>2, <2>2, SeriesAssumption
      <4> QED
        BY <1>1, <4>1 DEF Pending, SafetyTypes
    <3> QED
      BY <1>1, <1>3, <1>5, <2>2, <3>1, <3>2 DEF TurnInv, ShiftIsFresh
  <2> QED
    BY <2>1, <2>2
<1> QED
  BY <1>4, <1>5, <1>7, <1>8, <1>9 DEF TurnInv

(* The log: a row of an acceleration takes one off the pending logs, so a  *)
(* record cannot end before the assistance has seen an acceleration.       *)
LEMMA LogKeepsTurn ==
  ASSUME SafetyTypes, TurnInv, NEW t \in Threads, Log(t)
  PROVE  SafetyTypes' /\ TurnInv'
<1>1. /\ call[t] = "log" /\ call' = [call EXCEPT ![t] = "receive"]
      /\ pid' = [pid EXCEPT ![t] = AnyPid]
      /\ mean_i' = mean_i /\ speed_shift' = speed_shift
      /\ asked' = asked \ {t} /\ alone' = FALSE
  BY DEF Log, assistVars
<1>2. pid[t] \in Pids
  BY DEF SafetyTypes
<1>3. \/ crash_status = 0 /\ UNCHANGED <<crash_status, after, indicator, starts>>
      \/ /\ crash_status = 1 /\ crash_status' = 2
         /\ starts' = starts + 1 /\ UNCHANGED <<after, indicator>>
      \/ crash_status = 2 /\ Record(pid[t])
  BY DEF Log, Crash, logVars, dumpVars
<1>4. crash_status = 2 =>
        /\ IndicatorCounts'
        /\ starts' = starts
        /\ \/ crash_status' = 0 /\ Done # Series /\ Done' = Series
           \/ crash_status' = 2 /\ (Done = Series => Done' = Series)
  BY <1>2, <1>3, RecordKeeps DEF SafetyTypes, TurnInv
<1>5. crash_status = 2 => RecordTypes'
  <2> SUFFICES ASSUME Record(pid[t]) PROVE RecordTypes'
    BY <1>3
  <2>1. after' \in [Series -> 0 .. AfterSize + 1]
    BY SizesAssumption DEF Record, CountRows, Counted, SafetyTypes, RecordTypes
  <2>2. Cardinality(Completing(pid[t])) \in Nat
    BY <1>2, SizesAssumption, SeriesAssumption, FS_Subset, FS_CardinalityType
    DEF Completing
  <2> QED
    BY <2>1, <2>2 DEF Record, SafetyTypes, RecordTypes
<1>6. SafetyTypes'
  <2>1. RecordTypes'
    BY <1>3, <1>5 DEF SafetyTypes, RecordTypes
  <2>2. crash_status' \in {0, 1, 2} /\ starts' \in Nat
    BY <1>3, <1>4 DEF SafetyTypes
  <2>3. /\ call' \in [Threads -> {"none", "receive", "assist", "log"}]
        /\ pid' \in [Threads -> Pids] /\ asked' \in SUBSET Threads
    BY <1>1, AnyPidType DEF SafetyTypes
  <2> QED
    BY <1>1, <2>1, <2>2, <2>3 DEF SafetyTypes
<1>7. crash_status # 2 => IndicatorCounts' /\ Done' = Done
  BY <1>3 DEF TurnInv, IndicatorCounts, Done, SafetyTypes
<1>8. IndicatorCounts' /\ CrashInTurn' /\ ArmedAtEnds'
  BY <1>3, <1>4, <1>7 DEF TurnInv, CrashInTurn, ArmedAtEnds, SafetyTypes
<1>9. AskedInTurn' /\ AloneTurn'
  BY <1>1 DEF TurnInv, AskedInTurn, AloneTurn, SafetyTypes
<1>10. ASSUME NEW s
       PROVE  /\ Pending(s)' \subseteq Pending(s)
              /\ s \in SeriesOf[pid[t]] =>
                   t \in Pending(s) /\ Pending(s)' = Pending(s) \ {t}
  BY <1>1 DEF Pending, SafetyTypes
<1>11. ASSUME crash_status = 2, NEW q \in Axes, NEW s \in SeriesOf[q],
              after[s] + Cardinality(Pending(s)) <= Cardinality(Threads)
       PROVE  after'[s] + Cardinality(Pending(s)') <= Cardinality(Threads)
  <2>1. /\ IsFiniteSet(Pending(s)) /\ Cardinality(Pending(s)) \in Nat
        /\ Cardinality(Pending(s)') \in Nat /\ Cardinality(Threads) \in Nat
    BY <1>10, PendingCount, FS_Subset, FS_CardinalityType
  <2>2. s \in Series /\ after[s] \in Nat
    BY SeriesAssumption DEF SafetyTypes, RecordTypes
  <2>3. CASE s \in SeriesOf[pid[t]]
    <3>1. Cardinality(Pending(s)') = Cardinality(Pending(s)) - 1
      BY <1>10, <2>1, <2>3, FS_RemoveElement
    <3>2. after'[s] \in {after[s], after[s] + 1}
      BY <1>3, <1>11, <2>2 DEF Record, CountRows, Counted
    <3> QED
      BY <1>11, <2>1, <2>2, <3>1, <3>2
  <2>4. CASE s \notin SeriesOf[pid[t]]
    <3>1. Cardinality(Pending(s)') <= Cardinality(Pending(s))
      BY <1>10, <2>1, FS_Subset
    <3>2. after'[s] = after[s]
      BY <1>3, <1>11, <2>2, <2>4 DEF Record, CountRows
    <3> QED
      BY <1>11, <2>1, <2>2, <3>1, <3>2
  <2> QED
    BY <2>3, <2>4
<1>12. ShiftIsFresh'
  <2> SUFFICES ASSUME speed_shift = 1
               PROVE  \/ /\ crash_status' = 2
                         /\ \/ Done' = Series
                            \/ \A p \in Axes : \A s \in SeriesOf[p] :
                                 after'[s] + Cardinality(Pending(s)')
                                   <= Cardinality(Threads)
                      \/ \A p \in Axes : mean_i'[p] = 0
                      \/ \E u \in Threads : call'[u] = "assist" /\ pid'[u] \in Axes
    BY <1>1 DEF ShiftIsFresh
  <2>1. CASE crash_status = 1
    <3>1. crash_status' = 2 /\ after' = after /\ Done' = Done
      BY <1>3, <1>7, <2>1
    <3>2. ASSUME NEW p \in Axes, NEW s \in SeriesOf[p],
                 \A r \in Series : after[r] = 0
          PROVE  after'[s] + Cardinality(Pending(s)') <= Cardinality(Threads)
      <4>1. s \in Series
        BY SeriesAssumption
      <4>2. /\ Cardinality(Pending(s)) \in Nat /\ IsFiniteSet(Pending(s))
            /\ Cardinality(Pending(s)) <= Cardinality(Threads)
            /\ Cardinality(Threads) \in Nat
        BY PendingCount
      <4>3. /\ Cardinality(Pending(s)') \in Nat
            /\ Cardinality(Pending(s)') <= Cardinality(Pending(s))
        BY <1>10, <4>2, FS_Subset, FS_CardinalityType
      <4> QED
        BY <3>1, <3>2, <4>1, <4>2, <4>3
    <3> QED
      BY <2>1, <3>1, <3>2 DEF TurnInv, ArmedAtEnds
  <2>2. CASE crash_status = 2 /\ Done = Series
    BY <1>4, <2>2
  <2>3. CASE /\ crash_status = 2
             /\ \A p \in Axes : \A s \in SeriesOf[p] :
                  after[s] + Cardinality(Pending(s)) <= Cardinality(Threads)
    <3>1. \A p \in Axes : \A s \in SeriesOf[p] :
            after'[s] + Cardinality(Pending(s)') <= Cardinality(Threads)
      BY <1>11, <2>3
    <3>2. PICK p \in Axes : \E s \in SeriesOf[p] : s \in Series
      BY SeriesAssumption
    <3>3. PICK s \in SeriesOf[p] : s \in Series
      BY <3>2
    <3>4. /\ Cardinality(Pending(s)') \in Nat /\ Cardinality(Threads) \in Nat
          /\ after'[s] \in Nat /\ AfterSize \in Nat
          /\ Cardinality(Threads) <= AfterSize
      <4>1. IsFiniteSet(Pending(s)')
        BY <1>10, PendingCount, FS_Subset
      <4> QED
        BY <1>6, <3>3, <4>1, PendingCount, FS_CardinalityType, ThreadsAssumption,
           SizesAssumption
        DEF SafetyTypes, RecordTypes
    <3>5. ~(after'[s] > AfterSize)
      BY <3>1, <3>3, <3>4
    <3>6. Done' # Series
      BY <3>3, <3>5 DEF Done
    <3> QED
      BY <1>4, <2>3, <3>1, <3>6
  <2>4. CASE \E u \in Threads : call[u] = "assist" /\ pid[u] \in Axes
    <3>1. PICK u \in Threads : call[u] = "assist" /\ pid[u] \in Axes
      BY <2>4
    <3>2. call'[u] = "assist" /\ pid'[u] \in Axes
      BY <1>1, <3>1 DEF SafetyTypes
    <3> QED
      BY <3>2
  <2> QED
    BY <1>1, <2>1, <2>2, <2>3, <2>4 DEF TurnInv, ShiftIsFresh
<1> QED
  BY <1>6, <1>8, <1>9, <1>12 DEF TurnInv

(* A new thread: the status has no crash, and the first acceleration will  *)
(* clear speed_shift.                                                      *)
LEMMA BeginKeepsTurn ==
  ASSUME SafetyTypes, TurnInv, NEW t \in Threads, Begin(t)
  PROVE  SafetyTypes' /\ TurnInv'
<1>1. /\ call[t] = "none" /\ call' = [call EXCEPT ![t] = "receive"]
      /\ pid' = pid /\ asked' = asked /\ alone' = FALSE
      /\ crash_status' = 0 /\ indicator' = 0 /\ starts' = 0
      /\ after' = [s \in Series |-> 0] /\ mean_i' = [p \in Pids |-> 0]
      /\ speed_shift' = speed_shift
  BY DEF Begin, Restart, Zeroed, D!Restart
<1>2. SafetyTypes'
  <2>1. RecordTypes'
    BY <1>1, SizesAssumption DEF RecordTypes
  <2> QED
    BY <1>1, <2>1 DEF SafetyTypes
<1>3. Done' = {}
  BY <1>1, SizesAssumption DEF Done
<1>4. IndicatorCounts' /\ CrashInTurn' /\ ArmedAtEnds' /\ AloneTurn'
  BY <1>1, <1>3, SeriesNotEmpty, FS_EmptySet
  DEF IndicatorCounts, CrashInTurn, ArmedAtEnds, AloneTurn
<1>5. AskedInTurn'
  BY <1>1 DEF TurnInv, AskedInTurn, SafetyTypes
<1>6. ShiftIsFresh'
  BY <1>1, SeriesAssumption DEF ShiftIsFresh
<1> QED
  BY <1>2, <1>4, <1>5, <1>6 DEF TurnInv

(* A thread that ends was in no turn.                                      *)
LEMMA EndKeepsTurn ==
  ASSUME SafetyTypes, TurnInv, NEW t \in Threads, End(t)
  PROVE  SafetyTypes' /\ TurnInv'
<1>1. /\ call[t] = "receive" /\ call' = [call EXCEPT ![t] = "none"]
      /\ pid' = pid /\ asked' = asked /\ alone' = alone
      /\ crash_status' = crash_status /\ indicator' = indicator
      /\ starts' = starts /\ after' = after /\ mean_i' = mean_i
      /\ speed_shift' = speed_shift
  BY DEF End, vars, logVars, dumpVars, assistVars
<1>2. SafetyTypes'
  BY <1>1 DEF SafetyTypes, RecordTypes
<1>3. InTurn' = InTurn /\ Done' = Done /\ \A s : Pending(s)' = Pending(s)
  BY <1>1 DEF InTurn, Done, Pending, SafetyTypes
<1>4. IndicatorCounts' /\ CrashInTurn' /\ ArmedAtEnds'
  BY <1>1, <1>3 DEF TurnInv, IndicatorCounts, CrashInTurn, ArmedAtEnds
<1>5. AskedInTurn' /\ AloneTurn'
  BY <1>1, <1>3 DEF TurnInv, AskedInTurn, AloneTurn, InTurn, SafetyTypes
<1>6. \A u \in Threads : call[u] = "assist" => call'[u] = "assist"
  BY <1>1 DEF SafetyTypes
<1>7. ShiftIsFresh'
  BY <1>1, <1>3, <1>6 DEF TurnInv, ShiftIsFresh
<1> QED
  BY <1>2, <1>4, <1>5, <1>7 DEF TurnInv

(* The invariant of the threads holds always.                              *)
LEMMA TurnInvariant == SafetySpec => [](SafetyTypes /\ TurnInv)
<1>1. SafetyInit => SafetyTypes /\ TurnInv
  <2> SUFFICES ASSUME SafetyInit PROVE SafetyTypes /\ TurnInv
    OBVIOUS
  <2>1. /\ call \in [Threads -> {"none", "receive"}]
        /\ pid = [t \in Threads |-> AnyPid] /\ asked = {} /\ alone = FALSE
        /\ crash_status = 0 /\ indicator = 0 /\ starts = 0
        /\ after = [s \in Series |-> 0] /\ mean_i = [p \in Pids |-> 0]
        /\ speed_shift = 0
    BY DEF SafetyInit, Init, Zeroed, D!Init
  <2>2. SafetyTypes
    <3>1. RecordTypes
      BY <2>1, SizesAssumption DEF RecordTypes
    <3>2. call \in [Threads -> {"none", "receive", "assist", "log"}]
      BY <2>1
    <3> QED
      BY <2>1, <3>1, <3>2, AnyPidType DEF SafetyTypes
  <2>3. Done = {}
    BY <2>1, SizesAssumption DEF Done
  <2> QED
    BY <2>1, <2>2, <2>3, SeriesNotEmpty, FS_EmptySet
    DEF TurnInv, IndicatorCounts, CrashInTurn, AskedInTurn, ArmedAtEnds,
        AloneTurn, ShiftIsFresh
<1>2. SafetyTypes /\ TurnInv /\ [SafetyNext]_safetyVars => (SafetyTypes /\ TurnInv)'
  <2> SUFFICES ASSUME SafetyTypes, TurnInv, [SafetyNext]_safetyVars
               PROVE  SafetyTypes' /\ TurnInv'
    OBVIOUS
  <2>1. CASE UNCHANGED safetyVars
    BY <2>1
    DEF safetyVars, vars, logVars, dumpVars, assistVars, SafetyTypes, RecordTypes,
        TurnInv, IndicatorCounts, CrashInTurn, AskedInTurn, ArmedAtEnds,
        AloneTurn, ShiftIsFresh, InTurn, Done, Pending
  <2> QED
    BY <2>1, UpdateKeepsTurn, AssistKeepsTurn, LogKeepsTurn, BeginKeepsTurn,
       EndKeepsTurn
    DEF SafetyNext
<1> QED
  BY <1>1, <1>2, PTL DEF SafetySpec

(* A turn that no other thread overlaps records a crash if and only if it  *)
(* has asked for help, whatever the order of the samples, however many     *)
(* threads are started, and whatever the overlapped turns before it did.   *)
THEOREM OneRequest == SafetySpec => OneRequestPerCrash
<1>1. SafetyTypes /\ TurnInv =>
        \A t \in Threads :
          Log(t) /\ alone => (starts' > starts <=> t \in asked)
  <2> SUFFICES ASSUME SafetyTypes, TurnInv, NEW t \in Threads, Log(t), alone
               PROVE  starts' > starts <=> t \in asked
    OBVIOUS
  <2>1. t \in asked <=> crash_status = 1
    BY DEF TurnInv, AloneTurn, InTurn, Log
  <2>2. starts' = IF crash_status = 1 THEN starts + 1 ELSE starts
    BY DEF Log, Crash, Record, dumpVars, SafetyTypes
  <2> QED
    BY <2>1, <2>2 DEF SafetyTypes
<1> QED
  BY <1>1, TurnInvariant, PTL DEF OneRequestPerCrash

(* The indicator counts every completed series once also when cancelled    *)
(* threads go on beside the current one, so that a record is never closed  *)
(* before all the rows of all its series are sent.                         *)
THEOREM IndicatorOfThreads == SafetySpec => []IndicatorCounts
<1>1. TurnInv => IndicatorCounts
  BY DEF TurnInv
<1> QED
  BY <1>1, TurnInvariant, PTL
=============================================================================
