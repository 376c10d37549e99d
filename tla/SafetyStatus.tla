---------------------------- MODULE SafetyStatus ----------------------------
(***************************************************************************)
(* The crash recorder of safety/status.cpp: safety_status_init,            *)
(* safety_status_update and safety_status_log, called by the safety thread *)
(* (safety/safety.cpp) once for every sample it receives.  One thread is   *)
(* the only user of the status, so a sample is one step here; Safety takes *)
(* it call by call, in several threads.                                    *)
(*                                                                         *)
(* A sample is the pid it belongs to and, for an acceleration, what cusum  *)
(* answers (sft_resp).  The value it carries is abstracted to its number   *)
(* among the samples of its pid: the recorder stores and sends values and  *)
(* never looks at them.                                                    *)
(***************************************************************************)
EXTENDS Integers, FiniteSets

CONSTANTS
  Pids,          \* the pids a sample may carry, known to can_data_t or not
  Axes,          \* the two accelerations, which are fed to cusum
  Series,        \* the series recorded, one buffer and one counter each
  SeriesOf,      \* SeriesOf[p]: the series one sample of pid p feeds
  BeforeSize,    \* STATUS_LOG_BEFORE_SIZE (200)
  AfterSize,     \* STATUS_LOG_AFTER_SIZE (300)
  EndThreshold,  \* CAN_DATA_SIZE - 1 + 7 (12)
  MaxSamples,    \* MaxSamples[p]: bound on the samples of pid p
  MaxRestarts    \* bound on the restarts of the thread

ASSUME SeriesAssumption ==
  /\ Axes \subseteq Pids
  /\ SeriesOf \in [Pids -> SUBSET Series]
  /\ \A s \in Series : \E p \in Pids : s \in SeriesOf[p]
  /\ \A p, q \in Pids : p # q => SeriesOf[p] \cap SeriesOf[q] = {}
  /\ \A p \in Axes : SeriesOf[p] # {}
  /\ Axes # {}

ASSUME SizesAssumption ==
  /\ BeforeSize \in Nat /\ BeforeSize >= 2
  /\ AfterSize \in Nat \ {0}
  /\ IsFiniteSet(Series)
  /\ EndThreshold = Cardinality(Series)

ASSUME SampleBounds == MaxSamples \in [Pids -> Nat] /\ MaxRestarts \in Nat

VARIABLES
  crash_status,  \* 0: armed; 2: recording (1 only from update to log)
  indicator,     \* log_before.indicator: series found complete
  after,         \* after[s]: log_before.<s>_i
  cbuf,          \* cbuf[s]: log_before.<s>
  mean_i,        \* mean_i[p]: samples of pid p, cusum's mean_i for an axis
  starts, ends,  \* history: CRASH_START / CRASH_END sent by this thread
  dump,          \* history: dump[s], the mails of the last dump of s
  crashAt,       \* history: mean_i at the last crash
  restarts       \* restarts of the thread so far

logVars  == <<indicator, after, ends>>
dumpVars == <<starts, dump, crashAt>>
vars == <<crash_status, logVars, cbuf, mean_i, dumpVars, restarts>>

C == INSTANCE CbufMail WITH Size <- BeforeSize

(* safety_status_init: the whole status is zeroed, the buffers allocated.  *)
Zeroed ==
  [crash_status |-> 0,
   indicator    |-> 0,
   after        |-> [s \in Series |-> 0],
   cbuf         |-> [s \in Series |-> C!Fresh],
   mean_i       |-> [p \in Pids |-> 0]]

NoDump == [s \in Series |-> [i \in 1 .. BeforeSize |-> C!Unwritten]]

Init ==
  /\ crash_status = Zeroed.crash_status
  /\ indicator = Zeroed.indicator
  /\ after = Zeroed.after
  /\ cbuf = Zeroed.cbuf
  /\ mean_i = Zeroed.mean_i
  /\ starts = 0
  /\ ends = 0
  /\ dump = NoDump
  /\ crashAt = Zeroed.mean_i
  /\ restarts = 0

-----------------------------------------------------------------------------
(* Mutant: cusum may find a shift in its first sample.                     *)
ShiftsAtOnce(p) == IF p \in Axes THEN {-1, 0, 1} ELSE {0}

(* What cusum may answer to a sample of pid p.  Its first sample is its    *)
(* own mean, with deviation 0: neither sum leaves 0.                       *)
Shifts(p) == IF p \in Axes /\ mean_i[p] > 0 THEN {-1, 0, 1} ELSE {0}

(* safety_status_update: each series of the pid stores the sample.         *)
Updated(p) ==
  [s \in Series |->
     IF s \in SeriesOf[p] THEN C!WriteMail(cbuf[s], mean_i[p] + 1)
                          ELSE cbuf[s]]

(* Only a shift upwards, and only in the armed state, is a crash.          *)
CrashDetected(shift) == shift = 1 /\ crash_status = 0

(* Mutant: the call that dumps forgets to leave crash_status 1.            *)
CrashStays(bufs) ==
  /\ crash_status' = 1
  /\ starts' = starts + 1
  /\ dump' = [s \in Series |-> C!DumpMails(bufs[s])]
  /\ cbuf' = [s \in Series |-> C!DumpedCbuf(bufs[s])]
  /\ crashAt' = mean_i'
  /\ UNCHANGED logVars

(* safety_status_log with crash_status 1: START, the buffer of every       *)
(* series, MID; the sample of the crash itself gets no row.                *)
Crash(bufs) ==
  /\ crash_status' = 2
  /\ starts' = starts + 1
  /\ dump' = [s \in Series |-> C!DumpMails(bufs[s])]
  /\ cbuf' = [s \in Series |-> C!DumpedCbuf(bufs[s])]
  /\ crashAt' = mean_i'
  /\ UNCHANGED logVars

(* safety_status_log with crash_status 2: SAFETY_STATUS_LOG of each series *)
(* of the pid, then the test for the end.  A series sends rows while its   *)
(* counter is below AfterSize and is counted once, when it passes it; no   *)
(* test tells counters beyond AfterSize apart, so they stop there.         *)
(* Mutant: a series is counted before its last row.                        *)
CompletingEarly(p) == {s \in SeriesOf[p] : after[s] = AfterSize - 1}

Completing(p) == {s \in SeriesOf[p] : after[s] = AfterSize}

Counted(n) == IF n > AfterSize THEN n ELSE n + 1

(* Mutant: the test for the end is strict.                                 *)
AllFoundStrict(found) == found > EndThreshold

AllFound(found) == found >= EndThreshold

CountRows(p) ==
  after' = [s \in Series |-> IF s \in SeriesOf[p] THEN Counted(after[s])
                                                  ELSE after[s]]

(* Mutant: the end of a record also resets the counters of the rows.       *)
RecordResets(p) ==
  LET found == indicator + Cardinality(Completing(p))
  IN  /\ UNCHANGED dumpVars
      /\ \/ /\ AllFound(found)
            /\ after' = Zeroed.after
            /\ indicator' = 0
            /\ crash_status' = 0
            /\ ends' = ends + 1
         \/ /\ ~AllFound(found)
            /\ CountRows(p)
            /\ indicator' = found
            /\ UNCHANGED <<crash_status, ends>>

Record(p) ==
  LET found == indicator + Cardinality(Completing(p))
  IN  /\ CountRows(p)
      /\ UNCHANGED dumpVars
      /\ \/ /\ AllFound(found)
            /\ indicator' = 0
            /\ crash_status' = 0
            /\ ends' = ends + 1
         \/ /\ ~AllFound(found)
            /\ indicator' = found
            /\ UNCHANGED <<crash_status, ends>>

(* One turn of the loop of safety(): update, then log.                     *)
Sample(p, shift) ==
  /\ mean_i[p] < MaxSamples[p]
  /\ shift \in Shifts(p)
  /\ mean_i' = [mean_i EXCEPT ![p] = @ + 1]
  /\ UNCHANGED restarts
  /\ \/ /\ CrashDetected(shift)
        /\ Crash(Updated(p))
     \/ /\ ~CrashDetected(shift)
        /\ cbuf' = Updated(p)
        /\ \/ /\ crash_status = 2
              /\ Record(p)
           \/ /\ crash_status = 0
              /\ UNCHANGED <<crash_status, logVars, dumpVars>>

(* safeguard_restart_thread: the thread is cancelled, a new one begins at  *)
(* safety_status_init.  The histories are those of one thread.             *)
Restart ==
  /\ restarts < MaxRestarts
  /\ restarts' = restarts + 1
  /\ crash_status' = Zeroed.crash_status
  /\ indicator' = Zeroed.indicator
  /\ after' = Zeroed.after
  /\ cbuf' = Zeroed.cbuf
  /\ mean_i' = Zeroed.mean_i
  /\ starts' = 0
  /\ ends' = 0
  /\ dump' = NoDump
  /\ crashAt' = Zeroed.mean_i

Next ==
  \/ \E p \in Pids : \E shift \in -1 .. 1 : Sample(p, shift)
  \/ Restart

Spec == Init /\ [][Next]_vars

(* Samples of every pid keep coming while the CAN stream runs, and the     *)
(* thread handles each.                                                    *)
Fairness ==
  \A p \in Pids : WF_vars(\E shift \in -1 .. 1 : Sample(p, shift))

FairSpec == Spec /\ Fairness

-----------------------------------------------------------------------------
(* The types of the variables.                                             *)
TypeOK ==
  /\ crash_status \in {0, 2}
  /\ indicator \in Nat
  /\ after \in [Series -> 0 .. AfterSize + 1]
  /\ cbuf \in [Series -> [buf : [C!Slots -> Nat], index : Nat]]
  /\ mean_i \in [Pids -> Nat]
  /\ starts \in Nat
  /\ ends \in Nat
  /\ dump \in [Series -> [1 .. BeforeSize -> C!Entry]]
  /\ crashAt \in [Pids -> Nat]
  /\ restarts \in Nat

(* The series whose AfterSize rows are sent and which have been counted.   *)
Done == {s \in Series : after[s] > AfterSize}

(* The indicator counts every completed series exactly once, until the end *)
(* of the record resets it; it is reset only when every series is complete *)
(* (status.cpp:250, 264, 364-375: "CAN_DATA_SIZE -1 + extra cusum and std  *)
(* dev buffers").                                                          *)
IndicatorCounts ==
  \/ indicator = Cardinality(Done) /\ Done # Series
  \/ indicator = 0 /\ Done = Series

(* A record that was closed is complete: CRASH_END is sent only after all  *)
(* AfterSize rows of all the series, whatever the order and the rates in   *)
(* which the pids arrive.                                                  *)
EndMeansComplete == ends > 0 => \A s \in Series : after[s] > AfterSize

(* The counters of the rows are not reset at the end of a record, so a     *)
(* thread closes at most one: a second crash sends START, the buffers and  *)
(* MID, then neither a row nor an END.                                     *)
OneEndPerThread == ends <= 1 /\ starts <= 2

(* What a crash sends of the time before it is, for every series, exactly  *)
(* the last BeforeSize samples -- or nothing of the buffer at all, when    *)
(* the number of samples stored, less the earlier dumps, is a multiple of  *)
(* the size of the buffer.  (A second record is as good as the first when  *)
(* a buffer turns over between two crashes; 300 >= 200 sees to it.)        *)
PreCrashRecord ==
  starts > 0 /\ AfterSize >= BeforeSize =>
    \A p \in Pids : \A s \in SeriesOf[p] :
      dump[s] = IF (crashAt[p] - (starts - 1)) % BeforeSize = 0
                  THEN [i \in 1 .. BeforeSize |-> C!Outside]
                  ELSE C!Window(crashAt[p])

(* Rows are sent only while a record is open, the sample that opens it is  *)
(* not also a row, and a closed one is never continued.                    *)
Rows == [s \in Series |-> IF after[s] < AfterSize THEN after[s] ELSE AfterSize]

R == INSTANCE CrashRecord WITH open <- crash_status = 2, rows <- Rows

(* The recorder implements the promise of CrashRecord.                     *)
ImplementsCrashRecord == R!Spec

(* Every pid has enough samples left, within the bound, for its series.    *)
EnoughSamples ==
  \A p \in Pids : \A s \in SeriesOf[p] :
    after[s] > AfterSize \/ MaxSamples[p] - mean_i[p] + after[s] > AfterSize

(* The record of a thread's first crash is closed eventually, if every pid *)
(* keeps sending and the thread is not restarted.                          *)
CrashIsClosed ==
  (crash_status = 2 /\ starts = 1 /\ EnoughSamples) ~> (ends = 1 \/ starts = 0)

-----------------------------------------------------------------------------
(* What the plots of data/sqlite.py take for granted: the first 200 rows   *)
(* of a series, split=200, are the samples before the crash.  Stated for a *)
(* series whose buffer was full when the crash came.                       *)
FullDumpIsWindow ==
  starts > 0 =>
    \A p \in Pids : \A s \in SeriesOf[p] :
      crashAt[p] >= BeforeSize => dump[s] = C!Window(crashAt[p])
=============================================================================
