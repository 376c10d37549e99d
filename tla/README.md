# A TLA+ model of the event data recorder

The program (`src/src/prog/main.cpp` and what it links) is the event data
recorder of a car. It reads the samples of a CAN bus, finds a crash in them,
records what happened before and after it, cautions the driver, asks whether
help is needed, and calls for it. It is one process with a supervisor and six
threads, a second process for the screen (`gtk`), a child process that plays or
reads the CAN bus, and a database.

Paths below are relative to the repository's `src/` directory unless they begin
with `data/` or `README.org`, which lie beside it.

## 1. The system

```
 can_play / candump                       gtk program
      | pipe                           shared memory (mutex)
   broker ----\                               |
   safety -----+--> postman --> boxes --> ui  +--> cellular
   ui ---------|       ^            \--> safety
   cellular ---|       |             \-> logger --> database
   safeguard --/       (safety --> logger: directly, POSTMAN_OPT)
       |
   SIGALRM to every thread once a second, restart of the silent
```

### Components, their state, their operations

| component | state | operations |
|---|---|---|
| circular buffer, `data/cbuf_mail.c` | `buf`, `index` | write, move the index, read ahead |
| crash recorder, `safety/status.cpp` | `crash_status`, `indicator`, twelve buffers and row counters, `cusum` sums | init, update (change detection), log |
| driver assistance, `safety/da.cpp` | `brake` and five static counters | update per pid: cautions, the request for help |
| safety thread, `safety/safety.cpp` | the two above | receive a sample, update, assist, log |
| post office, `post_office/post_office.cpp` | subscription table, boxes, barrier | subscribe, mail, get_mail |
| postman, `postman/postman.cpp` | the mail it carries | take, route, deliver, report what is unroutable |
| safeguard, `safeguard/safeguard.cpp`, `alarm/`, `threads/thread.cpp` | threads, tick counts, keep-alive counters | signal, check, restart, stop |
| ui thread, `threads/ui.cpp`, and gtk, `gtk/gtk.c` | shared block: message queue, answer slot, mutex | queue a message, prompt, wait, resolve; display, answer |
| cellular, `threads/cellular.cpp` | - | call the ambulance, report it |
| broker, `broker/broker.cpp`, and CAN stream, `can/can.c` | stream, child process, the static message, words and mail | fork, read a line, check it, send a sample or report it |
| mail queues, `mail/queue/`: moodycamel, or `locks.c` | the mails that wait; in `locks.c` an array, two indices and a mutex | add, pop, reset |
| logger, `logger/logger.cpp`, and databases, `db/` | `crashed`, transaction counter | insert a row, batch rows, end the program |
| `hex/` with `data/extractor.py`, `sha/`, `data/index.cpp` | - | the encoding of a sample on the bus, the hash of a line, tables |

### How they interact

- *Mails.* Each thread sends to the postman's queue; the postman copies a mail
  into the box of every subscriber of its type. The queues (moodycamel) keep
  the order of one sender and no order between senders. With `POSTMAN_OPT` 1
  (the build's default) the rows of the recorder go straight to the logger's box.
- *Start-up.* Each thread subscribes under a mutex and waits at a barrier, and
  so does the main thread. The broker subscribes to nothing and waits for nobody.
- *Supervision.* The main thread sends SIGALRM to each thread once a second;
  the handler counts an answer. A thread silent for longer than its leniency is
  cancelled, not joined, and replaced.
- *Screen.* ui and gtk share a block of memory: a queue of messages one way, an
  answer slot the other way.
- *End.* The logger sets `crashed` when it has written the end of a record; the
  main thread sees it and stops the program.

### Where the difficulty is

Subscribing while others already send; restarts that overlap the thread they
replace and meet static variables they do not reset; answers of the driver
that come for the prompt before; counters that wrap; a circular buffer whose
index is moved by hand; a record that must be closed after rows that come in
any order; a stream that two brokers share for a while, one of them in the
middle of a line; two programs that clear and read the same memory at their
start. `PROJECT.json` lists each of these hazards at its line with the
properties that cover it, or the reason why none does.

### What makes each component correct

- buffer: a dump is the last *n* samples, in order, whatever was written before;
- recorder: a record is opened by a crash, closed only when complete, closed if
  samples keep coming;
- assistance: cautions when they are due and only then; one request per crash;
- post office and postman: nobody waits for ever, the table is complete when it
  is read, each mail comes once to each of its receivers, in its sender's order;
- safeguard: a dead thread is restarted, a live one is not charged for what it
  did in time, the end of a record ends the program;
- ui and gtk: each request for help ends in a decision, and in the driver's
  decision if there was one; messages are displayed once and in order;
- broker: each line counts once, what is sent is what the line says, and a
  stream that ended is opened again;
- encoding: a number is read as it was written;
- mail queue: mails come out once each, in the order they were put;
- logger and database: a row that was accepted is in the database at the end.

## 2. Modules

| module | models | built on |
|---|---|---|
| `CbufMail` | `cbuf_mail.c` as operators, with a closed form of the dump | |
| `CrashRecord` | *abstract*: what the recorder promises to readers of the log | |
| `SafetyStatus` | the recorder: update and log | `CbufMail`, implements `CrashRecord` |
| `DriverAssist` | the assistance, an action per case of its switch | |
| `Safety` | the safety thread | extends `SafetyStatus`, instances `DriverAssist` |
| `PostOffice` | subscription, barrier, postman, restarts | |
| `Safeguard` | the supervisor, the signal handler, restarts | |
| `UiAssist` | ui thread, gtk program and shared block | |
| `HexFloat` | the encoder of `data/extractor.py` and the decoder of `hex.c`, as operators | |
| `CanStream` | broker, stream, child process, restarts | extends `HexFloat` |
| `Mailbox` | *abstract*: what a mail queue promises to the threads that share it | |
| `LockQueue` | the queue of `mail/queue/locks.c` | implements `Mailbox` |
| `EventLog` | *abstract*: what the log promises to its readers | |
| `Logger` | the logger, the local database, its end | implements `EventLog` |
| `*_proofs` | theorems and their proofs | the module of the same name; `Safety_proofs` also `SafetyStatus`, `CanStream_proofs` also `HexFloat` |
| `MC*` | constants for TLC | the module of the same name |

Definitions whose comment begins with `Mutant:` are deliberately wrong variants
of the definition that follows them; `PROJECT.json` names, for each property,
the variant that breaks it. They belong to no specification.

### How state and actions correspond to the code

*Buffer.* A mail is the number of its sample. `MoveIndex` and `ReadAheadIndex`
are the two index functions, arithmetic of `size_t` included: for a negative
index the code stores `size - index`, which is beyond the block. `Outside`
stands for whatever a read beyond the block returns. `Loop` is the dump's loop
call by call; `DumpMails` is its closed form, which the recorder uses.

*Recorder.* `Sample(p, shift)` is a turn of the thread's loop for a sample of
pid `p`: `safety_status_update`, then `safety_status_log`. `shift` is the
answer of `cusum`; the sums themselves are floating point and not modelled, so
any answer is possible, but for the first sample of a pid (`Shifts`). `Crash`
is the log with `crash_status` 1, `Record` with 2. `Series` are the twelve
`cbuf_mail_t`; `after[s]` is the `_i` counter of a series, `EndThreshold` the
`CAN_DATA_SIZE - 1 + 7` of `status.cpp:364`. A sample is one step as long
as the thread is the only user of its status; `Safety` takes the turn apart for
several threads. The histories `starts`, `ends`, `dump` are the mails
CRASH_START, CRASH_END and the dump.

*Assistance.* `BrakePressed`, `BrakeReleased`, `BrakeIdle`, `Pedal`,
`Acceleration`, `Other` are the cases of the switch; `Restart` zeroes `brake`,
a field of the status, and leaves the statics.

*Safety thread.* `Update`, `Assist` and `Log` are the calls of its loop, a step
each: the assistance sees `crash_status` between the update that sets it to 1
and the log that makes it 2. Any of `Threads` may be in the loop at once. `Begin`
is a new thread's `safety_status_init`, which zeroes the status all of them
share, wherever the others are; a cancelled one goes on through its calls, and
through further samples that are in the box, until it is gone (`End`). A turn
that another overlaps may record a crash without asking for help (its log finds
the 1 that the other's update set, and the other's assistance finds the 2), or
ask and record nothing. `alone` marks the turns no other thread overlapped;
for these `OneRequestPerCrash` is claimed, whatever went before.

*Post office.* A thread's `pc` follows `post_office_subscribe` and
`postman_deliver`; each bit it subscribes to is a step under the mutex. `queue`
has a sequence per sender and the postman may take the head of any of them,
which is the order moodycamel guarantees. A postman's `hand` is the mail in
`postman_send` and the loop's counter. `Restart` adds a second thread for the
box; the first ends (`End`) when it waits for a mail, where the cancellation
takes effect.

*Safeguard.* `Round`, `Check`, `Store`, `Restart` are the steps of
`safeguard_run` and `safeguard_check_responce`, split where an answer of a
thread can come between. The signal handler is two steps: `Find` looks its tid
up, `Answer` counts at the index found. A thread replaced between the two leaves
a `"stray"` handler, which counts for its successor. `seen` and `answers` are
`keep_alive[k][0]` and `[1]`, of type `size_t`: pairs of words, `hi` and `lo`.
`AsInt` is the way through the `int tmp` of `safeguard.cpp:182`, which keeps the
low word and fills the high one with its sign. From 2^31 answers on (68 years of
one a second) the two counters are never equal again, the thread counts as
answered in every check, and its return goes unnoticed; `Small` limits
`ReturnIsNoticed` and `ReturnedIsRestarted` to the answers before that.
`Recreated` is what `safeguard_restart_thread`
passes to the new thread, index arithmetic included; outside its arrays the
outcome is undefined and the model stops (`"undefined"`).

*Screen.* `Notify`, `Ask`, `Resolve` are the critical sections of the ui
thread, `NotifCallback` and `Answer` those of the gtk program. `Ask` is the
prompt, `Resolve` the end of its wait. `wild` is set when an answer is written
beyond the answer slot, over the queue's tail; nothing is claimed afterwards.
`Start` is the beginning of the ui thread, which clears the block and makes its
mutex: gtk may have displayed what an earlier run left there (prompt 0), and may
be in its callback. If the clearing falls between its look for a message and
its count of it, the head of the queue is ahead of the tail and the screen runs
through the block for ever (`gtk.c:119`, `gtk.c:131`, unsigned): `wild` again.
`GtkRestart` is a new gtk program on the same block. A restart of the ui thread
is not in the model: `safeguard_restart` shows that it gets no valid argument.

*Broker.* `Start`, `OpenPipe`, `Fork`, `CloseEnd`, `Fdopen`, `CallFgets`,
`TakePiece`, `Read`, `EndOfFile`, `Close`, `Clear` are `can_run_receive`; a line
is two pieces, because a read of the stream's buffer may end in the middle of
one. `FdopenFails` stores NULL over whatever stream is there. No descriptor is
closed on exec: a broker that forks while another has the write end of its pipe
open passes it to its child (`kept`), and if the other's pipe becomes the stream,
its end of file waits for that child too (`withheld`, until `KeeperEnds`).
The programs that play sounds are started by gtk, which is another process
and has none of these descriptors. `Parse`, `Copy`, `Validate`, `Pid`, `Value`,
`Send` and `Invalid` are the callback, a step for each use of its static
variables. `AsChar` is the conversion in `broker.cpp:53`: `info` is an array of
char (`mail_t.h:23`), which holds the pids of `data/index.hpp` (7 is the largest), while
269 is sent as 13 and 256 as 0. `RestartLive` cancels a broker, which runs on to
its next cancellation point (`DieInRead`, `DieInReport`, `DieInClose`), while
its successor starts. `overlapped` says that the two were in the callback at
once, or one at the ends of the stream beside the other; `broken` that a closed
stream was used or an open one replaced, where the model stops.

*Encoding.* A number is its sign, its whole part, the first four digits of its
fraction, and whether further ones follow. `Exact` says which numbers survive:
`int()` drops the zeros before the fraction's last digits when `str()` gave
fewer than four (.5 and .05 both arrive as .0005), a whole part of 0 has no
sign (-0.1234 arrives as 0.1234), and `hex.c:36`
prints into nine characters, so that -12345.6789 loses digits. The comment of
`extractor.py:35` gives the range -32767.9999 to 32767.9999 without exception.

*Pthread queue.* One action per step between two uses of the array, all under
the mutex. When the array is full and nothing was popped, `locks.c:99` gives
`reallocp` the new capacity where `locks.c:37` gives `mallocp` bytes: the block
shrinks, the next mail is written past it, and the model stops (`wild`, the
abstract `Overrun`). `locks.c` is `MAIL_QUEUE_IMPL` 1; the build's default is
moodycamel, whose order `PostOffice` has. A queue without capacity or scalar,
for which `locks.c:97` returns with the mutex held, is never made by the
program and is left out; `EveryCallReturns` says nothing of it.

*Logger.* `Receive` is a turn of the logger's loop; `Begin`, `Write` or
`WriteReport`, and `Count` are the three parts of `sqlite_local_db_log`, and
`depth` counts its calls to itself, by which a row that fails is reported.
`Return` is where a call goes on: the outer call, the loop, or the sleep after
CRASH_END. SQLite is external: `open`, `pending` and `stored` are its
transaction, `broken` the prepared statements whose step failed, which the code
returns from without a reset and can bind no more. `Refused` is a failure
before the step (hash, binding), `StepFails` one of the step. `Overflow` is the
recursion of a report that cannot be written; it uses up the stack, for each
inner call meets the same statement. A BEGIN may fail when no transaction
is open (`sqlite.c:134-141` drops the failure); the rows then become durable one
by one. `Exit` is `sqlite_local_db_exit`, called by `safeguard_deinit`. The histories `missed` and `lost` count the ends of a
transaction that failed and name the rows SQLite rolled back.

## 3. Runs

| run | question | bounds and why they are enough |
|---|---|---|
| `safety_status` | is a record complete, closed once, its window right, closed at all if samples keep coming; does the recorder implement `CrashRecord`? | 3 pids, 4 series (one pid with two, as the accelerations have seven), before and after 2 samples; 6 to 8 samples per pid give a full record, a second crash and its missing rows; one restart. `MCSafetyStatus` also has TLC evaluate `LoopIsClosedForm`: the dump's loop reads what the closed form says, for every index and content |
| `driver_assist` | are the cautions due? | limits scaled down, orders kept (step < limit); 7 releases are more than two cautions |
| `safety` | one request per crash? | an old thread and its successor, which starts at any moment, call by call; every case of the switch (brake, pedal, a pid without a case, an acceleration) and the 6 accelerations that two crashes and a complete record need: overlapped turns leave each combination of status, counters and `speed_shift` to the turns that follow |
| `ui_assist` | is an answer heeded, a message lost? | queue of 3, 3 prompts, 4 notifications, every kind of block at the start: the queue fills while a prompt is open, an answer can be one to three prompts late |
| `post_office` | is the table complete when it is read, does the barrier open for all, is each mail handled, once and in its sender's order? | three boxes, a type two of them share, a type nobody wants and the type 0; two mails, of the broker before or of the main thread after the start; one restart of the postman. `MCPostOffice` also has the program's own table, and `ProgramSendsAreWanted`, which TLC evaluates, says that each type a thread of the program sends has a subscriber, so that the report of an unroutable mail stays unused |
| `safeguard` | are ticks earned, the dead restarted, does the end come? | two threads of different leniency, one of which may return; words of 4 values, two in a counter: the answers pass the border of an int in both directions and wrap. `ServiceLeniency` is 1 and 0, so that a thread is restarted at once and after a forgiven check |
| `can_stream` | does every line count once, is what is sent what the line says, is the stream opened again? | two brokers, 2 lines of four kinds (a sample, one whose pid no char holds, a pid 0, a wrong hash), 2 faults (restart of a live broker, failure of `fdopen`): a broker cancelled in each step, pipe, fork, close and fdopen apart, with its successor in each other. `MCCanStream` also has TLC evaluate `BorderRoundTrip` at the borders of the encoding |
| `lock_queue` | is the array a mailbox, does every call return? | two threads, an array of 3: full, empty, moved to the front from each index, grown |
| `logger` | is each row or its report in the database once and in order, what can a failure take, does the record's end stop the program with all of it stored? | batches of 3 (the code has 1, a variable it means to change), 6 rows, one failed end in a row, 2 nested calls: a batch is filled by rows and reports, spans a failed end, and is open at the exit |

All of these pass. Deadlock is not checked where the bounds on samples, mails
or checks end a behaviour; `driver_assist` runs for ever and is checked.

### Disagreements the runs show

Each of these runs checks one statement of the repository and TLC finds a
behaviour of the code that violates it.

- `safety_status_dump` - `cbuf_mail.c:42` computes `size - index` where the
  index is negative. A crash that comes when a buffer's index is 0 dumps 200
  mails from beyond the block; the plots of `data/sqlite.py` take the first 200
  rows of a series for the samples before the crash.
- `ui_assist_stale` - `ui.cpp:89` means to ignore answers out of time; a press
  of an earlier prompt's box, displayed until the timer's next turn, answers
  the new prompt. The box may even be that of an earlier run of the program,
  for `ui.cpp:48` clears the block and not the screen.
- `safeguard_restart` - `safeguard.cpp:153` tests `tid > d_size` for `>=`, and
  the arrays are shifted twice: the ui and the cellular thread are restarted
  with a function or an argument beyond their arrays.

The properties of the passing runs that touch these places are stated with what
the code does: `PreCrashRecord` says which dumps are lost, `PedalNeverCautions`
that the caution of `da.cpp:17` for excessive use of the accelerator is dead
(the decay in `da.cpp:74` keeps its counter at 20 or below, the caution needs
more than 200), `OverflowNeedsStaleAnswer` when the slot overflows,
`SoundUnlessOverlap` when the broker's static buffers are mixed and which pids
arrive (those a char holds), `Exact` which numbers the encoding loses,
`StreamResumes` when a stream that ended is not opened again (`withheld`: a
broker cancelled between its successor's `pipe` and `close` forks a candump that
runs on), `ReturnIsNoticed` until when a return is noticed (`Small`),
`OneRequestPerCrash` which turns may record without asking (overlapped ones),
`Overrun` when the pthread queue is spoilt. They, and the following, have no run
of their own.
A further disagreement: `ui.cpp:32` means to overwrite the last
entry of a full queue, and the message is written into the memory of the answer
slot instead. `UiAssist` has it so; `MessagesInOrder` counts such messages as
lost, and `EveryPromptHasAnOutcome` shows that no open prompt is spoilt by one.

### Fairness

- `SafetyStatus!FairSpec`: samples of each pid keep coming, as on a running CAN
  bus. Without it the record of a crash stays open, and the program does not
  stop: `README.org` has the stream run on.
- `PostOffice!FairSpec`: each started thread and the main thread are scheduled.
  Nobody is obliged to send, to restart a thread or to end one.
- `CanStream!Spec`: each broker's thread is scheduled, a cancelled one too, and
  a broker that has returned is restarted, which is `ReturnedIsRestarted` of the
  safeguard. candump need not write or end, nor need a child that has inherited
  a write end (`KeeperEnds`).
- `LockQueue!FairSpec`: a thread inside an operation is scheduled, and the mutex
  is handed to each thread that waits for it again and again (strong fairness):
  the threads that poll sleep between two calls. Nobody has to call.
- `Logger!FairSpec`: the logger, once it has a row, and the main thread, once
  the logger sleeps, are scheduled. No row has to come.
- `Safeguard!FairSpec`: the main thread is scheduled. The other threads need
  not be: a thread that never answers is the one to restart.

## 4. Proofs

TLAPS proves the following for every value of the constants that satisfies the
named assumptions of the modules.

| module | theorems | argument |
|---|---|---|
| `DriverAssist_proofs` | `TypeCorrect`, `BrakeRange`, `BrakeCounts`, `BrakeCaution`, `PedalDead` | that `brake` does not fall below -1 needs to know that it is forgiven at most once between two releases: the invariant ties `break_count`, which no restart resets, to `quiet` and `brake` |
| `Safety_proofs`, of the recorder | `TypeCorrect`, `IndicatorCorrect`, `EndComplete`, `OneEnd`, `Refinement`, `PreCrash` | `IndicatorCounts` is inductive with the type; an indicator that counts the done series reaches the threshold exactly when all are done, by the cardinality of a disjoint union. After the end every counter is beyond `AfterSize`, so no further series is found and `ends`, `starts` follow. The refinement needs the same facts. `PreCrash` follows the buffers modulo their size: `Filled` before the first crash, `Moved` after it, when the dump has left the index a slot back or far outside; a second crash needs all rows of the first record, and with them more samples than the buffer lost (`BufferInv`) |
| `Safety_proofs`, of the thread | `OneRequest`, `IndicatorOfThreads` | for any number of threads, samples and restarts. `AloneTurn` says that a turn nobody overlapped has asked exactly if its log finds the crash; it needs that `speed_shift`, a static, is clear when such a turn detects one. `ShiftIsFresh` says why: it is set only while a crash is unrecorded and cleared by every acceleration, so if it is still set, the record of that crash has gained no rows but from the threads that were on their way to the log, fewer than a complete record has (`ThreadsAssumption`, the cardinality of `Pending`). The recorder's lemmas are stated on its counters alone and serve here too: the indicator counts the complete series whatever turns overlap |
| `Safeguard_proofs` | `TypeCorrect`, `ReturnNoticed`, `TicksEarned` | answers not yet seen and answers to come are at most three (`FewUnseen`), less than a turn of the low word, which is all the int leaves alone: an answer is never hidden by a wrap; each thread that was in time has one (`Signalled`). A thread that has returned gains none but the one of a stray handler; as long as the answers fit an int, a store makes the counters equal and the next check ticks (`Silenced`); each tick is matched by a late check (`Earned`, for all answers, for the truncation only suppresses ticks) |
| `CanStream_proofs` | `RoundTrip`, `TypeCorrect`, `EveryLine`, `SoundReports` | `RoundTrip` by cases of what `Trimmed` and `Printed` divide by: the encoder and the decoder are inverse on exactly the numbers that are `Exact`. `EveryLine` needs `Placed`, which says what of a line each broker holds: a broker in `fgets` holds the lock of the stream, and nothing or the head that was taken last. `SoundReports` adds what is true only as long as nobody overlapped: the stream is what each broker takes it for, no child has a write end of another's pipe, and the static buffers hold the line of the one broker in the callback, which comes after all reported ones (`Streams`, `Flow`); the value is `RoundTrip`'s, the pid, to 127, is `CharType`'s |
| `LockQueue_proofs` | `TypeCorrect`, `Implementation` | `TypeOK` is inductive: the holder of the mutex is the only thread inside, so each step finds the indices as the step before left them. The refinement maps the mails to the window from `start` to `end`, less the one being popped; lemmas say what a pop, a write and the move to the front do to a window |
| `Logger_proofs` | `TypeCorrect`, `RiskBounded`, `RowsInOrder`, `RecordKept`, `Refinement` | `AtRisk` alone is not inductive: `Covered` counts the entries of the transaction against the calls counted so far and the one about to return, and a transaction that is not open is empty, without which the end of a batch outside of a transaction would lose the bound. For the order, `RowInv` says that all entries are of earlier rows than the one at hand until it is written. A step leaves the entries, makes them durable, drops the open ones or adds the row (`Shape`): these are the steps of `EventLog` |
| `UiAssist_proofs` | `TypeCorrect`, `EveryPromptEnds`, `InTimeIsHeeded`, `OverflowIsStale`, `DisplayedInOrder` | a message written over the answer slot leaves `"text"` there, but it comes before the slot is emptied for the prompt, and none is added while the prompt is open: what counts as filled while a prompt is open is an answer (`Outcomes`). What was answered in time is in the slot until the prompt ends (`Heeded`); the indices are spoiled only by the second answer, and a box gives one (`OneBox`); the entries between head and tail are those added and not lost, in their order (`QueueOrder`) |
| `PostOffice_proofs` | `TypeCorrect`, `TableIsComplete`, `NobodyIsLeft`, `MailDeliveredOnce`, `SendersInOrder` | the barrier counts, and does not know whom: that it opens for the first thread of every box and the main thread, and for nobody else, is a comparison of cardinalities (`OpenForAll`), and needs that no thread is replaced before (`StartInv`). With the table complete, a mail is in one place, a queue or a hand, and the hand's counter says which boxes have it (`MailInv`); that the postmen are finitely many (`FewPostmen`) is proved, not assumed |

Only model-checked: what holds under fairness (`CrashIsClosed`,
`EveryMailHandled`, `ReturnedIsRestarted`, `RecordEndsProgram`,
`EndOfRecordEnds`, `StreamResumes`, `EveryCallReturns`), and the loop of the dump
against its closed form (`LoopIsClosedForm`), which needs induction over the
loop: the prover cannot instantiate the induction theorems. Every other property
of the passing runs is a theorem.

## 5. What is not modelled

- *Time.* The second between checks, the ten seconds of a prompt and the turn
  of the screen's timer are steps that may come at any moment.
- *Values.* Texts, the rounding to a float, `cusum`'s arithmetic (its answers are
  chosen freely), the digest of a line (a comparison with what was hashed).
- *Overlap of an old and a new thread* of the same function, except for the
  postman, the broker and the safety thread, and a signal handler that a
  replaced thread is still in. Safety threads interleave by calls: two of them
  within two calls at once race on plain variables, and the old one may write
  through pointers the new one has set to null, after which the program is gone.
- *The record's end against the request for help*: the logger stops the program
  (`safeguard.cpp:217`) 30 seconds of samples after the crash
  (`safety/status.cpp:7`), the driver has 10 seconds (`external/global.h:6`).
  Only these times keep the order, and the models have no clocks.
- *A mutex that is not process-shared* is taken at its word, and the failure of
  `shmget` (`ui.cpp:47`), after which the barrier never opens, is left out.
- *A logger cancelled inside SQLite*, the program stopped by a signal while the
  logger is inside it, and what the threads do between their cancellation and
  the end of the process (`safeguard_deinit`).
- *The remote database* (`DB_IMPL` 1, not built by default): its protocol is what
  `readp` and `writep` of the standard library's submodule do with a short read,
  and the submodule is not part of the repository.
- *Sending and playing on the CAN bus*, *tools*, the *debug thread* (not
  started), *GTK resources and the construction of the window*, *scripts* other
  than the encoder: no state of the recorder.

## 6. Plan

Done, in this order, the most important first: buffer, recorder and its
abstract record, assistance, safety thread, screen, post office, safeguard,
logger and local database, encoding, broker and CAN stream, pthread queue and
its mailbox, start of the two programs; proofs of every safety invariant and
action property of the passing runs, and of the three refinements.

Next:

1. What the theorems leave open between the modules: that the mailbox the
   queue implements is the box the post office delivers to.
2. The converse of `SoundReports` and `PreCrash`: which overlap, which index
   makes a report wrong or a record empty, as theorems instead of exceptions.
