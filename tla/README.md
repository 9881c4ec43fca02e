# A verification project for file_transfer_manager

`file_transfer_manager` is a small Go program that moves files between two nodes. A *push task* on
the node that has the file answers requests for slices; a *pull task* on the node that wants the
file asks for them one after the other, writes them into a temporary file, and renames it when the
last slice has arrived. Tasks are kept in a LevelDB database, so that a transfer goes on after a stop,
an error or a restart. Both ends talk over plain TCP, and a user drives a node through a HTTP API.

This directory holds TLA+ models of that program, the configurations under which TLC checks them,
and theorems about them that TLAPS proves.

| file | what it is |
| --- | --- |
| `SliceTransfer.tla` | one file on its way: the worker's loop, the pusher's handler, the connection |
| `MC_SliceTransfer.tla`, `SliceTransfer_*.cfg` | its instances for TLC |
| `SliceTransferProofs.tla` | whatever becomes of the source: its types, that a file is delivered at most once, that what is unanswered is bounded |
| `SliceCopyProofs.tla` | for a source nobody edits: the theorems about what is on the puller's disk, and that no round is in vain |
| `PullTaskControl.tla` | start, stop, delete and creation of one pull task against its workers |
| `MC_PullTaskControl.tla`, `PullTaskControl_*.cfg` | its instances for TLC |
| `PullTaskControlProofs.tla` | its theorems |
| `RecordList.tla` | a list of task records or settings, changed by several goroutines |
| `MC_RecordList.tla`, `RecordList_*.cfg` | its instances for TLC |
| `RecordListProofs.tla` | its theorems |
| `ResumableCopy.tla`, `ResumableCopyProofs.tla` | what a download promises, and that `SliceTransfer` implements it |
| `TaskIds.tla`, `TaskIdsProofs.tla` | the two id counters, over crashes and restarts, and their theorems |
| `Handshake.tla` | the two exchanges that create the halves of a transfer; extends `TaskIds` |
| `MC_Handshake.tla`, `Handshake_two.cfg` | its instance for TLC, with the properties of the counters |
| `HandshakeProofs.tla` | its theorems |
| `ChanDynamic.tla`, `MC_ChanDynamic.tla`, `ChanDynamic_queue.cfg` | the growing queue of `pkg/utils`, and its instance |
| `ChanDynamicProofs.tla` | its theorems |
| `PROJECT.json` | components, runs, mutants, the map from definitions to source lines, findings, hazards |

To run one: `tlc -workers 2 -config SliceTransfer_late.cfg MC_SliceTransfer`, and
`tlapm SliceTransferProofs.tla`.

## 1. Inventory

Paths are under `src/`; `transfer.go` and `handers.go` are in `transfer_manager/`.

**Slice transfer** (`handers.go:222-425`). State: the pull task in memory (`Status`, `Fault`,
`FileInfo.Index`, the offset to ask for next), its record, the temporary file, the push task's
record on the other node, the source file. `PullTask.Task` dials, then loops: serve a stop, serve a
delete, or else call `fileSlicePull`, which asks for the slice at `Index`, writes what it gets at
`Index`, moves `Index` to the `Index` in the reply, and saves the record; after the last slice it
renames the file and checks its hash. `FileSlicePush` checks the push task, reads the slice, and
deletes the push task when the slice is the last. Hard: replies carry no request number, so a late
reply is taken for the answer to the retry; both sides decide "last slice" for themselves; a crash
can fall between any two of write, rename and record. Correct means: what lies below the resume point
is the source's; a file is delivered once and is the source; an interrupted transfer can go on; the worker
ends.

**Control of pull tasks** (`transfer.go:99-170, 315-395`, `handers.go:186-275`). State: `TaskMap`, the
task's `Status` and `Fault`, its unbuffered channels `exit` and `clear`, its record. Operations:
`PullTaskStart`, `PullTaskStop`, `PullTaskDel`, `CreatePullTask`, `Load`, `begin`. Each runs in the
goroutine of a HTTP or TCP handler; none holds a lock while it looks at and changes the task. Hard:
check-then-act on `Status`, a rendezvous with a goroutine that may be gone, channels replaced under a
waiting sender, saves that lag behind the change they record. Correct means: at most one worker per task, a task
not shown as running is not being pulled, the record tells what the task tells, a stop is
served, a delete lasts.

**TCP messaging** (`connTcpMessage/`). State: the connection, the bytes in flight, the table of
handlers. `ConnTcp.Send` writes a package and reads one back under a deadline of five seconds;
`handFunc` reads, dispatches and replies, one request at a time per connection. Hard: deadlines that pass in
the middle of a package, connections that break. Correct means: an answer belongs to its question.

**Lists of records** (`transfer.go:504-560, 600-813`, `handers.go:150-173, 452-522`,
`pkg/db/leveldb.go`). Two lists (pull tasks, push tasks), the white list, the sharing directories, each one value
under one key. Every change reads the list under a read lock, releases it, changes its copy and
writes it back under the write lock; `LevelDB.Save` deletes the key before it puts the new value. Hard:
lost updates, and a crash between the delete and the put. Correct means: a change of one
task never undoes one of another; a crash loses at most the change under way.

**Task ids** (`handers.go:135-148`, `transfer.go:111-136`). Counters in memory and in the database.
Hard: the value returned is read after the increment and the save; requests are served before the counters
are loaded; a crash can fall inside the save. Correct means: no id is given twice, also across restarts.

**Creation of tasks** (`transfer.go:220-313, 397-502`, `handers.go:43-133`). Two exchanges on connections of
their own: a push (`CreatePushTask` asks, `RecvNewPushTask` answers with an id and
creates the pull task a second later) and a pull (`NewPullTask` asks, `RecvNewPullTask` makes the push
task and answers). Hard: a lost reply or a crash leaves one half; the manager keeps the task of a request in a field that the next request
overwrites; a push task made for a reply that is lost never expires. Correct means: a request that was answered has both halves, a half
that is alone never fits another task's, and every request ends.

**White list, sharing directories, automatic pull, expiry** (`transfer.go:585-813`): settings read by the handlers, and a periodic
sweep of expired push tasks.

**HTTP API** (`main.go`): decodes a request and calls one operation. **Utilities**
(`pkg/utils`): `ChanDynamic`, a queue that grows by channels, in which `Get` and `Add` use a channel after they let go of the lock. Correct means: first in, first out, and
nothing lost. It, `BackoffTimer` and `SaveFile` are not used by the program; the others are conversions and system calls. **Logging, configuration** (`pkg/zap`, `config`): no state the program's behaviour depends on.

How they meet: a handler calls an operation of the control; `CreatePullTask` saves the record, sizes the
temporary file and sends the task on the channel `Exec`; `begin` receives it and starts a worker; the
worker dials the other node and its requests reach `FileSlicePush` there through the `Router`. `Load`
runs before the HTTP server and after the TCP server have started (`main.go:23-31`).

The hazards this code is exposed to are listed in `PROJECT.json`, each at its line, with the
properties that would catch it going wrong, or the reason why none does.

## 2. How the modules correspond to the code

### SliceTransfer

A file is a sequence of units; `Lenth` units travel in a full slice (`Lenth` is the code's own constant, in bytes). `Source0`
is the file as `CreatePushTask` measured and hashed it: `FileInfo.Size` is `Len(Source0)`, and "the hash
matches" is "equals `Source0`".

| variable | in the code |
| --- | --- |
| `worker` | where `PullTask.Task` stands: waiting on `Exec`, before the select, waiting for a reply, about to save, to rename, to remove the record |
| `status`, `idx`, `errnum` | `PullTask.Status`, `FileInfo.Index`, and the loop's `errnum` |
| `db` | the task's record (status, index, whether `Fault` is set) |
| `tmp`, `delivered` | the temporary file, and the files renamed into place |
| `link`, `req`, `rep`, `stray` | the connection: requests unread by the pusher, replies unread by the worker, requests on connections already closed. `"torn"` is a connection on which a deadline passed inside a reply, so that the next read does not start at a header: it fails, having swallowed some replies, and only by chance ends where a reply begins (`Garbled`) |
| `push`, `src` | the push task's record and the source file, now |
| `outcome`, `starts`, `late` | history and bound: how the record left the list, runs of the worker, whether a deadline has passed |

`Serve` is `handFunc` with `FileSlicePush` for one request; `ServeStray` is the same on a connection the puller
has closed, whose reply goes nowhere but whose effect (the push task is retired) remains.
`PullTaskStart` and `Restart` reach `CreatePullTask`. `Dial`, `TakeExit`, `TakeClear`, `AlreadyDone`, `Ask`, `LinkError`, `Timeout`, `Garbled`,
`RecvRefusal`, `RecvSlice`, `Save`, `Rename` and `Finish` are the steps of the worker; there is one action wherever
another goroutine, the other node or a crash can come between. Every error of a round is `Fail`: counted, then either
retried on the same connection or, with the retries used up, the task stops with its `Fault`.

What is abstracted, and where the rest is:

* There is one worker, and a stop or a delete reaches it as a choice of the environment (`TakeExit`, `TakeClear`).
  How handlers wait for it, and how two workers come about, is `PullTaskControl`.
* `CreatePullTask` succeeds here; its failures are in `PullTaskControl`.
* The record of the one task is saved and removed whole. What the saves of *other* tasks do to it belongs to
  `RecordList`.
* The temporary file fails to open, to be written or to be renamed when `WriteFaults`. The first costs a retry; the code drops the errors of the other two.
* Setting `Status` and `Fault` and saving them is one step here; `PullTaskControl` takes them apart.
* The check of the hash has no effect: its error goes to a variable of an inner block of `fileSlicePull`, which returns true and nil. Hence nothing of it is in `Rename`.

### PullTaskControl

`pc[h]` is where handler `h` stands in its operation, `wk[w]` where worker `w` stands, `gen` is which pair of
channels the task holds (0: nil, as after `Load`) and `ch[h]` the pair handler `h` waits on. An action reads or writes the shared task, or its record, once.
So `StartCheck` and `StartMark` are the two lines of `PullTaskStart`, `CreateMake`, `CreateSave`, `CreateLook` and `CreateExec` the four effects of `CreatePullTask`,
and `TakeExit`, `MarkStopped`, `MarkFault` and `Leave` the end of a worker. The select is `TakeExit`, `TakeClear` and, only when nobody waits, `Round`.

`TaskMap` and the record change together under `lockPullTaskList`, so that one variable stands for both. What a slice contains is left to
`SliceTransfer`; here a round ends as `RoundMore`, `RoundRetry`, `MarkStopped`. A call that is refused changes nothing and makes no action.
`starts` bounds the operations that make a worker. `overlap` is history: since the last restart an operation began while another was
inside. The properties that the code keeps only for clients that wait for their answers are conditional on it.

### RecordList

`kind` says which list this is: `"pull"` (a JSON array beside `TaskMap`), `"push"` (a JSON map, with the sweep of `clearExpirationPushTask`) or
`"settings"` (the white list and the sharing directories, which are read and saved without a lock). The list is a function from keys to what their records say, with `None` for no record; `here` tells an empty list from no list.

An operation is `Begin`, `Read` (`Find` under the read lock, with the early returns in `Refused`), then `Delete` and `Put`, the two steps of
`LevelDB.Save`: `Delete` takes the write lock, edits the copy, changes `TaskMap` and removes the key, `Put` stores the copy and releases the lock. `Keep` is `pullTaskRecordOne` storing in `TaskMap` what it found, and
`NothingToSweep` a sweep that finds nothing expired. `Restart` is a crash anywhere and `Load`: `loading` has the tasks that were running, which come back by the saves of `CreatePullTask`.

Three variables are history. `truth` is the list as it would be if each operation were atomic at the moment it edits its copy; `missed[p]` are the keys others have changed since `p` read the list; `harmed` collects what a save had missed
and what a crash between `Delete` and `Put` removed, and gives a key back when its own record is next saved.

Abstracted: `Delete` and `Put` of the database do not fail; what a saved record says is chosen when it is edited into the copy (the code marshals the task under the lock); of `TaskMap` only its keys are kept. The read lock
is not a variable: a read is one step, so that nobody can want the write lock in the middle of it.

### ResumableCopy

Three variables: whether the task is listed (`state`), the point a restart resumes from (`point`), the files put in place (`placed`). `SliceTransfer` maps `outcome`,
the recorded index and `delivered` to them (`Copy`, `IsResumableCopy`). Worker, connection, temporary file, timeouts, stops and crashes have no counterpart: the
refinement says that they never show, except as time that passes.

### TaskIds

`max` is the counter in memory, `stored` the one in the database, `at` and `num` where a caller of `newTaskID` stands and what it took. `Add` is the atomic addition, `Drop` and `Put` the two steps of
`LevelDB.Save`, `Return` the second reading of the counter. `boot` is how far `main` has come: `"bare"` while the TCP server runs without handlers, `"wired"` from `NewTransferManger` on, `"up"` after `Load`. A request for a handler that is
not there calls nil and ends the node (`Panic`). `flaws` is history: calls that overlapped, calls before `Load`, a crash in the gap of the save. `given`, `twice`, `last` and `floor` record what was returned; a crash forgets `last` when the counter has a flaw, since what the database holds may then be behind. Numbers are unbounded (the code has 64 bits, which no number of files exhausts).

### Handshake

The node `"push"` keeps push tasks and the push counter, the node `"pull"` the other two; a request goes either `way`. Its two goroutines are `pc` (who asks) and `ans` (who answers); `net` is its connection, made for one request and one reply.

| part | actions |
| --- | --- |
| `NewPushTask` and `CreatePushTask`, asking | `NewPushTask`, `CreatePushTask`, `HaveId`, `EmptyFile`, `Announce`, `HearPull`, `SetIds`, `SavePush` |
| `NewPullTask`, asking | `NewPullTask`, `HaveId`, `Announce`, `HearPush`, `CreatePull` |
| either, asking | `Fail` (path, file, dial), `Timeout`, `HearRefusal` |
| `RecvNewPushTask` | `Take`, `ReplyPull`, `CreateLater` (the goroutine that sleeps a second) |
| `RecvNewPullTask` | `Refuse`, `Take`, `HavePushId`, `EmptyRefused`, `ReplyPush` |
| either node | `Count` (inside `newTaskID`), `Fall` (crash), `Start` (`NewTransferManger`, `Load`), `RequestPanics` |

`field` is `TransferManger.PushTask` and `.PullTask`; `obj` is the task a request works on, which the field may have made another request's. `task` holds the ids in a `PushTask` in memory. The records `pushDb`, `pullDb` carry, besides the ids, whose file they
are about. `Admits` is `checkPushTask`; its tests of address and expiry are left out, which only lets more in.

Abstracted: the white list, the sharing directories and the state of the file are the choice between `Take` and `Refuse`; whether pulling is automatic matters to `PullTaskControl`, not here; records are saved whole and alone (`RecordList` has what lists do to each other);
records are not removed, so that old halves stay to be met by new ones. `CreatePull` has the record saved also when the request fails, because `CreatePullTask` can fail after its save; that it fails *at* the save, which leaves nothing, is left out. After an empty file `RecvNewPullTask` replies `null` and `NewPullTask` panics on it, which gin catches: the request fails, as by a refusal.

### ChanDynamic

`chan` has what each channel holds, known by the index it was filed under, and `filed` the indices in the map. A step is what `Get` or `Add` does under the lock, or at a channel: `GetLook`, the two selects (`Receive`, `NothingThere`, `Cancelled`), `DropOldest`; `AddLook`, the select (`Send`, `Full`), `Publish`. `crowded` is history: two
`Get`s, or two `Add`s, have overlapped. So is `first[i]`, how much had been added when channel `i` was made: by it `Segment(i)` says which stretch of what was added channel `i` has to hold.

## 3. The runs

| run | result | what it shows |
| --- | --- | --- |
| `slices_late` | holds | A source nobody edits, with late answers, resets, stops, deletes, crashes and the code's five retries. Whatever came before, everything below the offset in memory and in the record is the source's (`ResumePointSafe`), a delivered file starts with the whole source and has less than a slice behind it (`DeliveredHoldsSource`), it *is* the source when no deadline ever passed (`ExactWhenNeverLate`), the push task is retired only when at most one slice is left (`RetiredAtTheEnd`), complete means delivered (`CompleteHasFile`), the record never moves back (`ResumeNeverRegresses`), no round of the worker is in vain (`RoundsPay`), every run of it ends (`WorkerStops`), and record and deliveries together behave as the abstract copy (`IsResumableCopy`). |
| `slices_edited` | holds | The source shrinks, grows or is emptied, the temporary file does not open, is not written or not renamed, and the push task expires: still at most one delivery (`DeliveredOnce`), what is unanswered stays within the errors met (`AnswersOwed`), and the worker still ends. |
| `slices_intact` | violated | A late full slice is written at the offset of the short last one and makes the file longer than the source; the hash check fails and the task counts as complete all the same. |
| `slices_resume` | violated | The push task is deleted with the first reply that holds the last slice. A puller that crashes before it has written that slice goes on after its restart, asks for it and is refused: the pull task stays in the list and nothing can finish it. |
| `control` | holds | Two handlers and two workers, failing dials and files, restarts: the record agrees with the task whenever everyone has saved (`AtRestAgree`), one worker and no pulling behind a stopped task while operations do not overlap (`OneWorker`, `StoppedIsQuiet`), a stop or delete that waits beside a worker is taken (`WaitingIsTaken`). |
| `control_double` | violated | A start meets a task that its creation has listed but not yet looked at: both put it on `Exec`, and there are two workers on one task. |
| `control_dial` | violated | A failed dial leaves the task running without a worker. |
| `control_undelete` | violated | A worker gives up and marks the task stopped, a delete removes the record, and the worker's save lists the task again. |
| `records` | holds | Three goroutines on each kind of list, with sweeps, lookups and crashes: whatever overlaps, a record is wrong only where a stale save or a crash inside `Save` got it, and its next save puts it right (`OnlyOverlapHarms`); `TaskMap` and the list have the same tasks but for those (`MapFollowsList`). |
| `records_add` | violated | Two additions to the white list read it before either saves: one is lost, although both were answered. |
| `handshake` | holds | Two requests, each either way, with failures, late and lost replies, restarts and one crash of either node. No id is given twice without one of the three flaws (`IdsDistinct`), and even overlapping callers get larger ids than whoever was done before them in the same life of the node, or in an earlier one that was in order (`NewerIsLarger`). Whatever overlaps, no puller is let in to another task's file unless *both* counters repeated ids (`RightFile`). A request that succeeded, undisturbed by others, has both halves, or its puller is in the second of sleep or crashed there (`AnsweredIsPaired`). Every request ends (`AskEnds`). |
| `chan_queue` | holds | While no two calls of a kind overlap, what was added is what was received followed by what the channels hold, in order (`NothingLost`), and everything is received (`EverythingReceived`). |

Every property of a passing run has a mutant of a mapped definition (a plausible slip in the code: a missing check, a reset in the wrong place, a
file opened with truncation) under which the run reports it violated.

### What the violations say

* **A damaged file counts as complete** (`handers.go:350`). The verdict of `CheckFileHash` is assigned to the `err` declared in the inner block at `303`; the named result is `errs`, and
  the bare return gives true and nil. How damaged it can be is known, for a source nobody edits: `DeliveredHoldsSource` says that the whole source is there, with less than a slice behind it.
* **The last slice cannot be asked for twice** (`handers.go:421`). In the run the puller crashes with the last slice served and not yet written, and is refused when it goes on. `RetiredAtTheEnd` bounds the loss to one slice; that slice is lost for good.
* **A task can be started twice** (`handers.go:200`), although "the task cannot be started twice" is what the caller should read. In the run one start races with the creation of a task that awaits confirmation: the creation looks at the status after the start has set it.
  Two starts that both pass the check at `transfer.go:321` come to the same, in five steps more.
* **running without running** (`handers.go:227`): such a task can be neither started nor stopped nor deleted until the node restarts.
* **A deleted task comes back** (`handers.go:267`). In the run the worker gives up; a stop followed by a delete does it too, one step later, through the save at `236`.
* **An addition to the white list is lost** (`transfer.go:697`), and likewise one to the sharing directories (`transfer.go:624`). The task lists lose changes in the same way, in spite of their locks, because the lock is released
  between the read and the save; `OnlyOverlapHarms` says which ones, and that is all the code promises.

One more defect was seen while reading and is no run, because a single step shows it: a stop of a task that awaits confirmation, or a second stop, sends on a channel nobody reads
(`transfer.go:371`) and the request never returns.

What the conditions of the passing runs leave out happens, too. Overlapping requests do get one id; when the older of their numbers is saved last, a restart brings back an id that was returned. A crash inside the save of a counter does make ids start again at one. A `Get` beside another `Get` loses and reorders elements, because each drops what is the oldest channel by then; and a `Get` can wait on a channel that an `Add` has left behind
although the queue is not empty, until its context ends. A reply that comes after the deadline leaves a pull task without a push task, or a push task that nothing ever removes (`RecvNewPullTask` gives it no expiry).

## 4. Bounds, and why they are enough

* **Slices.** Five units in slices of two: two full slices and a short one, so that "late slice of the wrong length at the end" and "late slice of the right length in the middle" both happen.
  Units of the source are pairwise different, so that no misplaced unit goes unnoticed; `Hole` (0) is what a sparse file reads as.
* **Retries.** `slices_late` uses the code's `ErrNum = 5`; `slices_edited` two, enough for a request, its retry and one refusal, because edits, faults and expiry multiply the states.
* **Runs of the worker** (`MaxStarts`). Three in `slices_late`: a first run, a crash or stop, and another one; two in the others. A transfer needs at most one run per interruption, and what an interruption leaves
  behind is a record, a temporary file and stray requests, all of which two runs exercise.
* **Edits.** One content shorter than the source, one longer, one empty.
* **Handlers and workers.** Two of each: all the hazards of the control are between two goroutines. Three starts allow a first worker, a second beside it, and a restart.
  Symmetry (`Goroutines`) is used only in runs that check no liveness.
* **Lists.** Three goroutines, so that a save can miss two others and be missed by a third; two keys, one for the operation and one to be harmed; two contents, so that an old record differs from a new one; four operations or crashes.
* **Handshake.** Two requests, since the field and the counters are shared pairwise, and each chooses its way, so that push meets push, pull meets pull, and both meet on the answering side; one crash of either node, which may fall into the save of a counter; nodes that panic on an early request may do so any number of times. With three requests the first fourteen million states were searched without an error.
* **ChanDynamic.** Two that `Get`, one that calls `Add`, five elements in channels of two: three channels, one dropped while another is filled.
* The queues of `SliceTransfer` have no bound of their own: the retries bound them (`AnswersOwed`, proved as `OwedIsBounded`).

`CHECK_DEADLOCK FALSE` appears in every configuration but `ChanDynamic_queue.cfg` because the system may really stop: a deleted or complete task does nothing more, a handler can wait for ever, and the bounds on operations run out.

## 5. Fairness

* `SliceTransfer!FairSpec` asks for weak fairness of `Work`, the steps of the worker's goroutine. The Go runtime schedules it, and
  no step waits without limit: `Send` sets a deadline of five seconds, so that `Timeout` is always possible while an answer is awaited. Nothing is asked of the
  pusher, the user or the network.
* `PullTaskControl!FairSpec` asks for weak fairness of each handler and of each worker, apart: each is a goroutine. The priority of a waiting
  stop over the next round is no fairness assumption; it is how `select` with a `default` works, and it is the guard of `Round`.
* `Handshake!FairSpec` asks for weak fairness of each goroutine (`Asker`, `Answerer`, and `Count` for the one inside `newTaskID`) and of `Start`. A crash ends goroutines instead; `Timeout` is always possible, since `Send` sets a deadline. Nothing is asked of the arrival or the order of messages.
* `ChanDynamic!FairSpec` asks for weak fairness of each goroutine, and of its caller: `Get` is called again, and a context ends some day (without that the forgotten `Get` sleeps for ever). Strong fairness says that a context does not always end before `Get` has looked and tried, and that the `select`, which chooses at random, takes an element in the end.

## 6. What is proved

For every value of the constants that the modules' assumptions allow (`ConstantsOK`: a positive slice length, a nonempty source, any retries, any edits;
`ControlConstants`: any finite sets of handlers and workers; `ListConstants`: any goroutines, keys and contents; `MaxCrashesAssumption` and `NoneAssumption`: any requests, any number of crashes;
`ChanAssumption`: any callers of `Get`, finitely many of `Add`, any positive capacity):

* The five theorems `TypeCorrect`, and `IdTypeCorrect`: the type invariants. In `SliceTransferProofs` the lemmas on `Slice`, `WriteAt`, `Truncate` and `Answer` say what these helpers
  return, and are reused.
* `OneDelivery`: `Spec => []DeliveredOnce`. The property is not inductive: a second delivery would need a slice after the first. The strengthening is
  `LinkInv` (a connection that is down carries nothing) and `RetireInv` (a worker about to rename, and every state after a delivery, has no push task behind it and
  no slice left unread); `CreatePullTask` after a crash therefore finds a pusher that refuses. The proof needs nothing of the source's content, so that edits, expiry and a temporary file that fails to open, to be written or to be renamed are covered.
* `OwedIsBounded`: `Spec => []AnswersOwed`, under the same conditions. It is inductive with `LinkInv`: an answer is taken from the queue by the round that waits for it, so that the round in which
  the queue does not get shorter is the one that ended in a timeout or a broken connection, which `errnum` counts and no good round forgives.
* `SliceCopyProofs`, for a source that nobody edits and writes that do not fail: `ResumeIsSafe`, `DeliveryHoldsSource`, `RetiredLate`, `CompleteWasDelivered`, `RecordMovesOn` and
  `ExactCopy`, which with `RoundsPay` and the refinement, below, are the properties of the run `slices_late` apart from `WorkerStops`. None is inductive. They follow from `BaseInv` (what was proved before) with `CopyInv`, whose
  core is `QueueInv`: every request and every reply on the connection is for the current offset or for the one a slice before it, and the older come first. That is why a reply taken for the wrong request does no harm below the
  offset: if it is the older one, its next start *is* the current offset, and what it writes there lies above it. `OffsetInv` relates the offset to the record's, `AnswerInv` says that a slice in flight is one of the source, `FileInv`
  what the disk holds, `AskedInv` that nothing beyond the record was ever asked for, hence that the push task cannot be retired early. `ExactCopy` adds `TurnInv`: while no deadline has passed there is at most one request or reply under way.
  TLC checked these invariants before they were proved. That less than a slice lies behind the source is `FileInv`'s bound on lengths: `Truncate` sets the size, and a slice is written at an offset below it.
* `EveryRoundPays`: `Spec => RoundsPay`, from the same invariants. The measure is lexicographic: retries used (up), offset (up), requests and slices under way for another offset (down), steps left in the round (down). The case that matters is
  a stale slice, one for the offset a slice before: `OffsetInv` and `QueueInv` say that it sets the offset to what it is, and that its leaving the queue counts (`SlicePays`, with `TailCount` and `AppendCount` on
  how a queue's stale entries change). `ServeWaits` and `OthersWait` are the steps of the pusher, the network, the user. Since the retries, the offset and, by `OwedIsBounded`, the stale answers are bounded, the measure
  cannot fall for ever: together with the fairness of `Work` this is `WorkerStops`.
* `RecordFollowsTask`: `Spec => []AtRestAgree`. Inductive together with the type invariant once `Settled` is seen as "nobody is between a change and its save".
* `OneWorkerAtATime` and `StoppedTaskIsQuiet`, from `ControlInv`: before the task's creation nobody is inside an operation on it (`CreatedInv`), and, while operations do not overlap, at most one handler is inside,
  at most one worker is active, and an active worker or a handler about to make one excludes the other and goes with the status running (`BusyInv`). `RestartAlone` is the case of a crash.
* `HarmIsLimited` and `MapAndListAgree`: `Spec => []OnlyOverlapHarms`, `Spec => []MapFollowsList`. The strengthening `ListInv` says that only the holder of the lock is between `Delete` and `Put` (`LockInv`), that a copy is right in whatever it has not missed and
  was not harmed (`CopyInv`), that a lookup stores only what it found (`FoundInv`), that `TaskMap` follows `truth` (`MemInv`), and that each list sees only its own operations (`OfferInv`). `CopyInv` is the heart: a reader sees a whole list, because the lock keeps it out while somebody saves or,
  without a lock, because everything then counts as missed.
* `DownloadIsResumableCopy`: for a source nobody edits, `Spec => IsResumableCopy`. The step lemma uses `OffsetInv` (the record moves by a whole slice), `RetireInv` (a file is placed once) and `CopyInv` (what is placed holds the source); `PointInv`, that a task off the list has resume point 0, is added.
* `IdsNeverGivenTwice` and `IdsGrow`, from `IdInv`: as long as a counter has no flaw, at most one caller is inside (`Alone`) and memory, database and the ids given stand in the order its place demands (`Level`); as long as nobody came before `Load`, who is inside works below a counter larger than all that was returned before it came (`Ahead`), counting what an earlier life returned as long as the counter has no flaw. After a flaw the claim starts anew with each life.
* `CountersOfHandshake`: every step of `Handshake` is a step of `TaskIds` or leaves the counters alone, so that the two theorems above hold there (`IdsStayDistinct`).
* `OnlyTheRightFile`, from `HInv`: a counter that repeats nothing has given each id to one request (`Apart`), a request has taken the ids its two goroutines' places say (`Ordered`), and both ids in every task and record were taken by a request for that file (`Sources`). One counter that repeats nothing is then enough.
* `SuccessIsPaired`, from `HInv` and `Halves`, which says where the two records of a request stand that worked on its own task.
* `QueueLosesNothing`: `Spec => []NothingLost`, for any capacity and any history of growth, drops and ended contexts. The strengthening `ChanInv` adds `BoundInv` (an index is never ahead of what was added, so that the indices stay in range, whatever overlaps)
  and `QueueInv`: as long as calls of a kind do not overlap, the channel a `Get` looked up *is* still the oldest and the one an `Add` looked up still the newest when they come to use it without the lock, and a channel about to be dropped is empty and not the newest.
  Stated by `Segment`, element by element, the property needs no concatenation over the channels and hence no induction.

Only model-checked: `WorkerStops`, `WaitingIsTaken`, `AskEnds` and `EverythingReceived`, which are liveness under fairness and beyond the prover. With edits and failing writes, `TypeOK`, `DeliveredOnce` and `AnswersOwed` are all that is
proved, and all that is claimed but `WorkerStops`: the content is then not the code's to keep.

## 7. Not modelled

* **BackoffTimer**, `SaveFile` and `FilePathSplit` (`pkg/utils`): nothing calls them but a test, so that there is no caller whose interleavings or crashes could be modelled.
* **The bytes of a package** (`sendPackage`, `recvPackage`): a package arrives whole or the connection is lost; `"torn"` in `SliceTransfer` is what an interrupted read leaves.
* **The contents of the white list and the sharing directories**: the lists are in `RecordList`, their verdict is a choice in `Handshake`. A change of the lists does not end a transfer that was permitted; the code does not look again.
* **What several tasks do to each other**: `SliceTransfer` and `PullTaskControl` have one task; tasks share only the lists (`RecordList`) and `Exec`, whose capacity of 20 only delays a handler while `begin` is busy starting goroutines.
* **HTTP parsing and replies, transfer speed**: input, output and display. **Logging, configuration**: no state the program depends on. Hashing and byte order are taken as exact.

Left of the plan: a `RecordStore` in which each operation on a list is atomic, implemented by `RecordList` while operations do not overlap (`OnlyOverlapHarms` states the difference as an invariant).
