--------------------------- MODULE SliceTransfer ---------------------------
(***************************************************************************)
(* The download of one file by one pull task: the worker goroutine         *)
(* PullTask.Task with its slice loop fileSlicePull on the pulling node,    *)
(* the handler FileSlicePush on the pushing node, and the TCP connection   *)
(* between them, on which ConnTcp.Send writes a request and takes the next *)
(* reply, whichever request that reply answers.                            *)
(*                                                                         *)
(* A file is a sequence of units; Lenth units travel in a full slice.  The *)
(* content CreatePushTask measured and hashed is Source0, so FileInfo.Size *)
(* is Len(Source0) and "the hash matches" is "equals Source0".             *)
(***************************************************************************)
EXTENDS Integers, Sequences, FiniteSets

CONSTANTS
  Lenth,        \* units in a full slice
  ErrNum,       \* retries one run of the worker is granted
  Units,        \* what one unit of a file can hold
  Source0,      \* the source file when its push task was created
  Edits,        \* contents the owner may give the source file afterwards
  Hole,         \* a unit of a file that was never written
  PushExpires,  \* TRUE iff the push task has an expiry (it was pushed, not asked for)
  WriteFaults,  \* TRUE iff the temporary file may fail to open, write or be renamed
  MaxStarts     \* bound on the runs of the worker

Size == Len(Source0)

\* CreatePushTask refuses a file with no content.
ASSUME ConstantsOK ==
  /\ Lenth \in Nat \ {0}
  /\ ErrNum \in Nat
  /\ Hole \in Units
  /\ Source0 \in Seq(Units) /\ Source0 # << >>
  /\ Edits \subseteq Seq(Units)
  /\ PushExpires \in BOOLEAN /\ WriteFaults \in BOOLEAN
  /\ MaxStarts \in Nat

VARIABLES
  worker,     \* where the task's goroutine stands ("none": there is none)
  status,     \* PullTask.Status in memory ("none": the task is forgotten)
  idx,        \* PullTask.FileInfo.Index in memory
  errnum,     \* errors this run of the worker has met
  db,         \* the task's record in the local database
  tmp,        \* the temporary file (NoFile: there is none)
  delivered,  \* the files renamed into place for this task, in order
  outcome,    \* history: how the record left the database
  link,       \* the worker's connection ("torn": its next read starts inside a reply)
  req,        \* requested offsets the pusher has not read yet, oldest first
  rep,        \* replies the worker has not read yet, oldest first
  stray,      \* offsets left unread on connections already closed
  push,       \* the push task's record exists and has not expired
  src,        \* the source file now
  starts,     \* runs of the worker so far (bounds the model)
  late        \* history: an answer has missed its deadline

taskVars == <<worker, status, idx, errnum>>
diskVars == <<db, tmp, delivered, outcome>>
linkVars == <<link, req, rep, stray>>
pushVars == <<push, src>>
history == <<starts, late>>
vars == <<taskVars, diskVars, linkVars, pushVars, history>>

NoFile == << >>

Pending == "pendingConfirmation"
Running == "running"
Stopped == "stop"

Record(s, i, f) == [status |-> s, index |-> i, fault |-> f]

\* What the replies say: a slice and where the next one starts, or an error.
Refusal == [ok |-> FALSE, from |-> 0, next |-> 0, size |-> 0, data |-> << >>]

Replies == [ok : BOOLEAN, from : Nat, next : Nat, size : Nat, data : Seq(Units)]

(***************************************************************************)
(* Files                                                                   *)
(***************************************************************************)
Lesser(a, b) == IF a <= b THEN a ELSE b
Greater(a, b) == IF a <= b THEN b ELSE a

\* Units from+1 .. next of f.
Slice(f, from, next) == [k \in 1..(next - from) |-> f[from + k]]

\* f after data was written at offset at, which may lengthen f.
WriteAt(f, at, data) ==
  [k \in 1..Greater(Len(f), at + Len(data)) |->
     IF k > at /\ k <= at + Len(data) THEN data[k - at]
     ELSE IF k <= Len(f) THEN f[k] ELSE Hole]

\* Mutant: opening the file empties it (O_TRUNC).
Truncate_empties(f) == [k \in 1..Size |-> Hole]

\* f cut or filled up to the size the task expects.
Truncate(f) == [k \in 1..Size |-> IF k <= Len(f) THEN f[k] ELSE Hole]

(***************************************************************************)
(* FileSlicePush: the pusher's answer to a request for offset o.           *)
(***************************************************************************)
\* Mutant: the reply names the offset it was asked for.
NextStart_asked(o) == Lesser(o, Len(src))

NextStart(o) == Lesser(o + Lenth, Len(src))

\* checkPushTask refuses when the record is gone or expired; ReadAt fails
\* at or past the end of the file.
Answer(o) ==
  IF push /\ o < Len(src)
  THEN [ok |-> TRUE, from |-> o, next |-> NextStart(o), size |-> Len(src),
        data |-> Slice(src, o, NextStart(o))]
  ELSE Refusal

\* The slice of answer r ends the file, for the pusher.
IsLast(r) == r.ok /\ r.next >= r.size

\* Mutant: the push task is retired by any slice.
RetireAfter_any(r) == push' = (push /\ ~r.ok)

\* Mutant: the push task is never retired.
RetireAfter_never(r) == UNCHANGED push

\* pushTaskRecordDel once the last slice is read.
RetireAfter(r) == push' = (push /\ ~IsLast(r))

(***************************************************************************)
(* Init and the pusher's side                                              *)
(***************************************************************************)
Init ==
  /\ worker = "none" /\ status = Pending /\ idx = 0 /\ errnum = 0
  /\ db = Record(Pending, 0, FALSE)
  /\ tmp = NoFile /\ delivered = << >> /\ outcome = "open"
  /\ link = "down" /\ req = << >> /\ rep = << >> /\ stray = {}
  /\ push = TRUE /\ src = Source0
  /\ starts = 0 /\ late = FALSE

\* handFunc serves one request of the connection and replies on it.
Serve ==
  /\ req # << >>
  /\ req' = Tail(req)
  /\ rep' = Append(rep, Answer(Head(req)))
  /\ RetireAfter(Answer(Head(req)))
  /\ UNCHANGED <<taskVars, diskVars, link, stray, src, history>>

\* The goroutine of a closed connection still serves what it had received.
ServeStray ==
  /\ \E o \in stray : stray' = stray \ {o} /\ RetireAfter(Answer(o))
  /\ UNCHANGED <<taskVars, diskVars, link, req, rep, src, history>>

\* ExpirationTime passes.
Expire ==
  /\ PushExpires /\ push
  /\ push' = FALSE
  /\ UNCHANGED <<taskVars, diskVars, linkVars, src, history>>

\* The owner of the source file rewrites it.
EditSource ==
  /\ src' \in Edits \ {src}
  /\ UNCHANGED <<taskVars, diskVars, linkVars, push, history>>

(***************************************************************************)
(* The connection                                                          *)
(***************************************************************************)
\* Close loses the replies and leaves the requests to the pusher.
CloseLink ==
  /\ link' = "down" /\ req' = << >> /\ rep' = << >>
  /\ stray' = stray \cup {req[i] : i \in 1..Len(req)}

\* The network, or a crash of the pusher, resets the connection.
Break ==
  /\ link # "down"
  /\ CloseLink
  /\ UNCHANGED <<taskVars, diskVars, pushVars, history>>

(***************************************************************************)
(* CreatePullTask, and the three ways to reach it                          *)
(***************************************************************************)
\* Mutant: the task steps back one slice before it goes on.
CreatePullTask_back(i) ==
  /\ status' = Running /\ idx' = i - Lenth
  /\ db' = Record(Running, idx', FALSE)
  /\ tmp' = Truncate(tmp)
  /\ worker' = "queued"

\* Mutant: the task starts over.
CreatePullTask_anew(i) ==
  /\ status' = Running /\ idx' = 0
  /\ db' = Record(Running, 0, FALSE)
  /\ tmp' = Truncate(tmp)
  /\ worker' = "queued"

\* CreatePullTask with status running and offset i: save the record, size
\* the temporary file, queue the task on Exec.
CreatePullTask(i) ==
  /\ status' = Running /\ idx' = i
  /\ db' = Record(Running, i, FALSE)
  /\ tmp' = Truncate(tmp)
  /\ worker' = "queued"

\* PullTaskStart of a task that is not running (the first one is also the
\* automatic start of a pushed task).
PullTaskStart ==
  /\ worker = "none" /\ status \in {Pending, Stopped}
  /\ starts < MaxStarts /\ starts' = starts + 1
  /\ CreatePullTask(idx)
  /\ UNCHANGED <<errnum, delivered, outcome, linkVars, pushVars, late>>

\* The puller crashes and restarts: Load revives what the database holds.
Restart ==
  /\ db.status # "none"
  /\ starts < MaxStarts /\ starts' = starts + 1
  /\ IF db.status = Running
     THEN CreatePullTask(db.index)
     ELSE /\ worker' = "none" /\ status' = db.status /\ idx' = db.index
          /\ UNCHANGED <<db, tmp>>
  /\ errnum' = 0
  /\ CloseLink
  /\ UNCHANGED <<delivered, outcome, pushVars, late>>

\* PullTaskDel of a task that is not running: pullTaskDel in the handler.
PullTaskDel ==
  /\ worker = "none" /\ status \in {Pending, Stopped}
  /\ db' = Record("none", 0, FALSE) /\ status' = "none"
  /\ tmp' = NoFile /\ outcome' = "deleted"
  /\ UNCHANGED <<worker, idx, errnum, delivered, linkVars, pushVars, history>>

(***************************************************************************)
(* The worker: PullTask.Task                                               *)
(***************************************************************************)
\* begin takes the task from Exec and Task dials the pusher; when that fails
\* the goroutine returns and leaves the status as it is.
Dial ==
  /\ worker = "queued"
  /\ \/ worker' = "loop" /\ link' = "up" /\ errnum' = 0
     \/ worker' = "none" /\ UNCHANGED <<link, errnum>>
  /\ UNCHANGED <<status, idx, diskVars, req, rep, stray, pushVars, history>>

\* The select takes a stop: PullTaskStop was waiting on exit.
TakeExit ==
  /\ worker = "loop"
  /\ worker' = "none" /\ status' = Stopped
  /\ db' = Record(Stopped, idx, FALSE)
  /\ CloseLink
  /\ UNCHANGED <<idx, errnum, tmp, delivered, outcome, pushVars, history>>

\* The select takes a delete: PullTaskDel was waiting on clear.
TakeClear ==
  /\ worker = "loop"
  /\ worker' = "none" /\ status' = "none"
  /\ db' = Record("none", 0, FALSE) /\ tmp' = NoFile /\ outcome' = "deleted"
  /\ CloseLink
  /\ UNCHANGED <<idx, errnum, delivered, pushVars, history>>

\* The task leaves the list as complete: pullTaskRecordDel.
RecordDel ==
  /\ worker' = "none" /\ status' = "none"
  /\ db' = Record("none", 0, FALSE) /\ outcome' = "complete"
  /\ CloseLink
  /\ UNCHANGED <<idx, errnum, tmp, delivered, pushVars, history>>

\* fileSlicePull finds nothing left to ask for.
AlreadyDone ==
  /\ worker = "loop" /\ idx >= Size
  /\ RecordDel

\* fileSlicePull sends its request.
Ask ==
  /\ worker = "loop" /\ idx < Size /\ link # "down"
  /\ req' = Append(req, idx) /\ worker' = "wait"
  /\ UNCHANGED <<status, idx, errnum, diskVars, link, rep, stray, pushVars, history>>

\* An error of fileSlicePull: the next round of the loop retries on the same
\* connection, here left as <<l, q>>, ...
Retry(l, q) ==
  /\ errnum < ErrNum
  /\ worker' = "loop" /\ link' = l /\ rep' = q
  /\ UNCHANGED <<status, req, stray, db>>

\* ... until the retries are used up and the task stops with its Fault.
GiveUp ==
  /\ errnum >= ErrNum
  /\ worker' = "none" /\ status' = Stopped
  /\ db' = Record(Stopped, idx, TRUE)
  /\ CloseLink

\* Mutant: errnum lives in the loop's body.
CountError_never == errnum' = 0

CountError == errnum' = errnum + 1

Fail(l, q) ==
  /\ CountError
  /\ Retry(l, q) \/ GiveUp
  /\ UNCHANGED <<idx, tmp, delivered, outcome, pushVars, starts>>

\* Send on, or waiting for the answer from, a connection that is down.
LinkError ==
  /\ worker \in {"loop", "wait"} /\ link = "down"
  /\ worker = "loop" => idx < Size
  /\ Fail(link, rep)
  /\ UNCHANGED late

\* The deadline passes. If it passes in the middle of an answer, what is
\* read next no longer starts at a header.
Timeout ==
  /\ worker = "wait" /\ link # "down"
  /\ \/ Fail(link, rep)
     \/ link = "up" /\ rep # << >> /\ Fail("torn", Tail(rep))
  /\ late' = TRUE

\* On a torn connection recvPackage takes what it finds for a header and
\* swallows any number of replies, whole or in part, before it fails; by
\* chance it ends where a reply begins.
Garbled ==
  /\ worker = "wait" /\ link = "torn"
  /\ \E n \in 0..Len(rep), l \in {"up", "torn"} : Fail(l, Slice(rep, n, Len(rep)))
  /\ UNCHANGED late

\* The oldest reply is an error note, or it cannot be used because the
\* temporary file does not open.
RecvRefusal ==
  /\ worker = "wait" /\ link = "up" /\ rep # << >>
  /\ WriteFaults \/ ~Head(rep).ok
  /\ Fail(link, Tail(rep))
  /\ UNCHANGED late

\* Mutant: the percentage is rounded up.
Complete_roundedUp(r) == r.next + 1 >= r.size

\* Mutant: the percentage must exceed 100.
Complete_strictly(r) == r.next > r.size

\* The slice of answer r ends the file, for the puller: Rate >= 100.
Complete(r) == r.next >= r.size

\* The oldest reply is a slice: it is written at the task's own offset and
\* the reply's next start becomes that offset. A failed Write goes unseen.
RecvSlice ==
  /\ worker = "wait" /\ link = "up" /\ rep # << >> /\ Head(rep).ok
  /\ \/ tmp' = WriteAt(tmp, idx, Head(rep).data)
     \/ WriteFaults /\ UNCHANGED tmp
  /\ idx' = Head(rep).next
  /\ rep' = Tail(rep)
  /\ worker' = IF Complete(Head(rep)) THEN "rename" ELSE "save"
  /\ UNCHANGED <<status, errnum, db, delivered, outcome, link, req, stray,
                 pushVars, history>>

\* pullTaskRecordSave after a slice that is not the last.
Save ==
  /\ worker = "save"
  /\ db' = Record(status, idx, FALSE)
  /\ worker' = "loop"
  /\ UNCHANGED <<status, idx, errnum, tmp, delivered, outcome, linkVars,
                 pushVars, history>>

\* The temporary file takes a free name at the destination; that os.Rename
\* failed goes unseen. The verdict of CheckFileHash, which follows, is left
\* in a variable that fileSlicePull does not return.
Rename ==
  /\ worker = "rename"
  /\ \/ delivered' = Append(delivered, tmp) /\ tmp' = NoFile
     \/ WriteFaults /\ UNCHANGED <<delivered, tmp>>
  /\ worker' = "delete"
  /\ UNCHANGED <<status, idx, errnum, db, outcome, linkVars, pushVars, history>>

Finish ==
  /\ worker = "delete"
  /\ RecordDel

-----------------------------------------------------------------------------
\* The steps of the goroutine that need nobody else.
Work == \/ Dial \/ AlreadyDone \/ Ask \/ LinkError \/ Timeout \/ Garbled
        \/ RecvRefusal \/ RecvSlice \/ Save \/ Rename \/ Finish

User == PullTaskStart \/ PullTaskDel \/ TakeExit \/ TakeClear

Pusher == Serve \/ ServeStray \/ Expire \/ EditSource

Next == Work \/ User \/ Pusher \/ Break \/ Restart

Spec == Init /\ [][Next]_vars

\* The goroutine is scheduled, and the deadline bounds every wait.
FairSpec == Spec /\ WF_vars(Work)
-----------------------------------------------------------------------------
\* Every variable has its type (the shapes the Go structs and queues give).
TypeOK ==
  /\ worker \in {"none", "queued", "loop", "wait", "save", "rename", "delete"}
  /\ status \in {"none", Pending, Running, Stopped}
  /\ idx \in Nat /\ errnum \in Nat
  /\ db \in [status : {"none", Pending, Running, Stopped}, index : Nat, fault : BOOLEAN]
  /\ tmp \in Seq(Units) /\ delivered \in Seq(Seq(Units))
  /\ outcome \in {"open", "complete", "deleted"}
  /\ link \in {"up", "torn", "down"}
  /\ req \in Seq(Nat) /\ rep \in Seq(Replies) /\ stray \in SUBSET Nat
  /\ push \in BOOLEAN /\ src \in Seq(Units)
  /\ starts \in Nat /\ late \in BOOLEAN

\* Nothing but the network misbehaves.
Undisturbed == Edits = {} /\ ~WriteFaults

\* The first n units of f are those of the source.
SourceUpTo(f, n) == \A k \in 1..n : k <= Len(f) /\ f[k] = Source0[k]

(* While the file is not delivered, everything below the offset the task   *)
(* works from, in memory and in the database, has the source's content,    *)
(* whatever timeouts, late replies, retries, stops and crashes came before *)
(* (fileSlicePull writes any reply at FileInfo.Index, so a late answer does *)
(* put wrong data into the file - above that offset only).                 *)
ResumePointSafe ==
  Undisturbed /\ delivered = << >> /\ tmp # NoFile =>
    /\ SourceUpTo(tmp, idx)
    /\ SourceUpTo(tmp, db.index)

(* A delivered file starts with the whole source (handers.go:315-319), and  *)
(* what late answers left behind it is less than a slice: the file may be   *)
(* damaged, but no unit of it is lost.                                      *)
DeliveredHoldsSource ==
  Undisturbed =>
    \A n \in 1..Len(delivered) :
      SourceUpTo(delivered[n], Size) /\ Len(delivered[n]) < Size + Lenth

(* At most one file is renamed into place for a task, although a crash      *)
(* between os.Rename and pullTaskRecordDel leaves a record that Load runs   *)
(* again: by then FileSlicePush has retired the push task.                  *)
DeliveredOnce == Len(delivered) <= 1

(* While no answer has missed its deadline the delivered file is the source *)
(* and nothing more, whatever resets, stops and crashes came before.        *)
ExactWhenNeverLate ==
  Undisturbed /\ ~late => \A n \in 1..Len(delivered) : delivered[n] = Source0

(* FileSlicePush retires the push task only when all but the last slice is  *)
(* in the puller's record: what a restart still has to ask for is at most   *)
(* the slice that was being answered.                                      *)
RetiredAtTheEnd ==
  Undisturbed /\ ~PushExpires /\ ~push /\ db.status # "none"
    => db.index + Lenth >= Size

(* A task that leaves the list as complete has delivered its file, also     *)
(* when it was complete before a crash or a stop: fileSlicePull says so     *)
(* without a look at the disk when Index is at the end (handers.go:284).    *)
CompleteHasFile ==
  Undisturbed /\ outcome = "complete" => delivered # << >>

(* The offset a restart resumes from never moves back while the record     *)
(* lives, although replies reach the task late and out of step.            *)
ResumeNeverRegresses ==
  [][Undisturbed /\ db'.status # "none" => db'.index >= db.index]_vars

\* The goroutine is in its loop, or on its way out with the file.
Looping == worker \notin {"none", "queued"}

(* However often the worker retries, and whatever becomes of the source and  *)
(* of the pusher, no more requests are unanswered than it has met errors,   *)
(* and the one it waits for: a slice that goes through, late or not, adds   *)
(* none to the queue, and a run that used up its ErrNum retries is over.    *)
AnswersOwed ==
  Looping =>
    /\ errnum <= ErrNum
    /\ Len(req) + Len(rep) <= errnum + (IF worker = "wait" THEN 1 ELSE 0)

\* Requests and slices under way for another offset than the task's.
Stale ==
  Cardinality({i \in 1..Len(req) : req[i] # idx})
    + Cardinality({i \in 1..Len(rep) : rep[i].ok /\ rep[i].from # idx})

\* Steps of the worker before the next that costs it something.
StepsLeft == CASE worker = "save" -> 2
               [] worker \in {"loop", "rename"} -> 1
               [] OTHER -> 0

\* A retry is used up, or the task is further, or a stale answer is gone, or
\* the round is.
Pays ==
  \/ errnum' > errnum
  \/ errnum' = errnum /\ idx' > idx
  \/ UNCHANGED <<errnum, idx>> /\ Stale' < Stale
  \/ UNCHANGED <<errnum, idx>> /\ Stale' = Stale /\ StepsLeft' < StepsLeft

\* Nobody else takes anything of that back.
Waits == UNCHANGED <<worker, errnum, idx>> /\ Stale' <= Stale

(* No round of the loop is in vain: every step of the worker uses up a retry, *)
(* moves the offset on, takes away a stale answer or ends the round, in     *)
(* this order of weight, and no step of the pusher or of the network undoes *)
(* it. This is why the worker stops (the retries, the offset and, by        *)
(* AnswersOwed, the stale answers are bounded) although late answers put    *)
(* its requests and the replies out of step.                                *)
RoundsPay ==
  [][Undisturbed /\ Looping /\ Looping' => IF Work THEN Pays ELSE Waits]_vars

(* The worker never loops for ever: a round that brings the task no further *)
(* costs one of its ErrNum retries or one of the replies still queued.     *)
WorkerStops == (worker # "none") ~> (worker = "none")
-----------------------------------------------------------------------------
Copy == INSTANCE ResumableCopy WITH
          Source <- Source0, Contents <- Seq(Units),
          state <- outcome, point <- db.index, placed <- delivered

(* The download, with its timeouts, late answers, stops and crashes, is a   *)
(* resumable copy for whoever sees only the record and the delivered files *)
(* (runs and theorems that speak of it are Undisturbed).                   *)
IsResumableCopy == Copy!Spec
-----------------------------------------------------------------------------
(* What comments of the code promise and the code does not keep.           *)

(* handers.go:349, "check the integrity of the file": a task that is over   *)
(* as complete has delivered a file with the source's hash. The verdict of  *)
(* CheckFileHash goes to a variable of an inner block of fileSlicePull      *)
(* (handers.go:350), which returns true and no error all the same.         *)
CompleteIsIntact ==
  Undisturbed /\ outcome = "complete" => delivered = <<Source0>>

(* handers.go:278, "transfer in slices, resume": a task whose file is not    *)
(* delivered is not turned away when it goes on, unless its last slice is  *)
(* on its way already. FileSlicePush deletes the push task with the first  *)
(* reply that holds the last slice, before that reply is sent             *)
(* (handers.go:421), so that a puller that loses the reply is refused.     *)
Resumable ==
  Undisturbed /\ ~PushExpires /\ delivered = << >>
    /\ worker = "wait" /\ link = "up" /\ (\E i \in 1..Len(rep) : ~rep[i].ok)
  => \E i \in 1..Len(rep) : IsLast(rep[i])
=============================================================================
