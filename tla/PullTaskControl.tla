-------------------------- MODULE PullTaskControl --------------------------
(***************************************************************************)
(* The control of one pull task on the pulling node: PullTaskStart,        *)
(* PullTaskStop, PullTaskDel and the creation of the task, each run by a   *)
(* goroutine of its own (an HTTP or TCP handler), against the worker       *)
(* goroutines (PullTask.Task) that CreatePullTask hands to begin.  All of  *)
(* them share the PullTask in TaskMap without a lock; a stop and a delete  *)
(* reach the worker as a rendezvous on the task's unbuffered channels exit *)
(* and clear, which every CreatePullTask replaces.                         *)
(*                                                                         *)
(* An action touches the shared task, or its record, once.  TaskMap and    *)
(* the record change together under lockPullTaskList, so "in TaskMap" and  *)
(* "in the database" are one: the record's status is not "none".           *)
(***************************************************************************)
EXTENDS Integers, FiniteSets

CONSTANTS
  Handlers,   \* goroutines that can be inside an operation at the same time
  Workers,    \* worker goroutines that can be alive at the same time
  DialFails,  \* TRUE iff the worker may fail to reach the pusher
  OpenFails,  \* TRUE iff the temporary file may fail to be made
  MaxStarts   \* bound on the operations that create a worker

ASSUME ControlConstants ==
  /\ DialFails \in BOOLEAN /\ OpenFails \in BOOLEAN /\ MaxStarts \in Nat
  /\ IsFiniteSet(Handlers) /\ IsFiniteSet(Workers)

VARIABLES
  pc,      \* where each handler stands
  ch,      \* the channels a handler sends on
  wk,      \* where each worker stands ("none": it does not exist)
  status,  \* PullTask.Status
  fault,   \* PullTask.Fault # ""
  gen,     \* which exit and clear the task holds now (0: nil)
  db,      \* the task's record
  created, \* the task was created
  starts,  \* operations that may have created a worker (bounds the model)
  overlap  \* history: since the last restart an operation began during another

task == <<status, fault, gen>>
history == <<created, starts, overlap>>
vars == <<pc, ch, wk, task, db, history>>

Pending == "pendingConfirmation"
Running == "running"
Stopped == "stop"
Statuses == {Pending, Running, Stopped}

NoRecord == [status |-> "none", fault |-> FALSE]
Listed == db.status # "none"

Go(h, at) == pc' = [pc EXCEPT ![h] = at]
Turn(w, at) == wk' = [wk EXCEPT ![w] = at]

\* Handler h begins an operation.
Enter(h, at) ==
  /\ pc[h] = "idle" /\ Go(h, at)
  /\ overlap' = (overlap \/ \E g \in Handlers : pc[g] # "idle")

\* Mutant: Fault is not marshalled.
RecordSave_unfaulted == db' = [status |-> status]

\* pullTaskRecordSave: the record becomes what the task holds now.
RecordSave == db' = [status |-> status, fault |-> fault]

\* pullTaskRecordDel
RecordDel == db' = NoRecord

\* A handler waits to send on the exit (or clear) the task holds now.
Waiting(at) == {h \in Handlers : pc[h] = at /\ ch[h] = gen /\ gen # 0}

Init ==
  /\ pc = [h \in Handlers |-> "idle"] /\ ch = [h \in Handlers |-> 0]
  /\ wk = [w \in Workers |-> "none"]
  /\ status = Pending /\ fault = FALSE /\ gen = 0
  /\ db = NoRecord /\ created = FALSE /\ starts = 0 /\ overlap = FALSE

(***************************************************************************)
(* The creation of the task: RecvNewPushTask or NewPullTask                *)
(***************************************************************************)
NewTask(h) ==
  /\ ~created
  /\ starts < MaxStarts /\ starts' = starts + 1
  /\ created' = TRUE /\ status' \in {Pending, Running}
  /\ Enter(h, "make")
  /\ UNCHANGED <<ch, wk, fault, gen, db>>

(***************************************************************************)
(* PullTaskStart: a running task is refused; otherwise it is marked and    *)
(* created anew.                                                           *)
(***************************************************************************)
\* Mutant: the status is not looked at.
StartCheck_any(h) ==
  /\ Listed
  /\ starts < MaxStarts /\ starts' = starts + 1
  /\ Enter(h, "mark")
  /\ UNCHANGED <<ch, wk, task, db, created>>

StartCheck(h) ==
  /\ Listed /\ status # Running
  /\ starts < MaxStarts /\ starts' = starts + 1
  /\ Enter(h, "mark")
  /\ UNCHANGED <<ch, wk, task, db, created>>

StartMark(h) ==
  /\ pc[h] = "mark"
  /\ status' = Running
  /\ Go(h, "make")
  /\ UNCHANGED <<ch, wk, fault, gen, db, history>>

(***************************************************************************)
(* CreatePullTask: fresh channels, save, and, if the status is running by  *)
(* then, the temporary file and the worker.                                *)
(***************************************************************************)
CreateMake(h) ==
  /\ pc[h] = "make"
  /\ gen' = gen + 1 /\ fault' = FALSE
  /\ Go(h, "save")
  /\ UNCHANGED <<ch, wk, status, db, history>>

CreateSave(h) ==
  /\ pc[h] = "save"
  /\ RecordSave
  /\ Go(h, "look")
  /\ UNCHANGED <<ch, wk, task, history>>

CreateLook(h) ==
  /\ pc[h] = "look"
  /\ \/ status = Running /\ Go(h, "exec")
     \/ status # Running /\ Go(h, "idle")
     \/ status = Running /\ OpenFails /\ Go(h, "idle")
  /\ UNCHANGED <<ch, wk, task, db, history>>

\* Exec <- t, and begin starts the goroutine.
CreateExec(h) ==
  /\ pc[h] = "exec"
  /\ \E w \in Workers : wk[w] = "none" /\ Turn(w, "queued")
  /\ Go(h, "idle")
  /\ UNCHANGED <<ch, task, db, history>>

(***************************************************************************)
(* PullTaskStop and PullTaskDel                                            *)
(***************************************************************************)
\* A task that is stopped, or has no channels yet, is refused.
StopCheck(h) ==
  /\ Listed /\ status # Stopped /\ gen # 0
  /\ Enter(h, "stop")
  /\ UNCHANGED <<ch, wk, task, db, created, starts>>

DelCheck(h) ==
  /\ Listed
  /\ Enter(h, IF status = Running THEN "clear" ELSE "delete")
  /\ UNCHANGED <<ch, wk, task, db, created, starts>>

\* The handler reads the channel it will send on, and waits.
Send(h) ==
  /\ \/ pc[h] = "stop" /\ Go(h, "exit<-")
     \/ pc[h] = "clear" /\ Go(h, "clear<-")
  /\ ch' = [ch EXCEPT ![h] = gen]
  /\ UNCHANGED <<wk, task, db, history>>

\* pullTaskDel of a task that was not running when it was checked.
DelRecord(h) ==
  /\ pc[h] = "delete"
  /\ RecordDel
  /\ Go(h, "idle")
  /\ UNCHANGED <<ch, wk, task, history>>

(***************************************************************************)
(* The worker                                                              *)
(***************************************************************************)
Dial(w) ==
  /\ wk[w] = "queued"
  /\ \/ Turn(w, "loop")
     \/ DialFails /\ Turn(w, "none")
  /\ UNCHANGED <<pc, ch, task, db, history>>

\* The select takes a waiting stop, or a waiting delete: both go on at once.
TakeExit(w) ==
  /\ wk[w] = "loop"
  /\ \E h \in Waiting("exit<-") : Go(h, "idle")
  /\ Turn(w, "stop")
  /\ UNCHANGED <<ch, task, db, history>>

TakeClear(w) ==
  /\ wk[w] = "loop"
  /\ \E h \in Waiting("clear<-") : Go(h, "idle")
  /\ Turn(w, "delete")
  /\ UNCHANGED <<ch, task, db, history>>

\* Mutant: the next round does not wait for the select.
Round_greedy(w) ==
  /\ wk[w] = "loop"
  /\ Turn(w, "pull")
  /\ UNCHANGED <<pc, ch, task, db, history>>

\* The default of the select runs only when nobody waits.
Round(w) ==
  /\ wk[w] = "loop"
  /\ Waiting("exit<-") = {} /\ Waiting("clear<-") = {}
  /\ Turn(w, "pull")
  /\ UNCHANGED <<pc, ch, task, db, history>>

\* fileSlicePull wrote a slice and saved the record.
RoundMore(w) ==
  /\ wk[w] = "pull"
  /\ RecordSave
  /\ Turn(w, "loop")
  /\ UNCHANGED <<pc, ch, task, history>>

\* fileSlicePull failed and errnum grants another round.
RoundRetry(w) ==
  /\ wk[w] = "pull"
  /\ Turn(w, "loop")
  /\ UNCHANGED <<pc, ch, task, db, history>>

\* Mutant: a stop that was taken does not leave the loop.
MarkStopped_loops(w) ==
  /\ \/ wk[w] = "pull" /\ Turn(w, "delete")
     \/ wk[w] = "pull" /\ Turn(w, "fault")
     \/ wk[w] = "stop" /\ Turn(w, "loop")
  /\ status' = Stopped
  /\ UNCHANGED <<pc, ch, fault, gen, db, history>>

\* The status becomes stop: the file is complete, the errors are too many,
\* or a stop was taken.
MarkStopped(w) ==
  /\ \/ wk[w] = "pull" /\ Turn(w, "delete")
     \/ wk[w] = "pull" /\ Turn(w, "fault")
     \/ wk[w] = "stop" /\ Turn(w, "save")
  /\ status' = Stopped
  /\ UNCHANGED <<pc, ch, fault, gen, db, history>>

MarkFault(w) ==
  /\ wk[w] = "fault"
  /\ fault' = TRUE
  /\ Turn(w, "save")
  /\ UNCHANGED <<pc, ch, status, gen, db, history>>

\* Mutant: the worker returns without saving.
Leave_unsaved(w) ==
  /\ \/ wk[w] = "save" /\ UNCHANGED db
     \/ wk[w] = "delete" /\ RecordDel
  /\ Turn(w, "none")
  /\ UNCHANGED <<pc, ch, task, history>>

Leave(w) ==
  /\ \/ wk[w] = "save" /\ RecordSave
     \/ wk[w] = "delete" /\ RecordDel
  /\ Turn(w, "none")
  /\ UNCHANGED <<pc, ch, task, history>>

(***************************************************************************)
(* A crash of the node and its Load, which runs before the HTTP server: a  *)
(* task recorded as running is created anew, any other has nil channels.   *)
(***************************************************************************)
Restart ==
  /\ starts < MaxStarts /\ starts' = starts + 1
  /\ pc' = [h \in Handlers |-> "idle"] /\ ch' = [h \in Handlers |-> 0]
  /\ IF db.status = Running
     THEN /\ gen' = 1 /\ status' = Running /\ fault' = FALSE
          /\ db' = [status |-> Running, fault |-> FALSE]
          /\ \/ \E w \in Workers :
                  wk' = [v \in Workers |-> IF v = w THEN "queued" ELSE "none"]
             \/ OpenFails /\ wk' = [v \in Workers |-> "none"]
     ELSE /\ gen' = 0 /\ UNCHANGED db
          /\ status' = IF Listed THEN db.status ELSE status
          /\ fault' = db.fault
          /\ wk' = [v \in Workers |-> "none"]
  /\ overlap' = FALSE
  /\ UNCHANGED created

-----------------------------------------------------------------------------
Call(h) == NewTask(h) \/ StartCheck(h) \/ StopCheck(h) \/ DelCheck(h)

Handle(h) == \/ StartMark(h) \/ CreateMake(h) \/ CreateSave(h) \/ CreateLook(h)
             \/ CreateExec(h) \/ Send(h) \/ DelRecord(h)

Work(w) == \/ Dial(w) \/ TakeExit(w) \/ TakeClear(w) \/ Round(w) \/ RoundMore(w)
           \/ RoundRetry(w) \/ MarkStopped(w) \/ MarkFault(w) \/ Leave(w)

Next == \/ \E h \in Handlers : Call(h) \/ Handle(h)
        \/ \E w \in Workers : Work(w)
        \/ Restart

Spec == Init /\ [][Next]_vars

\* Every goroutine that can go on is scheduled.
FairSpec == /\ Spec
            /\ \A h \in Handlers : WF_vars(Handle(h))
            /\ \A w \in Workers : WF_vars(Work(w))
-----------------------------------------------------------------------------
\* Every variable has its type.
TypeOK ==
  /\ pc \in [Handlers -> {"idle", "mark", "make", "save", "look", "exec", "stop",
                         "clear", "exit<-", "clear<-", "delete"}]
  /\ ch \in [Handlers -> Nat]
  /\ wk \in [Workers -> {"none", "queued", "loop", "pull", "stop", "fault",
                        "save", "delete"}]
  /\ status \in Statuses /\ fault \in BOOLEAN /\ gen \in Nat
  /\ db \in [status : Statuses \cup {"none"}, fault : BOOLEAN]
  /\ created \in BOOLEAN /\ starts \in Nat /\ overlap \in BOOLEAN

\* The worker pulls, or will.
Active(w) == wk[w] \in {"queued", "loop", "pull"}

\* Nobody is between a change of the task and the save that follows it.
Settled ==
  /\ \A h \in Handlers : pc[h] \notin {"make", "save"}
  /\ \A w \in Workers : wk[w] \notin {"fault", "save", "delete"}

(* What a restart would revive is what the callers see: although nothing    *)
(* orders the writes of status and fault, and each is recorded later, by    *)
(* its own pullTaskRecordSave, the record and the task agree whenever every *)
(* goroutine has recorded what it changed.                                  *)
AtRestAgree ==
  Settled /\ Listed => db = [status |-> status, fault |-> fault]

(* Two workers never pull the same task, as long as each operation began    *)
(* after the one before it had returned: PullTaskStart refuses a running    *)
(* task, a worker leaves its loop before it clears the status, and Load     *)
(* runs before any operation.                                               *)
OneWorker ==
  ~overlap => \A v, w \in Workers : Active(v) /\ Active(w) => v = w

(* A task that shows stop, or awaits confirmation, is not being pulled, as  *)
(* long as the operations did not overlap.                                  *)
StoppedIsQuiet ==
  ~overlap /\ status # Running => \A w \in Workers : ~Active(w)

(* A stop or a delete does not wait for ever beside a worker that could     *)
(* take it, however many slices are left and whoever else calls: select     *)
(* serves a waiting channel before the next round. It is left alone only    *)
(* when no worker is there, or when the task holds other channels by now.   *)
WaitingIsTaken ==
  \A h \in Handlers :
    pc[h] \in {"exit<-", "clear<-"} ~>
      \/ pc[h] = "idle" \/ ch[h] # gen
      \/ \A w \in Workers : ~Active(w)
-----------------------------------------------------------------------------
\* What the code and its documentation say, and the code does not keep.

(* transfer.go:322, "the task cannot be started twice": never two workers,  *)
(* whoever calls. A start can pass the check while the task, saved and      *)
(* listed already, is still being created: the creation then finds it       *)
(* running at handers.go:200, and both put it on Exec. So do two starts     *)
(* that both pass the check.                                                *)
NeverTwoWorkers ==
  \A v, w \in Workers : Active(v) /\ Active(w) => v = w

(* README.md:308, "running": a task recorded as running has a worker, or a  *)
(* handler about to make one. Task returns from a failed Dial with the      *)
(* status left at running.                                                  *)
RunningIsRunning ==
  db.status = Running =>
    \/ \E w \in Workers : wk[w] # "none"
    \/ \E h \in Handlers : pc[h] \in {"mark", "make", "save", "look", "exec"}

(* README.md:354, "delete a pull task": a deleted task is listed again by   *)
(* CreatePullTask only. A worker that gives up sets the status before it    *)
(* saves the record (handers.go:265-267), and one that took a stop saves    *)
(* after the stop has returned (236): a delete in between finds a task      *)
(* that is not running and removes the record itself.                       *)
DeletedStaysDeleted ==
  [][~Listed /\ Listed' => \E h \in Handlers : pc[h] = "save"]_vars
=============================================================================
