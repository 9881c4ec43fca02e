----------------------- MODULE PullTaskControlProofs -----------------------
(***************************************************************************)
(* Proofs about PullTaskControl, for any number of handlers and workers.   *)
(***************************************************************************)
EXTENDS PullTaskControl, TLAPS

LEMMA InitType == Init => TypeOK
<1> SUFFICES ASSUME Init PROVE TypeOK
  OBVIOUS
<1>1. pc \in [Handlers -> {"idle"}] /\ ch \in [Handlers -> {0}]
      /\ wk \in [Workers -> {"none"}]
  BY DEF Init
<1>2. status \in Statuses /\ fault \in BOOLEAN /\ gen \in Nat
      /\ db \in [status : Statuses \cup {"none"}, fault : BOOLEAN]
      /\ created \in BOOLEAN /\ starts \in Nat /\ overlap \in BOOLEAN
  BY DEF Init, NoRecord, Statuses, Pending
<1> QED  BY <1>1, <1>2 DEF TypeOK

LEMMA NextType == TypeOK /\ [Next]_vars => TypeOK'
<1> SUFFICES ASSUME TypeOK, [Next]_vars PROVE TypeOK'
  OBVIOUS
<1> USE DEF TypeOK, Statuses, Pending, Running, Stopped, Go, Turn, Enter, task,
            history
<1>1. ASSUME NEW h \in Handlers, Call(h) PROVE TypeOK'
  <2>1. CASE NewTask(h)
    BY <2>1 DEF NewTask
  <2>2. CASE StartCheck(h)
    BY <2>2 DEF StartCheck
  <2>3. CASE StopCheck(h)
    BY <2>3 DEF StopCheck
  <2>4. CASE DelCheck(h)
    <3>1. Enter(h, "clear") \/ Enter(h, "delete")
      BY <2>4 DEF DelCheck
    <3> QED  BY <2>4, <3>1 DEF DelCheck
  <2> QED  BY <1>1, <2>1, <2>2, <2>3, <2>4 DEF Call
<1>2. ASSUME NEW h \in Handlers, Handle(h) PROVE TypeOK'
  <2>1. CASE StartMark(h)
    BY <2>1 DEF StartMark
  <2>2. CASE CreateMake(h)
    <3>1. fault' \in BOOLEAN
      BY <2>2 DEF CreateMake
    <3>2. gen' = gen + 1 /\ gen \in Nat
      BY <2>2 DEF CreateMake
    <3>3. gen' \in Nat
      BY <3>2
    <3> QED  BY <2>2, <3>1, <3>3 DEF CreateMake
  <2>3. CASE CreateSave(h)
    BY <2>3 DEF CreateSave, RecordSave
  <2>4. CASE DelRecord(h)
    BY <2>4 DEF DelRecord, RecordDel, NoRecord
  <2>5. CASE CreateLook(h)
    BY <2>5 DEF CreateLook
  <2>6. CASE CreateExec(h)
    BY <2>6 DEF CreateExec
  <2>7. CASE Send(h)
    BY <2>7 DEF Send
  <2> QED  BY <1>2, <2>1, <2>2, <2>3, <2>4, <2>5, <2>6, <2>7 DEF Handle
<1>3. ASSUME NEW w \in Workers, Work(w) PROVE TypeOK'
  <2>1. CASE Dial(w)
    BY <2>1 DEF Dial
  <2>2. CASE TakeExit(w)
    BY <2>2 DEF TakeExit, Waiting
  <2>3. CASE TakeClear(w)
    BY <2>3 DEF TakeClear, Waiting
  <2>4. CASE Round(w)
    BY <2>4 DEF Round
  <2>5. CASE RoundMore(w)
    BY <2>5 DEF RoundMore, RecordSave
  <2>6. CASE RoundRetry(w)
    BY <2>6 DEF RoundRetry
  <2>7. CASE MarkStopped(w)
    BY <2>7 DEF MarkStopped
  <2>8. CASE MarkFault(w)
    BY <2>8 DEF MarkFault
  <2>9. CASE Leave(w)
    <3>1. CASE RecordSave
      BY <2>9, <3>1 DEF Leave, RecordSave
    <3>2. CASE RecordDel
      BY <2>9, <3>2 DEF Leave, RecordDel, NoRecord
    <3> QED  BY <2>9, <3>1, <3>2 DEF Leave
  <2> QED  BY <1>3, <2>1, <2>2, <2>3, <2>4, <2>5, <2>6, <2>7, <2>8, <2>9 DEF Work
<1>4. CASE Restart
  <2>1. pc' \in [Handlers -> {"idle"}] /\ ch' \in [Handlers -> {0}] /\ starts' \in Nat
    BY <1>4 DEF Restart
  <2>. overlap' \in BOOLEAN
    BY <1>4 DEF Restart
  <2>2. CASE db.status = Running
    <3>1. wk' \in [Workers -> {"none", "queued"}]
      BY <1>4, <2>2 DEF Restart
    <3>2. gen' = 1 /\ status' = Running /\ fault' = FALSE /\ created' = created
          /\ db' = [status |-> Running, fault |-> FALSE]
      BY <1>4, <2>2 DEF Restart
    <3>3. db' \in [status : Statuses \cup {"none"}, fault : BOOLEAN]
      BY <3>2
    <3>4. fault' \in BOOLEAN /\ gen' \in Nat /\ status' \in Statuses /\ created' \in BOOLEAN
      BY <3>2
    <3> QED  BY <2>1, <3>1, <3>3, <3>4
  <2>3. CASE db.status # Running
    <3>1. status' \in Statuses /\ fault' \in BOOLEAN /\ db' = db
      BY <1>4, <2>3 DEF Restart, Listed
    <3>2. wk' \in [Workers -> {"none"}]
      BY <1>4, <2>3 DEF Restart
    <3> QED  BY <1>4, <2>1, <2>3, <3>1, <3>2 DEF Restart
  <2> QED  BY <2>2, <2>3
<1>5. CASE UNCHANGED vars
  BY <1>5 DEF vars
<1> QED  BY <1>1, <1>2, <1>3, <1>4, <1>5 DEF Next

(* The task, its record and every goroutine stay in the states the code     *)
(* gives them.                                                              *)
THEOREM TypeCorrect == Spec => []TypeOK
BY InitType, NextType, PTL DEF Spec

(***************************************************************************)
(* The record and the task                                                 *)
(***************************************************************************)
\* Whoever changes the status or the fault is unsettled until it has saved.
LEMMA AgreeNext == TypeOK /\ AtRestAgree /\ [Next]_vars => AtRestAgree'
<1> SUFFICES ASSUME TypeOK, AtRestAgree, [Next]_vars, Settled', Listed'
             PROVE  db' = [status |-> status', fault |-> fault']
  BY DEF AtRestAgree
<1> USE DEF TypeOK, Go, Turn, Enter, task
\* A step that leaves the record and the task alone settles nothing.
<1>1. ASSUME UNCHANGED <<status, fault, db>>, Settled
      PROVE  db' = [status |-> status', fault |-> fault']
  BY <1>1 DEF AtRestAgree, Listed
\* A step that records the task, or forgets it, makes them agree.
<1>2. ASSUME RecordSave, UNCHANGED <<status, fault>>
      PROVE  db' = [status |-> status', fault |-> fault']
  BY <1>2 DEF RecordSave
<1>3. ~RecordDel
  BY DEF RecordDel, NoRecord, Listed
<1>4. ASSUME NEW h \in Handlers, Call(h)
      PROVE  db' = [status |-> status', fault |-> fault']
  <2>1. CASE NewTask(h)
    <3>1. pc'[h] = "make"
      BY <2>1 DEF NewTask
    <3> QED  BY <3>1 DEF Settled
  <2>2. CASE StartCheck(h) \/ StopCheck(h) \/ DelCheck(h)
    <3>1. Settled /\ UNCHANGED <<status, fault, db>>
      BY <2>2 DEF StartCheck, StopCheck, DelCheck, Settled
    <3> QED  BY <3>1, <1>1
  <2> QED  BY <1>4, <2>1, <2>2 DEF Call
<1>5. ASSUME NEW h \in Handlers, Handle(h)
      PROVE  db' = [status |-> status', fault |-> fault']
  <2>1. CASE StartMark(h) \/ CreateMake(h)
    <3>1. pc'[h] \in {"make", "save"}
      BY <2>1 DEF StartMark, CreateMake
    <3> QED  BY <3>1 DEF Settled
  <2>2. CASE CreateSave(h)
    BY <2>2, <1>2 DEF CreateSave
  <2>3. CASE CreateLook(h) \/ Send(h)
    <3>1. Settled /\ UNCHANGED <<status, fault, db>>
      BY <2>3 DEF CreateLook, Send, Settled
    <3> QED  BY <3>1, <1>1
  <2>4. CASE CreateExec(h)
    <3>1. Settled /\ UNCHANGED <<status, fault, db>>
      BY <2>4 DEF CreateExec, Settled
    <3> QED  BY <3>1, <1>1
  <2>5. CASE DelRecord(h)
    BY <2>5, <1>3 DEF DelRecord
  <2> QED  BY <1>5, <2>1, <2>2, <2>3, <2>4, <2>5 DEF Handle
<1>6. ASSUME NEW w \in Workers, Work(w)
      PROVE  db' = [status |-> status', fault |-> fault']
  <2>1. CASE Dial(w) \/ Round(w) \/ RoundRetry(w)
    <3>1. Settled /\ UNCHANGED <<status, fault, db>>
      BY <2>1 DEF Dial, Round, RoundRetry, Settled
    <3> QED  BY <3>1, <1>1
  <2>2. CASE TakeExit(w) \/ TakeClear(w)
    <3>1. wk[w] = "loop" /\ UNCHANGED <<status, fault, db>>
      BY <2>2 DEF TakeExit, TakeClear
    <3>2. PICK h \in Handlers : pc[h] \in {"exit<-", "clear<-"} /\ Go(h, "idle")
      BY <2>2 DEF TakeExit, TakeClear, Waiting
    <3>3. \A v \in Workers : v # w => wk'[v] = wk[v]
      BY <2>2 DEF TakeExit, TakeClear
    <3>4. Settled
      BY <3>1, <3>2, <3>3 DEF Settled
    <3> QED  BY <3>1, <3>4, <1>1
  <2>3. CASE RoundMore(w)
    BY <2>3, <1>2 DEF RoundMore
  <2>4. CASE MarkStopped(w) \/ MarkFault(w)
    <3>1. wk'[w] \in {"delete", "fault", "save"}
      BY <2>4 DEF MarkStopped, MarkFault
    <3> QED  BY <3>1 DEF Settled
  <2>5. CASE Leave(w)
    BY <2>5, <1>2, <1>3 DEF Leave
  <2> QED  BY <1>6, <2>1, <2>2, <2>3, <2>4, <2>5 DEF Work
<1>7. CASE Restart
  <2>1. CASE db.status = Running
    BY <1>7, <2>1 DEF Restart
  <2>2. CASE db.status # Running
    <3>1. db' = db /\ status' = db.status /\ fault' = db.fault
      BY <1>7, <2>2 DEF Restart, Listed
    <3> QED  BY <3>1
  <2> QED  BY <2>1, <2>2
<1>8. CASE UNCHANGED vars
  <2>1. Settled /\ UNCHANGED <<status, fault, db>>
    BY <1>8 DEF vars, Settled
  <2> QED  BY <2>1, <1>1
<1> QED  BY <1>4, <1>5, <1>6, <1>7, <1>8 DEF Next

(* Whatever handlers and workers do to the shared task without a lock, its  *)
(* record in the database ends up telling what the task tells, so that Load *)
(* revives the task the caller last saw.                                    *)
THEOREM RecordFollowsTask == Spec => []AtRestAgree
<1>1. Init => AtRestAgree
  BY DEF Init, AtRestAgree, Listed, NoRecord
<1> QED  BY <1>1, InitType, NextType, AgreeNext, PTL DEF Spec

(***************************************************************************)
(* Operations that do not overlap                                          *)
(***************************************************************************)
\* A worker that still may set the status to stop.
Busy(w) == wk[w] \in {"queued", "loop", "pull", "stop"}

Creating(h) == pc[h] \in {"mark", "make", "save", "look", "exec"}

\* At most one handler is inside an operation.
Alone == \A g, h \in Handlers : pc[g] # "idle" /\ pc[h] # "idle" => g = h

\* Before its creation the task has no record, no worker and no operation.
CreatedInv ==
  ~created => /\ ~Listed
              /\ \A h \in Handlers : pc[h] = "idle"
              /\ \A w \in Workers : wk[w] = "none"

\* The only busy worker runs while the status is running, and nobody creates
\* another one meanwhile: that the status is cleared last, by the worker
\* itself, is what makes the check of PullTaskStart a sound one.
BusyInv ==
  /\ Alone
  /\ \A v, w \in Workers : Busy(v) /\ Busy(w) => v = w
  /\ \A w \in Workers : Busy(w) => status = Running
  /\ \A h \in Handlers, w \in Workers : Creating(h) => ~Busy(w)
  /\ \A h \in Handlers : pc[h] = "exec" => status = Running

ControlInv == CreatedInv /\ (~overlap => BusyInv)

LEMMA CreatedNext == TypeOK /\ CreatedInv /\ [Next]_vars => CreatedInv'
<1> SUFFICES ASSUME TypeOK, CreatedInv, [Next]_vars, ~created'
             PROVE  CreatedInv'
  BY DEF CreatedInv
<1> USE DEF CreatedInv, Listed, NoRecord, history
<1>1. ASSUME NEW h \in Handlers, Call(h) \/ Handle(h) PROVE CreatedInv'
  <2>1. created' = created \/ NewTask(h)
    BY <1>1 DEF Call, Handle, StartCheck, StopCheck, DelCheck, StartMark,
                CreateMake, CreateSave, CreateLook, CreateExec, Send, DelRecord
  <2>2. ~NewTask(h)
    BY DEF NewTask
  <2>3. pc[h] = "idle" /\ db.status = "none"
    BY <2>1, <2>2
  <2>4. ~Call(h)
    BY <2>2, <2>3 DEF Call, StartCheck, StopCheck, DelCheck
  <2>5. ~Handle(h)
    BY <2>3 DEF Handle, StartMark, CreateMake, CreateSave, CreateLook,
                CreateExec, Send, DelRecord
  <2> QED  BY <1>1, <2>4, <2>5
<1>2. ASSUME NEW w \in Workers, Work(w) PROVE CreatedInv'
  <2>1. created' = created
    BY <1>2 DEF Work, Dial, TakeExit, TakeClear, Round, RoundMore, RoundRetry,
                MarkStopped, MarkFault, Leave
  <2>2. wk[w] = "none"
    BY <2>1
  <2>3. ~Work(w)
    BY <2>2 DEF Work, Dial, TakeExit, TakeClear, Round, RoundMore, RoundRetry,
                MarkStopped, MarkFault, Leave
  <2> QED  BY <1>2, <2>3
<1>3. CASE Restart
  <2>1. db.status = "none"
    BY <1>3 DEF Restart
  <2> QED  BY <1>3, <2>1 DEF Restart, Running
<1>4. CASE UNCHANGED vars
  BY <1>4 DEF vars
<1> QED  BY <1>1, <1>2, <1>3, <1>4 DEF Next

\* A restart leaves no operation, and at most the worker Load made.
LEMMA RestartAlone ==
  ASSUME TypeOK, Restart
  PROVE  BusyInv'
<1> USE DEF TypeOK, BusyInv, Alone, Busy, Creating
<1>1. \A h \in Handlers : pc'[h] = "idle"
  BY DEF Restart
<1>2. CASE db.status = Running
  <2>1. status' = Running
    BY <1>2 DEF Restart
  <2>2. \A v, w \in Workers : Busy(v)' /\ Busy(w)' => v = w
    BY <1>2 DEF Restart
  <2> QED  BY <1>1, <2>1, <2>2
<1>3. CASE db.status # Running
  <2>1. \A w \in Workers : wk'[w] = "none"
    BY <1>3 DEF Restart
  <2> QED  BY <1>1, <2>1
<1> QED  BY <1>2, <1>3

LEMMA BusyNext ==
  ASSUME TypeOK, CreatedInv, BusyInv, [Next]_vars, ~overlap'
  PROVE  BusyInv'
<1> USE DEF TypeOK, BusyInv, Alone, Busy, Creating, Go, Turn, Enter, task, history
\* A worker's step that makes nobody busy and leaves the status alone.
<1>1. ASSUME NEW w \in Workers, status' = status,
             \A v \in Workers : v # w => wk'[v] = wk[v],
             Busy(w)' => Busy(w),
             \A h \in Handlers : pc'[h] = pc[h] \/ pc'[h] = "idle"
      PROVE  BusyInv'
  BY <1>1
\* A handler's step that leaves the workers and the status alone.
<1>2. ASSUME NEW h \in Handlers, status' = status, wk' = wk,
             \A g \in Handlers : g # h => pc'[g] = pc[g],
             Creating(h)' => Creating(h) \/ status # Running,
             pc'[h] = "exec" => status = Running,
             pc[h] # "idle" \/ \A g \in Handlers : pc[g] = "idle"
      PROVE  BusyInv'
  BY <1>2
<1>3. ASSUME NEW h \in Handlers, Call(h) PROVE BusyInv'
  <2>0. \A g \in Handlers : pc[g] = "idle"
    BY <1>3 DEF Call, NewTask, StartCheck, StopCheck, DelCheck
  <2>1. CASE NewTask(h)
    <3>1. \A w \in Workers : wk'[w] = "none"
      BY <2>1 DEF NewTask, CreatedInv
    <3>2. \A g \in Handlers : pc'[g] # "exec"
      BY <2>1 DEF NewTask, CreatedInv
    <3>3. \A g \in Handlers : g # h => pc'[g] = "idle"
      BY <2>0, <2>1 DEF NewTask
    <3> QED  BY <3>1, <3>2, <3>3
  <2>2. CASE StartCheck(h)
    BY <2>0, <2>2, <1>2 DEF StartCheck
  <2>3. CASE StopCheck(h)
    BY <2>0, <2>3, <1>2 DEF StopCheck
  <2>4. CASE DelCheck(h)
    <3>1. pc'[h] \in {"clear", "delete"}
      BY <2>4 DEF DelCheck
    <3>2. status' = status /\ wk' = wk /\ \A g \in Handlers : g # h => pc'[g] = pc[g]
      BY <2>4 DEF DelCheck
    <3> QED  BY <2>0, <3>1, <3>2, <1>2
  <2> QED  BY <1>3, <2>1, <2>2, <2>3, <2>4 DEF Call
<1>4. ASSUME NEW h \in Handlers, Handle(h) PROVE BusyInv'
  <2>1. CASE StartMark(h)
    BY <2>1 DEF StartMark
  <2>2. CASE CreateMake(h)
    BY <2>2, <1>2 DEF CreateMake
  <2>3. CASE CreateSave(h)
    BY <2>3, <1>2 DEF CreateSave
  <2>4. CASE CreateLook(h)
    BY <2>4, <1>2 DEF CreateLook
  <2>5. CASE CreateExec(h)
    <3>1. PICK w \in Workers : wk[w] = "none" /\ wk' = [wk EXCEPT ![w] = "queued"]
      BY <2>5 DEF CreateExec
    <3>2. \A v \in Workers : v # w => ~Busy(v)'
      BY <2>5, <3>1 DEF CreateExec
    <3>3. \A g \in Handlers : pc'[g] = "idle"
      BY <2>5 DEF CreateExec
    <3>4. status' = Running
      BY <2>5 DEF CreateExec
    <3> QED  BY <3>2, <3>3, <3>4
  <2>6. CASE Send(h)
    <3>1. pc'[h] \in {"exit<-", "clear<-"}
      BY <2>6 DEF Send
    <3>2. status' = status /\ wk' = wk /\ \A g \in Handlers : g # h => pc'[g] = pc[g]
      BY <2>6 DEF Send
    <3>3. pc[h] # "idle"
      BY <2>6 DEF Send
    <3> QED  BY <3>1, <3>2, <3>3, <1>2
  <2>7. CASE DelRecord(h)
    BY <2>7, <1>2 DEF DelRecord
  <2> QED  BY <1>4, <2>1, <2>2, <2>3, <2>4, <2>5, <2>6, <2>7 DEF Handle
<1>5. ASSUME NEW w \in Workers, Work(w) PROVE BusyInv'
  <2>1. CASE Dial(w)
    BY <2>1, <1>1 DEF Dial
  <2>2. CASE TakeExit(w) \/ TakeClear(w)
    BY <2>2, <1>1 DEF TakeExit, TakeClear, Waiting
  <2>3. CASE Round(w)
    BY <2>3, <1>1 DEF Round
  <2>4. CASE RoundMore(w) \/ RoundRetry(w)
    BY <2>4, <1>1 DEF RoundMore, RoundRetry
  <2>5. CASE MarkStopped(w)
    <3>1. Busy(w) /\ pc' = pc /\ \A v \in Workers : ~Busy(v)'
      BY <2>5 DEF MarkStopped
    <3>2. \A h \in Handlers : ~Creating(h)
      BY <3>1
    <3> QED  BY <3>1, <3>2
  <2>6. CASE MarkFault(w)
    BY <2>6, <1>1 DEF MarkFault
  <2>7. CASE Leave(w)
    BY <2>7, <1>1 DEF Leave
  <2> QED  BY <1>5, <2>1, <2>2, <2>3, <2>4, <2>5, <2>6, <2>7 DEF Work
<1>6. CASE Restart
  BY <1>6, RestartAlone
<1>7. CASE UNCHANGED vars
  BY <1>7 DEF vars
<1> QED  BY <1>3, <1>4, <1>5, <1>6, <1>7 DEF Next

LEMMA ControlHolds == Spec => []ControlInv
<1>1. Init => ControlInv
  BY DEF Init, ControlInv, CreatedInv, BusyInv, Alone, Busy, Creating, Listed, NoRecord
<1>2. TypeOK /\ ControlInv /\ [Next]_vars => ControlInv'
  <2> SUFFICES ASSUME TypeOK, ControlInv, [Next]_vars, ~overlap' PROVE BusyInv'
    BY CreatedNext DEF ControlInv
  <2>1. CASE Restart
    BY <2>1, RestartAlone
  <2>2. CASE ~Restart
    <3>1. ~overlap
      BY <2>2 DEF Next, Call, NewTask, StartCheck, StopCheck, DelCheck, Enter,
                  Handle, StartMark, CreateMake, CreateSave, CreateLook,
                  CreateExec, Send, DelRecord, Work, Dial, TakeExit, TakeClear,
                  Round, RoundMore, RoundRetry, MarkStopped, MarkFault, Leave,
                  vars, history
    <3> QED  BY <3>1, BusyNext DEF ControlInv
  <2> QED  BY <2>1, <2>2
<1> QED  BY <1>1, <1>2, TypeCorrect, PTL DEF Spec

(* Operations that do not overlap never make two workers pull one task,     *)
(* whatever dials and files fail and wherever the node restarts.            *)
THEOREM OneWorkerAtATime == Spec => []OneWorker
<1>1. ControlInv => OneWorker
  BY DEF ControlInv, BusyInv, OneWorker, Busy, Active
<1> QED  BY <1>1, ControlHolds, PTL

(* Operations that do not overlap never see a stopped task being pulled.    *)
THEOREM StoppedTaskIsQuiet == Spec => []StoppedIsQuiet
<1>1. ControlInv => StoppedIsQuiet
  BY DEF ControlInv, BusyInv, StoppedIsQuiet, Busy, Active
<1> QED  BY <1>1, ControlHolds, PTL
=============================================================================
