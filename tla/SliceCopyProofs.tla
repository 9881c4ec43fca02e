-------------------------- MODULE SliceCopyProofs --------------------------
(***************************************************************************)
(* What the slice transfer puts on the puller's disk, proved for every     *)
(* slice length, source and retry budget, for a source that nobody edits   *)
(* and a disk that takes its writes.                                       *)
(*                                                                         *)
(* The replies carry no request number, so the heart of the argument is    *)
(* QueueInv: whatever was asked again and answered late, what is under way *)
(* on the connection answers the current offset or the one a slice before  *)
(* it, and the older answers come first.                                   *)
(***************************************************************************)
EXTENDS SliceTransferProofs, FunctionTheorems, FiniteSetTheorems

(***************************************************************************)
(* The inductive invariant                                                 *)
(***************************************************************************)
\* The offset in memory against the offset in the record.
OffsetInv ==
  /\ src = Source0
  /\ status = "none" <=> db.status = "none"
  /\ worker # "none" => status = Running
  /\ status # "none" /\ worker \in {"none", "queued", "loop", "wait"} =>
       idx = db.index
  /\ status # "none" => db.index <= idx /\ db.index < Size
  /\ status = "none" => db.index = 0
  /\ worker = "save" => idx < Size
  /\ worker \in {"rename", "delete"} => idx = Size

\* Offset o is the offset i or one slice before it.
Near(o, i) == o = i \/ o + Lenth = i

\* What is asked for, and what is answered, is near, in the order asked.
QueueInv ==
  worker \in {"loop", "wait", "save"} =>
    /\ \A i \in 1..Len(req) : Near(req[i], idx)
    /\ \A i \in 1..Len(rep) : rep[i].ok => Near(rep[i].from, idx)
    /\ \A i, j \in 1..Len(req) : i <= j => req[i] <= req[j]
    /\ \A i, j \in 1..Len(rep) :
         i <= j /\ rep[i].ok /\ rep[j].ok => rep[i].from <= rep[j].from
    /\ \A i \in 1..Len(rep), j \in 1..Len(req) :
         rep[i].ok => rep[i].from <= req[j]

\* r, if it is a slice, is a slice of the source.
Genuine(r) ==
  r.ok => /\ r.from < Size /\ r.size = Size
          /\ r.next = Lesser(r.from + Lenth, Size)
          /\ r.data = Slice(Source0, r.from, r.next)

AnswerInv == \A i \in 1..Len(rep) : Genuine(rep[i])

\* The files on the puller's disk.
FileInv ==
  /\ worker \notin {"none", "delete"} => tmp # NoFile
  /\ delivered = << >> /\ tmp # NoFile =>
       Len(tmp) >= Size /\ SourceUpTo(tmp, idx)
  /\ delivered = << >> /\ tmp = NoFile /\ status # "none" => idx = 0
  /\ Len(tmp) < Size + Lenth
  /\ \A n \in 1..Len(delivered) :
       SourceUpTo(delivered[n], Size) /\ Len(delivered[n]) < Size + Lenth
  /\ worker = "delete" \/ outcome = "complete" => delivered # << >>

\* A request was asked for at an offset the record had reached.
AskedInv ==
  status # "none" =>
    /\ \A i \in 1..Len(req) : req[i] <= db.index
    /\ \A o \in stray : o <= db.index
    /\ ~PushExpires /\ ~push => db.index + Lenth >= Size

\* While no answer is late there is at most one request under way, and every
\* file has the size it should have.
TurnInv ==
  ~late =>
    /\ link # "torn"
    /\ worker # "wait" => req = << >> /\ rep = << >>
    /\ req # << >> => rep = << >> /\ Len(req) = 1
    /\ Len(rep) <= 1
    /\ \A i \in 1..Len(req) : req[i] = idx
    /\ \A i \in 1..Len(rep) : rep[i].ok => rep[i].from = idx
    /\ tmp # NoFile /\ worker # "none" => Len(tmp) = Size
    /\ \A n \in 1..Len(delivered) : Len(delivered[n]) = Size

\* The parts proved before, and the parts about an undisturbed copy.
BaseInv == TypeOK /\ LinkInv /\ DeliveredOnce /\ RetireInv

CopyInv == OffsetInv /\ QueueInv /\ AnswerInv /\ FileInv /\ AskedInv

(***************************************************************************)
(* Shapes of steps                                                         *)
(***************************************************************************)
\* A failing round either goes on with what is left of the replies, or gives
\* up: it closes the connection and records the offset.
LEMMA FailShape ==
  ASSUME TypeOK, LinkError \/ Timeout \/ Garbled \/ RecvRefusal
  PROVE  /\ worker \in {"loop", "wait"}
         /\ UNCHANGED <<idx, tmp, delivered, outcome, push, src>>
         /\ RepliesLeft
         /\ \/ worker' = "loop" /\ UNCHANGED <<status, db, req, stray>>
            \/ /\ worker' = "none" /\ status' = Stopped
               /\ db' = Record(Stopped, idx, TRUE) /\ CloseLink
<1>1. \E l, q : Fail(l, q)
  BY DEF LinkError, Timeout, Garbled, RecvRefusal
<1>2. /\ UNCHANGED <<idx, tmp, delivered, outcome, push, src>>
      /\ \/ worker' = "loop" /\ UNCHANGED <<status, db, req, stray>>
         \/ /\ worker' = "none" /\ status' = Stopped
            /\ db' = Record(Stopped, idx, TRUE) /\ CloseLink
  BY <1>1 DEF Fail, Retry, GiveUp, pushVars
<1> QED  BY <1>2, FailFrame

\* What the source and the slice length are.
LEMMA Constants ==
  /\ Size \in Nat \ {0} /\ Lenth \in Nat \ {0} /\ Source0 \in Seq(Units)
BY ConstantsOK DEF Size

\* The slice a worker receives: it ends at the new offset, and starts at the
\* old one or else leaves the offset where it was.
LEMMA SliceShape ==
  ASSUME TypeOK, OffsetInv, QueueInv, AnswerInv, RecvSlice
  PROVE  /\ Head(rep) = rep[1] /\ Len(rep) \in Nat \ {0} /\ Head(rep) \in Replies
         /\ Tail(rep) \in Seq(Replies) /\ Len(Tail(rep)) = Len(rep) - 1
         /\ \A i \in 1..Len(Tail(rep)) : Tail(rep)[i] = rep[i + 1]
         /\ Genuine(Head(rep)) /\ Head(rep).ok
         /\ idx < Size /\ idx = db.index /\ status = Running
         /\ idx' = Head(rep).next
         /\ idx <= idx' /\ idx' <= Size
         /\ \/ Head(rep).from = idx /\ idx' = Lesser(idx + Lenth, Size)
            \/ Head(rep).from + Lenth = idx /\ idx' = idx
         /\ Complete(Head(rep)) <=> idx' = Size
<1>1. rep \in Seq(Replies) /\ rep # << >> /\ idx \in Nat
  BY DEF RecvSlice, TypeOK
<1>2. /\ Head(rep) = rep[1] /\ Len(rep) \in Nat \ {0} /\ Head(rep) \in Replies
      /\ Tail(rep) \in Seq(Replies) /\ Len(Tail(rep)) = Len(rep) - 1
      /\ \A i \in 1..Len(Tail(rep)) : Tail(rep)[i] = rep[i + 1]
  BY <1>1
<1>3. Genuine(Head(rep)) /\ Head(rep).ok /\ Near(Head(rep).from, idx)
  BY <1>2 DEF RecvSlice, AnswerInv, QueueInv
<1>4. idx < Size /\ idx = db.index /\ status = Running /\ idx' = Head(rep).next
  BY DEF RecvSlice, OffsetInv, Running
<1>5. Head(rep).from \in Nat
  BY <1>2 DEF Replies
<1> QED
  BY <1>1, <1>2, <1>3, <1>4, <1>5, Constants
  DEF Genuine, Near, Lesser, Complete

(***************************************************************************)
(* The offsets                                                             *)
(***************************************************************************)
LEMMA OffsetNext ==
  ASSUME Undisturbed, TypeOK, OffsetInv, QueueInv, AnswerInv, [Next]_vars
  PROVE  OffsetInv'
<1> USE Constants DEF OffsetInv, Record, Pending, Running, Stopped
<1>1. CASE Serve \/ ServeStray \/ Expire \/ Break
  BY <1>1 DEF Serve, ServeStray, Expire, Break, taskVars, diskVars, pushVars
<1>2. CASE EditSource
  BY <1>2 DEF EditSource, Undisturbed
<1>3. CASE PullTaskStart
  BY <1>3 DEF PullTaskStart, CreatePullTask, pushVars
<1>4. CASE Restart
  <2>1. src' = src /\ db.status # "none" /\ idx' = db.index
        /\ db'.index = db.index
    BY <1>4 DEF Restart, CreatePullTask, pushVars
  <2>2. CASE db.status = Running
    BY <1>4, <2>1, <2>2 DEF Restart, CreatePullTask, TypeOK
  <2>3. CASE db.status # Running
    BY <1>4, <2>1, <2>3 DEF Restart, TypeOK
  <2> QED  BY <2>2, <2>3
<1>5. CASE PullTaskDel \/ TakeClear
  BY <1>5 DEF PullTaskDel, TakeClear, pushVars
<1>6. CASE Dial \/ Ask
  BY <1>6 DEF Dial, Ask, diskVars, pushVars
<1>7. CASE TakeExit
  BY <1>7 DEF TakeExit, pushVars
<1>8. CASE AlreadyDone \/ Finish
  BY <1>8 DEF AlreadyDone, Finish, RecordDel, pushVars
<1>9. CASE LinkError \/ Timeout \/ Garbled \/ RecvRefusal
  BY <1>9, FailShape
<1>10. CASE RecvSlice
  <2>1. idx' \in Nat /\ idx <= idx' /\ idx' <= Size /\ idx = db.index
        /\ idx < Size /\ status = Running
        /\ (Complete(Head(rep)) <=> idx' = Size)
    BY <1>10, SliceShape, NextType DEF TypeOK
  <2>2. UNCHANGED <<status, db, src>>
        /\ worker' = IF Complete(Head(rep)) THEN "rename" ELSE "save"
    BY <1>10 DEF RecvSlice, pushVars
  <2> QED  BY <2>1, <2>2
<1>11. CASE Save
  BY <1>11 DEF Save, pushVars, TypeOK
<1>12. CASE Rename
  BY <1>12 DEF Rename, pushVars
<1>13. CASE UNCHANGED vars
  BY <1>13 DEF vars, taskVars, diskVars, pushVars
<1> QED
  BY <1>1, <1>2, <1>3, <1>4, <1>5, <1>6, <1>7, <1>8, <1>9, <1>10, <1>11,
     <1>12, <1>13
  DEF Next, Work, User, Pusher

(***************************************************************************)
(* The queues and the answers                                              *)
(***************************************************************************)
\* Taking replies away keeps both queue invariants.
LEMMA RepliesTaken ==
  ASSUME TypeOK, QueueInv, worker \in {"loop", "wait", "save"},
         idx' = idx, req' = req, RepliesLeft
  PROVE  QueueInv'
<1>1. PICK n \in 0..Len(rep) :
        /\ Len(rep') = Len(rep) - n
        /\ \A i \in 1..Len(rep') : n + i \in 1..Len(rep) /\ rep'[i] = rep[n + i]
  BY DEF RepliesLeft
<1>2. Len(rep) \in Nat /\ n \in Nat
  BY DEF TypeOK
<1>3. \A i, j \in 1..Len(rep') : i <= j => n + i <= n + j
  BY <1>1, <1>2
<1>4. /\ \A i \in 1..Len(rep') : rep'[i].ok => Near(rep'[i].from, idx')
      /\ \A i, j \in 1..Len(rep') :
           i <= j /\ rep'[i].ok /\ rep'[j].ok => rep'[i].from <= rep'[j].from
      /\ \A i \in 1..Len(rep'), j \in 1..Len(req') :
           rep'[i].ok => rep'[i].from <= req'[j]
  BY <1>1, <1>3 DEF QueueInv
<1> QED  BY <1>4 DEF QueueInv, Near

LEMMA AnswerNext ==
  ASSUME TypeOK, OffsetInv, AnswerInv, [Next]_vars
  PROVE  AnswerInv'
<1>1. ASSUME RepliesLeft \/ rep' \in {rep, << >>} PROVE AnswerInv'
  BY <1>1 DEF RepliesLeft, AnswerInv, Genuine
<1>2. CASE Serve
  <2> DEFINE r == Answer(Head(req))
  <2>1. Head(req) \in Nat /\ r \in Replies /\ Genuine(r)
    <3>1. Head(req) \in Nat
      BY <1>2 DEF Serve, TypeOK
    <3> QED  BY <3>1, AnswerType DEF Genuine, OffsetInv, Size
  <2>2. rep' = Append(rep, r)
    BY <1>2 DEF Serve
  <2> HIDE DEF r
  <2>3. CASE rep' = Append(rep, r)
    <3>1. ASSUME NEW i \in 1..Len(rep')
          PROVE  rep'[i] = r \/ (i \in 1..Len(rep) /\ rep'[i] = rep[i])
      BY <2>1, <2>3 DEF TypeOK
    <3> QED  BY <2>1, <3>1 DEF AnswerInv, Genuine
  <2> QED  BY <1>1, <2>2, <2>3
<1>3. CASE ServeStray \/ Expire \/ EditSource \/ PullTaskStart \/ PullTaskDel
           \/ Dial \/ Ask \/ Save \/ Rename
  BY <1>1, <1>3
  DEF ServeStray, Expire, EditSource, PullTaskStart, PullTaskDel, Dial, Ask,
      Save, Rename, linkVars
<1>4. CASE Break \/ Restart \/ TakeExit \/ TakeClear \/ AlreadyDone \/ Finish
  BY <1>1, <1>4
  DEF Break, Restart, TakeExit, TakeClear, AlreadyDone, Finish, RecordDel, CloseLink
<1>5. CASE LinkError \/ Timeout \/ Garbled \/ RecvRefusal
  BY <1>1, <1>5, FailShape
<1>6. CASE RecvSlice
  BY <1>1, <1>6, LeftOver DEF RecvSlice
<1>7. CASE UNCHANGED vars
  BY <1>1, <1>7 DEF vars, linkVars
<1> QED
  BY <1>2, <1>3, <1>4, <1>5, <1>6, <1>7 DEF Next, Work, User, Pusher

\* A reply appended to the queues that answers the oldest request.
LEMMA AnswerQueued ==
  ASSUME TypeOK, QueueInv, req # << >>, NEW r \in Replies,
         r.ok => r.from = Head(req),
         req' = Tail(req), rep' = Append(rep, r),
         idx' = idx, worker' = worker
  PROVE  QueueInv'
<1> SUFFICES ASSUME worker \in {"loop", "wait", "save"} PROVE QueueInv'
  BY DEF QueueInv
<1>1. req \in Seq(Nat) /\ rep \in Seq(Replies)
  BY DEF TypeOK
<1>2. /\ Len(req) \in Nat \ {0} /\ Head(req) = req[1] /\ Len(req') = Len(req) - 1
      /\ \A i \in 1..Len(req') : i + 1 \in 1..Len(req) /\ req'[i] = req[i + 1]
  BY <1>1
<1>3. \A i \in 1..Len(req) : Near(req[i], idx) /\ req[1] <= req[i]
  BY <1>2 DEF QueueInv
<1>4. /\ \A i \in 1..Len(req') : Near(req'[i], idx') /\ req[1] <= req'[i]
      /\ \A i, j \in 1..Len(req') : i <= j => req'[i] <= req'[j]
  <2>1. \A i, j \in 1..Len(req') : i <= j => i + 1 <= j + 1
    BY <1>2
  <2> QED  BY <1>2, <1>3, <2>1 DEF QueueInv, Near
<1>5. rep' = Append(rep, r)
  OBVIOUS
<1>6. QED
  <2>1. /\ Len(rep) \in Nat /\ Len(rep') = Len(rep) + 1 /\ rep'[Len(rep) + 1] = r
        /\ \A i \in 1..Len(rep) : rep'[i] = rep[i]
    BY <1>1, <1>5
  <2>2. \A i \in 1..Len(rep') : i \in 1..Len(rep) \/ i = Len(rep) + 1
    BY <2>1
  <2>3. ASSUME NEW i \in 1..Len(rep'), rep'[i].ok
        PROVE  Near(rep'[i].from, idx') /\ rep'[i].from <= req[1]
    <3>1. CASE i \in 1..Len(rep)
      BY <1>2, <2>1, <2>3, <3>1 DEF QueueInv, Near
    <3>2. CASE i = Len(rep) + 1
      <4>1. rep'[i] = r /\ r.ok
        BY <2>1, <2>3, <3>2
      <4>2. r.from = req[1] /\ req[1] \in Nat
        BY <1>1, <1>2, <4>1
      <4> QED  BY <1>2, <1>3, <4>1, <4>2 DEF Near
    <3> QED  BY <2>2, <3>1, <3>2
  <2>4. ASSUME NEW i \in 1..Len(rep'), NEW j \in 1..Len(rep'), i <= j,
               rep'[i].ok, rep'[j].ok
        PROVE  rep'[i].from <= rep'[j].from
    <3>1. CASE j \in 1..Len(rep)
      BY <2>1, <2>2, <2>4, <3>1 DEF QueueInv
    <3>2. CASE j = Len(rep) + 1
      <4>1. rep'[j] = r /\ r.from = req[1]
        BY <1>2, <2>1, <2>4, <3>2
      <4> QED  BY <2>3, <2>4, <4>1
    <3> QED  BY <2>2, <3>1, <3>2
  <2>5. ASSUME NEW i \in 1..Len(rep'), NEW j \in 1..Len(req'), rep'[i].ok
        PROVE  rep'[i].from <= req'[j]
    <3>1. rep'[i].from \in Nat /\ req[1] \in Nat /\ req'[j] \in Nat
      <4>1. rep' \in Seq(Replies) /\ req' \in Seq(Nat)
        BY <1>1, <1>5
      <4>2. rep'[i] \in Replies /\ req'[j] \in Nat
        BY <4>1
      <4>3. 1 \in 1..Len(req)
        BY <1>2
      <4>4. req[1] \in Nat
        BY <1>1, <4>3
      <4>5. rep'[i].from \in Nat
        BY <4>2 DEF Replies
      <4> QED  BY <4>2, <4>4, <4>5
    <3> QED  BY <1>4, <2>3, <2>5, <3>1
  <2> QED  BY <1>4, <2>3, <2>4, <2>5 DEF QueueInv

\* A request for the current offset is not older than what is under way.
LEMMA AskQueued ==
  ASSUME TypeOK, QueueInv, Ask
  PROVE  QueueInv'
<1>1. /\ req \in Seq(Nat) /\ rep \in Seq(Replies) /\ idx \in Nat
      /\ req' = Append(req, idx) /\ rep' = rep /\ idx' = idx /\ worker = "loop"
  BY DEF Ask, TypeOK
<1>2. /\ Len(req) \in Nat /\ Len(req') = Len(req) + 1 /\ req'[Len(req) + 1] = idx
      /\ \A i \in 1..Len(req) : req'[i] = req[i] /\ req[i] \in Nat
  BY <1>1
<1>3. \A i \in 1..Len(rep) : rep[i].from \in Nat
  <2>1. \A i \in 1..Len(rep) : rep[i] \in Replies
    BY <1>1
  <2> QED  BY <2>1 DEF Replies
<1>4. \A o \in Nat : Near(o, idx) => o <= idx
  BY <1>1, Constants DEF Near
<1>5. \A i \in 1..Len(req') : i \in 1..Len(req) \/ i = Len(req) + 1
  BY <1>2
<1>6. \A i \in 1..Len(req') : Near(req'[i], idx') /\ req'[i] <= idx
  BY <1>1, <1>2, <1>4, <1>5 DEF QueueInv, Near
<1>7. \A i, j \in 1..Len(req') : i <= j => req'[i] <= req'[j]
  BY <1>1, <1>2, <1>5, <1>6 DEF QueueInv
<1>8. \A i \in 1..Len(rep), j \in 1..Len(req') : rep[i].ok => rep[i].from <= req'[j]
  BY <1>1, <1>2, <1>3, <1>4, <1>5 DEF QueueInv
<1> QED  BY <1>1, <1>6, <1>7, <1>8 DEF QueueInv, Near

\* After a slice is taken, what is left answers the new offset or the one
\* before it: if the slice was the current one, no older answer follows.
LEMMA SliceQueued ==
  ASSUME TypeOK, OffsetInv, QueueInv, AnswerInv, RecvSlice
  PROVE  QueueInv'
<1> SUFFICES ASSUME worker' = "save" PROVE QueueInv'
  BY DEF RecvSlice, QueueInv
<1> DEFINE h == Head(rep)
<1>1. /\ req \in Seq(Nat) /\ rep \in Seq(Replies) /\ idx \in Nat
      /\ req' = req /\ rep' = Tail(rep) /\ worker = "wait" /\ ~Complete(h)
  BY DEF RecvSlice, TypeOK
<1>2. /\ h = rep[1] /\ h.ok /\ h.from \in Nat /\ Len(rep) \in Nat \ {0}
      /\ Len(rep') = Len(rep) - 1
      /\ \A i \in 1..Len(rep') : i + 1 \in 1..Len(rep) /\ rep'[i] = rep[i + 1]
      /\ idx' <= Size /\ idx' # Size
      /\ \/ h.from = idx /\ idx' = Lesser(idx + Lenth, Size)
         \/ h.from + Lenth = idx /\ idx' = idx
  <2>1. /\ h = rep[1] /\ h.ok /\ Len(rep) \in Nat \ {0} /\ h \in Replies
        /\ Len(rep') = Len(rep) - 1
        /\ \A i \in 1..Len(rep') : rep'[i] = rep[i + 1]
    BY <1>1, SliceShape
  <2>2. h.from \in Nat
    BY <2>1 DEF Replies
  <2>3. \A i \in 1..Len(rep') : i + 1 \in 1..Len(rep)
    BY <2>1
  <2>4. /\ idx' <= Size /\ idx' # Size
        /\ \/ h.from = idx /\ idx' = Lesser(idx + Lenth, Size)
           \/ h.from + Lenth = idx /\ idx' = idx
    BY <1>1, SliceShape
  <2> QED  BY <2>1, <2>2, <2>3, <2>4
<1>3. (h.from = idx /\ idx' = idx + Lenth) \/ (h.from + Lenth = idx /\ idx' = idx)
  BY <1>1, <1>2, Constants DEF Lesser
<1>4. ASSUME NEW o \in Nat, Near(o, idx), h.from <= o PROVE Near(o, idx')
  <2>1. h.from \in Nat /\ idx \in Nat /\ Lenth \in Nat \ {0}
    BY <1>1, <1>2, Constants
  <2>2. o = idx \/ o + Lenth = idx
    BY <1>4 DEF Near
  <2>3. CASE h.from = idx /\ idx' = idx + Lenth
    <3>1. o = idx
      BY <1>4, <2>1, <2>2, <2>3
    <3> QED  BY <2>1, <2>3, <3>1 DEF Near
  <2>4. CASE h.from + Lenth = idx /\ idx' = idx
    BY <2>2, <2>4 DEF Near
  <2> QED  BY <1>3, <2>3, <2>4
<1>5. \A i \in 1..Len(req') : Near(req'[i], idx')
  <2>1. \A i \in 1..Len(req) : req[i] \in Nat /\ Near(req[i], idx) /\ h.from <= req[i]
    BY <1>1, <1>2 DEF QueueInv
  <2> QED  BY <1>1, <1>4, <2>1
<1>6. \A i \in 1..Len(rep') : rep'[i].ok => Near(rep'[i].from, idx')
  <2>1. ASSUME NEW i \in 1..Len(rep), rep[i].ok
        PROVE  rep[i].from \in Nat /\ Near(rep[i].from, idx) /\ h.from <= rep[i].from
    <3>1. rep[i] \in Replies /\ 1 \in 1..Len(rep) /\ 1 <= i
      BY <1>1, <1>2
    <3>2. rep[i].from \in Nat
      BY <3>1 DEF Replies
    <3>3. rep[1].ok /\ rep[1].from <= rep[i].from /\ Near(rep[i].from, idx)
      BY <1>1, <1>2, <2>1, <3>1 DEF QueueInv
    <3> QED  BY <1>2, <3>2, <3>3
  <2> QED  BY <1>2, <1>4, <2>1
<1>7. \A i, j \in 1..Len(rep') : i <= j => i + 1 <= j + 1
  BY <1>2
<1> QED  BY <1>1, <1>2, <1>5, <1>6, <1>7 DEF QueueInv

LEMMA QueueNext ==
  ASSUME TypeOK, LinkInv, OffsetInv, QueueInv, AnswerInv, [Next]_vars
  PROVE  QueueInv'
<1>1. ASSUME worker' \notin {"loop", "wait", "save"} PROVE QueueInv'
  BY <1>1 DEF QueueInv
<1>2. CASE Serve
  <2>1. Head(req) \in Nat
    BY <1>2 DEF Serve, TypeOK
  <2>2. Answer(Head(req)) \in Replies
        /\ (Answer(Head(req)).ok => Answer(Head(req)).from = Head(req))
    BY <2>1, AnswerType
  <2> QED  BY <1>2, <2>2, AnswerQueued DEF Serve, taskVars
<1>3. CASE ServeStray \/ Expire \/ EditSource \/ UNCHANGED vars
  BY <1>3
  DEF ServeStray, Expire, EditSource, vars, taskVars, linkVars, QueueInv, Near
<1>4. CASE Break
  BY <1>4 DEF Break, CloseLink, taskVars, QueueInv
<1>5. CASE PullTaskStart \/ TakeExit \/ TakeClear \/ AlreadyDone \/ Finish \/ Rename
  BY <1>1, <1>5
  DEF PullTaskStart, CreatePullTask, TakeExit, TakeClear, AlreadyDone, Finish,
      RecordDel, Rename
<1>6. CASE Restart \/ PullTaskDel
  BY <1>1, <1>6 DEF Restart, CreatePullTask, PullTaskDel
<1>7. CASE Dial
  BY <1>7 DEF Dial, LinkInv, QueueInv
<1>8. CASE Ask
  BY <1>8, AskQueued
<1>9. CASE LinkError \/ Timeout \/ Garbled \/ RecvRefusal
  BY <1>1, <1>9, FailShape, RepliesTaken
<1>10. CASE RecvSlice
  BY <1>10, SliceQueued
<1>11. CASE Save
  BY <1>11 DEF Save, linkVars, QueueInv, Near
<1> QED
  BY <1>2, <1>3, <1>4, <1>5, <1>6, <1>7, <1>8, <1>9, <1>10, <1>11
  DEF Next, Work, User, Pusher

(***************************************************************************)
(* The files                                                               *)
(***************************************************************************)
\* A slice of the source, as it travels.
LEMMA SourceSlice ==
  ASSUME NEW a \in Nat, NEW b \in Nat, a <= b, b <= Size
  PROVE  /\ Slice(Source0, a, b) \in Seq(Units)
         /\ Len(Slice(Source0, a, b)) = b - a
         /\ \A k \in 1..(b - a) : Slice(Source0, a, b)[k] = Source0[a + k]
BY SliceType, Constants DEF Size

\* A slice that arrives, late or not, leaves the source's content below the
\* new offset, and lengthens the file only when it was late.
LEMMA SliceWritten ==
  ASSUME Undisturbed, TypeOK, OffsetInv, QueueInv, AnswerInv, RecvSlice,
         tmp # NoFile, Len(tmp) >= Size, SourceUpTo(tmp, idx)
  PROVE  /\ tmp' # NoFile /\ Len(tmp') >= Size /\ SourceUpTo(tmp', idx')
         /\ Head(rep).from = idx /\ Len(tmp) = Size => Len(tmp') = Size
         /\ Len(tmp) < Size + Lenth => Len(tmp') < Size + Lenth
<1> DEFINE h == Head(rep)
           data == Head(rep).data
<1>1. tmp \in Seq(Units) /\ idx \in Nat /\ Len(tmp) \in Nat
  BY DEF TypeOK
<1>2. /\ h.from \in Nat /\ h.next \in Nat /\ data \in Seq(Units)
      /\ h.from <= h.next /\ h.next <= Size
      /\ data = Slice(Source0, h.from, h.next) /\ idx' = h.next /\ idx <= idx'
      /\ h.from = idx \/ (h.from + Lenth = idx /\ idx' = idx)
      /\ idx' <= Size
  <2>1. h \in Replies /\ Genuine(h) /\ h.ok
    BY SliceShape
  <2>2. h.from \in Nat /\ h.next \in Nat /\ data \in Seq(Units)
    BY <2>1 DEF Replies
  <2> QED  BY <2>1, <2>2, SliceShape, Constants DEF Genuine, Lesser
<1>3. /\ Len(data) = h.next - h.from
      /\ \A k \in 1..(h.next - h.from) : data[k] = Source0[h.from + k]
  BY <1>2, SourceSlice
<1>4. tmp' = WriteAt(tmp, idx, data)
  BY DEF RecvSlice, Undisturbed
<1> HIDE DEF data, h
<1>5. /\ tmp' \in Seq(Units) /\ Len(tmp') = Greater(Len(tmp), idx + Len(data))
      /\ \A k \in 1..Len(tmp) : k <= idx => tmp'[k] = tmp[k]
      /\ \A k \in 1..Len(data) : tmp'[idx + k] = data[k]
  <2>1. data \in Seq(Units)
    BY <1>2
  <2>2. /\ WriteAt(tmp, idx, data) \in Seq(Units)
        /\ Len(WriteAt(tmp, idx, data)) = Greater(Len(tmp), idx + Len(data))
        /\ \A k \in 1..Len(tmp) : k <= idx => WriteAt(tmp, idx, data)[k] = tmp[k]
        /\ \A k \in 1..Len(data) : WriteAt(tmp, idx, data)[idx + k] = data[k]
    BY <1>1, <2>1, WriteAtType
  <2> QED  BY <1>4, <2>2
<1>6. /\ Len(tmp') \in Nat /\ Len(tmp') >= Size
      /\ h.from = idx /\ Len(tmp) = Size => Len(tmp') = Size
  BY <1>1, <1>2, <1>3, <1>5, Constants DEF Greater
<1>9. Len(tmp) < Size + Lenth => Len(tmp') < Size + Lenth
  <2>1. idx < Size /\ Len(data) <= Lenth
    <3>1. Genuine(h) /\ h.ok /\ idx < Size
      BY SliceShape DEF h
    <3> QED  BY <1>2, <1>3, <3>1, Constants DEF Genuine, Lesser
  <2> QED  BY <1>1, <1>3, <1>2, <1>5, <2>1, Constants DEF Greater
<1>7. tmp' # NoFile
  BY <1>6, Constants DEF NoFile
<1>8. ASSUME NEW k \in 1..idx'
      PROVE  k <= Len(tmp') /\ tmp'[k] = Source0[k]
  <2>1. k \in Nat /\ k <= Len(tmp')
    BY <1>2, <1>6, Constants
  <2>2. CASE k <= idx
    <3>1. k \in 1..idx /\ k \in 1..Len(tmp)
      BY <1>1, <1>2, <1>8, <2>2, Constants
    <3> QED  BY <1>5, <2>1, <2>2, <3>1 DEF SourceUpTo
  <2>3. CASE k > idx
    <3>1. h.from = idx /\ k - idx \in 1..Len(data) /\ idx + (k - idx) = k
      BY <1>1, <1>2, <1>3, <1>8, <2>3
    <3>2. tmp'[k] = data[k - idx] /\ data[k - idx] = Source0[k]
      BY <1>3, <1>5, <3>1
    <3> QED  BY <2>1, <3>2
  <2> QED  BY <1>1, <2>1, <2>2, <2>3
<1> QED  BY <1>6, <1>7, <1>8, <1>9 DEF SourceUpTo, h

\* CreatePullTask, at the offset of the record or of the task, keeps the
\* source's content below that offset.
LEMMA FileKept ==
  ASSUME TypeOK, FileInv, status # "none", NEW i \in Nat, i <= idx, i <= Size,
         tmp' = Truncate(tmp)
  PROVE  /\ tmp' # NoFile /\ Len(tmp') = Size
         /\ delivered = << >> => SourceUpTo(tmp', i)
<1>1. tmp \in Seq(Units) /\ Len(tmp) \in Nat /\ idx \in Nat
  BY DEF TypeOK
<1>2. /\ tmp' \in Seq(Units) /\ Len(tmp') = Size
      /\ \A k \in 1..Size : k <= Len(tmp) => tmp'[k] = tmp[k]
  BY <1>1, TruncateType
<1>3. tmp' # NoFile
  BY <1>2, Constants DEF NoFile
<1>4. ASSUME delivered = << >>, NEW k \in 1..i
      PROVE  k <= Len(tmp') /\ tmp'[k] = Source0[k]
  <2>1. tmp # NoFile /\ k \in 1..idx /\ k \in 1..Size
    BY <1>1, <1>4, Constants DEF FileInv
  <2>2. k <= Len(tmp) /\ tmp[k] = Source0[k]
    BY <1>4, <2>1 DEF FileInv, SourceUpTo
  <2> QED  BY <1>2, <2>1, <2>2
<1> QED  BY <1>2, <1>3, <1>4 DEF SourceUpTo

LEMMA FileNext ==
  ASSUME Undisturbed, BaseInv, CopyInv, [Next]_vars
  PROVE  FileInv'
<1> USE DEF BaseInv, CopyInv
\* Steps that leave the files and the offset alone.
<1>1. ASSUME tmp' = tmp, delivered' = delivered, outcome' = outcome, idx' = idx,
             status' # "none" => status # "none",
             worker' = worker \/ worker' = "none"
               \/ (worker # "none" /\ worker # "delete" /\ worker' # "delete")
      PROVE  FileInv'
  BY <1>1 DEF FileInv, SourceUpTo
\* Steps that make the task anew, at offset i.
<1>2. ASSUME NEW i \in Nat, i <= idx, i <= Size, status # "none",
             tmp' = Truncate(tmp), idx' = i, worker' = "queued",
             delivered' = delivered, outcome' = outcome
      PROVE  FileInv'
  <2>1. /\ tmp' # NoFile /\ Len(tmp') = Size
        /\ delivered = << >> => SourceUpTo(tmp', i)
    BY <1>2, FileKept
  <2> QED  BY <1>2, <2>1, Constants DEF FileInv, SourceUpTo
<1>3. CASE Serve \/ ServeStray \/ Expire \/ EditSource \/ Break
  BY <1>1, <1>3
  DEF Serve, ServeStray, Expire, EditSource, Break, taskVars, diskVars
<1>4. CASE PullTaskStart
  BY <1>2, <1>4, Constants
  DEF PullTaskStart, CreatePullTask, OffsetInv, TypeOK, Pending, Stopped
<1>5. CASE Restart
  <2>1. /\ db.status # "none" /\ status # "none" /\ db.index \in Nat
        /\ db.index <= idx /\ db.index < Size
    BY <1>5 DEF Restart, OffsetInv, TypeOK
  <2>2. CASE db.status = Running
    BY <1>2, <1>5, <2>1, <2>2, Constants DEF Restart, CreatePullTask
  <2>3. CASE db.status # Running
    <3>1. /\ worker' = "none" /\ idx' = db.index /\ idx' \in Nat /\ idx' <= idx
          /\ tmp' = tmp /\ delivered' = delivered /\ outcome' = outcome
      BY <1>5, <2>1, <2>3 DEF Restart
    <3>2. idx \in Nat
      BY DEF TypeOK
    <3>3. \A k \in 1..idx' : k \in 1..idx
      BY <3>1, <3>2
    <3>4. SourceUpTo(tmp, idx) => SourceUpTo(tmp', idx')
      BY <3>1, <3>3 DEF SourceUpTo
    <3>5. idx = 0 => idx' = 0
      BY <3>1
    <3> QED  BY <2>1, <3>1, <3>4, <3>5 DEF FileInv, SourceUpTo
  <2> QED  BY <2>2, <2>3
<1>6. CASE PullTaskDel \/ TakeClear
  <2>1. Len(<< >>) < Size + Lenth
    <3>1. Len(<< >>) = 0
      OBVIOUS
    <3> QED  BY <3>1, Constants
  <2> QED  BY <1>6, <2>1 DEF NoFile, PullTaskDel, TakeClear, FileInv, SourceUpTo
<1>7. CASE Dial \/ Ask
  BY <1>1, <1>7 DEF Dial, Ask, diskVars
<1>8. CASE TakeExit
  BY <1>1, <1>8 DEF TakeExit, OffsetInv, Running
<1>9. CASE LinkError \/ Timeout \/ Garbled \/ RecvRefusal
  BY <1>1, <1>9, FailShape DEF OffsetInv, Running
<1>10. CASE AlreadyDone
  BY <1>10, Constants DEF AlreadyDone, OffsetInv, Running, TypeOK
<1>11. CASE Finish
  BY <1>11 DEF Finish, RecordDel, FileInv, SourceUpTo
<1>12. CASE RecvSlice
  <2>1. tmp # NoFile /\ delivered = << >> /\ outcome # "complete"
        /\ Len(tmp) >= Size /\ SourceUpTo(tmp, idx) /\ Len(tmp) < Size + Lenth
    BY <1>12, SliceShape DEF RecvSlice, FileInv, RetireInv
  <2>2. /\ worker' \in {"rename", "save"} /\ delivered' = delivered
        /\ outcome' = outcome
    BY <1>12 DEF RecvSlice
  <2>3. /\ tmp' # NoFile /\ Len(tmp') >= Size /\ SourceUpTo(tmp', idx')
        /\ Len(tmp') < Size + Lenth
    BY <1>12, <2>1, SliceWritten
  <2> QED  BY <2>1, <2>2, <2>3 DEF FileInv
<1>13. CASE Save
  BY <1>1, <1>13 DEF Save
<1>14. CASE Rename
  <2>1. /\ delivered = << >> /\ idx = Size /\ SourceUpTo(tmp, Size)
        /\ delivered' = <<tmp>> /\ worker' = "delete" /\ Len(tmp) < Size + Lenth
        /\ tmp' = << >> /\ Len(<< >>) < Size + Lenth
    BY <1>14, Constants DEF Undisturbed, Rename, NoFile, FileInv, OffsetInv, RetireInv
  <2>2. delivered' # << >> /\ \A n \in 1..Len(delivered') : delivered'[n] = tmp
    BY <2>1
  <2>3. \A n \in 1..Len(delivered') :
          SourceUpTo(delivered'[n], Size) /\ Len(delivered'[n]) < Size + Lenth
    BY <2>1, <2>2
  <2> QED  BY <2>1, <2>2, <2>3 DEF FileInv, SourceUpTo
<1>15. CASE UNCHANGED vars
  BY <1>1, <1>15 DEF vars, taskVars, diskVars
<1> QED
  BY <1>3, <1>4, <1>5, <1>6, <1>7, <1>8, <1>9, <1>10, <1>11, <1>12, <1>13,
     <1>14, <1>15
  DEF Next, Work, User, Pusher

(***************************************************************************)
(* The record, and what was asked for                                      *)
(***************************************************************************)
\* The record keeps its offset or moves on, until it is removed for good.
LEMMA IndexNext ==
  ASSUME Undisturbed, BaseInv, CopyInv, [Next]_vars, db'.status # "none"
  PROVE  db.status # "none" /\ status # "none" /\ db'.index >= db.index
<1> USE DEF BaseInv, CopyInv, OffsetInv, Record, Pending, Running, Stopped
<1>1. db.index \in Nat /\ idx \in Nat
  BY DEF TypeOK
<1>2. ASSUME db' = db PROVE db.status # "none" /\ db'.index >= db.index
  BY <1>1, <1>2
<1>3. CASE Serve \/ ServeStray \/ Expire \/ EditSource \/ Break \/ Dial \/ Ask
           \/ RecvSlice \/ Rename \/ UNCHANGED vars
  BY <1>2, <1>3
  DEF Serve, ServeStray, Expire, EditSource, Break, Dial, Ask, RecvSlice, Rename,
      vars, diskVars
<1>4. CASE PullTaskStart
  BY <1>1, <1>4 DEF PullTaskStart, CreatePullTask
<1>5. CASE Restart
  BY <1>1, <1>5 DEF Restart, CreatePullTask
<1>6. CASE PullTaskDel \/ TakeClear \/ AlreadyDone \/ Finish
  BY <1>6 DEF PullTaskDel, TakeClear, AlreadyDone, Finish, RecordDel
<1>7. CASE TakeExit \/ Save
  BY <1>1, <1>7 DEF TakeExit, Save
<1>8. CASE LinkError \/ Timeout \/ Garbled \/ RecvRefusal
  <2>1. CASE db' = db
    BY <1>2, <2>1
  <2>2. CASE db' = Record(Stopped, idx, TRUE)
    BY <1>1, <1>8, <2>2, FailShape
  <2> QED  BY <1>8, <2>1, <2>2, FailShape
<1> QED
  BY <1>3, <1>4, <1>5, <1>6, <1>7, <1>8 DEF Next, Work, User, Pusher

\* An answer that ends the file was asked for less than a slice before its
\* end.
LEMMA LastAnswer ==
  ASSUME TypeOK, OffsetInv, NEW o \in Nat, IsLast(Answer(o))
  PROVE  o + Lenth >= Size
BY AnswerType, Constants DEF OffsetInv, IsLast, Lesser, Size

LEMMA AskedNext ==
  ASSUME Undisturbed, BaseInv, CopyInv, [Next]_vars
  PROVE  AskedInv'
<1> USE DEF BaseInv, CopyInv
<1>1. OffsetInv' /\ TypeOK'
  BY OffsetNext, NextType
<1> SUFFICES ASSUME status' # "none" PROVE AskedInv'
  BY DEF AskedInv
<1>2. /\ db.index \in Nat /\ db'.index \in Nat /\ idx \in Nat
      /\ status # "none" /\ db'.index >= db.index
  BY <1>1, IndexNext DEF OffsetInv, TypeOK
<1>3. /\ \A i \in 1..Len(req) : req[i] \in Nat /\ req[i] <= db'.index
      /\ \A o \in stray : o \in Nat /\ o <= db'.index
      /\ ~PushExpires /\ ~push => db'.index + Lenth >= Size
  <2>1. req \in Seq(Nat) /\ stray \subseteq Nat
    BY DEF TypeOK
  <2>2. \A i \in 1..Len(req) : req[i] \in Nat
    BY <2>1
  <2> QED  BY <1>2, <2>1, <2>2, Constants DEF AskedInv
\* Steps that ask for nothing and leave the push task alone.
<1>4. ASSUME \/ req' = req /\ stray' = stray
             \/ CloseLink,
             push' = push
      PROVE  AskedInv'
  <2>1. CASE CloseLink
    BY <1>3, <1>4, <2>1 DEF CloseLink, AskedInv
  <2> QED  BY <1>3, <1>4, <2>1 DEF AskedInv
<1>5. CASE Serve
  <2>1. /\ req \in Seq(Nat) /\ req # << >> /\ Head(req) = req[1] /\ Len(req) \in Nat
        /\ \A i \in 1..Len(req') : i + 1 \in 1..Len(req) /\ req'[i] = req[i + 1]
    BY <1>5 DEF Serve, TypeOK
  <2>2. stray' = stray /\ push' = (push /\ ~IsLast(Answer(req[1])))
        /\ req[1] \in Nat /\ req[1] <= db'.index
    BY <1>3, <1>5, <2>1 DEF Serve, RetireAfter
  <2>3. ~PushExpires /\ ~push' => db'.index + Lenth >= Size
    <3>1. req[1] \in Nat /\ req[1] <= db'.index
      BY <2>2
    <3>2. CASE IsLast(Answer(req[1]))
      <4>1. req[1] + Lenth >= Size
        BY <3>1, <3>2, LastAnswer
      <4> QED  BY <1>2, <3>1, <4>1, Constants
    <3>3. CASE ~IsLast(Answer(req[1]))
      <4>1. push' = push
        BY <2>2, <3>3 DEF TypeOK
      <4> QED  BY <1>3, <4>1
    <3> QED  BY <3>2, <3>3
  <2> QED  BY <1>3, <2>1, <2>2, <2>3 DEF AskedInv
<1>6. CASE ServeStray
  <2>1. PICK o \in stray : /\ stray' = stray \ {o} /\ req' = req
                           /\ push' = (push /\ ~IsLast(Answer(o)))
    BY <1>6 DEF ServeStray, RetireAfter
  <2>2. ~PushExpires /\ ~push' => db'.index + Lenth >= Size
    <3>1. o \in Nat /\ o <= db'.index
      BY <1>3, <2>1
    <3>2. CASE IsLast(Answer(o))
      <4>1. o + Lenth >= Size
        BY <3>1, <3>2, LastAnswer
      <4> QED  BY <1>2, <3>1, <4>1, Constants
    <3>3. CASE ~IsLast(Answer(o))
      <4>1. push' = push
        BY <2>1, <3>3 DEF TypeOK
      <4> QED  BY <1>3, <4>1
    <3> QED  BY <3>2, <3>3
  <2> QED  BY <1>3, <2>1, <2>2 DEF AskedInv
<1>7. CASE Expire
  BY <1>3, <1>7 DEF Expire, linkVars, AskedInv
<1>8. CASE Ask
  <2>1. /\ req \in Seq(Nat) /\ req' = Append(req, idx) /\ stray' = stray
        /\ push' = push /\ idx = db.index
    BY <1>2, <1>8 DEF Ask, pushVars, TypeOK, OffsetInv
  <2>2. \A i \in 1..Len(req') : \/ i \in 1..Len(req) /\ req'[i] = req[i]
                                \/ req'[i] = idx
    BY <1>2, <2>1
  <2> QED  BY <1>2, <1>3, <2>1, <2>2 DEF AskedInv
<1>9. CASE EditSource \/ PullTaskStart \/ PullTaskDel \/ Dial \/ RecvSlice \/ Save
           \/ Rename \/ UNCHANGED vars
  BY <1>4, <1>9
  DEF EditSource, PullTaskStart, PullTaskDel, Dial, RecvSlice, Save, Rename, vars,
      linkVars, pushVars
<1>10. CASE Break \/ Restart \/ TakeExit \/ TakeClear \/ AlreadyDone \/ Finish
  BY <1>4, <1>10
  DEF Break, Restart, TakeExit, TakeClear, AlreadyDone, Finish, RecordDel, pushVars
<1>11. CASE LinkError \/ Timeout \/ Garbled \/ RecvRefusal
  BY <1>4, <1>11, FailShape
<1> QED
  BY <1>5, <1>6, <1>7, <1>8, <1>9, <1>10, <1>11 DEF Next, Work, User, Pusher

(***************************************************************************)
(* The theorems                                                            *)
(***************************************************************************)
LEMMA CopyInit == Init => CopyInv
<1> SUFFICES ASSUME Init PROVE CopyInv
  OBVIOUS
<1> USE Constants DEF Init, Pending, Running, Record, NoFile
<1>1. OffsetInv
  BY DEF OffsetInv
<1>2. QueueInv /\ AnswerInv /\ AskedInv
  BY DEF QueueInv, AnswerInv, AskedInv
<1>3. FileInv
  BY DEF FileInv
<1> QED  BY <1>1, <1>2, <1>3 DEF CopyInv

LEMMA BaseHolds == Spec => []BaseInv
<1>1. Init => BaseInv
  BY InitType DEF Init, BaseInv, DeliveredOnce, RetireInv, LinkInv, NoFile
<1>2. BaseInv /\ [Next]_vars => BaseInv'
  BY NextType, LinkNext, RetireNext DEF BaseInv
<1> QED  BY <1>1, <1>2, PTL DEF Spec

LEMMA CopyHolds == Spec => [](Undisturbed => CopyInv)
<1>1. BaseInv /\ (Undisturbed => CopyInv) /\ [Next]_vars => (Undisturbed => CopyInv)'
  <2> SUFFICES ASSUME BaseInv, Undisturbed, CopyInv, [Next]_vars PROVE CopyInv'
    BY DEF Undisturbed
  <2>1. OffsetInv' /\ QueueInv' /\ AnswerInv'
    BY OffsetNext, QueueNext, AnswerNext DEF BaseInv, CopyInv
  <2>2. FileInv' /\ AskedInv'
    BY FileNext, AskedNext
  <2> QED  BY <2>1, <2>2 DEF CopyInv
<1> QED  BY <1>1, BaseHolds, CopyInit, PTL DEF Spec

(* Whatever late answers, resets, stops and crashes came before: what lies  *)
(* below the offset the task goes on from, and below the one a restart     *)
(* would, has the content of the source (fileSlicePull writes every reply  *)
(* at FileInfo.Index without asking what it answers).                      *)
THEOREM ResumeIsSafe == Spec => []ResumePointSafe
<1>1. BaseInv /\ (Undisturbed => CopyInv) => ResumePointSafe
  <2> SUFFICES ASSUME BaseInv, CopyInv, delivered = << >>, tmp # NoFile
               PROVE  SourceUpTo(tmp, idx) /\ SourceUpTo(tmp, db.index)
    BY DEF ResumePointSafe
  <2> USE DEF BaseInv, CopyInv
  <2>1. SourceUpTo(tmp, idx)
    BY DEF FileInv
  <2>2. CASE status # "none"
    <3>1. db.index <= idx /\ db.index \in Nat /\ idx \in Nat
      BY <2>2 DEF OffsetInv, TypeOK
    <3>2. \A k \in 1..db.index : k \in 1..idx
      BY <3>1
    <3> QED  BY <2>1, <3>2 DEF SourceUpTo
  <2>3. CASE status = "none"
    <3>1. db.index = 0
      BY <2>3 DEF OffsetInv
    <3>2. SourceUpTo(tmp, 0)
      BY DEF SourceUpTo
    <3> QED  BY <2>1, <3>1, <3>2
  <2> QED  BY <2>2, <2>3
<1> QED  BY <1>1, BaseHolds, CopyHolds, PTL

(* A file that is put in place starts with the whole source, because the    *)
(* offset reaches FileInfo.Size only over bytes of the source, and has less *)
(* than a slice behind it: a stale slice is written below FileInfo.Size.    *)
THEOREM DeliveryHoldsSource == Spec => []DeliveredHoldsSource
<1>1. (Undisturbed => CopyInv) => DeliveredHoldsSource
  BY DEF CopyInv, FileInv, DeliveredHoldsSource
<1> QED  BY <1>1, CopyHolds, PTL

(* FileSlicePush gives up the push task only when the puller's record is    *)
(* within one slice of the end.                                            *)
THEOREM RetiredLate == Spec => []RetiredAtTheEnd
<1>1. (Undisturbed => CopyInv) => RetiredAtTheEnd
  BY DEF CopyInv, OffsetInv, AskedInv, RetiredAtTheEnd
<1> QED  BY <1>1, CopyHolds, PTL

(* A task that left the list as complete has put its file in place, although *)
(* fileSlicePull also says "done" from the offset alone (handers.go:284).   *)
THEOREM CompleteWasDelivered == Spec => []CompleteHasFile
<1>1. (Undisturbed => CopyInv) => CompleteHasFile
  BY DEF CopyInv, FileInv, CompleteHasFile
<1> QED  BY <1>1, CopyHolds, PTL

(* The offset of the record never moves back while the record lives.        *)
THEOREM RecordMovesOn == Spec => ResumeNeverRegresses
<1>1. BaseInv /\ (Undisturbed => CopyInv) /\ [Next]_vars
        => [Undisturbed /\ db'.status # "none" => db'.index >= db.index]_vars
  BY IndexNext
<1> QED  BY <1>1, BaseHolds, CopyHolds, PTL DEF Spec, ResumeNeverRegresses

(***************************************************************************)
(* While no answer is late                                                 *)
(***************************************************************************)
LEMMA TurnNext ==
  ASSUME Undisturbed, BaseInv, CopyInv, TurnInv, [Next]_vars
  PROVE  TurnInv'
<1>0. req \in Seq(Nat) /\ rep \in Seq(Replies)
  BY Zenon DEF BaseInv, TypeOK
<1> USE DEF BaseInv, CopyInv
<1> SUFFICES ASSUME ~late' PROVE TurnInv'
  BY DEF TurnInv
<1>1. ~late /\ ~Timeout /\ ~Garbled
  <2>1. ~Timeout
    BY DEF Timeout
  <2>2. late' = late
    <3>1. CASE Serve \/ ServeStray \/ Expire \/ EditSource \/ Break \/ UNCHANGED vars
      BY <3>1 DEF Serve, ServeStray, Expire, EditSource, Break, vars, history
    <3>2. CASE PullTaskStart \/ Restart \/ PullTaskDel \/ TakeExit \/ TakeClear
      BY <3>2 DEF PullTaskStart, Restart, PullTaskDel, TakeExit, TakeClear, history
    <3>3. CASE Dial \/ AlreadyDone \/ Finish \/ Ask \/ Save \/ Rename \/ RecvSlice
      BY <3>3
      DEF Dial, AlreadyDone, Finish, RecordDel, Ask, Save, Rename, RecvSlice, history
    <3>4. CASE LinkError \/ Garbled \/ RecvRefusal
      BY <3>4 DEF LinkError, Garbled, RecvRefusal
    <3> QED
      BY <2>1, <3>1, <3>2, <3>3, <3>4 DEF Next, Work, User, Pusher
  <2>3. ~late
    BY <2>2, Zenon
  <2>4. ~Garbled
    BY <2>3 DEF Garbled, TurnInv
  <2> QED  BY <2>1, <2>3, <2>4
<1> USE <1>1 DEF TurnInv
\* Steps that leave the connection closed, or as empty as it was.
<1>2. ASSUME CloseLink \/ (UNCHANGED <<link, req, rep>> /\ worker # "wait"),
             delivered' = delivered,
             \/ tmp' = tmp /\ (worker' # "none" => worker # "none")
             \/ tmp' = NoFile \/ Len(tmp') = Size
      PROVE  TurnInv'
  BY <1>2 DEF CloseLink
<1>3. CASE Serve
  <2> DEFINE r == Answer(Head(req))
  <2>1. /\ Len(req) = 1 /\ Head(req) = req[1] /\ req[1] \in Nat /\ req[1] = idx
        /\ rep = << >> /\ worker = "wait" /\ link # "torn"
    BY <1>3 DEF Serve, TypeOK
  <2>2. r \in Replies /\ (r.ok => r.from = idx)
    BY <2>1, AnswerType
  <2>3. /\ req' = << >> /\ rep' = Append(rep, r) /\ link' = link /\ idx' = idx
        /\ worker' = worker /\ tmp' = tmp /\ delivered' = delivered
    <3>1. /\ req' = Tail(req) /\ rep' = Append(rep, r) /\ link' = link /\ idx' = idx
          /\ worker' = worker /\ tmp' = tmp /\ delivered' = delivered
      BY <1>3, <2>1, Zenon DEF Serve, taskVars, diskVars
    <3>2. Tail(req) = << >>
      BY <1>0, <2>1, TailOfOne, Zenon
    <3> QED  BY <3>1, <3>2, Zenon
  <2> HIDE DEF r
  <2>4. rep' = <<r>>
    BY <2>1, <2>3
  <2> QED  BY <2>1, <2>2, <2>3, <2>4
<1>4. CASE ServeStray \/ Expire \/ EditSource \/ UNCHANGED vars
  BY <1>4
  DEF ServeStray, Expire, EditSource, vars, taskVars, diskVars, linkVars
<1>5. CASE Break
  BY <1>2, <1>5 DEF Break, taskVars, diskVars
<1>6. CASE PullTaskStart
  <2>1. Len(tmp') = Size
    BY <1>6, TruncateType DEF PullTaskStart, CreatePullTask, TypeOK
  <2> QED  BY <1>2, <1>6, <2>1 DEF PullTaskStart, linkVars
<1>7. CASE Restart
  <2>1. (tmp' = tmp /\ worker' = "none") \/ Len(tmp') = Size
    BY <1>7, TruncateType DEF Restart, CreatePullTask, TypeOK
  <2> QED  BY <1>2, <1>7, <2>1 DEF Restart
<1>8. CASE PullTaskDel \/ TakeExit \/ TakeClear \/ AlreadyDone \/ Finish
  BY <1>2, <1>8
  DEF PullTaskDel, TakeExit, TakeClear, AlreadyDone, Finish, RecordDel, linkVars
<1>9. CASE Dial
  BY <1>9 DEF Dial, LinkInv, diskVars
<1>10. CASE Ask
  <2>1. /\ req = << >> /\ req' = <<idx>> /\ rep' = << >> /\ link' = link
        /\ worker' = "wait" /\ idx' = idx
    BY <1>10 DEF Ask, TypeOK
  <2> QED  BY <1>10, <2>1 DEF Ask, diskVars
<1>11. CASE LinkError \/ RecvRefusal
  <2>1. /\ UNCHANGED <<idx, tmp, delivered>> /\ worker # "none"
        /\ worker' # "wait"
        /\ \/ CloseLink
           \/ link' = link /\ req' = << >> /\ rep' = << >>
    <3>1. CASE LinkError
      BY <3>1 DEF LinkError, Fail, Retry, GiveUp, LinkInv
    <3>2. CASE RecvRefusal
      <4>1. req = << >> /\ Tail(rep) = << >>
        BY <3>2 DEF RecvRefusal, TypeOK
      <4> QED  BY <3>2, <4>1 DEF RecvRefusal, Fail, Retry, GiveUp
    <3> QED  BY <1>11, <3>1, <3>2
  <2> QED  BY <1>2, <2>1
<1>12. CASE RecvSlice
  <2>1. req = << >> /\ rep' = << >> /\ req' = req /\ link' = link
        /\ delivered' = delivered /\ Head(rep).from = idx
    BY <1>12, SliceShape DEF RecvSlice, TypeOK
  <2>2. /\ tmp # NoFile /\ delivered = << >> /\ Len(tmp) = Size
        /\ Len(tmp) >= Size /\ SourceUpTo(tmp, idx)
    BY <1>12, SliceShape DEF RecvSlice, FileInv, RetireInv
  <2>3. Len(tmp') = Size
    BY <1>12, <2>1, <2>2, SliceWritten
  <2> QED  BY <1>12, <2>1, <2>2, <2>3
<1>13. CASE Save
  BY <1>2, <1>13 DEF Save, linkVars
<1>14. CASE Rename
  <2>1. /\ delivered' = <<tmp>> /\ Len(tmp) = Size /\ tmp' = NoFile
        /\ UNCHANGED <<link, req, rep, idx>> /\ worker = "rename"
    BY <1>14 DEF Undisturbed, Rename, linkVars, FileInv, RetireInv
  <2> QED  BY <2>1
<1> QED
  BY <1>1, <1>3, <1>4, <1>5, <1>6, <1>7, <1>8, <1>9, <1>10, <1>11, <1>12, <1>13,
     <1>14
  DEF Next, Work, User, Pusher

(* As long as no answer misses its deadline the delivered file is the source *)
(* to the byte, whatever resets, stops and crashes there were.              *)
THEOREM ExactCopy == Spec => []ExactWhenNeverLate
<1>1. Init => TurnInv
  BY DEF Init, TurnInv, NoFile
<1>2. BaseInv /\ (Undisturbed => CopyInv) /\ (Undisturbed => TurnInv) /\ [Next]_vars
        => (Undisturbed => TurnInv)'
  BY TurnNext DEF Undisturbed
<1>3. BaseInv /\ (Undisturbed => CopyInv) /\ (Undisturbed => TurnInv)
        => ExactWhenNeverLate
  <2> SUFFICES ASSUME BaseInv, CopyInv, TurnInv, ~late, NEW n \in 1..Len(delivered)
               PROVE  delivered[n] = Source0
    BY DEF ExactWhenNeverLate
  <2>1. delivered[n] \in Seq(Units) /\ Len(delivered[n]) = Len(Source0)
    BY DEF BaseInv, TypeOK, TurnInv, Size
  <2>2. \A k \in 1..Len(Source0) : delivered[n][k] = Source0[k]
    BY DEF CopyInv, FileInv, SourceUpTo, Size
  <2> QED  BY <2>1, <2>2, Constants
<1> QED  BY <1>1, <1>2, <1>3, BaseHolds, CopyHolds, PTL DEF Spec

(***************************************************************************)
(* Every round costs something                                             *)
(***************************************************************************)
LEMMA PositionsFinite ==
  ASSUME NEW n \in Nat, NEW S \in SUBSET (1..n)
  PROVE  IsFiniteSet(S) /\ Cardinality(S) \in Nat
<1>1. IsFiniteSet(1..n)
  BY FS_Interval
<1> QED  BY <1>1, FS_Subset, FS_CardinalityType

\* Positions of a queue whose first element goes.
LEMMA TailCount ==
  ASSUME NEW n \in Nat \ {0}, NEW S \in SUBSET (1..n), NEW T \in SUBSET (1..(n - 1)),
         \A i \in 1..(n - 1) : i \in T <=> i + 1 \in S
  PROVE  /\ Cardinality(T) \in Nat /\ Cardinality(S) \in Nat
         /\ 1 \in S => Cardinality(S) = Cardinality(T) + 1
         /\ 1 \notin S => Cardinality(S) = Cardinality(T)
<1> DEFINE R == S \ {1}
           f == [i \in T |-> i + 1]
<1>1. IsFiniteSet(S) /\ IsFiniteSet(T)
  BY PositionsFinite
<1>2. \A j \in R : j - 1 \in T /\ (j - 1) + 1 = j
  OBVIOUS
<1>3. f \in [T -> R]
  OBVIOUS
<1>4. \A i, j \in T : f[i] = f[j] => i = j
  OBVIOUS
<1>5. \A j \in R : \E i \in T : f[i] = j
  <2> TAKE j \in R
  <2>1. j - 1 \in T /\ f[j - 1] = j
    BY <1>2
  <2> QED BY <2>1
<1>6. f \in Bijection(T, R)
  BY <1>3, <1>4, <1>5, Fun_IsBij
<1>7. Cardinality(R) = Cardinality(T)
  BY <1>1, <1>6, FS_Bijection DEF ExistsBijection
<1>8. /\ 1 \in S => Cardinality(R) = Cardinality(S) - 1
      /\ 1 \notin S => R = S
  BY <1>1, FS_RemoveElement
<1>9. Cardinality(S) \in Nat /\ Cardinality(T) \in Nat
  BY <1>1, FS_CardinalityType
<1> HIDE DEF R
<1>10. 1 \notin S => Cardinality(S) = Cardinality(T)
  BY <1>7, <1>8
<1>11. 1 \in S => Cardinality(S) = Cardinality(T) + 1
  BY <1>7, <1>8, <1>9
<1> QED  BY <1>9, <1>10, <1>11

\* Positions of a queue that grows by an element at its end.
LEMMA AppendCount ==
  ASSUME NEW n \in Nat, NEW S \in SUBSET (1..n), NEW T \in SUBSET (1..(n + 1)),
         \A i \in 1..n : i \in T <=> i \in S
  PROVE  /\ Cardinality(T) \in Nat /\ Cardinality(S) \in Nat
         /\ n + 1 \in T => Cardinality(T) = Cardinality(S) + 1
         /\ n + 1 \notin T => T = S
<1>1. IsFiniteSet(S)
  BY PositionsFinite
<1>0. n + 1 \notin S /\ \A x : x \in T <=> x \in S \/ (x = n + 1 /\ n + 1 \in T)
  <2>1. \A x \in 1..(n + 1) : x \in 1..n \/ x = n + 1
    OBVIOUS
  <2>2. n + 1 \notin 1..n /\ 1..n \subseteq 1..(n + 1)
    OBVIOUS
  <2> QED  BY <2>1, <2>2, Zenon
<1>2. ASSUME n + 1 \in T PROVE T = S \cup {n + 1} /\ n + 1 \notin S
  <2>1. \A x : x \in T <=> x \in S \cup {n + 1}
    BY <1>0, <1>2
  <2> QED  BY <1>0, <2>1, Zenon
<1>3. n + 1 \notin T => T = S
  BY <1>0, Zenon
<1>4. n + 1 \in T => Cardinality(T) = Cardinality(S) + 1
  BY <1>1, <1>2, FS_AddElement
<1>5. Cardinality(S) \in Nat
  BY <1>1, FS_CardinalityType
<1> QED  BY <1>3, <1>4, <1>5

\* What is under way for another offset than the task's.
StaleReq == {i \in 1..Len(req) : req[i] # idx}
StaleRep == {i \in 1..Len(rep) : rep[i].ok /\ rep[i].from # idx}

LEMMA StaleType ==
  ASSUME TypeOK
  PROVE  /\ Stale = Cardinality(StaleReq) + Cardinality(StaleRep)
         /\ Cardinality(StaleReq) \in Nat /\ Cardinality(StaleRep) \in Nat
         /\ Len(req) \in Nat /\ Len(rep) \in Nat
<1>1. Len(req) \in Nat /\ Len(rep) \in Nat
  BY DEF TypeOK
<1>2. StaleReq \in SUBSET (1..Len(req)) /\ StaleRep \in SUBSET (1..Len(rep))
  BY DEF StaleReq, StaleRep
<1>3. Stale = Cardinality(StaleReq) + Cardinality(StaleRep)
  BY DEF Stale, StaleReq, StaleRep
<1> QED  BY <1>1, <1>2, <1>3, PositionsFinite

LEMMA StaleTypeNext ==
  ASSUME TypeOK'
  PROVE  /\ Stale' = Cardinality(StaleReq') + Cardinality(StaleRep')
         /\ Cardinality(StaleReq') \in Nat /\ Cardinality(StaleRep') \in Nat
         /\ Len(req') \in Nat /\ Len(rep') \in Nat
<1>1. Len(req') \in Nat /\ Len(rep') \in Nat
  BY DEF TypeOK
<1>2. StaleReq' \in SUBSET (1..Len(req')) /\ StaleRep' \in SUBSET (1..Len(rep'))
  BY DEF StaleReq, StaleRep
<1>3. Stale' = Cardinality(StaleReq') + Cardinality(StaleRep')
  BY DEF Stale, StaleReq, StaleRep
<1> QED  BY <1>1, <1>2, <1>3, PositionsFinite

\* A request that is served becomes one reply, no staler than it was.
LEMMA ServeWaits ==
  ASSUME TypeOK, TypeOK', Serve
  PROVE  Waits
<1>1. /\ req # << >> /\ req' = Tail(req) /\ UNCHANGED <<worker, errnum, idx>>
      /\ rep' = Append(rep, Answer(Head(req)))
  BY DEF Serve, taskVars
<1>2. /\ Len(req) \in Nat \ {0} /\ Len(req') = Len(req) - 1 /\ Head(req) = req[1]
      /\ Head(req) \in Nat /\ \A i \in 1..(Len(req) - 1) : req'[i] = req[i + 1]
  BY <1>1, TailShorter DEF TypeOK
<1>3. /\ 1 \in StaleReq => Cardinality(StaleReq) = Cardinality(StaleReq') + 1
      /\ 1 \notin StaleReq => Cardinality(StaleReq) = Cardinality(StaleReq')
  <2>1. PICK n \in Nat \ {0} : n = Len(req)
    BY <1>2
  <2>2. StaleReq \in SUBSET (1..n) /\ StaleReq' \in SUBSET (1..(n - 1))
    BY <1>2, <2>1 DEF StaleReq
  <2>3. \A i \in 1..(n - 1) : i \in StaleReq' <=> i + 1 \in StaleReq
    BY <1>1, <1>2, <2>1 DEF StaleReq
  <2> QED  BY <2>2, <2>3, TailCount
<1>4. \/ Cardinality(StaleRep') = Cardinality(StaleRep)
      \/ 1 \in StaleReq /\ Cardinality(StaleRep') = Cardinality(StaleRep) + 1
  <2> DEFINE r == Answer(Head(req))
  <2>1. r \in Replies /\ (r.ok => r.from = req[1])
    BY <1>2, AnswerType
  <2> HIDE DEF r
  <2>2. /\ Len(rep) \in Nat /\ Len(rep') = Len(rep) + 1 /\ rep'[Len(rep) + 1] = r
        /\ \A i \in 1..Len(rep) : rep'[i] = rep[i]
    BY <1>1, <2>1 DEF TypeOK, r
  <2>3. StaleRep \in SUBSET (1..Len(rep)) /\ StaleRep' \in SUBSET (1..(Len(rep) + 1))
    BY <2>2 DEF StaleRep
  <2>4. \A i \in 1..Len(rep) : i \in StaleRep' <=> i \in StaleRep
    BY <1>1, <2>2 DEF StaleRep
  <2>5. Len(rep) + 1 \in StaleRep' => 1 \in StaleReq
    <3>1. Len(rep) + 1 \in StaleRep' => r.ok /\ r.from # idx
      BY <1>1, <2>2 DEF StaleRep
    <3>2. req[1] # idx => 1 \in StaleReq
      BY <1>2 DEF StaleReq
    <3> QED  BY <2>1, <3>1, <3>2
  <2> QED  BY <2>2, <2>3, <2>4, <2>5, AppendCount
<1>5. Stale' <= Stale
  <2>1. /\ Stale = Cardinality(StaleReq) + Cardinality(StaleRep)
        /\ Stale' = Cardinality(StaleReq') + Cardinality(StaleRep')
        /\ Cardinality(StaleReq) \in Nat /\ Cardinality(StaleRep) \in Nat
        /\ Cardinality(StaleReq') \in Nat /\ Cardinality(StaleRep') \in Nat
    BY StaleType, StaleTypeNext
  <2> QED  BY <1>3, <1>4, <2>1
<1> QED  BY <1>1, <1>5 DEF Waits

\* The other steps that leave the worker in its loop take nothing back.
LEMMA OthersWait ==
  ASSUME TypeOK, TypeOK', Next, Looping, Looping', ~Work
  PROVE  Waits
<1>1. CASE Serve
  BY <1>1, ServeWaits
<1>2. CASE ServeStray \/ Expire \/ EditSource
  <2>1. UNCHANGED <<worker, errnum, idx, req, rep>>
    BY <1>2 DEF ServeStray, Expire, EditSource, taskVars, linkVars
  <2>2. Stale' = Stale
    BY <2>1 DEF Stale
  <2> QED  BY <2>1, <2>2, StaleType DEF Waits
<1>3. CASE Break
  <2>1. UNCHANGED <<worker, errnum, idx>> /\ req' = << >> /\ rep' = << >>
    BY <1>3 DEF Break, CloseLink, taskVars
  <2>2. StaleReq' = {} /\ StaleRep' = {}
    BY <2>1 DEF StaleReq, StaleRep
  <2>3. Stale' = 0
    BY <2>2, StaleTypeNext, FS_EmptySet
  <2> QED  BY <2>1, <2>3, StaleType DEF Waits
<1>4. CASE User \/ Restart
  BY <1>4 DEF User, PullTaskStart, PullTaskDel, TakeExit, TakeClear, CreatePullTask,
              Restart, Looping
<1> QED  BY <1>1, <1>2, <1>3, <1>4 DEF Next, Pusher

\* A slice moves the offset on, or answers an offset that is past.
LEMMA SlicePays ==
  ASSUME TypeOK, TypeOK', CopyInv, RecvSlice
  PROVE  Pays
<1>1. /\ Head(rep) = rep[1] /\ Len(rep) \in Nat \ {0} /\ Len(Tail(rep)) = Len(rep) - 1
      /\ \A i \in 1..Len(Tail(rep)) : Tail(rep)[i] = rep[i + 1]
      /\ Head(rep).ok /\ idx < Size /\ idx \in Nat /\ Head(rep).from \in Nat
      /\ \/ Head(rep).from = idx /\ idx' = Lesser(idx + Lenth, Size)
         \/ Head(rep).from + Lenth = idx /\ idx' = idx
  BY SliceShape DEF CopyInv, TypeOK, Replies
<1>2. UNCHANGED <<errnum, req>> /\ rep' = Tail(rep)
  BY DEF RecvSlice
<1>3. CASE idx' = Lesser(idx + Lenth, Size)
  <2>1. idx' > idx
    BY <1>1, <1>3, Constants DEF Lesser
  <2> QED  BY <1>2, <2>1 DEF Pays
<1>4. CASE Head(rep).from + Lenth = idx /\ idx' = idx
  <2>1. 1 \in StaleRep
    BY <1>1, <1>4, Constants DEF StaleRep
  <2>0. PICK n \in Nat \ {0} : n = Len(rep)
    BY <1>1
  <2>2. StaleRep \in SUBSET (1..n) /\ StaleRep' \in SUBSET (1..(n - 1))
    BY <1>1, <1>2, <2>0 DEF StaleRep
  <2>3. \A i \in 1..(n - 1) : i \in StaleRep' <=> i + 1 \in StaleRep
    BY <1>1, <1>2, <1>4, <2>0 DEF StaleRep
  <2>4. Cardinality(StaleRep) = Cardinality(StaleRep') + 1
    BY <2>1, <2>2, <2>3, TailCount
  <2>5. StaleReq' = StaleReq
    BY <1>2, <1>4 DEF StaleReq
  <2>6. Stale' < Stale
    BY <2>4, <2>5, StaleType, StaleTypeNext
  <2> QED  BY <1>2, <1>4, <2>6 DEF Pays
<1> QED  BY <1>1, <1>3, <1>4

LEMMA WorkPays ==
  ASSUME TypeOK, TypeOK', CopyInv, Work, Looping, Looping'
  PROVE  Pays
<1>1. CASE Dial \/ AlreadyDone \/ Finish
  BY <1>1 DEF Dial, AlreadyDone, Finish, RecordDel, Looping
<1>2. CASE LinkError \/ Timeout \/ Garbled \/ RecvRefusal
  <2>1. errnum' = errnum + 1
    BY <1>2, FailCounted DEF Looping
  <2> QED  BY <2>1 DEF Pays, TypeOK
<1>3. CASE RecvSlice
  BY <1>3, SlicePays
<1>4. CASE Save \/ Rename
  <2>1. UNCHANGED <<errnum, idx, req, rep>> /\ Stale' = Stale
    BY <1>4 DEF Save, Rename, linkVars, Stale
  <2>2. StepsLeft' < StepsLeft
    <3>1. CASE Save
      BY <3>1 DEF Save, StepsLeft
    <3>2. CASE Rename
      <4>1. worker = "rename" /\ worker' = "delete"
        BY <3>2 DEF Rename
      <4>2. StepsLeft = 1 /\ StepsLeft' = 0
        BY <4>1, Zenon DEF StepsLeft
      <4> QED  BY <4>2
    <3> QED  BY <1>4, <3>1, <3>2
  <2> QED  BY <2>1, <2>2 DEF Pays
<1>5. CASE Ask
  <2>1. UNCHANGED <<errnum, idx, rep>> /\ req' = Append(req, idx)
    BY <1>5 DEF Ask
  <2>2. /\ Len(req) \in Nat /\ Len(req') = Len(req) + 1 /\ req'[Len(req) + 1] = idx
        /\ \A i \in 1..Len(req) : req'[i] = req[i]
    BY <2>1 DEF TypeOK
  <2>3. StaleReq \in SUBSET (1..Len(req)) /\ StaleReq' \in SUBSET (1..(Len(req) + 1))
    BY <2>2 DEF StaleReq
  <2>4. \A i \in 1..Len(req) : i \in StaleReq' <=> i \in StaleReq
    BY <2>1, <2>2 DEF StaleReq
  <2>5. Len(req) + 1 \notin StaleReq'
    BY <2>1, <2>2 DEF StaleReq
  <2>6. StaleReq' = StaleReq /\ StaleRep' = StaleRep
    BY <2>1, <2>2, <2>3, <2>4, <2>5, AppendCount DEF StaleRep
  <2>7. Stale' = Stale
    BY <2>6, StaleType, StaleTypeNext
  <2>8. StepsLeft' < StepsLeft
    BY <1>5 DEF Ask, StepsLeft
  <2> QED  BY <2>1, <2>7, <2>8 DEF Pays
<1> QED  BY <1>1, <1>2, <1>3, <1>4, <1>5 DEF Work

(* No round of the worker is in vain and nobody undoes what it brought,      *)
(* whatever late answers are still under way: with OwedIsBounded, the part  *)
(* of "the worker stops" that does not need fairness.                       *)
THEOREM EveryRoundPays == Spec => RoundsPay
<1>1. BaseInv /\ BaseInv' /\ (Undisturbed => CopyInv) /\ [Next]_vars
        => [Undisturbed /\ Looping /\ Looping' => IF Work THEN Pays ELSE Waits]_vars
  BY WorkPays, OthersWait DEF BaseInv
<1> QED  BY <1>1, BaseHolds, CopyHolds, PTL DEF Spec, RoundsPay
=============================================================================
