------------------------ MODULE ResumableCopyProofs ------------------------
(***************************************************************************)
(* The download of an undisturbed file implements ResumableCopy, for every *)
(* slice length, source and retry budget. The steps that save the record   *)
(* with a new offset map to Advance, the rename to Place, the removals of  *)
(* the record to Finish and Delete, and all others to stutters.            *)
(***************************************************************************)
EXTENDS SliceCopyProofs

\* What a save will record, how far a rename left the record, and that the
\* record is gone exactly when the history says how.
PointInv ==
  /\ worker = "save" => idx \in {db.index, db.index + Lenth}
  /\ worker = "rename" => db.index + Lenth >= Size
  /\ outcome = "open" <=> db.status # "none"

LEMMA PointNext ==
  ASSUME Undisturbed, BaseInv, CopyInv, PointInv, [Next]_vars
  PROVE  PointInv'
<1> USE DEF PointInv, Record, Pending, Running, Stopped
<1>0. OffsetInv /\ TypeOK /\ QueueInv /\ AnswerInv
  BY DEF CopyInv, BaseInv
<1>1. CASE Serve \/ ServeStray \/ Expire \/ EditSource \/ Break \/ UNCHANGED vars
  BY <1>1 DEF Serve, ServeStray, Expire, EditSource, Break, vars, taskVars, diskVars
<1>2. CASE PullTaskStart
  BY <1>0, <1>2 DEF PullTaskStart, CreatePullTask, OffsetInv
<1>3. CASE Restart
  BY <1>3 DEF Restart, CreatePullTask
<1>4. CASE PullTaskDel \/ TakeClear
  BY <1>4 DEF PullTaskDel, TakeClear
<1>5. CASE Dial \/ Ask
  BY <1>5 DEF Dial, Ask, diskVars
<1>6. CASE TakeExit
  BY <1>0, <1>6 DEF TakeExit, OffsetInv
<1>7. CASE AlreadyDone \/ Finish
  BY <1>7 DEF AlreadyDone, Finish, RecordDel
<1>8. CASE LinkError \/ Timeout \/ Garbled \/ RecvRefusal
  BY <1>0, <1>8, FailShape DEF OffsetInv
<1>9. CASE RecvSlice
  <2>1. /\ idx = db.index /\ idx < Size /\ idx' <= Size /\ (Complete(Head(rep)) <=> idx' = Size)
        /\ idx' = Lesser(idx + Lenth, Size) \/ idx' = idx
    BY <1>0, <1>9, SliceShape
  <2>2. /\ UNCHANGED <<db, outcome>>
        /\ worker' = IF Complete(Head(rep)) THEN "rename" ELSE "save"
    BY <1>9 DEF RecvSlice
  <2>3. idx \in Nat /\ Size \in Nat /\ Lenth \in Nat
    BY <1>0, Constants DEF TypeOK
  <2> QED BY <2>1, <2>2, <2>3 DEF Lesser
<1>10. CASE Save
  BY <1>0, <1>10 DEF Save, OffsetInv
<1>11. CASE Rename
  BY <1>11 DEF Rename
<1> QED
  BY <1>1, <1>2, <1>3, <1>4, <1>5, <1>6, <1>7, <1>8, <1>9, <1>10, <1>11
  DEF Next, Work, User, Pusher

\* Every step of the download is a step of the copy, or changes neither the
\* record's offset nor the files put in place.
LEMMA CopyStep ==
  ASSUME Undisturbed, BaseInv, BaseInv', CopyInv, CopyInv', PointInv, [Next]_vars
  PROVE  [Copy!Next]_(Copy!vars)
<1> USE DEF PointInv, Record, Pending, Running, Stopped, Copy!vars
<1>0. OffsetInv /\ TypeOK /\ FileInv /\ RetireInv
  BY DEF CopyInv, BaseInv
<1> DEFINE Still == UNCHANGED <<outcome, db.index, delivered>>
<1>1. CASE Serve \/ ServeStray \/ Expire \/ EditSource \/ Break \/ UNCHANGED vars
           \/ Dial \/ Ask \/ RecvSlice
  <2>1. Still
    BY <1>1 DEF Serve, ServeStray, Expire, EditSource, Break, Dial, Ask, RecvSlice, vars, diskVars
  <2> QED BY <2>1
<1>2. CASE PullTaskStart \/ Restart \/ TakeExit
  <2>1. Still
    BY <1>0, <1>2 DEF PullTaskStart, Restart, TakeExit, CreatePullTask, OffsetInv
  <2> QED BY <2>1
<1>3. CASE LinkError \/ Timeout \/ Garbled \/ RecvRefusal
  <2>1. Still
    BY <1>0, <1>3, FailShape DEF OffsetInv
  <2> QED BY <2>1
<1>4. CASE PullTaskDel \/ TakeClear
  <2>1. Copy!Delete
    BY <1>0, <1>4 DEF PullTaskDel, TakeClear, OffsetInv, Copy!Delete, Copy!Leave
  <2> QED BY <2>1 DEF Copy!Next
<1>5. CASE AlreadyDone
  <2>1. idx = db.index /\ db.index < Size
    BY <1>0, <1>5 DEF AlreadyDone, OffsetInv
  <2> QED BY <1>0, <1>5, <2>1, Constants DEF AlreadyDone, TypeOK
<1>6. CASE Finish
  <2>1. Copy!Finish
    BY <1>0, <1>6 DEF Finish, RecordDel, OffsetInv, FileInv, Copy!Finish, Copy!Leave
  <2> QED BY <2>1 DEF Copy!Next
<1>7. CASE Save
  <2>1. /\ worker = "save" /\ db'.index = idx /\ status = Running
        /\ UNCHANGED <<outcome, delivered>>
    BY <1>0, <1>7 DEF Save, OffsetInv
  <2>2. CASE idx = db.index
    BY <2>1, <2>2
  <2>3. CASE idx = db.index + Lenth
    <3>1. outcome = "open" /\ idx < Size
      BY <1>0, <2>1 DEF OffsetInv
    <3>2. Copy!Advance
      BY <2>1, <2>3, <3>1 DEF Copy!Advance, Size
    <3> QED BY <3>2 DEF Copy!Next
  <2> QED BY <2>1, <2>2, <2>3
<1>8. CASE Rename
  <2>1. /\ outcome = "open" /\ delivered = << >> /\ db.index + Lenth >= Size
        /\ delivered' = <<tmp>> /\ UNCHANGED <<outcome, db>>
    BY <1>0, <1>8 DEF Undisturbed, Rename, OffsetInv, RetireInv
  <2>2. delivered' \in Seq(Seq(Units)) /\ Len(delivered') = 1
    BY <2>1 DEF BaseInv, TypeOK
  <2>3. SourceUpTo(delivered'[1], Size) /\ Len(delivered'[1]) < Size + Lenth
    BY <2>2 DEF CopyInv, FileInv
  <2>4. Copy!Place
    BY <2>1, <2>2, <2>3 DEF Copy!Place, Copy!Holds, SourceUpTo, Size
  <2> QED BY <2>4 DEF Copy!Next
<1> QED
  BY <1>1, <1>2, <1>3, <1>4, <1>5, <1>6, <1>7, <1>8 DEF Next, Work, User, Pusher

(* Seen through its record and the files it puts in place, a download of a   *)
(* file nobody edits is a resumable copy: timeouts, late answers, resets,   *)
(* stops and crashes show only as steps that are not taken.                 *)
THEOREM DownloadIsResumableCopy ==
  ASSUME Undisturbed
  PROVE  Spec => IsResumableCopy
<1>1. Init => PointInv /\ Copy!Init
  BY DEF Init, PointInv, Record, Pending, Copy!Init
<1>2. (Undisturbed => CopyInv) => CopyInv
  OBVIOUS
<1>3. BaseInv /\ CopyInv /\ PointInv /\ [Next]_vars => PointInv'
  BY PointNext
<1>4. BaseInv /\ BaseInv' /\ CopyInv /\ CopyInv' /\ PointInv /\ [Next]_vars
        => [Copy!Next]_(Copy!vars)
  BY CopyStep
<1> QED BY <1>1, <1>2, <1>3, <1>4, BaseHolds, CopyHolds, PTL DEF Spec, IsResumableCopy, Copy!Spec
=============================================================================
