------------------------ MODULE SliceTransferProofs ------------------------
(***************************************************************************)
(* Proofs about SliceTransfer, for every slice length, file, retry budget  *)
(* and number of restarts.                                                 *)
(***************************************************************************)
EXTENDS SliceTransfer, TLAPS

(***************************************************************************)
(* The inductive invariants                                                *)
(***************************************************************************)
\* A goroutine that is not in its loop holds no connection, and a closed
\* connection holds nothing.
LinkInv ==
  /\ worker \in {"none", "queued"} => link = "down"
  /\ link = "down" => req = << >> /\ rep = << >>

\* Once the last slice is read for a reply the push task is gone for good, so
\* no further slice can follow a delivery.
RetireInv ==
  /\ (\E i \in 1..Len(rep) : IsLast(rep[i])) => ~push
  /\ worker = "rename" => delivered = << >>
  /\ worker \in {"rename", "delete"} \/ delivered # << >> => ~push
  /\ delivered # << >> /\ worker # "delete" =>
       \A i \in 1..Len(rep) : ~rep[i].ok

(***************************************************************************)
(* Files and answers                                                       *)
(***************************************************************************)
\* A slice that lies within a file is a file of the slice's length.
LEMMA SliceType ==
  ASSUME NEW f \in Seq(Units), NEW a \in Nat, NEW b \in Nat,
         a <= b, b <= Len(f)
  PROVE  /\ Slice(f, a, b) \in Seq(Units)
         /\ Len(Slice(f, a, b)) = b - a
         /\ \A k \in 1..(b - a) : Slice(f, a, b)[k] = f[a + k]
BY DEF Slice

\* What is left of a queue when its first n elements are gone.
LEMMA SuffixShape ==
  ASSUME NEW S, NEW q \in Seq(S), NEW n \in 0..Len(q)
  PROVE  /\ Slice(q, n, Len(q)) \in Seq(S)
         /\ Len(Slice(q, n, Len(q))) = Len(q) - n
         /\ \A i \in 1..(Len(q) - n) : Slice(q, n, Len(q))[i] = q[n + i]
BY DEF Slice

\* Truncate yields a file of the expected size that keeps what it can.
LEMMA TruncateType ==
  ASSUME NEW f \in Seq(Units)
  PROVE  /\ Truncate(f) \in Seq(Units)
         /\ Len(Truncate(f)) = Size
         /\ \A k \in 1..Size : k <= Len(f) => Truncate(f)[k] = f[k]
<1> Hole \in Units /\ Size \in Nat
  BY ConstantsOK DEF Size
<1> QED  BY DEF Truncate

\* Writing a slice keeps what lies below it and lengthens at most to its end.
LEMMA WriteAtType ==
  ASSUME NEW f \in Seq(Units), NEW at \in Nat, NEW data \in Seq(Units)
  PROVE  /\ WriteAt(f, at, data) \in Seq(Units)
         /\ Len(WriteAt(f, at, data)) = Greater(Len(f), at + Len(data))
         /\ \A k \in 1..Len(f) : k <= at => WriteAt(f, at, data)[k] = f[k]
         /\ \A k \in 1..Len(data) : WriteAt(f, at, data)[at + k] = data[k]
<1> DEFINE n == Greater(Len(f), at + Len(data))
<1>1. n \in Nat /\ n >= Len(f) /\ n >= at + Len(data)
  BY DEF Greater
<1>2. Hole \in Units
  BY ConstantsOK
<1>3. \A k \in 1..n : k > at /\ k <= at + Len(data) => k - at \in 1..Len(data)
  OBVIOUS
<1> HIDE DEF n
<1>4. WriteAt(f, at, data) =
        [k \in 1..n |-> IF k > at /\ k <= at + Len(data) THEN data[k - at]
                        ELSE IF k <= Len(f) THEN f[k] ELSE Hole]
  BY DEF WriteAt, n
<1>5. WriteAt(f, at, data) \in Seq(Units) /\ Len(WriteAt(f, at, data)) = n
  BY <1>1, <1>2, <1>3, <1>4
<1> QED  BY <1>1, <1>4, <1>5 DEF n

\* An answer is a reply; a slice it holds lies within the file.
LEMMA AnswerType ==
  ASSUME TypeOK, NEW o \in Nat
  PROVE  /\ Answer(o) \in Replies
         /\ Answer(o).ok => /\ push /\ o < Len(src) /\ Answer(o).from = o
                            /\ Answer(o).next = Lesser(o + Lenth, Len(src))
                            /\ Answer(o).size = Len(src)
                            /\ Answer(o).data = Slice(src, o, Answer(o).next)
<1>1. src \in Seq(Units) /\ Lenth \in Nat
  BY ConstantsOK DEF TypeOK
<1>2. CASE push /\ o < Len(src)
  <2>1. NextStart(o) \in Nat /\ o <= NextStart(o) /\ NextStart(o) <= Len(src)
    BY <1>1, <1>2 DEF NextStart, Lesser
  <2>2. Slice(src, o, NextStart(o)) \in Seq(Units)
    BY <2>1, <1>1, SliceType
  <2> QED  BY <1>1, <1>2, <2>1, <2>2 DEF Answer, Replies, NextStart
<1>3. CASE ~(push /\ o < Len(src))
  BY <1>3 DEF Answer, Replies, Refusal
<1> QED  BY <1>2, <1>3

(***************************************************************************)
(* Types                                                                   *)
(***************************************************************************)
\* Closing the connection leaves well-typed queues.
LEMMA CloseLinkType ==
  ASSUME TypeOK, CloseLink
  PROVE  /\ link' \in {"up", "torn", "down"}
         /\ req' \in Seq(Nat) /\ rep' \in Seq(Replies) /\ stray' \in SUBSET Nat
<1>1. {req[i] : i \in 1..Len(req)} \subseteq Nat
  BY DEF TypeOK
<1>2. << >> \in Seq(Replies) /\ << >> \in Seq(Nat)
  OBVIOUS
<1> QED  BY <1>1, <1>2 DEF TypeOK, CloseLink

\* An error of the slice loop keeps the types, on whatever connection it
\* leaves the loop.
LEMMA FailType ==
  ASSUME TypeOK, NEW l \in {"up", "torn", "down"}, NEW q \in Seq(Replies),
         Fail(l, q), late' \in BOOLEAN
  PROVE  TypeOK'
<1>1. /\ idx' \in Nat /\ errnum' \in Nat /\ tmp' \in Seq(Units)
      /\ delivered' \in Seq(Seq(Units))
      /\ outcome' \in {"open", "complete", "deleted"}
      /\ push' \in BOOLEAN /\ src' \in Seq(Units)
      /\ starts' \in Nat /\ late' \in BOOLEAN
  BY DEF TypeOK, Fail, CountError, pushVars
<1>2. CASE Retry(l, q)
  BY <1>1, <1>2 DEF TypeOK, Retry
<1>3. CASE GiveUp
  BY <1>1, <1>3, CloseLinkType DEF TypeOK, GiveUp, Record, Stopped
<1> QED  BY <1>2, <1>3 DEF Fail

\* RecordDel keeps the types.
LEMMA RecordDelType ==
  ASSUME TypeOK, RecordDel
  PROVE  TypeOK'
<1>1. link' \in {"up", "torn", "down"} /\ req' \in Seq(Nat)
      /\ rep' \in Seq(Replies) /\ stray' \in SUBSET Nat
  BY CloseLinkType DEF RecordDel
<1> QED  BY <1>1 DEF TypeOK, RecordDel, Record, pushVars, history

\* CreatePullTask keeps the types of what it sets.
LEMMA CreateType ==
  ASSUME TypeOK, NEW i \in Nat, CreatePullTask(i)
  PROVE  /\ worker' = "queued" /\ status' \in {"none", Pending, Running, Stopped}
         /\ idx' \in Nat /\ tmp' \in Seq(Units)
         /\ db' \in [status : {"none", Pending, Running, Stopped},
                     index : Nat, fault : BOOLEAN]
BY TruncateType DEF TypeOK, CreatePullTask, Record

LEMMA InitType == Init => TypeOK
<1> SUFFICES ASSUME Init PROVE TypeOK
  OBVIOUS
<1>1. db \in [status : {"none", Pending, Running, Stopped}, index : Nat,
              fault : BOOLEAN]
  BY DEF Init, Record, Pending
<1>2. push \in BOOLEAN /\ late \in BOOLEAN /\ src \in Seq(Units)
  BY ConstantsOK DEF Init
<1>3. tmp \in Seq(Units) /\ delivered \in Seq(Seq(Units))
      /\ req \in Seq(Nat) /\ rep \in Seq(Replies) /\ stray \in SUBSET Nat
  BY DEF Init, NoFile
<1> QED  BY <1>1, <1>2, <1>3 DEF Init, TypeOK, Pending

LEMMA NextType == TypeOK /\ [Next]_vars => TypeOK'
<1> SUFFICES ASSUME TypeOK, [Next]_vars PROVE TypeOK'
  OBVIOUS
<1> USE DEF Pending, Running, Stopped, history
<1>1. CASE Serve
  <2>1. Head(req) \in Nat /\ Tail(req) \in Seq(Nat)
    BY <1>1 DEF Serve, TypeOK
  <2>2. Answer(Head(req)) \in Replies
    BY <2>1, AnswerType
  <2>3. rep' \in Seq(Replies)
    BY <1>1, <2>2 DEF Serve, TypeOK
  <2> QED  BY <1>1, <2>1, <2>3
           DEF Serve, RetireAfter, TypeOK, taskVars, diskVars
<1>2. CASE ServeStray
  BY <1>2 DEF ServeStray, RetireAfter, TypeOK, taskVars, diskVars
<1>3. CASE Expire
  BY <1>3 DEF Expire, TypeOK, taskVars, diskVars, linkVars
<1>4. CASE EditSource
  BY <1>4, ConstantsOK DEF EditSource, TypeOK, taskVars, diskVars, linkVars
<1>5. CASE Break
  <2>1. link' \in {"up", "torn", "down"} /\ req' \in Seq(Nat)
        /\ rep' \in Seq(Replies) /\ stray' \in SUBSET Nat
    BY <1>5, CloseLinkType DEF Break
  <2> QED  BY <1>5, <2>1 DEF Break, TypeOK, taskVars, diskVars, pushVars
<1>6. CASE PullTaskStart
  BY <1>6, CreateType DEF PullTaskStart, TypeOK, linkVars, pushVars
<1>7. CASE Restart
  <2>1. link' \in {"up", "torn", "down"} /\ req' \in Seq(Nat)
        /\ rep' \in Seq(Replies) /\ stray' \in SUBSET Nat
    BY <1>7, CloseLinkType DEF Restart
  <2>2. db.index \in Nat
    BY DEF TypeOK
  <2>3. CASE db.status = Running
    <3>1. CreatePullTask(db.index)
      BY <1>7, <2>3 DEF Restart
    <3> QED  BY <1>7, <2>1, <2>2, <3>1, CreateType DEF Restart, TypeOK, pushVars
  <2>4. CASE db.status # Running
    <3>1. /\ worker' = "none" /\ status' = db.status /\ idx' = db.index
          /\ db' = db /\ tmp' = tmp
      BY <1>7, <2>4 DEF Restart
    <3>2. status' \in {"none", Pending, Running, Stopped} /\ idx' \in Nat
      BY <3>1 DEF TypeOK
    <3> QED  BY <1>7, <2>1, <3>1, <3>2 DEF Restart, TypeOK, pushVars
  <2> QED  BY <2>3, <2>4
<1>8. CASE PullTaskDel
  BY <1>8 DEF PullTaskDel, Record, TypeOK, linkVars, pushVars, NoFile
<1>9. CASE Dial
  BY <1>9 DEF Dial, TypeOK, diskVars, pushVars
<1>10. CASE TakeExit \/ TakeClear
  <2>1. link' \in {"up", "torn", "down"} /\ req' \in Seq(Nat)
        /\ rep' \in Seq(Replies) /\ stray' \in SUBSET Nat
    BY <1>10, CloseLinkType DEF TakeExit, TakeClear
  <2>2. CASE TakeExit
    BY <2>1, <2>2 DEF TakeExit, Record, TypeOK, pushVars
  <2>3. CASE TakeClear
    BY <2>1, <2>3 DEF TakeClear, Record, TypeOK, pushVars, NoFile
  <2> QED  BY <1>10, <2>2, <2>3
<1>11. CASE AlreadyDone \/ Finish
  BY <1>11, RecordDelType DEF AlreadyDone, Finish
<1>12. CASE Ask
  BY <1>12 DEF Ask, TypeOK, diskVars, pushVars
<1>13. CASE LinkError
  BY <1>13, FailType DEF LinkError, TypeOK
<1>14. CASE Timeout
  <2>1. rep # << >> => Tail(rep) \in Seq(Replies)
    BY DEF TypeOK
  <2> QED  BY <1>14, <2>1, FailType DEF Timeout, TypeOK
<1>20. CASE Garbled
  <2>1. PICK n \in 0..Len(rep), l \in {"up", "torn"} : Fail(l, Slice(rep, n, Len(rep)))
    BY <1>20 DEF Garbled
  <2>2. Slice(rep, n, Len(rep)) \in Seq(Replies)
    BY SuffixShape DEF TypeOK
  <2> QED  BY <1>20, <2>1, <2>2, FailType DEF Garbled, TypeOK
<1>15. CASE RecvRefusal
  <2>1. Tail(rep) \in Seq(Replies)
    BY <1>15 DEF RecvRefusal, TypeOK
  <2> QED  BY <1>15, <2>1, FailType DEF RecvRefusal, TypeOK
<1>16. CASE RecvSlice
  <2>1. Head(rep) \in Replies /\ Tail(rep) \in Seq(Replies)
    BY <1>16 DEF RecvSlice, TypeOK
  <2>2. WriteAt(tmp, idx, Head(rep).data) \in Seq(Units)
    BY <2>1, WriteAtType DEF TypeOK, Replies
  <2>3. idx' \in Nat
    BY <1>16, <2>1 DEF RecvSlice, Replies
  <2> QED  BY <1>16, <2>1, <2>2, <2>3 DEF RecvSlice, TypeOK, pushVars
<1>17. CASE Save
  BY <1>17 DEF Save, Record, TypeOK, linkVars, pushVars
<1>18. CASE Rename
  <2>1. tmp \in Seq(Units) /\ delivered \in Seq(Seq(Units)) /\ << >> \in Seq(Units)
    BY DEF TypeOK
  <2>2. Append(delivered, tmp) \in Seq(Seq(Units))
    BY <2>1
  <2>3. \/ tmp' = << >> /\ delivered' = Append(delivered, tmp)
        \/ tmp' = tmp /\ delivered' = delivered
    BY <1>18 DEF Rename, NoFile
  <2>4. tmp' \in Seq(Units) /\ delivered' \in Seq(Seq(Units))
    BY <2>1, <2>2, <2>3, Zenon
  <2> QED  BY <1>18, <2>4 DEF Rename, TypeOK, linkVars, pushVars
<1>19. CASE UNCHANGED vars
  BY <1>19 DEF vars, taskVars, diskVars, linkVars, pushVars, TypeOK
<1> QED
  BY <1>1, <1>2, <1>3, <1>4, <1>5, <1>6, <1>7, <1>8, <1>9, <1>10, <1>11,
     <1>12, <1>13, <1>14, <1>15, <1>16, <1>17, <1>18, <1>19, <1>20
  DEF Next, Work, User, Pusher

(* Every state the transfer reaches is well typed: in particular the offsets *)
(* stay natural numbers and every reply in flight has the shape ParseMsg    *)
(* expects, whatever the pusher, the network and the user do.               *)
THEOREM TypeCorrect == Spec => []TypeOK
BY InitType, NextType, PTL DEF Spec

(***************************************************************************)
(* At most one delivery                                                    *)
(***************************************************************************)
\* The replies that are left are the last ones there were.
RepliesLeft ==
  \E n \in 0..Len(rep) :
    /\ Len(rep') = Len(rep) - n
    /\ \A i \in 1..Len(rep') : n + i \in 1..Len(rep) /\ rep'[i] = rep[n + i]

LEMMA LeftOver ==
  ASSUME TypeOK,
         \/ rep' \in {rep, << >>}
         \/ rep # << >> /\ rep' = Tail(rep)
         \/ \E n \in 0..Len(rep) : rep' = Slice(rep, n, Len(rep))
  PROVE  RepliesLeft
<1>1. rep \in Seq(Replies) /\ Len(rep) \in Nat /\ Len(<< >>) = 0
  BY DEF TypeOK
<1>2. ASSUME NEW n \in 0..Len(rep), Len(rep') = Len(rep) - n,
             \A i \in 1..(Len(rep) - n) : rep'[i] = rep[n + i]
      PROVE  RepliesLeft
  BY <1>1, <1>2 DEF RepliesLeft
<1>3. CASE rep' = rep
  <2>1. 0 \in 0..Len(rep) /\ Len(rep') = Len(rep) - 0
        /\ \A i \in 1..(Len(rep) - 0) : rep'[i] = rep[0 + i]
    BY <1>1, <1>3
  <2> QED  BY <1>2, <2>1
<1>4. CASE rep' = << >>
  <2>1. Len(rep) \in 0..Len(rep) /\ Len(rep') = Len(rep) - Len(rep)
    BY <1>1, <1>4
  <2> QED  BY <1>1, <1>2, <1>4, <2>1
<1>5. CASE rep # << >> /\ rep' = Tail(rep)
  <2>1. 1 \in 0..Len(rep) /\ Len(rep') = Len(rep) - 1
        /\ \A i \in 1..(Len(rep) - 1) : rep'[i] = rep[1 + i]
    BY <1>1, <1>5
  <2> QED  BY <1>2, <2>1
<1>6. CASE \E n \in 0..Len(rep) : rep' = Slice(rep, n, Len(rep))
  <2>1. PICK n \in 0..Len(rep) : rep' = Slice(rep, n, Len(rep))
    BY <1>6
  <2>2. Len(rep') = Len(rep) - n /\ \A i \in 1..(Len(rep) - n) : rep'[i] = rep[n + i]
    BY <1>1, <2>1, SuffixShape
  <2> QED  BY <1>2, <2>2
<1> QED  BY <1>3, <1>4, <1>5, <1>6

\* What a failing round of the slice loop leaves: some of the last replies,
\* and nothing else that matters here.
LEMMA FailFrame ==
  ASSUME TypeOK, LinkError \/ Timeout \/ Garbled \/ RecvRefusal
  PROVE  /\ worker \in {"loop", "wait"} /\ worker' \in {"loop", "none"}
         /\ delivered' = delivered /\ push' = push
         /\ RepliesLeft
<1>1. ASSUME NEW l, NEW q, Fail(l, q)
      PROVE  /\ worker' \in {"loop", "none"}
             /\ delivered' = delivered /\ push' = push
             /\ rep' = q \/ rep' = << >>
  BY <1>1 DEF Fail, Retry, GiveUp, CloseLink, pushVars
<1>2. CASE LinkError
  BY <1>1, <1>2, LeftOver DEF LinkError
<1>3. CASE Timeout
  BY <1>1, <1>3, LeftOver DEF Timeout
<1>4. CASE Garbled
  <2>1. PICK n \in 0..Len(rep), l \in {"up", "torn"} : Fail(l, Slice(rep, n, Len(rep)))
    BY <1>4 DEF Garbled
  <2> QED  BY <1>1, <1>4, <2>1, LeftOver DEF Garbled
<1>5. CASE RecvRefusal
  BY <1>1, <1>5, LeftOver DEF RecvRefusal
<1> QED  BY <1>2, <1>3, <1>4, <1>5

LEMMA LinkNext == TypeOK /\ LinkInv /\ [Next]_vars => LinkInv'
<1> SUFFICES ASSUME TypeOK, LinkInv, [Next]_vars PROVE LinkInv'
  OBVIOUS
<1> USE DEF LinkInv
<1>1. ASSUME CloseLink PROVE LinkInv'
  BY <1>1 DEF CloseLink
<1>2. CASE Serve
  BY <1>2 DEF Serve, taskVars
<1>3. CASE ServeStray \/ Expire \/ EditSource
  BY <1>3 DEF ServeStray, Expire, EditSource, taskVars, linkVars
<1>4. CASE Break \/ Restart \/ TakeExit \/ TakeClear \/ AlreadyDone \/ Finish
  BY <1>1, <1>4
  DEF Break, Restart, TakeExit, TakeClear, AlreadyDone, Finish, RecordDel
<1>5. CASE PullTaskStart \/ PullTaskDel
  BY <1>5 DEF PullTaskStart, PullTaskDel, CreatePullTask, linkVars
<1>6. CASE Dial \/ Ask \/ Save \/ Rename
  BY <1>6 DEF Dial, Ask, Save, Rename, linkVars
<1>7. ASSUME NEW l, NEW q, Fail(l, q), l = "down" => req = << >> /\ q = << >>
      PROVE  LinkInv'
  <2>1. CASE Retry(l, q)
    BY <1>7, <2>1 DEF Retry
  <2>2. CASE GiveUp
    BY <1>1, <2>2 DEF GiveUp
  <2> QED  BY <1>7, <2>1, <2>2 DEF Fail
<1>8. CASE LinkError
  BY <1>7, <1>8 DEF LinkError
<1>9. CASE Timeout
  BY <1>7, <1>9 DEF Timeout
<1>13. CASE Garbled
  <2>1. PICK n \in 0..Len(rep), l \in {"up", "torn"} : Fail(l, Slice(rep, n, Len(rep)))
    BY <1>13 DEF Garbled
  <2>2. l # "down"
    OBVIOUS
  <2> QED  BY <1>7, <2>1, <2>2
<1>10. CASE RecvRefusal
  BY <1>7, <1>10 DEF RecvRefusal
<1>11. CASE RecvSlice
  BY <1>11 DEF RecvSlice
<1>12. CASE UNCHANGED vars
  BY <1>12 DEF vars, taskVars, linkVars
<1> QED
  BY <1>2, <1>3, <1>4, <1>5, <1>6, <1>8, <1>9, <1>10, <1>11, <1>12, <1>13
  DEF Next, Work, User, Pusher

LEMMA RetireNext ==
  TypeOK /\ LinkInv /\ DeliveredOnce /\ RetireInv /\ [Next]_vars
    => (DeliveredOnce /\ RetireInv)'
<1> SUFFICES ASSUME TypeOK, LinkInv, DeliveredOnce, RetireInv, [Next]_vars
             PROVE  (DeliveredOnce /\ RetireInv)'
  OBVIOUS
<1> USE DEF DeliveredOnce, RetireInv
\* Steps that leave no reply behind.
<1>1. ASSUME rep' = << >>, delivered' = delivered, push' = push,
             worker' \notin {"rename", "delete"}
      PROVE  (DeliveredOnce /\ RetireInv)'
  BY <1>1
\* Steps that at most take replies away.
<1>2. ASSUME RepliesLeft \/ rep' \in {rep, << >>},
             delivered' = delivered, push' = push \/ push' = FALSE,
             \/ worker' = worker
             \/ worker # "delete" /\ worker' \notin {"rename", "delete"}
      PROVE  (DeliveredOnce /\ RetireInv)'
  <2>1. \A j \in 1..Len(rep') : \E i \in 1..Len(rep) : rep'[j] = rep[i]
    BY <1>2 DEF RepliesLeft
  <2> QED  BY <1>2, <2>1 DEF IsLast
<1>3. CASE Serve
  <2>1. Head(req) \in Nat
    BY <1>3 DEF Serve, TypeOK
  <2> DEFINE r == Answer(Head(req))
  <2>2. r \in Replies /\ (r.ok => push)
    BY <2>1, AnswerType
  <2>3. /\ worker' = worker /\ delivered' = delivered
        /\ push' = (push /\ ~IsLast(r))
        /\ rep' = Append(rep, r)
    BY <1>3 DEF Serve, RetireAfter, taskVars, diskVars
  <2> HIDE DEF r
  <2>4. ASSUME NEW j \in 1..Len(rep')
        PROVE  rep'[j] = r \/ \E i \in 1..Len(rep) : rep'[j] = rep[i]
    <3>1. rep \in Seq(Replies) /\ j \in 1..(Len(rep) + 1)
      BY <2>2, <2>3 DEF TypeOK
    <3>2. CASE j = Len(rep) + 1
      BY <2>2, <2>3, <3>1, <3>2
    <3>3. CASE j # Len(rep) + 1
      <4>1. j \in 1..Len(rep) /\ rep'[j] = rep[j]
        BY <2>2, <2>3, <3>1, <3>3
      <4> QED  BY <4>1
    <3> QED  BY <3>2, <3>3
  <2> QED  BY <2>2, <2>3, <2>4 DEF IsLast
<1>4. CASE ServeStray \/ Expire \/ EditSource
  <2>1. rep' = rep /\ worker' = worker /\ delivered' = delivered
    BY <1>4 DEF ServeStray, Expire, EditSource, taskVars, diskVars, linkVars
  <2>2. push' = push \/ push' = FALSE
    BY <1>4 DEF ServeStray, Expire, EditSource, RetireAfter, TypeOK
  <2> QED  BY <1>2, <2>1, <2>2
<1>5. CASE Break
  BY <1>2, <1>5 DEF Break, CloseLink, taskVars, diskVars, pushVars
<1>6. CASE Restart
  BY <1>1, <1>6 DEF Restart, CreatePullTask, CloseLink, pushVars
<1>7. CASE TakeExit \/ TakeClear \/ AlreadyDone \/ Finish
  BY <1>1, <1>7
  DEF TakeExit, TakeClear, AlreadyDone, Finish, RecordDel, CloseLink, pushVars
<1>8. CASE PullTaskStart \/ PullTaskDel
  BY <1>2, <1>8
  DEF PullTaskStart, PullTaskDel, CreatePullTask, linkVars, pushVars
<1>9. CASE Dial \/ Ask \/ Save
  BY <1>2, <1>9 DEF Dial, Ask, Save, diskVars, linkVars, pushVars
<1>10. CASE LinkError \/ Timeout \/ Garbled \/ RecvRefusal
  BY <1>2, <1>10, FailFrame
<1>11. CASE RecvSlice
  <2>1. Head(rep) = rep[1] /\ 1 \in 1..Len(rep) /\ delivered = << >>
    BY <1>11 DEF RecvSlice, TypeOK
  <2>2. \A j \in 1..Len(rep') : \E i \in 1..Len(rep) : rep'[j] = rep[i]
    <3>1. \A j \in 1..Len(rep') : j + 1 \in 1..Len(rep) /\ rep'[j] = rep[j + 1]
      BY <1>11 DEF RecvSlice, TypeOK
    <3> QED  BY <3>1
  <2>3. delivered' = delivered /\ push' = push
    BY <1>11 DEF RecvSlice, pushVars
  <2> QED  BY <1>11, <2>1, <2>2, <2>3 DEF RecvSlice, IsLast, Complete
<1>12. CASE Rename
  <2>1. rep' = rep /\ push' = push /\ worker = "rename" /\ worker' = "delete"
    BY <1>12 DEF Rename, linkVars, pushVars
  <2>2. delivered = << >> /\ Len(delivered) <= 1
    BY <2>1
  <2>3. delivered' = Append(<< >>, tmp) \/ delivered' = delivered
    BY <1>12, <2>2, Zenon DEF Rename
  <2>4. Append(<< >>, tmp) = <<tmp>> /\ Len(<<tmp>>) = 1
    BY DEF TypeOK
  <2>5. Len(delivered') <= 1
    <3>1. CASE delivered' = Append(<< >>, tmp)
      <4>1. Len(delivered') = 1
        BY <2>4, <3>1, Zenon
      <4> QED  BY <4>1
    <3> QED  BY <2>2, <2>3, <3>1
  <2> QED  BY <2>1, <2>5
<1>13. CASE UNCHANGED vars
  BY <1>2, <1>13 DEF vars, taskVars, diskVars, linkVars, pushVars
<1> QED
  BY <1>3, <1>4, <1>5, <1>6, <1>7, <1>8, <1>9, <1>10, <1>11, <1>12, <1>13
  DEF Next, Work, User, Pusher

(* The task's file is put in place at most once, however often the node     *)
(* crashes between os.Rename and pullTaskRecordDel and runs the task again: *)
(* FileSlicePush retires the push task before its last slice is delivered.  *)
THEOREM OneDelivery == Spec => []DeliveredOnce
<1>1. Init => DeliveredOnce /\ RetireInv /\ LinkInv
  BY DEF Init, DeliveredOnce, RetireInv, LinkInv, NoFile
<1> QED
  BY <1>1, InitType, NextType, LinkNext, RetireNext, PTL DEF Spec

(***************************************************************************)
(* What is owed to the worker                                              *)
(***************************************************************************)
\* Taking the first of a queue shortens it by one.
LEMMA TailShorter ==
  ASSUME NEW S, NEW q \in Seq(S), q # << >>
  PROVE  /\ Len(q) \in Nat \ {0} /\ Tail(q) \in Seq(S) /\ Len(Tail(q)) = Len(q) - 1
         /\ Head(q) = q[1] /\ Head(q) \in S
         /\ \A i \in 1..Len(Tail(q)) : Tail(q)[i] = q[i + 1]
  OBVIOUS

\* Taking the only element of a queue leaves it empty.
LEMMA TailOfOne ==
  ASSUME NEW S, NEW q \in Seq(S), Len(q) = 1
  PROVE  Tail(q) = << >>
<1>1. Tail(q) \in Seq(S) /\ Len(Tail(q)) = 0
  OBVIOUS
<1>2. Tail(q) # << >> => Len(Tail(q)) # 0
  BY <1>1, TailShorter
<1> QED  BY <1>1, <1>2

\* A failing round that does not give up is counted, and lengthens no queue.
LEMMA FailCounted ==
  ASSUME TypeOK, LinkError \/ Timeout \/ Garbled \/ RecvRefusal
  PROVE  \/ worker' = "none"
         \/ /\ worker' = "loop" /\ errnum' = errnum + 1 /\ errnum < ErrNum
            /\ req' = req /\ Len(rep') <= Len(rep)
<1>1. ASSUME NEW l, NEW q, Fail(l, q)
      PROVE  \/ worker' = "none"
             \/ /\ worker' = "loop" /\ errnum' = errnum + 1 /\ errnum < ErrNum
                /\ req' = req
  BY <1>1, ConstantsOK DEF Fail, Retry, GiveUp, CountError, TypeOK
<1>2. \E l, q : Fail(l, q)
  BY DEF LinkError, Timeout, Garbled, RecvRefusal
<1>3. Len(rep') <= Len(rep)
  <2>1. PICK n \in 0..Len(rep) : Len(rep') = Len(rep) - n
    BY FailFrame DEF RepliesLeft
  <2>2. PICK m \in Nat : m = Len(rep)
    BY DEF TypeOK
  <2> QED  BY <2>1, <2>2
<1> QED  BY <1>1, <1>2, <1>3

LEMMA OwedNext == TypeOK /\ LinkInv /\ AnswersOwed /\ [Next]_vars => AnswersOwed'
<1> SUFFICES ASSUME TypeOK, LinkInv, AnswersOwed, [Next]_vars PROVE AnswersOwed'
  OBVIOUS
<1> USE DEF AnswersOwed, Looping
<1>0. Len(req) \in Nat /\ Len(rep) \in Nat /\ errnum \in Nat /\ ErrNum \in Nat /\ Len(<< >>) = 0
  BY ConstantsOK DEF TypeOK
<1>1. CASE Serve
  <2>1. Len(req') = Len(req) - 1
    BY <1>1, TailShorter DEF Serve, TypeOK
  <2>2. Head(req) \in Nat
    BY <1>1, TailShorter DEF Serve, TypeOK
  <2>3. Len(rep') = Len(rep) + 1
    BY <1>1, <2>2, AnswerType DEF Serve, TypeOK
  <2> QED  BY <1>0, <1>1, <2>1, <2>3 DEF Serve, taskVars
<1>2. CASE ServeStray \/ Expire \/ EditSource
  BY <1>2 DEF ServeStray, Expire, EditSource, taskVars, linkVars
<1>3. CASE Break
  BY <1>0, <1>3 DEF Break, CloseLink, taskVars
<1>4. CASE Restart \/ PullTaskStart \/ PullTaskDel \/ TakeExit \/ TakeClear \/ AlreadyDone \/ Finish
  BY <1>4 DEF Restart, PullTaskStart, PullTaskDel, CreatePullTask, TakeExit, TakeClear,
              AlreadyDone, Finish, RecordDel
<1>5. CASE Dial
  BY <1>0, <1>5 DEF Dial, LinkInv
<1>6. CASE Ask
  <2>1. Len(req') = Len(req) + 1
    BY <1>6 DEF Ask, TypeOK
  <2> QED  BY <1>0, <1>6, <2>1 DEF Ask
<1>7. CASE LinkError \/ Timeout \/ Garbled \/ RecvRefusal
  <2>1. worker \in {"loop", "wait"}
    BY <1>7 DEF LinkError, Timeout, Garbled, RecvRefusal
  <2>2. CASE worker' = "none"
    BY <2>2
  <2>3. CASE worker' = "loop" /\ errnum' = errnum + 1 /\ errnum < ErrNum
             /\ req' = req /\ Len(rep') <= Len(rep)
    <3>1. Len(rep') \in Nat
      BY <1>7, NextType DEF Next, Work, TypeOK
    <3> QED  BY <1>0, <2>1, <2>3, <3>1
  <2> QED  BY <1>7, <2>2, <2>3, FailCounted
<1>8. CASE RecvSlice
  <2>1. Len(rep') = Len(rep) - 1
    BY <1>8, TailShorter DEF RecvSlice, TypeOK
  <2> QED  BY <1>0, <1>8, <2>1 DEF RecvSlice
<1>9. CASE Save \/ Rename
  BY <1>9 DEF Save, Rename, linkVars
<1>10. CASE UNCHANGED vars
  BY <1>10 DEF vars, taskVars, linkVars
<1> QED
  BY <1>1, <1>2, <1>3, <1>4, <1>5, <1>6, <1>7, <1>8, <1>9, <1>10
  DEF Next, Work, User, Pusher

(* No more requests are ever unanswered than the worker has met errors, and *)
(* the one it waits for, and it never goes on with more errors than granted: *)
(* the connection's queues are bounded by ErrNum + 1 whatever edits, expiry, *)
(* write faults and late answers come together.                             *)
THEOREM OwedIsBounded == Spec => []AnswersOwed
<1>1. Init => AnswersOwed /\ LinkInv
  BY DEF Init, AnswersOwed, Looping, LinkInv
<1> QED  BY <1>1, InitType, NextType, LinkNext, OwedNext, PTL DEF Spec
=============================================================================
