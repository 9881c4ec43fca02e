-------------------------- MODULE RecordListProofs --------------------------
(***************************************************************************)
(* Proofs about RecordList, for any goroutines, keys and record contents.  *)
(***************************************************************************)
EXTENDS RecordList, TLAPS

(***************************************************************************)
(* Types                                                                   *)
(***************************************************************************)
\* What an operation makes of its own keys can stand in a list.
LEMMA ResultType == ASSUME NEW p PROVE Result(p) \subseteq Entries
BY DEF Result, Entries

LEMMA OwnType ==
  ASSUME TypeOK, NEW p \in Procs
  PROVE  Own(p) \subseteq Keys
BY DEF TypeOK, Own, Listed

LEMMA InitType == Init => TypeOK
<1> SUFFICES ASSUME Init PROVE TypeOK
  OBVIOUS
<1>1. Empty \in [Keys -> Entries]
  BY DEF Empty, Entries
<1>2. op \in [Procs -> [do : {"none", "save", "remove", "lookup", "sweep", "add"},
                        key : Keys]]
  BY DEF Init
<1> QED  BY <1>1, <1>2 DEF Init, TypeOK

LEMMA NextType == TypeOK /\ [Next]_vars => TypeOK'
<1> SUFFICES ASSUME TypeOK, [Next]_vars PROVE TypeOK'
  OBVIOUS
<1> USE DEF list, history, Go
<1>0. Empty \in [Keys -> Entries]
  BY DEF Empty, Entries
<1>1. ASSUME NEW p \in Procs, Begin(p) PROVE TypeOK'
  BY <1>1 DEF Begin, TypeOK
<1>2. ASSUME NEW p \in Procs, Read(p) PROVE TypeOK'
  <2>1. pc' \in [Procs -> {"idle", "read", "keep", "write", "put"}]
    BY <1>2 DEF Read, TypeOK
  <2>2. missed' \in [Procs -> SUBSET Keys]
    BY <1>2 DEF Read, TypeOK
  <2> QED  BY <1>2, <2>1, <2>2 DEF Read, TypeOK
<1>3. ASSUME NEW p \in Procs, Keep(p) PROVE TypeOK'
  BY <1>3 DEF Keep, TypeOK
<1>4. ASSUME NEW p \in Procs, NothingToSweep(p) PROVE TypeOK'
  BY <1>4 DEF NothingToSweep, TypeOK
<1>5. ASSUME NEW p \in Procs, Delete(p) PROVE TypeOK'
  <2>1. PICK v \in Result(p) :
          /\ copy' = [copy EXCEPT ![p] = Edit(@, Own(p), v)]
          /\ truth' = [k \in Keys |-> IF k \in Own(p) THEN v ELSE truth[k]]
    BY <1>5 DEF Delete
  <2>2. v \in Entries
    BY <2>1, ResultType
  <2>3. Edit(copy[p], Own(p), v) \in [Keys -> Entries]
    BY <1>5, <2>2 DEF Edit, TypeOK
  <2>4. copy' \in [Procs -> [Keys -> Entries]] /\ truth' \in [Keys -> Entries]
    BY <1>5, <2>1, <2>2, <2>3 DEF TypeOK
  <2>5. missed' \in [Procs -> SUBSET Keys] /\ harmed' \in SUBSET Keys
        /\ loading' \in SUBSET Keys
    BY <1>5, OwnType DEF Delete, TypeOK
  <2>6. op[p].key \in Keys
    BY <1>5 DEF TypeOK
  <2>7. mem' \in SUBSET Keys
    BY <1>5, <2>6 DEF Delete, MapAfter, TypeOK
  <2>8. /\ stored' \in [Keys -> Entries] /\ here' \in BOOLEAN
        /\ writer' \in Procs \cup {Nobody} /\ calls' \in Nat /\ kind' \in Kinds
        /\ pc' \in [Procs -> {"idle", "read", "keep", "write", "put"}]
        /\ op' = op /\ expired' = expired
    BY <1>0, <1>5 DEF Delete, TypeOK
  <2> QED  BY <2>4, <2>5, <2>7, <2>8 DEF TypeOK
<1>6. ASSUME NEW p \in Procs, Put(p) PROVE TypeOK'
  <2>1. writer' \in Procs \cup {Nobody} /\ stored' \in [Keys -> Entries]
    BY <1>6 DEF Put, TypeOK
  <2> QED  BY <1>6, <2>1 DEF Put, TypeOK
<1>7. ASSUME NEW k \in Keys, Expire(k) PROVE TypeOK'
  BY <1>7 DEF Expire, TypeOK
<1>8. CASE Restart
  <2>1. loading' \in SUBSET Keys /\ mem' \in SUBSET Keys
    BY <1>8 DEF Restart, TypeOK, Listed
  <2>2. /\ UNCHANGED <<kind, here, stored, op, copy, expired, truth, missed>>
        /\ pc' = [p \in Procs |-> "idle"] /\ writer' = Nobody
        /\ harmed' \in SUBSET Keys /\ calls' \in Nat
    BY <1>8 DEF Restart, TypeOK
  <2> QED  BY <2>1, <2>2 DEF TypeOK
<1>9. CASE UNCHANGED vars
  BY <1>9 DEF vars, TypeOK
<1> QED
  BY <1>1, <1>2, <1>3, <1>4, <1>5, <1>6, <1>7, <1>8, <1>9 DEF Next, Step

(* Every list in the database, and every copy of one, maps the keys to       *)
(* records or to none.                                                       *)
THEOREM TypeCorrect == Spec => []TypeOK
BY InitType, NextType, PTL DEF Spec

(***************************************************************************)
(* What a stale save can harm                                              *)
(***************************************************************************)
\* Only the holder of the write lock is between Delete and Put, where there
\* is a lock.
LockInv == Locked => \A p \in Procs : pc[p] = "put" => writer = p

\* What is not missed of a copy, and not harmed before, is right.
CopyInv ==
  \A p \in Procs : pc[p] \in {"write", "keep", "put"} =>
    \A k \in Keys \ (missed[p] \cup harmed) : copy[p][k] = truth[k]

\* Only what was found is put into TaskMap.
FoundInv == \A p \in Procs : pc[p] = "keep" => copy[p][op[p].key] # None

MemInv ==
  kind = "pull" =>
    \A k \in Keys \ (harmed \cup loading) : k \in mem <=> truth[k] # None

\* The pull tasks are saved and removed; a lookup saves nothing.
OfferInv ==
  kind = "pull" => \A p \in Procs :
    /\ pc[p] = "read" => op[p].do \in {"save", "remove", "lookup"}
    /\ pc[p] = "write" => op[p].do \in {"save", "remove"}

ListInv == OfferInv /\ LockInv /\ CopyInv /\ OnlyOverlapHarms /\ FoundInv /\ MemInv

LEMMA InitList == Init => ListInv
BY DEF Init, ListInv, OfferInv, LockInv, CopyInv, OnlyOverlapHarms, FoundInv, MemInv, Empty

\* Reading the list: under the lock it is whole; without the lock everything
\* counts as missed if somebody is saving.
LEMMA ReadList ==
  ASSUME TypeOK, ListInv, NEW p \in Procs, Read(p)
  PROVE  ListInv'
<1> USE DEF ListInv, list, Go
<1>1. /\ UNCHANGED <<kind, stored, writer, op, mem, loading, truth, harmed>>
      /\ pc'[p] # "put" /\ copy' = [copy EXCEPT ![p] = stored]
      /\ \A q \in Procs : q # p => pc'[q] = pc[q] /\ missed'[q] = missed[q]
                                   /\ copy'[q] = copy[q]
      /\ pc[p] # "put"
  BY DEF Read, TypeOK
<1>2. Gap' = Gap
  BY <1>1 DEF Gap
<1>3. LockInv'
  BY <1>1 DEF LockInv, Locked
<1>4. CopyInv'
  <2>1. CASE Gap /\ ~Locked
    <3>1. missed'[p] = Keys
      BY <2>1 DEF Read, TypeOK
    <3> QED  BY <1>1, <3>1 DEF CopyInv
  <2>2. CASE Gap /\ Locked
    <3>1. writer # Nobody
      BY <2>2, ListConstants DEF Gap, LockInv
    <3> QED  BY <2>2, <3>1 DEF Read, Free
  <2>3. CASE ~Gap
    <3>1. \A k \in Keys \ harmed : stored[k] = truth[k]
      BY <2>3 DEF OnlyOverlapHarms
    <3>2. copy'[p] = stored
      BY <1>1 DEF TypeOK
    <3> QED  BY <1>1, <3>1, <3>2 DEF CopyInv
  <2> QED  BY <2>1, <2>2, <2>3
<1>5. OnlyOverlapHarms'
  BY <1>1, <1>2 DEF OnlyOverlapHarms
<1>6. FoundInv'
  <2>1. ASSUME pc'[p] = "keep" PROVE copy'[p][op[p].key] # None
    <3>1. op[p].do = "lookup" /\ ~Refused(op[p]) /\ copy'[p] = stored
      BY <2>1 DEF Read, TypeOK
    <3> QED  BY <3>1 DEF Refused
  <2> QED  BY <1>1, <2>1 DEF FoundInv
<1>7. MemInv'
  BY <1>1 DEF MemInv
<1>8. OfferInv'
  <2>1. pc[p] = "read" /\ (pc'[p] = "write" => op[p].do # "lookup")
        /\ pc'[p] # "read"
    BY DEF Read, TypeOK
  <2> QED  BY <1>1, <2>1 DEF OfferInv
<1> QED  BY <1>3, <1>4, <1>5, <1>6, <1>7, <1>8

\* The edit and the Delete: the copy gets the operation's own keys right, all
\* other copies miss them.
LEMMA DeleteList ==
  ASSUME TypeOK, ListInv, NEW p \in Procs, Delete(p)
  PROVE  ListInv'
<1> USE DEF ListInv, list, Go
<1>1. PICK v \in Result(p) :
        /\ copy' = [copy EXCEPT ![p] = Edit(@, Own(p), v)]
        /\ truth' = [k \in Keys |-> IF k \in Own(p) THEN v ELSE truth[k]]
  BY DEF Delete
<1>2. /\ UNCHANGED <<kind, op>> /\ harmed' = harmed \ Own(p) /\ loading' = loading \ Own(p)
      /\ pc'[p] = "put" /\ pc[p] = "write"
      /\ missed'[p] = missed[p] \ Own(p)
      /\ \A q \in Procs : q # p => pc'[q] = pc[q] /\ copy'[q] = copy[q]
                                   /\ missed'[q] = missed[q] \cup Own(p)
  BY <1>1 DEF Delete, TypeOK
<1>3. \A k \in Keys : truth'[k] = IF k \in Own(p) THEN v ELSE truth[k]
  BY <1>1
<1>4. \A k \in Keys : copy'[p][k] = IF k \in Own(p) THEN v ELSE copy[p][k]
  BY <1>1 DEF Edit, TypeOK
<1>5. LockInv'
  <2>1. ASSUME Locked
        PROVE  writer' = p /\ \A q \in Procs : pc[q] # "put"
    BY <2>1, ListConstants DEF Delete, Free, LockInv
  <2> QED  BY <1>2, <2>1 DEF LockInv, Locked
<1>6. CopyInv'
  <2>1. ASSUME NEW k \in Keys \ (missed'[p] \cup harmed')
        PROVE  copy'[p][k] = truth'[k]
    BY <1>2, <1>3, <1>4, <2>1 DEF CopyInv
  <2>2. ASSUME NEW q \in Procs, q # p, pc'[q] \in {"write", "keep", "put"},
               NEW k \in Keys \ (missed'[q] \cup harmed')
        PROVE  copy'[q][k] = truth'[k]
    <3>1. k \in Keys \ (missed[q] \cup harmed) /\ k \notin Own(p)
      BY <1>2, <2>2
    <3> QED  BY <1>2, <1>3, <2>2, <3>1 DEF CopyInv
  <2> QED  BY <2>1, <2>2 DEF CopyInv
<1>7. OnlyOverlapHarms'
  <2>1. Gap'
    BY <1>2 DEF Gap
  <2> QED  BY <2>1 DEF OnlyOverlapHarms
<1>8. FoundInv'
  BY <1>2 DEF FoundInv
<1>9. MemInv'
  <2> SUFFICES ASSUME kind = "pull", NEW k \in Keys, k \notin harmed' \cup loading'
               PROVE  k \in mem' <=> truth'[k] # None
    BY <1>2 DEF MemInv
  <2>1. op[p].do \in {"save", "remove"}
    BY <1>2 DEF OfferInv
  <2>2. CASE op[p].do = "save"
    <3>1. Own(p) = {op[p].key} /\ v # None /\ mem' = mem \cup {op[p].key}
      BY <1>1, <2>2, ListConstants DEF Own, Result, Delete, MapAfter
    <3> QED  BY <1>2, <1>3, <3>1 DEF MemInv
  <2>3. CASE op[p].do = "remove"
    <3>1. Own(p) = {op[p].key} /\ v = None /\ mem' = mem \ {op[p].key}
      BY <1>1, <2>3 DEF Own, Result, Delete, MapAfter
    <3> QED  BY <1>2, <1>3, <3>1 DEF MemInv
  <2> QED  BY <2>1, <2>2, <2>3
<1>10. OfferInv'
  BY <1>2 DEF OfferInv
<1> QED  BY <1>5, <1>6, <1>7, <1>8, <1>9, <1>10

\* The Put: what was missed since the read is harmed from now on.
LEMMA PutList ==
  ASSUME TypeOK, ListInv, NEW p \in Procs, Put(p)
  PROVE  ListInv'
<1> USE DEF ListInv, list, Go
<1>1. /\ UNCHANGED <<kind, op, copy, mem, loading, truth, missed>> /\ stored' = copy[p]
      /\ harmed' = harmed \cup missed[p]
      /\ pc[p] = "put" /\ pc'[p] = "idle"
      /\ \A q \in Procs : q # p => pc'[q] = pc[q]
  BY DEF Put, TypeOK
<1>2. LockInv'
  BY <1>1 DEF LockInv, Locked
<1>3. CopyInv' /\ FoundInv' /\ MemInv'
  BY <1>1 DEF CopyInv, FoundInv, MemInv
<1>4. OnlyOverlapHarms'
  BY <1>1 DEF CopyInv, OnlyOverlapHarms
<1>5. OfferInv'
  BY <1>1 DEF OfferInv
<1> QED  BY <1>2, <1>3, <1>4, <1>5

LEMMA NextList == TypeOK /\ ListInv /\ [Next]_vars => ListInv'
<1> SUFFICES ASSUME TypeOK, ListInv, [Next]_vars PROVE ListInv'
  OBVIOUS
<1> USE DEF list, history, Go
\* Steps of one goroutine that leave lists and history alone.
<1>1. ASSUME NEW p \in Procs, pc' = [pc EXCEPT ![p] = pc'[p]],
             pc[p] # "put", pc'[p] \notin {"write", "keep", "put"},
             UNCHANGED <<kind, stored, writer, copy, mem, loading, truth, missed, harmed>>,
             \A q \in Procs : q # p => op'[q] = op[q], OfferInv'
      PROVE  ListInv'
  <2>1. /\ \A q \in Procs : q # p => pc'[q] = pc[q]
        /\ Gap' = Gap
    BY <1>1 DEF Gap, TypeOK
  <2> QED
    BY <1>1, <2>1
    DEF ListInv, LockInv, Locked, CopyInv, OnlyOverlapHarms, FoundInv, MemInv
<1>2. ASSUME NEW p \in Procs, Begin(p) PROVE ListInv'
  <2>1. OfferInv'
    <3>1. PICK do \in {"save", "remove", "lookup", "sweep", "add"}, k \in Keys :
            /\ <<kind, do>> \in Offers
            /\ op' = [op EXCEPT ![p] = [do |-> do, key |-> k]]
      BY <1>2 DEF Begin
    <3>2. /\ kind' = kind /\ pc'[p] = "read" /\ op'[p].do = do
          /\ \A q \in Procs : q # p => pc'[q] = pc[q] /\ op'[q] = op[q]
      BY <1>2, <3>1 DEF Begin, TypeOK
    <3> QED  BY <3>1, <3>2 DEF ListInv, OfferInv, Offers
  <2> QED  BY <1>1, <1>2, <2>1 DEF Begin, TypeOK
<1>3. ASSUME NEW p \in Procs, Read(p) PROVE ListInv'
  BY <1>3, ReadList
<1>4. ASSUME NEW p \in Procs, Keep(p) PROVE ListInv'
  <2>1. /\ UNCHANGED <<kind, stored, writer, op, copy, loading, truth, missed>>
        /\ harmed' = harmed \cup (missed[p] \cap {op[p].key})
        /\ mem' = mem \cup {op[p].key}
        /\ pc[p] = "keep" /\ pc'[p] = "idle"
        /\ \A q \in Procs : q # p => pc'[q] = pc[q]
    BY <1>4 DEF Keep, TypeOK
  <2>2. Gap' = Gap
    BY <2>1 DEF Gap
  <2>3. LockInv' /\ CopyInv' /\ OnlyOverlapHarms' /\ FoundInv' /\ OfferInv'
    BY <2>1, <2>2
    DEF ListInv, OfferInv, LockInv, Locked, CopyInv, OnlyOverlapHarms, FoundInv
  <2>4. MemInv'
    <3>1. op[p].key \in Keys /\ copy[p][op[p].key] # None
      BY <2>1 DEF ListInv, FoundInv, TypeOK
    <3>2. op[p].key \notin missed[p] \cup harmed => truth[op[p].key] # None
      BY <2>1, <3>1 DEF ListInv, CopyInv
    <3> QED  BY <2>1, <3>1, <3>2 DEF ListInv, MemInv
  <2> QED  BY <2>3, <2>4 DEF ListInv
<1>5. ASSUME NEW p \in Procs, NothingToSweep(p) PROVE ListInv'
  <2>1. OfferInv'
    BY <1>5 DEF NothingToSweep, ListInv, OfferInv, TypeOK
  <2> QED  BY <1>1, <1>5, <2>1 DEF NothingToSweep, TypeOK
<1>6. ASSUME NEW p \in Procs, Delete(p) PROVE ListInv'
  BY <1>6, DeleteList
<1>7. ASSUME NEW p \in Procs, Put(p) PROVE ListInv'
  BY <1>7, PutList
<1>8. CASE (\E k \in Keys : Expire(k)) \/ UNCHANGED vars
  BY <1>8
  DEF Expire, vars, ListInv, OfferInv, LockInv, Locked, CopyInv, OnlyOverlapHarms, FoundInv,
      MemInv, Gap
<1>9. CASE Restart
  <2>1. /\ \A p \in Procs : pc'[p] = "idle"
        /\ UNCHANGED <<kind, stored, truth>>
        /\ harmed' = IF Gap THEN Keys ELSE harmed
        /\ kind = "pull" => mem' = Listed(stored) \ loading'
    BY <1>9 DEF Restart
  <2>2. LockInv' /\ CopyInv' /\ FoundInv' /\ OfferInv'
    BY <2>1 DEF OfferInv, LockInv, CopyInv, FoundInv
  <2>3. \A k \in Keys \ harmed' : stored[k] = truth[k]
    BY <2>1 DEF ListInv, OnlyOverlapHarms
  <2> QED  BY <2>1, <2>2, <2>3 DEF ListInv, OnlyOverlapHarms, MemInv, Listed
<1> QED
  BY <1>2, <1>3, <1>4, <1>5, <1>6, <1>7, <1>8, <1>9 DEF Next, Step

LEMMA ListHolds == Spec => []ListInv
BY InitType, InitList, NextType, NextList, PTL DEF Spec

(* Whoever reads and saves at the same time, a record is wrong only if a     *)
(* stale save or a crash inside a save got it: PullTaskRecordList and the    *)
(* save under two separate locks, LevelDB.Save in two steps.                 *)
THEOREM HarmIsLimited == Spec => []OnlyOverlapHarms
<1>1. ListInv => OnlyOverlapHarms
  BY DEF ListInv
<1> QED  BY <1>1, ListHolds, PTL

(* TaskMap and the list of pull tasks have the same tasks, but for harmed    *)
(* ones: pullTaskRecordSave and pullTaskRecordDel change both.               *)
THEOREM MapAndListAgree == Spec => []MapFollowsList
<1>1. ListInv => MapFollowsList
  BY DEF ListInv, OnlyOverlapHarms, MemInv, MapFollowsList
<1> QED  BY <1>1, ListHolds, PTL
=============================================================================
