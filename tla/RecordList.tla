----------------------------- MODULE RecordList -----------------------------
(***************************************************************************)
(* A list of records under one key of the database: the pull tasks, the    *)
(* push tasks, or the settings (the white list and the sharing             *)
(* directories). Every change reads the whole list, edits its copy and     *)
(* saves the copy. The task lists are read under a read lock and saved     *)
(* under the write lock, and nothing holds the one while it waits for the  *)
(* other; the settings have no lock. LevelDB.Save deletes the key before it *)
(* puts the new list.                                                      *)
(***************************************************************************)
EXTENDS Naturals

CONSTANTS
  Procs,     \* goroutines that can be inside an operation at the same time
  Keys,      \* what the records are listed by
  Values,    \* what a record can say
  None,      \* no record
  Nobody,    \* no goroutine
  Kinds,     \* the lists to look at
  Crashes,   \* TRUE iff the node may crash
  MaxCalls   \* bound on the operations and crashes

ASSUME ListConstants ==
  /\ None \notin Values /\ Nobody \notin Procs
  /\ Kinds \subseteq {"pull", "push", "settings"}
  /\ Crashes \in BOOLEAN /\ MaxCalls \in Nat

VARIABLES
  kind,     \* which list this is
  here,     \* the database has the key
  stored,   \* the list under the key (Empty if there is none)
  writer,   \* who holds the write lock of a task list
  pc,       \* where each goroutine stands
  op,       \* what each goroutine is doing, and to which key
  copy,     \* the list each goroutine works on
  mem,      \* keys of TaskMap (pull tasks)
  loading,  \* pull tasks that Load found running and has not saved again yet
  expired,  \* push tasks whose ExpirationTime has passed
  truth,    \* history: the list if every operation were atomic
  missed,   \* history: keys written by others since a goroutine read the list
  harmed,   \* history: keys a stale save or a crash may have got wrong
  calls     \* operations and crashes so far (bounds the model)

list == <<here, stored, writer>>
history == <<truth, missed, harmed>>
vars == <<kind, list, pc, op, copy, mem, loading, expired, history, calls>>

Entries == Values \cup {None}
Empty == [k \in Keys |-> None]
Listed(l) == {k \in Keys : l[k] # None}

Locked == kind # "settings"

\* Somebody is between the Delete and the Put of LevelDB.Save.
Gap == \E p \in Procs : pc[p] = "put"

\* What is done to which list.
Offers == {<<"pull", "save">>, <<"pull", "remove">>, <<"pull", "lookup">>,
           <<"push", "save">>, <<"push", "remove">>, <<"push", "sweep">>,
           <<"settings", "add">>, <<"settings", "remove">>}

Go(p, at) == pc' = [pc EXCEPT ![p] = at]

Init ==
  /\ kind \in Kinds
  /\ here = FALSE /\ stored = Empty /\ writer = Nobody
  /\ pc = [p \in Procs |-> "idle"] /\ copy = [p \in Procs |-> Empty]
  /\ op \in [Procs -> [do : {"none"}, key : Keys]]
  /\ mem = {} /\ loading = {} /\ expired = {}
  /\ truth = Empty /\ missed = [p \in Procs |-> {}] /\ harmed = {}
  /\ calls = 0

\* An operation begins. pullTaskRecordOne comes here only for a task that
\* TaskMap does not have; a push task is saved when it is new.
Begin(p) ==
  /\ pc[p] = "idle"
  /\ calls < MaxCalls /\ calls' = calls + 1
  /\ \E do \in {"save", "remove", "lookup", "sweep", "add"}, k \in Keys :
       /\ <<kind, do>> \in Offers
       /\ do = "lookup" => k \notin mem
       /\ do = "save" => k \notin expired
       /\ op' = [op EXCEPT ![p] = [do |-> do, key |-> k]]
  /\ Go(p, "read")
  /\ UNCHANGED <<kind, list, copy, mem, loading, expired, history>>

\* Mutant: the list is read without RLock.
Free_unasked == TRUE

\* Neither RLock nor Lock has to wait.
Free == Locked => writer = Nobody

\* The early returns: nothing to remove from, already there, nothing to
\* sweep, not found.
Refused(o) ==
  \/ o.do = "remove" /\ ~here
  \/ o.do = "add" /\ stored[o.key] # None
  \/ o.do = "sweep" /\ stored = Empty
  \/ o.do = "lookup" /\ stored[o.key] = None

\* PullTaskRecordList and its likes: Find under RLock, and decode.
Read(p) ==
  /\ pc[p] = "read"
  /\ Free
  /\ copy' = [copy EXCEPT ![p] = stored]
  /\ missed' = [missed EXCEPT ![p] = IF Gap /\ ~Locked THEN Keys ELSE {}]
  /\ Go(p, IF Refused(op[p]) THEN "idle"
           ELSE IF op[p].do = "lookup" THEN "keep" ELSE "write")
  /\ UNCHANGED <<kind, list, op, mem, loading, expired, truth, harmed, calls>>

\* pullTaskRecordOne puts the task it found into TaskMap.
Keep(p) ==
  /\ pc[p] = "keep"
  /\ mem' = mem \cup {op[p].key}
  /\ harmed' = harmed \cup (missed[p] \cap {op[p].key})
  /\ Go(p, "idle")
  /\ UNCHANGED <<kind, list, op, copy, loading, expired, truth, missed, calls>>

\* The keys an operation is about: a sweep removes what has expired by now.
Own(p) == IF op[p].do = "sweep" THEN Listed(copy[p]) \cap expired ELSE {op[p].key}

\* What it makes of them.
Result(p) == IF op[p].do \in {"save", "add"} THEN Values ELSE {None}

\* Mutant: the record is saved before its fields are set.
Edit_unset(l, own, v) == [k \in Keys |-> IF k \in own THEN Nobody ELSE l[k]]

\* List l with the keys of own set to v.
Edit(l, own, v) == [k \in Keys |-> IF k \in own THEN v ELSE l[k]]

\* Mutant: TaskMap is not told of the removal.
MapAfter_kept(o) ==
  mem' = IF kind = "pull" /\ o.do = "save" THEN mem \cup {o.key} ELSE mem

\* TaskMap follows a save or a removal, under the lock.
MapAfter(o) ==
  mem' = CASE kind = "pull" /\ o.do = "save"   -> mem \cup {o.key}
           [] kind = "pull" /\ o.do = "remove" -> mem \ {o.key}
           [] OTHER                            -> mem

\* A sweep takes the lock and finds that nothing has expired.
NothingToSweep(p) ==
  /\ pc[p] = "write" /\ Own(p) = {}
  /\ Free
  /\ Go(p, "idle")
  /\ UNCHANGED <<kind, list, op, copy, mem, loading, expired, history, calls>>

\* Lock, edit the copy, TaskMap, and the Delete of LevelDB.Save.
Delete(p) ==
  /\ pc[p] = "write" /\ Own(p) # {}
  /\ Free
  /\ writer' = IF Locked THEN p ELSE writer
  /\ \E v \in Result(p) :
       /\ copy' = [copy EXCEPT ![p] = Edit(@, Own(p), v)]
       /\ truth' = [k \in Keys |-> IF k \in Own(p) THEN v ELSE truth[k]]
  /\ here' = FALSE /\ stored' = Empty
  /\ MapAfter(op[p])
  /\ loading' = loading \ Own(p)
  /\ missed' = [q \in Procs |-> IF q = p THEN missed[q] \ Own(p)
                                         ELSE missed[q] \cup Own(p)]
  /\ harmed' = harmed \ Own(p)
  /\ Go(p, "put")
  /\ UNCHANGED <<kind, op, expired, calls>>

\* The Put, and Unlock.
Put(p) ==
  /\ pc[p] = "put"
  /\ here' = TRUE /\ stored' = copy[p]
  /\ writer' = IF Locked THEN Nobody ELSE writer
  /\ harmed' = harmed \cup missed[p]
  /\ Go(p, "idle")
  /\ UNCHANGED <<kind, op, copy, mem, loading, expired, truth, missed, calls>>

\* Time passes for push task k.
Expire(k) ==
  /\ kind = "push" /\ k \notin expired
  /\ expired' = expired \cup {k}
  /\ UNCHANGED <<kind, list, pc, op, copy, mem, loading, history, calls>>

\* A crash of the node, and Load: TaskMap gets the tasks that were not running;
\* those that were come back by the save of CreatePullTask, each a Begin later.
Restart ==
  /\ Crashes
  /\ calls < MaxCalls /\ calls' = calls + 1
  /\ pc' = [p \in Procs |-> "idle"] /\ writer' = Nobody
  /\ loading' \in IF kind = "pull" THEN SUBSET Listed(stored) ELSE {{}}
  /\ mem' = IF kind = "pull" THEN Listed(stored) \ loading' ELSE mem
  /\ harmed' = IF Gap THEN Keys ELSE harmed
  /\ UNCHANGED <<kind, here, stored, op, copy, expired, truth, missed>>

-----------------------------------------------------------------------------
Step(p) == Begin(p) \/ Read(p) \/ Keep(p) \/ NothingToSweep(p) \/ Delete(p) \/ Put(p)

Next == \/ \E p \in Procs : Step(p)
        \/ \E k \in Keys : Expire(k)
        \/ Restart

Spec == Init /\ [][Next]_vars
-----------------------------------------------------------------------------
\* Every variable has its type.
TypeOK ==
  /\ kind \in Kinds
  /\ here \in BOOLEAN /\ stored \in [Keys -> Entries] /\ writer \in Procs \cup {Nobody}
  /\ pc \in [Procs -> {"idle", "read", "keep", "write", "put"}]
  /\ op \in [Procs -> [do : {"none", "save", "remove", "lookup", "sweep", "add"},
                       key : Keys]]
  /\ copy \in [Procs -> [Keys -> Entries]]
  /\ mem \in SUBSET Keys /\ loading \in SUBSET Keys /\ expired \in SUBSET Keys
  /\ truth \in [Keys -> Entries] /\ missed \in [Procs -> SUBSET Keys]
  /\ harmed \in SUBSET Keys /\ calls \in Nat

(* Stale saves do limited harm: a record differs from what its own operations *)
(* left only if somebody else's save had read the list before the last of    *)
(* them and written it after, or if the node crashed between Delete and Put; *)
(* every other record is right, in the lists without a lock as well, and the *)
(* task's next save puts a harmed one right.                                 *)
OnlyOverlapHarms ==
  ~Gap => \A k \in Keys \ harmed : stored[k] = truth[k]

(* TaskMap has the tasks the list of pull tasks has, but for those Load has  *)
(* still to start again and those a stale save or a stale lookup got wrong   *)
(* (pullTaskRecordOne stores what it read without the lock,                  *)
(* pullTaskRecordSave and pullTaskRecordDel under it).                       *)
MapFollowsList ==
  kind = "pull" /\ ~Gap =>
    \A k \in Keys \ (harmed \cup loading) : k \in mem <=> stored[k] # None
-----------------------------------------------------------------------------
\* What the documentation says and the code does not keep.

(* README.md:124, "add an authorized address to the white list": once all is *)
(* quiet, what was added and not removed is there. Two additions can both   *)
(* read the list before either saves it.                                    *)
AddedIsListed ==
  (\A p \in Procs : pc[p] = "idle") => Listed(truth) \subseteq Listed(stored)
=============================================================================
