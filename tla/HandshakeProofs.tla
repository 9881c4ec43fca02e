-------------------------- MODULE HandshakeProofs --------------------------
(***************************************************************************)
(* Proofs about the creation of tasks, for any number of requests and      *)
(* crashes. The steps of Handshake are steps of TaskIds, so what is proved *)
(* of the counters holds here. Ordered says which ids a request has taken  *)
(* by where its two goroutines stand; Sources says, of every id in a task  *)
(* or a record, that a request for that file took it; Halves says, of      *)
(* requests that disturbed each other nowhere, where their records are.    *)
(***************************************************************************)
EXTENDS Handshake, TaskIdsProofs

\* An id that is being taken is not zero.
Positive == \A c \in Counters, p \in Callers : at[c][p] # "no" => max[c] # 0

\* The ids given to the requests, as long as the counter gave none twice.
Apart ==
  \A c \in Counters : ~twice[c] =>
    \A a \in Callers : id[c][a] # 0 =>
      /\ id[c][a] \in given[c]
      /\ \A b \in Callers : id[c][b] = id[c][a] => a = b

Ordered(a) ==
  /\ (pc[a] = "idle") <=> (way[a] = "none")
  /\ pc[a] = "idle" => \A c \in Counters : id[c][a] = 0
  /\ pc[a] \in {"named", "id"} => id[Home(a)][a] = 0
  /\ pc[a] \in {"idle", "named", "id", "send"} => net[a] = "none"
  /\ net[a] # "none" => id[Home(a)][a] # 0
  /\ pc[a] = "send" => id[Home(a)][a] # 0
  /\ (net[a] \in {"none", "ask"} \/ ans[a] \in {"no", "id"}) => id[Away(a)][a] = 0
  /\ net[a] \in {"none", "ask"} => ans[a] = "no"
  /\ net[a] = "reply" => ans[a] \in {"sleep", "done", "lost"}
  /\ ans[a] = "sleep" => way[a] = "push"
  /\ ans[a] = "save" => way[a] = "pull"
  /\ (net[a] = "reply" \/ ans[a] \in {"sleep", "save"}) => id[Away(a)][a] # 0
  /\ pc[a] \in {"set", "save"} => id["push"][a] # 0 /\ way[a] = "push"
  /\ pc[a] = "create" => net[a] = "reply" /\ way[a] = "pull" /\ field["pull"] # None
  /\ pc[a] = "named" => field["push"] # None /\ way[a] = "push"
  /\ (way[a] = "push" /\ (net[a] # "none" \/ pc[a] \in {"id", "send", "wait", "set", "save"}))
       => obj[a] # None
  /\ field["pull"] = a => net[a] = "reply" /\ way[a] = "pull"
  /\ pc[a] = "set" => task[obj[a]].pull # 0
  /\ pc[a] = "save" => task[obj[a]].pull # 0 /\ task[obj[a]].push # 0

\* Whose file a request is about.
File(a) == IF way[a] = "push" THEN obj[a] ELSE a

\* A request for the file of o took the id n.
Took(c, n, o) == \E a \in Callers : id[c][a] = n /\ n # 0 /\ File(a) = o

Sources ==
  /\ \A o \in Callers : /\ task[o].push # 0 => Took("push", task[o].push, o)
                        /\ task[o].pull # 0 => Took("pull", task[o].pull, o)
  /\ \A r \in pushDb \cup pullDb : Took("push", r.push, r.of) /\ Took("pull", r.pull, r.of)

HInv ==
  /\ IdInv /\ TypeOK /\ Positive /\ Apart /\ Sources
  /\ \A a \in Callers : Ordered(a)
-----------------------------------------------------------------------------
LEMMA InitHInv == Init => HInv
<1> SUFFICES ASSUME Init PROVE HInv
  OBVIOUS
<1>1. IdInv /\ TypeOK
  BY InitIdInv DEF Init, IdInv, TypeOK, EndsTypeOK, Counters
<1>2. Positive /\ Apart
  BY DEF Init, IdInit, Positive, Apart, PerCaller, Counters
<1>3. Sources
  BY DEF Init, Sources
<1>4. \A a \in Callers : Ordered(a)
  BY NoneAssumption DEF Init, IdInit, PerCaller, Ordered, Home, Away, Counters
<1> QED BY <1>1, <1>2, <1>3, <1>4 DEF HInv

(* Every step of a request, of an answer or of a node is a step of the     *)
(* counters, or leaves them alone.                                         *)
LEMMA StepIsIdStep == HInv /\ [Next]_vars => [IdNext]_idVars
<1> SUFFICES ASSUME HInv, [Next]_vars PROVE [IdNext]_idVars
  OBVIOUS
<1>1. CASE UNCHANGED vars
  BY <1>1 DEF vars
<1>2. CASE \E a \in Callers : NewPushTask(a) \/ NewPullTask(a) \/ Asker(a)
  <2> PICK a \in Callers : NewPushTask(a) \/ NewPullTask(a) \/ Asker(a)
    BY <1>2
  <2>1. CASE CreatePushTask(a) \/ NewPullTask(a)
    BY <2>1 DEF CreatePushTask, NewPullTask, IdNext, Counters
  <2>2. CASE HaveId(a)
    <3>1. Home(a) \in Counters
      BY <2>2 DEF HaveId, HInv, Ordered, Home, TypeOK, EndsTypeOK, Counters
    <3> QED BY <2>2, <3>1 DEF HaveId, IdNext
  <2>3. CASE ~(CreatePushTask(a) \/ NewPullTask(a) \/ HaveId(a))
    BY <2>3 DEF Asker, NewPushTask, Fail, EmptyFile, Announce, Timeout, HearRefusal,
       HearPull, SetIds, SavePush, HearPush, CreatePull
  <2> QED BY <2>1, <2>2, <2>3
<1>3. CASE \E a \in Callers : Answerer(a) \/ RequestPanics(a) \/ \E c \in Counters : Count(c, a)
  <2> PICK a \in Callers : Answerer(a) \/ RequestPanics(a) \/ \E c \in Counters : Count(c, a)
    BY <1>3
  <2>1. Away(a) \in Counters
    BY DEF Away, Counters
  <2>2. CASE Take(a) \/ ReplyPull(a) \/ HavePushId(a) \/ RequestPanics(a)
    BY <2>1, <2>2 DEF Take, ReplyPull, HavePushId, RequestPanics, IdNext, Counters
  <2>3. CASE Refuse(a) \/ CreateLater(a) \/ EmptyRefused(a) \/ ReplyPush(a)
    BY <2>3 DEF Refuse, CreateLater, EmptyRefused, ReplyPush
  <2>4. CASE \E c \in Counters : Count(c, a)
    BY <2>4 DEF Count, IdNext
  <2> QED BY <2>2, <2>3, <2>4 DEF Answerer
<1>4. CASE \E n \in Counters : Fall(n) \/ Start(n)
  BY <1>4 DEF Fall, Start, IdNext
<1> QED BY <1>1, <1>2, <1>3, <1>4 DEF Next

LEMMA StepPositive == IdTypeOK /\ Positive /\ [IdNext]_idVars => Positive'
<1> SUFFICES ASSUME IdTypeOK, Positive, [IdNext]_idVars PROVE Positive'
  OBVIOUS
<1>1. CASE UNCHANGED idVars
  BY <1>1 DEF idVars, counters, Positive
<1>2. ASSUME NEW c \in Counters, NEW p \in Callers, Add(c, p) \/ Return(c, p)
      PROVE  Positive'
  <2> SUFFICES ASSUME NEW d \in Counters, NEW q \in Callers, at'[d][q] # "no"
               PROVE  max'[d] # 0
    BY DEF Positive
  <2>1. CASE Add(c, p)
    <3>1. max[d] \in Nat /\ max'[d] = IF d = c THEN max[c] + 1 ELSE max[d]
      BY <2>1 DEF IdTypeOK, Add, Counted
    <3>2. d # c => at[d][q] # "no"
      BY <2>1 DEF IdTypeOK, Add
    <3> QED BY <3>1, <3>2 DEF Positive
  <2>2. CASE Return(c, p)
    BY <2>2 DEF IdTypeOK, Positive, Return
  <2> QED BY <1>2, <2>1, <2>2
<1>3. CASE \E c \in Counters, p \in Callers : Drop(c, p) \/ Put(c, p)
  BY <1>3 DEF IdTypeOK, Positive, Drop, Put
<1>4. ASSUME NEW c \in Counters, Wire(c) \/ Load(c)
      PROVE  Positive'
  <2>1. CASE Wire(c)
    BY <2>1 DEF Positive, Wire
  <2>2. CASE Load(c)
    <3>1. at' = at /\ \A d \in Counters : max'[d] = IF d = c THEN Loaded(c) ELSE max[d]
      BY <2>2 DEF Load, IdTypeOK
    <3> QED BY <3>1 DEF Positive, Loaded
  <2> QED BY <1>4, <2>1, <2>2
<1>5. ASSUME NEW c \in Counters, Crash(c) \/ Panic(c)
      PROVE  Positive'
  <2>1. \A d \in Counters, p \in Callers :
          at'[d][p] # "no" => d # c /\ at[d][p] # "no" /\ max'[d] = max[d]
    BY <1>5 DEF IdTypeOK, Crash, Panic, Lose
  <2> QED BY <2>1 DEF Positive
<1> QED BY <1>1, <1>2, <1>3, <1>4, <1>5 DEF IdNext

LEMMA StepApart == IdTypeOK /\ Apart /\ [IdNext]_idVars => Apart'
<1> SUFFICES ASSUME IdTypeOK, Apart, [IdNext]_idVars PROVE Apart'
  OBVIOUS
<1>1. CASE UNCHANGED idVars
  BY <1>1 DEF idVars, counters, idHistory, Apart
<1>2. CASE \E c \in Counters, p \in Callers : Add(c, p)
  BY <1>2 DEF IdTypeOK, Apart, Add
<1>3. CASE \E c \in Counters, p \in Callers : Drop(c, p) \/ Put(c, p)
  BY <1>3 DEF Apart, Drop, Put, idHistory
<1>4. ASSUME NEW c \in Counters, NEW p \in Callers, Return(c, p)
      PROVE  Apart'
  <2> SUFFICES ASSUME NEW d \in Counters, ~twice'[d], NEW a \in Callers, id'[d][a] # 0,
                      NEW b \in Callers
               PROVE  /\ id'[d][a] \in given'[d]
                      /\ id'[d][b] = id'[d][a] => a = b
    BY DEF Apart
  <2>1. CASE d # c
    BY <1>4, <2>1 DEF Apart, Return, IdTypeOK
  <2>2. CASE d = c
    <3>1. ~twice[c] /\ max[c] \notin given[c] /\ given'[c] = given[c] \cup {max[c]}
      BY <1>4, <2>2 DEF Return, IdTypeOK
    <3>2. \A q \in Callers : id'[c][q] = IF q = p THEN max[c] ELSE id[c][q]
      BY <1>4 DEF Return, IdTypeOK
    <3> QED BY <2>2, <3>1, <3>2 DEF Apart
  <2> QED BY <2>1, <2>2
<1>5. CASE \E c \in Counters : Wire(c) \/ Load(c) \/ Crash(c) \/ Panic(c)
  BY <1>5 DEF Apart, Wire, Load, Crash, Panic, Lose, idHistory
<1> QED BY <1>1, <1>2, <1>3, <1>4, <1>5 DEF IdNext
-----------------------------------------------------------------------------
LEMMA NewPushTask_Ordered ==
  ASSUME HInv, IdTypeOK', NEW a \in Callers, NewPushTask(a)
  PROVE  EndsTypeOK' /\ \A b \in Callers : Ordered(b)'
<1>1. EndsTypeOK'
  BY DEF HInv, TypeOK, EndsTypeOK, NewPushTask, Turn, records
<1>2. Ordered(a)'
  BY <1>1, NoneAssumption DEF HInv, TypeOK, EndsTypeOK, IdTypeOK, Ordered, Positive, Home, Away, Counters, NewPushTask, Turn, idVars, counters
<1>3. ASSUME NEW b \in Callers, b # a PROVE Ordered(b)'
  BY <1>1, <1>3, NoneAssumption DEF HInv, TypeOK, EndsTypeOK, IdTypeOK, Ordered, Home, Away, Counters, NewPushTask, Turn, idVars, counters
<1> QED BY <1>1, <1>2, <1>3

LEMMA CreatePushTask_Ordered ==
  ASSUME HInv, IdTypeOK', NEW a \in Callers, CreatePushTask(a)
  PROVE  EndsTypeOK' /\ \A b \in Callers : Ordered(b)'
<1>1. EndsTypeOK'
  BY DEF HInv, TypeOK, EndsTypeOK, Counters, CreatePushTask, Turn, records
<1>2. Ordered(a)'
  BY <1>1, NoneAssumption DEF HInv, TypeOK, EndsTypeOK, IdTypeOK, Ordered, Positive, Home, Away, Counters, CreatePushTask, Turn, Add
<1>3. ASSUME NEW b \in Callers, b # a PROVE Ordered(b)'
  BY <1>1, <1>3, NoneAssumption DEF HInv, TypeOK, EndsTypeOK, IdTypeOK, Ordered, Home, Away, Counters, CreatePushTask, Turn, Add
<1> QED BY <1>1, <1>2, <1>3

LEMMA NewPullTask_Ordered ==
  ASSUME HInv, IdTypeOK', NEW a \in Callers, NewPullTask(a)
  PROVE  EndsTypeOK' /\ \A b \in Callers : Ordered(b)'
<1>1. EndsTypeOK'
  BY DEF HInv, TypeOK, EndsTypeOK, NewPullTask, Turn, Add, records
<1>2. Ordered(a)'
  BY <1>1, NoneAssumption DEF HInv, TypeOK, EndsTypeOK, IdTypeOK, Ordered, Positive, Home, Away, Counters, NewPullTask, Turn, Add
<1>3. ASSUME NEW b \in Callers, b # a PROVE Ordered(b)'
  BY <1>1, <1>3, NoneAssumption DEF HInv, TypeOK, EndsTypeOK, IdTypeOK, Ordered, Home, Away, Counters, NewPullTask, Turn, Add
<1> QED BY <1>1, <1>2, <1>3

LEMMA HaveId_Ordered ==
  ASSUME HInv, IdTypeOK', NEW a \in Callers, HaveId(a)
  PROVE  EndsTypeOK' /\ \A b \in Callers : Ordered(b)'
<1>1. EndsTypeOK'
  BY DEF HInv, TypeOK, EndsTypeOK, HaveId, Turn, Return, records
<1>2. Ordered(a)'
  BY <1>1, NoneAssumption DEF HInv, TypeOK, EndsTypeOK, IdTypeOK, Ordered, Positive, Home, Away, Counters, HaveId, Turn, Return
<1>3. ASSUME NEW b \in Callers, b # a PROVE Ordered(b)'
  BY <1>1, <1>3, NoneAssumption DEF HInv, TypeOK, EndsTypeOK, IdTypeOK, Ordered, Home, Away, Counters, HaveId, Turn, Return
<1> QED BY <1>1, <1>2, <1>3

LEMMA Fail_Ordered ==
  ASSUME HInv, IdTypeOK', NEW a \in Callers, Fail(a)
  PROVE  EndsTypeOK' /\ \A b \in Callers : Ordered(b)'
<1>1. EndsTypeOK'
  BY DEF HInv, TypeOK, EndsTypeOK, Fail, Turn, records
<1>2. Ordered(a)'
  BY <1>1, NoneAssumption DEF HInv, TypeOK, EndsTypeOK, IdTypeOK, Ordered, Positive, Home, Away, Counters, Fail, Turn, idVars, counters
<1>3. ASSUME NEW b \in Callers, b # a PROVE Ordered(b)'
  BY <1>1, <1>3, NoneAssumption DEF HInv, TypeOK, EndsTypeOK, IdTypeOK, Ordered, Home, Away, Counters, Fail, Turn, idVars, counters
<1> QED BY <1>1, <1>2, <1>3

LEMMA EmptyFile_Ordered ==
  ASSUME HInv, IdTypeOK', NEW a \in Callers, EmptyFile(a)
  PROVE  EndsTypeOK' /\ \A b \in Callers : Ordered(b)'
<1>1. EndsTypeOK'
  BY DEF HInv, TypeOK, EndsTypeOK, EmptyFile, Turn, records
<1>2. Ordered(a)'
  BY <1>1, NoneAssumption DEF HInv, TypeOK, EndsTypeOK, IdTypeOK, Ordered, Positive, Home, Away, Counters, EmptyFile, Turn, idVars, counters
<1>3. ASSUME NEW b \in Callers, b # a PROVE Ordered(b)'
  BY <1>1, <1>3, NoneAssumption DEF HInv, TypeOK, EndsTypeOK, IdTypeOK, Ordered, Home, Away, Counters, EmptyFile, Turn, idVars, counters
<1> QED BY <1>1, <1>2, <1>3

LEMMA Announce_Ordered ==
  ASSUME HInv, IdTypeOK', NEW a \in Callers, Announce(a)
  PROVE  EndsTypeOK' /\ \A b \in Callers : Ordered(b)'
<1>1. EndsTypeOK'
  BY DEF HInv, TypeOK, EndsTypeOK, Announce, Turn, OnNet, records
<1>2. Ordered(a)'
  BY <1>1, NoneAssumption DEF HInv, TypeOK, EndsTypeOK, IdTypeOK, Ordered, Positive, Home, Away, Counters, Announce, Turn, OnNet, idVars, counters
<1>3. ASSUME NEW b \in Callers, b # a PROVE Ordered(b)'
  BY <1>1, <1>3, NoneAssumption DEF HInv, TypeOK, EndsTypeOK, IdTypeOK, Ordered, Home, Away, Counters, Announce, Turn, OnNet, idVars, counters
<1> QED BY <1>1, <1>2, <1>3

LEMMA Timeout_Ordered ==
  ASSUME HInv, IdTypeOK', NEW a \in Callers, Timeout(a)
  PROVE  EndsTypeOK' /\ \A b \in Callers : Ordered(b)'
<1>1. EndsTypeOK'
  BY DEF HInv, TypeOK, EndsTypeOK, Timeout, Late, Turn, records
<1>2. Ordered(a)'
  BY <1>1, NoneAssumption DEF HInv, TypeOK, EndsTypeOK, IdTypeOK, Ordered, Positive, Home, Away, Counters, Timeout, Late, Turn, idVars, counters
<1>3. ASSUME NEW b \in Callers, b # a PROVE Ordered(b)'
  BY <1>1, <1>3, NoneAssumption DEF HInv, TypeOK, EndsTypeOK, IdTypeOK, Ordered, Home, Away, Counters, Timeout, Late, Turn, idVars, counters
<1> QED BY <1>1, <1>2, <1>3

LEMMA HearRefusal_Ordered ==
  ASSUME HInv, IdTypeOK', NEW a \in Callers, HearRefusal(a)
  PROVE  EndsTypeOK' /\ \A b \in Callers : Ordered(b)'
<1>1. EndsTypeOK'
  BY DEF HInv, TypeOK, EndsTypeOK, HearRefusal, Turn, records
<1>2. Ordered(a)'
  BY <1>1, NoneAssumption DEF HInv, TypeOK, EndsTypeOK, IdTypeOK, Ordered, Positive, Home, Away, Counters, HearRefusal, Turn, idVars, counters
<1>3. ASSUME NEW b \in Callers, b # a PROVE Ordered(b)'
  BY <1>1, <1>3, NoneAssumption DEF HInv, TypeOK, EndsTypeOK, IdTypeOK, Ordered, Home, Away, Counters, HearRefusal, Turn, idVars, counters
<1> QED BY <1>1, <1>2, <1>3

LEMMA HearPull_Ordered ==
  ASSUME HInv, IdTypeOK', NEW a \in Callers, HearPull(a)
  PROVE  EndsTypeOK' /\ \A b \in Callers : Ordered(b)'
<1>1. EndsTypeOK'
  <2>1. id["pull"][a] \in Nat
    BY DEF HInv, IdInv, IdTypeOK, Counters
  <2>2. task' \in [Callers -> [push : Nat, pull : Nat]]
    BY <2>1 DEF HInv, TypeOK, EndsTypeOK, HearPull
  <2> QED BY <2>2 DEF HInv, TypeOK, EndsTypeOK, HearPull, Turn, records
<1>2. Ordered(a)'
  BY <1>1, NoneAssumption DEF HInv, TypeOK, EndsTypeOK, IdTypeOK, Ordered, Positive, Home, Away, Counters, HearPull, Turn, idVars, counters
<1>3. ASSUME NEW b \in Callers, b # a PROVE Ordered(b)'
  BY <1>1, <1>3, NoneAssumption DEF HInv, TypeOK, EndsTypeOK, IdTypeOK, Ordered, Home, Away, Counters, HearPull, Turn, idVars, counters
<1> QED BY <1>1, <1>2, <1>3

LEMMA SetIds_Ordered ==
  ASSUME HInv, IdTypeOK', NEW a \in Callers, SetIds(a)
  PROVE  EndsTypeOK' /\ \A b \in Callers : Ordered(b)'
<1>1. EndsTypeOK'
  <2>1. id["push"][a] \in Nat
    BY DEF HInv, IdInv, IdTypeOK, Counters
  <2>2. task' \in [Callers -> [push : Nat, pull : Nat]]
    BY <2>1 DEF HInv, TypeOK, EndsTypeOK, SetIds
  <2> QED BY <2>2 DEF HInv, TypeOK, EndsTypeOK, SetIds, Turn, records
<1>2. Ordered(a)'
  BY <1>1, NoneAssumption DEF HInv, TypeOK, EndsTypeOK, IdTypeOK, Ordered, Positive, Home, Away, Counters, SetIds, Turn, idVars, counters
<1>3. ASSUME NEW b \in Callers, b # a PROVE Ordered(b)'
  BY <1>1, <1>3, NoneAssumption DEF HInv, TypeOK, EndsTypeOK, IdTypeOK, Ordered, Home, Away, Counters, SetIds, Turn, idVars, counters
<1> QED BY <1>1, <1>2, <1>3

LEMMA SavePush_Ordered ==
  ASSUME HInv, IdTypeOK', NEW a \in Callers, SavePush(a)
  PROVE  EndsTypeOK' /\ \A b \in Callers : Ordered(b)'
<1>1. EndsTypeOK'
  <2>1. Ids(task[obj[a]].push, task[obj[a]].pull, obj[a]) \in
          [push : Nat \ {0}, pull : Nat \ {0}, of : Callers]
    <3>1. obj[a] \in Callers /\ task[obj[a]].push # 0 /\ task[obj[a]].pull # 0
      BY DEF HInv, TypeOK, EndsTypeOK, Ordered, SavePush
    <3> QED BY <3>1 DEF HInv, TypeOK, EndsTypeOK, Ids
  <2>2. pushDb' \subseteq [push : Nat \ {0}, pull : Nat \ {0}, of : Callers]
    BY <2>1 DEF HInv, TypeOK, EndsTypeOK, SavePush, Saved
  <2> QED BY <2>2 DEF HInv, TypeOK, EndsTypeOK, Counters, SavePush, Turn
<1>2. Ordered(a)'
  BY <1>1, NoneAssumption DEF HInv, TypeOK, EndsTypeOK, IdTypeOK, Ordered, Positive, Home, Away, Counters, SavePush, Turn, Saved, Ids, idVars, counters
<1>3. ASSUME NEW b \in Callers, b # a PROVE Ordered(b)'
  BY <1>1, <1>3, NoneAssumption DEF HInv, TypeOK, EndsTypeOK, IdTypeOK, Ordered, Home, Away, Counters, SavePush, Turn, Saved, Ids, idVars, counters
<1> QED BY <1>1, <1>2, <1>3

LEMMA HearPush_Ordered ==
  ASSUME HInv, IdTypeOK', NEW a \in Callers, HearPush(a)
  PROVE  EndsTypeOK' /\ \A b \in Callers : Ordered(b)'
<1>1. EndsTypeOK'
  BY DEF HInv, TypeOK, EndsTypeOK, HearPush, Turn, records
<1>2. Ordered(a)'
  BY <1>1, NoneAssumption DEF HInv, TypeOK, EndsTypeOK, IdTypeOK, Ordered, Positive, Home, Away, Counters, HearPush, Turn, idVars, counters
<1>3. ASSUME NEW b \in Callers, b # a PROVE Ordered(b)'
  BY <1>1, <1>3, NoneAssumption DEF HInv, TypeOK, EndsTypeOK, IdTypeOK, Ordered, Home, Away, Counters, HearPush, Turn, idVars, counters
<1> QED BY <1>1, <1>2, <1>3

LEMMA CreatePull_Ordered ==
  ASSUME HInv, IdTypeOK', NEW a \in Callers, CreatePull(a)
  PROVE  EndsTypeOK' /\ \A b \in Callers : Ordered(b)'
<1>1. EndsTypeOK'
  <2> DEFINE o == field["pull"]
  <2>0. o \in Callers
    BY DEF HInv, TypeOK, EndsTypeOK, Ordered, CreatePull, Counters
  <2>1. Ids(id["push"][o], id["pull"][o], o) \in
          [push : Nat \ {0}, pull : Nat \ {0}, of : Callers]
    <3>1. id["push"][o] # 0 /\ id["pull"][o] # 0
      BY <2>0 DEF HInv, Ordered, Home, Away
    <3> QED BY <2>0, <3>1 DEF HInv, IdInv, IdTypeOK, Ids, Counters
  <2>2. pullDb' \subseteq [push : Nat \ {0}, pull : Nat \ {0}, of : Callers]
    BY <2>1 DEF HInv, TypeOK, EndsTypeOK, CreatePull, Saved
  <2> QED BY <2>2, <2>0 DEF HInv, TypeOK, EndsTypeOK, Counters, CreatePull, Turn
<1>2. Ordered(a)'
  BY <1>1, NoneAssumption DEF HInv, TypeOK, EndsTypeOK, IdTypeOK, Ordered, Positive, Home, Away, Counters, CreatePull, Turn, Saved, Ids, idVars, counters
<1>3. ASSUME NEW b \in Callers, b # a PROVE Ordered(b)'
  BY <1>1, <1>3, NoneAssumption DEF HInv, TypeOK, EndsTypeOK, IdTypeOK, Ordered, Home, Away, Counters, CreatePull, Turn, Saved, Ids, idVars, counters
<1> QED BY <1>1, <1>2, <1>3

LEMMA Take_Ordered ==
  ASSUME HInv, IdTypeOK', NEW a \in Callers, Take(a)
  PROVE  EndsTypeOK' /\ \A b \in Callers : Ordered(b)'
<1>1. EndsTypeOK'
  BY DEF HInv, TypeOK, EndsTypeOK, Take, OnNet, Other, Add, records
<1>2. Ordered(a)'
  BY <1>1, NoneAssumption DEF HInv, TypeOK, EndsTypeOK, IdTypeOK, Ordered, Positive, Home, Away, Counters, Take, OnNet, Other, Add
<1>3. ASSUME NEW b \in Callers, b # a PROVE Ordered(b)'
  BY <1>1, <1>3, NoneAssumption DEF HInv, TypeOK, EndsTypeOK, IdTypeOK, Ordered, Home, Away, Counters, Take, OnNet, Other, Add
<1> QED BY <1>1, <1>2, <1>3

LEMMA Refuse_Ordered ==
  ASSUME HInv, IdTypeOK', NEW a \in Callers, Refuse(a)
  PROVE  EndsTypeOK' /\ \A b \in Callers : Ordered(b)'
<1>1. EndsTypeOK'
  BY DEF HInv, TypeOK, EndsTypeOK, Refuse, OnNet, Other, records
<1>2. Ordered(a)'
  BY <1>1, NoneAssumption DEF HInv, TypeOK, EndsTypeOK, IdTypeOK, Ordered, Positive, Home, Away, Counters, Refuse, OnNet, Other, idVars, counters
<1>3. ASSUME NEW b \in Callers, b # a PROVE Ordered(b)'
  BY <1>1, <1>3, NoneAssumption DEF HInv, TypeOK, EndsTypeOK, IdTypeOK, Ordered, Home, Away, Counters, Refuse, OnNet, Other, idVars, counters
<1> QED BY <1>1, <1>2, <1>3

LEMMA ReplyPull_Ordered ==
  ASSUME HInv, IdTypeOK', NEW a \in Callers, ReplyPull(a)
  PROVE  EndsTypeOK' /\ \A b \in Callers : Ordered(b)'
<1>1. EndsTypeOK'
  BY DEF HInv, TypeOK, EndsTypeOK, ReplyPull, OnNet, Other, Return, records
<1>2. Ordered(a)'
  BY <1>1, NoneAssumption DEF HInv, TypeOK, EndsTypeOK, IdTypeOK, Ordered, Positive, Home, Away, Counters, ReplyPull, OnNet, Other, Return
<1>3. ASSUME NEW b \in Callers, b # a PROVE Ordered(b)'
  BY <1>1, <1>3, NoneAssumption DEF HInv, TypeOK, EndsTypeOK, IdTypeOK, Ordered, Home, Away, Counters, ReplyPull, OnNet, Other, Return
<1> QED BY <1>1, <1>2, <1>3

LEMMA CreateLater_Ordered ==
  ASSUME HInv, IdTypeOK', NEW a \in Callers, CreateLater(a)
  PROVE  EndsTypeOK' /\ \A b \in Callers : Ordered(b)'
<1>1. EndsTypeOK'
  <2>1. Ids(id["push"][a], id["pull"][a], obj[a]) \in
          [push : Nat \ {0}, pull : Nat \ {0}, of : Callers]
    <3>1. obj[a] \in Callers /\ id["push"][a] # 0 /\ id["pull"][a] # 0
      BY DEF HInv, TypeOK, EndsTypeOK, Ordered, Home, Away, CreateLater
    <3> QED BY <3>1 DEF HInv, IdInv, IdTypeOK, Ids, Counters
  <2>2. pullDb' \subseteq [push : Nat \ {0}, pull : Nat \ {0}, of : Callers]
    BY <2>1 DEF HInv, TypeOK, EndsTypeOK, CreateLater, Saved
  <2> QED BY <2>2 DEF HInv, TypeOK, EndsTypeOK, Counters, CreateLater, Other
<1>2. Ordered(a)'
  BY <1>1, NoneAssumption DEF HInv, TypeOK, EndsTypeOK, IdTypeOK, Ordered, Positive, Home, Away, Counters, CreateLater, Other, Saved, Ids, idVars, counters
<1>3. ASSUME NEW b \in Callers, b # a PROVE Ordered(b)'
  BY <1>1, <1>3, NoneAssumption DEF HInv, TypeOK, EndsTypeOK, IdTypeOK, Ordered, Home, Away, Counters, CreateLater, Other, Saved, Ids, idVars, counters
<1> QED BY <1>1, <1>2, <1>3

LEMMA HavePushId_Ordered ==
  ASSUME HInv, IdTypeOK', NEW a \in Callers, HavePushId(a)
  PROVE  EndsTypeOK' /\ \A b \in Callers : Ordered(b)'
<1>1. EndsTypeOK'
  BY DEF HInv, TypeOK, EndsTypeOK, HavePushId, Other, Return, records
<1>2. Ordered(a)'
  BY <1>1, NoneAssumption DEF HInv, TypeOK, EndsTypeOK, IdTypeOK, Ordered, Positive, Home, Away, Counters, HavePushId, Other, Return
<1>3. ASSUME NEW b \in Callers, b # a PROVE Ordered(b)'
  BY <1>1, <1>3, NoneAssumption DEF HInv, TypeOK, EndsTypeOK, IdTypeOK, Ordered, Home, Away, Counters, HavePushId, Other, Return
<1> QED BY <1>1, <1>2, <1>3

LEMMA EmptyRefused_Ordered ==
  ASSUME HInv, IdTypeOK', NEW a \in Callers, EmptyRefused(a)
  PROVE  EndsTypeOK' /\ \A b \in Callers : Ordered(b)'
<1>1. EndsTypeOK'
  BY DEF HInv, TypeOK, EndsTypeOK, EmptyRefused, OnNet, Other, records
<1>2. Ordered(a)'
  <2>1. /\ net[a] \notin {"none", "ask", "reply"} /\ way[a] = "pull"
        /\ id[Home(a)][a] # 0 /\ field["pull"] # a
    BY DEF HInv, Ordered, EmptyRefused
  <2> QED BY <1>1, <2>1 DEF HInv, TypeOK, EndsTypeOK, Ordered, Home, Away, EmptyRefused, OnNet, Other, idVars, counters
<1>3. ASSUME NEW b \in Callers, b # a PROVE Ordered(b)'
  BY <1>1, <1>3, NoneAssumption DEF HInv, TypeOK, EndsTypeOK, IdTypeOK, Ordered, Home, Away, Counters, EmptyRefused, OnNet, Other, idVars, counters
<1> QED BY <1>1, <1>2, <1>3

LEMMA ReplyPush_Ordered ==
  ASSUME HInv, IdTypeOK', NEW a \in Callers, ReplyPush(a)
  PROVE  EndsTypeOK' /\ \A b \in Callers : Ordered(b)'
<1>1. EndsTypeOK'
  <2>1. Ids(id["push"][a], id["pull"][a], a) \in
          [push : Nat \ {0}, pull : Nat \ {0}, of : Callers]
    <3>1. id["push"][a] # 0 /\ id["pull"][a] # 0
      BY DEF HInv, TypeOK, EndsTypeOK, Ordered, Home, Away, ReplyPush
    <3> QED BY <3>1 DEF HInv, IdInv, IdTypeOK, Ids, Counters
  <2>2. pushDb' \subseteq [push : Nat \ {0}, pull : Nat \ {0}, of : Callers]
    BY <2>1 DEF HInv, TypeOK, EndsTypeOK, ReplyPush, Saved
  <2> QED BY <2>2 DEF HInv, TypeOK, EndsTypeOK, Counters, ReplyPush, OnNet, Other
<1>2. Ordered(a)'
  BY <1>1, NoneAssumption DEF HInv, TypeOK, EndsTypeOK, IdTypeOK, Ordered, Positive, Home, Away, Counters, ReplyPush, OnNet, Other, Saved, Ids, idVars, counters
<1>3. ASSUME NEW b \in Callers, b # a PROVE Ordered(b)'
  BY <1>1, <1>3, NoneAssumption DEF HInv, TypeOK, EndsTypeOK, IdTypeOK, Ordered, Home, Away, Counters, ReplyPush, OnNet, Other, Saved, Ids, idVars, counters
<1> QED BY <1>1, <1>2, <1>3

LEMMA Down_Ordered ==
  ASSUME HInv, NEW n \in Counters, Lose(n), Down(n)
  PROVE  EndsTypeOK' /\ \A b \in Callers : Ordered(b)'
<1>1. EndsTypeOK'
  BY DEF HInv, TypeOK, EndsTypeOK, Down, records
<1>2. ASSUME NEW b \in Callers PROVE Ordered(b)'
  <2>1. /\ way'[b] = way[b] /\ obj'[b] = obj[b] /\ task' = task /\ id' = id
        /\ pc'[b] = IF way[b] = n /\ pc[b] # "idle" /\ ~Ended(b) THEN "failed" ELSE pc[b]
        /\ ans'[b] = IF Away(b) = n /\ ans[b] \in {"id", "save", "sleep"} THEN "lost" ELSE ans[b]
        /\ net'[b] = IF Away(b) = n /\ net[b] \in {"ask", "taken"} THEN "gone" ELSE net[b]
        /\ \A c \in Counters : field'[c] = IF c = n THEN None ELSE field[c]
    BY DEF HInv, TypeOK, EndsTypeOK, Lose, Down
  <2>2. Ordered(b) /\ pc[b] \in {"idle", "named", "id", "send", "wait", "set", "save",
                                 "create", "ok", "void", "failed"}
    BY DEF HInv, TypeOK, EndsTypeOK
  <2>3. net[b] = "reply" => ans[b] \in {"sleep", "done", "lost"}
    BY <2>2 DEF Ordered
  <2> QED BY <2>1, <2>2, NoneAssumption DEF Ordered, Ended, Home, Away, Counters
<1> QED BY <1>1, <1>2

LEMMA Quiet_Ordered ==
  ASSUME HInv, id' = id, UNCHANGED <<ends, records>>
  PROVE  EndsTypeOK' /\ \A b \in Callers : Ordered(b)'
BY DEF HInv, TypeOK, EndsTypeOK, Ordered, Home, Away, ends, records

LEMMA StepOrdered ==
  ASSUME HInv, IdTypeOK', [Next]_vars
  PROVE  EndsTypeOK' /\ \A b \in Callers : Ordered(b)'
<1>1. CASE UNCHANGED vars
  BY <1>1, Quiet_Ordered DEF vars, idVars, counters
<1>2. CASE \E a \in Callers : NewPushTask(a) \/ NewPullTask(a) \/ Asker(a) \/ Answerer(a)
  BY <1>2, NewPushTask_Ordered, CreatePushTask_Ordered, NewPullTask_Ordered, HaveId_Ordered,
     Fail_Ordered, EmptyFile_Ordered, Announce_Ordered, Timeout_Ordered, HearRefusal_Ordered,
     HearPull_Ordered, SetIds_Ordered, SavePush_Ordered, HearPush_Ordered, CreatePull_Ordered,
     Take_Ordered, Refuse_Ordered, ReplyPull_Ordered, CreateLater_Ordered, HavePushId_Ordered,
     EmptyRefused_Ordered, ReplyPush_Ordered, Zenon DEF Asker, Answerer
<1>3. CASE \E a \in Callers, c \in Counters : Count(c, a)
  BY <1>3, Quiet_Ordered DEF Count, Drop, Put
<1>4. CASE \E n \in Counters : Start(n)
  BY <1>4, Quiet_Ordered DEF Start, Wire, Load
<1>5. CASE (\E a \in Callers : RequestPanics(a)) \/ (\E n \in Counters : Fall(n))
  <2>1. \A a : Away(a) \in Counters
    BY DEF Away, Counters
  <2> QED BY <1>5, <2>1, Down_Ordered DEF RequestPanics, Fall, Panic, Crash
<1> QED BY <1>1, <1>2, <1>3, <1>4, <1>5 DEF Next
-----------------------------------------------------------------------------
(* An id once taken stays, and so does the file it was taken for.          *)
LEMMA Keeps ==
  ASSUME HInv, [Next]_vars, NEW a \in Callers, NEW c \in Counters, id[c][a] # 0
  PROVE  id'[c][a] = id[c][a] /\ File(a)' = File(a)
<1>1. pc[a] \notin {"idle", "named"}
  <2>1. Ordered(a)
    BY DEF HInv
  <2>2. pc[a] # "idle"
    BY <2>1 DEF Ordered
  <2>3. pc[a] = "named" => id["push"][a] = 0 /\ id["pull"][a] = 0
    BY <2>1 DEF Ordered, Home, Away
  <2> QED BY <2>2, <2>3 DEF Counters
<1> DEFINE Same == id'[c][a] = id[c][a] /\ way'[a] = way[a] /\ (way[a] = "push" => obj'[a] = obj[a])
<1>2. ASSUME UNCHANGED vars PROVE Same
  BY <1>2 DEF vars, ends, idVars, counters
<1>3. ASSUME NEW b \in Callers, NewPushTask(b) \/ NewPullTask(b) PROVE Same
  <2>1. a # b
    BY <1>1, <1>3 DEF NewPushTask, NewPullTask
  <2>2. way'[a] = way[a] /\ obj' = obj
    BY <1>3, <2>1 DEF HInv, TypeOK, EndsTypeOK, NewPushTask, NewPullTask
  <2>3. id'[c][a] = id[c][a]
    <3>1. id' = id \/ Add("pull", b)
      BY <1>3 DEF NewPushTask, NewPullTask, idVars, counters
    <3> QED BY <2>1, <3>1 DEF HInv, IdInv, IdTypeOK, Add, Counters
  <2> QED BY <2>2, <2>3
<1>4. ASSUME NEW b \in Callers, CreatePushTask(b) PROVE Same
  BY <1>1, <1>4 DEF HInv, TypeOK, EndsTypeOK, IdTypeOK, CreatePushTask, Add
<1>5. ASSUME NEW b \in Callers, HaveId(b) PROVE Same
  <2>1. id[Home(b)][b] = 0
    BY <1>5 DEF HInv, Ordered, HaveId
  <2>2. ~(c = Home(b) /\ a = b)
    BY <2>1
  <2>3. id'[c][a] = id[c][a]
    BY <1>5, <2>2 DEF HInv, IdInv, IdTypeOK, HaveId, Return
  <2> QED BY <1>5, <2>3 DEF HaveId
<1>6. ASSUME NEW b \in Callers, CreatePull(b) PROVE Same
  <2>1. way[b] = "pull"
    BY <1>6 DEF HInv, Ordered, CreatePull
  <2> QED BY <1>6, <2>1 DEF HInv, TypeOK, EndsTypeOK, CreatePull, idVars, counters
<1>7. ASSUME NEW b \in Callers, Asker(b), ~CreatePushTask(b), ~HaveId(b), ~CreatePull(b)
      PROVE  Same
  BY <1>7 DEF Asker, Fail, EmptyFile, Announce, Timeout, HearRefusal, HearPull, SetIds,
     SavePush, HearPush, idVars, counters
<1>8. ASSUME NEW b \in Callers, Take(b) \/ ReplyPull(b) \/ HavePushId(b) PROVE Same
  <2>1. id[Away(b)][b] = 0
    BY <1>8 DEF HInv, Ordered, Take, ReplyPull, HavePushId
  <2>2. Away(b) = IF way[b] = "push" THEN "pull" ELSE "push"
    BY DEF Away
  <2>3. Away(b) \in Counters /\ ~(c = Away(b) /\ a = b)
    BY <2>1, <2>2 DEF Counters
  <2>4. Add(Away(b), b) \/ Return(Away(b), b)
    BY <1>8, <2>2 DEF Take, ReplyPull, HavePushId
  <2>5. id'[c][a] = id[c][a]
    BY <2>3, <2>4 DEF HInv, IdInv, IdTypeOK, Add, Return
  <2> QED BY <1>8, <2>5 DEF Take, ReplyPull, HavePushId
<1>9. ASSUME NEW b \in Callers, Refuse(b) \/ CreateLater(b) \/ EmptyRefused(b) \/ ReplyPush(b)
      PROVE  Same
  BY <1>9 DEF Refuse, CreateLater, EmptyRefused, ReplyPush, idVars, counters
<1>10. ASSUME NEW b \in Callers, RequestPanics(b) \/ \E d \in Counters : Count(d, b) PROVE Same
  BY <1>10 DEF RequestPanics, Panic, Lose, Down, Count, Drop, Put, ends
<1>11. ASSUME NEW d \in Counters, Fall(d) \/ Start(d) PROVE Same
  BY <1>11 DEF Fall, Crash, Lose, Down, Start, Wire, Load, ends
<1>12. Same
  <2>1. ASSUME NEW b \in Callers, Asker(b) \/ Answerer(b) PROVE Same
    BY <2>1, <1>4, <1>5, <1>6, <1>7, <1>8, <1>9 DEF Answerer
  <2> QED BY <1>2, <1>3, <1>10, <1>11, <2>1 DEF Next
<1> QED BY <1>12 DEF File

LEMMA TookKeeps ==
  ASSUME HInv, [Next]_vars, NEW c \in Counters, NEW n, NEW o, Took(c, n, o)
  PROVE  Took(c, n, o)'
<1> PICK a \in Callers : id[c][a] = n /\ n # 0 /\ File(a) = o
  BY DEF Took
<1>1. id'[c][a] = n /\ File(a)' = o
  BY Keeps
<1> QED BY <1>1 DEF Took

LEMMA StepSources == HInv /\ [Next]_vars => Sources'
<1> SUFFICES ASSUME HInv, [Next]_vars PROVE Sources'
  OBVIOUS
<1> DEFINE Fine(r) == Took("push", r.push, r.of) /\ Took("pull", r.pull, r.of)
<1>1. \A n, o : (Took("push", n, o) => Took("push", n, o)') /\ (Took("pull", n, o) => Took("pull", n, o)')
  BY TookKeeps DEF Counters
<1>2. CASE UNCHANGED <<task, pushDb, pullDb>>
  BY <1>1, <1>2 DEF HInv, Sources
<1>3. ASSUME NEW a \in Callers, HearPull(a) PROVE Sources'
  <2>1. id["pull"][a] # 0 /\ obj[a] \in Callers /\ way[a] = "push"
    BY <1>3 DEF HInv, TypeOK, EndsTypeOK, Ordered, HearPull, Away
  <2>2. Took("pull", id["pull"][a], obj[a])
    BY <2>1 DEF Took, File
  <2>3. \A o \in Callers : /\ task'[o].push = task[o].push
                           /\ task'[o].pull = IF o = obj[a] THEN id["pull"][a] ELSE task[o].pull
    BY <1>3 DEF HInv, TypeOK, EndsTypeOK, HearPull
  <2> QED BY <1>1, <1>3, <2>2, <2>3 DEF HInv, Sources, HearPull, records
<1>4. ASSUME NEW a \in Callers, SetIds(a) PROVE Sources'
  <2>1. id["push"][a] # 0 /\ obj[a] \in Callers /\ way[a] = "push"
    BY <1>4 DEF HInv, TypeOK, EndsTypeOK, Ordered, SetIds
  <2>2. Took("push", id["push"][a], obj[a])
    BY <2>1 DEF Took, File
  <2>3. \A o \in Callers : /\ task'[o].pull = task[o].pull
                           /\ task'[o].push = IF o = obj[a] THEN id["push"][a] ELSE task[o].push
    BY <1>4 DEF HInv, TypeOK, EndsTypeOK, SetIds
  <2> QED BY <1>1, <1>4, <2>2, <2>3 DEF HInv, Sources, SetIds, records
<1>5. ASSUME NEW r, Fine(r), task' = task,
             \/ pushDb' = Saved(pushDb, r, "push") /\ pullDb' = pullDb
             \/ pullDb' = Saved(pullDb, r, "pull") /\ pushDb' = pushDb
      PROVE  Sources'
  <2>1. pushDb' \cup pullDb' \subseteq pushDb \cup pullDb \cup {r}
    BY <1>5 DEF Saved
  <2> QED BY <1>1, <1>5, <2>1 DEF HInv, Sources
<1>6. ASSUME NEW a \in Callers, SavePush(a) PROVE Sources'
  <2>1. obj[a] \in Callers /\ task[obj[a]].push # 0 /\ task[obj[a]].pull # 0
    BY <1>6 DEF HInv, TypeOK, EndsTypeOK, Ordered, SavePush
  <2>2. Fine(Ids(task[obj[a]].push, task[obj[a]].pull, obj[a]))
    BY <2>1 DEF HInv, Sources, Ids
  <2> QED BY <1>5, <1>6, <2>2 DEF SavePush
<1>7. ASSUME NEW a \in Callers, CreatePull(a) PROVE Sources'
  <2> DEFINE o == field["pull"]
  <2>1. o \in Callers
    BY <1>7 DEF HInv, TypeOK, EndsTypeOK, Ordered, CreatePull, Counters
  <2>2. id["push"][o] # 0 /\ id["pull"][o] # 0 /\ File(o) = o
    BY <2>1 DEF HInv, Ordered, Home, Away, File
  <2>3. Fine(Ids(id["push"][o], id["pull"][o], o))
    BY <2>1, <2>2 DEF Took, Ids
  <2> QED BY <1>5, <1>7, <2>3 DEF CreatePull
<1>8. ASSUME NEW a \in Callers, CreateLater(a) PROVE Sources'
  <2>1. id["push"][a] # 0 /\ id["pull"][a] # 0 /\ File(a) = obj[a]
    BY <1>8 DEF HInv, Ordered, Home, Away, File, CreateLater
  <2>2. Fine(Ids(id["push"][a], id["pull"][a], obj[a]))
    BY <2>1 DEF Took, Ids
  <2> QED BY <1>5, <1>8, <2>2 DEF CreateLater
<1>9. ASSUME NEW a \in Callers, ReplyPush(a) PROVE Sources'
  <2>1. id["push"][a] # 0 /\ id["pull"][a] # 0 /\ File(a) = a
    BY <1>9 DEF HInv, Ordered, Home, Away, File, ReplyPush
  <2>2. Fine(Ids(id["push"][a], id["pull"][a], a))
    BY <2>1 DEF Took, Ids
  <2> QED BY <1>5, <1>9, <2>2 DEF ReplyPush
<1>10. ASSUME NEW a \in Callers, Asker(a) \/ NewPushTask(a) \/ NewPullTask(a),
              ~HearPull(a), ~SetIds(a), ~SavePush(a), ~CreatePull(a)
       PROVE  UNCHANGED <<task, pushDb, pullDb>>
  BY <1>10 DEF Asker, NewPushTask, NewPullTask, CreatePushTask, HaveId, Fail, EmptyFile, Announce,
     Timeout, HearRefusal, HearPush, records
<1>11. ASSUME NEW a \in Callers, Take(a) \/ Refuse(a) \/ ReplyPull(a) \/ HavePushId(a)
                \/ EmptyRefused(a) \/ RequestPanics(a) \/ \E c \in Counters : Count(c, a)
       PROVE  UNCHANGED <<task, pushDb, pullDb>>
  BY <1>11 DEF Take, Refuse, ReplyPull, HavePushId, EmptyRefused, RequestPanics, Down, Count,
     ends, records
<1>12. CASE UNCHANGED vars \/ \E n \in Counters : Fall(n) \/ Start(n)
  BY <1>2, <1>12 DEF vars, Fall, Start, Down, ends, records
<1> QED BY <1>2, <1>3, <1>4, <1>6, <1>7, <1>8, <1>9, <1>10, <1>11, <1>12 DEF Next, Answerer

LEMMA StepHInv == HInv /\ [Next]_vars => HInv'
<1> SUFFICES ASSUME HInv, [Next]_vars PROVE HInv'
  OBVIOUS
<1>1. [IdNext]_idVars
  BY StepIsIdStep
<1>2. IdInv' /\ IdTypeOK'
  BY <1>1, StepIdInv DEF HInv, IdInv
<1>3. Positive' /\ Apart'
  BY <1>1, StepPositive, StepApart DEF HInv, IdInv
<1>4. EndsTypeOK' /\ \A a \in Callers : Ordered(a)'
  BY <1>2, StepOrdered
<1> QED BY <1>2, <1>3, <1>4, StepSources DEF HInv, TypeOK

LEMMA ReachedHInv == Spec => []HInv
  BY InitHInv, StepHInv, PTL DEF Spec

(* The counters of two nodes that create tasks behave as TaskIds says: the   *)
(* handshake implements it.                                                 *)
THEOREM CountersOfHandshake == Spec => IdSpec
<1>1. Init => IdInit
  BY DEF Init
<1> QED BY <1>1, ReachedHInv, StepIsIdStep, PTL DEF Spec, IdSpec

(* Requests, messages, tasks and records keep their types, and no record is  *)
(* ever saved with an id of zero.                                           *)
THEOREM TypeCorrect == Spec => []TypeOK
  BY ReachedHInv, PTL DEF HInv

(* Whatever overlaps, is late, lost or crashes, among any number of          *)
(* requests: checkPushTask admits no puller to another file than its own,   *)
(* unless both counters gave ids twice.                                     *)
THEOREM OnlyTheRightFile == Spec => []RightFile
<1>1. HInv => RightFile
  <2> SUFFICES ASSUME HInv, NEW c \in Counters, ~twice[c],
                      NEW s \in pushDb, NEW r \in pullDb, Admits(s, r)
               PROVE  s.of = r.of
    BY DEF RightFile
  <2>1. ASSUME NEW n, Took(c, n, s.of), Took(c, n, r.of) PROVE s.of = r.of
    BY <2>1 DEF HInv, Apart, Took
  <2>2. CASE c = "push"
    BY <2>1, <2>2 DEF HInv, Sources, Admits
  <2>3. CASE c = "pull"
    BY <2>1, <2>3 DEF HInv, Sources, Admits
  <2> QED BY <2>2, <2>3 DEF Counters
<1> QED BY <1>1, ReachedHInv, PTL

(* Ids given in order are distinct here too, and grow with time.             *)
THEOREM IdsStayDistinct == Spec => []IdsDistinct /\ NewerIsLarger
  BY CountersOfHandshake, IdsNeverGivenTwice, IdsGrow, PTL
-----------------------------------------------------------------------------
(* Where the two halves of a request are, if no request met another.       *)

Own(a) == Ids(id["push"][a], id["pull"][a], a)

Half(a) ==
  /\ way[a] = "push" =>
       /\ pc[a] \in {"set", "save", "ok"} => net[a] = "reply"
       /\ pc[a] = "ok" => Own(a) \in pushDb
       /\ ans[a] = "done" => Own(a) \in pullDb
  /\ way[a] = "pull" =>
       /\ net[a] = "reply" => Own(a) \in pushDb
       /\ pc[a] = "ok" => net[a] = "reply" /\ Own(a) \in pullDb

\* A goroutine works on a task once only.
Unset(a) ==
  (pc[a] \in {"idle", "named"} \/ (way[a] = "pull" /\ pc[a] \notin {"ok", "failed"})) => obj[a] = None

Halves == (\A a \in Callers : Unset(a)) /\ (Undisturbed => \A a \in Callers : Half(a))

LEMMA HalvesArePaired == HInv /\ Halves => AnsweredIsPaired
<1> SUFFICES ASSUME HInv, Halves, Undisturbed, NEW a \in Callers, pc[a] = "ok"
             PROVE  \/ Paired(a)
                    \/ /\ way[a] = "push" /\ ans[a] \in {"sleep", "lost"}
                       /\ \E s \in pushDb : s.of = a
  BY DEF AnsweredIsPaired
<1>1. Half(a) /\ way[a] \in {"push", "pull"}
  BY DEF HInv, TypeOK, EndsTypeOK, Ordered, Halves
<1>2. net[a] = "reply" /\ ans[a] \in {"sleep", "done", "lost"} /\ Own(a) \in pushDb
  BY <1>1 DEF HInv, Ordered, Half
<1>3. Own(a) \in pullDb => Paired(a)
  BY <1>2 DEF Paired, Own, Ids, Admits
<1>4. Own(a).of = a
  BY DEF Own, Ids
<1> QED BY <1>1, <1>2, <1>3, <1>4 DEF Half

LEMMA InitHalves == Init => Halves
  BY NoneAssumption DEF Init, Halves, Unset, Half

\* What can bring a goroutine into the places that Half speaks of.
Came(a) ==
  /\ net[a] = "reply" => net'[a] = "reply"
  /\ way'[a] = "push" /\ pc'[a] \in {"set", "save", "ok"} =>
       /\ way[a] = "push"
       /\ \/ pc[a] \in {"set", "save", "ok"} \/ net[a] = "reply"
          \/ pc[a] = "send" /\ task[obj[a]].pull # 0
  /\ way'[a] = "push" /\ pc'[a] = "ok" => way[a] = "push" /\ (pc[a] = "ok" \/ SavePush(a))
  /\ way'[a] = "push" /\ ans'[a] = "done" => way[a] = "push" /\ (ans[a] = "done" \/ CreateLater(a))
  /\ way'[a] = "pull" /\ net'[a] = "reply" => way[a] = "pull" /\ (net[a] = "reply" \/ ReplyPush(a))
  /\ way'[a] = "pull" /\ pc'[a] = "ok" => way[a] = "pull" /\ (pc[a] = "ok" \/ CreatePull(a))
  /\ Unset(a)'
  /\ obj'[a] # obj[a] => obj[a] = None
LEMMA StepCame ==
  ASSUME HInv, \A b \in Callers : Unset(b), [Next]_vars, NEW a \in Callers
  PROVE  Came(a)
<1>1. ASSUME NEW b \in Callers, NewPushTask(b) PROVE Came(a)
  <2>1. Ordered(b) /\ Unset(b) /\ Unset(a) /\ EndsTypeOK
    BY DEF HInv, TypeOK
  <2>2. CASE b = a
    BY <1>1, <2>1, <2>2 DEF Ordered, Unset, EndsTypeOK, Came, NewPushTask, Turn
  <2>3. CASE b # a
    BY <1>1, <2>1, <2>3 DEF Unset, EndsTypeOK, Came, NewPushTask, Turn
  <2> QED BY <2>2, <2>3
<1>2. ASSUME NEW b \in Callers, CreatePushTask(b) PROVE Came(a)
  <2>1. Ordered(b) /\ Unset(b) /\ Unset(a) /\ EndsTypeOK
    BY DEF HInv, TypeOK
  <2>2. CASE b = a
    BY <1>2, <2>1, <2>2 DEF Ordered, Unset, EndsTypeOK, Came, CreatePushTask, Turn
  <2>3. CASE b # a
    BY <1>2, <2>1, <2>3 DEF Unset, EndsTypeOK, Came, CreatePushTask, Turn
  <2> QED BY <2>2, <2>3
<1>3. ASSUME NEW b \in Callers, NewPullTask(b) PROVE Came(a)
  <2>1. Ordered(b) /\ Unset(b) /\ Unset(a) /\ EndsTypeOK
    BY DEF HInv, TypeOK
  <2>2. CASE b = a
    BY <1>3, <2>1, <2>2 DEF Ordered, Unset, EndsTypeOK, Came, NewPullTask, Turn
  <2>3. CASE b # a
    BY <1>3, <2>1, <2>3 DEF Unset, EndsTypeOK, Came, NewPullTask, Turn
  <2> QED BY <2>2, <2>3
<1>4. ASSUME NEW b \in Callers, HaveId(b) PROVE Came(a)
  <2>1. Ordered(b) /\ Unset(b) /\ Unset(a) /\ EndsTypeOK
    BY DEF HInv, TypeOK
  <2>2. CASE b = a
    BY <1>4, <2>1, <2>2 DEF Ordered, Unset, EndsTypeOK, Came, HaveId, Turn
  <2>3. CASE b # a
    BY <1>4, <2>1, <2>3 DEF Unset, EndsTypeOK, Came, HaveId, Turn
  <2> QED BY <2>2, <2>3
<1>5. ASSUME NEW b \in Callers, Fail(b) PROVE Came(a)
  <2>1. Ordered(b) /\ Unset(b) /\ Unset(a) /\ EndsTypeOK
    BY DEF HInv, TypeOK
  <2>2. CASE b = a
    BY <1>5, <2>1, <2>2 DEF Ordered, Unset, EndsTypeOK, Came, Fail, Turn
  <2>3. CASE b # a
    BY <1>5, <2>1, <2>3 DEF Unset, EndsTypeOK, Came, Fail, Turn
  <2> QED BY <2>2, <2>3
<1>6. ASSUME NEW b \in Callers, EmptyFile(b) PROVE Came(a)
  <2>1. Ordered(b) /\ Unset(b) /\ Unset(a) /\ EndsTypeOK
    BY DEF HInv, TypeOK
  <2>2. CASE b = a
    BY <1>6, <2>1, <2>2 DEF Ordered, Unset, EndsTypeOK, Came, EmptyFile, Turn
  <2>3. CASE b # a
    BY <1>6, <2>1, <2>3 DEF Unset, EndsTypeOK, Came, EmptyFile, Turn
  <2> QED BY <2>2, <2>3
<1>7. ASSUME NEW b \in Callers, Announce(b) PROVE Came(a)
  <2>1. Ordered(b) /\ Unset(b) /\ Unset(a) /\ EndsTypeOK
    BY DEF HInv, TypeOK
  <2>2. CASE b = a
    BY <1>7, <2>1, <2>2 DEF Ordered, Unset, EndsTypeOK, Came, Announce, Turn, OnNet
  <2>3. CASE b # a
    BY <1>7, <2>1, <2>3 DEF Unset, EndsTypeOK, Came, Announce, Turn, OnNet
  <2> QED BY <2>2, <2>3
<1>8. ASSUME NEW b \in Callers, Timeout(b) PROVE Came(a)
  <2>1. Ordered(b) /\ Unset(b) /\ Unset(a) /\ EndsTypeOK
    BY DEF HInv, TypeOK
  <2>2. CASE b = a
    BY <1>8, <2>1, <2>2 DEF Ordered, Unset, EndsTypeOK, Came, Timeout, Turn, Late
  <2>3. CASE b # a
    BY <1>8, <2>1, <2>3 DEF Unset, EndsTypeOK, Came, Timeout, Turn, Late
  <2> QED BY <2>2, <2>3
<1>9. ASSUME NEW b \in Callers, HearRefusal(b) PROVE Came(a)
  <2>1. Ordered(b) /\ Unset(b) /\ Unset(a) /\ EndsTypeOK
    BY DEF HInv, TypeOK
  <2>2. CASE b = a
    BY <1>9, <2>1, <2>2 DEF Ordered, Unset, EndsTypeOK, Came, HearRefusal, Turn
  <2>3. CASE b # a
    BY <1>9, <2>1, <2>3 DEF Unset, EndsTypeOK, Came, HearRefusal, Turn
  <2> QED BY <2>2, <2>3
<1>10. ASSUME NEW b \in Callers, HearPull(b) PROVE Came(a)
  <2>1. Ordered(b) /\ Unset(b) /\ Unset(a) /\ EndsTypeOK
    BY DEF HInv, TypeOK
  <2>2. CASE b = a
    BY <1>10, <2>1, <2>2 DEF Ordered, Unset, EndsTypeOK, Came, HearPull, Turn
  <2>3. CASE b # a
    BY <1>10, <2>1, <2>3 DEF Unset, EndsTypeOK, Came, HearPull, Turn
  <2> QED BY <2>2, <2>3
<1>11. ASSUME NEW b \in Callers, SetIds(b) PROVE Came(a)
  <2>1. Ordered(b) /\ Unset(b) /\ Unset(a) /\ EndsTypeOK
    BY DEF HInv, TypeOK
  <2>2. CASE b = a
    BY <1>11, <2>1, <2>2 DEF Ordered, Unset, EndsTypeOK, Came, SetIds, Turn
  <2>3. CASE b # a
    BY <1>11, <2>1, <2>3 DEF Unset, EndsTypeOK, Came, SetIds, Turn
  <2> QED BY <2>2, <2>3
<1>12. ASSUME NEW b \in Callers, SavePush(b) PROVE Came(a)
  <2>1. Ordered(b) /\ Unset(b) /\ Unset(a) /\ EndsTypeOK
    BY DEF HInv, TypeOK
  <2>2. CASE b = a
    BY <1>12, <2>1, <2>2 DEF Ordered, Unset, EndsTypeOK, Came, SavePush, Turn
  <2>3. CASE b # a
    BY <1>12, <2>1, <2>3 DEF Unset, EndsTypeOK, Came, SavePush, Turn
  <2> QED BY <2>2, <2>3
<1>13. ASSUME NEW b \in Callers, HearPush(b) PROVE Came(a)
  <2>1. Ordered(b) /\ Unset(b) /\ Unset(a) /\ EndsTypeOK
    BY DEF HInv, TypeOK
  <2>2. CASE b = a
    BY <1>13, <2>1, <2>2 DEF Ordered, Unset, EndsTypeOK, Came, HearPush, Turn
  <2>3. CASE b # a
    BY <1>13, <2>1, <2>3 DEF Unset, EndsTypeOK, Came, HearPush, Turn
  <2> QED BY <2>2, <2>3
<1>14. ASSUME NEW b \in Callers, CreatePull(b) PROVE Came(a)
  <2>1. Ordered(b) /\ Unset(b) /\ Unset(a) /\ EndsTypeOK
    BY DEF HInv, TypeOK
  <2>2. CASE b = a
    <3>1. /\ CreatePull(a) /\ pc[a] = "create" /\ way[a] = "pull"
          /\ pc'[a] = "ok" \/ pc'[a] = "failed"
          /\ UNCHANGED <<way, net, ans, task>>
      BY <1>14, <2>1, <2>2 DEF Ordered, EndsTypeOK, CreatePull, Turn
    <3>2. Unset(a)' /\ (obj'[a] # obj[a] => obj[a] = None)
      BY <2>1, <2>2, <3>1 DEF Unset, EndsTypeOK, CreatePull
    <3> QED BY <3>1, <3>2 DEF Came
  <2>3. CASE b # a
    BY <1>14, <2>1, <2>3 DEF Unset, EndsTypeOK, Came, CreatePull, Turn
  <2> QED BY <2>2, <2>3
<1>15. ASSUME NEW b \in Callers, Take(b) PROVE Came(a)
  <2>1. Ordered(b) /\ Unset(b) /\ Unset(a) /\ EndsTypeOK
    BY DEF HInv, TypeOK
  <2>2. CASE b = a
    BY <1>15, <2>1, <2>2 DEF Ordered, Unset, EndsTypeOK, Came, Take, OnNet, Other
  <2>3. CASE b # a
    BY <1>15, <2>1, <2>3 DEF Unset, EndsTypeOK, Came, Take, OnNet, Other
  <2> QED BY <2>2, <2>3
<1>16. ASSUME NEW b \in Callers, Refuse(b) PROVE Came(a)
  <2>1. Ordered(b) /\ Unset(b) /\ Unset(a) /\ EndsTypeOK
    BY DEF HInv, TypeOK
  <2>2. CASE b = a
    BY <1>16, <2>1, <2>2 DEF Ordered, Unset, EndsTypeOK, Came, Refuse, OnNet, Other
  <2>3. CASE b # a
    BY <1>16, <2>1, <2>3 DEF Unset, EndsTypeOK, Came, Refuse, OnNet, Other
  <2> QED BY <2>2, <2>3
<1>17. ASSUME NEW b \in Callers, ReplyPull(b) PROVE Came(a)
  <2>1. Ordered(b) /\ Unset(b) /\ Unset(a) /\ EndsTypeOK
    BY DEF HInv, TypeOK
  <2>2. CASE b = a
    BY <1>17, <2>1, <2>2 DEF Ordered, Unset, EndsTypeOK, Came, ReplyPull, OnNet, Other
  <2>3. CASE b # a
    BY <1>17, <2>1, <2>3 DEF Unset, EndsTypeOK, Came, ReplyPull, OnNet, Other
  <2> QED BY <2>2, <2>3
<1>18. ASSUME NEW b \in Callers, CreateLater(b) PROVE Came(a)
  <2>1. Ordered(b) /\ Unset(b) /\ Unset(a) /\ EndsTypeOK
    BY DEF HInv, TypeOK
  <2>2. CASE b = a
    BY <1>18, <2>1, <2>2 DEF Ordered, Unset, EndsTypeOK, Came, CreateLater, Other
  <2>3. CASE b # a
    BY <1>18, <2>1, <2>3 DEF Unset, EndsTypeOK, Came, CreateLater, Other
  <2> QED BY <2>2, <2>3
<1>19. ASSUME NEW b \in Callers, HavePushId(b) PROVE Came(a)
  <2>1. Ordered(b) /\ Unset(b) /\ Unset(a) /\ EndsTypeOK
    BY DEF HInv, TypeOK
  <2>2. CASE b = a
    BY <1>19, <2>1, <2>2 DEF Ordered, Unset, EndsTypeOK, Came, HavePushId, Other
  <2>3. CASE b # a
    BY <1>19, <2>1, <2>3 DEF Unset, EndsTypeOK, Came, HavePushId, Other
  <2> QED BY <2>2, <2>3
<1>20. ASSUME NEW b \in Callers, EmptyRefused(b) PROVE Came(a)
  <2>1. Ordered(b) /\ Unset(b) /\ Unset(a) /\ EndsTypeOK
    BY DEF HInv, TypeOK
  <2>2. CASE b = a
    BY <1>20, <2>1, <2>2 DEF Ordered, Unset, EndsTypeOK, Came, EmptyRefused, OnNet, Other
  <2>3. CASE b # a
    BY <1>20, <2>1, <2>3 DEF Unset, EndsTypeOK, Came, EmptyRefused, OnNet, Other
  <2> QED BY <2>2, <2>3
<1>21. ASSUME NEW b \in Callers, ReplyPush(b) PROVE Came(a)
  <2>1. Ordered(b) /\ Unset(b) /\ Unset(a) /\ EndsTypeOK
    BY DEF HInv, TypeOK
  <2>2. CASE b = a
    BY <1>21, <2>1, <2>2 DEF Ordered, Unset, EndsTypeOK, Came, ReplyPush, OnNet, Other
  <2>3. CASE b # a
    BY <1>21, <2>1, <2>3 DEF Unset, EndsTypeOK, Came, ReplyPush, OnNet, Other
  <2> QED BY <2>2, <2>3
<1>22. ASSUME UNCHANGED ends PROVE Came(a)
  BY <1>22 DEF ends, Unset, Came
<1>23. ASSUME NEW d \in Counters, Down(d) PROVE Came(a)
  <2>1. Unset(a) /\ EndsTypeOK
    BY DEF HInv, TypeOK
  <2> QED BY <1>23, <2>1 DEF EndsTypeOK, Ended, Unset, Came, Down
<1>24. CASE UNCHANGED vars \/ \E d \in Counters : Fall(d) \/ Start(d) \/ \E b \in Callers : Count(d, b)
  BY <1>22, <1>23, <1>24 DEF vars, Fall, Start, Count
<1>25. ASSUME NEW b \in Callers, RequestPanics(b) PROVE Came(a)
  BY <1>23, <1>25 DEF RequestPanics, Away, Counters
<1>26. ASSUME NEW b \in Callers, Asker(b) \/ Answerer(b) PROVE Came(a)
  BY <1>26, <1>1, <1>2, <1>3, <1>4, <1>5, <1>6, <1>7, <1>8, <1>9, <1>10, <1>11, <1>12, <1>13, <1>14, <1>15, <1>16, <1>17, <1>18, <1>19, <1>20, <1>21, Zenon DEF Asker, Answerer
<1> QED BY <1>1, <1>3, <1>24, <1>25, <1>26, Zenon DEF Next

LEMMA Undisturbed_Before ==
  ASSUME HInv, Halves, [Next]_vars, Undisturbed'
  PROVE  Undisturbed /\ \A c \in Counters : ~twice[c]
<1>1. \A c \in Counters : flaws[c] \subseteq flaws'[c]
  <2>1. [IdNext]_idVars
    BY StepIsIdStep
  <2>2. CASE UNCHANGED idVars
    BY <2>2 DEF idVars, idHistory
  <2>3. CASE \E c \in Counters, p \in Callers : Add(c, p)
    BY <2>3 DEF HInv, IdInv, IdTypeOK, Add
  <2>4. CASE \E c \in Counters, p \in Callers : Drop(c, p) \/ Put(c, p) \/ Return(c, p)
    BY <2>4 DEF Drop, Put, Return, idHistory
  <2>5. CASE \E c \in Counters : Wire(c) \/ Load(c) \/ Crash(c) \/ Panic(c)
    BY <2>5 DEF HInv, IdInv, IdTypeOK, Wire, Load, Crash, Panic, Lose, idHistory
  <2> QED BY <2>1, <2>2, <2>3, <2>4, <2>5 DEF IdNext
<1>2. \A c \in Counters : flaws[c] = {}
  BY <1>1 DEF Undisturbed
<1>3. ASSUME NEW a \in Callers PROVE obj[a] \in {a, None}
  <2>1. Came(a)
    BY StepCame DEF Halves
  <2> QED BY <2>1 DEF Came, Undisturbed
<1>4. \A c \in Counters : ~twice[c]
  BY <1>2 DEF HInv, IdInv, Sound
<1> QED BY <1>2, <1>3, <1>4 DEF Undisturbed

\* Undisturbed requests save only their own halves.
LEMMA SavesOwn ==
  ASSUME HInv, Halves, [Next]_vars, Undisturbed, Undisturbed', \A c \in Counters : ~twice[c],
         NEW b \in Callers
  PROVE  /\ SavePush(b) => way[b] = "push" /\ pushDb' = Saved(pushDb, Own(b), "push") /\ pullDb' = pullDb
         /\ ReplyPush(b) => pushDb' = Saved(pushDb, Own(b), "push") /\ pullDb' = pullDb
         /\ CreatePull(b) => pullDb' = Saved(pullDb, Own(b), "pull") /\ pushDb' = pushDb
         /\ CreateLater(b) => pullDb' = Saved(pullDb, Own(b), "pull") /\ pushDb' = pushDb
<1>1. ASSUME SavePush(b)
      PROVE  way[b] = "push" /\ pushDb' = Saved(pushDb, Own(b), "push") /\ pullDb' = pullDb
  <2>1. way[b] = "push" /\ obj[b] = b /\ task[b].push # 0 /\ task[b].pull # 0
    BY <1>1 DEF SavePush, HInv, Ordered, Undisturbed
  <2>2. \A d \in Callers : File(d) = b => d = b
    BY NoneAssumption DEF File, Undisturbed
  <2>3. task[b].push = id["push"][b] /\ task[b].pull = id["pull"][b]
    BY <2>1, <2>2 DEF HInv, Sources, Took
  <2> QED BY <1>1, <2>1, <2>3 DEF SavePush, Own
<1>2. ASSUME ReplyPush(b) PROVE pushDb' = Saved(pushDb, Own(b), "push") /\ pullDb' = pullDb
  BY <1>2 DEF ReplyPush, Own
<1>3. ASSUME CreatePull(b) PROVE pullDb' = Saved(pullDb, Own(b), "pull") /\ pushDb' = pushDb
  <2>1. obj'[b] = field["pull"] /\ field["pull"] # None
    BY <1>3 DEF CreatePull, HInv, TypeOK, EndsTypeOK, Ordered
  <2>2. field["pull"] = b
    BY <2>1 DEF Undisturbed
  <2> QED BY <1>3, <2>2 DEF CreatePull, Own
<1>4. ASSUME CreateLater(b) PROVE pullDb' = Saved(pullDb, Own(b), "pull") /\ pushDb' = pushDb
  <2>1. obj[b] = b
    BY <1>4 DEF CreateLater, HInv, Ordered, Undisturbed
  <2> QED BY <1>4, <2>1 DEF CreateLater, Own
<1> QED BY <1>1, <1>2, <1>3, <1>4

\* Own(a) in a database is replaced by nobody else's record.
LEMMA OwnStays ==
  ASSUME HInv, Halves, [Next]_vars, Undisturbed, Undisturbed', \A c \in Counters : ~twice[c],
         NEW a \in Callers
  PROVE  /\ Own(a) \in pushDb => Own(a)' \in pushDb'
         /\ Own(a) \in pullDb => Own(a)' \in pullDb'
<1>1. ASSUME Own(a) \in pushDb \cup pullDb
      PROVE  id["push"][a] # 0 /\ id["pull"][a] # 0 /\ Own(a)' = Own(a)
  <2>1. id["push"][a] # 0 /\ id["pull"][a] # 0
    BY <1>1 DEF HInv, TypeOK, EndsTypeOK, Own, Ids
  <2> QED BY <2>1, Keeps DEF Own, Counters
<1>2. ASSUME NEW b \in Callers, NEW db, Own(a) \in db, db \in {pushDb, pullDb},
             NEW c \in Counters
      PROVE  Own(a) \in Saved(db, Own(b), c)
  <2>1. CASE a = b
    BY <2>1 DEF Saved
  <2>2. CASE a # b
    <3>1. id[c][a] # 0
      BY <1>1, <1>2 DEF Counters
    <3>2. id[c][a] # id[c][b]
      BY <2>2, <3>1 DEF HInv, Apart
    <3>3. Own(a)[c] = id[c][a] /\ Own(b)[c] = id[c][b]
      BY DEF Own, Ids, Counters
    <3> QED BY <1>2, <3>2, <3>3 DEF Saved
  <2> QED BY <2>1, <2>2
<1>3. CASE UNCHANGED <<pushDb, pullDb>>
  BY <1>1, <1>3
<1>4. ASSUME NEW b \in Callers, SavePush(b) \/ ReplyPush(b)
      PROVE  pushDb' = Saved(pushDb, Own(b), "push") /\ pullDb' = pullDb
  BY <1>4, SavesOwn
<1>5. ASSUME NEW b \in Callers, CreatePull(b) \/ CreateLater(b)
      PROVE  pullDb' = Saved(pullDb, Own(b), "pull") /\ pushDb' = pushDb
  BY <1>5, SavesOwn
<1>6. CASE \E b \in Callers : SavePush(b) \/ ReplyPush(b) \/ CreatePull(b) \/ CreateLater(b)
  BY <1>1, <1>2, <1>4, <1>5, <1>6 DEF Counters
<1>7. ASSUME NEW b \in Callers, Asker(b) \/ NewPushTask(b) \/ NewPullTask(b),
              ~SavePush(b), ~CreatePull(b)
       PROVE  UNCHANGED <<pushDb, pullDb>>
  BY <1>7 DEF Asker, NewPushTask, NewPullTask, CreatePushTask, HaveId, Fail, EmptyFile, Announce,
     Timeout, HearRefusal, HearPull, SetIds, HearPush, records
<1>8. ASSUME NEW b \in Callers, Take(b) \/ Refuse(b) \/ ReplyPull(b) \/ HavePushId(b)
                \/ EmptyRefused(b) \/ RequestPanics(b) \/ \E c \in Counters : Count(c, b)
       PROVE  UNCHANGED <<pushDb, pullDb>>
  BY <1>8 DEF Take, Refuse, ReplyPull, HavePushId, EmptyRefused, RequestPanics, Down, Count, records
<1>9. CASE UNCHANGED vars \/ \E n \in Counters : Fall(n) \/ Start(n)
  BY <1>3, <1>9 DEF vars, Fall, Start, Down, records
<1> QED BY <1>3, <1>6, <1>7, <1>8, <1>9 DEF Next, Answerer

LEMMA StepHalves == HInv /\ Halves /\ [Next]_vars => Halves'
<1> SUFFICES ASSUME HInv, Halves, [Next]_vars PROVE Halves'
  OBVIOUS
<1>1. \A a \in Callers : Came(a)
  BY StepCame DEF Halves
<1>2. ASSUME Undisturbed', NEW a \in Callers PROVE Half(a)'
  <2>1. Undisturbed /\ (\A c \in Counters : ~twice[c]) /\ Half(a) /\ Ordered(a)
    BY <1>2, Undisturbed_Before DEF Halves, HInv
  <2>2. /\ Own(a) \in pushDb => Own(a)' \in pushDb'
        /\ Own(a) \in pullDb => Own(a)' \in pullDb'
    BY <1>2, <2>1, OwnStays
  <2>3. ASSUME NEW b \in Callers PROVE Own(b) \in Saved(pushDb, Own(b), "push") /\ Own(b) \in Saved(pullDb, Own(b), "pull")
    BY DEF Saved
  <2>5. ~(pc[a] = "send" /\ way[a] = "push" /\ task[obj[a]].pull # 0)
    <3> SUFFICES ASSUME pc[a] = "send", way[a] = "push", task[obj[a]].pull # 0 PROVE FALSE
      OBVIOUS
    <3>1. obj[a] = a /\ id["pull"][a] = 0
      BY <2>1 DEF Ordered, Undisturbed, Away
    <3>2. PICK d \in Callers : id["pull"][d] # 0 /\ File(d) = a
      BY <3>1 DEF HInv, Sources, Took
    <3>3. d = a
      BY <2>1, <3>2, NoneAssumption DEF File, Undisturbed
    <3> QED BY <3>1, <3>2, <3>3
  <2>6. ASSUME way'[a] = "push", pc'[a] \in {"set", "save", "ok"} PROVE net'[a] = "reply"
    BY <1>1, <2>1, <2>5, <2>6 DEF Came, Half
  <2>7. ASSUME way'[a] = "push", pc'[a] = "ok" PROVE Own(a)' \in pushDb'
    <3>1. CASE pc[a] = "ok"
      BY <1>1, <2>1, <2>2, <2>7, <3>1 DEF Came, Half
    <3>2. CASE SavePush(a)
      <4>1. Own(a) \in pushDb'
        BY <1>2, <2>1, <2>3, <3>2, SavesOwn
      <4>2. id' = id
        BY <3>2 DEF SavePush, idVars, counters
      <4> QED BY <4>1, <4>2 DEF Own
    <3> QED BY <1>1, <2>7, <3>1, <3>2 DEF Came
  <2>8. ASSUME way'[a] = "push", ans'[a] = "done" PROVE Own(a)' \in pullDb'
    <3>1. CASE ans[a] = "done"
      BY <1>1, <2>1, <2>2, <2>8, <3>1 DEF Came, Half
    <3>2. CASE CreateLater(a)
      <4>1. Own(a) \in pullDb'
        BY <1>2, <2>1, <2>3, <3>2, SavesOwn
      <4>2. id' = id
        BY <3>2 DEF CreateLater, idVars, counters
      <4> QED BY <4>1, <4>2 DEF Own
    <3> QED BY <1>1, <2>8, <3>1, <3>2 DEF Came
  <2>9. ASSUME way'[a] = "pull", net'[a] = "reply" PROVE Own(a)' \in pushDb'
    <3>1. CASE net[a] = "reply"
      BY <1>1, <2>1, <2>2, <2>9, <3>1 DEF Came, Half
    <3>2. CASE ReplyPush(a)
      <4>1. Own(a) \in pushDb'
        BY <1>2, <2>1, <2>3, <3>2, SavesOwn
      <4>2. id' = id
        BY <3>2 DEF ReplyPush, idVars, counters
      <4> QED BY <4>1, <4>2 DEF Own
    <3> QED BY <1>1, <2>9, <3>1, <3>2 DEF Came
  <2>10. ASSUME way'[a] = "pull", pc'[a] = "ok" PROVE net'[a] = "reply" /\ Own(a)' \in pullDb'
    <3>1. CASE pc[a] = "ok"
      BY <1>1, <2>1, <2>2, <2>10, <3>1 DEF Came, Half
    <3>2. CASE CreatePull(a)
      <4>1. Own(a) \in pullDb'
        BY <1>2, <2>1, <2>3, <3>2, SavesOwn
      <4>2. id' = id /\ net' = net /\ net[a] = "reply"
        BY <2>1, <3>2 DEF CreatePull, idVars, counters, Ordered
      <4> QED BY <4>1, <4>2 DEF Own
    <3> QED BY <1>1, <2>10, <3>1, <3>2 DEF Came
  <2> QED BY <2>6, <2>7, <2>8, <2>9, <2>10 DEF Half
<1>3. \A a \in Callers : Unset(a)'
  BY <1>1 DEF Came
<1> QED BY <1>2, <1>3 DEF Halves

(* Of any number of requests whose ids were in order and that did not meet   *)
(* in the manager's fields, every one that succeeded has both halves, or a  *)
(* puller that sleeps or crashed before it created its own.                 *)
THEOREM SuccessIsPaired == Spec => []AnsweredIsPaired
<1>1. Init => HInv /\ Halves
  BY InitHInv, InitHalves
<1>2. (HInv /\ Halves) /\ [Next]_vars => (HInv /\ Halves)'
  BY StepHInv, StepHalves
<1>3. HInv /\ Halves => AnsweredIsPaired
  BY HalvesArePaired
<1> QED BY <1>1, <1>2, <1>3, PTL DEF Spec
=============================================================================
