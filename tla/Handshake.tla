----------------------------- MODULE Handshake -----------------------------
(***************************************************************************)
(* How the two halves of a transfer come about. A node that has a file     *)
(* pushes it (NewPushTask, CreatePushTask, answered by RecvNewPushTask), or *)
(* a node asks for one (NewPullTask, answered by RecvNewPullTask, which     *)
(* calls CreatePushTask). Either way one request and one reply travel on a *)
(* connection made for them, each side takes an id from a counter of its   *)
(* own, and each side keeps a record of its half.                          *)
(*                                                                         *)
(* The node "push" keeps the push tasks and their counter, the node "pull" *)
(* the pull tasks and theirs. Each request is an element of Callers: it    *)
(* has one goroutine on each node.                                         *)
(***************************************************************************)
EXTENDS TaskIds

CONSTANT None

ASSUME NoneAssumption == None \notin Callers

VARIABLES
  way,     \* which way each request goes ("none": it was not made)
  pc,      \* where the goroutine that asks stands
  ans,     \* where the goroutine that answers stands
  net,     \* what is on the request's connection
  field,   \* TransferManger.PushTask and .PullTask: whose task they hold
  obj,     \* whose task the asking goroutine works on
  task,    \* the ids in each PushTask in memory
  pushDb,  \* the records of push tasks
  pullDb   \* the records of pull tasks

ends == <<way, pc, ans, net, field, obj, task>>
records == <<pushDb, pullDb>>
vars == <<idVars, ends, records>>

\* A request goes from the node that counts the asker's ids to the other.
Home(a) == way[a]
Away(a) == IF way[a] = "push" THEN "pull" ELSE "push"

Turn(a, here) == pc' = [pc EXCEPT ![a] = here]
Other(a, there) == ans' = [ans EXCEPT ![a] = there]
OnNet(a, m) == net' = [net EXCEPT ![a] = m]

Ended(a) == pc[a] \in {"ok", "void", "failed"}

Ids(push, pull, o) == [push |-> push, pull |-> pull, of |-> o]

\* A record takes the place of one with its id.
Saved(db, r, key) == {s \in db : s[key] # r[key]} \cup {r}

Init ==
  /\ IdInit
  /\ way = [a \in Callers |-> "none"] /\ pc = [a \in Callers |-> "idle"]
  /\ ans = [a \in Callers |-> "no"] /\ net = [a \in Callers |-> "none"]
  /\ field = [c \in Counters |-> None] /\ obj = [a \in Callers |-> None]
  /\ task = [a \in Callers |-> [push |-> 0, pull |-> 0]]
  /\ pushDb = {} /\ pullDb = {}
-----------------------------------------------------------------------------
(* The goroutine that asks.                                                *)

\* The manager is created before the HTTP server listens, after Load.
NewPushTask(a) ==
  /\ pc[a] = "idle" /\ boot["push"] = "up"
  /\ way' = [way EXCEPT ![a] = "push"]
  /\ field' = [field EXCEPT !["push"] = a]
  /\ Turn(a, "named")
  /\ UNCHANGED <<idVars, ans, net, obj, task, records>>

\* The task is the one the field holds by now.
CreatePushTask(a) ==
  /\ pc[a] = "named"
  /\ obj' = [obj EXCEPT ![a] = field["push"]]
  /\ Add("push", a) /\ Turn(a, "id")
  /\ UNCHANGED <<way, ans, net, field, task, records>>

NewPullTask(a) ==
  /\ pc[a] = "idle" /\ boot["pull"] = "up"
  /\ way' = [way EXCEPT ![a] = "pull"]
  /\ Add("pull", a) /\ Turn(a, "id")
  /\ UNCHANGED <<ans, net, field, obj, task, records>>

\* Of either side: the steps inside newTaskID.
Count(c, a) ==
  /\ Drop(c, a) \/ Put(c, a)
  /\ UNCHANGED <<ends, records>>

HaveId(a) ==
  /\ pc[a] = "id" /\ Return(Home(a), a) /\ Turn(a, "send")
  /\ UNCHANGED <<way, ans, net, field, obj, task, records>>

\* A path that is not absolute, a file that cannot be read, a failed dial.
Fail(a) ==
  /\ pc[a] \in {"named", "send"} /\ Turn(a, "failed")
  /\ UNCHANGED <<idVars, way, ans, net, field, obj, task, records>>

\* An empty file: no error, and nothing is done.
EmptyFile(a) ==
  /\ pc[a] = "send" /\ way[a] = "push" /\ Turn(a, "void")
  /\ UNCHANGED <<idVars, way, ans, net, field, obj, task, records>>

\* A task that has a pull id already (a concurrent request used it) is not sent.
Announce(a) ==
  /\ pc[a] = "send"
  /\ IF way[a] = "push" /\ task[obj[a]].pull # 0
       THEN Turn(a, "set") /\ UNCHANGED net
       ELSE Turn(a, "wait") /\ OnNet(a, "ask")
  /\ UNCHANGED <<idVars, way, ans, field, obj, task, records>>

\* Mutant: no deadline, the goroutine waits until the connection is reset.
Late_never(a) == pc[a] = "wait" /\ net[a] = "none"

Late(a) == pc[a] = "wait"

\* The deadline of Send, or a connection that broke.
Timeout(a) ==
  /\ Late(a) /\ Turn(a, "failed")
  /\ UNCHANGED <<idVars, way, ans, net, field, obj, task, records>>

HearRefusal(a) ==
  /\ pc[a] = "wait" /\ net[a] = "refusal" /\ Turn(a, "failed")
  /\ UNCHANGED <<idVars, way, ans, net, field, obj, task, records>>

HearPull(a) ==
  /\ pc[a] = "wait" /\ net[a] = "reply" /\ way[a] = "push"
  /\ task' = [task EXCEPT ![obj[a]].pull = id["pull"][a]]
  /\ Turn(a, "set")
  /\ UNCHANGED <<idVars, way, ans, net, field, obj, records>>

\* Mutant: the task keeps the push id it had.
SetIds_not(a) ==
  /\ pc[a] = "set" /\ Turn(a, "save")
  /\ UNCHANGED <<idVars, way, ans, net, field, obj, task, records>>

SetIds(a) ==
  /\ pc[a] = "set"
  /\ task' = [task EXCEPT ![obj[a]].push = id["push"][a]]
  /\ Turn(a, "save")
  /\ UNCHANGED <<idVars, way, ans, net, field, obj, records>>

SavePush(a) ==
  /\ pc[a] = "save"
  /\ pushDb' = Saved(pushDb, Ids(task[obj[a]].push, task[obj[a]].pull, obj[a]), "push")
  /\ Turn(a, "ok")
  /\ UNCHANGED <<idVars, way, ans, net, field, obj, task, pullDb>>

HearPush(a) ==
  /\ pc[a] = "wait" /\ net[a] = "reply" /\ way[a] = "pull"
  /\ field' = [field EXCEPT !["pull"] = a]
  /\ Turn(a, "create")
  /\ UNCHANGED <<idVars, way, ans, net, obj, task, records>>

\* CreatePullTask saves the record before it makes the temporary file; when
\* that fails the request fails and the record stays.
CreatePull(a) ==
  /\ pc[a] = "create"
  /\ obj' = [obj EXCEPT ![a] = field["pull"]]
  /\ LET o == field["pull"]
     IN  pullDb' = Saved(pullDb, Ids(id["push"][o], id["pull"][o], o), "pull")
  /\ Turn(a, "ok") \/ Turn(a, "failed")
  /\ UNCHANGED <<idVars, way, ans, net, field, task, pushDb>>
-----------------------------------------------------------------------------
(* The goroutine that answers.                                             *)

\* RecvNewPushTask, or RecvNewPullTask once the request is permitted.
Take(a) ==
  /\ net[a] = "ask" /\ Add(Away(a), a)
  /\ OnNet(a, "taken") /\ Other(a, "id")
  /\ UNCHANGED <<way, pc, field, obj, task, records>>

\* White list, sharing directories, the file.
Refuse(a) ==
  /\ net[a] = "ask" /\ way[a] = "pull" /\ boot["push"] # "bare"
  /\ OnNet(a, "refusal") /\ Other(a, "done")
  /\ UNCHANGED <<idVars, way, pc, field, obj, task, records>>

\* RecvNewPushTask leaves the rest to a goroutine and returns.
ReplyPull(a) ==
  /\ ans[a] = "id" /\ way[a] = "push" /\ Return("pull", a)
  /\ OnNet(a, "reply") /\ Other(a, "sleep")
  /\ UNCHANGED <<way, pc, field, obj, task, records>>

CreateLater(a) ==
  /\ ans[a] = "sleep"
  /\ pullDb' = Saved(pullDb, Ids(id["push"][a], id["pull"][a], obj[a]), "pull")
  /\ Other(a, "done")
  /\ UNCHANGED <<idVars, way, pc, net, field, obj, task, pushDb>>

HavePushId(a) ==
  /\ ans[a] = "id" /\ way[a] = "pull" /\ Return("push", a) /\ Other(a, "save")
  /\ UNCHANGED <<way, pc, net, field, obj, task, records>>

\* CreatePushTask of an empty file returns neither a message nor an error.
EmptyRefused(a) ==
  /\ ans[a] = "save" /\ OnNet(a, "refusal") /\ Other(a, "done")
  /\ UNCHANGED <<idVars, way, pc, field, obj, task, records>>

\* Mutant: the reply does not wait for the save.
ReplyPush_unsaved(a) ==
  /\ ans[a] = "save" /\ OnNet(a, "reply") /\ Other(a, "done")
  /\ UNCHANGED <<idVars, way, pc, field, obj, task, records>>

ReplyPush(a) ==
  /\ ans[a] = "save"
  /\ pushDb' = Saved(pushDb, Ids(id["push"][a], id["pull"][a], a), "push")
  /\ OnNet(a, "reply") /\ Other(a, "done")
  /\ UNCHANGED <<idVars, way, pc, field, obj, task, pullDb>>
-----------------------------------------------------------------------------
\* All goroutines of a node end; its database stays.
Down(n) ==
  /\ pc' = [a \in Callers |->
              IF way[a] = n /\ pc[a] # "idle" /\ ~Ended(a) THEN "failed" ELSE pc[a]]
  /\ ans' = [a \in Callers |->
              IF Away(a) = n /\ ans[a] \in {"id", "save", "sleep"} THEN "lost" ELSE ans[a]]
  /\ net' = [a \in Callers |->
              IF Away(a) = n /\ net[a] \in {"ask", "taken"} THEN "gone" ELSE net[a]]
  /\ field' = [field EXCEPT ![n] = None]
  /\ UNCHANGED <<way, obj, task, records>>

\* The handler is nil, or TransferTaskManger is.
RequestPanics(a) == net[a] = "ask" /\ Panic(Away(a)) /\ Down(Away(a))

Fall(n) == Crash(n) /\ Down(n)

Start(n) == (Wire(n) \/ Load(n)) /\ UNCHANGED <<ends, records>>

Asker(a) ==
  \/ CreatePushTask(a) \/ HaveId(a) \/ Fail(a) \/ EmptyFile(a) \/ Announce(a)
  \/ Timeout(a) \/ HearRefusal(a) \/ HearPull(a) \/ SetIds(a) \/ SavePush(a)
  \/ HearPush(a) \/ CreatePull(a)

Answerer(a) ==
  \/ Take(a) \/ Refuse(a) \/ ReplyPull(a) \/ CreateLater(a) \/ HavePushId(a)
  \/ EmptyRefused(a) \/ ReplyPush(a)

Next ==
  \/ \E a \in Callers : \/ NewPushTask(a) \/ NewPullTask(a) \/ Asker(a) \/ Answerer(a)
                        \/ RequestPanics(a)
                        \/ \E c \in Counters : Count(c, a)
  \/ \E n \in Counters : Fall(n) \/ Start(n)

Spec == Init /\ [][Next]_vars

FairSpec ==
  /\ Spec
  /\ \A n \in Counters : WF_vars(Start(n))
  /\ \A a \in Callers :
       /\ WF_vars(Asker(a)) /\ WF_vars(Answerer(a))
       /\ \A c \in Counters : WF_vars(Count(c, a))
-----------------------------------------------------------------------------
EndsTypeOK ==
  /\ way \in [Callers -> {"none", "push", "pull"}]
  /\ pc \in [Callers -> {"idle", "named", "id", "send", "wait", "set", "save",
                         "create", "ok", "void", "failed"}]
  /\ ans \in [Callers -> {"no", "id", "sleep", "save", "done", "lost"}]
  /\ net \in [Callers -> {"none", "ask", "taken", "reply", "refusal", "gone"}]
  /\ field \in [Counters -> Callers \cup {None}]
  /\ obj \in [Callers -> Callers \cup {None}]
  /\ task \in [Callers -> [push : Nat, pull : Nat]]
  /\ pushDb \subseteq [push : Nat \ {0}, pull : Nat \ {0}, of : Callers]
  /\ pullDb \subseteq [push : Nat \ {0}, pull : Nat \ {0}, of : Callers]

TypeOK == IdTypeOK /\ EndsTypeOK

\* Mutant: checkPushTask asks for the push id only.
Admits_anyPull(s, r) == s.push = r.push

\* checkPushTask lets the puller with record r read for the push record s.
Admits(s, r) == s.push = r.push /\ s.pull = r.pull

(* However requests overlap, take each other's task from the field, are      *)
(* answered too late, or get one id from a counter that was read twice or   *)
(* lost: checkPushTask never lets a puller read another file than the one   *)
(* its task is for, unless both counters gave ids twice.                    *)
RightFile ==
  (\E c \in Counters : ~twice[c]) =>
    \A s \in pushDb, r \in pullDb : Admits(s, r) => s.of = r.of

\* The ids were in order and no request met another in the manager's fields.
Undisturbed ==
  /\ \A c \in Counters : flaws[c] = {}
  /\ \A a \in Callers : obj[a] \in {a, None}

Paired(a) ==
  \E s \in pushDb : s.of = a /\ \E r \in pullDb : r.of = a /\ Admits(s, r)

(* A request that succeeded left both halves with matching ids, or its push  *)
(* task and a puller that is still in its second of sleep or crashed in it; *)
(* a failed one may leave either half without the other.                    *)
AnsweredIsPaired ==
  Undisturbed => \A a \in Callers : pc[a] = "ok" =>
    \/ Paired(a)
    \/ way[a] = "push" /\ ans[a] \in {"sleep", "lost"} /\ \E s \in pushDb : s.of = a

(* Every request ends, whatever became of the other node, and no puller      *)
(* sleeps for ever.                                                         *)
AskEnds == \A a \in Callers : pc[a] # "idle" ~> Ended(a) /\ ans[a] # "sleep"
=============================================================================
