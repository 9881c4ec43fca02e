------------------------------ MODULE TaskIds ------------------------------
(***************************************************************************)
(* The two counters task ids are taken from, newTaskID: one for push tasks *)
(* and one for pull tasks. An id is counted in memory, saved in the        *)
(* database, and read from memory again to be returned; nothing keeps two  *)
(* callers apart. After a crash the counter comes back in Load, while the  *)
(* TCP server runs already. A counter stands for the node that keeps it.   *)
(***************************************************************************)
EXTENDS Naturals

CONSTANTS
  Callers,    \* goroutines that call newTaskID
  MaxCrashes  \* bound on the crashes

ASSUME MaxCrashesAssumption == MaxCrashes \in Nat

Counters == {"push", "pull"}

VARIABLES
  max,      \* PushTaskIDMax, PullTaskIDMax
  stored,   \* the counter in the database (0: no such key)
  at,       \* where each caller stands in newTaskID
  num,      \* the number each caller is saving (0 outside)
  id,       \* what newTaskID returned to each caller (0: nothing yet)
  boot,     \* how far the node has come since it was started
  given,    \* history: all ids returned
  twice,    \* history: an id was returned that had been returned before
  last,     \* history: the largest id returned; a crash after a flaw forgets it
  floor,    \* history: what last was when each caller inside began
  flaws,    \* history: what was out of order so far
  crashes   \* crashes so far (bounds the model)

counters == <<max, stored, at, num, id, boot>>
idHistory == <<given, twice, last, floor, flaws>>
idVars == <<counters, idHistory, crashes>>

PerCaller(x) == [c \in Counters |-> [p \in Callers |-> x]]

IdInit ==
  /\ max = [c \in Counters |-> 0] /\ stored = [c \in Counters |-> 0]
  /\ at = PerCaller("no") /\ num = PerCaller(0) /\ id = PerCaller(0)
  /\ boot = [c \in Counters |-> "bare"]
  /\ given = [c \in Counters |-> {}] /\ twice = [c \in Counters |-> FALSE]
  /\ last = [c \in Counters |-> 0] /\ floor = PerCaller(0)
  /\ flaws = [c \in Counters |-> {}] /\ crashes = 0

Inside(c) == {p \in Callers : at[c][p] # "no"}

\* What a call that begins now does wrong.
Untimely(c) ==
  (IF Inside(c) # {} THEN {"overlap"} ELSE {}) \cup
  (IF boot[c] # "up" THEN {"early"} ELSE {})

\* atomic.AddUint64
Counted(c) == max[c] + 1

Add(c, p) ==
  /\ at[c][p] = "no" /\ boot[c] # "bare"
  /\ max' = [max EXCEPT ![c] = Counted(c)]
  /\ num' = [num EXCEPT ![c][p] = Counted(c)]
  /\ at' = [at EXCEPT ![c][p] = "drop"]
  /\ id' = [id EXCEPT ![c][p] = 0]
  /\ floor' = [floor EXCEPT ![c][p] = last[c]]
  /\ flaws' = [flaws EXCEPT ![c] = @ \cup Untimely(c)]
  /\ UNCHANGED <<stored, boot, given, twice, last, crashes>>

\* The Delete of LevelDB.Save ...
Drop(c, p) ==
  /\ at[c][p] = "drop"
  /\ stored' = [stored EXCEPT ![c] = 0]
  /\ at' = [at EXCEPT ![c][p] = "put"]
  /\ UNCHANGED <<max, num, id, boot, idHistory, crashes>>

\* ... and its Put.
Put(c, p) ==
  /\ at[c][p] = "put"
  /\ stored' = [stored EXCEPT ![c] = num[c][p]]
  /\ at' = [at EXCEPT ![c][p] = "return"]
  /\ UNCHANGED <<max, num, id, boot, idHistory, crashes>>

\* The counter is read once more.
Return(c, p) ==
  /\ at[c][p] = "return"
  /\ id' = [id EXCEPT ![c][p] = max[c]]
  /\ at' = [at EXCEPT ![c][p] = "no"]
  /\ given' = [given EXCEPT ![c] = @ \cup {max[c]}]
  /\ twice' = [twice EXCEPT ![c] = @ \/ max[c] \in given[c]]
  /\ last' = [last EXCEPT ![c] = IF @ < max[c] THEN max[c] ELSE @]
  /\ num' = [num EXCEPT ![c][p] = 0] /\ floor' = [floor EXCEPT ![c][p] = 0]
  /\ UNCHANGED <<max, stored, boot, flaws, crashes>>

\* The node crashes, possibly between a Delete and its Put. What was returned
\* counts for later calls as long as everything was in order: overlapping
\* calls may have left the older number in the database.
Lose(c) ==
  /\ max' = [max EXCEPT ![c] = 0]
  /\ at' = [at EXCEPT ![c] = [p \in Callers |-> "no"]]
  /\ num' = [num EXCEPT ![c] = [p \in Callers |-> 0]]
  /\ floor' = [floor EXCEPT ![c] = [p \in Callers |-> 0]]
  /\ boot' = [boot EXCEPT ![c] = "bare"]
  /\ flaws' = [flaws EXCEPT ![c] =
                 @ \cup (IF \E p \in Callers : at[c][p] = "put" THEN {"gap"} ELSE {})]
  /\ last' = [last EXCEPT ![c] = IF flaws'[c] = {} THEN @ ELSE 0]
  /\ UNCHANGED <<stored, id, given, twice>>

\* NewTransferManger: from here on the handlers are there.
Wire(c) ==
  /\ boot[c] = "bare"
  /\ boot' = [boot EXCEPT ![c] = "wired"]
  /\ UNCHANGED <<max, stored, at, num, id, idHistory, crashes>>

\* Mutant: the counters are not loaded.
Loaded_not(c) == max[c]

\* A counter that is not found is left as it is.
Loaded(c) == IF stored[c] # 0 THEN stored[c] ELSE max[c]

\* Mutant: the counters are loaded while the node takes requests already.
Load_behind(c) ==
  /\ boot[c] \in {"wired", "up"}
  /\ max' = [max EXCEPT ![c] = Loaded(c)]
  /\ boot' = [boot EXCEPT ![c] = "up"]
  /\ UNCHANGED <<stored, at, num, id, idHistory, crashes>>

Load(c) ==
  /\ boot[c] = "wired"
  /\ max' = [max EXCEPT ![c] = Loaded(c)]
  /\ boot' = [boot EXCEPT ![c] = "up"]
  /\ UNCHANGED <<stored, at, num, id, idHistory, crashes>>

\* An unplanned end of the node; the bound is not the code's.
Crash(c) ==
  /\ crashes < MaxCrashes /\ crashes' = crashes + 1
  /\ Lose(c)

\* A request that arrives before the handlers ends the node.
Panic(c) ==
  /\ boot[c] = "bare" /\ UNCHANGED crashes
  /\ Lose(c)

IdNext ==
  \E c \in Counters :
    \/ \E p \in Callers : Add(c, p) \/ Drop(c, p) \/ Put(c, p) \/ Return(c, p)
    \/ Wire(c) \/ Load(c) \/ Crash(c) \/ Panic(c)

IdSpec == IdInit /\ [][IdNext]_idVars
-----------------------------------------------------------------------------
IdTypeOK ==
  /\ max \in [Counters -> Nat] /\ stored \in [Counters -> Nat]
  /\ at \in [Counters -> [Callers -> {"no", "drop", "put", "return"}]]
  /\ num \in [Counters -> [Callers -> Nat]] /\ id \in [Counters -> [Callers -> Nat]]
  /\ boot \in [Counters -> {"bare", "wired", "up"}]
  /\ given \in [Counters -> SUBSET Nat] /\ twice \in [Counters -> BOOLEAN]
  /\ last \in [Counters -> Nat] /\ floor \in [Counters -> [Callers -> Nat]]
  /\ flaws \in [Counters -> SUBSET {"overlap", "early", "gap"}]
  /\ crashes \in Nat

(* No id is given twice, over any number of crashes and restarts, as long as *)
(* the calls of newTaskID did not overlap, none came before Load, and no     *)
(* crash fell between the Delete and the Put of the counter.                *)
IdsDistinct == \A c \in Counters : flaws[c] = {} => ~twice[c]

(* Overlapping calls can get one id, but a call that began after another    *)
(* had returned gets a larger id than that one, although newTaskID returns  *)
(* the counter as it is by then and not the number it took. This holds      *)
(* within a life of the node whatever overlaps, and across a restart when   *)
(* nothing was out of order before it.                                      *)
NewerIsLarger ==
  [][\A c \in Counters : "early" \notin flaws[c] =>
       \A p \in Callers : id'[c][p] # id[c][p] =>
         id'[c][p] = 0 \/ id'[c][p] > floor[c][p]]_idVars
=============================================================================
