--------------------------- MODULE TaskIdsProofs ---------------------------
(***************************************************************************)
(* Proofs about the id counters, for any number of callers and crashes.    *)
(* Two invariants carry them: Sound says, of a counter whose calls were in *)
(* order, where the ids given stand against memory and database; Ahead     *)
(* says, of a counter that nobody read before Load, that a caller inside   *)
(* works below a counter larger than all ids returned before it came, also *)
(* before a restart if nothing was out of order by then.                   *)
(***************************************************************************)
EXTENDS TaskIds, TLAPS

InsideIsUp ==
  \A c \in Counters : "early" \notin flaws[c] =>
    \A p \in Callers : at[c][p] # "no" => boot[c] = "up"

Ahead ==
  \A c \in Counters : "early" \notin flaws[c] =>
    /\ boot[c] = "up" => last[c] <= max[c]
    /\ boot[c] # "up" => last[c] = 0 \/ flaws[c] = {}
    /\ last[c] = 0 \/ last[c] \in given[c]
    /\ \A p \in Callers : at[c][p] # "no" => floor[c][p] < max[c]

Alone(c) == \A p, q \in Callers : at[c][p] # "no" /\ at[c][q] # "no" => p = q

\* The database against memory and the ids given, by who is inside.
Level(c) ==
  /\ boot[c] # "up" => max[c] = 0 /\ \A g \in given[c] : g <= stored[c]
  /\ boot[c] = "up" => \A g \in given[c] : g <= max[c]
  /\ (boot[c] = "up" /\ \A p \in Callers : at[c][p] = "no") => stored[c] = max[c]
  /\ \A p \in Callers :
       /\ at[c][p] # "no" => \A g \in given[c] : g < max[c]
       /\ at[c][p] = "drop" => \A g \in given[c] : g <= stored[c]
       /\ at[c][p] \in {"drop", "put"} => num[c][p] = max[c]
       /\ at[c][p] = "return" => stored[c] = max[c]

Sound == \A c \in Counters : flaws[c] = {} => Alone(c) /\ Level(c) /\ ~twice[c]

IdInv == IdTypeOK /\ InsideIsUp /\ Ahead /\ Sound

LEMMA InitIdInv == IdInit => IdInv
  BY DEF IdInit, IdInv, IdTypeOK, InsideIsUp, Ahead, Sound, Alone, Level, PerCaller, Counters

LEMMA AddInv ==
  ASSUME IdInv, NEW c \in Counters, NEW p \in Callers, Add(c, p)
  PROVE  IdInv'
<1>1. IdTypeOK'
  BY DEF IdInv, IdTypeOK, Add, Counted, Untimely, Counters
<1>2. InsideIsUp' /\ Ahead'
  BY <1>1 DEF IdInv, IdTypeOK, InsideIsUp, Ahead, Add, Counted, Untimely
<1>3. Sound'
  <2> SUFFICES ASSUME NEW d \in Counters, flaws'[d] = {}
               PROVE  Alone(d)' /\ Level(d)' /\ ~twice'[d]
    BY DEF Sound
  <2>1. flaws[d] = {} /\ Alone(d) /\ Level(d) /\ ~twice[d]
    BY DEF IdInv, IdTypeOK, Sound, Add, Counted, Untimely, Inside
  <2>2. CASE d # c
    BY <2>1, <2>2 DEF IdInv, IdTypeOK, Alone, Level, Add, Counted, Untimely, Inside
  <2>3. CASE d = c
    <3>1. Alone(d)'
      BY <2>1, <2>3 DEF IdInv, IdTypeOK, Alone, Add, Counted, Untimely, Inside
    <3>2. boot[c] = "up" /\ (\A q \in Callers : at[c][q] = "no") /\ stored[c] = max[c]
      BY <2>1, <2>3 DEF IdInv, IdTypeOK, Level, Add, Untimely, Inside
    <3>3. Level(d)' /\ ~twice'[d]
      <4>1. \A g \in given[c] : g \in Nat /\ g <= max[c]
        BY <2>1, <2>3, <3>2 DEF IdInv, IdTypeOK, Level
      <4>2. /\ boot'[c] = "up" /\ given'[c] = given[c] /\ stored'[c] = stored[c]
            /\ max'[c] = max[c] + 1 /\ num'[c][p] = max[c] + 1
            /\ \A q \in Callers : at'[c][q] = IF q = p THEN "drop" ELSE "no"
        BY <3>2 DEF IdInv, IdTypeOK, Add, Counted
      <4> QED BY <2>1, <2>3, <3>2, <4>1, <4>2 DEF IdInv, IdTypeOK, Level, Add
    <3> QED BY <3>1, <3>3
  <2> QED BY <2>2, <2>3
<1> QED BY <1>1, <1>2, <1>3 DEF IdInv

LEMMA DropInv ==
  ASSUME IdInv, NEW c \in Counters, NEW p \in Callers, Drop(c, p)
  PROVE  IdInv'
<1>1. IdTypeOK'
  BY DEF IdInv, IdTypeOK, Drop, idHistory
<1>2. InsideIsUp' /\ Ahead'
  BY <1>1 DEF IdInv, IdTypeOK, InsideIsUp, Ahead, Drop, idHistory
<1>3. Sound'
  <2> SUFFICES ASSUME NEW d \in Counters, flaws'[d] = {}
               PROVE  Alone(d)' /\ Level(d)' /\ ~twice'[d]
    BY DEF Sound
  <2>1. flaws[d] = {} /\ Alone(d) /\ Level(d) /\ ~twice[d]
    BY DEF IdInv, IdTypeOK, Sound, Drop, idHistory
  <2>2. CASE d # c
    BY <2>1, <2>2 DEF IdInv, IdTypeOK, Alone, Level, Drop, idHistory
  <2>3. CASE d = c
    <3>1. Alone(d)'
      BY <2>1, <2>3 DEF IdInv, IdTypeOK, Alone, Drop, idHistory
    <3>2. Level(d)' /\ ~twice'[d]
      BY <2>1, <2>3, <3>1 DEF IdInv, IdTypeOK, InsideIsUp, Alone, Level, Drop, idHistory
    <3> QED BY <3>1, <3>2
  <2> QED BY <2>2, <2>3
<1> QED BY <1>1, <1>2, <1>3 DEF IdInv

LEMMA PutInv ==
  ASSUME IdInv, NEW c \in Counters, NEW p \in Callers, Put(c, p)
  PROVE  IdInv'
<1>1. IdTypeOK'
  BY DEF IdInv, IdTypeOK, Put, idHistory
<1>2. InsideIsUp' /\ Ahead'
  BY <1>1 DEF IdInv, IdTypeOK, InsideIsUp, Ahead, Put, idHistory
<1>3. Sound'
  <2> SUFFICES ASSUME NEW d \in Counters, flaws'[d] = {}
               PROVE  Alone(d)' /\ Level(d)' /\ ~twice'[d]
    BY DEF Sound
  <2>1. flaws[d] = {} /\ Alone(d) /\ Level(d) /\ ~twice[d]
    BY DEF IdInv, IdTypeOK, Sound, Put, idHistory
  <2>2. CASE d # c
    BY <2>1, <2>2 DEF IdInv, IdTypeOK, Alone, Level, Put, idHistory
  <2>3. CASE d = c
    <3>1. Alone(d)'
      BY <2>1, <2>3 DEF IdInv, IdTypeOK, Alone, Put, idHistory
    <3>2. Level(d)' /\ ~twice'[d]
      BY <2>1, <2>3, <3>1 DEF IdInv, IdTypeOK, InsideIsUp, Alone, Level, Put, idHistory
    <3> QED BY <3>1, <3>2
  <2> QED BY <2>2, <2>3
<1> QED BY <1>1, <1>2, <1>3 DEF IdInv

LEMMA ReturnInv ==
  ASSUME IdInv, NEW c \in Counters, NEW p \in Callers, Return(c, p)
  PROVE  IdInv'
<1>1. IdTypeOK'
  BY DEF IdInv, IdTypeOK, Return
<1>2. InsideIsUp' /\ Ahead'
  BY <1>1 DEF IdInv, IdTypeOK, InsideIsUp, Ahead, Return
<1>3. Sound'
  <2> SUFFICES ASSUME NEW d \in Counters, flaws'[d] = {}
               PROVE  Alone(d)' /\ Level(d)' /\ ~twice'[d]
    BY DEF Sound
  <2>1. flaws[d] = {} /\ Alone(d) /\ Level(d) /\ ~twice[d]
    BY DEF IdInv, IdTypeOK, Sound, Return
  <2>2. CASE d # c
    BY <2>1, <2>2 DEF IdInv, IdTypeOK, Alone, Level, Return
  <2>3. CASE d = c
    <3>1. Alone(d)'
      BY <2>1, <2>3 DEF IdInv, IdTypeOK, Alone, Return
    <3>2. Level(d)' /\ ~twice'[d]
      BY <2>1, <2>3, <3>1 DEF IdInv, IdTypeOK, InsideIsUp, Alone, Level, Return
    <3> QED BY <3>1, <3>2
  <2> QED BY <2>2, <2>3
<1> QED BY <1>1, <1>2, <1>3 DEF IdInv

LEMMA LoseInv ==
  ASSUME IdInv, NEW c \in Counters, Lose(c), crashes' \in Nat
  PROVE  IdInv'
<1>1. IdTypeOK'
  BY DEF IdInv, IdTypeOK, Lose
<1>2. InsideIsUp' /\ Ahead'
  BY <1>1 DEF IdInv, IdTypeOK, InsideIsUp, Ahead, Lose
<1>3. Sound'
  <2> SUFFICES ASSUME NEW d \in Counters, flaws'[d] = {}
               PROVE  Alone(d)' /\ Level(d)' /\ ~twice'[d]
    BY DEF Sound
  <2>1. flaws[d] = {} /\ Alone(d) /\ Level(d) /\ ~twice[d]
    BY DEF IdInv, IdTypeOK, Sound, Lose
  <2>2. CASE d # c
    BY <2>1, <2>2 DEF IdInv, IdTypeOK, Alone, Level, Lose
  <2>3. CASE d = c
    <3>1. Alone(d)'
      BY <2>1, <2>3 DEF IdInv, IdTypeOK, Alone, Lose
    <3>2. \A p \in Callers : at[c][p] # "put"
      BY <2>3 DEF IdInv, IdTypeOK, Lose
    <3>3. \A g \in given[c] : g \in Nat /\ g <= stored[c]
      <4>1. CASE boot[c] # "up"
        BY <2>1, <2>3, <4>1 DEF IdInv, IdTypeOK, Level
      <4>2. CASE boot[c] = "up" /\ \A p \in Callers : at[c][p] = "no"
        BY <2>1, <2>3, <4>2 DEF IdInv, IdTypeOK, Level
      <4>3. CASE boot[c] = "up" /\ \E p \in Callers : at[c][p] # "no"
        <5> PICK p \in Callers : at[c][p] # "no"
          BY <4>3
        <5>1. at[c][p] \in {"drop", "return"}
          BY <3>2 DEF IdInv, IdTypeOK
        <5> QED BY <2>1, <2>3, <4>3, <5>1 DEF IdInv, IdTypeOK, Level
      <4> QED BY <4>1, <4>2, <4>3
    <3>4. Level(d)' /\ ~twice'[d]
      BY <2>1, <2>3, <3>3 DEF IdInv, IdTypeOK, Level, Lose
    <3> QED BY <3>1, <3>4
  <2> QED BY <2>2, <2>3
<1> QED BY <1>1, <1>2, <1>3 DEF IdInv

LEMMA WireInv ==
  ASSUME IdInv, NEW c \in Counters, Wire(c)
  PROVE  IdInv'
<1>1. IdTypeOK'
  BY DEF IdInv, IdTypeOK, Wire, idHistory
<1>2. InsideIsUp' /\ Ahead'
  BY <1>1 DEF IdInv, IdTypeOK, InsideIsUp, Ahead, Wire, idHistory
<1>3. Sound'
  <2> SUFFICES ASSUME NEW d \in Counters, flaws'[d] = {}
               PROVE  Alone(d)' /\ Level(d)' /\ ~twice'[d]
    BY DEF Sound
  <2>1. flaws[d] = {} /\ Alone(d) /\ Level(d) /\ ~twice[d]
    BY DEF IdInv, IdTypeOK, Sound, Wire, idHistory
  <2>2. CASE d # c
    BY <2>1, <2>2 DEF IdInv, IdTypeOK, Alone, Level, Wire, idHistory
  <2>3. CASE d = c
    <3>1. Alone(d)'
      BY <2>1, <2>3 DEF IdInv, IdTypeOK, Alone, Wire, idHistory
    <3>2. Level(d)' /\ ~twice'[d]
      BY <2>1, <2>3, <3>1 DEF IdInv, IdTypeOK, InsideIsUp, Alone, Level, Wire, idHistory
    <3> QED BY <3>1, <3>2
  <2> QED BY <2>2, <2>3
<1> QED BY <1>1, <1>2, <1>3 DEF IdInv

LEMMA LoadInv ==
  ASSUME IdInv, NEW c \in Counters, Load(c)
  PROVE  IdInv'
<1>1. IdTypeOK'
  BY DEF IdInv, IdTypeOK, Load, Loaded, idHistory
<1>2. InsideIsUp' /\ Ahead'
  <2>1. InsideIsUp'
    BY <1>1 DEF IdInv, IdTypeOK, InsideIsUp, Load, idHistory
  <2>2. ASSUME NEW d \in Counters, "early" \notin flaws[d]
        PROVE  /\ boot'[d] = "up" => last[d] <= max'[d]
               /\ boot'[d] # "up" => last[d] = 0 \/ flaws[d] = {}
               /\ last[d] = 0 \/ last[d] \in given[d]
               /\ \A p \in Callers : at[d][p] # "no" => floor[d][p] < max'[d]
    <3>1. CASE d # c
      BY <2>2, <3>1 DEF IdInv, IdTypeOK, Ahead, Load
    <3>2. CASE d = c
      <4>1. last[c] \in Nat /\ max'[c] \in Nat /\ boot[c] # "up"
            /\ max'[c] = (IF stored[c] # 0 THEN stored[c] ELSE max[c])
        BY <1>1 DEF IdInv, IdTypeOK, Load, Loaded
      <4>2. last[c] = 0 \/ (flaws[c] = {} /\ last[c] \in given[c])
        BY <2>2, <3>2, <4>1 DEF IdInv, Ahead
      <4>3. last[c] <= max'[c]
        <5>1. CASE last[c] = 0
          BY <4>1, <5>1
        <5>2. CASE flaws[c] = {} /\ last[c] \in given[c]
          <6>1. max[c] = 0 /\ last[c] <= stored[c] /\ stored[c] \in Nat
            BY <4>1, <5>2 DEF IdInv, IdTypeOK, Sound, Level
          <6> QED  BY <4>1, <6>1
        <5> QED  BY <4>2, <5>1, <5>2
      <4>4. \A p \in Callers : at[c][p] = "no"
        BY <2>2, <3>2, <4>1 DEF IdInv, InsideIsUp
      <4> QED  BY <2>2, <3>2, <4>3, <4>4 DEF IdInv, IdTypeOK, Ahead, Load
    <3> QED  BY <3>1, <3>2
  <2> QED  BY <2>1, <2>2 DEF Ahead, Load, idHistory
<1>3. Sound'
  <2> SUFFICES ASSUME NEW d \in Counters, flaws'[d] = {}
               PROVE  Alone(d)' /\ Level(d)' /\ ~twice'[d]
    BY DEF Sound
  <2>1. flaws[d] = {} /\ Alone(d) /\ Level(d) /\ ~twice[d]
    BY DEF IdInv, IdTypeOK, Sound, Load, Loaded, idHistory
  <2>2. CASE d # c
    BY <2>1, <2>2 DEF IdInv, IdTypeOK, Alone, Level, Load, Loaded, idHistory
  <2>3. CASE d = c
    <3>1. Alone(d)'
      BY <2>1, <2>3 DEF IdInv, IdTypeOK, Alone, Load, Loaded, idHistory
    <3>2. Level(d)' /\ ~twice'[d]
      BY <2>1, <2>3, <3>1 DEF IdInv, IdTypeOK, InsideIsUp, Alone, Level, Load, Loaded, idHistory
    <3> QED BY <3>1, <3>2
  <2> QED BY <2>2, <2>3
<1> QED BY <1>1, <1>2, <1>3 DEF IdInv

LEMMA StepIdInv == IdInv /\ [IdNext]_idVars => IdInv'
<1> SUFFICES ASSUME IdInv, [IdNext]_idVars PROVE IdInv'
  OBVIOUS
<1>1. CASE UNCHANGED idVars
  BY <1>1 DEF IdInv, IdTypeOK, InsideIsUp, Ahead, Sound, Alone, Level,
     idVars, counters, idHistory
<1>2. CASE IdNext
  <2> PICK c \in Counters :
        \/ \E p \in Callers : Add(c, p) \/ Drop(c, p) \/ Put(c, p) \/ Return(c, p)
        \/ Wire(c) \/ Load(c) \/ Crash(c) \/ Panic(c)
    BY <1>2 DEF IdNext
  <2>1. CASE \E p \in Callers : Add(c, p) \/ Drop(c, p) \/ Put(c, p) \/ Return(c, p)
    BY <2>1, AddInv, DropInv, PutInv, ReturnInv
  <2>2. CASE Wire(c) \/ Load(c)
    BY <2>2, WireInv, LoadInv
  <2>3. CASE Crash(c) \/ Panic(c)
    BY <2>3, LoseInv DEF Crash, Panic, IdInv, IdTypeOK
  <2> QED BY <2>1, <2>2, <2>3
<1> QED BY <1>1, <1>2

LEMMA ReachedIdInv == IdSpec => []IdInv
  BY InitIdInv, StepIdInv, PTL DEF IdSpec

(* Counters, calls and histories keep their types, for any number of        *)
(* callers and crashes.                                                     *)
THEOREM IdTypeCorrect == IdSpec => []IdTypeOK
  BY ReachedIdInv, PTL DEF IdInv

(* No id is given twice by calls of newTaskID that do not overlap, come      *)
(* after Load and are not cut in half by a crash, over any number of        *)
(* restarts.                                                                *)
THEOREM IdsNeverGivenTwice == IdSpec => []IdsDistinct
<1>1. IdInv => IdsDistinct
  BY DEF IdInv, Sound, IdsDistinct
<1> QED BY <1>1, ReachedIdInv, PTL

LEMMA StepNewer ==
  ASSUME IdInv, [IdNext]_idVars, NEW c \in Counters, "early" \notin flaws[c],
         NEW p \in Callers, id'[c][p] # id[c][p]
  PROVE  id'[c][p] = 0 \/ id'[c][p] > floor[c][p]
<1>1. CASE UNCHANGED idVars
  BY <1>1 DEF idVars, counters
<1>2. CASE \E d \in Counters, q \in Callers : Add(d, q)
  BY <1>2 DEF Add, IdInv, IdTypeOK
<1>3. CASE \E d \in Counters, q \in Callers : Drop(d, q) \/ Put(d, q)
  BY <1>3 DEF Drop, Put
<1>4. CASE \E d \in Counters, q \in Callers : Return(d, q)
  BY <1>4 DEF Return, IdInv, IdTypeOK, Ahead
<1>5. CASE \E d \in Counters : Wire(d) \/ Load(d) \/ Crash(d) \/ Panic(d)
  BY <1>5 DEF Wire, Load, Crash, Panic, Lose
<1> QED BY <1>1, <1>2, <1>3, <1>4, <1>5 DEF IdNext

(* A call of newTaskID that begins after another has returned gets a larger  *)
(* id than that one, as long as the node took no call before Load: within a *)
(* life of the node whatever other calls overlap with either, and across    *)
(* any number of restarts as long as, at each, the calls before it had not  *)
(* overlapped and none was cut in half by the crash.                        *)
THEOREM IdsGrow == IdSpec => NewerIsLarger
<1>1. IdInv /\ [IdNext]_idVars =>
        [\A c \in Counters : "early" \notin flaws[c] =>
           \A p \in Callers : id'[c][p] # id[c][p] =>
             id'[c][p] = 0 \/ id'[c][p] > floor[c][p]]_idVars
  BY StepNewer
<1> QED BY <1>1, ReachedIdInv, PTL DEF IdSpec, NewerIsLarger
=============================================================================
