---------------------------- MODULE ChanDynamic ----------------------------
(***************************************************************************)
(* The queue of pkg/utils that grows by channels: Add sends to the newest  *)
(* channel and makes another one when it is full, Get receives from the    *)
(* oldest and drops it when it is empty and not the newest. The lock       *)
(* guards the two indices and the map, not the use of a channel: both work *)
(* on a channel they looked up before. A channel is known by the index it  *)
(* was filed under.                                                        *)
(***************************************************************************)
EXTENDS Naturals, Sequences, FiniteSets

CONSTANTS
  Getters, Adders,  \* goroutines that call Get, and Add
  ChanLen,          \* capacity of one channel
  MaxAdds,          \* bound on the calls of Add
  NoChan            \* the nil channel

\* NewChanDynamic puts 10000 for a length of zero.
ASSUME ChanAssumption ==
  /\ IsFiniteSet(Adders) /\ ChanLen \in Nat \ {0} /\ MaxAdds \in Nat
  /\ NoChan \notin Nat

VARIABLES
  chan,        \* what each channel holds
  filed,       \* the indices in the map
  startIndex, endIndex,
  getting,     \* where each Get stands
  from,        \* the channel it looked up
  done,        \* its context has ended
  adding,      \* where each Add stands
  to,          \* the channel it looked up
  one,         \* what it adds
  first,       \* history: how much was added before each channel was made
  added, got,  \* history: what was added and received, in order
  crowded      \* history: two Gets, or two Adds, have overlapped

getVars == <<getting, from, done>>
addVars == <<adding, to, one>>
mapVars == <<filed, startIndex, endIndex>>
vars == <<chan, mapVars, getVars, addVars, first, added, got, crowded>>

Indices == 0..MaxAdds

Init ==
  /\ chan = [i \in Indices |-> << >>]
  /\ filed = {0} /\ startIndex = 0 /\ endIndex = 0
  /\ getting = [g \in Getters |-> "no"] /\ from = [g \in Getters |-> NoChan]
  /\ done = [g \in Getters |-> FALSE]
  /\ adding = [a \in Adders |-> "no"] /\ to = [a \in Adders |-> NoChan]
  /\ one = [a \in Adders |-> 0]
  /\ first = [i \in Indices |-> 0] /\ added = << >> /\ got = << >> /\ crowded = FALSE

Filed(i) == IF i \in filed THEN i ELSE NoChan

Holding(c) == c # NoChan /\ chan[c] # << >>
\* Mutant: one element more than the capacity.
Room_over(c) == c # NoChan /\ Len(chan[c]) <= ChanLen

Room(c) == c # NoChan /\ Len(chan[c]) < ChanLen
-----------------------------------------------------------------------------
Get(g) ==
  /\ getting[g] = "no"
  /\ getting' = [getting EXCEPT ![g] = "look"]
  /\ done' = [done EXCEPT ![g] = FALSE]
  /\ crowded' = (crowded \/ \E h \in Getters : getting[h] # "no")
  /\ UNCHANGED <<chan, mapVars, from, addVars, first, added, got>>

\* Under the lock: the oldest channel, and whether there is a newer one.
GetLook(g) ==
  /\ getting[g] = "look"
  /\ from' = [from EXCEPT ![g] = Filed(startIndex)]
  /\ getting' = [getting EXCEPT ![g] = IF endIndex > startIndex THEN "try" ELSE "wait"]
  /\ UNCHANGED <<chan, mapVars, done, addVars, first, added, got, crowded>>

Receive(g) ==
  /\ getting[g] \in {"try", "wait"} /\ Holding(from[g])
  /\ got' = Append(got, Head(chan[from[g]]))
  /\ chan' = [chan EXCEPT ![from[g]] = Tail(@)]
  /\ getting' = [getting EXCEPT ![g] = "no"]
  /\ UNCHANGED <<mapVars, from, done, addVars, first, added, crowded>>

\* The default of the first select: nothing is ready.
NothingThere(g) ==
  /\ getting[g] = "try" /\ ~Holding(from[g]) /\ ~done[g]
  /\ getting' = [getting EXCEPT ![g] = "drop"]
  /\ UNCHANGED <<chan, mapVars, from, done, addVars, first, added, got, crowded>>

\* Mutant: the channel is dropped and the index forgotten.
DropOldest_stuck(g) ==
  /\ getting[g] = "drop"
  /\ filed' = filed \ {startIndex}
  /\ getting' = [getting EXCEPT ![g] = "look"]
  /\ UNCHANGED <<chan, startIndex, endIndex, from, done, addVars, first, added, got, crowded>>

\* It drops what is the oldest by now.
DropOldest(g) ==
  /\ getting[g] = "drop"
  /\ filed' = filed \ {startIndex} /\ startIndex' = startIndex + 1
  /\ getting' = [getting EXCEPT ![g] = "look"]
  /\ UNCHANGED <<chan, endIndex, from, done, addVars, first, added, got, crowded>>

ContextEnds(g) ==
  /\ getting[g] # "no" /\ ~done[g]
  /\ done' = [done EXCEPT ![g] = TRUE]
  /\ UNCHANGED <<chan, mapVars, getting, from, addVars, first, added, got, crowded>>

Cancelled(g) ==
  /\ getting[g] \in {"try", "wait"} /\ done[g]
  /\ getting' = [getting EXCEPT ![g] = "no"]
  /\ UNCHANGED <<chan, mapVars, from, done, addVars, first, added, got, crowded>>
-----------------------------------------------------------------------------
\* The calls of Add so far, and the number of the next element.
Calls == Len(added) + Cardinality({a \in Adders : adding[a] # "no"})

Add(a) ==
  /\ adding[a] = "no" /\ Calls < MaxAdds
  /\ one' = [one EXCEPT ![a] = Calls + 1]
  /\ adding' = [adding EXCEPT ![a] = "look"]
  /\ crowded' = (crowded \/ \E b \in Adders : adding[b] # "no")
  /\ UNCHANGED <<chan, mapVars, getVars, to, first, added, got>>

AddLook(a) ==
  /\ adding[a] = "look"
  /\ to' = [to EXCEPT ![a] = Filed(endIndex)]
  /\ adding' = [adding EXCEPT ![a] = "send"]
  /\ UNCHANGED <<chan, mapVars, getVars, one, first, added, got, crowded>>

Send(a) ==
  /\ adding[a] = "send" /\ Room(to[a])
  /\ chan' = [chan EXCEPT ![to[a]] = Append(@, one[a])]
  /\ added' = Append(added, one[a])
  /\ adding' = [adding EXCEPT ![a] = "no"]
  /\ UNCHANGED <<mapVars, getVars, to, one, first, got, crowded>>

Full(a) ==
  /\ adding[a] = "send" /\ ~Room(to[a])
  /\ adding' = [adding EXCEPT ![a] = "publish"]
  /\ UNCHANGED <<chan, mapVars, getVars, to, one, first, added, got, crowded>>

\* Mutant: the new channel takes the place of the newest.
Publish_over(a) ==
  /\ adding[a] = "publish"
  /\ chan' = [chan EXCEPT ![endIndex] = <<one[a]>>]
  /\ filed' = filed \cup {endIndex}
  /\ added' = Append(added, one[a])
  /\ adding' = [adding EXCEPT ![a] = "no"]
  /\ UNCHANGED <<startIndex, endIndex, getVars, to, one, first, got, crowded>>

\* A channel that holds the new element becomes the newest.
Publish(a) ==
  /\ adding[a] = "publish"
  /\ endIndex' = endIndex + 1
  /\ chan' = [chan EXCEPT ![endIndex + 1] = <<one[a]>>]
  /\ filed' = filed \cup {endIndex + 1}
  /\ first' = [first EXCEPT ![endIndex + 1] = Len(added)]
  /\ added' = Append(added, one[a])
  /\ adding' = [adding EXCEPT ![a] = "no"]
  /\ UNCHANGED <<startIndex, getVars, to, one, got, crowded>>
-----------------------------------------------------------------------------
GetStep(g) == Get(g) \/ GetLook(g) \/ NothingThere(g) \/ DropOldest(g) \/ Cancelled(g)

AddStep(a) == AddLook(a) \/ Send(a) \/ Full(a) \/ Publish(a)

Next ==
  \/ \E g \in Getters : GetStep(g) \/ Receive(g) \/ ContextEnds(g)
  \/ \E a \in Adders : Add(a) \/ AddStep(a)

Spec == Init /\ [][Next]_vars

\* A goroutine goes on with its call, and Get is called again. A context ends
\* some day, though not always before Get has tried its channel, and the
\* select does not prefer it to an element for ever.
FairSpec ==
  /\ Spec
  /\ \A g \in Getters :
       /\ WF_vars(GetStep(g)) /\ WF_vars(ContextEnds(g))
       /\ SF_vars(GetLook(g) /\ ~done[g]) /\ SF_vars(NothingThere(g)) /\ SF_vars(Receive(g))
  /\ \A a \in Adders : WF_vars(AddStep(a))
-----------------------------------------------------------------------------
TypeOK ==
  /\ chan \in [Indices -> Seq(1..MaxAdds)] /\ \A i \in Indices : Len(chan[i]) <= ChanLen
  /\ filed \subseteq Indices /\ startIndex \in Nat /\ endIndex \in Indices
  /\ getting \in [Getters -> {"no", "look", "try", "drop", "wait"}]
  /\ adding \in [Adders -> {"no", "look", "send", "publish"}]
  /\ from \in [Getters -> Indices \cup {NoChan}] /\ to \in [Adders -> Indices \cup {NoChan}]
  /\ done \in [Getters -> BOOLEAN] /\ one \in [Adders -> 0..MaxAdds]
  /\ first \in [Indices -> Nat] /\ added \in Seq(1..MaxAdds) /\ got \in Seq(1..MaxAdds) /\ crowded \in BOOLEAN

\* The elements a channel has to hold are those from Begins + 1 to Ends.
Begins(i) == IF i = startIndex THEN Len(got) ELSE first[i]
Ends(i) == IF i = endIndex THEN Len(added) ELSE first[i + 1]

Segment(i) ==
  /\ i \in filed
  /\ Begins(i) + Len(chan[i]) = Ends(i)
  /\ \A k \in 1..Len(chan[i]) : chan[i][k] = added[Begins(i) + k]

(* As long as no two Gets and no two Adds overlap, what was added is what    *)
(* was received and then what is in the channels, in order: a Get that      *)
(* drops a channel, or is cancelled, and an Add that grows the queue at the *)
(* same time lose nothing and reorder nothing. (Two Gets that overlap do    *)
(* both: each drops what is the oldest channel by then.)                    *)
NothingLost ==
  ~crowded =>
    /\ \A k \in 1..Len(got) : got[k] = added[k]
    /\ startIndex <= endIndex /\ \A i \in startIndex..endIndex : Segment(i)

(* Without overlap every element is received, if Get is called again when    *)
(* its context ended: a Get may wait on a channel that an Add, which found  *)
(* it full, has left behind for good.                                       *)
EverythingReceived ==
  Len(got) < Len(added) ~> crowded \/ Len(got) = Len(added)
=============================================================================
