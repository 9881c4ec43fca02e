-------------------------- MODULE ChanDynamicProofs --------------------------
(***************************************************************************)
(* Proofs about the growing queue, for any goroutines, any capacity and    *)
(* any number of Adds. BoundInv keeps the indices in range whatever        *)
(* overlaps; QueueInv says what one Get and one Add know of the channels   *)
(* they looked up, which is what makes the unlocked use of them safe.      *)
(***************************************************************************)
EXTENDS ChanDynamic, FiniteSetTheorems, SequenceTheorems, TLAPS

Adding == {a \in Adders : adding[a] # "no"}

BoundInv ==
  /\ endIndex <= Len(added) /\ Len(added) + Cardinality(Adding) <= MaxAdds
  /\ \A a \in Adding : one[a] # 0
  /\ \A i \in Indices : first[i] <= Len(added)

OneEach ==
  /\ \A g, h \in Getters : getting[g] # "no" /\ getting[h] # "no" => g = h
  /\ \A a, b \in Adders : adding[a] # "no" /\ adding[b] # "no" => a = b

\* What Get looked up is still the oldest channel, and empty once it was found so.
Looked(g) ==
  /\ getting[g] \in {"try", "wait", "drop"} => from[g] = startIndex
  /\ getting[g] \in {"try", "drop"} => startIndex < endIndex
  /\ getting[g] = "drop" => chan[startIndex] = << >>

QueueInv ==
  ~crowded =>
    /\ OneEach
    /\ filed = startIndex..endIndex /\ startIndex <= endIndex
    /\ \A g \in Getters : Looked(g)
    /\ \A a \in Adders : adding[a] = "send" => to[a] = endIndex
    /\ Len(got) <= Len(added)

ChanInv == TypeOK /\ BoundInv /\ QueueInv /\ NothingLost
-----------------------------------------------------------------------------
LEMMA AddingFinite ==
  ASSUME NEW S \in SUBSET Adders
  PROVE  IsFiniteSet(S) /\ Cardinality(S) \in Nat
  BY ChanAssumption, FS_Subset, FS_CardinalityType

\* A call of Add begins, ends, or does neither.
LEMMA AddingStep ==
  ASSUME TypeOK, NEW a \in Adders, NEW place \in {"no", "look", "send", "publish"},
         adding' = [adding EXCEPT ![a] = place]
  PROVE  /\ adding[a] = "no" /\ place # "no" =>
              Adding' = Adding \cup {a} /\ Cardinality(Adding') = Cardinality(Adding) + 1
         /\ adding[a] # "no" /\ place = "no" =>
              Adding' = Adding \ {a} /\ Cardinality(Adding') = Cardinality(Adding) - 1
         /\ adding[a] # "no" /\ place # "no" => Adding' = Adding
<1>1. IsFiniteSet(Adding) /\ Cardinality(Adding) \in Nat
  BY AddingFinite DEF Adding
<1>2. ASSUME adding[a] = "no", place # "no"
      PROVE  Adding' = Adding \cup {a} /\ Cardinality(Adding') = Cardinality(Adding) + 1
  <2>1. a \notin Adding /\ Adding' = Adding \cup {a}
    BY <1>2 DEF Adding, TypeOK
  <2> QED BY <2>1, <1>1, FS_AddElement
<1>3. ASSUME adding[a] # "no", place = "no"
      PROVE  Adding' = Adding \ {a} /\ Cardinality(Adding') = Cardinality(Adding) - 1
  <2>1. a \in Adding /\ Adding' = Adding \ {a}
    BY <1>3 DEF Adding, TypeOK
  <2> QED BY <2>1, <1>1, FS_RemoveElement
<1>4. adding[a] # "no" /\ place # "no" => Adding' = Adding
  BY DEF Adding, TypeOK
<1> QED BY <1>2, <1>3, <1>4

LEMMA FiledType ==
  ASSUME TypeOK, NEW i
  PROVE  Filed(i) \in Indices \cup {NoChan} /\ (Filed(i) # NoChan => Filed(i) = i /\ i \in filed)
  BY DEF TypeOK, Filed

\* What a Get does to the types: the bounds of the Adds are not touched.
LEMMA GetTypes ==
  ASSUME TypeOK, BoundInv, NEW g \in Getters, GetStep(g) \/ Receive(g) \/ ContextEnds(g)
  PROVE  TypeOK' /\ BoundInv'
<1>1. UNCHANGED <<adding, one, added, endIndex, first>>
  BY DEF GetStep, Get, GetLook, NothingThere, DropOldest, Cancelled, Receive, ContextEnds,
         mapVars, addVars
<1>2. BoundInv'
  BY <1>1 DEF BoundInv, Adding
<1>3. ASSUME Receive(g) PROVE TypeOK'
  <2>1. from[g] \in Indices /\ chan[from[g]] \in Seq(1..MaxAdds) /\ chan[from[g]] # << >>
    BY <1>3 DEF Receive, Holding, TypeOK
  <2>2. /\ Head(chan[from[g]]) \in 1..MaxAdds /\ Tail(chan[from[g]]) \in Seq(1..MaxAdds)
        /\ Len(Tail(chan[from[g]])) = Len(chan[from[g]]) - 1
    BY <2>1, HeadTailProperties
  <2>3. chan' \in [Indices -> Seq(1..MaxAdds)] /\ \A i \in Indices : Len(chan'[i]) <= ChanLen
    BY <1>3, <2>1, <2>2, ChanAssumption DEF Receive, TypeOK
  <2>4. got' \in Seq(1..MaxAdds)
    BY <1>3, <2>2 DEF Receive, TypeOK
  <2> QED BY <1>3, <2>3, <2>4 DEF Receive, TypeOK, mapVars, addVars
<1>4. ASSUME GetStep(g) \/ ContextEnds(g) PROVE TypeOK'
  <2>1. CASE GetLook(g)
    <3>1. Filed(startIndex) \in Indices \cup {NoChan}
      BY FiledType
    <3> QED BY <2>1, <3>1 DEF GetLook, TypeOK, mapVars, addVars
  <2>2. CASE DropOldest(g)
    BY <2>2 DEF DropOldest, TypeOK, addVars
  <2>3. CASE Get(g) \/ NothingThere(g) \/ Cancelled(g) \/ ContextEnds(g)
    BY <2>3 DEF Get, NothingThere, Cancelled, ContextEnds, TypeOK, mapVars, addVars
  <2> QED BY <1>4, <2>1, <2>2, <2>3 DEF GetStep
<1> QED BY <1>2, <1>3, <1>4

LEMMA AddTypes ==
  ASSUME TypeOK, BoundInv, NEW a \in Adders, Add(a) \/ AddStep(a)
  PROVE  TypeOK' /\ BoundInv'
<1>0. Cardinality(Adding) \in Nat /\ (adding[a] # "no" => Cardinality(Adding) > 0)
  <2>1. IsFiniteSet(Adding) /\ Cardinality(Adding) \in Nat
    BY AddingFinite DEF Adding
  <2>2. adding[a] # "no" => Adding # {}
    BY DEF Adding
  <2> QED BY <2>1, <2>2, FS_EmptySet
<1>1. CASE Add(a)
  <2>1. Calls = Len(added) + Cardinality(Adding) /\ Calls + 1 \in 1..MaxAdds
    BY <1>0, <1>1, ChanAssumption DEF Add, Calls, Adding, TypeOK
  <2>2. TypeOK'
    BY <1>1, <2>1 DEF Add, TypeOK, mapVars, getVars
  <2>3. Cardinality(Adding') = Cardinality(Adding) + 1 /\ Adding' = Adding \cup {a}
    BY <1>1, AddingStep DEF Add
  <2>4. \A b \in Adding' : one'[b] # 0
    BY <1>1, <1>0, <2>1, <2>3 DEF Add, BoundInv, TypeOK, Adding
  <2>5. Len(added) + Cardinality(Adding') <= MaxAdds
    BY <1>0, <2>1, <2>3, ChanAssumption DEF TypeOK
  <2>6. BoundInv'
    BY <1>1, <2>4, <2>5 DEF Add, BoundInv, mapVars
  <2> QED BY <2>2, <2>6
<1>2. CASE AddLook(a) \/ Full(a)
  <2>1. Filed(endIndex) \in Indices \cup {NoChan}
    BY FiledType
  <2>2. TypeOK'
    BY <1>2, <2>1 DEF AddLook, Full, TypeOK, mapVars, getVars
  <2>3. Adding' = Adding
    BY <1>2, AddingStep DEF AddLook, Full
  <2>4. BoundInv'
    BY <1>2, <2>3 DEF AddLook, Full, BoundInv, mapVars
  <2> QED BY <2>2, <2>4
<1>3. CASE Send(a)
  <2>1. /\ to[a] \in Indices /\ chan[to[a]] \in Seq(1..MaxAdds) /\ Len(chan[to[a]]) < ChanLen
        /\ one[a] \in 1..MaxAdds
    BY <1>3, ChanAssumption DEF Send, Room, TypeOK, BoundInv, Adding
  <2>2. TypeOK'
    <3>1. /\ Append(chan[to[a]], one[a]) \in Seq(1..MaxAdds)
          /\ Len(Append(chan[to[a]], one[a])) <= ChanLen
      BY <2>1, ChanAssumption, AppendProperties
    <3>2. added' \in Seq(1..MaxAdds)
      BY <1>3, <2>1 DEF Send, TypeOK
    <3>3. chan' \in [Indices -> Seq(1..MaxAdds)] /\ \A i \in Indices : Len(chan'[i]) <= ChanLen
      BY <1>3, <2>1, <3>1 DEF Send, TypeOK
    <3> QED BY <1>3, <3>2, <3>3 DEF Send, TypeOK, mapVars, getVars
  <2>3. Adding' = Adding \ {a} /\ Cardinality(Adding') = Cardinality(Adding) - 1
    BY <1>3, AddingStep DEF Send
  <2>4. Len(added') = Len(added) + 1 /\ Len(added) \in Nat
    BY <1>3, <2>1, AppendProperties DEF Send, TypeOK
  <2>5. \A b \in Adding' : one'[b] # 0
    BY <1>3, <2>3 DEF Send, BoundInv
  <2>6. Len(added') + Cardinality(Adding') <= MaxAdds /\ endIndex <= Len(added')
    BY <1>0, <2>3, <2>4, ChanAssumption DEF BoundInv, TypeOK, Indices
  <2>7. \A i \in Indices : first[i] <= Len(added')
    BY <2>4 DEF BoundInv, TypeOK
  <2>8. BoundInv'
    BY <1>3, <2>5, <2>6, <2>7 DEF Send, BoundInv, mapVars
  <2> QED BY <2>2, <2>8
<1>4. CASE Publish(a)
  <2>0. one[a] \in 0..MaxAdds /\ one[a] # 0
    BY <1>4 DEF Publish, TypeOK, BoundInv, Adding
  <2>1. one[a] \in 1..MaxAdds /\ endIndex + 1 \in Indices
    <3>1. adding[a] # "no" /\ endIndex \in 0..MaxAdds /\ Len(added) \in Nat
      BY <1>4 DEF Publish, TypeOK, Indices
    <3> QED BY <1>0, <2>0, <3>1, ChanAssumption DEF BoundInv, Indices
  <2>2. Len(added') = Len(added) + 1 /\ Len(added) \in Nat /\ added' \in Seq(1..MaxAdds)
    BY <1>4, <2>1, AppendProperties DEF Publish, TypeOK
  <2>3. TypeOK'
    <3>1. <<one[a]>> \in Seq(1..MaxAdds) /\ Len(<<one[a]>>) <= ChanLen
      BY <2>1, ChanAssumption
    <3>2. chan' \in [Indices -> Seq(1..MaxAdds)] /\ \A i \in Indices : Len(chan'[i]) <= ChanLen
      BY <1>4, <2>1, <3>1 DEF Publish, TypeOK
    <3>3. first' \in [Indices -> Nat] /\ filed' \subseteq Indices /\ endIndex' \in Indices
      BY <1>4, <2>1, <2>2 DEF Publish, TypeOK
    <3> QED BY <1>4, <2>2, <3>2, <3>3 DEF Publish, TypeOK, getVars
  <2>4. Adding' = Adding \ {a} /\ Cardinality(Adding') = Cardinality(Adding) - 1
    BY <1>4, AddingStep DEF Publish
  <2>5. \A b \in Adding' : one'[b] # 0
    BY <1>4, <2>4 DEF Publish, BoundInv
  <2>6. Len(added') + Cardinality(Adding') <= MaxAdds /\ endIndex' <= Len(added')
    BY <1>0, <1>4, <2>2, <2>4, ChanAssumption DEF Publish, BoundInv, TypeOK, Indices
  <2>7. \A i \in Indices : first'[i] <= Len(added')
    BY <1>4, <2>2 DEF Publish, BoundInv, TypeOK
  <2>8. BoundInv'
    BY <2>5, <2>6, <2>7 DEF BoundInv
  <2> QED BY <2>3, <2>8
<1> QED BY <1>1, <1>2, <1>3, <1>4 DEF AddStep

LEMMA TypesKept == TypeOK /\ BoundInv /\ [Next]_vars => TypeOK' /\ BoundInv'
<1> SUFFICES ASSUME TypeOK, BoundInv, [Next]_vars PROVE TypeOK' /\ BoundInv'
  OBVIOUS
<1>1. CASE UNCHANGED vars
  BY <1>1 DEF vars, mapVars, getVars, addVars, TypeOK, BoundInv, Adding
<1>2. CASE Next
  BY <1>2, GetTypes, AddTypes DEF Next
<1> QED BY <1>1, <1>2
-----------------------------------------------------------------------------
(* The steps of a queue whose calls do not overlap, one lemma for each part *)
(* of QueueInv and NothingLost that a step of a Get can disturb.           *)

Quiet == TypeOK /\ BoundInv /\ QueueInv /\ NothingLost /\ ~crowded

\* A step that leaves the channels, the indices and the history alone.
LEMMA NothingMoved ==
  ASSUME NothingLost, ~crowded,
         UNCHANGED <<chan, filed, startIndex, endIndex, first, added, got>>
  PROVE  NothingLost'
  BY DEF NothingLost, Segment, Begins, Ends

LEMMA OldestIsFiled ==
  ASSUME Quiet
  PROVE  Filed(startIndex) = startIndex /\ Filed(endIndex) = endIndex
  BY DEF Quiet, QueueInv, Filed, TypeOK, Indices

LEMMA GetKeepsQueue ==
  ASSUME Quiet, NEW g \in Getters, ~crowded',
         Get(g) \/ GetLook(g) \/ NothingThere(g) \/ Cancelled(g) \/ ContextEnds(g)
  PROVE  QueueInv' /\ NothingLost'
<1>1. UNCHANGED <<chan, filed, startIndex, endIndex, first, added, got, adding, to>>
  BY DEF Get, GetLook, NothingThere, Cancelled, ContextEnds, mapVars, addVars
<1>2. NothingLost'
  BY <1>1, NothingMoved DEF Quiet
<1>3. OneEach'
  <2>1. CASE Get(g)
    <3>1. \A h \in Getters : getting[h] = "no"
      BY <2>1 DEF Get
    <3> QED BY <2>1, <3>1, <1>1 DEF Get, OneEach, Quiet, QueueInv, TypeOK
  <2>2. CASE GetLook(g) \/ NothingThere(g) \/ Cancelled(g) \/ ContextEnds(g)
    BY <2>2, <1>1 DEF GetLook, NothingThere, Cancelled, ContextEnds, OneEach, Quiet, QueueInv, TypeOK
  <2> QED BY <2>1, <2>2
<1>4. ASSUME NEW h \in Getters PROVE Looked(h)'
  <2>1. CASE GetLook(g)
    BY <2>1, <1>1, OldestIsFiled DEF GetLook, Looked, Quiet, QueueInv, TypeOK, Indices
  <2>2. CASE NothingThere(g)
    <3>1. startIndex \in Indices /\ startIndex # NoChan
      BY ChanAssumption DEF Quiet, QueueInv, TypeOK, Indices
    <3> QED BY <2>2, <3>1, <1>1 DEF NothingThere, Holding, Looked, Quiet, QueueInv, TypeOK
  <2>3. CASE Get(g) \/ Cancelled(g) \/ ContextEnds(g)
    BY <2>3, <1>1 DEF Get, Cancelled, ContextEnds, Looked, Quiet, QueueInv, TypeOK
  <2> QED BY <2>1, <2>2, <2>3
<1> QED BY <1>1, <1>2, <1>3, <1>4 DEF Quiet, QueueInv

LEMMA DropKeepsQueue ==
  ASSUME Quiet, NEW g \in Getters, DropOldest(g)
  PROVE  QueueInv' /\ NothingLost'
<1>1. /\ startIndex \in Nat /\ endIndex \in Nat /\ startIndex < endIndex
      /\ chan[startIndex] = << >> /\ filed = startIndex..endIndex
      /\ startIndex' = startIndex + 1 /\ filed' = filed \ {startIndex}
      /\ UNCHANGED <<chan, endIndex, first, added, got, adding, to, from, crowded>>
  BY DEF Quiet, QueueInv, TypeOK, Indices, DropOldest, Looked, addVars
<1>2. OneEach' /\ \A h \in Getters : h # g => getting'[h] = "no"
  BY <1>1 DEF DropOldest, OneEach, Quiet, QueueInv, TypeOK
<1>3. \A h \in Getters : Looked(h)'
  BY <1>1, <1>2 DEF DropOldest, Looked, Quiet, TypeOK
<1>4. QueueInv'
  <2>1. filed' = startIndex'..endIndex' /\ startIndex' <= endIndex'
    BY <1>1
  <2> QED BY <1>1, <1>2, <1>3, <2>1 DEF Quiet, QueueInv
<1>5. NothingLost'
  <2>1. Len(got) = first[startIndex + 1]
    <3>1. Segment(startIndex)
      BY <1>1 DEF Quiet, NothingLost
    <3>2. startIndex + 1 \in Indices
      BY <1>1, ChanAssumption DEF Quiet, TypeOK, Indices
    <3>3. Len(got) \in Nat /\ first[startIndex + 1] \in Nat
      BY <3>2 DEF Quiet, TypeOK
    <3> QED BY <1>1, <3>1, <3>3, EmptySeq DEF Segment, Begins, Ends
  <2>2. ASSUME NEW i \in startIndex'..endIndex' PROVE Segment(i)'
    <3>1. Segment(i) /\ i # startIndex /\ i \in filed'
      BY <1>1 DEF Quiet, NothingLost
    <3>2. Begins(i)' = Begins(i) /\ Ends(i)' = Ends(i)
      BY <1>1, <2>1, <3>1 DEF Begins, Ends
    <3> QED BY <1>1, <3>1, <3>2 DEF Segment
  <2> QED BY <1>1, <2>2 DEF Quiet, NothingLost
<1> QED BY <1>4, <1>5

\* A channel that gives its first element away begins one later and ends where it did.
LEMMA TailMeets ==
  ASSUME NEW S, NEW q \in Seq(S), q # << >>, NEW l \in Nat, NEW e \in Nat, l + Len(q) = e
  PROVE  (l + 1) + Len(Tail(q)) = e
<1>1. Len(Tail(q)) = Len(q) - 1 /\ Len(q) \in Nat
  BY HeadTailProperties
<1>2. PICK n \in Nat : n = Len(q)
  BY <1>1
<1>3. Len(Tail(q)) = n - 1 /\ l + n = e
  BY <1>1, <1>2
<1> QED BY <1>3

LEMMA ReceiveKeepsQueue ==
  ASSUME Quiet, NEW g \in Getters, Receive(g)
  PROVE  QueueInv' /\ NothingLost'
<1> DEFINE s == startIndex
<1>1. /\ s \in Indices /\ endIndex \in Indices /\ s <= endIndex /\ filed = s..endIndex
      /\ from[g] = s /\ chan[s] \in Seq(1..MaxAdds) /\ chan[s] # << >>
      /\ got' = Append(got, Head(chan[s])) /\ chan' = [chan EXCEPT ![s] = Tail(@)]
      /\ UNCHANGED <<filed, startIndex, endIndex, first, added, adding, to, from, crowded>>
  BY DEF Quiet, QueueInv, TypeOK, Indices, Receive, Holding, Looked, mapVars, addVars
<1>0. Len(chan[s]) \in Nat \ {0}
  BY <1>1, EmptySeq
<1>2. /\ Head(chan[s]) = chan[s][1]
      /\ Tail(chan[s]) \in Seq(1..MaxAdds) /\ Len(Tail(chan[s])) = Len(chan[s]) - 1
      /\ \A k \in 1..Len(Tail(chan[s])) : Tail(chan[s])[k] = chan[s][k + 1]
  <2>1. Head(chan[s]) = chan[s][1]
    BY <1>1 DEF Head
  <2> QED BY <1>1, <2>1, HeadTailProperties
<1>3. /\ got \in Seq(1..MaxAdds) /\ Len(got) \in Nat /\ Len(got') = Len(got) + 1
      /\ \A k \in 1..Len(got) : got'[k] = got[k]
      /\ got'[Len(got) + 1] = chan[s][1]
  <2>1. Head(chan[s]) \in 1..MaxAdds /\ got \in Seq(1..MaxAdds)
    BY <1>1, HeadTailProperties DEF Quiet, TypeOK
  <2> QED BY <1>1, <1>2, <2>1, AppendProperties
<1>4. Segment(s) /\ Begins(s) = Len(got)
  BY <1>1 DEF Quiet, NothingLost, Begins, Indices
<1>5. Ends(s) \in Nat /\ Ends(s) <= Len(added) /\ Len(added) \in Nat
  <2>1. s # endIndex => s + 1 \in Indices
    BY <1>1, ChanAssumption DEF Indices
  <2> QED BY <1>1, <2>1 DEF Ends, Quiet, TypeOK, BoundInv
<1>6. added[Len(got) + 1] = chan[s][1] /\ Len(got) + 1 <= Len(added)
  BY <1>0, <1>2, <1>3, <1>4, <1>5 DEF Segment
<1>7. OneEach' /\ \A h \in Getters : getting'[h] = "no"
  BY <1>1 DEF Receive, OneEach, Quiet, QueueInv, TypeOK
<1>8. QueueInv'
  BY <1>1, <1>3, <1>6, <1>7 DEF Quiet, QueueInv, Looked
<1>9. NothingLost'
  <2>1. \A k \in 1..Len(got') : got'[k] = added[k]
    BY <1>3, <1>6 DEF Quiet, NothingLost
  <2>2. ASSUME NEW i \in s..endIndex PROVE Segment(i)'
    <3>1. Segment(i) /\ i \in Indices
      BY <1>1, ChanAssumption DEF Quiet, NothingLost, Indices
    <3>2. CASE i # s
      <4>1. chan'[i] = chan[i] /\ Begins(i)' = Begins(i) /\ Ends(i)' = Ends(i)
        BY <1>1, <3>1, <3>2 DEF Begins, Ends
      <4> QED BY <1>1, <3>1, <4>1 DEF Segment
    <3>3. CASE i = s
      <4>1. /\ chan'[s] = Tail(chan[s]) /\ Begins(s)' = Len(got) + 1 /\ Ends(s)' = Ends(s)
            /\ s \in filed'
        BY <1>1, <1>3, <3>1, <3>3 DEF Begins, Ends, Quiet, TypeOK, Segment
      <4>2. Begins(s)' + Len(chan'[s]) = Ends(s)'
        <5>1. Len(got) + Len(chan[s]) = Ends(s)
          BY <1>4 DEF Segment
        <5>2. (Len(got) + 1) + Len(Tail(chan[s])) = Ends(s)
          <6> HIDE DEF s
          <6> QED BY <1>1, <1>3, <1>5, <5>1, TailMeets, Zenon
        <5> QED BY <4>1, <5>2, Zenon
      <4>3. \A k \in 1..Len(chan'[s]) : chan'[s][k] = added[Begins(s)' + k]
        <5> SUFFICES ASSUME NEW k \in 1..Len(Tail(chan[s]))
                     PROVE  Tail(chan[s])[k] = added[Len(got) + 1 + k]
          BY <4>1
        <5>1. k + 1 \in 1..Len(chan[s]) /\ Tail(chan[s])[k] = chan[s][k + 1]
          BY <1>2
        <5>2. chan[s][k + 1] = added[Len(got) + (k + 1)]
          BY <1>4, <5>1 DEF Segment
        <5> QED BY <1>3, <5>1, <5>2
      <4> QED BY <1>1, <3>3, <4>1, <4>2, <4>3 DEF Segment
    <3> QED BY <3>2, <3>3
  <2> QED BY <1>1, <2>1, <2>2 DEF Quiet, NothingLost, QueueInv
<1> QED BY <1>8, <1>9
-----------------------------------------------------------------------------
(* The steps of an Add. *)

LEMMA AddKeepsQueue ==
  ASSUME Quiet, NEW a \in Adders, ~crowded', Add(a) \/ AddLook(a) \/ Full(a)
  PROVE  QueueInv' /\ NothingLost'
<1>1. UNCHANGED <<chan, filed, startIndex, endIndex, first, added, got, getting, from>>
  BY DEF Add, AddLook, Full, mapVars, getVars
<1>2. NothingLost'
  BY <1>1, NothingMoved DEF Quiet
<1>3. OneEach'
  <2>1. CASE Add(a)
    <3>1. \A b \in Adders : adding[b] = "no"
      BY <2>1 DEF Add
    <3> QED BY <2>1, <3>1, <1>1 DEF Add, OneEach, Quiet, QueueInv, TypeOK
  <2>2. CASE AddLook(a) \/ Full(a)
    BY <2>2, <1>1 DEF AddLook, Full, OneEach, Quiet, QueueInv, TypeOK
  <2> QED BY <2>1, <2>2
<1>4. \A b \in Adders : adding'[b] = "send" => to'[b] = endIndex'
  <2>1. CASE AddLook(a)
    BY <2>1, <1>1, OldestIsFiled DEF AddLook, Quiet, QueueInv, TypeOK
  <2>2. CASE Add(a) \/ Full(a)
    BY <2>2, <1>1 DEF Add, Full, Quiet, QueueInv, TypeOK
  <2> QED BY <2>1, <2>2
<1> QED BY <1>1, <1>2, <1>3, <1>4 DEF Quiet, QueueInv, Looked

\* What an Add that goes through appends leaves the rest of what was added alone.
LEMMA AddedGrows ==
  ASSUME Quiet, NEW a \in Adders, adding[a] # "no", added' = Append(added, one[a])
  PROVE  /\ one[a] \in 1..MaxAdds /\ added \in Seq(1..MaxAdds) /\ Len(added) \in Nat
         /\ Len(added') = Len(added) + 1 /\ added'[Len(added) + 1] = one[a]
         /\ \A k \in 1..Len(added) : added'[k] = added[k]
<1>1. one[a] \in 1..MaxAdds /\ added \in Seq(1..MaxAdds)
  BY ChanAssumption DEF Quiet, TypeOK, BoundInv, Adding
<1> QED BY <1>1, AppendProperties

\* The elements of a segment are among those that were added.
LEMMA SegmentInAdded ==
  ASSUME Quiet, NEW i \in startIndex..endIndex
  PROVE  /\ i \in Indices /\ Segment(i) /\ chan[i] \in Seq(1..MaxAdds) /\ Len(chan[i]) \in Nat
         /\ Begins(i) \in Nat /\ Ends(i) \in Nat /\ Ends(i) <= Len(added)
<1>1. i \in Indices /\ startIndex \in Nat /\ endIndex \in Indices
  BY ChanAssumption DEF Quiet, TypeOK, Indices
<1>2. i # endIndex => i + 1 \in Indices
  BY <1>1, ChanAssumption DEF Indices
<1>3. Segment(i) /\ chan[i] \in Seq(1..MaxAdds) /\ Len(chan[i]) \in Nat
  BY <1>1 DEF Quiet, NothingLost, TypeOK
<1>4. Len(added) \in Nat /\ Len(got) \in Nat /\ first[i] \in Nat
  BY <1>1 DEF Quiet, TypeOK
<1>5. Begins(i) \in Nat
  BY <1>4 DEF Begins
<1>6. Ends(i) \in Nat /\ Ends(i) <= Len(added)
  BY <1>1, <1>2, <1>4 DEF Ends, Quiet, TypeOK, BoundInv
<1> QED BY <1>1, <1>3, <1>5, <1>6

\* A channel that neither an Add nor a Get used keeps its segment.
LEMMA SegmentStays ==
  ASSUME Quiet, NEW a \in Adders, adding[a] # "no", added' = Append(added, one[a]),
         NEW i \in startIndex..endIndex,
         i \in filed', chan'[i] = chan[i], Begins(i)' = Begins(i), Ends(i)' = Ends(i)
  PROVE  Segment(i)'
<1>1. \A k \in 1..Len(chan[i]) : Begins(i) + k \in 1..Len(added)
  <2>1. \A l, m, e, n, k \in Nat : l + m = e /\ e <= n /\ k \in 1..m => l + k \in 1..n
    OBVIOUS
  <2>2. Begins(i) + Len(chan[i]) = Ends(i) /\ \A k \in 1..Len(chan[i]) : k \in Nat
    BY SegmentInAdded DEF Segment
  <2> QED BY <2>1, <2>2, SegmentInAdded, AddedGrows
<1>2. \A k \in 1..Len(chan[i]) : chan[i][k] = added'[Begins(i) + k]
  BY <1>1, AddedGrows, SegmentInAdded DEF Segment
<1>3. Begins(i) + Len(chan[i]) = Ends(i)
  BY SegmentInAdded DEF Segment
<1> QED BY <1>2, <1>3 DEF Segment

LEMMA AppendMeets ==
  ASSUME NEW S, NEW q \in Seq(S), NEW x \in S, NEW l \in Nat, NEW e \in Nat, l + Len(q) = e
  PROVE  l + Len(Append(q, x)) = e + 1
<1>1. Len(Append(q, x)) = Len(q) + 1 /\ Len(q) \in Nat
  BY AppendProperties
<1>2. PICK n \in Nat : n = Len(q)
  BY <1>1
<1>3. Len(Append(q, x)) = n + 1 /\ l + n = e
  BY <1>1, <1>2
<1> QED BY <1>3

\* An Add whose call ends leaves what Get knows, and no other Add under way.
LEMMA OtherAddsIdle ==
  ASSUME Quiet, NEW a \in Adders, adding[a] # "no", adding' = [adding EXCEPT ![a] = "no"],
         UNCHANGED getting
  PROVE  OneEach' /\ \A b \in Adders : adding'[b] = "no"
  BY DEF OneEach, Quiet, QueueInv, TypeOK

\* What was received is still the beginning of what was added.
LEMMA ReceivedStays ==
  ASSUME Quiet, NEW a \in Adders, adding[a] # "no", added' = Append(added, one[a]),
         UNCHANGED got
  PROVE  Len(got') <= Len(added') /\ \A k \in 1..Len(got') : got'[k] = added'[k]
<1>1. Len(got) \in Nat /\ Len(got) <= Len(added)
  BY DEF Quiet, QueueInv, TypeOK
<1> QED BY <1>1, AddedGrows DEF Quiet, NothingLost

LEMMA SendKeepsQueue ==
  ASSUME Quiet, NEW a \in Adders, Send(a)
  PROVE  QueueInv' /\ NothingLost'
<1> DEFINE e == endIndex
<1>1. /\ e \in Indices /\ e \in Nat /\ startIndex \in Nat /\ startIndex <= e
      /\ filed = startIndex..e /\ e \in startIndex..e
      /\ to[a] = e /\ adding[a] # "no" /\ adding' = [adding EXCEPT ![a] = "no"]
      /\ added' = Append(added, one[a]) /\ chan' = [chan EXCEPT ![e] = Append(@, one[a])]
      /\ UNCHANGED <<filed, startIndex, endIndex, getting, from, to, first, got, crowded>>
  <2>1. e \in Indices /\ e \in Nat /\ startIndex \in Nat
    BY ChanAssumption DEF Quiet, TypeOK, Indices
  <2>2. startIndex <= e /\ filed = startIndex..e /\ to[a] = e
    BY DEF Quiet, QueueInv, Send
  <2> QED BY <2>1, <2>2 DEF Send, mapVars, getVars
<1>2. /\ chan' [e] = Append(chan[e], one[a])
      /\ \A i \in Indices : i # e => chan'[i] = chan[i]
  BY <1>1 DEF Quiet, TypeOK
<1>3. QueueInv'
  <2>1. \A h \in Getters : Looked(h)'
    BY <1>1, <1>2, ChanAssumption DEF Quiet, QueueInv, Looked, Indices
  <2> QED BY <1>1, <2>1, OtherAddsIdle, ReceivedStays DEF Quiet, QueueInv
<1>4. ASSUME NEW i \in startIndex..e PROVE Segment(i)'
  <2>1. CASE i # e
    <3>1. Begins(i)' = Begins(i) /\ Ends(i)' = Ends(i) /\ chan'[i] = chan[i] /\ i \in filed'
      BY <1>1, <1>2, <2>1, SegmentInAdded DEF Begins, Ends
    <3> QED BY <1>1, <3>1, SegmentStays
  <2>2. CASE i = e
    <3>1. /\ Begins(e)' = Begins(e) /\ Ends(e) = Len(added) /\ Ends(e)' = Len(added')
          /\ Begins(e) \in Nat /\ Begins(e) + Len(chan[e]) = Len(added)
          /\ chan[e] \in Seq(1..MaxAdds)
      BY <1>1, SegmentInAdded DEF Begins, Ends, Segment
    <3>2. Begins(e) + Len(chan'[e]) = Len(added) + 1
      <4>1. Len(added) \in Nat /\ one[a] \in 1..MaxAdds
        BY <1>1, AddedGrows
      <4>2. Begins(e) + Len(Append(chan[e], one[a])) = Len(added) + 1
        <5> HIDE DEF e
        <5> QED BY <3>1, <4>1, AppendMeets, Zenon
      <4> QED BY <1>2, <4>2, Zenon
    <3>3. \A k \in 1..Len(chan'[e]) : chan'[e][k] = added'[Begins(e) + k]
      <4>1. /\ Len(chan'[e]) = Len(chan[e]) + 1 /\ Len(chan[e]) \in Nat
            /\ chan'[e][Len(chan[e]) + 1] = one[a]
            /\ \A k \in 1..Len(chan[e]) : chan'[e][k] = chan[e][k]
        BY <1>1, <1>2, <3>1, AddedGrows, AppendProperties
      <4>2. ASSUME NEW k \in 1..Len(chan[e]) PROVE chan'[e][k] = added'[Begins(e) + k]
        <5>1. chan'[e][k] = added[Begins(e) + k]
          BY <1>1, <4>1, SegmentInAdded DEF Segment
        <5>2. \A l, m, n \in Nat : l + m = n /\ k \in 1..m => l + k \in 1..n
          OBVIOUS
        <5>3. Begins(e) + k \in 1..Len(added)
          BY <1>1, <3>1, <4>1, <5>2, AddedGrows
        <5> QED BY <1>1, <5>1, <5>3, AddedGrows
      <4>3. chan'[e][Len(chan[e]) + 1] = added'[Begins(e) + (Len(chan[e]) + 1)]
        <5>1. \A l, m, n \in Nat : l + m = n => l + (m + 1) = n + 1
          OBVIOUS
        <5>2. Begins(e) + (Len(chan[e]) + 1) = Len(added) + 1
          BY <1>1, <3>1, <4>1, <5>1, AddedGrows
        <5> QED BY <1>1, <4>1, <5>2, AddedGrows
      <4>4. \A k \in 1..Len(chan'[e]) : k \in 1..Len(chan[e]) \/ k = Len(chan[e]) + 1
        BY <4>1
      <4> QED BY <4>2, <4>3, <4>4
    <3> QED BY <1>1, <2>2, <3>1, <3>2, <3>3, AddedGrows DEF Segment
  <2> QED BY <2>1, <2>2
<1>5. NothingLost'
  BY <1>1, <1>4, ReceivedStays DEF NothingLost
<1> QED BY <1>3, <1>5

LEMMA PublishKeepsQueue ==
  ASSUME Quiet, NEW a \in Adders, Publish(a), BoundInv'
  PROVE  QueueInv' /\ NothingLost'
<1> DEFINE e == endIndex
<1>1. /\ e \in Indices /\ e \in Nat /\ startIndex \in Nat /\ startIndex <= e
      /\ filed = startIndex..e /\ e' = e + 1 /\ filed' = filed \cup {e + 1}
      /\ adding[a] # "no" /\ adding' = [adding EXCEPT ![a] = "no"]
      /\ added' = Append(added, one[a]) /\ chan' = [chan EXCEPT ![e + 1] = <<one[a]>>]
      /\ first' = [first EXCEPT ![e + 1] = Len(added)]
      /\ UNCHANGED <<startIndex, getting, from, to, got, crowded>>
  BY ChanAssumption DEF Quiet, QueueInv, TypeOK, Indices, Publish, getVars
<1>2. e + 1 \in Indices
  <2>1. e' <= Len(added') /\ Len(added') <= MaxAdds
    <3>1. Cardinality(Adding') \in Nat
      BY AddingFinite DEF Adding
    <3>2. Len(added') \in Nat
      BY <1>1, AddedGrows
    <3> QED BY <3>1, <3>2, ChanAssumption DEF BoundInv
  <2> QED BY <1>1, <2>1, AddedGrows, ChanAssumption DEF Indices
<1>3. /\ chan'[e + 1] = <<one[a]>> /\ first'[e + 1] = Len(added)
      /\ \A i \in Indices : i # e + 1 => chan'[i] = chan[i] /\ first'[i] = first[i]
  BY <1>1, <1>2 DEF Quiet, TypeOK
<1>4. QueueInv'
  <2>1. \A h \in Getters : Looked(h)'
    BY <1>1, <1>3, ChanAssumption DEF Quiet, QueueInv, Looked, Indices
  <2>2. filed' = startIndex'..endIndex' /\ startIndex' <= endIndex'
    BY <1>1
  <2> QED BY <1>1, <2>1, <2>2, OtherAddsIdle, ReceivedStays DEF Quiet, QueueInv
<1>5. ASSUME NEW i \in startIndex..(e + 1) PROVE Segment(i)'
  <2>1. CASE i # e + 1
    <3>1. i \in startIndex..e /\ i \in Indices /\ (i # e => i + 1 \in Indices /\ i + 1 # e + 1)
      BY <1>1, <2>1, ChanAssumption DEF Indices
    <3>2. Begins(i)' = Begins(i) /\ chan'[i] = chan[i] /\ i \in filed'
      BY <1>1, <1>3, <2>1, <3>1 DEF Begins
    <3>3. Ends(i)' = Ends(i)
      BY <1>1, <1>3, <2>1, <3>1 DEF Ends
    <3> QED BY <1>1, <3>1, <3>2, <3>3, SegmentStays
  <2>2. CASE i = e + 1
    <3>1. Begins(i)' = Len(added) /\ Ends(i)' = Len(added') /\ i \in filed'
      BY <1>1, <1>3, <2>2 DEF Begins, Ends
    <3>2. Len(chan'[i]) = 1 /\ chan'[i][1] = one[a]
      <4>1. Len(<<one[a]>>) = 1 /\ <<one[a]>>[1] = one[a]
        OBVIOUS
      <4> QED BY <1>3, <2>2, <4>1, Zenon
    <3>3. \A k \in 1..1 : k = 1
      OBVIOUS
    <3> QED BY <1>1, <3>1, <3>2, <3>3, AddedGrows DEF Segment
  <2> QED BY <2>1, <2>2
<1>6. NothingLost'
  BY <1>1, <1>4, <1>5, ReceivedStays DEF NothingLost
<1> QED BY <1>4, <1>6
-----------------------------------------------------------------------------
LEMMA InitChanInv == Init => ChanInv
<1> SUFFICES ASSUME Init PROVE ChanInv
  OBVIOUS
<1>1. 0 \in Indices /\ << >> \in Seq(1..MaxAdds) /\ Len(<< >>) = 0 /\ 0 <= ChanLen
  BY ChanAssumption, EmptySeq DEF Indices
<1>2. TypeOK
  BY <1>1, ChanAssumption DEF Init, TypeOK
<1>3. BoundInv
  <2>1. Adding = {}
    BY DEF Init, Adding
  <2> QED BY <1>1, <2>1, FS_EmptySet, ChanAssumption DEF Init, BoundInv
<1>4. QueueInv
  BY <1>1 DEF Init, QueueInv, OneEach, Looked
<1>5. Segment(0)
  BY <1>1 DEF Init, Segment, Begins, Ends
<1>6. NothingLost
  BY <1>1, <1>5 DEF Init, NothingLost
<1> QED BY <1>2, <1>3, <1>4, <1>6 DEF ChanInv

\* Calls that have overlapped are not forgotten.
LEMMA CrowdedStays == Next => (crowded => crowded')
  BY DEF Next, GetStep, Get, GetLook, NothingThere, DropOldest, Cancelled, Receive, ContextEnds,
         Add, AddStep, AddLook, Send, Full, Publish

LEMMA ChanInvKept == ChanInv /\ [Next]_vars => ChanInv'
<1> SUFFICES ASSUME ChanInv, [Next]_vars PROVE ChanInv'
  OBVIOUS
<1>1. TypeOK' /\ BoundInv'
  BY TypesKept DEF ChanInv
<1>2. ASSUME Next, ~crowded' PROVE QueueInv' /\ NothingLost'
  <2>1. Quiet
    BY <1>2, CrowdedStays DEF ChanInv, Quiet
  <2>2. ASSUME NEW g \in Getters, GetStep(g) \/ Receive(g) \/ ContextEnds(g)
        PROVE  QueueInv' /\ NothingLost'
    BY <1>2, <2>1, <2>2, GetKeepsQueue, DropKeepsQueue, ReceiveKeepsQueue DEF GetStep
  <2>3. ASSUME NEW a \in Adders, Add(a) \/ AddStep(a)
        PROVE  QueueInv' /\ NothingLost'
    BY <1>1, <1>2, <2>1, <2>3, AddKeepsQueue, SendKeepsQueue, PublishKeepsQueue DEF AddStep
  <2> QED BY <1>2, <2>2, <2>3 DEF Next
<1>3. crowded' => QueueInv' /\ NothingLost'
  BY DEF QueueInv, NothingLost
<1>4. CASE UNCHANGED vars
  BY <1>1, <1>4 DEF ChanInv, vars, mapVars, getVars, addVars, QueueInv, OneEach, Looked,
                    NothingLost, Segment, Begins, Ends
<1> QED BY <1>1, <1>2, <1>3, <1>4 DEF ChanInv

THEOREM ChanInvariant == Spec => []ChanInv
  BY InitChanInv, ChanInvKept, PTL DEF Spec

(* Whatever calls overlap, no index leaves the map's range, no channel      *)
(* holds more than its capacity, and an element is one that was added.      *)
THEOREM TypeCorrect == Spec => []TypeOK
  BY ChanInvariant, PTL DEF ChanInv

(* While no two Gets and no two Adds overlap, what was received is the      *)
(* beginning of what was added, and the channels from the oldest to the     *)
(* newest hold the rest in order: the Get that drops the oldest channel,    *)
(* or whose context ends, and the Add that makes a new one beside it, each  *)
(* on a channel looked up before the lock was released, lose nothing.       *)
THEOREM QueueLosesNothing == Spec => []NothingLost
  BY ChanInvariant, PTL DEF ChanInv
=============================================================================
