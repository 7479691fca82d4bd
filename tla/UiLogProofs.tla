---------------------------- MODULE UiLogProofs ----------------------------
(***************************************************************************)
(* Proofs about UiLog for any number of requests, events, logs and polls.  *)
(*                                                                         *)
(* The page is right about the log because of what is on its way to it:    *)
(* an answer that is not outdated holds only events of the log (Answers),  *)
(* and a request for a replay that is sure names ids the log has and, in a *)
(* log whose ids are unique, exactly the events it wants (Requested).      *)
(***************************************************************************)
EXTENDS UiLog, WellFoundedInduction, SequenceTheorems, TLAPS

Log(s)  == stores[s].events
TheLog  == Log(current)

\* What the type invariant needs beside itself.
Counted ==
    /\ \A s \in StoreIds : stores[s].next <= made + 1
    /\ \A r \in Requests : held[r] # NoEvent => recording # 0
    /\ \A r \in replies : r = [list |-> r.list, old |-> r.old]

\* Ids come from the counter of their log.
Below ==
    \A s \in StoreIds \ crossed :
        /\ \A i \in 1..Len(Log(s)) : Log(s)[i].id < stores[s].next
        /\ recording = s => \A r \in Requests :
              held[r] # NoEvent => held[r].id < stores[s].next

InLog(e, log) == \E k \in 1..Len(log) : log[k] = e

Answers ==
    \A r \in replies : ~r.old => \A k \in 1..Len(r.list) : InLog(r.list[k], TheLog)

ShownInLog ==
    awaiting = {} /\ ~ghost =>
        \A i \in Ids : shown[i] # 0 => InLog([n |-> shown[i], id |-> i], TheLog)

Requested ==
    \A a \in asked : a.sure =>
        /\ \A i \in a.ids : \E k \in 1..Len(TheLog) : TheLog[k].id = i
        /\ current \notin crossed /\ a.ids # {} => Chosen(a.ids) = a.wanted

TInv == TypeOK /\ Counted
IInv == TInv /\ Below /\ DuplicateHasCause /\ Answers /\ ShownInLog /\ Requested
             /\ ReplayAsSelected

----------------------------------------------------------------------------
(* The merge.                                                               *)

\* A nonempty bounded set of numbers has a largest one, which is its Max.
LEMMA MaxIsElement ==
  ASSUME NEW n \in Nat, NEW S, S \subseteq 0..n, S # {}
  PROVE  Max(S) \in S /\ \A x \in S : Max(S) >= x
  <1> DEFINE T == {n - x : x \in S}
             R == OpToRel(<, Nat)
  <1>1. T \subseteq Nat /\ T # {}
    <2>1. \A x \in S : n - x \in Nat OBVIOUS
    <2>2. PICK x \in S : TRUE OBVIOUS
    <2>3. n - x \in T OBVIOUS
    <2> QED BY <2>1, <2>3
  <1>2. PICK t \in T : \A y \in T : ~(<<y, t>> \in R)
    <2> HIDE DEF T, R
    <2>1. IsWellFoundedOn(R, Nat) BY NatLessThanWellFounded DEF R
    <2> QED BY <1>1, <2>1, WFMin
  <1>3. \A y \in T : ~(y < t)
    BY <1>1, <1>2 DEF OpToRel
  <1>4. PICK x \in S : t = n - x OBVIOUS
  <1>5. \A y \in S : x >= y
    BY <1>3, <1>4
  <1> QED BY <1>5 DEF Max

\* What the merge leaves in an entry was there or is an event of the list.
LEMMA MergedFrom ==
  ASSUME NEW list \in Seq(Events), NEW map, NEW i \in Ids,
         Merged(map, list)[i] # map[i]
  PROVE  \E k \in 1..Len(list) :
            list[k].id = i /\ Merged(map, list)[i] = list[k].n
  <1> DEFINE at == {k \in 1..Len(list) : list[k].id = i}
             m == Len(list)
  <1>1. Merged(map, list)[i] = IF at = {} THEN map[i] ELSE list[Max(at)].n
    BY DEF Merged
  <1>2. at # {} BY <1>1
  <1>3. m \in Nat /\ at \subseteq 0..m OBVIOUS
  <1>4. Max(at) \in at
    <2> HIDE DEF at, m
    <2> QED BY <1>2, <1>3, MaxIsElement
  <1> QED BY <1>1, <1>2, <1>4

\* The merge is a page's map again.
LEMMA MergedTyped ==
  ASSUME NEW list \in Seq(Events), NEW map \in [Ids -> 0..MaxEvents]
  PROVE  Merged(map, list) \in [Ids -> 0..MaxEvents]
  <1>1. \A i \in Ids : Merged(map, list)[i] \in 0..MaxEvents
    <2> TAKE i \in Ids
    <2>1. CASE Merged(map, list)[i] = map[i] BY <2>1
    <2>2. CASE Merged(map, list)[i] # map[i]
      <3>1. PICK k \in 1..Len(list) : Merged(map, list)[i] = list[k].n
        BY <2>2, MergedFrom
      <3>2. list[k] \in Events BY <3>1
      <3> QED BY <3>1, <3>2, UiAssumption DEF Events, Numbers
    <2> QED BY <2>1, <2>2
  <1>2. Merged(map, list) = [i \in Ids |-> Merged(map, list)[i]]
    BY DEF Merged
  <1> QED BY <1>1, <1>2

----------------------------------------------------------------------------
(* Types.                                                                   *)

\* A log is a sequence of events; its counter is a number.
LEMMA LogTyped ==
  ASSUME TypeOK, NEW s \in StoreIds
  PROVE  /\ Log(s) \in Seq(Events) /\ Len(Log(s)) \in Nat
         /\ stores[s] = [next |-> stores[s].next, events |-> Log(s)]
         /\ stores[s].next \in 1..(MaxEvents + 1)
  BY DEF TypeOK, Log

\* The counter is a number.
LEMMA NextTyped ==
  ASSUME TypeOK, NEW s \in StoreIds
  PROVE  stores[s].next \in Nat
  <1>1. stores[s].next \in 1..(MaxEvents + 1) BY LogTyped
  <1> QED BY <1>1, UiAssumption

\* An event has a number and an id, both positive.
LEMMA EventTyped ==
  ASSUME NEW log \in Seq(Events), NEW k \in 1..Len(log)
  PROVE  /\ log[k] \in Events /\ log[k].n \in Numbers /\ log[k].id \in Ids
         /\ log[k] = [n |-> log[k].n, id |-> log[k].id]
         /\ log[k].n \in Nat /\ log[k].n # 0 /\ log[k].id \in Nat
  <1>1. log[k] \in Events OBVIOUS
  <1>2. \A m \in Numbers : m \in Nat /\ m # 0 BY UiAssumption DEF Numbers
  <1> QED BY <1>1, <1>2 DEF Events, Ids

\* A held event, unless there is none.
LEMMA HeldTyped ==
  ASSUME TypeOK, NEW r \in Requests
  PROVE  /\ held[r] \in Events \/ held[r] = NoEvent
         /\ held[r] # NoEvent => held[r] \in Events /\ held[r].id \in Ids
  BY DEF TypeOK, Events

\* The stores and logs there can be.
LEMMA StoresTyped ==
  ASSUME TypeOK
  PROVE  /\ current \in StoreIds /\ current \in Nat
         /\ recording \in Nat /\ (recording # 0 => recording \in StoreIds)
         /\ recording <= current /\ made \in Nat /\ made <= MaxEvents
         /\ MaxEvents \in Nat /\ MaxStores \in Nat /\ InFile \in Nat
  BY UiAssumption DEF TypeOK, StoreIds

\* A loaded log has the ids of its file, and the counter is above them.
LEMMA LoadedTyped ==
  ASSUME NEW ids \in FileIds
  PROVE  /\ Loaded(ids).events \in Seq(Events) /\ Len(Loaded(ids).events) = InFile
         /\ \A i \in 1..InFile : /\ Loaded(ids).events[i].id = ids[i]
                                 /\ ids[i] < Loaded(ids).next
         /\ Loaded(ids).next \in 1..(InFile + 1)
         /\ Loaded(ids) \in [next : 1..(MaxEvents + 1), events : Seq(Events)]
         /\ IsInjective(ids) => \A i, j \in 1..InFile : ids[i] = ids[j] => i = j
  <1> DEFINE f == [i \in 1..InFile |-> [n |-> i, id |-> ids[i]]]
             S == {ids[i] : i \in 1..InFile} \cup {0}
             m == Max(S)
  <1>1. /\ InFile \in Nat /\ MaxEvents \in Nat /\ InFile <= MaxEvents
        /\ ids \in [1..InFile -> 1..InFile]
    BY UiAssumption
  <1>2. \A i \in 1..InFile : [n |-> i, id |-> ids[i]] \in Events
    BY <1>1 DEF Events, Ids, Numbers
  <1>3. f \in Seq(Events) /\ Len(f) = InFile
    BY <1>1, <1>2
  <1>4. S \subseteq 0..InFile /\ S # {} BY <1>1
  <1>5. m \in S /\ \A x \in S : m >= x
    <2> HIDE DEF S
    <2> QED BY <1>1, <1>4, MaxIsElement
  <1>6. m \in 0..InFile /\ \A i \in 1..InFile : ids[i] < m + 1
    <2>1. \A i \in 1..InFile : ids[i] \in S /\ ids[i] \in Nat BY <1>1
    <2> HIDE DEF S, m
    <2> QED BY <2>1, <1>1, <1>4, <1>5
  <1>7. Loaded(ids) = [next |-> m + 1, events |-> f] BY DEF Loaded
  <1>8. IsInjective(ids) => \A i, j \in 1..InFile : ids[i] = ids[j] => i = j
    BY <1>1 DEF IsInjective
  <1> HIDE DEF m, f
  <1>9. m + 1 \in 1..(InFile + 1) /\ m + 1 \in 1..(MaxEvents + 1) BY <1>1, <1>6
  <1>10. \A i \in 1..InFile : f[i].id = ids[i] BY DEF f
  <1> QED BY <1>1, <1>3, <1>6, <1>7, <1>8, <1>9, <1>10

LEMMA InitInv == Init => IInv
  <1> SUFFICES ASSUME Init PROVE IInv OBVIOUS
  <1>1. TypeOK
    <2>1. NewStore \in [next : 1..(MaxEvents + 1), events : Seq(Events)]
      BY UiAssumption DEF NewStore
    <2>2. 1 \in StoreIds /\ 0 \in 0..1 /\ made \in InFile..MaxEvents
      BY UiAssumption DEF Init, StoreIds
    <2>3. shown \in [Ids -> 0..MaxEvents]
      BY UiAssumption DEF Init
    <2> QED BY <2>1, <2>2, <2>3 DEF Init, TypeOK, Unsure
  <1>2. Counted
    BY UiAssumption DEF Init, Counted, NewStore
  <1>3. Below
    BY DEF Init, Below, Log, NewStore, NoEvent
  <1>4. DuplicateHasCause
    BY DEF Init, DuplicateHasCause, NewStore, NoEvent
  <1>5. Answers /\ ShownInLog /\ Requested /\ ReplayAsSelected
    BY DEF Init, Answers, ShownInLog, Requested, ReplayAsSelected, Unsure
  <1> QED BY <1>1, <1>2, <1>3, <1>4, <1>5 DEF IInv, TInv

----------------------------------------------------------------------------
(* What steps leave alone.                                                  *)

\* A step that leaves the Api alone keeps what is said of the logs.
LEMMA StoresKept ==
  ASSUME IInv, UNCHANGED apiVars, crossed' = crossed
  PROVE  Below' /\ DuplicateHasCause'
  BY DEF IInv, apiVars, Below, DuplicateHasCause, Log

\* A step that changes neither the log nor the page keeps what is said of the page.
LEMMA PageKept ==
  ASSUME IInv, TheLog' = TheLog, current' = current, UNCHANGED <<pageVars, playVars>>,
         ghost' = ghost, crossed' = crossed
  PROVE  Answers' /\ ShownInLog' /\ Requested' /\ ReplayAsSelected'
  <1>1. Answers' BY DEF IInv, Answers, pageVars
  <1>2. ShownInLog' BY DEF IInv, ShownInLog, pageVars
  <1>3. Requested' BY DEF IInv, Requested, Chosen, TheLog, Log, playVars
  <1>4. ReplayAsSelected' BY DEF IInv, ReplayAsSelected, playVars
  <1> QED BY <1>1, <1>2, <1>3, <1>4

LEMMA StartInv ==
  ASSUME IInv, Start
  PROVE  IInv'
  <1>1. TypeOK'
    BY StoresTyped DEF IInv, TInv, TypeOK, Start, pageVars, playVars
  <1>2. Counted'
    BY DEF IInv, TInv, Counted, Start, pageVars
  <1>3. \A r \in Requests : held[r] = NoEvent /\ held'[r] = NoEvent
    BY DEF IInv, TInv, Counted, Start
  <1>4. Below'
    BY <1>3 DEF IInv, Below, Log, Start
  <1>5. DuplicateHasCause'
    BY <1>3 DEF IInv, DuplicateHasCause, Start
  <1>6. Answers' /\ ShownInLog' /\ Requested' /\ ReplayAsSelected'
    BY PageKept DEF Start, TheLog, Log
  <1> QED BY <1>1, <1>2, <1>4, <1>5, <1>6 DEF IInv, TInv

LEMMA StopInv ==
  ASSUME IInv, Stop
  PROVE  IInv'
  <1>1. TypeOK'
    BY StoresTyped DEF IInv, TInv, TypeOK, Stop, pageVars, playVars
  <1>2. Counted'
    BY DEF IInv, TInv, Counted, Stop, pageVars
  <1>3. \A r \in Requests : held'[r] = NoEvent
    BY DEF Stop
  <1>4. Below'
    BY <1>3 DEF IInv, Below, Log, Stop
  <1>5. DuplicateHasCause'
    BY <1>3 DEF IInv, DuplicateHasCause, Stop
  <1>6. Answers' /\ ShownInLog' /\ Requested' /\ ReplayAsSelected'
    BY PageKept DEF Stop, TheLog, Log
  <1> QED BY <1>1, <1>2, <1>4, <1>5, <1>6 DEF IInv, TInv

----------------------------------------------------------------------------
(* Requests.                                                                *)

LEMMA ReserveInv ==
  ASSUME IInv, NEW r \in Requests, Reserve(r)
  PROVE  IInv'
  <1> DEFINE R == recording
             id == stores[R].next
  <1>1. /\ R \in StoreIds /\ R <= current /\ made \in Nat /\ made < MaxEvents
        /\ MaxEvents \in Nat /\ InFile \in Nat /\ made \in InFile..MaxEvents
    BY StoresTyped DEF IInv, TInv, TypeOK, Reserve
  <1>2. id \in 1..(MaxEvents + 1) /\ id <= made + 1 /\ id \in Ids /\ made + 1 \in Numbers
    <2>1. id \in 1..(MaxEvents + 1) BY <1>1, LogTyped DEF IInv, TInv
    <2>2. id <= made + 1 BY <1>1 DEF IInv, TInv, Counted
    <2> HIDE DEF id
    <2> QED BY <2>1, <2>2, <1>1 DEF Ids, Numbers
  <1>3. /\ recording' = recording /\ current' = current /\ made' = made + 1
        /\ crossed' = crossed /\ ghost' = ghost
        /\ UNCHANGED pageVars /\ UNCHANGED playVars
    BY DEF Reserve
  <1>4. /\ \A s \in StoreIds : Log(s)' = Log(s)
        /\ \A s \in StoreIds : stores'[s].next = IF s = R THEN id + 1 ELSE stores[s].next
        /\ stores' \in [StoreIds -> [next : 1..(MaxEvents + 1), events : Seq(Events)]]
    <2>1. stores \in [StoreIds -> [next : 1..(MaxEvents + 1), events : Seq(Events)]]
      BY DEF IInv, TInv, TypeOK
    <2>2. stores' = [stores EXCEPT ![R] = [next |-> id + 1, events |-> Log(R)]]
      <3>1. stores[R] = [next |-> id, events |-> Log(R)]
        BY <1>1, LogTyped DEF IInv, TInv
      <3>2. stores' = [stores EXCEPT ![R] = [stores[R] EXCEPT !.next = stores[R].next + 1]]
        BY DEF Reserve
      <3>3. [stores[R] EXCEPT !.next = stores[R].next + 1] = [next |-> id + 1, events |-> Log(R)]
        BY <3>1
      <3> QED BY <3>2, <3>3
    <2>3. Log(R) \in Seq(Events) /\ id + 1 \in 1..(MaxEvents + 1)
      <3>1. Log(R) \in Seq(Events) BY <1>1, LogTyped DEF IInv, TInv
      <3> HIDE DEF id
      <3> QED BY <3>1, <1>1, <1>2
    <2> QED BY <2>1, <2>2, <2>3, <1>1 DEF Log
  <1>5. /\ \A q \in Requests : held'[q] = IF q = r THEN [n |-> made + 1, id |-> id] ELSE held[q]
        /\ held' \in [Requests -> Events \cup {NoEvent}] /\ held[r] = NoEvent
        /\ [n |-> made + 1, id |-> id] \in Events
    BY <1>2 DEF IInv, TInv, TypeOK, Reserve, Events
  <1>6. TypeOK'
    <2>1. made' \in InFile..MaxEvents BY <1>1, <1>3
    <2> QED BY <2>1, <1>3, <1>4, <1>5 DEF IInv, TInv, TypeOK, pageVars, playVars
  <1>7. Counted'
    <2>1. \A s \in StoreIds : stores'[s].next <= made' + 1
      <3> TAKE s \in StoreIds
      <3>1. stores[s].next <= made + 1 BY DEF IInv, TInv, Counted
      <3>2. stores[s].next \in Nat BY NextTyped DEF IInv, TInv
      <3> QED BY <3>1, <3>2, <1>1, <1>2, <1>3, <1>4
    <2>2. \A q \in Requests : held'[q] # NoEvent => recording' # 0
      BY <1>1, <1>3 DEF Reserve
    <2>3. replies' = replies BY <1>3 DEF pageVars
    <2> QED BY <2>1, <2>2, <2>3 DEF IInv, TInv, Counted
  <1>8. \A s \in StoreIds \ crossed : \A i \in 1..Len(Log(s)) :
           Log(s)[i].id < stores[s].next /\ Log(s)[i].id \in Nat /\ stores[s].next \in Nat
    <2> TAKE s \in StoreIds \ crossed
    <2>1. TypeOK BY DEF IInv, TInv
    <2>2. Log(s) \in Seq(Events) /\ stores[s].next \in Nat BY <2>1, LogTyped, NextTyped
    <2>3. \A i \in 1..Len(Log(s)) : Log(s)[i].id \in Nat
      BY <2>2, EventTyped
    <2> QED BY <2>2, <2>3 DEF IInv, Below
  <1>9. R \notin crossed => \A q \in Requests : held[q] # NoEvent =>
           held[q].id < id /\ held[q].id \in Nat /\ id \in Nat
    BY HeldTyped, <1>1, <1>2 DEF IInv, TInv, Below, Ids, Numbers
  <1>10. Below'
    <2> SUFFICES ASSUME NEW s \in StoreIds \ crossed
                 PROVE  /\ \A i \in 1..Len(Log(s)) : Log(s)[i].id < stores'[s].next
                        /\ R = s => \A q \in Requests :
                              held'[q] # NoEvent => held'[q].id < stores'[s].next
      BY <1>3, <1>4 DEF Below
    <2>1. \A i \in 1..Len(Log(s)) : Log(s)[i].id < stores'[s].next
      BY <1>4, <1>8
    <2>2. ASSUME R = s, NEW q \in Requests, held'[q] # NoEvent
          PROVE  held'[q].id < stores'[s].next
      BY <2>2, <1>2, <1>4, <1>5, <1>9
    <2> QED BY <2>1, <2>2
  <1>11. DuplicateHasCause'
    <2> SUFFICES ASSUME NEW s \in StoreIds \ crossed
                 PROVE  /\ \A i, j \in 1..Len(Log(s)) : Log(s)[i].id = Log(s)[j].id => i = j
                        /\ R = s => \A q \in Requests : held'[q] # NoEvent =>
                              /\ \A i \in 1..Len(Log(s)) : Log(s)[i].id # held'[q].id
                              /\ \A t \in Requests : held'[t].id = held'[q].id => t = q
      BY <1>3, <1>4 DEF DuplicateHasCause, Log
    <2>1. \A i, j \in 1..Len(Log(s)) : Log(s)[i].id = Log(s)[j].id => i = j
      BY DEF IInv, DuplicateHasCause, Log
    <2>2. ASSUME R = s, NEW q \in Requests, held'[q] # NoEvent
          PROVE  \A i \in 1..Len(Log(s)) : Log(s)[i].id # held'[q].id
      <3>1. CASE q = r BY <3>1, <2>2, <1>5, <1>8
      <3>2. CASE q # r BY <3>2, <2>2, <1>5 DEF IInv, DuplicateHasCause, Log
      <3> QED BY <3>1, <3>2
    <2>3. ASSUME R = s, NEW q \in Requests, held'[q] # NoEvent,
                 NEW t \in Requests, held'[t].id = held'[q].id
          PROVE  t = q
      <3>1. id # 0 /\ NoEvent.id = 0 /\ \A u \in Requests : held[u] # NoEvent => held[u].id # id
        BY <2>3, <1>2, <1>9 DEF NoEvent
      <3>2. CASE q = r
        <4> SUFFICES ASSUME t # r PROVE FALSE BY <3>2
        <4>1. held[t].id = id BY <3>2, <2>3, <1>5
        <4> QED BY <4>1, <3>1
      <3>3. CASE q # r /\ t = r
        <4>1. held[q].id = id /\ held[q] # NoEvent BY <3>3, <2>3, <1>5
        <4> QED BY <4>1, <3>1
      <3>4. CASE q # r /\ t # r
        BY <3>4, <2>3, <1>5 DEF IInv, DuplicateHasCause
      <3> QED BY <3>2, <3>3, <3>4
    <2> QED BY <2>1, <2>2, <2>3
  <1>12. Answers' /\ ShownInLog' /\ Requested' /\ ReplayAsSelected'
    <2>1. current \in StoreIds BY StoresTyped DEF IInv, TInv
    <2>2. TheLog' = TheLog BY <2>1, <1>3, <1>4 DEF TheLog, Log
    <2> QED BY <2>2, <1>3, PageKept
  <1> QED BY <1>6, <1>7, <1>10, <1>11, <1>12 DEF IInv, TInv

\* What is in a log is in it with one more event.
LEMMA Appended ==
  ASSUME NEW log \in Seq(Events), NEW e \in Events
  PROVE  /\ Append(log, e) \in Seq(Events)
         /\ Len(log) \in Nat /\ Len(Append(log, e)) = Len(log) + 1
         /\ \A k \in 1..Len(log) : Append(log, e)[k] = log[k]
         /\ Append(log, e)[Len(log) + 1] = e
         /\ \A k \in 1..Len(Append(log, e)) : k \in 1..Len(log) \/ k = Len(log) + 1
         /\ \A x : InLog(x, log) => InLog(x, Append(log, e))
  BY DEF InLog

\* What Chosen chooses from a log.
ChosenFrom(log, ids) == {log[i].n : i \in {j \in 1..Len(log) : log[j].id \in ids}}

\* An event with another id is not chosen.
LEMMA ChosenKept ==
  ASSUME NEW log \in Seq(Events), NEW e \in Events, NEW ids, e.id \notin ids
  PROVE  ChosenFrom(Append(log, e), ids) = ChosenFrom(log, ids)
  <1> DEFINE new == Append(log, e)
             n == Len(log)
  <1>1. /\ n \in Nat /\ Len(new) = n + 1 /\ new[n + 1] = e
        /\ \A k \in 1..n : new[k] = log[k]
    BY Appended
  <1>2. {j \in 1..Len(new) : new[j].id \in ids} = {j \in 1..n : log[j].id \in ids}
    <2> HIDE DEF new, n
    <2> QED BY <1>1
  <1> QED BY <1>1, <1>2 DEF ChosenFrom

LEMMA AddInv ==
  ASSUME IInv, NEW r \in Requests, Add(r)
  PROVE  IInv'
  <1> DEFINE R == recording
             e == held[r]
             new == Append(Log(R), e)
  <1>1. R \in StoreIds /\ current \in StoreIds /\ e \in Events /\ e # NoEvent
    BY StoresTyped, HeldTyped DEF IInv, TInv, Counted, Add
  <1>2. /\ recording' = recording /\ current' = current /\ made' = made
        /\ crossed' = crossed /\ ghost' = ghost
        /\ UNCHANGED pageVars /\ UNCHANGED playVars
    BY DEF Add
  <1>3. Log(R) \in Seq(Events) /\ new \in Seq(Events)
    <2>1. Log(R) \in Seq(Events) BY <1>1, LogTyped DEF IInv, TInv
    <2> QED BY <2>1, <1>1, Appended
  <1>4. /\ \A s \in StoreIds : Log(s)' = IF s = R THEN new ELSE Log(s)
        /\ \A s \in StoreIds : stores'[s].next = stores[s].next
        /\ stores' \in [StoreIds -> [next : 1..(MaxEvents + 1), events : Seq(Events)]]
    <2>1. stores \in [StoreIds -> [next : 1..(MaxEvents + 1), events : Seq(Events)]]
      BY DEF IInv, TInv, TypeOK
    <2>2. stores[R] = [next |-> stores[R].next, events |-> Log(R)]
      BY <1>1, LogTyped DEF IInv, TInv
    <2>3. stores' = [stores EXCEPT ![R] = [stores[R] EXCEPT !.events = Append(stores[R].events, e)]]
      BY DEF Add
    <2>4. [stores[R] EXCEPT !.events = Append(stores[R].events, e)]
             = [next |-> stores[R].next, events |-> new]
      BY <2>2 DEF Log
    <2>5. stores[R].next \in 1..(MaxEvents + 1)
      BY <1>1, LogTyped DEF IInv, TInv
    <2> HIDE DEF new
    <2> QED BY <2>1, <2>3, <2>4, <2>5, <1>1, <1>3 DEF Log
  <1>5. /\ \A q \in Requests : held'[q] = IF q = r THEN NoEvent ELSE held[q]
        /\ held' \in [Requests -> Events \cup {NoEvent}]
    BY DEF IInv, TInv, TypeOK, Add
  <1>6. /\ Len(Log(R)) \in Nat /\ Len(new) = Len(Log(R)) + 1 /\ new[Len(Log(R)) + 1] = e
        /\ \A k \in 1..Len(Log(R)) : new[k] = Log(R)[k]
        /\ \A k \in 1..Len(new) : k \in 1..Len(Log(R)) \/ k = Len(Log(R)) + 1
        /\ \A x : InLog(x, Log(R)) => InLog(x, new)
    BY <1>1, <1>3, Appended
  <1> HIDE DEF R, e, new
  <1>7. TypeOK'
    BY <1>2, <1>4, <1>5 DEF IInv, TInv, TypeOK, pageVars, playVars
  <1>8. Counted'
    BY <1>2, <1>4, <1>5 DEF IInv, TInv, Counted, pageVars
  <1>9. Below'
    <2> SUFFICES ASSUME NEW s \in StoreIds \ crossed
                 PROVE  /\ \A i \in 1..Len(Log(s)') : Log(s)'[i].id < stores[s].next
                        /\ recording = s => \A q \in Requests :
                              held'[q] # NoEvent => held'[q].id < stores[s].next
      BY <1>2, <1>4 DEF Below
    <2>1. CASE s = R
      <3>1. e.id < stores[s].next BY <2>1, <1>1 DEF IInv, Below, R, e
      <3>2. \A i \in 1..Len(Log(R)) : Log(R)[i].id < stores[s].next
        BY <2>1 DEF IInv, Below
      <3>3. \A i \in 1..Len(new) : new[i].id < stores[s].next BY <3>1, <3>2, <1>6
      <3> QED BY <3>3, <2>1, <1>4, <1>5 DEF IInv, Below
    <2>2. CASE s # R BY <2>2, <1>4, <1>5 DEF IInv, Below
    <2> QED BY <2>1, <2>2
  <1>10. R \notin crossed =>
           /\ \A i, j \in 1..Len(Log(R)) : Log(R)[i].id = Log(R)[j].id => i = j
           /\ \A i \in 1..Len(Log(R)) : Log(R)[i].id # e.id
           /\ \A q \in Requests : held[q] # NoEvent =>
                /\ \A i \in 1..Len(Log(R)) : Log(R)[i].id # held[q].id
                /\ held[q].id = e.id => q = r
                /\ \A t \in Requests : held[t].id = held[q].id => t = q
    BY <1>1 DEF IInv, DuplicateHasCause, Log, R, e
  <1>11. DuplicateHasCause'
    <2> SUFFICES ASSUME NEW s \in StoreIds \ crossed
                 PROVE  /\ \A i, j \in 1..Len(Log(s)') : Log(s)'[i].id = Log(s)'[j].id => i = j
                        /\ R = s => \A q \in Requests : held'[q] # NoEvent =>
                              /\ \A i \in 1..Len(Log(s)') : Log(s)'[i].id # held'[q].id
                              /\ \A t \in Requests : held'[t].id = held'[q].id => t = q
      BY <1>2 DEF DuplicateHasCause, Log, R
    <2>1. CASE s # R BY <2>1, <1>4 DEF IInv, DuplicateHasCause, Log
    <2>2. CASE s = R
      <3>1. Log(s)' = new /\ R \notin crossed BY <2>2, <1>4
      <3>2. \A i, j \in 1..Len(new) : new[i].id = new[j].id => i = j
        <4> TAKE i, j \in 1..Len(new)
        <4> HAVE new[i].id = new[j].id
        <4>1. CASE i \in 1..Len(Log(R)) /\ j \in 1..Len(Log(R)) BY <4>1, <3>1, <1>6, <1>10
        <4>2. CASE i = Len(Log(R)) + 1 /\ j \in 1..Len(Log(R)) BY <4>2, <3>1, <1>6, <1>10
        <4>3. CASE i \in 1..Len(Log(R)) /\ j = Len(Log(R)) + 1 BY <4>3, <3>1, <1>6, <1>10
        <4> QED BY <4>1, <4>2, <4>3, <1>6
      <3>3. ASSUME NEW q \in Requests, held'[q] # NoEvent
            PROVE  /\ \A i \in 1..Len(new) : new[i].id # held'[q].id
                   /\ \A t \in Requests : held'[t].id = held'[q].id => t = q
        <4>1. q # r /\ held'[q] = held[q] /\ held[q] # NoEvent /\ held[q].id # e.id
          BY <3>1, <3>3, <1>5, <1>10
        <4>2. \A i \in 1..Len(new) : new[i].id # held[q].id
          BY <4>1, <3>1, <1>6, <1>10
        <4>3. held[q].id # 0 /\ NoEvent.id = 0
          BY <4>1, HeldTyped, UiAssumption DEF IInv, TInv, Ids, Numbers, NoEvent
        <4>4. \A t \in Requests : held'[t].id = held[q].id => t = q
          BY <4>1, <4>3, <3>1, <1>5, <1>10
        <4> QED BY <4>1, <4>2, <4>4
      <3> QED BY <3>1, <3>2, <3>3
    <2> QED BY <2>1, <2>2
  <1>12. \A x : InLog(x, TheLog) => InLog(x, TheLog')
    BY <1>1, <1>2, <1>4, <1>6 DEF TheLog, Log
  <1>13. Answers'
    BY <1>2, <1>12 DEF IInv, Answers, pageVars
  <1>14. ShownInLog'
    BY <1>2, <1>12 DEF IInv, ShownInLog, pageVars
  <1>15. Requested'
    <2> SUFFICES ASSUME NEW a \in asked, a.sure
                 PROVE  /\ \A i \in a.ids : \E k \in 1..Len(TheLog') : TheLog'[k].id = i
                        /\ current \notin crossed /\ a.ids # {} =>
                              Chosen(a.ids)' = a.wanted
      BY <1>2 DEF Requested, playVars
    <2>1. ASSUME NEW i \in a.ids
          PROVE  \E k \in 1..Len(TheLog') : TheLog'[k].id = i
      <3>1. PICK k \in 1..Len(TheLog) : TheLog[k].id = i BY DEF IInv, Requested
      <3>2. InLog(TheLog[k], TheLog) BY DEF InLog
      <3>3. PICK m \in 1..Len(TheLog') : TheLog'[m] = TheLog[k] BY <3>2, <1>12 DEF InLog
      <3> QED BY <3>1, <3>3
    <2>2. ASSUME current \notin crossed, a.ids # {}
          PROVE  Chosen(a.ids)' = a.wanted
      <3>1. Chosen(a.ids) = a.wanted /\ Chosen(a.ids) = ChosenFrom(TheLog, a.ids)
        BY <2>2 DEF IInv, Requested, Chosen, ChosenFrom, TheLog, Log
      <3>2. Chosen(a.ids)' = ChosenFrom(TheLog', a.ids)
        BY <2>2 DEF Chosen, ChosenFrom, TheLog, Log
      <3>3. CASE R # current
        BY <3>1, <3>2, <3>3, <1>1, <1>2, <1>4 DEF TheLog, Log
      <3>4. CASE R = current
        <4>1. TheLog = Log(R) /\ TheLog' = Append(Log(R), e)
          BY <3>4, <1>1, <1>2, <1>4 DEF TheLog, Log, new
        <4>2. e.id \notin a.ids
          BY <4>1, <3>4, <2>2, <1>10 DEF IInv, Requested
        <4> QED BY <4>1, <4>2, <3>1, <3>2, <1>1, <1>3, ChosenKept
      <3> QED BY <3>3, <3>4
    <2> QED BY <2>1, <2>2
  <1>16. ReplayAsSelected'
    BY <1>2 DEF IInv, ReplayAsSelected, playVars
  <1> QED BY <1>7, <1>8, <1>9, <1>11, <1>13, <1>14, <1>15, <1>16 DEF IInv, TInv

----------------------------------------------------------------------------
(* Clear and load.                                                          *)

\* After a clear or a load nothing under way is relied on.
LEMMA Overtaken ==
  ASSUME IInv, Overtake, awaiting' # {}, UNCHANGED <<shown, rows, selected, replaying, replayed, ghost>>
  PROVE  /\ Answers' /\ ShownInLog' /\ Requested' /\ ReplayAsSelected'
         /\ \A r \in replies' : /\ r.list \in Seq(Events) /\ r.old \in BOOLEAN
                                /\ r = [list |-> r.list, old |-> r.old]
         /\ \A a \in asked' : a.ids \subseteq Ids /\ a.wanted \subseteq 0..MaxEvents
  <1>1. \A r \in replies' : \E q \in replies : r = [list |-> q.list, old |-> TRUE]
    BY DEF Overtake, Outdated
  <1>2. \A a \in asked' : \E b \in asked : a = [ids |-> b.ids, wanted |-> {}, sure |-> FALSE]
    BY DEF Overtake, Unsure
  <1>3. Answers' BY <1>1 DEF Answers
  <1>4. ShownInLog' BY DEF ShownInLog
  <1>5. Requested' BY <1>2 DEF Requested
  <1>6. ReplayAsSelected' BY DEF IInv, ReplayAsSelected
  <1>7. \A r \in replies' : /\ r.list \in Seq(Events) /\ r.old \in BOOLEAN
                            /\ r = [list |-> r.list, old |-> r.old]
    <2> TAKE r \in replies'
    <2>1. PICK q \in replies : r = [list |-> q.list, old |-> TRUE] BY <1>1
    <2>2. q.list \in Seq(Events) BY DEF IInv, TInv, TypeOK
    <2>3. r.list = q.list /\ r.old = TRUE BY <2>1
    <2> QED BY <2>1, <2>2, <2>3
  <1>8. \A a \in asked' : a.ids \subseteq Ids /\ a.wanted \subseteq 0..MaxEvents
    <2> TAKE a \in asked'
    <2>1. PICK b \in asked : a = [ids |-> b.ids, wanted |-> {}, sure |-> FALSE] BY <1>2
    <2>2. b.ids \subseteq Ids BY DEF IInv, TInv, TypeOK
    <2>3. a.ids = b.ids /\ a.wanted = {} BY <2>1
    <2> QED BY <2>2, <2>3
  <1> QED BY <1>3, <1>4, <1>5, <1>6, <1>7, <1>8

LEMMA ClearedStore ==
  ASSUME NEW n, NEW log
  PROVE  Cleared([next |-> n, events |-> log]) = [next |-> 1, events |-> << >>]
  <1>1. [[next |-> n, events |-> log] EXCEPT !.events = << >>] = [next |-> n, events |-> << >>]
    OBVIOUS
  <1>2. [[next |-> n, events |-> << >>] EXCEPT !.next = 1] = [next |-> 1, events |-> << >>]
    OBVIOUS
  <1> QED BY <1>1, <1>2 DEF Cleared

LEMMA ClearInv ==
  ASSUME IInv, Clear
  PROVE  IInv'
  <1>1. /\ current \in StoreIds /\ recording \in Nat /\ made \in Nat
    BY StoresTyped DEF IInv, TInv
  <1>2. /\ stores \in [StoreIds -> [next : 1..(MaxEvents + 1), events : Seq(Events)]]
        /\ [next |-> 1, events |-> << >>] \in [next : 1..(MaxEvents + 1), events : Seq(Events)]
    BY UiAssumption DEF IInv, TInv, TypeOK
  <1>3. stores' = [stores EXCEPT ![current] = [next |-> 1, events |-> << >>]]
    <2>1. stores[current] = [next |-> stores[current].next, events |-> Log(current)]
      BY <1>1, LogTyped DEF IInv, TInv
    <2>2. stores' = [stores EXCEPT ![current] = Cleared(stores[current])]
      BY DEF Clear
    <2>3. Cleared(stores[current]) = [next |-> 1, events |-> << >>]
      BY <2>1, ClearedStore
    <2> QED BY <2>2, <2>3
  <1>4. /\ \A s \in StoreIds : Log(s)' = IF s = current THEN << >> ELSE Log(s)
        /\ \A s \in StoreIds : stores'[s].next = IF s = current THEN 1 ELSE stores[s].next
        /\ stores' \in [StoreIds -> [next : 1..(MaxEvents + 1), events : Seq(Events)]]
    BY <1>1, <1>2, <1>3 DEF Log
  <1>5. /\ current' = current /\ recording' = recording /\ held' = held /\ made' = made
        /\ awaiting' = awaiting \cup {"clear"} /\ Overtake
        /\ UNCHANGED <<shown, rows, selected, replaying, replayed, ghost>>
    BY DEF Clear
  <1>6. /\ crossed \ {current} \subseteq crossed' /\ crossed' \subseteq StoreIds
        /\ current \notin crossed' /\ recording = current => \A r \in Requests : held[r] = NoEvent
    BY <1>1 DEF Clear, IInv, TInv, TypeOK
  <1>7. /\ Answers' /\ ShownInLog' /\ Requested' /\ ReplayAsSelected'
        /\ \A r \in replies' : /\ r.list \in Seq(Events) /\ r.old \in BOOLEAN
                               /\ r = [list |-> r.list, old |-> r.old]
        /\ \A a \in asked' : a.ids \subseteq Ids /\ a.wanted \subseteq 0..MaxEvents
    BY <1>5, Overtaken
  <1>8. TypeOK'
    BY <1>4, <1>5, <1>6, <1>7 DEF IInv, TInv, TypeOK
  <1>9. Counted'
    BY <1>1, <1>4, <1>5, <1>7 DEF IInv, TInv, Counted
  <1>10. Below'
    BY <1>4, <1>5, <1>6 DEF IInv, Below
  <1>11. DuplicateHasCause'
    <2> SUFFICES ASSUME NEW s \in StoreIds \ crossed'
                 PROVE  /\ \A i, j \in 1..Len(Log(s)') : Log(s)'[i].id = Log(s)'[j].id => i = j
                        /\ recording = s => \A q \in Requests : held[q] # NoEvent =>
                              /\ \A i \in 1..Len(Log(s)') : Log(s)'[i].id # held[q].id
                              /\ \A t \in Requests : held[t].id = held[q].id => t = q
      BY <1>5 DEF DuplicateHasCause, Log
    <2>1. CASE s = current BY <2>1, <1>4, <1>6
    <2>2. CASE s # current BY <2>2, <1>4, <1>6 DEF IInv, DuplicateHasCause, Log
    <2> QED BY <2>1, <2>2
  <1> QED BY <1>7, <1>8, <1>9, <1>10, <1>11 DEF IInv, TInv

LEMMA LoadInv ==
  ASSUME IInv, Load
  PROVE  IInv'
  <1> DEFINE new == current + 1
  <1>1. /\ current \in StoreIds /\ recording \in Nat /\ made \in Nat /\ current \in Nat
        /\ recording <= current /\ InFile \in Nat /\ InFile <= made
        /\ new \in StoreIds /\ new # recording /\ recording \in 0..new
    <2>1. /\ current \in StoreIds /\ recording \in Nat /\ made \in Nat /\ current \in Nat
          /\ recording <= current /\ InFile \in Nat /\ MaxStores \in Nat
      BY StoresTyped DEF IInv, TInv
    <2>2. current < MaxStores /\ made \in InFile..MaxEvents BY DEF Load, IInv, TInv, TypeOK
    <2> QED BY <2>1, <2>2 DEF StoreIds
  <1>2. stores \in [StoreIds -> [next : 1..(MaxEvents + 1), events : Seq(Events)]]
    BY DEF IInv, TInv, TypeOK
  <1>3. /\ current' = new /\ recording' = recording /\ held' = held /\ made' = made
        /\ awaiting' = awaiting \cup {"load"} /\ Overtake
        /\ UNCHANGED <<shown, rows, selected, replaying, replayed, ghost>>
    BY DEF Load
  <1>4. PICK ids \in FileIds :
        /\ stores' = [stores EXCEPT ![new] = Loaded(ids)]
        /\ crossed' = IF IsInjective(ids) THEN crossed ELSE crossed \cup {new}
    BY DEF Load
  <1> DEFINE file == Loaded(ids)
  <1>5. crossed \subseteq crossed' /\ crossed' \subseteq StoreIds
    BY <1>1, <1>4 DEF IInv, TInv, TypeOK
  <1>6. /\ stores' = [stores EXCEPT ![new] = file]
        /\ Len(file.events) = InFile
        /\ \A i \in 1..InFile : file.events[i].id = ids[i] /\ ids[i] < file.next
        /\ file.next \in 1..(InFile + 1)
        /\ file \in [next : 1..(MaxEvents + 1), events : Seq(Events)]
        /\ new \notin crossed' => \A i, j \in 1..InFile : ids[i] = ids[j] => i = j
    BY <1>4, LoadedTyped
  <1> HIDE DEF file
  <1>7. /\ \A s \in StoreIds : Log(s)' = IF s = new THEN file.events ELSE Log(s)
        /\ \A s \in StoreIds : stores'[s].next = IF s = new THEN file.next ELSE stores[s].next
        /\ stores' \in [StoreIds -> [next : 1..(MaxEvents + 1), events : Seq(Events)]]
    BY <1>1, <1>2, <1>6 DEF Log
  <1>8. /\ Answers' /\ ShownInLog' /\ Requested' /\ ReplayAsSelected'
        /\ \A r \in replies' : /\ r.list \in Seq(Events) /\ r.old \in BOOLEAN
                               /\ r = [list |-> r.list, old |-> r.old]
        /\ \A a \in asked' : a.ids \subseteq Ids /\ a.wanted \subseteq 0..MaxEvents
    BY <1>3, Overtaken
  <1>9. TypeOK'
    BY <1>1, <1>3, <1>7, <1>8, <1>5 DEF IInv, TInv, TypeOK
  <1>10. Counted'
    <2>1. \A s \in StoreIds : stores'[s].next <= made' + 1
      BY <1>1, <1>3, <1>7, <1>6 DEF IInv, TInv, Counted
    <2> QED BY <2>1, <1>3, <1>8 DEF IInv, TInv, Counted
  <1>11. Below'
    <2> SUFFICES ASSUME NEW s \in StoreIds \ crossed'
                 PROVE  /\ \A i \in 1..Len(Log(s)') : Log(s)'[i].id < stores'[s].next
                        /\ recording = s => \A q \in Requests :
                              held[q] # NoEvent => held[q].id < stores'[s].next
      BY <1>3 DEF Below
    <2>1. CASE s = new
      BY <2>1, <1>1, <1>7, <1>6
    <2>2. CASE s # new
      BY <2>2, <1>7, <1>5 DEF IInv, Below
    <2> QED BY <2>1, <2>2
  <1>12. DuplicateHasCause'
    <2> SUFFICES ASSUME NEW s \in StoreIds \ crossed'
                 PROVE  /\ \A i, j \in 1..Len(Log(s)') : Log(s)'[i].id = Log(s)'[j].id => i = j
                        /\ recording = s => \A q \in Requests : held[q] # NoEvent =>
                              /\ \A i \in 1..Len(Log(s)') : Log(s)'[i].id # held[q].id
                              /\ \A t \in Requests : held[t].id = held[q].id => t = q
      BY <1>3 DEF DuplicateHasCause, Log
    <2>1. CASE s = new BY <2>1, <1>1, <1>7, <1>6
    <2>2. CASE s # new BY <2>2, <1>7, <1>5 DEF IInv, DuplicateHasCause, Log
    <2> QED BY <2>1, <2>2
  <1> QED BY <1>8, <1>9, <1>10, <1>11, <1>12 DEF IInv, TInv

LEMMA ClearPageInv ==
  ASSUME IInv, ClearPage
  PROVE  IInv'
  <1>1. TypeOK'
    <2>1. shown' \in [Ids -> 0..MaxEvents] BY UiAssumption DEF ClearPage
    <2> QED BY <2>1 DEF IInv, TInv, TypeOK, ClearPage, apiVars, playVars
  <1>2. Counted' BY DEF IInv, TInv, Counted, ClearPage, apiVars
  <1>3. Below' /\ DuplicateHasCause' BY StoresKept DEF ClearPage
  <1>4. Answers' BY DEF IInv, Answers, TheLog, Log, ClearPage, apiVars
  <1>5. ShownInLog' BY DEF ShownInLog, ClearPage
  <1>6. Requested' BY DEF IInv, Requested, Chosen, TheLog, Log, ClearPage, apiVars, playVars
  <1>7. ReplayAsSelected' BY DEF IInv, ReplayAsSelected, ClearPage, playVars
  <1> QED BY <1>1, <1>2, <1>3, <1>4, <1>5, <1>6, <1>7 DEF IInv, TInv

LEMMA LoadPageInv ==
  ASSUME IInv, LoadPage
  PROVE  IInv'
  <1>1. TypeOK'
    <2>1. shown' \in [Ids -> 0..MaxEvents] BY UiAssumption DEF LoadPage
    <2> QED BY <2>1 DEF IInv, TInv, TypeOK, LoadPage, apiVars, playVars
  <1>2. Counted' BY DEF IInv, TInv, Counted, LoadPage, apiVars
  <1>3. Below' /\ DuplicateHasCause' BY StoresKept DEF LoadPage
  <1>4. Answers' BY DEF IInv, Answers, TheLog, Log, LoadPage, apiVars
  <1>5. ShownInLog' BY DEF ShownInLog, LoadPage
  <1>6. Requested' BY DEF IInv, Requested, Chosen, TheLog, Log, LoadPage, apiVars, playVars
  <1>7. ReplayAsSelected' BY DEF IInv, ReplayAsSelected, LoadPage, playVars
  <1> QED BY <1>1, <1>2, <1>3, <1>4, <1>5, <1>6, <1>7 DEF IInv, TInv

----------------------------------------------------------------------------
(* Polls and clicks.                                                        *)

LEMMA PollInv ==
  ASSUME IInv, Poll
  PROVE  IInv'
  <1>1. PICK r : r = [list |-> TheLog, old |-> FALSE] OBVIOUS
  <1>2. replies' = replies \cup {r} BY <1>1 DEF Poll, TheLog, Log
  <1>3. TheLog \in Seq(Events) BY StoresTyped, LogTyped DEF IInv, TInv, TheLog
  <1>4. TypeOK'
    <2>1. r.list \in Seq(Events) /\ r.old \in BOOLEAN BY <1>1, <1>3
    <2>2. \A q \in replies' : q.list \in Seq(Events) /\ q.old \in BOOLEAN
      BY <2>1, <1>2 DEF IInv, TInv, TypeOK
    <2> QED BY <2>2 DEF IInv, TInv, TypeOK, Poll, apiVars, playVars
  <1>5. Counted' BY <1>1, <1>2 DEF IInv, TInv, Counted, Poll, apiVars
  <1>6. Below' /\ DuplicateHasCause' BY StoresKept DEF Poll
  <1>7. TheLog' = TheLog BY DEF TheLog, Log, Poll, apiVars
  <1>8. Answers'
    <2>1. \A k \in 1..Len(r.list) : InLog(r.list[k], TheLog) BY <1>1 DEF InLog
    <2> QED BY <2>1, <1>2, <1>7 DEF IInv, Answers
  <1>9. ShownInLog' BY <1>7 DEF IInv, ShownInLog, Poll
  <1>10. Requested' BY <1>7 DEF IInv, Requested, Chosen, TheLog, Log, Poll, apiVars, playVars
  <1>11. ReplayAsSelected' BY DEF IInv, ReplayAsSelected, Poll, playVars
  <1> QED BY <1>4, <1>5, <1>6, <1>8, <1>9, <1>10, <1>11 DEF IInv, TInv

LEMMA ReceiveInv ==
  ASSUME IInv, Receive
  PROVE  IInv'
  <1>1. PICK r \in replies :
          /\ replies' = replies \ {r} /\ shown' = Merged(shown, r.list) /\ rows' = Rows(shown')
          /\ ghost' = (ghost \/ r.old)
          /\ UNCHANGED <<apiVars, selected, awaiting, playVars, crossed>>
    BY DEF Receive
  <1>2. r.list \in Seq(Events) /\ r.old \in BOOLEAN /\ shown \in [Ids -> 0..MaxEvents]
    BY DEF IInv, TInv, TypeOK
  <1>3. TypeOK'
    <2>1. shown' \in [Ids -> 0..MaxEvents] BY <1>1, <1>2, MergedTyped
    <2>2. rows' \subseteq Ids BY <1>1 DEF Rows
    <2>3. ghost' \in BOOLEAN BY <1>1, <1>2 DEF IInv, TInv, TypeOK
    <2> QED BY <2>1, <2>2, <2>3, <1>1 DEF IInv, TInv, TypeOK, apiVars, playVars
  <1>4. Counted' BY <1>1 DEF IInv, TInv, Counted, apiVars
  <1>5. Below' /\ DuplicateHasCause' BY <1>1, StoresKept
  <1>6. TheLog' = TheLog BY <1>1 DEF TheLog, Log, apiVars
  <1>7. Answers' BY <1>1, <1>6 DEF IInv, Answers
  <1>8. ShownInLog'
    <2> SUFFICES ASSUME awaiting = {}, ~ghost, ~r.old, NEW i \in Ids, shown'[i] # 0
                 PROVE  InLog([n |-> shown'[i], id |-> i], TheLog)
      BY <1>1, <1>2, <1>6 DEF ShownInLog
    <2>1. CASE shown'[i] = shown[i] BY <2>1 DEF IInv, ShownInLog
    <2>2. CASE shown'[i] # shown[i]
      <3>1. PICK k \in 1..Len(r.list) : r.list[k].id = i /\ shown'[i] = r.list[k].n
        BY <2>2, <1>1, <1>2, MergedFrom
      <3>2. r.list[k] = [n |-> shown'[i], id |-> i] BY <3>1, <1>2, EventTyped
      <3>3. InLog(r.list[k], TheLog) BY DEF IInv, Answers
      <3> QED BY <3>2, <3>3
    <2> QED BY <2>1, <2>2
  <1>9. Requested' BY <1>1 DEF IInv, Requested, Chosen, TheLog, Log, apiVars, playVars
  <1>10. ReplayAsSelected' BY <1>1 DEF IInv, ReplayAsSelected, playVars
  <1> QED BY <1>3, <1>4, <1>5, <1>7, <1>8, <1>9, <1>10 DEF IInv, TInv

LEMMA SelectInv ==
  ASSUME IInv, Select
  PROVE  IInv'
  <1>1. TypeOK'
    <2>1. selected' \subseteq Ids BY DEF Select, IInv, TInv, TypeOK
    <2>2. rows' \subseteq Ids BY DEF Select, Rows
    <2> QED BY <2>1, <2>2 DEF IInv, TInv, TypeOK, Select, apiVars, playVars
  <1>2. Counted' BY DEF IInv, TInv, Counted, Select, apiVars
  <1>3. Below' /\ DuplicateHasCause' BY StoresKept DEF Select
  <1>4. Answers' BY DEF IInv, Answers, TheLog, Log, Select, apiVars
  <1>5. ShownInLog' BY DEF IInv, ShownInLog, TheLog, Log, Select, apiVars
  <1>6. Requested' BY DEF IInv, Requested, Chosen, TheLog, Log, Select, apiVars, playVars
  <1>7. ReplayAsSelected' BY DEF IInv, ReplayAsSelected, Select, playVars
  <1> QED BY <1>1, <1>2, <1>3, <1>4, <1>5, <1>6, <1>7 DEF IInv, TInv

----------------------------------------------------------------------------
(* Replay.                                                                  *)

\* A row of a page that is up to date is in the log.
LEMMA ShownIsThere ==
  ASSUME IInv, awaiting = {}, ~ghost, NEW i \in Ids, shown[i] # 0
  PROVE  \E k \in 1..Len(TheLog) : TheLog[k].id = i /\ TheLog[k].n = shown[i]
  <1>1. PICK k \in 1..Len(TheLog) : TheLog[k] = [n |-> shown[i], id |-> i]
    BY DEF IInv, ShownInLog, InLog
  <1> QED BY <1>1

\* In a log whose ids are unique, the ids of shown rows choose what is shown.
LEMMA ShownIsChosen ==
  ASSUME IInv, awaiting = {}, ~ghost, current \notin crossed,
         NEW ids, ids \subseteq Ids, ids # {}, \A i \in ids : shown[i] # 0
  PROVE  Chosen(ids) = {shown[i] : i \in ids}
  <1> DEFINE n == Len(TheLog)
  <1>1. current \in StoreIds BY StoresTyped DEF IInv, TInv
  <1>2. \A i, j \in 1..n : TheLog[i].id = TheLog[j].id => i = j
    BY <1>1 DEF IInv, DuplicateHasCause, TheLog, Log
  <1>3. \A i \in ids : \E k \in 1..n : TheLog[k].id = i /\ TheLog[k].n = shown[i]
    <2> TAKE i \in ids
    <2>1. i \in Ids /\ shown[i] # 0 OBVIOUS
    <2> QED BY <2>1, ShownIsThere
  <1>4. Chosen(ids) = {TheLog[k].n : k \in {j \in 1..n : TheLog[j].id \in ids}}
    BY DEF Chosen, TheLog, Log
  <1> HIDE DEF n
  <1>5. \A k \in 1..n : TheLog[k].id \in ids => TheLog[k].n = shown[TheLog[k].id]
    BY <1>2, <1>3
  <1> QED BY <1>3, <1>4, <1>5

LEMMA AskReplayInv ==
  ASSUME IInv, AskReplay
  PROVE  IInv'
  <1>1. PICK ids \in {selected, {}} :
          asked' = {IF ~ghost /\ awaiting = {} /\ \A i \in ids : shown[i] # 0
                    THEN [ids |-> ids, wanted |-> {shown[i] : i \in ids}, sure |-> TRUE]
                    ELSE Unsure(ids)}
    BY DEF AskReplay
  <1>2. /\ UNCHANGED <<apiVars, pageVars, replaying, replayed, ghost, crossed>>
    BY DEF AskReplay
  <1>3. ids \subseteq Ids /\ shown \in [Ids -> 0..MaxEvents]
    BY DEF IInv, TInv, TypeOK
  <1>4. TypeOK'
    <2>1. \A a \in asked' : a.ids \subseteq Ids /\ a.wanted \subseteq 0..MaxEvents
      BY <1>1, <1>3 DEF Unsure
    <2> QED BY <2>1, <1>2 DEF IInv, TInv, TypeOK, apiVars, pageVars
  <1>5. Counted' BY <1>2 DEF IInv, TInv, Counted, apiVars, pageVars
  <1>6. Below' /\ DuplicateHasCause' BY <1>2, StoresKept
  <1>7. TheLog' = TheLog /\ current' = current BY <1>2 DEF TheLog, Log, apiVars
  <1>8. Answers' BY <1>2, <1>7 DEF IInv, Answers, pageVars
  <1>9. ShownInLog' BY <1>2, <1>7 DEF IInv, ShownInLog, pageVars
  <1>10. Requested'
    <2> SUFFICES ASSUME NEW a \in asked', a.sure
                 PROVE  /\ \A i \in a.ids : \E k \in 1..Len(TheLog) : TheLog[k].id = i
                        /\ current \notin crossed /\ a.ids # {} => Chosen(a.ids) = a.wanted
      BY <1>2, <1>7 DEF Requested, Chosen, TheLog, Log, apiVars
    <2>1. /\ ~ghost /\ awaiting = {} /\ \A i \in ids : shown[i] # 0
          /\ a.ids = ids /\ a.wanted = {shown[i] : i \in ids}
      BY <1>1 DEF Unsure
    <2>2. \A i \in ids : \E k \in 1..Len(TheLog) : TheLog[k].id = i
      <3> TAKE i \in ids
      <3>1. i \in Ids /\ shown[i] # 0 BY <2>1, <1>3
      <3> QED BY <3>1, <2>1, ShownIsThere
    <2>3. current \notin crossed /\ ids # {} => Chosen(ids) = {shown[i] : i \in ids}
      BY <2>1, <1>3, ShownIsChosen
    <2> QED BY <2>1, <2>2, <2>3
  <1>11. ReplayAsSelected' BY <1>2 DEF IInv, ReplayAsSelected
  <1> QED BY <1>4, <1>5, <1>6, <1>8, <1>9, <1>10, <1>11 DEF IInv, TInv

\* What is chosen are numbers of events.
LEMMA ChosenTyped ==
  ASSUME TypeOK, NEW ids
  PROVE  Chosen(ids) \subseteq Numbers
  <1>1. TheLog \in Seq(Events) BY StoresTyped, LogTyped DEF TheLog
  <1>2. \A k \in 1..Len(TheLog) : TheLog[k].n \in Numbers BY <1>1, EventTyped
  <1>3. Chosen(ids) = {TheLog[i].n : i \in {j \in 1..Len(TheLog) : ids = {} \/ TheLog[j].id \in ids}}
    BY DEF Chosen, TheLog, Log
  <1> QED BY <1>2, <1>3

LEMMA ReplayInv ==
  ASSUME IInv, Replay
  PROVE  IInv'
  <1>1. PICK a \in asked :
          /\ asked' = {}
          /\ IF replaying THEN UNCHANGED <<replaying, replayed>>
             ELSE /\ replaying' = TRUE
                  /\ replayed' = IF a.sure /\ current \notin crossed
                                 THEN [got |-> Chosen(a.ids), by |-> a]
                                 ELSE [got |-> {}, by |-> Unsure({})]
          /\ UNCHANGED <<apiVars, pageVars, ghost, crossed>>
    BY DEF Replay
  <1>2. TypeOK'
    <2>1. replaying' \in BOOLEAN BY <1>1 DEF IInv, TInv, TypeOK
    <2>2. Chosen(a.ids) \subseteq Numbers BY ChosenTyped DEF IInv, TInv
    <2>3. replayed'.got \subseteq Numbers BY <1>1, <2>2 DEF IInv, TInv, TypeOK
    <2> QED BY <2>1, <2>3, <1>1 DEF IInv, TInv, TypeOK, apiVars, pageVars
  <1>3. Counted' BY <1>1 DEF IInv, TInv, Counted, apiVars, pageVars
  <1>4. Below' /\ DuplicateHasCause' BY <1>1, StoresKept
  <1>5. TheLog' = TheLog BY <1>1 DEF TheLog, Log, apiVars
  <1>6. Answers' BY <1>1, <1>5 DEF IInv, Answers, pageVars
  <1>7. ShownInLog' BY <1>1, <1>5 DEF IInv, ShownInLog, pageVars
  <1>8. Requested' BY <1>1 DEF Requested
  <1>9. ReplayAsSelected'
    <2>1. CASE replaying BY <2>1, <1>1 DEF IInv, ReplayAsSelected
    <2>2. CASE ~replaying /\ a.sure /\ current \notin crossed
      <3>1. a.ids # {} => Chosen(a.ids) = a.wanted BY <2>2 DEF IInv, Requested
      <3>2. replayed' = [got |-> Chosen(a.ids), by |-> a] BY <2>2, <1>1
      <3> QED BY <3>1, <3>2 DEF ReplayAsSelected
    <2>3. CASE ~replaying /\ ~(a.sure /\ current \notin crossed)
      BY <2>3, <1>1 DEF ReplayAsSelected, Unsure
    <2> QED BY <2>1, <2>2, <2>3
  <1> QED BY <1>2, <1>3, <1>4, <1>6, <1>7, <1>8, <1>9 DEF IInv, TInv

LEMMA ReplayEndsInv ==
  ASSUME IInv, ReplayEnds
  PROVE  IInv'
  <1>1. TypeOK' BY DEF IInv, TInv, TypeOK, ReplayEnds, apiVars, pageVars
  <1>2. Counted' BY DEF IInv, TInv, Counted, ReplayEnds, apiVars, pageVars
  <1>3. Below' /\ DuplicateHasCause' BY StoresKept DEF ReplayEnds
  <1>4. Answers' BY DEF IInv, Answers, TheLog, Log, ReplayEnds, apiVars, pageVars
  <1>5. ShownInLog' BY DEF IInv, ShownInLog, TheLog, Log, ReplayEnds, apiVars, pageVars
  <1>6. Requested' BY DEF IInv, Requested, Chosen, TheLog, Log, ReplayEnds, apiVars
  <1>7. ReplayAsSelected' BY DEF ReplayAsSelected, ReplayEnds, Unsure
  <1> QED BY <1>1, <1>2, <1>3, <1>4, <1>5, <1>6, <1>7 DEF IInv, TInv

----------------------------------------------------------------------------
(* The theorems.                                                            *)

LEMMA StutterInv ==
  ASSUME IInv, UNCHANGED vars
  PROVE  IInv'
  <1>1. /\ UNCHANGED apiVars /\ UNCHANGED pageVars /\ UNCHANGED playVars
        /\ ghost' = ghost /\ crossed' = crossed
    BY DEF vars
  <1>2. TInv' BY <1>1 DEF IInv, TInv, TypeOK, Counted, apiVars, pageVars, playVars
  <1>3. Below' /\ DuplicateHasCause' BY <1>1, StoresKept
  <1>4. TheLog' = TheLog /\ current' = current BY <1>1 DEF TheLog, Log, apiVars
  <1>5. Answers' /\ ShownInLog' /\ Requested' /\ ReplayAsSelected' BY <1>1, <1>4, PageKept
  <1> QED BY <1>2, <1>3, <1>5 DEF IInv

LEMMA NextInv == IInv /\ [Next]_vars => IInv'
  <1> SUFFICES ASSUME IInv, [Next]_vars PROVE IInv' OBVIOUS
  <1>1. CASE Start BY <1>1, StartInv
  <1>2. CASE Stop BY <1>2, StopInv
  <1>3. ASSUME NEW r \in Requests, Reserve(r) PROVE IInv' BY <1>3, ReserveInv
  <1>4. ASSUME NEW r \in Requests, Add(r) PROVE IInv' BY <1>4, AddInv
  <1>5. CASE Clear BY <1>5, ClearInv
  <1>6. CASE ClearPage BY <1>6, ClearPageInv
  <1>7. CASE Load BY <1>7, LoadInv
  <1>8. CASE LoadPage BY <1>8, LoadPageInv
  <1>9. CASE Poll BY <1>9, PollInv
  <1>10. CASE Receive BY <1>10, ReceiveInv
  <1>11. CASE Select BY <1>11, SelectInv
  <1>12. CASE AskReplay BY <1>12, AskReplayInv
  <1>13. CASE Replay BY <1>13, ReplayInv
  <1>14. CASE ReplayEnds BY <1>14, ReplayEndsInv
  <1>15. CASE UNCHANGED vars BY <1>15, StutterInv
  <1> QED BY <1>1, <1>2, <1>3, <1>4, <1>5, <1>6, <1>7, <1>8, <1>9, <1>10, <1>11, <1>12,
             <1>13, <1>14, <1>15 DEF Next, Record, Page

LEMMA Invariance == Spec => []IInv
  BY InitInv, NextInv, PTL DEF Spec

\* The state keeps its types: a counter never passes the events received.
THEOREM TypeCorrect == Spec => []TypeOK
  <1>1. IInv => TypeOK BY DEF IInv, TInv
  <1> QED BY <1>1, Invariance, PTL

\* Two events of a log, or one of it and one still being received, have one id
\* only if the log's last clear came while a request held an id or the log comes
\* from a file that has an id twice: nothing else that happens to the counter
\* (add, start, stop, the load of any other file) makes two ids equal.
THEOREM DuplicatesHaveCause == Spec => []DuplicateHasCause
  <1>1. IInv => DuplicateHasCause BY DEF IInv
  <1> QED BY <1>1, Invariance, PTL

\* When no clear or load is under way, the page shows only what the log has,
\* unless an answer from before the last of them arrived after it.
THEOREM GhostsHaveCause == Spec => []GhostHasCause
  <1>1. IInv => GhostHasCause
    <2> SUFFICES ASSUME IInv, awaiting = {}, ~ghost, NEW i \in Ids, shown[i] # 0
                 PROVE  \E e \in ToSet(TheLog) : e = [n |-> shown[i], id |-> i]
      BY DEF GhostHasCause, TheLog, Log
    <2>1. PICK k \in 1..Len(TheLog) : TheLog[k] = [n |-> shown[i], id |-> i]
      BY DEF IInv, ShownInLog, InLog
    <2>2. TheLog \in Seq(Events) BY StoresTyped, LogTyped DEF IInv, TInv, TheLog
    <2>3. TheLog[k] \in ToSet(TheLog) BY <2>2 DEF ToSet
    <2> QED BY <2>1, <2>3
  <1> QED BY <1>1, Invariance, PTL

\* A replay the page could be sure of replays the events of the selected rows,
\* whatever was received between the click and the call.
THEOREM ReplayedAsSelected == Spec => []ReplayAsSelected
  <1>1. IInv => ReplayAsSelected BY DEF IInv
  <1> QED BY <1>1, Invariance, PTL

============================================================================
