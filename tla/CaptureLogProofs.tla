-------------------------- MODULE CaptureLogProofs --------------------------
(***************************************************************************)
(* Proofs about CaptureLog for any number of producers and events.         *)
(*                                                                         *)
(* IInv says, besides the types, what the loop owes to the list: Missed    *)
(* (a position that is neither printed nor about to be is overtaken if the *)
(* cursor or the batch has gone past it), Again (a printed position can    *)
(* come up again only if a smaller id followed it) and Orderly (while ids  *)
(* are in order, printed and batch are two adjacent pieces of the log).    *)
(***************************************************************************)
EXTENDS CaptureLog, TLAPS

Positions == 1..Len(events)

BelowCounter ==
    /\ \A i \in Positions : events[i] < nextId
    /\ \A p \in Producers : reserved[p] < nextId

CursorIsPrinted == last = 0 \/ \E k \in Positions : events[k] = last

Missed ==
    \A i \in Positions :
        /\ ~IsPrinted(i) /\ i \notin batch
        /\ events[i] <= last \/ \E k \in batch : i < k
        => Overtaken(i)

Again ==
    \A i \in Positions : IsPrinted(i) =>
        /\ events[i] > last => Overtaking(i)
        /\ \A k \in batch : events[i] < events[k] \/ i < k \/ Overtaking(i)

Orderly ==
    InOrder =>
        /\ \A n \in 1..Len(printed) : printed[n] = n
        /\ last = IF printed = << >> THEN 0 ELSE events[Len(printed)]
        /\ \A k \in batch :
              /\ k > Len(printed)
              /\ \A j \in Positions : Len(printed) < j /\ j <= k => j \in batch

IInv == /\ TypeOK /\ BelowCounter /\ IdsUnique /\ CursorIsPrinted
        /\ Missed /\ Again /\ RepeatedWasOvertaking /\ Orderly

----------------------------------------------------------------------------
(* Steps that leave the list alone.                                         *)

\* A nonempty sequence has a last element.
LEMMA EmptySeqLen ==
  ASSUME NEW S, NEW s \in Seq(S), s # << >>
  PROVE  Len(s) \in 1..Len(s)
  OBVIOUS

\* What a typed sequence holds is in its set.
LEMMA ElementsTyped ==
  ASSUME NEW S, NEW s \in Seq(S), NEW i \in 1..Len(s)
  PROVE  s[i] \in S
  OBVIOUS

\* Positions and the ids at them are positive numbers.
LEMMA PositionsTyped ==
  ASSUME TypeOK, NEW i \in Positions
  PROVE  /\ i \in Nat /\ 0 < i
         /\ events[i] \in 1..MaxEvents /\ events[i] \in Nat /\ 0 < events[i]
  <1>1. events \in Seq(1..MaxEvents) BY DEF TypeOK
  <1>2. i \in 1..Len(events) BY DEF Positions
  <1>3. events[i] \in 1..MaxEvents BY <1>1, <1>2, ElementsTyped
  <1>4. Len(events) \in Nat BY <1>1
  <1> QED BY <1>2, <1>3, <1>4, LogAssumption

LEMMA InitInv == Init => IInv
  BY LogAssumption DEF Init, IInv, TypeOK, BelowCounter, IdsUnique, CursorIsPrinted,
     Missed, Again, RepeatedWasOvertaking, Orderly, Positions, IsPrinted, InOrder

\* A step that changes only the store's counter and reservations.
LEMMA ReservationKeeps ==
  ASSUME IInv, events' = events, cliVars' = cliVars
  PROVE  CursorIsPrinted' /\ Missed' /\ Again' /\ RepeatedWasOvertaking' /\ Orderly'
  BY DEF IInv, cliVars, CursorIsPrinted, Missed, Again, RepeatedWasOvertaking, Orderly,
     Positions, IsPrinted, Overtaken, Overtaking, InOrder

LEMMA NewIdInv ==
  ASSUME IInv, NEW p \in Producers, NewId(p)
  PROVE  IInv'
  <1>1. TypeOK' BY LogAssumption DEF IInv, TypeOK, NewId, cliVars
  <1>2. BelowCounter'
    <2>1. /\ events' = events /\ nextId' = nextId + 1 /\ nextId \in Nat
          /\ reserved' = [reserved EXCEPT ![p] = nextId]
      BY DEF NewId, IInv, TypeOK
    <2>2. \A i \in Positions : events[i] \in Nat /\ events[i] < nextId
      BY PositionsTyped DEF IInv, BelowCounter
    <2>3. \A q \in Producers : reserved[q] \in Nat /\ reserved[q] < nextId
      BY LogAssumption DEF IInv, TypeOK, BelowCounter
    <2>4. \A q \in Producers : reserved'[q] = IF q = p THEN nextId ELSE reserved[q]
      BY <2>1 DEF IInv, TypeOK
    <2> QED BY <2>1, <2>2, <2>3, <2>4 DEF BelowCounter, Positions
  <1>3. IdsUnique'
    <2>1. /\ events' = events /\ nextId \in Nat
          /\ reserved' = [reserved EXCEPT ![p] = nextId]
      BY DEF NewId, IInv, TypeOK
    <2>2. \A i \in Positions : events[i] # nextId
      BY DEF IInv, TypeOK, BelowCounter, Positions
    <2>3. \A q \in Producers : reserved[q] # nextId
      BY DEF IInv, TypeOK, BelowCounter
    <2>4. \A q \in Producers : reserved'[q] = IF q = p THEN nextId ELSE reserved[q]
      BY <2>1 DEF IInv, TypeOK
    <2> QED BY <2>1, <2>2, <2>3, <2>4 DEF IInv, IdsUnique, Positions
  <1> QED BY <1>1, <1>2, <1>3, ReservationKeeps DEF IInv, NewId

LEMMA AbandonInv ==
  ASSUME IInv, NEW p \in Producers, Abandon(p)
  PROVE  IInv'
  <1>1. TypeOK' BY LogAssumption DEF IInv, TypeOK, Abandon, cliVars
  <1>2. BelowCounter'
    BY DEF IInv, TypeOK, BelowCounter, Positions, Abandon, cliVars
  <1>3. IdsUnique'
    BY DEF IInv, TypeOK, IdsUnique, Abandon, cliVars
  <1> QED BY <1>1, <1>2, <1>3, ReservationKeeps DEF IInv, Abandon

----------------------------------------------------------------------------
(* A new position at the end of the list.                                   *)

LEMMA AddInv ==
  ASSUME IInv, NEW p \in Producers, Add(p)
  PROVE  IInv'
  <1> DEFINE n == Len(events) + 1
             id == reserved[p]
  <1>0. /\ events' = Append(events, id) /\ id \in 1..MaxEvents
        /\ last' = last /\ batch' = batch /\ printed' = printed /\ nextId' = nextId
        /\ reserved' = [reserved EXCEPT ![p] = 0]
    BY LogAssumption DEF Add, cliVars, IInv, TypeOK
  <1>1. /\ events \in Seq(1..MaxEvents) /\ Len(events) \in Nat
        /\ events' \in Seq(1..MaxEvents) /\ Len(events') = n /\ events'[n] = id
        /\ \A i \in Positions : events'[i] = events[i]
        /\ Positions' = Positions \cup {n} /\ n \notin Positions
    BY <1>0 DEF IInv, TypeOK, Positions
  <1>2. /\ batch \subseteq Positions
        /\ printed \in Seq(Positions) /\ \A m \in 1..Len(printed) : printed[m] \in Positions
        /\ last \in 0..MaxEvents
    BY DEF IInv, TypeOK, Positions
  <1>3. \A i \in Positions : events[i] \in 1..MaxEvents /\ events[i] # id /\ i < n
    <2>1. \A i \in Positions : events[i] # id
      BY <1>0 DEF IInv, IdsUnique, Positions
    <2>2. \A i \in Positions : events[i] \in 1..MaxEvents
      BY <1>1, ElementsTyped DEF Positions
    <2>3. \A i \in Positions : i < n
      BY <1>1 DEF Positions
    <2> QED BY <2>1, <2>2, <2>3
  <1>4. \A i \in Positions : (Overtaken(i) => Overtaken(i)') /\ (Overtaking(i) => Overtaking(i)')
    BY <1>1 DEF Overtaken, Overtaking, Positions
  <1>5. \A i : IsPrinted(i)' <=> IsPrinted(i)
    BY <1>0 DEF IsPrinted
  <1>6. ~IsPrinted(n) /\ n \notin batch
    BY <1>1, <1>2 DEF IsPrinted
  <1>7. TypeOK'
    <2>1. printed' \in Seq(1..Len(events'))
      BY <1>0, <1>1, <1>2 DEF Positions
    <2>2. batch' \subseteq 1..Len(events')
      BY <1>0, <1>1, <1>2 DEF Positions
    <2> QED BY <2>1, <2>2, <1>0, <1>1, LogAssumption DEF TypeOK, IInv
  <1>8. BelowCounter'
    <2>1. nextId \in Nat /\ 0 < nextId /\ id < nextId
      BY DEF IInv, TypeOK, BelowCounter
    <2>2. \A i \in Positions' : events'[i] < nextId
      BY <2>1, <1>1 DEF IInv, BelowCounter
    <2>3. \A q \in Producers : reserved'[q] \in {0, reserved[q]}
      BY <1>0 DEF IInv, TypeOK
    <2>4. \A q \in Producers : reserved'[q] < nextId
      BY <2>1, <2>3 DEF IInv, BelowCounter
    <2> QED BY <2>2, <2>4, <1>0 DEF BelowCounter
  <1>9. IdsUnique'
    <2>1. \A i, j \in Positions' : events'[i] = events'[j] => i = j
      BY <1>1, <1>3 DEF IInv, IdsUnique, Positions
    <2>2. \A q \in Producers : reserved'[q] # 0 =>
            /\ \A i \in Positions' : events'[i] # reserved'[q]
            /\ \A r \in Producers : reserved'[r] = reserved'[q] => r = q
      BY <1>0, <1>1 DEF IInv, TypeOK, IdsUnique, Positions, Add
    <2> QED BY <2>1, <2>2 DEF IdsUnique, Positions
  <1>10. CursorIsPrinted'
    BY <1>0, <1>1 DEF IInv, CursorIsPrinted
  <1>11. Missed'
    <2> SUFFICES ASSUME NEW i \in Positions', ~IsPrinted(i)', i \notin batch',
                        events'[i] <= last' \/ \E k \in batch' : i < k
                 PROVE  Overtaken(i)'
      BY DEF Missed
    <2>1. CASE i \in Positions
      BY <2>1, <1>0, <1>1, <1>4, <1>5 DEF IInv, Missed
    <2>2. CASE i = n
      <3>1. id <= last
        BY <2>2, <1>0, <1>1, <1>2 DEF Positions
      <3>2. PICK k \in Positions : events[k] = last
        BY <3>1, <1>0 DEF IInv, CursorIsPrinted
      <3>3. events'[k] > events'[n] /\ k < n
        <4>1. events[k] > id /\ k < n
          BY <3>1, <3>2, <1>0, <1>2, <1>3
        <4> QED BY <4>1, <3>2, <1>1
      <3> QED BY <3>3, <2>2, <1>1 DEF Overtaken, Positions
    <2> QED BY <2>1, <2>2, <1>1
  <1>12. Again'
    <2> SUFFICES ASSUME NEW i \in Positions', IsPrinted(i)'
                 PROVE  /\ events'[i] > last' => Overtaking(i)'
                        /\ \A k \in batch' : events'[i] < events'[k] \/ i < k \/ Overtaking(i)'
      BY DEF Again
    <2>1. i \in Positions /\ IsPrinted(i)
      BY <1>1, <1>5, <1>6
    <2> QED BY <2>1, <1>0, <1>1, <1>2, <1>4 DEF IInv, Again
  <1>13. RepeatedWasOvertaking'
    <2> SUFFICES ASSUME NEW a \in 1..Len(printed), NEW b \in 1..Len(printed),
                        printed[a] = printed[b], a # b
                 PROVE  Overtaking(printed[b])'
      BY <1>0, Zenon DEF RepeatedWasOvertaking, Overtaking
    <2>1. Overtaking(printed[b]) BY DEF IInv, RepeatedWasOvertaking
    <2> QED BY <2>1, <1>0, <1>2, <1>4
  <1>14. Orderly'
    <2> SUFFICES ASSUME InOrder' PROVE Orderly' BY DEF Orderly
    <2>1. InOrder BY <1>1 DEF InOrder, Positions
    <2>2. \A k \in batch' :
            /\ k > Len(printed')
            /\ \A j \in Positions' : Len(printed') < j /\ j <= k => j \in batch'
      <3> SUFFICES ASSUME NEW k \in batch
                   PROVE  /\ k > Len(printed)
                          /\ \A j \in Positions' : Len(printed) < j /\ j <= k => j \in batch
        BY <1>0
      <3>1. k < n BY <1>2, <1>3
      <3> QED BY <3>1, <2>1, <1>1, <1>2 DEF IInv, Orderly, Positions
    <2>3. last' = IF printed' = << >> THEN 0 ELSE events'[Len(printed')]
      <3>1. CASE printed = << >> BY <3>1, <2>1, <1>0 DEF IInv, Orderly
      <3>2. CASE printed # << >>
        <4>1. Len(printed) \in 1..Len(printed)
          BY <3>2, <1>2, EmptySeqLen
        <4>2. Len(printed) \in Positions
          BY <4>1, <2>1, <1>2 DEF IInv, Orderly
        <4> QED BY <4>2, <3>2, <2>1, <1>0, <1>1 DEF IInv, Orderly
      <3> QED BY <3>1, <3>2
    <2> QED BY <2>1, <2>2, <2>3, <1>0 DEF IInv, Orderly
  <1> QED BY <1>7, <1>8, <1>9, <1>10, <1>11, <1>12, <1>13, <1>14 DEF IInv

----------------------------------------------------------------------------
(* The printing loop.                                                       *)

LEMMA PollInv ==
  ASSUME IInv, Poll
  PROVE  IInv'
  <1>0. /\ nextId' = nextId /\ events' = events /\ reserved' = reserved
        /\ last' = last /\ printed' = printed /\ batch = {}
        /\ batch' = {i \in Positions : events[i] > last}
    BY DEF Poll, storeVars, Since, Positions
  <1>1. \A i \in Positions : events[i] \in Nat /\ i \in Nat /\ 0 < i /\ 0 < events[i]
    BY PositionsTyped DEF IInv
  <1>2. last \in Nat BY LogAssumption DEF IInv, TypeOK
  <1>3. TypeOK' BY <1>0 DEF IInv, TypeOK, Positions
  <1>4. BelowCounter' /\ IdsUnique' /\ CursorIsPrinted' /\ RepeatedWasOvertaking'
    BY <1>0 DEF IInv, BelowCounter, IdsUnique, CursorIsPrinted,
       RepeatedWasOvertaking, Positions, Overtaking
  <1>5. \A i : /\ IsPrinted(i)' <=> IsPrinted(i)
               /\ Overtaken(i)' <=> Overtaken(i)
               /\ Overtaking(i)' <=> Overtaking(i)
    BY <1>0 DEF IsPrinted, Overtaken, Overtaking
  <1>6. Missed'
    <2> SUFFICES ASSUME NEW i \in Positions, ~IsPrinted(i), i \notin batch'
                 PROVE  Overtaken(i)
      BY <1>0, <1>5 DEF Missed, Positions
    <2>1. events[i] <= last BY <1>0, <1>1, <1>2
    <2> QED BY <2>1, <1>0 DEF IInv, Missed
  <1>7. Again'
    <2> SUFFICES ASSUME NEW i \in Positions, IsPrinted(i)
                 PROVE  /\ events[i] > last => Overtaking(i)
                        /\ \A k \in batch' :
                              events[i] < events[k] \/ i < k \/ Overtaking(i)
      BY <1>0, <1>5 DEF Again, Positions
    <2>1. events[i] > last => Overtaking(i) BY DEF IInv, Again
    <2>2. \A k \in batch' : events[k] > last /\ k \in Positions BY <1>0
    <2> QED BY <2>1, <2>2, <1>1, <1>2
  <1>8. Orderly'
    <2> SUFFICES ASSUME InOrder
                 PROVE  \A k \in batch' :
                          /\ k > Len(printed)
                          /\ \A j \in Positions :
                                Len(printed) < j /\ j <= k => j \in batch'
      BY <1>0 DEF IInv, Orderly, InOrder, Positions
    <2>1. CASE printed = << >>
      <3>1. Len(printed) = 0 /\ last = 0 BY <2>1 DEF IInv, Orderly
      <3>2. \A i \in Positions : events[i] > last BY <3>1, <1>1
      <3> QED BY <3>1, <3>2, <1>0, <1>1
    <2>2. CASE printed # << >>
      <3> DEFINE n == Len(printed)
      <3>1. printed \in Seq(Positions) /\ n \in 1..n /\ n \in Nat
        BY <2>2, EmptySeqLen DEF IInv, TypeOK, Positions
      <3>2. printed[n] = n /\ last = events[n] /\ n \in Positions
        BY <3>1, <2>2, ElementsTyped DEF IInv, Orderly
      <3>3. \A k \in Positions : events[k] > last <=> k > n
        BY <3>1, <3>2, <1>1 DEF InOrder, Positions
      <3> QED BY <3>1, <3>3, <1>0, <1>1
    <2> QED BY <2>1, <2>2
  <1> QED BY <1>3, <1>4, <1>6, <1>7, <1>8 DEF IInv

LEMMA PrintInv ==
  ASSUME IInv, PrintEvent
  PROVE  IInv'
  <1>0. PICK k \in batch :
          /\ \A j \in batch : k <= j
          /\ last' = events[k] /\ printed' = Append(printed, k)
          /\ batch' = batch \ {k}
          /\ nextId' = nextId /\ events' = events /\ reserved' = reserved
    BY DEF PrintEvent, storeVars
  <1> DEFINE n == Len(printed)
  <1>1. \A i \in Positions : events[i] \in 1..MaxEvents /\ events[i] \in Nat /\ i \in Nat
    BY PositionsTyped DEF IInv
  <1>2. /\ batch \subseteq Positions /\ k \in Positions
        /\ printed \in Seq(Positions) /\ n \in Nat /\ last \in 0..MaxEvents
        /\ events \in Seq(1..MaxEvents)
    BY DEF IInv, TypeOK, Positions
  <1>3. /\ printed' \in Seq(Positions) /\ Len(printed') = n + 1 /\ printed'[n + 1] = k
        /\ \A m \in 1..n : printed'[m] = printed[m]
    BY <1>0, <1>2
  <1>4. \A i : IsPrinted(i)' <=> IsPrinted(i) \/ i = k
    BY <1>2, <1>3 DEF IsPrinted
  <1>5. \A i : /\ Overtaken(i)' <=> Overtaken(i)
               /\ Overtaking(i)' <=> Overtaking(i)
    BY <1>0 DEF Overtaken, Overtaking
  <1>6. TypeOK'
    BY <1>0, <1>1, <1>2, <1>3, LogAssumption DEF IInv, TypeOK, Positions
  <1>7. BelowCounter' /\ IdsUnique' /\ CursorIsPrinted'
    BY <1>0, <1>2 DEF IInv, BelowCounter, IdsUnique, CursorIsPrinted, Positions
  <1>8. Missed'
    <2> SUFFICES ASSUME NEW i \in Positions, ~IsPrinted(i), i # k, i \notin batch,
                        events[i] <= events[k] \/ \E j \in batch : i < j
                 PROVE  Overtaken(i)
      BY <1>0, <1>4, <1>5 DEF Missed, Positions
    <2>1. CASE \E j \in batch : i < j
      BY <2>1 DEF IInv, Missed
    <2>2. CASE events[i] <= events[k] /\ k < i
      <3>1. events[i] # events[k] BY <1>2 DEF IInv, IdsUnique, Positions
      <3> QED BY <3>1, <2>2, <1>1, <1>2 DEF Overtaken, Positions
    <2>3. k < i \/ i < k BY <1>1, <1>2
    <2> QED BY <2>1, <2>2, <2>3
  <1>9. Again'
    <2> SUFFICES ASSUME NEW i \in Positions, IsPrinted(i) \/ i = k
                 PROVE  /\ events[i] > events[k] => Overtaking(i)
                        /\ \A j \in batch \ {k} :
                              events[i] < events[j] \/ i < j \/ Overtaking(i)
      BY <1>0, <1>4, <1>5 DEF Again, Positions
    <2>1. CASE i = k
      <3>1. \A j \in batch \ {k} : k < j BY <1>0, <1>1, <1>2
      <3> QED BY <2>1, <3>1, <1>1
    <2>2. CASE IsPrinted(i)
      <3>1. \A j \in batch : events[i] < events[j] \/ i < j \/ Overtaking(i)
        BY <2>2 DEF IInv, Again
      <3>2. ASSUME events[i] > events[k], i < k PROVE Overtaking(i)
        BY <3>2, <1>1, <1>2 DEF Overtaking, Positions
      <3> QED BY <3>1, <3>2, <1>1, <1>2
    <2> QED BY <2>1, <2>2
  <1>10. RepeatedWasOvertaking'
    <2> SUFFICES ASSUME NEW a \in 1..(n + 1), NEW b \in 1..(n + 1),
                        printed'[a] = printed'[b], a # b
                 PROVE  Overtaking(printed'[b])
      BY <1>3, <1>5 DEF RepeatedWasOvertaking, Overtaking
    <2>1. CASE a \in 1..n /\ b \in 1..n
      BY <2>1, <1>3 DEF IInv, RepeatedWasOvertaking
    <2>2. CASE a = n + 1 \/ b = n + 1
      <3>1. IsPrinted(k) /\ printed'[b] = k
        BY <2>2, <1>2, <1>3 DEF IsPrinted
      <3> QED BY <3>1, <1>1, <1>2 DEF IInv, Again
    <2> QED BY <2>1, <2>2, <1>2
  <1>11. Orderly'
    <2> SUFFICES ASSUME InOrder PROVE Orderly' BY <1>0 DEF Orderly, InOrder
    <2>1. /\ \A m \in 1..n : printed[m] = m
          /\ \A j \in batch :
                /\ j > n
                /\ \A i \in Positions : n < i /\ i <= j => i \in batch
      BY DEF IInv, Orderly
    <2>2. k = n + 1
      <3>1. k > n BY <2>1
      <3>2. n + 1 \in Positions /\ n + 1 <= k BY <3>1, <1>1, <1>2 DEF Positions
      <3>3. n + 1 \in batch BY <3>2, <1>2, <2>1
      <3> QED BY <3>2, <3>3, <1>0, <1>1, <1>2
    <2>3. \A m \in 1..Len(printed') : printed'[m] = m
      BY <2>1, <2>2, <1>2, <1>3
    <2>4. last' = events'[Len(printed')] /\ printed' # << >>
      BY <2>2, <1>0, <1>2, <1>3
    <2>5. \A j \in batch' :
            /\ j > Len(printed')
            /\ \A i \in Positions' : Len(printed') < i /\ i <= j => i \in batch'
      BY <2>1, <2>2, <1>0, <1>1, <1>2, <1>3 DEF Positions
    <2> QED BY <2>3, <2>4, <2>5 DEF Orderly
  <1> QED BY <1>6, <1>7, <1>8, <1>9, <1>10, <1>11 DEF IInv

----------------------------------------------------------------------------
(* Theorems.                                                                *)

\* IInv holds in every state: model.py's lock makes every store call one step.
THEOREM Inductive == Spec => []IInv
  <1>1. ASSUME IInv, [Next]_vars PROVE IInv'
    <2>1. CASE UNCHANGED vars
      BY <1>1, <2>1 DEF vars, IInv, TypeOK, BelowCounter, IdsUnique, CursorIsPrinted,
         Missed, Again, RepeatedWasOvertaking, Orderly, Positions, IsPrinted,
         Overtaken, Overtaking, InOrder
    <2>2. CASE Next
      BY <1>1, <2>2, NewIdInv, AddInv, AbandonInv, PollInv, PrintInv
         DEF Next, Record, Cli
    <2> QED BY <1>1, <2>1, <2>2
  <1> QED BY InitInv, <1>1, PTL DEF Spec

\* The variables keep their types.
THEOREM TypeCorrect == Spec => []TypeOK
  <1>1. IInv => TypeOK BY DEF IInv
  <1> QED BY <1>1, Inductive, PTL

\* Ids never collide (model.py new_id), however producers interleave.
THEOREM UniqueIds == Spec => []IdsUnique
  <1>1. IInv => IdsUnique BY DEF IInv
  <1> QED BY <1>1, Inductive, PTL

\* The loop of cli.py misses an event only if it was overtaken.
THEOREM MissesHaveCause == Spec => []SkippedWasOvertaken
  <1>1. IInv => SkippedWasOvertaken
    BY DEF IInv, Missed, SkippedWasOvertaken, Positions
  <1> QED BY <1>1, Inductive, PTL

\* It prints an event again only if that overtook another one, which took the
\* cursor back.
THEOREM RepetitionsHaveCause == Spec => []RepeatedWasOvertaking
  <1>1. IInv => RepeatedWasOvertaking BY DEF IInv
  <1> QED BY <1>1, Inductive, PTL

\* While ids enter in order, the loop prints the log as it is.
THEOREM OrderlyPrinting == Spec => []PrintsLogInOrder
  <1>1. IInv => PrintsLogInOrder
    BY DEF IInv, Orderly, PrintsLogInOrder
  <1> QED BY <1>1, Inductive, PTL
============================================================================
