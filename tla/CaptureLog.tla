----------------------------- MODULE CaptureLog -----------------------------
(***************************************************************************)
(* The LogStore of a headless capture (model.py), the threads that fill it *)
(* (the relay's decoders and the WS-Discovery sniffer) and the loop of     *)
(* `camcap capture` that prints it (cli.py).                               *)
(*                                                                         *)
(* An HTTP event takes its id when the head of its request is decoded and  *)
(* is appended when the request is complete, so that ids enter the list    *)
(* out of order; the printing loop remembers only the id it printed last.  *)
(* Every store method is one critical section of the store's lock.         *)
(***************************************************************************)
EXTENDS Naturals, Sequences

CONSTANTS
    Producers,  \* requests being decoded, and other calls between new_id and add
    MaxEvents   \* bound: ids handed out

ASSUME LogAssumption == MaxEvents \in Nat

VARIABLES
    nextId,     \* LogStore._next_id
    events,     \* LogStore._events: the ids, in the order of add
    reserved,   \* the id a producer holds and has not added yet; 0 is none
    last,       \* `last` of the printing loop
    batch,      \* what is left of the list it iterates, as positions in events
    printed     \* the positions it has printed

storeVars == <<nextId, events, reserved>>
cliVars   == <<last, batch, printed>>
vars      == <<nextId, events, reserved, last, batch, printed>>

Init ==
    /\ nextId = 1
    /\ events = << >>
    /\ reserved = [p \in Producers |-> 0]
    /\ last = 0
    /\ batch = {}
    /\ printed = << >>

----------------------------------------------------------------------------
(* The threads that record.                                                 *)

\* Mutant: the counter is not advanced.
NewIdPeeked(p) ==
    /\ reserved[p] = 0 /\ nextId <= MaxEvents
    /\ reserved' = [reserved EXCEPT ![p] = nextId]
    /\ UNCHANGED <<nextId, events, cliVars>>

\* A request head (HTTP), or _new_event of a raw, TLS, RTSP, WS-Discovery or
\* unmatched-response event.
NewId(p) ==
    /\ reserved[p] = 0 /\ nextId <= MaxEvents
    /\ reserved' = [reserved EXCEPT ![p] = nextId]
    /\ nextId' = nextId + 1
    /\ UNCHANGED <<events, cliVars>>

\* The end of the request; at once in the other cases, but for a thread that
\* gets in between.
Add(p) ==
    /\ reserved[p] # 0
    /\ events' = Append(events, reserved[p])
    /\ reserved' = [reserved EXCEPT ![p] = 0]
    /\ UNCHANGED <<nextId, cliVars>>

\* The connection ends, or its decoding degrades to raw, before the request
\* is complete: the id is never used.
Abandon(p) ==
    /\ reserved[p] # 0
    /\ reserved' = [reserved EXCEPT ![p] = 0]
    /\ UNCHANGED <<nextId, events, cliVars>>

----------------------------------------------------------------------------
(* The printing loop.                                                       *)

\* Mutant: an event is asked for again.
SinceInclusive(n) == {i \in 1..Len(events) : events[i] >= n}

\* LogStore.since: the events with a larger id.
Since(n) == {i \in 1..Len(events) : events[i] > n}

\* Mutant: the cursor is taken from the store's counter.
PollJumps ==
    /\ batch = {}
    /\ batch' = Since(last)
    /\ last' = nextId - 1
    /\ UNCHANGED <<storeVars, printed>>

\* for ev in store.since(last), every 0.3 s
Poll ==
    /\ batch = {}
    /\ batch' = Since(last)
    /\ UNCHANGED <<storeVars, last, printed>>

\* Mutants: newest first; the cursor is forgotten.
PrintNewest ==
    \E i \in batch :
        /\ \A j \in batch : j <= i
        /\ last' = events[i]
        /\ printed' = Append(printed, i)
        /\ batch' = batch \ {i}
        /\ UNCHANGED storeVars
PrintOnly ==
    \E i \in batch :
        /\ \A j \in batch : i <= j
        /\ printed' = IF Len(printed) < 2 * MaxEvents THEN Append(printed, i) ELSE printed
        /\ batch' = batch \ {i}
        /\ UNCHANGED <<storeVars, last>>

\* last = ev.id; print(...)
PrintEvent ==
    \E i \in batch :
        /\ \A j \in batch : i <= j
        /\ last' = events[i]
        /\ printed' = Append(printed, i)
        /\ batch' = batch \ {i}
        /\ UNCHANGED storeVars

----------------------------------------------------------------------------
Record(p) == NewId(p) \/ Add(p) \/ Abandon(p)
Cli       == Poll \/ PrintEvent
Next      == (\E p \in Producers : Record(p)) \/ Cli

Spec == Init /\ [][Next]_vars

\* The loop never ends by itself; nothing is assumed of the traffic.
LiveSpec == Spec /\ WF_vars(Cli)

----------------------------------------------------------------------------
(* Properties.                                                              *)

IsPrinted(i)  == \E n \in 1..Len(printed) : printed[n] = i

\* Appended after an event with a larger id; before one with a smaller id.
Overtaken(i)  == \E j \in 1..Len(events) : j < i /\ events[j] > events[i]
Overtaking(i) == \E j \in 1..Len(events) : j > i /\ events[j] < events[i]

TypeOK ==
    /\ nextId \in 1..(MaxEvents + 1)
    /\ events \in Seq(1..MaxEvents)
    /\ reserved \in [Producers -> 0..MaxEvents]
    /\ last \in 0..MaxEvents
    /\ batch \subseteq 1..Len(events)
    /\ printed \in Seq(1..Len(events))

\* No two events, added or still being received, ever share an id, whatever
\* order the threads call the store in.
IdsUnique ==
    /\ \A i, j \in 1..Len(events) : events[i] = events[j] => i = j
    /\ \A p \in Producers : reserved[p] # 0 =>
          /\ \A i \in 1..Len(events) : events[i] # reserved[p]
          /\ \A q \in Producers : reserved[q] = reserved[p] => q = p

\* An event the loop will never print entered the store after one with a
\* larger id: nothing else makes the cursor miss it.
SkippedWasOvertaken ==
    \A i \in 1..Len(events) :
        events[i] <= last /\ ~IsPrinted(i) /\ i \notin batch => Overtaken(i)

\* An event printed twice was followed in the list by one with a smaller id,
\* which set the cursor back.
RepeatedWasOvertaking ==
    \A m, n \in 1..Len(printed) : printed[m] = printed[n] /\ m # n => Overtaking(printed[n])

\* While the ids enter the store in order, the loop prints exactly the log.
InOrder == \A i, j \in 1..Len(events) : i < j => events[i] < events[j]

PrintsLogInOrder == InOrder => \A n \in 1..Len(printed) : printed[n] = n

\* An event that was not overtaken is printed in the end, whatever the later
\* ones do to the cursor.
PrintedInTheEnd ==
    \A i \in 1..MaxEvents :
        (i <= Len(events) /\ ~Overtaken(i)) ~> IsPrinted(i)

\* The cursor may go back, but the loop does not print the same events for
\* ever: when no more arrive it falls silent.
FallsSilent == <>[](batch = {} /\ Since(last) = {})
============================================================================
