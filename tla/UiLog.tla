------------------------------- MODULE UiLog -------------------------------
(***************************************************************************)
(* The log as the UI sees it: Api (app.py), whose calls run in threads of  *)
(* the webview, the LogStore it has now and the one the session records    *)
(* into (model.py), and the page (ui/index.html), which keeps a Map from   *)
(* ids to events and refreshes it with poll every 600 ms.                  *)
(*                                                                         *)
(* A call of the page is two steps: the Api's part, and what the page does *)
(* once the answer is there; anything may come between.  Events are        *)
(* numbered as they are received, so that two with the same id can be told *)
(* apart; new_id and add are the two ends of a request.                    *)
(***************************************************************************)
EXTENDS Naturals, Sequences, SequencesExt, FiniteSetsExt

CONSTANTS
    Requests,   \* requests that are received at the same time
    MaxEvents,  \* bound: events
    MaxStores,  \* bound: logs loaded, plus one
    MaxPolls,   \* bound: polls that were answered and have not reached the page
    InFile,     \* events in a file that load reads
    FileIds     \* the ids they may have: the file was downloaded from a log of this kind

ASSUME UiAssumption ==
    /\ {MaxEvents, MaxStores, MaxPolls, InFile} \subseteq Nat
    /\ InFile <= MaxEvents /\ MaxStores > 0
    /\ FileIds \subseteq [1..InFile -> 1..InFile]

VARIABLES
    stores,     \* every LogStore: next id, events in the order of add
    current,    \* Api.store
    recording,  \* the store of the running session, or 0
    held,       \* the event a request will add: number, id
    made,       \* events so far
    shown,      \* the page's Map: id to number, 0 is absent
    rows,       \* the ids of the rows that can be clicked
    selected,   \* the page's set of selected ids
    awaiting,   \* "clear", "load": the Api is done, the page is not
    replies,    \* answers to polls on their way; taken before the last clear or load?
    asked,      \* the replay the page asks for
    replaying,  \* the replay thread is alive
    replayed,   \* the events of the last replay, and what was asked
    ghost,      \* history: an answer older than a clear or load has arrived after it
    crossed     \* history: stores that may have an id twice, see Clear and Load

apiVars  == <<stores, current, recording, held, made>>
pageVars == <<shown, rows, selected, awaiting, replies>>
playVars == <<asked, replaying, replayed>>
vars     == <<apiVars, pageVars, playVars, ghost, crossed>>

Numbers   == 1..MaxEvents
Ids       == Numbers
Events    == [n : Numbers, id : Ids]
StoreIds  == 1..MaxStores
NewStore  == [next |-> 1, events |-> << >>]
NoEvent   == [n |-> 0, id |-> 0]

\* A request for a replay of which nothing can be said.
Unsure(ids) == [ids |-> ids, wanted |-> {}, sure |-> FALSE]

\* Mutant: the ids of a loaded log start again.
LoadedFromOne(ids) == [next |-> 1, events |-> [i \in 1..InFile |-> [n |-> i, id |-> ids[i]]]]

\* LogStore.from_jsonl of a file: the events keep their ids.
Loaded(ids) ==
    [next   |-> Max({ids[i] : i \in 1..InFile} \cup {0}) + 1,
     events |-> [i \in 1..InFile |-> [n |-> i, id |-> ids[i]]]]

Init ==
    /\ stores = [s \in StoreIds |-> NewStore]
    /\ current = 1
    /\ recording = 0
    /\ held = [r \in Requests |-> NoEvent]
    /\ made = InFile
    /\ shown = [i \in Ids |-> 0]
    /\ rows = {}
    /\ selected = {}
    /\ awaiting = {}
    /\ replies = {}
    /\ asked = {}
    /\ replaying = FALSE
    /\ replayed = [got |-> {}, by |-> Unsure({})]
    /\ ghost = FALSE
    /\ crossed = {}

----------------------------------------------------------------------------
(* The session and what it records.                                         *)

\* Api.start gives the session the store it has now.
Start ==
    /\ recording = 0
    /\ recording' = current
    /\ UNCHANGED <<stores, current, held, made, pageVars, playVars, ghost, crossed>>

\* Api.stop; the relay's tasks do not run on.
Stop ==
    /\ recording # 0
    /\ recording' = 0
    /\ held' = [r \in Requests |-> NoEvent]
    /\ UNCHANGED <<stores, current, made, pageVars, playVars, ghost, crossed>>

\* new_id, at the head of a request.
Reserve(r) ==
    /\ recording # 0 /\ held[r] = NoEvent /\ made < MaxEvents
    /\ held' = [held EXCEPT ![r] = [n |-> made + 1, id |-> stores[recording].next]]
    /\ stores' = [stores EXCEPT ![recording].next = @ + 1]
    /\ made' = made + 1
    /\ UNCHANGED <<current, recording, pageVars, playVars, ghost, crossed>>

\* add, at its end.
Add(r) ==
    /\ held[r] # NoEvent
    /\ stores' = [stores EXCEPT ![recording].events = Append(@, held[r])]
    /\ held' = [held EXCEPT ![r] = NoEvent]
    /\ UNCHANGED <<current, recording, made, pageVars, playVars, ghost, crossed>>

----------------------------------------------------------------------------
(* Clear and load.                                                          *)

Outdated == {[list |-> r.list, old |-> TRUE] : r \in replies}

\* Answers and requests under way are now older than the log.
Overtake ==
    /\ replies' = Outdated
    /\ asked' = {Unsure(a.ids) : a \in asked}

\* LogStore.clear.
Cleared(s) == [s EXCEPT !.events = << >>, !.next = 1]

\* Api.clear.  An id that a request holds may now be given a second time.
Clear ==
    /\ "clear" \notin awaiting
    /\ stores' = [stores EXCEPT ![current] = Cleared(@)]
    /\ awaiting' = awaiting \cup {"clear"}
    /\ Overtake
    /\ crossed' = IF recording = current /\ \E r \in Requests : held[r] # NoEvent
                  THEN crossed \cup {current} ELSE crossed \ {current}
    /\ UNCHANGED <<current, recording, held, made, shown, rows, selected, replaying,
                   replayed, ghost>>

\* Mutant: the page keeps its events until the next poll.
ClearPageNot ==
    /\ "clear" \in awaiting
    /\ awaiting' = awaiting \ {"clear"}
    /\ selected' = {}
    /\ UNCHANGED <<apiVars, shown, rows, replies, playVars, ghost, crossed>>

\* events.clear(); selected.clear()
ClearPage ==
    /\ "clear" \in awaiting
    /\ awaiting' = awaiting \ {"clear"}
    /\ shown' = [i \in Ids |-> 0]
    /\ rows' = {}
    /\ selected' = {}
    /\ ghost' = FALSE
    /\ UNCHANGED <<apiVars, replies, playVars, crossed>>

\* Api.load: a new store; the session keeps the one it has.  The file may be that
\* of a log with an id twice.
Load ==
    /\ "load" \notin awaiting /\ current < MaxStores
    /\ current' = current + 1
    /\ \E ids \in FileIds :
          /\ stores' = [stores EXCEPT ![current + 1] = Loaded(ids)]
          /\ crossed' = IF IsInjective(ids) THEN crossed ELSE crossed \cup {current + 1}
    /\ awaiting' = awaiting \cup {"load"}
    /\ Overtake
    /\ UNCHANGED <<recording, held, made, shown, rows, selected, replaying, replayed,
                   ghost>>

\* events.clear(), and a poll like any other.  The selection stays, and so do the
\* rows, until they are rendered again.
LoadPage ==
    /\ "load" \in awaiting
    /\ awaiting' = awaiting \ {"load"}
    /\ shown' = [i \in Ids |-> 0]
    /\ ghost' = FALSE
    /\ UNCHANGED <<apiVars, rows, selected, replies, playVars, crossed>>

----------------------------------------------------------------------------
(* Poll.                                                                    *)

\* Api.poll(0): the whole list.
Poll ==
    /\ Cardinality(replies) < MaxPolls
    /\ replies' = replies \cup {[list |-> stores[current].events, old |-> FALSE]}
    /\ UNCHANGED <<apiVars, shown, rows, selected, awaiting, playVars, ghost, crossed>>

\* for (const e of list) events.set(e.id, e): what is not in the list stays, and
\* of the events with one id the last is kept.
Merged(map, list) ==
    [i \in Ids |-> LET at == {k \in 1..Len(list) : list[k].id = i}
                   IN IF at = {} THEN map[i] ELSE list[Max(at)].n]

\* render()
Rows(map) == {i \in Ids : map[i] # 0}

Receive ==
    \E r \in replies :
        /\ replies' = replies \ {r}
        /\ shown' = Merged(shown, r.list)
        /\ rows' = Rows(shown')
        /\ ghost' = (ghost \/ r.old)
        /\ UNCHANGED <<apiVars, selected, awaiting, playVars, crossed>>

\* A click on a row, or ctrl and a click.
Select ==
    /\ \E i \in rows : selected' \in {{i}, selected \cup {i}, selected \ {i}}
    /\ rows' = Rows(shown)
    /\ UNCHANGED <<apiVars, shown, awaiting, replies, playVars, ghost, crossed>>

----------------------------------------------------------------------------
(* Replay.                                                                  *)

\* The page sends the selected ids if the box is ticked, else none.
AskReplay ==
    /\ asked = {}
    /\ \E ids \in {selected, {}} :
        asked' = {IF ~ghost /\ awaiting = {} /\ \A i \in ids : shown[i] # 0
                  THEN [ids |-> ids, wanted |-> {shown[i] : i \in ids}, sure |-> TRUE]
                  ELSE Unsure(ids)}
    /\ UNCHANGED <<apiVars, pageVars, replaying, replayed, ghost, crossed>>

\* Mutant: the position in the log is taken for the id.
ChosenByPosition(ids) ==
    LET log == stores[current].events IN
    {log[i].n : i \in {j \in 1..Len(log) : ids = {} \/ j \in ids}}

\* [e for e in store.all() if not ids or e.id in ids]
Chosen(ids) ==
    LET log == stores[current].events IN
    {log[i].n : i \in {j \in 1..Len(log) : ids = {} \/ log[j].id \in ids}}

\* Api.replay, unless one is running.
Replay ==
    \E a \in asked :
        /\ asked' = {}
        /\ IF replaying THEN UNCHANGED <<replaying, replayed>>
           ELSE /\ replaying' = TRUE
                /\ replayed' = IF a.sure /\ current \notin crossed
                               THEN [got |-> Chosen(a.ids), by |-> a]
                               ELSE [got |-> {}, by |-> Unsure({})]
        /\ UNCHANGED <<apiVars, pageVars, ghost, crossed>>

\* The thread ends.
ReplayEnds ==
    /\ replaying
    /\ replaying' = FALSE
    /\ replayed' = [got |-> {}, by |-> Unsure({})]
    /\ UNCHANGED <<apiVars, pageVars, asked, ghost, crossed>>

----------------------------------------------------------------------------
Record == Start \/ Stop \/ \E r \in Requests : Reserve(r) \/ Add(r)

Page == Clear \/ ClearPage \/ Load \/ LoadPage \/ Poll \/ Receive \/ Select

Next == Record \/ Page \/ AskReplay \/ Replay \/ ReplayEnds

Spec == Init /\ [][Next]_vars

----------------------------------------------------------------------------
(* Properties.                                                              *)

TypeOK ==
    /\ stores \in [StoreIds -> [next : 1..(MaxEvents + 1), events : Seq(Events)]]
    /\ current \in StoreIds /\ recording \in 0..current
    /\ held \in [Requests -> Events \cup {NoEvent}]
    /\ made \in InFile..MaxEvents
    /\ shown \in [Ids -> 0..MaxEvents] /\ rows \cup selected \subseteq Ids
    /\ awaiting \subseteq {"clear", "load"}
    /\ \A r \in replies : r.list \in Seq(Events) /\ r.old \in BOOLEAN
    /\ \A a \in asked : a.ids \subseteq Ids /\ a.wanted \subseteq 0..MaxEvents
    /\ replaying \in BOOLEAN /\ replayed.got \subseteq Numbers
    /\ ghost \in BOOLEAN /\ crossed \subseteq StoreIds

\* The page shows nothing that is not in the log any more, unless a poll's
\* answer from before a clear or a load has arrived after it.
GhostHasCause ==
    awaiting = {} /\ ~ghost =>
        \A i \in Ids : shown[i] # 0 =>
            \E e \in ToSet(stores[current].events) : e = [n |-> shown[i], id |-> i]

\* Two events of a log have one id, in the log or still being received, only if
\* its last clear came while a request held an id, or if it was loaded, and not
\* cleared since, from a file that has an id twice.
DuplicateHasCause ==
    \A s \in StoreIds \ crossed :
        LET log == stores[s].events IN
        /\ \A i, j \in 1..Len(log) : log[i].id = log[j].id => i = j
        /\ recording = s => \A r \in Requests : held[r] # NoEvent =>
              /\ \A i \in 1..Len(log) : log[i].id # held[r].id
              /\ \A q \in Requests : held[q].id = held[r].id => q = r

\* A replay of selected rows replays the events the page showed in these rows
\* when it was asked for, unless the log was changed under it, the page did not
\* know it, or the log may have an id twice for one of the causes above.  (No ids
\* stand for all events, also when nothing is selected.)
ReplayAsSelected ==
    replayed.by.sure /\ replayed.by.ids # {} => replayed.got = replayed.by.wanted
============================================================================
