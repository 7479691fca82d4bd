----------------------------- MODULE ReplayCalls -----------------------------
(***************************************************************************)
(* A replay between the page and the bridge: the page's button and its     *)
(* timer (index.html, btnReplay and pollReplay), Api.replay and            *)
(* replay_poll (app.py), each call of which the webview runs in a thread   *)
(* of its own, and the threads that replay.                                *)
(*                                                                         *)
(* Click k makes call k, which makes Replayer k, thread k and timer k.     *)
(* The page disables its button only when the answer is there, the bridge  *)
(* tests for a running thread before it makes one, starts whichever thread *)
(* is in self._replay_thread by then, and the thread takes self.replayer   *)
(* when it begins to run.  What it then sends, and cancel, which is set on *)
(* self.replayer, are in Replayer.                                         *)
(***************************************************************************)
EXTENDS Naturals

CONSTANTS
    MaxClicks,  \* bound: clicks on the replay button
    MaxPolls    \* bound: polls under way at a time

ASSUME CallsAssumption == {MaxClicks, MaxPolls} \subseteq Nat \ {0}

Clicks == 1..MaxClicks
Polls  == 1..MaxPolls

VARIABLES
    button, timers, rTimer,     \* of the page: enabled; live intervals; the one it knows
    poll,       \* a poll: free, asked, or its answer; and, history, rTimer at that time
    call,       \* a call of replay: none, what it does next, its answer, or over
    replayer, replayThread, replayDone,     \* of Api: 0 is None
    thread,     \* none, made, new (started), run, endless, over (past its finally) or dead
    runs,       \* the Replayer that a thread runs
    overlapped, \* history: two calls were accepted before the page had an answer
    misled      \* history: an answer taken before rTimer was set came after that

pageVars   == <<button, timers, rTimer>>
bridgeVars == <<replayer, replayThread, replayDone>>
threadVars == <<thread, runs>>
vars == <<pageVars, poll, call, bridgeVars, threadVars, overlapped, misled>>

Init ==
    /\ button = TRUE /\ timers = {} /\ rTimer = 0
    /\ poll = [q \in Polls |-> [state |-> "free", of |-> 0]]
    /\ call = [k \in Clicks |-> "none"]
    /\ replayer = 0 /\ replayThread = 0 /\ replayDone = FALSE
    /\ thread = [k \in Clicks |-> "none"]
    /\ runs = [k \in Clicks |-> 0]
    /\ overlapped = FALSE /\ misled = FALSE

\* A thread that sends, and one that has still to send or sends.
Sending(k) == thread[k] \in {"run", "endless"}
Running(k) == thread[k] = "new" \/ Sending(k)

Alive(k) == k # 0 /\ (Running(k) \/ thread[k] = "over")

----------------------------------------------------------------------------
(* Api.replay.                                                              *)

\* Past its test, and its answer not yet there.
Accepted(k) == call[k] \in {"make", "mark", "thread", "launch", "ok"}

\* The button is still enabled while an earlier click has no answer.
Click(k) ==
    /\ button /\ call[k] = "none" /\ \A j \in 1..(k - 1) : call[j] # "none"
    /\ call' = [call EXCEPT ![k] = "test"]
    /\ UNCHANGED <<pageVars, poll, bridgeVars, threadVars, overlapped, misled>>

\* Mutant: a thread that was started in another way is not seen.
RefusedNever(k) == FALSE

Refused(k) == Alive(replayThread)

Test(k) ==
    /\ call[k] = "test"
    /\ call' = [call EXCEPT ![k] = IF Refused(k) THEN "error" ELSE "make"]
    /\ overlapped' = (overlapped \/ (~Refused(k) /\ \E j \in Clicks : Accepted(j)))
    /\ UNCHANGED <<pageVars, poll, bridgeVars, threadVars, misled>>

\* A speed or a port map that is no number raises before self.replayer is set.
MakeReplayer(k) ==
    /\ call[k] = "make"
    /\ \/ call' = [call EXCEPT ![k] = "mark"] /\ replayer' = k
       \/ call' = [call EXCEPT ![k] = "error"] /\ UNCHANGED replayer
    /\ UNCHANGED <<pageVars, poll, replayDone, replayThread, threadVars, overlapped, misled>>

\* Mutant: without this statement.
NotDoneKept(d) == d
NotDone(d)     == FALSE

\* self._replay_done = False
Mark(k) ==
    /\ call[k] = "mark"
    /\ call' = [call EXCEPT ![k] = "thread"]
    /\ replayDone' = NotDone(replayDone)
    /\ UNCHANGED <<pageVars, poll, replayer, replayThread, threadVars, overlapped, misled>>

MakeThread(k) ==
    /\ call[k] = "thread"
    /\ call' = [call EXCEPT ![k] = "launch"]
    /\ replayThread' = k
    /\ thread' = [thread EXCEPT ![k] = "made"]
    /\ UNCHANGED <<pageVars, poll, replayer, replayDone, runs, overlapped, misled>>

\* self._replay_thread.start(), which raises for a thread that was started.
Launch(k) ==
    /\ call[k] = "launch"
    /\ IF thread[replayThread] = "made"
       THEN /\ thread' = [thread EXCEPT ![replayThread] = "new"]
            /\ call' = [call EXCEPT ![k] = "ok"]
       ELSE call' = [call EXCEPT ![k] = "error"] /\ UNCHANGED thread
    /\ UNCHANGED <<pageVars, poll, bridgeVars, runs, overlapped, misled>>

\* The page takes the answer.
Answered(k) ==
    /\ call[k] \in {"ok", "error"}
    /\ call' = [call EXCEPT ![k] = "over"]
    /\ IF call[k] = "ok"
       THEN button' = FALSE /\ timers' = timers \cup {k} /\ rTimer' = k
       ELSE UNCHANGED pageVars
    /\ UNCHANGED <<poll, bridgeVars, threadVars, overlapped, misled>>

----------------------------------------------------------------------------
(* The threads.                                                             *)

\* for _ in self.replayer.run()
Run(k) ==
    /\ thread[k] = "new"
    /\ thread' = [thread EXCEPT ![k] = "run"]
    /\ runs' = [runs EXCEPT ![k] = replayer]
    /\ UNCHANGED <<pageVars, poll, call, bridgeVars, overlapped, misled>>

\* Mutant: the flag is set by a replay that reached its last event only.
EndedNot(d) == d
Ended(d)    == TRUE

\* The camera's answer goes on for ever (multipart images, an alert stream): the
\* timeout of requests is for a pause in it, and cancel is looked at between events.
NeverEnds(k) ==
    /\ thread[k] = "run"
    /\ thread' = [thread EXCEPT ![k] = "endless"]
    /\ UNCHANGED <<pageVars, poll, call, bridgeVars, runs, overlapped, misled>>

\* The last event, cancel, a mismatch with stop_on_error, or an exception.
Finally(k) ==
    /\ thread[k] = "run"
    /\ thread' = [thread EXCEPT ![k] = "over"]
    /\ replayDone' = Ended(replayDone)
    /\ UNCHANGED <<pageVars, poll, call, replayer, replayThread, runs, overlapped, misled>>

Dies(k) ==
    /\ thread[k] = "over"
    /\ thread' = [thread EXCEPT ![k] = "dead"]
    /\ UNCHANGED <<pageVars, poll, call, bridgeVars, runs, overlapped, misled>>

----------------------------------------------------------------------------
(* replay_poll and the page's timer.                                        *)

\* The interval fires whether the last poll has been answered or not.
Tick(q) ==
    /\ timers # {} /\ poll[q].state = "free"
    /\ poll' = [poll EXCEPT ![q] = [state |-> "asked", of |-> 0]]
    /\ UNCHANGED <<pageVars, call, bridgeVars, threadVars, overlapped, misled>>

ReplayPoll(q) ==
    /\ poll[q].state = "asked"
    /\ poll' = [poll EXCEPT ![q] =
                    [state |-> IF replayer = 0 \/ replayDone THEN "done" ELSE "running",
                     of |-> rTimer]]
    /\ UNCHANGED <<pageVars, call, bridgeVars, threadVars, overlapped, misled>>

\* "Not running" ends the timer that is known now and gives the button back.
PollReplay(q) ==
    /\ poll[q].state \in {"running", "done"}
    /\ poll' = [poll EXCEPT ![q] = [state |-> "free", of |-> 0]]
    /\ IF poll[q].state = "done"
       THEN button' = TRUE /\ timers' = timers \ {rTimer} /\ UNCHANGED rTimer
       ELSE UNCHANGED pageVars
    /\ misled' = (misled \/ (poll[q].state = "done" /\ poll[q].of # rTimer))
    /\ UNCHANGED <<call, bridgeVars, threadVars, overlapped>>

----------------------------------------------------------------------------
Call(k)   == Test(k) \/ MakeReplayer(k) \/ Mark(k) \/ MakeThread(k) \/ Launch(k) \/ Answered(k)
Thread(k) == Run(k) \/ Finally(k) \/ Dies(k)

Next == \/ \E k \in Clicks : Click(k) \/ Call(k) \/ Thread(k) \/ NeverEnds(k)
        \/ \E q \in Polls : Tick(q) \/ ReplayPoll(q) \/ PollReplay(q)

Spec == Init /\ [][Next]_vars

\* Threads run, a request ends unless it is endless, and an interval goes on
\* firing.  Nobody has to click.
FairSpec ==
    /\ Spec
    /\ \A k \in Clicks : WF_vars(Call(k)) /\ WF_vars(Thread(k))
    /\ \A q \in Polls : WF_vars(ReplayPoll(q) \/ PollReplay(q))
    /\ WF_vars(\E q \in Polls : Tick(q))

----------------------------------------------------------------------------
(* Properties.                                                              *)

TypeOK ==
    /\ button \in BOOLEAN /\ timers \subseteq Clicks /\ rTimer \in {0} \cup Clicks
    /\ poll \in [Polls -> [state : {"free", "asked", "running", "done"}, of : {0} \cup Clicks]]
    /\ call \in [Clicks -> {"none", "test", "make", "mark", "thread", "launch",
                          "ok", "error", "over"}]
    /\ {replayer, replayThread} \subseteq {0} \cup Clicks /\ replayDone \in BOOLEAN
    /\ thread \in [Clicks -> {"none", "made", "new", "run", "endless", "over", "dead"}]
    /\ runs \in [Clicks -> {0} \cup Clicks]

\* "replay already running": unless two calls were accepted before the page had
\* the answer to one, there is one replay at a time, it is the one that cancel
\* and poll are about, no Replayer runs twice, and none that still sends is
\* said to be done.
OneReplay ==
    ~overlapped =>
        /\ \A j, k \in Clicks : Running(j) /\ Running(k) => j = k
        /\ \A k \in Clicks : Sending(k) => runs[k] = replayer
        /\ \A j, k \in Clicks : runs[j] = runs[k] /\ runs[k] # 0 => j = k
        /\ replayDone => \A k \in Clicks : ~Running(k)

\* A replay that runs is watched: unless calls overlapped, or an answer to a
\* poll arrived late, taken before the page had this replay's timer, the button
\* is disabled and a timer polls for its end.
RunningIsWatched ==
    (\E k \in Clicks : Running(k) /\ call[k] = "over") /\ ~overlapped /\ ~misled =>
        ~button /\ rTimer \in timers

\* The replay button comes back, whatever replays, polls and clicks do meanwhile,
\* unless a replay waits for an answer that never ends: then only a new start of
\* camcap gives it back, for cancel does not reach the thread.
ButtonReturns == ~button ~> (button \/ \E k \in Clicks : thread[k] = "endless")
============================================================================
