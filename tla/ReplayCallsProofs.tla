------------------------- MODULE ReplayCallsProofs -------------------------
(***************************************************************************)
(* Proofs, for any number of clicks and polls, about ReplayCalls.          *)
(***************************************************************************)
EXTENDS ReplayCalls, TLAPS

\* The calls of replay.
LEMMA CallKeepsTypes ==
    ASSUME TypeOK, NEW k \in Clicks, Click(k) \/ Call(k)
    PROVE  TypeOK'
<1> USE DEF TypeOK, pageVars, bridgeVars, threadVars
<1>1. CASE Click(k)
  BY <1>1 DEF Click
<1>2. CASE Test(k)
  BY <1>2 DEF Test
<1>3. CASE MakeReplayer(k)
  BY <1>3 DEF MakeReplayer
<1>4. CASE Mark(k)
  BY <1>4 DEF Mark, NotDone
<1>5. CASE MakeThread(k)
  BY <1>5 DEF MakeThread
<1>6. CASE Launch(k)
  BY <1>6 DEF Launch
<1>7. CASE Answered(k)
  BY <1>7 DEF Answered
<1>. QED  BY <1>1, <1>2, <1>3, <1>4, <1>5, <1>6, <1>7 DEF Call

LEMMA ThreadKeepsTypes ==
    ASSUME TypeOK, NEW k \in Clicks, Thread(k) \/ NeverEnds(k)
    PROVE  TypeOK'
<1> USE DEF TypeOK, pageVars, bridgeVars, threadVars
<1>1. CASE Run(k)
  BY <1>1 DEF Run
<1>2. CASE Finally(k)
  BY <1>2 DEF Finally, Ended
<1>3. CASE Dies(k)
  BY <1>3 DEF Dies
<1>4. CASE NeverEnds(k)
  BY <1>4 DEF NeverEnds
<1>. QED  BY <1>1, <1>2, <1>3, <1>4 DEF Thread

LEMMA PollKeepsTypes ==
    ASSUME TypeOK, NEW q \in Polls, Tick(q) \/ ReplayPoll(q) \/ PollReplay(q)
    PROVE  TypeOK'
<1> USE DEF TypeOK, pageVars, bridgeVars, threadVars
<1>1. CASE Tick(q)
  BY <1>1 DEF Tick
<1>2. CASE ReplayPoll(q)
  BY <1>2 DEF ReplayPoll
<1>3. CASE PollReplay(q)
  BY <1>3 DEF PollReplay
<1>. QED  BY <1>1, <1>2, <1>3

LEMMA InitTypes == ASSUME Init PROVE TypeOK
<1>1. poll \in [Polls -> [state : {"free", "asked", "running", "done"}, of : {0} \cup Clicks]]
  BY DEF Init
<1>2. /\ call \in [Clicks -> {"none", "test", "make", "mark", "thread", "launch",
                             "ok", "error", "over"}]
      /\ thread \in [Clicks -> {"none", "made", "new", "run", "endless", "over", "dead"}]
      /\ runs \in [Clicks -> {0} \cup Clicks]
  BY DEF Init
<1>. QED  BY <1>1, <1>2 DEF Init, TypeOK

\* Types of the replay calls (app.py:97-135 and the page's timer), for any
\* number of clicks and polls.
THEOREM TypeCorrect == Spec => []TypeOK
<1>1. Init => TypeOK
  BY InitTypes
<1>2. TypeOK /\ [Next]_vars => TypeOK'
  <2> SUFFICES ASSUME TypeOK, [Next]_vars PROVE TypeOK'
    OBVIOUS
  <2>1. CASE UNCHANGED vars
    BY <2>1 DEF vars, pageVars, bridgeVars, threadVars, TypeOK
  <2>2. CASE Next
    BY <2>2, CallKeepsTypes, ThreadKeepsTypes, PollKeepsTypes DEF Next
  <2>. QED  BY <2>1, <2>2
<1>. QED  BY <1>1, <1>2, PTL DEF Spec

----------------------------------------------------------------------------
(* One replay at a time.                                                    *)

Idle(k) == thread[k] \in {"none", "dead"}

\* Without overlapping calls: one call at a time is past its test; until it
\* makes its thread there is none; a thread that is not dead is the bridge's,
\* and until its finally the Replayer is its own and not done.
Ordered ==
    /\ \A j, k \in Clicks : Accepted(j) /\ Accepted(k) => j = k
    /\ \A k \in Clicks : call[k] \in {"make", "mark", "thread"} => \A j \in Clicks : Idle(j)
    /\ \A k \in Clicks : call[k] \in {"mark", "thread", "launch"} => replayer = k
    /\ \A k \in Clicks : call[k] \in {"thread", "launch"} => ~replayDone
    /\ \A k \in Clicks : thread[k] = "made" => call[k] = "launch"
    /\ \A k \in Clicks : call[k] = "launch" => thread[k] = "made" /\ replayThread = k
    /\ \A k \in Clicks : ~Idle(k) => replayThread = k
    /\ \A k \in Clicks : Running(k) => replayer = k /\ ~replayDone
    /\ \A k \in Clicks : Sending(k) => runs[k] = k
    /\ \A k \in Clicks : runs[k] \in {0, k}

IInv == TypeOK /\ (~overlapped => Ordered)

LEMMA CallKeepsOrder ==
    ASSUME TypeOK, Ordered, NEW k \in Clicks, Click(k) \/ Call(k), ~overlapped'
    PROVE  Ordered'
<1> USE DEF TypeOK, Ordered, Accepted, Idle, Running, Sending, pageVars, bridgeVars, threadVars
<1>1. CASE Click(k)
  BY <1>1 DEF Click
<1>2. CASE Test(k)
  <2>1. CASE Refused(k)
    BY <1>2, <2>1 DEF Test
  <2>2. CASE ~Refused(k)
    <3>1. \A j \in Clicks : ~Accepted(j)
      BY <1>2, <2>2 DEF Test
    <3>2. \A j \in Clicks : Idle(j)
      BY <2>2, <3>1 DEF Refused, Alive, Clicks
    <3>3. call' = [call EXCEPT ![k] = "make"]
      BY <1>2, <2>2 DEF Test
    <3>. QED  BY <1>2, <3>1, <3>2, <3>3 DEF Test
  <2>. QED  BY <2>1, <2>2
<1>3. CASE MakeReplayer(k)
  BY <1>3 DEF MakeReplayer
<1>4. CASE Mark(k)
  BY <1>4 DEF Mark, NotDone
<1>5. CASE MakeThread(k)
  BY <1>5 DEF MakeThread
<1>6. CASE Launch(k)
  BY <1>6 DEF Launch
<1>7. CASE Answered(k)
  BY <1>7 DEF Answered
<1>. QED  BY <1>1, <1>2, <1>3, <1>4, <1>5, <1>6, <1>7 DEF Call

LEMMA ThreadKeepsOrder ==
    ASSUME TypeOK, Ordered, NEW k \in Clicks, Thread(k) \/ NeverEnds(k)
    PROVE  Ordered'
<1> USE DEF TypeOK, Ordered, Accepted, Idle, Running, Sending, pageVars, bridgeVars, threadVars
<1>1. CASE Run(k)
  BY <1>1 DEF Run
<1>2. CASE Finally(k)
  BY <1>2 DEF Finally, Ended
<1>3. CASE Dies(k)
  BY <1>3 DEF Dies
<1>4. CASE NeverEnds(k)
  BY <1>4 DEF NeverEnds
<1>. QED  BY <1>1, <1>2, <1>3, <1>4 DEF Thread

LEMMA PollKeepsOrder ==
    ASSUME Ordered, NEW q \in Polls, Tick(q) \/ ReplayPoll(q) \/ PollReplay(q)
    PROVE  Ordered'
  BY DEF Tick, ReplayPoll, PollReplay, Ordered, Accepted, Idle, Running, Sending,
         bridgeVars, threadVars

LEMMA Preserved == IInv /\ [Next]_vars => IInv'
<1> SUFFICES ASSUME IInv, [Next]_vars PROVE IInv'
  OBVIOUS
<1>1. CASE UNCHANGED vars
  BY <1>1 DEF vars, pageVars, bridgeVars, threadVars, IInv, TypeOK, Ordered, Accepted,
              Idle, Running, Sending
<1>2. CASE Next
  <2>1. ASSUME NEW k \in Clicks, Click(k) \/ Call(k) PROVE IInv'
    <3>1. overlapped => overlapped'
      BY <2>1 DEF Click, Call, Test, MakeReplayer, Mark, MakeThread, Launch, Answered
    <3>. QED  BY <2>1, <3>1, CallKeepsTypes, CallKeepsOrder DEF IInv
  <2>2. ASSUME NEW k \in Clicks, Thread(k) \/ NeverEnds(k) PROVE IInv'
    <3>1. overlapped' = overlapped
      BY <2>2 DEF Thread, Run, Finally, Dies, NeverEnds
    <3>. QED  BY <2>2, <3>1, ThreadKeepsTypes, ThreadKeepsOrder DEF IInv
  <2>3. ASSUME NEW q \in Polls, Tick(q) \/ ReplayPoll(q) \/ PollReplay(q) PROVE IInv'
    <3>1. overlapped' = overlapped
      BY <2>3 DEF Tick, ReplayPoll, PollReplay
    <3>. QED  BY <2>3, <3>1, PollKeepsTypes, PollKeepsOrder DEF IInv
  <2>. QED  BY <1>2, <2>1, <2>2, <2>3 DEF Next
<1>. QED  BY <1>1, <1>2

LEMMA InitInv == Init => IInv
<1> SUFFICES ASSUME Init PROVE TypeOK /\ Ordered
  BY DEF IInv
<1>1. TypeOK
  BY InitTypes
<1>2. \A k \in Clicks : call[k] = "none" /\ thread[k] = "none" /\ runs[k] = 0
  BY DEF Init
<1>. QED  BY <1>1, <1>2 DEF Ordered, Accepted, Idle, Running, Sending

\* Unless two calls were accepted before the page had an answer, there is one
\* replay at a time, the one that polls and cancel are about, no Replayer is
\* run twice (app.py:98-125), however many clicks and polls there are.
THEOREM OneAtATime == Spec => []OneReplay
<1>2. IInv => OneReplay
  <2> SUFFICES ASSUME IInv, ~overlapped PROVE OneReplay
    BY DEF OneReplay
  <2>. QED  BY DEF IInv, TypeOK, Ordered, Accepted, Idle, Running, Sending, OneReplay
<1>. QED  BY InitInv, <1>2, Preserved, PTL DEF Spec

----------------------------------------------------------------------------
(* The page watches the replay.                                             *)

\* What the page knows of a click, it has had the answer for.
Known ==
    /\ rTimer # 0 => call[rTimer] = "over"
    /\ \A q \in Polls : poll[q].of # 0 => call[poll[q].of] = "over"

\* While the answer to a call is on its way, no other thread is there; a call
\* that was refused has none.
Alone ==
    /\ \A j, k \in Clicks : call[j] = "ok" /\ ~Idle(k) => j = k
    /\ \A k \in Clicks : call[k] \in {"none", "test", "error"} => Idle(k)

\* A replay that runs, and that the page has the answer of, has the page's timer;
\* no poll answered since then says that it is done.
Timed ==
    \A k \in Clicks : Running(k) /\ call[k] = "over" =>
        /\ rTimer = k /\ k \in timers /\ ~button
        /\ \A q \in Polls : ~(poll[q].state = "done" /\ poll[q].of = k)

WInv ==
    /\ IInv /\ Known
    /\ ~overlapped => Alone
    /\ ~overlapped /\ ~misled => Timed

LEMMA CallKeepsWatch ==
    ASSUME WInv, NEW k \in Clicks, Click(k) \/ Call(k), IInv'
    PROVE  WInv'
<1> USE DEF WInv, IInv, TypeOK, pageVars, bridgeVars, threadVars
<1>1. CASE Click(k)
  BY <1>1 DEF Click, Known, Alone, Timed, Idle, Running, Sending
<1>2. CASE Test(k)
  <2>1. Known'
    BY <1>2 DEF Test, Known
  <2>2. ~overlapped' => ~overlapped
    BY <1>2 DEF Test
  <2>3. /\ call[k] = "test"
        /\ \E r \in {"error", "make"} : call' = [call EXCEPT ![k] = r]
        /\ UNCHANGED <<pageVars, poll, threadVars, misled>>
    BY <1>2 DEF Test
  <2>4. ASSUME ~overlapped' PROVE Alone'
    BY <2>2, <2>3, <2>4 DEF Alone, Idle
  <2>5. ASSUME ~overlapped', ~misled' PROVE Timed'
    BY <2>2, <2>3, <2>5 DEF Timed, Running, Sending
  <2>. QED  BY <2>1, <2>4, <2>5
<1>3. CASE MakeReplayer(k)
  <2>1. Known' /\ (~overlapped /\ ~misled => Timed')
    BY <1>3 DEF MakeReplayer, Known, Timed, Running, Sending
  <2>2. ASSUME ~overlapped PROVE Alone'
    <3>1. \A j \in Clicks : Idle(j)
      BY <1>3, <2>2 DEF MakeReplayer, Ordered
    <3>. QED  BY <1>3, <2>2, <3>1 DEF MakeReplayer, Alone, Idle
  <2>. QED  BY <1>3, <2>1, <2>2 DEF MakeReplayer
<1>4. CASE Mark(k)
  BY <1>4 DEF Mark, Known, Alone, Timed, Idle, Running, Sending
<1>5. CASE MakeThread(k)
  <2>1. Known'
    BY <1>5 DEF MakeThread, Known
  <2>2. ASSUME ~overlapped PROVE Alone'
    BY <1>5, <2>2 DEF MakeThread, Alone, Ordered, Accepted
  <2>3. ASSUME ~overlapped, ~misled PROVE Timed'
    BY <1>5, <2>3 DEF MakeThread, Timed, Running, Sending
  <2>. QED  BY <1>5, <2>1, <2>2, <2>3 DEF MakeThread
<1>6. CASE Launch(k)
  <2>1. Known'
    BY <1>6 DEF Launch, Known
  <2>2. ASSUME ~overlapped
        PROVE  /\ thread' = [thread EXCEPT ![k] = "new"]
               /\ call' = [call EXCEPT ![k] = "ok"]
    BY <1>6, <2>2 DEF Launch, Ordered
  <2>3. ASSUME ~overlapped PROVE Alone'
    BY <1>6, <2>2, <2>3 DEF Launch, Alone, Ordered, Accepted, Idle
  <2>4. ASSUME ~overlapped, ~misled PROVE Timed'
    BY <1>6, <2>2, <2>4 DEF Launch, Timed, Running, Sending
  <2>. QED  BY <1>6, <2>1, <2>3, <2>4 DEF Launch
<1>7. CASE Answered(k)
  <2>1. Known'
    BY <1>7 DEF Answered, Known
  <2>2. ASSUME ~overlapped PROVE Alone'
    BY <1>7, <2>2 DEF Answered, Alone, Idle
  <2>3. ASSUME ~overlapped, ~misled PROVE Timed'
    <3>1. CASE call[k] = "ok"
      <4>1. \A j \in Clicks : Running(j) => j = k
        BY <2>3, <3>1 DEF Alone, Idle, Running, Sending
      <4>2. \A q \in Polls : poll[q].of # k
        BY <3>1 DEF Known, Clicks
      <4>. QED  BY <1>7, <3>1, <4>1, <4>2 DEF Answered, Timed, Running, Sending
    <3>2. CASE call[k] = "error"
      <4>1. ~Running(k)
        BY <2>3, <3>2 DEF Alone, Idle, Running, Sending
      <4>. QED  BY <1>7, <2>3, <3>2, <4>1 DEF Answered, Timed, Running, Sending
    <3>. QED  BY <1>7, <3>1, <3>2 DEF Answered
  <2>. QED  BY <1>7, <2>1, <2>2, <2>3 DEF Answered
<1>. QED  BY <1>1, <1>2, <1>3, <1>4, <1>5, <1>6, <1>7 DEF Call

LEMMA ThreadKeepsWatch ==
    ASSUME WInv, NEW k \in Clicks, Thread(k) \/ NeverEnds(k), IInv'
    PROVE  WInv'
<1> USE DEF WInv, IInv, TypeOK, pageVars, bridgeVars, threadVars, Known, Alone, Timed, Idle,
            Running, Sending
<1>1. CASE Run(k)
  BY <1>1 DEF Run
<1>2. CASE Finally(k)
  BY <1>2 DEF Finally
<1>3. CASE Dies(k)
  BY <1>3 DEF Dies
<1>4. CASE NeverEnds(k)
  BY <1>4 DEF NeverEnds
<1>. QED  BY <1>1, <1>2, <1>3, <1>4 DEF Thread

LEMMA PollKeepsWatch ==
    ASSUME WInv, NEW q \in Polls, Tick(q) \/ ReplayPoll(q) \/ PollReplay(q), IInv'
    PROVE  WInv'
<1> USE DEF WInv, IInv, TypeOK, pageVars, bridgeVars, threadVars
<1>1. CASE Tick(q)
  BY <1>1 DEF Tick, Known, Alone, Timed, Idle, Running, Sending
<1>2. CASE ReplayPoll(q)
  <2>1. Known' /\ (~overlapped' => Alone')
    BY <1>2 DEF ReplayPoll, Known, Alone, Idle
  <2>2. ASSUME ~overlapped', ~misled' PROVE Timed'
    <3>1. \A k \in Clicks : Running(k) => replayer # 0 /\ ~replayDone
      BY <1>2, <2>2 DEF ReplayPoll, Ordered, Clicks
    <3>. QED  BY <1>2, <2>2, <3>1 DEF ReplayPoll, Timed, Running, Sending
  <2>. QED  BY <2>1, <2>2
<1>3. CASE PollReplay(q)
  <2>1. Known' /\ (~overlapped' => Alone')
    BY <1>3 DEF PollReplay, Known, Alone, Idle
  <2>2. ASSUME ~overlapped', ~misled' PROVE Timed'
    <3>1. ~overlapped /\ ~misled /\ (poll[q].state = "done" => poll[q].of = rTimer)
      BY <1>3, <2>2 DEF PollReplay
    <3>2. CASE poll[q].state = "done"
      <4>1. \A k \in Clicks : ~(Running(k) /\ call[k] = "over")
        BY <3>1, <3>2 DEF Timed
      <4>. QED  BY <1>3, <4>1 DEF PollReplay, Timed, Running, Sending
    <3>3. CASE poll[q].state # "done"
      BY <1>3, <3>1, <3>3 DEF PollReplay, Timed, Running, Sending
    <3>. QED  BY <3>2, <3>3
  <2>. QED  BY <2>1, <2>2
<1>. QED  BY <1>1, <1>2, <1>3

\* A replay that runs is watched: unless calls overlapped, or an answer to a poll
\* from before its timer arrived after that was set (index.html:141-153), the
\* button is disabled and the page's timer is live, for any number of clicks and
\* polls under way.
THEOREM ReplayWatched == Spec => []RunningIsWatched
<1>1. Init => WInv
  <2> SUFFICES ASSUME Init PROVE Known /\ Alone /\ Timed
    BY InitInv DEF WInv
  <2>1. \A k \in Clicks : call[k] = "none" /\ thread[k] = "none"
    BY DEF Init
  <2>2. rTimer = 0 /\ \A q \in Polls : poll[q].of = 0
    BY DEF Init
  <2>. QED  BY <2>1, <2>2 DEF Known, Alone, Timed, Idle, Running, Sending
<1>2. WInv /\ [Next]_vars => WInv'
  <2> SUFFICES ASSUME WInv, [Next]_vars PROVE WInv'
    OBVIOUS
  <2>1. IInv'
    BY Preserved DEF WInv
  <2>2. CASE Next
    BY <2>1, <2>2, CallKeepsWatch, ThreadKeepsWatch, PollKeepsWatch DEF Next
  <2>3. CASE UNCHANGED vars
    BY <2>1, <2>3 DEF vars, pageVars, bridgeVars, threadVars, WInv, Known, Alone, Timed,
                      Idle, Running, Sending
  <2>. QED  BY <2>2, <2>3
<1>3. WInv => RunningIsWatched
  <2> SUFFICES ASSUME WInv PROVE RunningIsWatched
    OBVIOUS
  <2>. QED  BY DEF WInv, Timed, RunningIsWatched
<1>. QED  BY <1>1, <1>2, <1>3, PTL DEF Spec
============================================================================
