------------------------ MODULE CaptureSessionProofs ------------------------
(***************************************************************************)
(* Proofs about CaptureSession, for any number of processes, threads and   *)
(* sessions, and whatever earlier processes have left in the table.        *)
(*                                                                         *)
(* A call is where its list of steps says it is.  The lists that occur are *)
(* few (Lists); the invariants say for each of them what the table, the    *)
(* session and its relay are like there.                                   *)
(***************************************************************************)
EXTENDS CaptureSession, SequenceTheorems, TLAPS

----------------------------------------------------------------------------
(* The lists of steps.                                                      *)

\* Where a start is; where apply is, and where it takes back what it has added; where
\* a stop is, of a start that fails or of a session.
lCheck  == <<"check", "create", "enter", "relay", "probe">>
lCreate == <<"create", "enter", "relay", "probe">>
lEnter  == <<"enter", "relay", "probe">>
lRelay  == <<"relay", "probe">>
lProbe  == <<"probe">>
lApply  == <<"apply">>
aDelete == <<"-D_OUTPUT", "-F", "-X", "-N", "-A", "-A_OUTPUT", "mode">>
aFlush  == <<"-F", "-X", "-N", "-A", "-A_OUTPUT", "mode">>
aDrop   == <<"-X", "-N", "-A", "-A_OUTPUT", "mode">>
aNew    == <<"-N", "-A", "-A_OUTPUT", "mode">>
aRule   == <<"-A", "-A_OUTPUT", "mode">>
aJump   == <<"-A_OUTPUT", "mode">>
aMode   == <<"mode">>
uDelete == <<"-D_OUTPUT", "-F", "-X", "raise">>
uFlush  == <<"-F", "-X", "raise">>
uDrop   == <<"-X", "raise">>
sRemove(last) == <<"remove", "halt", "stopped", last>>
sDelete(last) == <<"-D_OUTPUT", "-F", "-X", "halt", "stopped", last>>
sFlush(last) == <<"-F", "-X", "halt", "stopped", last>>
sDrop(last) == <<"-X", "halt", "stopped", last>>
sHalt(last) == <<"halt", "stopped", last>>
sStopped(last) == <<"stopped", last>>
sEnd(last) == <<last>>

Ends == {"raise", "forget"}

SetupLists == {lCheck, lCreate, lEnter, lRelay, lProbe, lApply}
ApplyLists == {aDelete, aFlush, aDrop, aNew, aRule, aJump, aMode}
UndoLists  == {uDelete, uFlush, uDrop}
StopLists  == UNION {{sRemove(last), sDelete(last), sFlush(last), sDrop(last), sHalt(last),
                      sStopped(last), sEnd(last)} : last \in Ends}

Lists == {<< >>} \cup SetupLists \cup ApplyLists \cup UndoLists \cup StopLists

\* Joined lists, by their elements.
LEMMA Joined ==
    ASSUME NEW S, NEW s \in Seq(S), NEW t \in Seq(S), NEW w \in Seq(S),
           Len(w) = Len(s) + Len(t),
           \A i \in 1..Len(s) : w[i] = s[i], \A i \in 1..Len(t) : w[Len(s) + i] = t[i]
    PROVE  w = s \o t
<1> DEFINE n == Len(s)
           m == Len(t)
           v == s \o t
<1>1. /\ v \in Seq(S) /\ Len(v) = n + m /\ n \in Nat /\ m \in Nat
      /\ \A i \in 1..(n + m) : v[i] = IF i <= n THEN s[i] ELSE t[i - n]
  BY ConcatProperties
<1>2. /\ Len(w) = n + m
      /\ \A i \in 1..n : w[i] = s[i]
      /\ \A i \in 1..m : w[n + i] = t[i]
  OBVIOUS
<1> HIDE DEF n, m, v
<1>3. ASSUME NEW i \in 1..(n + m) PROVE w[i] = v[i]
  <2>1. CASE i <= n
    BY <1>1, <1>2, <2>1
  <2>2. CASE ~(i <= n)
    <3>1. i - n \in 1..m /\ n + (i - n) = i
      BY <1>1, <2>2
    <3>. QED  BY <1>1, <1>2, <2>2, <3>1
  <2>. QED  BY <2>1, <2>2
<1>4. w = v
  BY <1>1, <1>2, <1>3, SeqEqual
<1>. QED  BY <1>4 DEF v

LEMMA JoinedFour ==
    ASSUME NEW a, NEW b, NEW c, NEW d
    PROVE  <<a, b, c>> \o <<d>> = <<a, b, c, d>>
<1> DEFINE s == <<a, b, c>>
           t == <<d>>
           w == <<a, b, c, d>>
           S == {a, b, c, d}
<1>1. s \in Seq(S) /\ t \in Seq(S) /\ w \in Seq(S)
  OBVIOUS
<1>2. Len(w) = Len(s) + Len(t)
  OBVIOUS
<1>3. \A i \in 1..Len(s) : w[i] = s[i]
  OBVIOUS
<1>4. \A i \in 1..Len(t) : w[Len(s) + i] = t[i]
  OBVIOUS
<1> HIDE DEF s, t, w, S
<1>5. w = s \o t
  BY <1>1, <1>2, <1>3, <1>4, Joined
<1>. QED  BY <1>5 DEF s, t, w

LEMMA JoinedFive ==
    ASSUME NEW a, NEW b, NEW c, NEW d, NEW e
    PROVE  <<a>> \o <<b, c, d, e>> = <<a, b, c, d, e>>
<1> DEFINE s == <<a>>
           t == <<b, c, d, e>>
           w == <<a, b, c, d, e>>
           S == {a, b, c, d, e}
<1>1. s \in Seq(S) /\ t \in Seq(S) /\ w \in Seq(S)
  OBVIOUS
<1>2. Len(w) = Len(s) + Len(t)
  OBVIOUS
<1>3. \A i \in 1..Len(s) : w[i] = s[i]
  OBVIOUS
<1>4. \A i \in 1..Len(t) : w[Len(s) + i] = t[i]
  OBVIOUS
<1> HIDE DEF s, t, w, S
<1>5. w = s \o t
  BY <1>1, <1>2, <1>3, <1>4, Joined
<1>. QED  BY <1>5 DEF s, t, w

LEMMA JoinedSix ==
    ASSUME NEW a, NEW b, NEW c, NEW d, NEW e, NEW f
    PROVE  <<a, b, c>> \o <<d, e, f>> = <<a, b, c, d, e, f>>
<1> DEFINE s == <<a, b, c>>
           t == <<d, e, f>>
           w == <<a, b, c, d, e, f>>
           S == {a, b, c, d, e, f}
<1>1. s \in Seq(S) /\ t \in Seq(S) /\ w \in Seq(S)
  OBVIOUS
<1>2. Len(w) = Len(s) + Len(t)
  OBVIOUS
<1>3. \A i \in 1..Len(s) : w[i] = s[i]
  OBVIOUS
<1>4. \A i \in 1..Len(t) : w[Len(s) + i] = t[i]
  OBVIOUS
<1> HIDE DEF s, t, w, S
<1>5. w = s \o t
  BY <1>1, <1>2, <1>3, <1>4, Joined
<1>. QED  BY <1>5 DEF s, t, w

LEMMA JoinedSeven ==
    ASSUME NEW a, NEW b, NEW c, NEW d, NEW e, NEW f, NEW g
    PROVE  <<a, b, c>> \o <<d, e, f, g>> = <<a, b, c, d, e, f, g>>
<1> DEFINE s == <<a, b, c>>
           t == <<d, e, f, g>>
           w == <<a, b, c, d, e, f, g>>
           S == {a, b, c, d, e, f, g}
<1>1. s \in Seq(S) /\ t \in Seq(S) /\ w \in Seq(S)
  OBVIOUS
<1>2. Len(w) = Len(s) + Len(t)
  OBVIOUS
<1>3. \A i \in 1..Len(s) : w[i] = s[i]
  OBVIOUS
<1>4. \A i \in 1..Len(t) : w[Len(s) + i] = t[i]
  OBVIOUS
<1> HIDE DEF s, t, w, S
<1>5. w = s \o t
  BY <1>1, <1>2, <1>3, <1>4, Joined
<1>. QED  BY <1>5 DEF s, t, w

\* The lists as the actions put them together.
LEMMA StopList ==
    ASSUME NEW last
    PROVE  SessionStop \o <<last>> =
               <<"remove", "halt", "stopped", last>>
  BY JoinedFour DEF SessionStop

LEMMA StopRemoveList ==
    ASSUME NEW last
    PROVE  RemoveCommands \o <<"halt", "stopped", last>> =
               <<"-D_OUTPUT", "-F", "-X", "halt", "stopped", last>>
<1> DEFINE a == "-D_OUTPUT"
           b == "-F"
           c == "-X"
           d == "halt"
           e == "stopped"
<1> HIDE DEF a, b, c, d, e
<1>1. <<a, b, c>> \o <<d, e, last>> = <<a, b, c, d, e, last>>
  BY JoinedSix
<1>. QED  BY <1>1 DEF RemoveCommands, a, b, c, d, e

LEMMA UndoList ==
    RemoveCommands \o <<"raise">> =
        <<"-D_OUTPUT", "-F", "-X", "raise">>
  BY JoinedFour DEF RemoveCommands

LEMMA AddList ==
    AddCommands \o <<"mode">> =
        <<"-N", "-A", "-A_OUTPUT", "mode">>
  BY JoinedFour DEF AddCommands

LEMMA RemoveAddList ==
    RemoveCommands \o <<"-N", "-A", "-A_OUTPUT", "mode">> =
        <<"-D_OUTPUT", "-F", "-X", "-N", "-A", "-A_OUTPUT", "mode">>
<1> DEFINE a == "-D_OUTPUT"
           b == "-F"
           c == "-X"
           d == "-N"
           e == "-A"
           f == "-A_OUTPUT"
           g == "mode"
<1> HIDE DEF a, b, c, d, e, f, g
<1>1. <<a, b, c>> \o <<d, e, f, g>> = <<a, b, c, d, e, f, g>>
  BY JoinedSeven
<1>. QED  BY <1>1 DEF RemoveCommands, a, b, c, d, e, f, g

LEMMA StartList ==
    <<"check">> \o <<"create", "enter", "relay", "probe">> =
        <<"check", "create", "enter", "relay", "probe">>
  BY JoinedFive

LEMMA ApplyList ==
    RemoveCommands \o AddCommands \o <<"mode">> =
        <<"-D_OUTPUT", "-F", "-X", "-N", "-A", "-A_OUTPUT", "mode">>
<1> DEFINE S == {"-D_OUTPUT", "-F", "-X", "-N", "-A", "-A_OUTPUT", "mode"}
<1>1. RemoveCommands \in Seq(S) /\ AddCommands \in Seq(S) /\ <<"mode">> \in Seq(S)
  BY DEF RemoveCommands, AddCommands
<1> HIDE DEF S
<1>2. RemoveCommands \o AddCommands \o <<"mode">> =
          RemoveCommands \o (AddCommands \o <<"mode">>)
  BY <1>1, ConcatAssociative
<1>. QED  BY <1>2, AddList, RemoveAddList

LEMMA StartListCli ==
    << >> \o <<"create", "enter", "relay", "probe">> = <<"create", "enter", "relay", "probe">>
<1> DEFINE S == {"create", "enter", "relay", "probe"}
<1>1. <<"create", "enter", "relay", "probe">> \in Seq(S)
  OBVIOUS
<1>. QED  BY <1>1, ConcatEmptySeq

\* Every list begins with a step that the others of its kind do not begin with.
LEMMA Heads ==
    /\ lCheck # << >> /\ Head(lCheck) = "check"
    /\ lCreate # << >> /\ Head(lCreate) = "create"
    /\ lEnter # << >> /\ Head(lEnter) = "enter"
    /\ lRelay # << >> /\ Head(lRelay) = "relay"
    /\ lProbe # << >> /\ Head(lProbe) = "probe"
    /\ lApply # << >> /\ Head(lApply) = "apply"
    /\ aDelete # << >> /\ Head(aDelete) = "-D_OUTPUT"
    /\ aFlush # << >> /\ Head(aFlush) = "-F"
    /\ aDrop # << >> /\ Head(aDrop) = "-X"
    /\ aNew # << >> /\ Head(aNew) = "-N"
    /\ aRule # << >> /\ Head(aRule) = "-A"
    /\ aJump # << >> /\ Head(aJump) = "-A_OUTPUT"
    /\ aMode # << >> /\ Head(aMode) = "mode"
    /\ uDelete # << >> /\ Head(uDelete) = "-D_OUTPUT"
    /\ uFlush # << >> /\ Head(uFlush) = "-F"
    /\ uDrop # << >> /\ Head(uDrop) = "-X"
    /\ \A last \in Ends :
          /\ sRemove(last) # << >> /\ Head(sRemove(last)) = "remove"
          /\ sDelete(last) # << >> /\ Head(sDelete(last)) = "-D_OUTPUT"
          /\ sFlush(last) # << >> /\ Head(sFlush(last)) = "-F"
          /\ sDrop(last) # << >> /\ Head(sDrop(last)) = "-X"
          /\ sHalt(last) # << >> /\ Head(sHalt(last)) = "halt"
          /\ sStopped(last) # << >> /\ Head(sStopped(last)) = "stopped"
          /\ sEnd(last) # << >> /\ Head(sEnd(last)) = last
  BY DEF lCheck, lCreate, lEnter, lRelay, lProbe, lApply, aDelete, aFlush, aDrop,
     aNew, aRule, aJump, aMode, uDelete, uFlush, uDrop,
     sRemove, sDelete, sFlush, sDrop, sHalt, sStopped, sEnd

LEMMA SetupTails ==
    /\ Tail(lCheck) = lCreate /\ Tail(lCreate) = lEnter /\ Tail(lEnter) = lRelay
    /\ Tail(lRelay) = lProbe /\ Tail(lProbe) = << >> /\ Tail(lApply) = << >>
  BY DEF lCheck, lCreate, lEnter, lRelay, lProbe, lApply

LEMMA ApplyTails ==
    /\ Tail(aDelete) = aFlush /\ Tail(aFlush) = aDrop /\ Tail(aDrop) = aNew
    /\ Tail(aNew) = aRule /\ Tail(aRule) = aJump /\ Tail(aJump) = aMode
    /\ Tail(aMode) = << >>
<1>1. Tail(aDelete) = aFlush /\ Tail(aFlush) = aDrop
  BY DEF aDelete, aFlush, aDrop
<1>2. Tail(aDrop) = aNew /\ Tail(aNew) = aRule
  BY DEF aDrop, aNew, aRule
<1>3. Tail(aRule) = aJump /\ Tail(aJump) = aMode /\ Tail(aMode) = << >>
  BY DEF aRule, aJump, aMode
<1>. QED  BY <1>1, <1>2, <1>3

LEMMA UndoTails ==
    /\ Tail(uDelete) = uFlush /\ Tail(uFlush) = uDrop /\ Tail(uDrop) = sEnd("raise")
  BY DEF uDelete, uFlush, uDrop, sEnd

LEMMA StopTails ==
    ASSUME NEW last
    PROVE  /\ Tail(sRemove(last)) = sHalt(last) /\ Tail(sDelete(last)) = sFlush(last)
           /\ Tail(sFlush(last)) = sDrop(last) /\ Tail(sDrop(last)) = sHalt(last)
           /\ Tail(sHalt(last)) = sStopped(last) /\ Tail(sStopped(last)) = sEnd(last)
           /\ Tail(sEnd(last)) = << >>
  BY DEF sRemove, sDelete, sFlush, sDrop, sHalt, sStopped, sEnd

LEMMA Places ==
    ASSUME NEW t \in Lists, t # << >>
    PROVE  /\ Head(t) = "check" => t = lCheck
           /\ Head(t) = "create" => t = lCreate
           /\ Head(t) = "enter" => t = lEnter
           /\ Head(t) = "relay" => t = lRelay
           /\ Head(t) = "probe" => t = lProbe
           /\ Head(t) = "apply" => t = lApply
           /\ Head(t) = "-D_OUTPUT" => t \in {aDelete, uDelete, sDelete("raise"), sDelete("forget")}
           /\ Head(t) = "-F" => t \in {aFlush, uFlush, sFlush("raise"), sFlush("forget")}
           /\ Head(t) = "-X" => t \in {aDrop, uDrop, sDrop("raise"), sDrop("forget")}
           /\ Head(t) = "-N" => t = aNew
           /\ Head(t) = "-A" => t = aRule
           /\ Head(t) = "-A_OUTPUT" => t = aJump
           /\ Head(t) = "mode" => t = aMode
           /\ Head(t) = "remove" => t \in {sRemove("raise"), sRemove("forget")}
           /\ Head(t) = "halt" => t \in {sHalt("raise"), sHalt("forget")}
           /\ Head(t) = "stopped" => t \in {sStopped("raise"), sStopped("forget")}
           /\ Head(t) = "raise" => t = sEnd("raise")
           /\ Head(t) = "forget" => t = sEnd("forget")
<1> USE Heads
<1>1. CASE t \in SetupLists
  BY <1>1 DEF SetupLists
<1>2. CASE t \in ApplyLists
  <2>1. CASE t = aDelete
    BY <2>1
  <2>2. CASE t \in {aFlush, aDrop, aNew}
    BY <2>2
  <2>3. CASE t \in {aRule, aJump, aMode}
    BY <2>3
  <2>. QED  BY <1>2, <2>1, <2>2, <2>3 DEF ApplyLists
<1>3. CASE t \in UndoLists
  BY <1>3 DEF UndoLists
<1>4. CASE t \in StopLists
  <2>1. PICK last \in Ends : t \in {sRemove(last), sDelete(last), sFlush(last), sDrop(last),
                                    sHalt(last), sStopped(last), sEnd(last)}
    BY <1>4 DEF StopLists
  <2>2. last = "raise" \/ last = "forget"
    BY DEF Ends
  <2>3. CASE last = "raise"
    BY <2>1, <2>3 DEF Ends
  <2>4. CASE last = "forget"
    BY <2>1, <2>4 DEF Ends
  <2>. QED  BY <2>2, <2>3, <2>4
<1>. QED  BY <1>1, <1>2, <1>3, <1>4 DEF Lists

LEMMA ListTypes == Lists \subseteq Seq(Steps)
<1> USE DEF Steps, Commands, Additions
<1>1. SetupLists \subseteq Seq(Steps)
  BY DEF SetupLists, lCheck, lCreate, lEnter, lRelay, lProbe, lApply
<1>2. ApplyLists \subseteq Seq(Steps)
  BY DEF ApplyLists, aDelete, aFlush, aDrop, aNew, aRule, aJump, aMode
<1>3. UndoLists \subseteq Seq(Steps)
  BY DEF UndoLists, uDelete, uFlush, uDrop
<1>4. ASSUME NEW last \in Steps, last \in Ends
      PROVE  {sRemove(last), sDelete(last), sFlush(last), sDrop(last), sHalt(last),
              sStopped(last), sEnd(last)} \subseteq Seq(Steps)
  <2>1. sRemove(last) \in Seq(Steps) /\ sHalt(last) \in Seq(Steps)
    BY <1>4 DEF sRemove, sHalt
  <2>2. sDelete(last) \in Seq(Steps)
    BY <1>4 DEF sDelete
  <2>3. sFlush(last) \in Seq(Steps) /\ sDrop(last) \in Seq(Steps)
    BY <1>4 DEF sFlush, sDrop
  <2>4. sStopped(last) \in Seq(Steps) /\ sEnd(last) \in Seq(Steps)
    BY <1>4 DEF sStopped, sEnd
  <2>. QED  BY <2>1, <2>2, <2>3, <2>4
<1>5. StopLists \subseteq Seq(Steps)
  BY <1>4 DEF StopLists, Ends
<1>6. << >> \in Seq(Steps)
  BY EmptySeq
<1>. QED  BY <1>1, <1>2, <1>3, <1>5, <1>6 DEF Lists

LEMMA TailsListed == \A t \in Lists : t # << >> => Tail(t) \in Lists
<1> SUFFICES ASSUME NEW t \in Lists, t # << >> PROVE Tail(t) \in Lists
  OBVIOUS
<1>1. CASE t \in SetupLists
  BY <1>1, SetupTails DEF SetupLists, Lists
<1>2. CASE t \in ApplyLists
  BY <1>2, ApplyTails DEF ApplyLists, Lists
<1>3. CASE t \in UndoLists
  <2>1. sEnd("raise") \in StopLists
    BY DEF StopLists, Ends
  <2>. QED  BY <1>3, <2>1, UndoTails DEF UndoLists, Lists
<1>4. CASE t \in StopLists
  BY <1>4, StopTails DEF StopLists, Lists
<1>. QED  BY <1>1, <1>2, <1>3, <1>4 DEF Lists

\* The lists that the actions begin with.
LEMMA Beginnings ==
    /\ <<"check">> \o <<"create", "enter", "relay", "probe">> = lCheck
    /\ << >> \o <<"create", "enter", "relay", "probe">> = lCreate
    /\ <<"apply">> = lApply
    /\ RemoveCommands \o AddCommands \o <<"mode">> = aDelete
    /\ RemoveCommands \o <<"raise">> = uDelete
    /\ <<"raise">> = sEnd("raise")
    /\ \A last : SessionStop \o <<last>> = sRemove(last)
    /\ \A last : RemoveCommands \o sHalt(last) = sDelete(last)
  BY StartList, StartListCli, ApplyList, UndoList, StopList, StopRemoveList
     DEF lCheck, lCreate, lApply, aDelete, uDelete, sEnd, sRemove, sHalt, sDelete

----------------------------------------------------------------------------
(* Type correctness.                                                        *)

CallType == [todo : Lists, own : 0..MaxSessions, self : 0..MaxSessions,
             target : 0..MaxSessions, met : Nat, lone : BOOLEAN]

\* A start has a session of its own before it starts a relay, and reads one before it
\* applies its redirector.
CallOK(k) ==
    /\ k.todo \in {lEnter, lRelay} => k.own # 0
    /\ k.todo \in {lRelay, lProbe, lApply} => k.self # 0

\* The chain that is not there is empty, and nothing jumps to it.
KernelOK ==
    /\ chain \in [there : BOOLEAN, to : Seq(0..MaxSessions)] /\ jumps \in Nat
    /\ ~chain.there => chain.to = << >> /\ jumps = 0

RestOK ==
    /\ proc \in [Calls -> Procs] /\ front \in [Procs -> {"ui", "cli"}]
    /\ creds \in BOOLEAN /\ made \in 0..MaxSessions
    /\ api \in [Procs -> 0..MaxSessions]
    /\ relay \in [Sessions -> {"none", "bound", "running", "stopped"}]
    /\ owns \in [Procs -> SUBSET Sessions]
    /\ session \in [Sessions -> [thread : 0..MaxSessions, redirector : 0..MaxSessions,
                     mode : {"idle", "relay_only", "intercepting", "stopped"}]]
    /\ causes \subseteq {"killed", "signalled", "expired", "shared", "early"}

TInv ==
    /\ RestOK
    /\ KernelOK
    /\ call \in [Calls -> CallType]
    /\ \A c \in Calls : CallOK(call[c])

LEMMA NoCallOK == NoCall \in CallType /\ CallOK(NoCall)
<1>1. << >> \in Lists
  BY DEF Lists
<1>2. << >> \notin {lEnter, lRelay, lProbe, lApply}
  BY Heads
<1>. QED  BY <1>1, <1>2, SessionAssumption DEF CallOK, CallType, NoCall

\* Where a call that runs is.
LEMMA GoingTo ==
    ASSUME NEW k, k \in CallType, NEW steps \in Lists
    PROVE  /\ steps = << >> => Going(k, steps) = NoCall
           /\ steps # << >> => Going(k, steps) = [k EXCEPT !.todo = steps]
           /\ Going(k, steps) \in CallType
           /\ Going(k, steps).todo = steps
<1>1. NoCall \in CallType
  BY NoCallOK
<1>2. NoCall.todo = << >>
  BY DEF NoCall
<1>. QED  BY <1>1, <1>2 DEF Going, CallType

\* A command succeeds, or it fails.
Done(c, k)  == creds /\ Possible(k) /\ Effect(k, call[c].target)
Fails(c, k) == (~creds \/ ~Possible(k) \/ LockTaken(c)) /\ UNCHANGED kernel
Runs(c, k)  == Done(c, k) \/ Fails(c, k)

\* The commands at their places in apply, in its undoing and in a stop.
From(c, t, u) == Todo(c) = t /\ Go(c, u)

LEMMA CommandPlaces ==
    ASSUME TInv, NEW c \in Calls, Command(c)
    PROVE  /\ UNCHANGED <<fixed, creds, made, api, relays, session, causes>>
           /\ \/ From(c, aDelete, aFlush) /\ Runs(c, "-D_OUTPUT")
              \/ From(c, aFlush, aDrop) /\ Runs(c, "-F")
              \/ From(c, aDrop, aNew) /\ Runs(c, "-X")
              \/ From(c, aNew, aRule) /\ Done(c, "-N")
              \/ From(c, aNew, uDelete) /\ Fails(c, "-N")
              \/ From(c, aRule, aJump) /\ Done(c, "-A")
              \/ From(c, aRule, uDelete) /\ Fails(c, "-A")
              \/ From(c, aJump, aMode) /\ Done(c, "-A_OUTPUT")
              \/ From(c, aJump, uDelete) /\ Fails(c, "-A_OUTPUT")
              \/ From(c, uDelete, uFlush) /\ Runs(c, "-D_OUTPUT")
              \/ From(c, uFlush, uDrop) /\ Runs(c, "-F")
              \/ From(c, uDrop, sEnd("raise")) /\ Runs(c, "-X")
              \/ \E last \in Ends :
                    \/ From(c, sDelete(last), sFlush(last)) /\ Runs(c, "-D_OUTPUT")
                    \/ From(c, sFlush(last), sDrop(last)) /\ Runs(c, "-F")
                    \/ From(c, sDrop(last), sHalt(last)) /\ Runs(c, "-X")
<1>1. PICK k \in Commands :
         /\ At(c, k)
         /\ \/ Done(c, k) /\ Proceed(c)
            \/ Fails(c, k) /\ AfterFailure(c, k)
         /\ UNCHANGED <<fixed, creds, made, api, relays, session, causes>>
  BY DEF Command, Done, Fails
<1> DEFINE t == Todo(c)
<1>2. t \in Lists /\ t # << >> /\ Head(t) = k
  BY <1>1 DEF TInv, CallType, At, Idle, Todo
<1>3. k \notin Additions => AfterFailure(c, k) = Proceed(c)
  BY DEF AfterFailure
<1>4. k \in Additions => AfterFailure(c, k) = Go(c, uDelete)
  BY Beginnings DEF AfterFailure
<1>5. Proceed(c) = Go(c, Tail(t))
  BY DEF Proceed
<1> HIDE DEF t
<1>6. CASE k = "-D_OUTPUT"
  <2>1. Runs(c, "-D_OUTPUT") /\ Go(c, Tail(t)) /\ Todo(c) = t
    BY <1>1, <1>3, <1>5, <1>6 DEF Runs, Additions, t
  <2>2. t \in {aDelete, uDelete, sDelete("raise"), sDelete("forget")}
    BY <1>2, <1>6, Places
  <2>3. CASE t = aDelete
    BY <1>1, <2>1, <2>3, ApplyTails DEF From
  <2>4. CASE t = uDelete
    BY <1>1, <2>1, <2>4, UndoTails DEF From
  <2>5. CASE t = sDelete("raise") \/ t = sDelete("forget")
    <3>1. PICK last \in Ends : t = sDelete(last)
      BY <2>5 DEF Ends
    <3>. QED  BY <1>1, <2>1, <3>1, StopTails DEF From
  <2>. QED  BY <2>2, <2>3, <2>4, <2>5
<1>7. CASE k = "-F"
  <2>1. Runs(c, "-F") /\ Go(c, Tail(t)) /\ Todo(c) = t
    BY <1>1, <1>3, <1>5, <1>7 DEF Runs, Additions, t
  <2>2. t \in {aFlush, uFlush, sFlush("raise"), sFlush("forget")}
    BY <1>2, <1>7, Places
  <2>3. CASE t = aFlush
    BY <1>1, <2>1, <2>3, ApplyTails DEF From
  <2>4. CASE t = uFlush
    BY <1>1, <2>1, <2>4, UndoTails DEF From
  <2>5. CASE t = sFlush("raise") \/ t = sFlush("forget")
    <3>1. PICK last \in Ends : t = sFlush(last)
      BY <2>5 DEF Ends
    <3>. QED  BY <1>1, <2>1, <3>1, StopTails DEF From
  <2>. QED  BY <2>2, <2>3, <2>4, <2>5
<1>8. CASE k = "-X"
  <2>1. Runs(c, "-X") /\ Go(c, Tail(t)) /\ Todo(c) = t
    BY <1>1, <1>3, <1>5, <1>8 DEF Runs, Additions, t
  <2>2. t \in {aDrop, uDrop, sDrop("raise"), sDrop("forget")}
    BY <1>2, <1>8, Places
  <2>3. CASE t = aDrop
    BY <1>1, <2>1, <2>3, ApplyTails DEF From
  <2>4. CASE t = uDrop
    BY <1>1, <2>1, <2>4, UndoTails DEF From
  <2>5. CASE t = sDrop("raise") \/ t = sDrop("forget")
    <3>1. PICK last \in Ends : t = sDrop(last)
      BY <2>5 DEF Ends
    <3>. QED  BY <1>1, <2>1, <3>1, StopTails DEF From
  <2>. QED  BY <2>2, <2>3, <2>4, <2>5
<1>9. CASE k \in Additions
  BY <1>1, <1>2, <1>4, <1>5, <1>9, Places, ApplyTails DEF From, Additions, t
<1>. QED  BY <1>1, <1>6, <1>7, <1>8, <1>9 DEF Commands

\* The other steps of a call at their places.
LEMMA StartPlaces ==
    ASSUME TInv, NEW c \in Calls
    PROVE  /\ Check(c) => /\ Todo(c) = lCheck
                          /\ Go(c, IF api[proc[c]] # 0 THEN << >> ELSE lCreate)
           /\ Create(c) => /\ Todo(c) = lCreate
                           /\ call' = [call EXCEPT ![c] =
                                 [call[c] EXCEPT !.todo = lEnter, !.own = made + 1]]
           /\ Enter(c) => /\ Todo(c) = lEnter
                          /\ call' = [call EXCEPT ![c] = [call[c] EXCEPT
                                !.todo = IF api[proc[c]] = 0 THEN sEnd("raise") ELSE lRelay,
                                !.self = api[proc[c]]]]
           /\ StartRelay(c) => /\ Todo(c) = lRelay
                               /\ Go(c, << >>) \/ Go(c, lProbe) \/ Go(c, sEnd("raise"))
           /\ Probe(c) => /\ Todo(c) = lProbe
                          /\ Go(c, IF creds THEN lApply ELSE sRemove("raise"))
           /\ Apply(c) => Todo(c) = lApply /\ ApplySteps(c, aDelete)
           /\ SetMode(c) => From(c, aMode, << >>)
           /\ Raise(c) => Todo(c) = sEnd("raise")
<1>1. Todo(c) \in Lists /\ \A k : At(c, k) => Todo(c) # << >> /\ Head(Todo(c)) = k
  BY DEF TInv, CallType, At, Idle, Todo
<1>2. Check(c) => Todo(c) = lCheck /\ Go(c, IF api[proc[c]] # 0 THEN << >> ELSE lCreate)
  <2>1. Check(c) => Todo(c) = lCheck
    BY <1>1, Places DEF Check
  <2>. QED  BY <2>1, SetupTails DEF Check, Proceed
<1>3. call[c] \in CallType
  BY DEF TInv
<1>4. /\ \A steps \in Lists : steps # << >> => Going(call[c], steps) = [call[c] EXCEPT !.todo = steps]
      /\ {lEnter, lRelay, sEnd("raise")} \subseteq Lists
      /\ << >> \notin {lEnter, lRelay, sEnd("raise")}
  BY <1>3, GoingTo, Heads DEF Lists, SetupLists, StopLists, Ends
<1>5. ASSUME Create(c)
      PROVE  /\ Todo(c) = lCreate
             /\ call' = [call EXCEPT ![c] =
                             [call[c] EXCEPT !.todo = lEnter, !.own = made + 1]]
  <2>1. Todo(c) = lCreate
    BY <1>1, <1>5, Places DEF Create
  <2>2. call' = [call EXCEPT ![c] = [Going(call[c], lEnter) EXCEPT !.own = made + 1]]
    BY <1>5, <2>1, SetupTails DEF Create, TInv
  <2>. QED  BY <1>3, <1>4, <2>1, <2>2 DEF CallType
<1>6. ASSUME Enter(c)
      PROVE  /\ Todo(c) = lEnter
             /\ call' = [call EXCEPT ![c] = [call[c] EXCEPT
                   !.todo = IF api[proc[c]] = 0 THEN sEnd("raise") ELSE lRelay,
                   !.self = api[proc[c]]]]
  <2> DEFINE t == IF api[proc[c]] = 0 THEN sEnd("raise") ELSE lRelay
  <2>1. Todo(c) = lEnter
    BY <1>1, <1>6, Places DEF Enter
  <2>2. call' = [call EXCEPT ![c] = [Going(call[c], t) EXCEPT !.self = api[proc[c]]]]
    BY <1>6, <2>1, SetupTails, Beginnings DEF Enter, TInv
  <2>3. Going(call[c], t) = [call[c] EXCEPT !.todo = t]
    BY <1>4
  <2>4. [[call[c] EXCEPT !.todo = t] EXCEPT !.self = api[proc[c]]]
            = [call[c] EXCEPT !.todo = t, !.self = api[proc[c]]]
    BY <1>3 DEF CallType
  <2>. QED  BY <2>1, <2>2, <2>3, <2>4
<1>7. StartRelay(c) => /\ Todo(c) = lRelay
                       /\ Go(c, << >>) \/ Go(c, lProbe) \/ Go(c, sEnd("raise"))
  BY <1>1, Places, SetupTails, Beginnings DEF StartRelay, Proceed
<1>8. Probe(c) => Todo(c) = lProbe /\ Go(c, IF creds THEN lApply ELSE sRemove("raise"))
  BY <1>1, Places, Beginnings DEF Probe
<1>9. Apply(c) => Todo(c) = lApply /\ ApplySteps(c, aDelete)
  <2>1. Apply(c) => ApplySteps(c, aDelete)
    BY Beginnings DEF Apply
  <2>2. Apply(c) => At(c, "apply")
    BY DEF Apply, ApplySteps
  <2>. QED  BY <1>1, <2>1, <2>2, Places
<1>10. SetMode(c) => From(c, aMode, << >>)
  <2>1. SetMode(c) => Todo(c) = aMode
    BY <1>1, Places DEF SetMode, ModeBecomes
  <2>. QED  BY <2>1, ApplyTails DEF SetMode, ModeBecomes, Proceed, From
<1>11. Raise(c) => Todo(c) = sEnd("raise")
  BY <1>1, Places DEF Raise
<1>. QED  BY <1>2, <1>5, <1>6, <1>7, <1>8, <1>9, <1>10, <1>11

LEMMA StopPlaces ==
    ASSUME TInv, NEW c \in Calls
    PROVE  /\ Remove(c) => \E last \in Ends :
                 /\ Todo(c) = sRemove(last)
                 /\ Go(c, IF session[Self(c)].redirector # 0 THEN sDelete(last) ELSE sHalt(last))
           /\ Halt(c) => \E last \in Ends : From(c, sHalt(last), sStopped(last))
           /\ Stopped(c) => \E last \in Ends : From(c, sStopped(last), sEnd(last))
           /\ Forget(c) => Todo(c) = sEnd("forget")
<1>1. Todo(c) \in Lists /\ \A k : At(c, k) => Todo(c) # << >> /\ Head(Todo(c)) = k
  BY DEF TInv, CallType, At, Idle, Todo
<1>2. ASSUME Remove(c)
      PROVE  \E last \in Ends :
                /\ Todo(c) = sRemove(last)
                /\ Go(c, IF session[Self(c)].redirector # 0 THEN sDelete(last) ELSE sHalt(last))
  <2>1. PICK last \in Ends : Todo(c) = sRemove(last)
    BY <1>1, <1>2, Places DEF Remove, Ends
  <2>2. Tail(Todo(c)) = sHalt(last) /\ RemoveCommands \o sHalt(last) = sDelete(last)
    BY <2>1, StopTails, Beginnings
  <2>. QED  BY <1>2, <2>1, <2>2 DEF Remove
<1>3. Halt(c) => \E last \in Ends : From(c, sHalt(last), sStopped(last))
  <2>1. Halt(c) => \E last \in Ends : Todo(c) = sHalt(last)
    BY <1>1, Places DEF Halt, Ends
  <2>. QED  BY <2>1, StopTails DEF Halt, Proceed, From
<1>4. Stopped(c) => \E last \in Ends : From(c, sStopped(last), sEnd(last))
  <2>1. Stopped(c) => \E last \in Ends : Todo(c) = sStopped(last)
    BY <1>1, Places DEF Stopped, ModeBecomes, Ends
  <2>. QED  BY <2>1, StopTails DEF Stopped, ModeBecomes, Proceed, From
<1>5. Forget(c) => Todo(c) = sEnd("forget")
  BY <1>1, Places DEF Forget
<1>. QED  BY <1>2, <1>3, <1>4, <1>5

SessionType == [thread : 0..MaxSessions, redirector : 0..MaxSessions,
                mode : {"idle", "relay_only", "intercepting", "stopped"}]
Causes == {"killed", "signalled", "expired", "shared", "early"}

LEMMA ZeroSession == MaxSessions \in Nat /\ 0 \in 0..MaxSessions
  BY SessionAssumption

LEMMA CausedTyped ==
    ASSUME RestOK, NEW x \in Causes
    PROVE  Caused(x) \subseteq Causes
  BY DEF RestOK, Caused, Causes

LEMMA CollectTyped ==
    ASSUME RestOK, Collect
    PROVE  session' \in [Sessions -> SessionType]
<1>1. NewSession \in SessionType
  BY SessionAssumption DEF NewSession, SessionType
<1>. QED  BY <1>1 DEF Collect, RestOK, SessionType

\* One call changes.
LEMMA CallKept ==
    ASSUME TInv, NEW c \in Calls, NEW r \in CallType, CallOK(r),
           call' = [call EXCEPT ![c] = r]
    PROVE  call' \in [Calls -> CallType] /\ \A d \in Calls : CallOK(call'[d])
  BY DEF TInv

\* It goes on, but not to a place at which it has a session of its own.
LEMMA GoKept ==
    ASSUME TInv, NEW c \in Calls, NEW t \in Lists, Go(c, t), t \notin {lEnter, lRelay},
           t \in {lProbe, lApply} => Self(c) # 0
    PROVE  call' \in [Calls -> CallType] /\ \A d \in Calls : CallOK(call'[d])
<1> DEFINE r == Going(call[c], t)
<1>1. call[c] \in CallType
  BY DEF TInv
<1>2. r \in CallType /\ r.todo = t
  BY <1>1, GoingTo
<1>3. t # << >> => r.self = call[c].self
  BY <1>1, GoingTo DEF CallType
<1>4. CallOK(r)
  BY <1>2, <1>3, Heads DEF CallOK, Self
<1>5. call' = [call EXCEPT ![c] = r]
  BY DEF Go, TInv
<1> HIDE DEF r
<1>. QED  BY <1>2, <1>4, <1>5, CallKept

LEMMA BeginKept ==
    ASSUME TInv, NEW c \in Calls, NEW k \in CallType, CallOK(k), Begin(c, k)
    PROVE  call' \in [Calls -> CallType] /\ \A d \in Calls : CallOK(call'[d])
<1> SUFFICES ASSUME NEW d \in Calls PROVE call'[d] \in CallType /\ CallOK(call'[d])
  BY DEF Begin
<1>1. call[d] \in CallType /\ CallOK(call[d])
  BY DEF TInv
<1>2. PICK l \in BOOLEAN : call'[d] \in {[k EXCEPT !.lone = l], call[d],
                                         [call[d] EXCEPT !.lone = FALSE]}
  BY DEF Begin
<1>. QED  BY <1>1, <1>2 DEF CallType, CallOK

LEMMA DieKept ==
    ASSUME TInv, NEW p \in Procs, Die(p)
    PROVE  /\ call' \in [Calls -> CallType] /\ \A d \in Calls : CallOK(call'[d])
           /\ api' \in [Procs -> 0..MaxSessions]
           /\ relay' \in [Sessions -> {"none", "bound", "running", "stopped"}]
           /\ owns' \in [Procs -> SUBSET Sessions]
           /\ session' \in [Sessions -> SessionType]
<1>1. call' \in [Calls -> CallType] /\ \A d \in Calls : CallOK(call'[d])
  BY NoCallOK DEF Die, TInv
<1>2. api' \in [Procs -> 0..MaxSessions]
  <2>1. 0 \in 0..MaxSessions /\ api \in [Procs -> 0..MaxSessions]
    BY ZeroSession DEF TInv, RestOK
  <2>. QED  BY <2>1 DEF Die
<1>3. relay' \in [Sessions -> {"none", "bound", "running", "stopped"}]
  BY DEF Die, TInv, RestOK
<1>4. owns' \in [Procs -> SUBSET Sessions]
  BY DEF Die, TInv, RestOK
<1>5. session' \in [Sessions -> SessionType]
  BY CollectTyped DEF Die, TInv
<1>. QED  BY <1>1, <1>2, <1>3, <1>4, <1>5

LEMMA DropKept ==
    ASSUME TInv, NEW c \in Calls, Drop(c), Todo(c) \in {sEnd("raise"), sEnd("forget")}
    PROVE  /\ call' \in [Calls -> CallType] /\ \A d \in Calls : CallOK(call'[d])
           /\ api' \in [Procs -> 0..MaxSessions]
           /\ relay' \in [Sessions -> {"none", "bound", "running", "stopped"}]
           /\ owns' \in [Procs -> SUBSET Sessions]
           /\ session' \in [Sessions -> SessionType]
<1>1. CASE front[proc[c]] = "ui"
  <2>1. Go(c, << >>) /\ Collect /\ UNCHANGED relays
    BY <1>1, StopTails DEF Drop, Proceed
  <2>2. call' \in [Calls -> CallType] /\ \A d \in Calls : CallOK(call'[d])
    BY <2>1, GoKept, Heads DEF Lists
  <2>3. api' \in [Procs -> 0..MaxSessions]
    <3>1. 0 \in 0..MaxSessions /\ api \in [Procs -> 0..MaxSessions]
      BY ZeroSession DEF TInv, RestOK
    <3>. QED  BY <1>1, <3>1 DEF Drop
  <2>. QED  BY <2>1, <2>2, <2>3, CollectTyped DEF relays, TInv, RestOK
<1>2. CASE front[proc[c]] # "ui"
  <2>1. Die(proc[c]) /\ proc[c] \in Procs
    BY <1>2 DEF Drop, TInv, RestOK
  <2>. QED  BY <2>1, DieKept
<1>. QED  BY <1>1, <1>2

LEMMA TypeInit == Init => TInv
<1> SUFFICES ASSUME Init PROVE TInv
  OBVIOUS
<1>1. RestOK
  <2>1. NewSession \in SessionType
    BY ZeroSession DEF NewSession, SessionType
  <2>2. session \in [Sessions -> SessionType] /\ api \in [Procs -> 0..MaxSessions]
    BY <2>1, ZeroSession DEF Init
  <2>3. creds \in BOOLEAN /\ made \in 0..MaxSessions
    BY ZeroSession DEF Init
  <2>. QED  BY <2>2, <2>3 DEF Init, RestOK, SessionType
<1>2. KernelOK
  <2>1. PICK n \in 0..MaxRules, k \in 0..MaxJumps :
           \/ chain = [there |-> TRUE, to |-> [i \in 1..n |-> 0]] /\ jumps = k
           \/ chain = [there |-> FALSE, to |-> << >>] /\ jumps = 0
    BY DEF Init
  <2>2. n \in Nat /\ k \in Nat
    BY SessionAssumption
  <2>3. [i \in 1..n |-> 0] \in Seq(0..MaxSessions)
    BY <2>2, ZeroSession, IsASeq
  <2>4. << >> \in Seq(0..MaxSessions)
    BY EmptySeq
  <2>5. CASE chain = [there |-> TRUE, to |-> [i \in 1..n |-> 0]] /\ jumps = k
    BY <2>2, <2>3, <2>5 DEF KernelOK
  <2>6. CASE chain = [there |-> FALSE, to |-> << >>] /\ jumps = 0
    BY <2>4, <2>6 DEF KernelOK
  <2>. QED  BY <2>1, <2>5, <2>6
<1>3. call \in [Calls -> CallType] /\ \A c \in Calls : CallOK(call[c])
  BY NoCallOK DEF Init
<1>. QED  BY <1>1, <1>2, <1>3 DEF TInv

\* What a command does to the table.
LEMMA KernelKept ==
    ASSUME TInv, NEW c \in Calls, NEW k \in Commands, Runs(c, k)
    PROVE  KernelOK'
<1>1. KernelOK /\ call[c].target \in 0..MaxSessions
  BY DEF TInv, CallType
<1>2. CASE Done(c, k)
  <2>1. CASE k = "-D_OUTPUT"
    BY <1>1, <1>2, <2>1 DEF KernelOK, Done, Possible, Effect
  <2>2. CASE k = "-F"
    <3>1. chain' = [chain EXCEPT !.to = << >>] /\ jumps' = jumps /\ chain.there
      BY <1>2, <2>2 DEF Done, Possible, Effect
    <3>2. << >> \in Seq(0..MaxSessions)
      BY EmptySeq
    <3>. QED  BY <1>1, <3>1, <3>2 DEF KernelOK
  <2>3. CASE k = "-X"
    BY <1>1, <1>2, <2>3 DEF KernelOK, Done, Possible, Effect
  <2>4. CASE k = "-N"
    BY <1>1, <1>2, <2>4 DEF KernelOK, Done, Possible, Effect
  <2>5. CASE k = "-A"
    <3>1. chain' = [chain EXCEPT !.to = Append(chain.to, call[c].target)] /\ jumps' = jumps
      BY <1>2, <2>5 DEF Done, Effect
    <3>2. chain.there
      BY <1>2, <2>5 DEF Done, Possible
    <3>3. Append(chain.to, call[c].target) \in Seq(0..MaxSessions)
      BY <1>1, AppendProperties DEF KernelOK
    <3>4. chain'.there = TRUE /\ chain' \in [there : BOOLEAN, to : Seq(0..MaxSessions)]
      BY <1>1, <3>1, <3>2, <3>3 DEF KernelOK
    <3>. QED  BY <1>1, <3>1, <3>4 DEF KernelOK
  <2>6. CASE k = "-A_OUTPUT"
    BY <1>1, <1>2, <2>6 DEF KernelOK, Done, Possible, Effect
  <2>. QED  BY <2>1, <2>2, <2>3, <2>4, <2>5, <2>6 DEF Commands, Additions
<1>3. CASE Fails(c, k)
  BY <1>1, <1>3 DEF Fails, kernel, KernelOK
<1>. QED  BY <1>2, <1>3 DEF Runs

LEMMA TypeStep == TInv /\ [Next]_vars => TInv'
<1> SUFFICES ASSUME TInv, [Next]_vars PROVE TInv'
  OBVIOUS
<1> DEFINE CallsOK == call' \in [Calls -> CallType] /\ \A d \in Calls : CallOK(call'[d])
<1>1. /\ RestOK /\ KernelOK
      /\ call \in [Calls -> CallType] /\ \A d \in Calls : CallOK(call[d])
  BY DEF TInv
<1>2. UNCHANGED kernel => KernelOK'
  BY <1>1 DEF kernel, KernelOK
<1>3. SUFFICES RestOK' /\ KernelOK' /\ CallsOK
  BY DEF TInv
<1>4. ASSUME NEW c \in Calls, CallStart(c) PROVE RestOK' /\ KernelOK' /\ CallsOK
  <2> DEFINE t == IF front[proc[c]] = "ui" THEN lCheck ELSE lCreate
             k == [NoCall EXCEPT !.todo = t]
  <2>1. Begin(c, k)
    BY <1>4, Beginnings DEF CallStart
  <2>2. k \in CallType /\ CallOK(k)
    <3>1. t \in Lists /\ t \notin {lEnter, lRelay, lProbe, lApply}
      BY Heads DEF Lists, SetupLists
    <3>. QED  BY <3>1, NoCallOK DEF CallOK, CallType
  <2> HIDE DEF k
  <2>3. CallsOK
    BY <2>1, <2>2, BeginKept
  <2>4. causes' \subseteq Causes
    BY <1>1, <2>1, CausedTyped DEF Begin, RestOK, Causes
  <2>5. RestOK'
    BY <1>1, <1>4, <2>4 DEF CallStart, RestOK, fixed, relays, Causes
  <2>. QED  BY <1>2, <1>4, <2>3, <2>5 DEF CallStart
<1>5. ASSUME NEW c \in Calls, CallStop(c) PROVE RestOK' /\ KernelOK' /\ CallsOK
  <2> DEFINE k == [NoCall EXCEPT !.todo = sRemove("forget"), !.self = api[proc[c]]]
  <2>1. Begin(c, k)
    BY <1>5, Beginnings DEF CallStop
  <2>2. k \in CallType /\ CallOK(k)
    <3>1. sRemove("forget") \in Lists /\ sRemove("forget") \notin {lEnter, lRelay, lProbe, lApply}
      BY Heads DEF Lists, StopLists, Ends
    <3>2. api[proc[c]] \in 0..MaxSessions
      BY <1>1 DEF RestOK
    <3>. QED  BY <3>1, <3>2, NoCallOK DEF CallOK, CallType
  <2> HIDE DEF k
  <2>3. CallsOK
    BY <2>1, <2>2, BeginKept
  <2>4. causes' \subseteq Causes
    BY <1>1, <2>1, CausedTyped DEF Begin, RestOK, Causes
  <2>5. RestOK'
    BY <1>1, <1>5, <2>4 DEF CallStop, RestOK, fixed, relays, Causes
  <2>. QED  BY <1>2, <1>5, <2>3, <2>5 DEF CallStop
<1>6. ASSUME NEW c \in Calls, Check(c) PROVE RestOK' /\ KernelOK' /\ CallsOK
  <2>1. PICK t \in {<< >>, lCreate} : Go(c, t)
    BY <1>6, StartPlaces
  <2>2. CallsOK
    BY <2>1, GoKept, Heads DEF Lists, SetupLists
  <2>3. RestOK'
    BY <1>1, <1>6 DEF Check, RestOK, fixed, relays
  <2>. QED  BY <1>2, <1>6, <2>2, <2>3 DEF Check
<1>7. ASSUME NEW c \in Calls, Create(c) PROVE RestOK' /\ KernelOK' /\ CallsOK
  <2> DEFINE r == [call[c] EXCEPT !.todo = lEnter, !.own = made + 1]
  <2>1. made + 1 \in 0..MaxSessions /\ made + 1 # 0 /\ made + 1 \in Sessions
    <3>1. made \in 0..MaxSessions /\ made < MaxSessions
      BY <1>1, <1>7 DEF Create, RestOK
    <3>. QED  BY <3>1, ZeroSession DEF Sessions
  <2>2. r \in CallType /\ CallOK(r)
    BY <1>1, <2>1, Heads DEF CallType, CallOK, Lists, SetupLists
  <2>3. call' = [call EXCEPT ![c] = r]
    BY <1>7, StartPlaces
  <2> HIDE DEF r
  <2>4. CallsOK
    BY <2>2, <2>3, CallKept
  <2>5. api' \in [Procs -> 0..MaxSessions] /\ made' \in 0..MaxSessions
    BY <1>1, <1>7, <2>1 DEF Create, RestOK
  <2>6. RestOK'
    BY <1>1, <1>7, <2>5 DEF Create, RestOK, fixed, relays
  <2>. QED  BY <1>2, <1>7, <2>4, <2>6 DEF Create
<1>8. ASSUME NEW c \in Calls, Enter(c) PROVE RestOK' /\ KernelOK' /\ CallsOK
  <2> DEFINE t == IF api[proc[c]] = 0 THEN sEnd("raise") ELSE lRelay
             r == [call[c] EXCEPT !.todo = t, !.self = api[proc[c]]]
  <2>1. Todo(c) = lEnter /\ call' = [call EXCEPT ![c] = r]
    BY <1>8, StartPlaces
  <2>2. api[proc[c]] \in 0..MaxSessions
    BY <1>1 DEF RestOK
  <2>3. call[c].own # 0
    BY <1>1, <2>1 DEF CallOK, Todo
  <2>4. t \in Lists /\ (t = sEnd("raise") => t \notin {lRelay, lEnter, lProbe, lApply})
    BY Heads DEF Lists, SetupLists, StopLists, Ends
  <2>5. t = sEnd("raise") \/ api[proc[c]] # 0
    OBVIOUS
  <2>6. r \in CallType /\ CallOK(r)
    BY <1>1, <2>2, <2>3, <2>4, <2>5 DEF CallType, CallOK
  <2> HIDE DEF r
  <2>7. CallsOK
    BY <2>1, <2>6, CallKept
  <2>8. RestOK'
    BY <1>1, <1>8 DEF Enter, RestOK, fixed, relays
  <2>. QED  BY <1>2, <1>8, <2>7, <2>8 DEF Enter
<1>9. ASSUME NEW c \in Calls, StartRelay(c) PROVE RestOK' /\ KernelOK' /\ CallsOK
  <2>1. Todo(c) = lRelay /\ call[c].own \in Sessions /\ Self(c) \in Sessions /\ Self(c) # 0
    <3>1. Todo(c) = lRelay
      BY <1>9, StartPlaces
    <3>2. call[c].own # 0 /\ Self(c) # 0 /\ call[c].own \in 0..MaxSessions
          /\ Self(c) \in 0..MaxSessions
      BY <1>1, <3>1 DEF CallOK, CallType, Todo, Self
    <3>. QED  BY <3>1, <3>2, ZeroSession DEF Sessions
  <2>2. PICK t \in {<< >>, lProbe, sEnd("raise")} : Go(c, t)
    BY <1>9, StartPlaces
  <2>3. CallsOK
    BY <2>1, <2>2, GoKept, Heads DEF Lists, SetupLists, StopLists, Ends
  <2>4. /\ relay' \in [Sessions -> {"none", "bound", "running", "stopped"}]
        /\ owns' \in [Procs -> SUBSET Sessions]
    <3>1. /\ \/ relay' = [relay EXCEPT ![call[c].own] = "bound"]
             \/ relay' = relay
          /\ \/ owns' = [owns EXCEPT ![proc[c]] = owns[proc[c]] \cup {call[c].own}]
             \/ owns' = owns
      BY <1>9 DEF StartRelay, relays
    <3>2. relay' \in [Sessions -> {"none", "bound", "running", "stopped"}]
      BY <1>1, <3>1 DEF RestOK
    <3>3. owns' \in [Procs -> SUBSET Sessions]
      <4>1. owns[proc[c]] \cup {call[c].own} \in SUBSET Sessions
        BY <1>1, <2>1 DEF RestOK
      <4>. QED  BY <1>1, <3>1, <4>1 DEF RestOK
    <3>. QED  BY <3>2, <3>3
  <2>5. session' \in [Sessions -> SessionType]
    <3>1. call[c].own \in 0..MaxSessions /\ session \in [Sessions -> SessionType]
      BY <1>1 DEF CallType, RestOK, SessionType
    <3>2. \/ session' = session
          \/ session' = [session EXCEPT ![Self(c)].thread = call[c].own]
          \/ session' = [session EXCEPT ![Self(c)].thread = call[c].own,
                                         ![Self(c)].mode = "relay_only"]
      BY <1>9 DEF StartRelay
    <3>3. [session EXCEPT ![Self(c)].thread = call[c].own] \in [Sessions -> SessionType]
      BY <2>1, <3>1 DEF SessionType
    <3>4. [session EXCEPT ![Self(c)].thread = call[c].own,
                          ![Self(c)].mode = "relay_only"] \in [Sessions -> SessionType]
      BY <2>1, <3>1 DEF SessionType
    <3>. QED  BY <3>1, <3>2, <3>3, <3>4
  <2>6. RestOK'
    BY <1>1, <1>9, <2>4, <2>5 DEF StartRelay, RestOK, fixed, SessionType
  <2>. QED  BY <1>2, <1>9, <2>3, <2>6 DEF StartRelay
<1>10. ASSUME NEW n \in Sessions, LoopRuns(n) PROVE RestOK' /\ KernelOK' /\ CallsOK
  <2>1. RestOK'
    BY <1>1, <1>10 DEF LoopRuns, RestOK, fixed
  <2>. QED  BY <1>1, <1>2, <1>10, <2>1 DEF LoopRuns
<1>11. ASSUME NEW c \in Calls, Probe(c) PROVE RestOK' /\ KernelOK' /\ CallsOK
  <2> DEFINE t == IF creds THEN lApply ELSE sRemove("raise")
  <2>1. Todo(c) = lProbe /\ Go(c, t)
    BY <1>11, StartPlaces
  <2>2. Self(c) \in Sessions
    <3>1. Self(c) \in 0..MaxSessions /\ Self(c) # 0
      BY <1>1, <2>1 DEF CallOK, CallType, Todo, Self
    <3>. QED  BY <3>1, ZeroSession DEF Sessions
  <2>3. t \in Lists /\ t \notin {lEnter, lRelay}
    BY Heads DEF Lists, SetupLists, StopLists, Ends
  <2> HIDE DEF t
  <2>4. CallsOK
    <3>1. Self(c) # 0
      BY <2>2, ZeroSession DEF Sessions
    <3>. QED  BY <2>1, <2>3, <3>1, GoKept
  <2>5. session' \in [Sessions -> SessionType]
    <3>1. session' = [session EXCEPT ![Self(c)].redirector = session[Self(c)].thread]
      BY <1>11 DEF Probe
    <3>2. session \in [Sessions -> SessionType]
      BY <1>1 DEF RestOK, SessionType
    <3>. QED  BY <2>2, <3>1, <3>2 DEF SessionType
  <2>6. RestOK'
    BY <1>1, <1>11, <2>5 DEF Probe, RestOK, fixed, relays, SessionType
  <2>. QED  BY <1>2, <1>11, <2>4, <2>6 DEF Probe
<1>12. ASSUME NEW c \in Calls, Apply(c) PROVE RestOK' /\ KernelOK' /\ CallsOK
  <2> DEFINE r == [call[c] EXCEPT !.todo = aDelete,
                      !.target = session[Self(c)].redirector, !.met = jumps]
  <2>1. Todo(c) = lApply /\ ApplySteps(c, aDelete)
    BY <1>12, StartPlaces
  <2>2. session[Self(c)].redirector \in 0..MaxSessions
    <3>1. Self(c) \in 0..MaxSessions /\ Self(c) # 0
      BY <1>1, <2>1 DEF CallOK, CallType, Todo, Self
    <3>2. Self(c) \in Sessions
      BY <3>1, ZeroSession DEF Sessions
    <3>. QED  BY <1>1, <3>2 DEF RestOK
  <2>3. r \in CallType /\ CallOK(r)
    <3>1. aDelete \in Lists /\ aDelete \notin {lEnter, lRelay, lProbe, lApply}
      BY Heads DEF Lists, ApplyLists
    <3>. QED  BY <1>1, <2>2, <3>1 DEF CallType, CallOK, KernelOK
  <2>4. call' = [call EXCEPT ![c] = r]
    BY <2>1 DEF ApplySteps
  <2> HIDE DEF r
  <2>5. CallsOK
    BY <2>3, <2>4, CallKept
  <2>6. RestOK'
    BY <1>1, <2>1 DEF ApplySteps, RestOK, fixed, relays
  <2>. QED  BY <1>2, <2>1, <2>5, <2>6 DEF ApplySteps
<1>13. ASSUME NEW c \in Calls, Command(c) PROVE RestOK' /\ KernelOK' /\ CallsOK
  <2>1. UNCHANGED <<fixed, creds, made, api, relays, session, causes>>
    BY <1>13, CommandPlaces
  <2>2. RestOK'
    BY <1>1, <2>1 DEF RestOK, fixed, relays
  <2>3. PICK k \in Commands : Runs(c, k)
    BY <1>13 DEF Command, Runs, Done, Fails
  <2>4. PICK t \in ApplyLists \cup UndoLists \cup StopLists : Go(c, t)
    BY <1>13, CommandPlaces DEF From, ApplyLists, UndoLists, StopLists, Ends
  <2>5. t \in Lists /\ t \notin {lEnter, lRelay, lProbe, lApply}
    BY Heads DEF Lists, ApplyLists, UndoLists, StopLists, Ends
  <2>. QED  BY <2>2, <2>3, <2>4, <2>5, KernelKept, GoKept
<1>14. ASSUME NEW c \in Calls, NEW m \in {"intercepting", "stopped"},
              NEW step, ModeBecomes(c, step, m)
       PROVE  RestOK' /\ KernelOK'
  <2>1. session' \in [Sessions -> SessionType]
    <3>1. session \in [Sessions -> SessionType]
      BY <1>1 DEF RestOK, SessionType
    <3>. QED  BY <1>14, <3>1 DEF ModeBecomes, SessionType
  <2>2. RestOK'
    BY <1>1, <1>14, <2>1 DEF ModeBecomes, RestOK, fixed, relays, SessionType
  <2>. QED  BY <1>2, <1>14, <2>2 DEF ModeBecomes
<1>15. ASSUME NEW c \in Calls, SetMode(c) PROVE RestOK' /\ KernelOK' /\ CallsOK
  <2>1. CallsOK
    BY <1>15, StartPlaces, GoKept, Heads DEF From, Lists
  <2>. QED  BY <1>14, <1>15, <2>1 DEF SetMode
<1>16. ASSUME NEW c \in Calls, Stopped(c) PROVE RestOK' /\ KernelOK' /\ CallsOK
  <2>1. PICK last \in Ends : Go(c, sEnd(last))
    BY <1>16, StopPlaces DEF From
  <2>2. sEnd(last) \in Lists /\ sEnd(last) \notin {lEnter, lRelay, lProbe, lApply}
    BY Heads DEF Lists, StopLists, Ends
  <2>3. CallsOK
    BY <2>1, <2>2, GoKept
  <2>. QED  BY <1>14, <1>16, <2>3 DEF Stopped
<1>17. ASSUME NEW c \in Calls, Raise(c) \/ Forget(c) PROVE RestOK' /\ KernelOK' /\ CallsOK
  <2>1. Drop(c) /\ Todo(c) \in {sEnd("raise"), sEnd("forget")}
    BY <1>17, StartPlaces, StopPlaces DEF Raise, Forget
  <2>2. UNCHANGED <<fixed, kernel, creds, made, causes>>
    BY <2>1 DEF Drop
  <2>3. /\ CallsOK /\ api' \in [Procs -> 0..MaxSessions]
        /\ relay' \in [Sessions -> {"none", "bound", "running", "stopped"}]
        /\ owns' \in [Procs -> SUBSET Sessions]
        /\ session' \in [Sessions -> SessionType]
    BY <2>1, DropKept
  <2>4. RestOK'
    BY <1>1, <2>2, <2>3 DEF RestOK, fixed, SessionType
  <2>. QED  BY <1>2, <2>2, <2>3, <2>4
<1>18. ASSUME NEW c \in Calls, Remove(c) PROVE RestOK' /\ KernelOK' /\ CallsOK
  <2>1. PICK last \in Ends :
           Go(c, IF session[Self(c)].redirector # 0 THEN sDelete(last) ELSE sHalt(last))
    BY <1>18, StopPlaces
  <2>2. /\ sDelete(last) \in Lists /\ sDelete(last) \notin {lEnter, lRelay, lProbe, lApply}
        /\ sHalt(last) \in Lists /\ sHalt(last) \notin {lEnter, lRelay, lProbe, lApply}
    BY Heads DEF Lists, StopLists, Ends
  <2>3. CallsOK
    BY <2>1, <2>2, GoKept
  <2>4. RestOK'
    BY <1>1, <1>18 DEF Remove, RestOK, fixed, relays
  <2>. QED  BY <1>2, <1>18, <2>3, <2>4 DEF Remove
<1>19. ASSUME NEW c \in Calls, Halt(c) PROVE RestOK' /\ KernelOK' /\ CallsOK
  <2>1. PICK last \in Ends : Go(c, sStopped(last))
    BY <1>19, StopPlaces DEF From
  <2>2. sStopped(last) \in Lists /\ sStopped(last) \notin {lEnter, lRelay, lProbe, lApply}
    BY Heads DEF Lists, StopLists, Ends
  <2>3. CallsOK
    BY <2>1, <2>2, GoKept
  <2>4. causes' \subseteq Causes
    BY <1>1, <1>19, CausedTyped DEF Halt, RestOK, Causes
  <2>5. relay' \in [Sessions -> {"none", "bound", "running", "stopped"}]
    BY <1>1, <1>19 DEF Halt, RestOK
  <2>6. RestOK'
    BY <1>1, <1>19, <2>4, <2>5 DEF Halt, RestOK, fixed, Causes
  <2>. QED  BY <1>2, <1>19, <2>3, <2>6 DEF Halt
<1>20. ASSUME NEW p \in Procs, Die(p), UNCHANGED <<fixed, kernel, creds, made>>,
              NEW x \in Causes, causes' = Caused(x)
       PROVE  RestOK' /\ KernelOK' /\ CallsOK
  <2>1. causes' \subseteq Causes
    BY <1>1, <1>20, CausedTyped
  <2>2. RestOK'
    BY <1>1, <1>20, <2>1, DieKept DEF RestOK, fixed, Causes, SessionType
  <2>. QED  BY <1>2, <1>20, <2>2, DieKept
<1>21. ASSUME NEW p \in Procs, Kill(p) PROVE RestOK' /\ KernelOK' /\ CallsOK
  BY <1>20, <1>21 DEF Kill, Causes
<1>22. ASSUME NEW p \in Procs, Signal(p) PROVE RestOK' /\ KernelOK' /\ CallsOK
  <2> DEFINE k == [NoCall EXCEPT !.todo = sRemove("forget"), !.self = api[p]]
  <2>1. PICK c \in Calls :
          \/ Begin(c, k) /\ UNCHANGED <<api, relays, session>>
          \/ Die(p) /\ causes' = Caused("signalled")
    BY <1>22, Beginnings DEF Signal
  <2>2. UNCHANGED <<fixed, kernel, creds, made>>
    BY <1>22 DEF Signal
  <2>3. CASE Begin(c, k) /\ UNCHANGED <<api, relays, session>>
    <3>1. k \in CallType /\ CallOK(k)
      <4>1. sRemove("forget") \in Lists /\ sRemove("forget") \notin {lEnter, lRelay, lProbe, lApply}
        BY Heads DEF Lists, StopLists, Ends
      <4>2. api[p] \in 0..MaxSessions
        BY <1>1 DEF RestOK
      <4>. QED  BY <4>1, <4>2, NoCallOK DEF CallOK, CallType
    <3> HIDE DEF k
    <3>2. CallsOK
      BY <2>3, <3>1, BeginKept
    <3>3. causes' \subseteq Causes
      BY <1>1, <2>3, CausedTyped DEF Begin, RestOK, Causes
    <3>4. RestOK'
      BY <1>1, <2>2, <2>3, <3>3 DEF RestOK, fixed, relays, Causes
    <3>. QED  BY <1>2, <2>2, <3>2, <3>4
  <2>4. CASE Die(p) /\ causes' = Caused("signalled")
    BY <1>20, <2>2, <2>4 DEF Causes
  <2>. QED  BY <2>1, <2>3, <2>4
<1>23. ASSUME SudoExpires PROVE RestOK' /\ KernelOK' /\ CallsOK
  <2>1. CallsOK
    <3>1. ASSUME NEW d \in Calls
          PROVE  [call[d] EXCEPT !.lone = FALSE] \in CallType
                 /\ CallOK([call[d] EXCEPT !.lone = FALSE])
      BY <1>1 DEF CallType, CallOK
    <3>. QED  BY <1>1, <1>23, <3>1 DEF SudoExpires
  <2>2. causes' \subseteq Causes
    BY <1>1, <1>23, CausedTyped DEF SudoExpires, Causes
  <2>3. RestOK'
    BY <1>1, <1>23, <2>2 DEF SudoExpires, RestOK, fixed, relays, Causes
  <2>. QED  BY <1>2, <1>23, <2>1, <2>3 DEF SudoExpires
<1>25. ASSUME SudoReturns PROVE RestOK' /\ KernelOK' /\ CallsOK
  BY <1>1, <1>25 DEF SudoReturns, RestOK, KernelOK, fixed, kernel, relays
<1>24. ASSUME UNCHANGED vars PROVE RestOK' /\ KernelOK' /\ CallsOK
  BY <1>1, <1>24 DEF vars, RestOK, KernelOK, fixed, kernel, relays
<1>. QED  BY <1>4, <1>5, <1>6, <1>7, <1>8, <1>9, <1>10, <1>11, <1>12, <1>13, <1>15, <1>16,
             <1>17, <1>18, <1>19, <1>21, <1>22, <1>23, <1>24, <1>25 DEF Next, StartStep, StopStep

LEMMA TInvHolds == Spec => []TInv
  BY TypeInit, TypeStep, PTL DEF Spec

\* Every variable keeps its type: however calls, signals and kills interleave, a start
\* that probes or applies reads the fields of a session that there is, and never
\* enters a relay 0.
THEOREM TypeCorrect == Spec => []TypeOK
<1>1. TInv => TypeOK
  <2> SUFFICES ASSUME TInv PROVE TypeOK
    OBVIOUS
  <2>1. call \in [Calls -> [todo : Seq(Steps), own : 0..MaxSessions,
                            self : 0..MaxSessions, target : 0..MaxSessions,
                            met : Nat, lone : BOOLEAN]]
    BY ListTypes DEF TInv, CallType
  <2>. QED  BY <2>1 DEF TInv, RestOK, KernelOK, TypeOK
<1>. QED  BY <1>1, TInvHolds, PTL

----------------------------------------------------------------------------
(* A call that runs alone with its rights: what apply does to the table.    *)

\* What a deletion leaves of the jumps.
Left(n) == IF n > 0 THEN n - 1 ELSE 0

EmptyChain(j) == [there |-> j > 0, to |-> << >>]

\* The chain and the jumps at each place of a lone call.  One that applies nothing has
\* no target.
Alone(k, cr, ch, j) ==
    /\ k.todo \in SetupLists => k.target = 0
    /\ k.todo \in StopLists => k.target = 0 \/ k.todo = sEnd("raise")
    /\ k.todo \in ApplyLists \cup UndoLists \cup {lApply} => cr
    /\ k.todo = aDelete => j = k.met
    /\ k.todo = aFlush => j = Left(k.met)
    /\ k.todo = aDrop => j = Left(k.met) /\ ch.to = << >>
    /\ k.todo = aNew => j = Left(k.met) /\ ch = EmptyChain(j)
    /\ k.todo = aRule => j = 0 /\ ch = [there |-> TRUE, to |-> << >>]
    /\ k.todo = aJump => j = 0 /\ ch = [there |-> TRUE, to |-> <<k.target>>]
    /\ k.todo = aMode => j = 1 /\ ch = [there |-> TRUE, to |-> <<k.target>>]
    /\ k.todo = uDelete => j = Left(k.met) /\ j > 0 /\ ch = EmptyChain(j)
    /\ k.todo \in {uFlush, uDrop} =>
          j = Left(Left(k.met)) /\ ch = [there |-> TRUE, to |-> << >>]
    /\ k.todo = sEnd("raise") /\ k.target # 0 => j = Left(Left(k.met)) /\ ch = EmptyChain(j)

\* While it runs no other call does.
LoneOf(c) == call[c].lone /\ call[c].todo # << >> =>
                /\ \A d \in Calls \ {c} : call[d].todo = << >>
                /\ Alone(call[c], creds, chain, jumps)

LoneInv == TInv /\ \A c \in Calls : LoneOf(c)

LEMMA LoneInit == Init => LoneInv
<1> SUFFICES ASSUME Init PROVE LoneInv
  OBVIOUS
<1>1. \A c \in Calls : call[c].todo = << >>
  BY DEF Init, NoCall
<1>. QED  BY <1>1, TypeInit DEF LoneInv, LoneOf

\* A call begins.
LEMMA LoneBegin ==
    ASSUME LoneInv, NEW c \in Calls, NEW k \in CallType, Begin(c, k), k.target = 0,
           k.todo \notin ApplyLists \cup UndoLists \cup {lApply}, UNCHANGED <<kernel, creds>>
    PROVE  \A d \in Calls : LoneOf(d)'
<1> SUFFICES ASSUME NEW d \in Calls, call'[d].lone, call'[d].todo # << >>
             PROVE  /\ \A e \in Calls \ {d} : call'[e].todo = << >>
                    /\ Alone(call'[d], creds', chain', jumps')
  BY DEF LoneOf
<1>1. \A e \in Calls : call[e] \in CallType
  BY DEF LoneInv, TInv
<1>2. d = c
  BY <1>1 DEF Begin, Idle, Todo, CallType
<1>3. call'[d].todo = k.todo /\ call'[d].target = 0 /\ call'[d].lone = (\A e \in Calls : Idle(e))
  BY <1>2 DEF Begin, CallType
<1>4. \A e \in Calls \ {d} : call'[e].todo = << >>
  BY <1>2, <1>3 DEF Begin, Idle, Todo
<1>5. Alone(call'[d], creds', chain', jumps')
  <2>1. {aDelete, aFlush, aDrop, aNew, aRule, aJump, aMode} = ApplyLists
        /\ {uDelete, uFlush, uDrop} = UndoLists
    BY DEF ApplyLists, UndoLists
  <2>. QED  BY <1>3, <2>1 DEF Alone
<1>. QED  BY <1>4, <1>5

\* Calls end, or none of them changes.
LEMMA LoneEnd ==
    ASSUME LoneInv, UNCHANGED <<kernel, creds>>,
           \A d \in Calls : call'[d] = call[d] \/ call'[d] = NoCall
    PROVE  \A d \in Calls : LoneOf(d)'
<1>1. NoCall.todo = << >>
  BY DEF NoCall
<1>. QED  BY <1>1 DEF LoneInv, LoneOf, kernel

\* A call makes a step.
LEMMA LoneStepOf ==
    ASSUME LoneInv, NEW c \in Calls, call[c].todo # << >>, NEW r,
           call' = [call EXCEPT ![c] = r],
           call[c].lone /\ Alone(call[c], creds, chain, jumps) =>
              r = NoCall \/ Alone(r, creds', chain', jumps'),
           r = NoCall \/ r.lone = call[c].lone
    PROVE  \A d \in Calls : LoneOf(d)'
<1> SUFFICES ASSUME NEW d \in Calls, call'[d].lone, call'[d].todo # << >>
             PROVE  /\ \A e \in Calls \ {d} : call'[e].todo = << >>
                    /\ Alone(call'[d], creds', chain', jumps')
  BY DEF LoneOf
<1>1. /\ \A e \in Calls \ {c} : call'[e] = call[e]
      /\ call'[c] = r
  BY DEF LoneInv, TInv
<1>2. NoCall.todo = << >>
  BY DEF NoCall
<1>3. d = c
  BY <1>1, <1>2 DEF LoneInv, LoneOf
<1>. QED  BY <1>1, <1>2, <1>3 DEF LoneInv, LoneOf

\* No list is of two kinds.
LEMMA Apart ==
    /\ SetupLists \cap (ApplyLists \cup UndoLists \cup StopLists) = {}
    /\ ApplyLists \cap (UndoLists \cup StopLists) = {}
    /\ UndoLists \cap StopLists = {}
    /\ sEnd("raise") # sEnd("forget")
<1>1. ASSUME NEW t \in SetupLists, t \in ApplyLists \cup UndoLists PROVE FALSE
  BY <1>1, Heads DEF SetupLists, ApplyLists, UndoLists
<1>2. ASSUME NEW t \in SetupLists, t \in StopLists PROVE FALSE
  BY <1>2, Heads DEF SetupLists, StopLists, Ends
<1>3. aDelete # uDelete /\ aFlush # uFlush /\ aDrop # uDrop
  BY DEF aDelete, aFlush, aDrop, uDelete, uFlush, uDrop
<1>4. ASSUME NEW last \in Ends
      PROVE  /\ sDelete(last) # aDelete /\ sFlush(last) # aFlush /\ sDrop(last) # aDrop
             /\ sDelete(last) # uDelete /\ sFlush(last) # uFlush /\ sDrop(last) # uDrop
  BY DEF sDelete, sFlush, sDrop, aDelete, aFlush, aDrop, uDelete, uFlush, uDrop
<1>5. ASSUME NEW t \in ApplyLists, t \in UndoLists PROVE FALSE
  BY <1>3, <1>5, Heads DEF ApplyLists, UndoLists
<1>6. ASSUME NEW t \in ApplyLists, t \in StopLists PROVE FALSE
  BY <1>4, <1>6, Heads DEF ApplyLists, StopLists, Ends
<1>7. ASSUME NEW t \in UndoLists, t \in StopLists PROVE FALSE
  BY <1>4, <1>7, Heads DEF UndoLists, StopLists, Ends
<1>8. sEnd("raise") # sEnd("forget")
  BY DEF sEnd
<1>. QED  BY <1>1, <1>2, <1>5, <1>6, <1>7, <1>8

\* How a lone call gets to a place of each kind.
LEMMA AloneSetup ==
    ASSUME NEW k, NEW cr, NEW ch, NEW j, k.todo \in SetupLists, k.target = 0,
           k.todo = lApply => cr
    PROVE  Alone(k, cr, ch, j)
<1>1. k.todo \notin ApplyLists /\ k.todo \notin UndoLists /\ k.todo \notin StopLists
  BY Apart
<1>2. /\ {aDelete, aFlush, aDrop, aNew, aRule, aJump, aMode} \subseteq ApplyLists
      /\ {uDelete, uFlush, uDrop} \subseteq UndoLists
  BY DEF ApplyLists, UndoLists
<1>. QED  BY <1>1, <1>2 DEF Alone

LEMMA AloneStop ==
    ASSUME NEW k, NEW cr, NEW ch, NEW j, k.todo \in StopLists,
           \/ k.target = 0
           \/ k.todo = sEnd("raise") /\ j = Left(Left(k.met)) /\ ch = EmptyChain(j)
    PROVE  Alone(k, cr, ch, j)
<1>1. k.todo \notin ApplyLists /\ k.todo \notin UndoLists /\ k.todo \notin SetupLists
  BY Apart
<1>2. /\ {aDelete, aFlush, aDrop, aNew, aRule, aJump, aMode} \subseteq ApplyLists
      /\ {uDelete, uFlush, uDrop} \subseteq UndoLists /\ lApply \in SetupLists
  BY DEF ApplyLists, UndoLists, SetupLists
<1>. QED  BY <1>1, <1>2 DEF Alone

LEMMA AloneApply ==
    ASSUME NEW k, NEW cr, NEW ch, NEW j, cr,
           \/ k.todo = aDelete /\ j = k.met
           \/ k.todo = aFlush /\ j = Left(k.met)
           \/ k.todo = aDrop /\ j = Left(k.met) /\ ch.to = << >>
           \/ k.todo = aNew /\ j = Left(k.met) /\ ch = EmptyChain(j)
           \/ k.todo = aRule /\ j = 0 /\ ch = [there |-> TRUE, to |-> << >>]
           \/ k.todo = aJump /\ j = 0 /\ ch = [there |-> TRUE, to |-> <<k.target>>]
           \/ k.todo = aMode /\ j = 1 /\ ch = [there |-> TRUE, to |-> <<k.target>>]
    PROVE  Alone(k, cr, ch, j)
<1>1. k.todo \in ApplyLists
  BY DEF ApplyLists
<1>2. k.todo \notin SetupLists /\ k.todo \notin UndoLists /\ k.todo \notin StopLists
  BY <1>1, Apart
<1>3. {uDelete, uFlush, uDrop} \subseteq UndoLists /\ lApply \in SetupLists
      /\ sEnd("raise") \in StopLists
  BY DEF UndoLists, SetupLists, StopLists, Ends
<1>4. /\ aDelete \notin {aFlush, aDrop, aNew, aRule, aJump, aMode}
      /\ aFlush \notin {aDrop, aNew, aRule, aJump, aMode}
      /\ aDrop \notin {aNew, aRule, aJump, aMode}
      /\ aNew \notin {aRule, aJump, aMode}
      /\ aRule \notin {aJump, aMode} /\ aJump # aMode
  BY Heads
<1>5. /\ k.todo = aDelete => j = k.met
      /\ k.todo = aFlush => j = Left(k.met)
      /\ k.todo = aDrop => j = Left(k.met) /\ ch.to = << >>
      /\ k.todo = aNew => j = Left(k.met) /\ ch = EmptyChain(j)
      /\ k.todo = aRule => j = 0 /\ ch = [there |-> TRUE, to |-> << >>]
      /\ k.todo = aJump => j = 0 /\ ch = [there |-> TRUE, to |-> <<k.target>>]
      /\ k.todo = aMode => j = 1 /\ ch = [there |-> TRUE, to |-> <<k.target>>]
  BY <1>4
<1>. QED  BY <1>2, <1>3, <1>5, Zenon DEF Alone

LEMMA AloneUndo ==
    ASSUME NEW k, NEW cr, NEW ch, NEW j, cr,
           \/ k.todo = uDelete /\ j = Left(k.met) /\ j > 0 /\ ch = EmptyChain(j)
           \/ /\ k.todo \in {uFlush, uDrop} /\ j = Left(Left(k.met))
              /\ ch = [there |-> TRUE, to |-> << >>]
    PROVE  Alone(k, cr, ch, j)
<1>1. k.todo \in UndoLists
  BY DEF UndoLists
<1>2. k.todo \notin SetupLists /\ k.todo \notin ApplyLists /\ k.todo \notin StopLists
  BY <1>1, Apart
<1>3. /\ {aDelete, aFlush, aDrop, aNew, aRule, aJump, aMode} \subseteq ApplyLists
      /\ lApply \in SetupLists /\ sEnd("raise") \in StopLists
  BY DEF ApplyLists, SetupLists, StopLists, Ends
<1>4. uDelete \notin {uFlush, uDrop}
  BY Heads
<1>. QED  BY <1>2, <1>3, <1>4 DEF Alone

\* The lone call c goes on from its place to t.
LEMMA LoneGo ==
    ASSUME LoneInv, NEW c \in Calls, call[c].todo # << >>, NEW t \in Lists, Go(c, t),
           \A k \in CallType :
              /\ t # << >> /\ k = [call[c] EXCEPT !.todo = t] /\ call[c].lone
              /\ \A d \in Calls \ {c} : Idle(d)
              /\ Alone(call[c], creds, chain, jumps)
              => Alone(k, creds', chain', jumps')
    PROVE  \A d \in Calls : LoneOf(d)'
<1> DEFINE r == Going(call[c], t)
<1>1. call[c] \in CallType /\ call' = [call EXCEPT ![c] = r]
  BY DEF LoneInv, TInv, Go
<1>2. /\ r \in CallType
      /\ t = << >> => r = NoCall
      /\ t # << >> => r = [call[c] EXCEPT !.todo = t]
  BY <1>1, GoingTo
<1>3. call[c].lone => \A d \in Calls \ {c} : Idle(d)
  BY DEF LoneInv, LoneOf, Idle, Todo
<1>4. call[c].lone /\ Alone(call[c], creds, chain, jumps) =>
              r = NoCall \/ Alone(r, creds', chain', jumps')
  BY <1>1, <1>2, <1>3
<1>5. r = NoCall \/ r.lone = call[c].lone
  BY <1>1, <1>2 DEF CallType
<1> HIDE DEF r
<1>. QED  BY <1>1, <1>4, <1>5, LoneStepOf

\* An empty chain goes if nothing jumps to it.
LEMMA DropEmpty ==
    ASSUME KernelOK, NEW c \in Calls, creds, ~LockTaken(c), chain.to = << >>, Runs(c, "-X")
    PROVE  jumps' = jumps /\ chain' = EmptyChain(jumps')
<1>1. chain = [there |-> chain.there, to |-> << >>] /\ chain.there \in BOOLEAN /\ jumps \in Nat
  BY DEF KernelOK
<1>2. CASE chain.there /\ jumps = 0
  <2>1. jumps' = jumps /\ chain' = [chain EXCEPT !.there = FALSE]
    BY <1>2 DEF Runs, Done, Fails, Possible, Effect
  <2>2. chain' = [there |-> FALSE, to |-> << >>]
    BY <1>1, <2>1
  <2>3. (jumps > 0) = FALSE
    BY <1>2
  <2>4. EmptyChain(jumps) = [there |-> FALSE, to |-> << >>]
    BY <2>3, Zenon DEF EmptyChain
  <2>. QED  BY <2>1, <2>2, <2>4
<1>3. CASE ~(chain.there /\ jumps = 0)
  <2>1. jumps' = jumps /\ chain' = chain
    BY <1>3 DEF Runs, Done, Fails, Possible, kernel
  <2>2. chain.there = (jumps > 0)
    BY <1>1, <1>3 DEF KernelOK
  <2>3. chain = EmptyChain(jumps)
    <3>1. EmptyChain(jumps) = [there |-> chain.there, to |-> << >>]
      BY <2>2, Zenon DEF EmptyChain
    <3>. QED  BY <1>1, <3>1
  <2>. QED  BY <2>1, <2>3
<1>. QED  BY <1>2, <1>3

\* Every command of a lone call: what it finds makes it succeed or fail.
LEMMA LoneCommand ==
    ASSUME LoneInv, NEW c \in Calls, Command(c)
    PROVE  \A d \in Calls : LoneOf(d)'
<1>1. call[c] \in CallType /\ KernelOK /\ creds' = creds
  BY CommandPlaces DEF LoneInv, TInv
<1> DEFINE A == Alone(call[c], creds, chain, jumps)
           Others == \A d \in Calls \ {c} : Idle(d)
           Now(t) == [call[c] EXCEPT !.todo = t]
<1>2. \A t \in Lists : Now(t).todo = t /\ Now(t).target = call[c].target /\ Now(t).met = call[c].met
  BY <1>1 DEF CallType
<1>3. Others => ~LockTaken(c)
  BY DEF LockTaken, At
<1>4. call[c].met \in Nat /\ jumps \in Nat /\ call[c].target \in 0..MaxSessions
  BY <1>1 DEF CallType, KernelOK
<1>5. Todo(c) = call[c].todo /\ Todo(c) # << >>
  BY DEF Command, At, Idle, Todo
<1>6. ASSUME NEW t, NEW u \in Lists, From(c, t, u),
             A /\ Others /\ t = call[c].todo => Alone(Now(u), creds', chain', jumps')
      PROVE  \A d \in Calls : LoneOf(d)'
  BY <1>5, <1>6, LoneGo DEF From
<1>7. CASE From(c, aDelete, aFlush) /\ Runs(c, "-D_OUTPUT")
  <2>1. ASSUME A, Others, aDelete = call[c].todo PROVE Alone(Now(aFlush), creds', chain', jumps')
    <3>1. creds /\ jumps = call[c].met
      BY <2>1 DEF Alone, ApplyLists
    <3>2. jumps' = Left(jumps)
      BY <1>3, <1>4, <1>7, <2>1, <3>1 DEF Runs, Done, Fails, Possible, Effect, Left, kernel
    <3>3. aFlush \in Lists
      BY DEF Lists, ApplyLists
    <3> HIDE DEF Now
    <3>. QED  BY <1>1, <1>2, <3>1, <3>2, <3>3, AloneApply
  <2>2. aFlush \in Lists
    BY DEF Lists, ApplyLists
  <2> HIDE DEF A, Now, Others
  <2>. QED  BY <1>6, <1>7, <2>1, <2>2
<1>8. CASE From(c, aFlush, aDrop) /\ Runs(c, "-F")
  <2>1. ASSUME A, Others, aFlush = call[c].todo PROVE Alone(Now(aDrop), creds', chain', jumps')
    <3>1. creds /\ jumps = Left(call[c].met)
      BY <2>1 DEF Alone, ApplyLists
    <3>2. jumps' = jumps /\ chain'.to = << >>
      BY <1>1, <1>3, <1>4, <1>8, <2>1, <3>1
         DEF Runs, Done, Fails, Possible, Effect, KernelOK, kernel
    <3>3. aDrop \in Lists
      BY DEF Lists, ApplyLists
    <3> HIDE DEF Now
    <3>. QED  BY <1>1, <1>2, <3>1, <3>2, <3>3, AloneApply
  <2>2. aDrop \in Lists
    BY DEF Lists, ApplyLists
  <2> HIDE DEF A, Now, Others
  <2>. QED  BY <1>6, <1>8, <2>1, <2>2
<1>9. CASE From(c, aDrop, aNew) /\ Runs(c, "-X")
  <2>1. ASSUME A, Others, aDrop = call[c].todo PROVE Alone(Now(aNew), creds', chain', jumps')
    <3>1. creds /\ jumps = Left(call[c].met) /\ chain.to = << >>
      BY <2>1 DEF Alone, ApplyLists
    <3>2. jumps' = jumps /\ chain' = EmptyChain(jumps')
      BY <1>1, <1>3, <1>9, <2>1, <3>1, DropEmpty
    <3>3. aNew \in Lists
      BY DEF Lists, ApplyLists
    <3> HIDE DEF Now
    <3>. QED  BY <1>1, <1>2, <3>1, <3>2, <3>3, AloneApply
  <2>2. aNew \in Lists
    BY DEF Lists, ApplyLists
  <2> HIDE DEF A, Now, Others
  <2>. QED  BY <1>6, <1>9, <2>1, <2>2
<1>10. CASE From(c, aNew, aRule) /\ Done(c, "-N")
  <2>1. ASSUME A, Others, aNew = call[c].todo PROVE Alone(Now(aRule), creds', chain', jumps')
    <3>1. creds /\ chain = EmptyChain(jumps)
      BY <2>1 DEF Alone, ApplyLists
    <3>2. jumps' = 0 /\ chain' = [there |-> TRUE, to |-> << >>]
      BY <1>1, <1>3, <1>4, <1>10, <2>1, <3>1
         DEF Runs, Done, Fails, Possible, Effect, KernelOK, kernel, Left, EmptyChain
    <3>3. aRule \in Lists
      BY DEF Lists, ApplyLists
    <3> HIDE DEF Now
    <3>. QED  BY <1>1, <1>2, <3>1, <3>2, <3>3, AloneApply
  <2>2. aRule \in Lists
    BY DEF Lists, ApplyLists
  <2> HIDE DEF A, Now, Others
  <2>. QED  BY <1>6, <1>10, <2>1, <2>2
<1>11. CASE From(c, aNew, uDelete) /\ Fails(c, "-N")
  <2>1. ASSUME A, Others, aNew = call[c].todo PROVE Alone(Now(uDelete), creds', chain', jumps')
    <3>1. creds /\ jumps = Left(call[c].met) /\ chain = EmptyChain(jumps)
      BY <2>1 DEF Alone, ApplyLists
    <3>2. jumps' = jumps /\ chain' = chain /\ jumps > 0
      BY <1>1, <1>3, <1>4, <1>11, <2>1, <3>1
         DEF Runs, Done, Fails, Possible, Effect, KernelOK, kernel, Left, EmptyChain
    <3>3. uDelete \in Lists
      BY DEF Lists, UndoLists
    <3> HIDE DEF Now
    <3>. QED  BY <1>1, <1>2, <3>1, <3>2, <3>3, AloneUndo
  <2>2. uDelete \in Lists
    BY DEF Lists, UndoLists
  <2> HIDE DEF A, Now, Others
  <2>. QED  BY <1>6, <1>11, <2>1, <2>2
<1>12. CASE From(c, aRule, aJump) /\ Done(c, "-A")
  <2>1. ASSUME A, Others, aRule = call[c].todo PROVE Alone(Now(aJump), creds', chain', jumps')
    <3>1. creds /\ jumps = 0 /\ chain = [there |-> TRUE, to |-> << >>]
      BY <2>1 DEF Alone, ApplyLists
    <3>2. Append(<< >>, call[c].target) = <<call[c].target>>
      OBVIOUS
    <3>3. jumps' = 0 /\ chain' = [there |-> TRUE, to |-> <<call[c].target>>]
      BY <1>1, <1>3, <1>4, <1>12, <2>1, <3>1, <3>2
         DEF Runs, Done, Fails, Possible, Effect, KernelOK, kernel
    <3>4. aJump \in Lists
      BY DEF Lists, ApplyLists
    <3> HIDE DEF Now
    <3>. QED  BY <1>1, <1>2, <3>1, <3>2, <3>3, <3>4, AloneApply
  <2>2. aJump \in Lists
    BY DEF Lists, ApplyLists
  <2> HIDE DEF A, Now, Others
  <2>. QED  BY <1>6, <1>12, <2>1, <2>2
<1>13. CASE From(c, aRule, uDelete) /\ Fails(c, "-A")
  <2>1. ASSUME A, Others, aRule = call[c].todo PROVE FALSE
    <3>1. creds /\ chain.there
      BY <2>1 DEF Alone, ApplyLists
    <3>. QED  BY <1>3, <1>13, <2>1, <3>1 DEF Fails, Possible
  <2>2. uDelete \in Lists
    BY DEF Lists, UndoLists
  <2> HIDE DEF A, Now, Others
  <2>. QED  BY <1>6, <1>13, <2>1, <2>2
<1>14. CASE From(c, aJump, aMode) /\ Done(c, "-A_OUTPUT")
  <2>1. ASSUME A, Others, aJump = call[c].todo PROVE Alone(Now(aMode), creds', chain', jumps')
    <3>1. creds /\ jumps = 0 /\ chain = [there |-> TRUE, to |-> <<call[c].target>>]
      BY <2>1 DEF Alone, ApplyLists
    <3>2. jumps' = 1 /\ chain' = [there |-> TRUE, to |-> <<call[c].target>>]
      BY <1>1, <1>3, <1>4, <1>14, <2>1, <3>1
         DEF Runs, Done, Fails, Possible, Effect, KernelOK, kernel
    <3>3. aMode \in Lists
      BY DEF Lists, ApplyLists
    <3> HIDE DEF Now
    <3>. QED  BY <1>1, <1>2, <3>1, <3>2, <3>3, AloneApply
  <2>2. aMode \in Lists
    BY DEF Lists, ApplyLists
  <2> HIDE DEF A, Now, Others
  <2>. QED  BY <1>6, <1>14, <2>1, <2>2
<1>15. CASE From(c, aJump, uDelete) /\ Fails(c, "-A_OUTPUT")
  <2>1. ASSUME A, Others, aJump = call[c].todo PROVE FALSE
    <3>1. creds /\ chain.there
      BY <2>1 DEF Alone, ApplyLists
    <3>. QED  BY <1>3, <1>15, <2>1, <3>1 DEF Fails, Possible
  <2>2. uDelete \in Lists
    BY DEF Lists, UndoLists
  <2> HIDE DEF A, Now, Others
  <2>. QED  BY <1>6, <1>15, <2>1, <2>2
<1>16. CASE From(c, uDelete, uFlush) /\ Runs(c, "-D_OUTPUT")
  <2>1. ASSUME A, Others, uDelete = call[c].todo PROVE Alone(Now(uFlush), creds', chain', jumps')
    <3>1. creds /\ jumps = Left(call[c].met) /\ jumps > 0 /\ chain = EmptyChain(jumps)
      BY <2>1 DEF Alone, UndoLists
    <3>2. jumps' = Left(jumps) /\ chain' = [there |-> TRUE, to |-> << >>]
      BY <1>1, <1>3, <1>4, <1>16, <2>1, <3>1
         DEF Runs, Done, Fails, Possible, Effect, KernelOK, kernel, Left, EmptyChain
    <3>3. uFlush \in Lists
      BY DEF Lists, UndoLists
    <3> HIDE DEF Now
    <3>. QED  BY <1>1, <1>2, <3>1, <3>2, <3>3, AloneUndo
  <2>2. uFlush \in Lists
    BY DEF Lists, UndoLists
  <2> HIDE DEF A, Now, Others
  <2>. QED  BY <1>6, <1>16, <2>1, <2>2
<1>17. CASE From(c, uFlush, uDrop) /\ Runs(c, "-F")
  <2>1. ASSUME A, Others, uFlush = call[c].todo PROVE Alone(Now(uDrop), creds', chain', jumps')
    <3>1. creds /\ jumps = Left(Left(call[c].met)) /\ chain = [there |-> TRUE, to |-> << >>]
      BY <2>1 DEF Alone, UndoLists
    <3>2. jumps' = jumps /\ chain' = [there |-> TRUE, to |-> << >>]
      BY <1>1, <1>3, <1>4, <1>17, <2>1, <3>1
         DEF Runs, Done, Fails, Possible, Effect, KernelOK, kernel
    <3>3. uDrop \in Lists
      BY DEF Lists, UndoLists
    <3> HIDE DEF Now
    <3>. QED  BY <1>1, <1>2, <3>1, <3>2, <3>3, AloneUndo
  <2>2. uDrop \in Lists
    BY DEF Lists, UndoLists
  <2> HIDE DEF A, Now, Others
  <2>. QED  BY <1>6, <1>17, <2>1, <2>2
<1>18. CASE From(c, uDrop, sEnd("raise")) /\ Runs(c, "-X")
  <2>1. ASSUME A, Others, uDrop = call[c].todo PROVE Alone(Now(sEnd("raise")), creds', chain', jumps')
    <3>1. creds /\ jumps = Left(Left(call[c].met)) /\ chain = [there |-> TRUE, to |-> << >>]
      BY <2>1 DEF Alone, UndoLists
    <3>2. jumps' = jumps /\ chain' = EmptyChain(jumps')
      BY <1>1, <1>3, <1>18, <2>1, <3>1, DropEmpty
    <3>3. sEnd("raise") \in StopLists
      BY DEF StopLists, Ends
    <3>4. sEnd("raise") \in Lists
      BY DEF Lists, StopLists, Ends
    <3> HIDE DEF Now
    <3>. QED  BY <1>1, <1>2, <3>1, <3>2, <3>3, <3>4, AloneStop
  <2>2. sEnd("raise") \in Lists
    BY DEF Lists, StopLists, Ends
  <2> HIDE DEF A, Now, Others
  <2>. QED  BY <1>6, <1>18, <2>1, <2>2
<1>19. ASSUME NEW last \in Ends, NEW t \in {sDelete(last), sFlush(last), sDrop(last)},
              NEW u \in {sFlush(last), sDrop(last), sHalt(last)}, From(c, t, u)
       PROVE  \A d \in Calls : LoneOf(d)'
  <2>1. t \in StopLists /\ u \in StopLists /\ u \in Lists
    BY DEF StopLists, Lists
  <2>2. ASSUME A, t = call[c].todo PROVE Alone(Now(u), creds', chain', jumps')
    <3>1. t # sEnd("raise")
      BY Heads DEF Ends
    <3>2. call[c].target = 0
      BY <2>1, <2>2, <3>1 DEF Alone
    <3> HIDE DEF Now
    <3>. QED  BY <1>2, <2>1, <3>2, AloneStop
  <2> HIDE DEF A, Now, Others
  <2>. QED  BY <1>6, <1>19, <2>1, <2>2
<1> HIDE DEF A, Now, Others
<1>. QED  BY <1>7, <1>8, <1>9, <1>10, <1>11, <1>12, <1>13, <1>14, <1>15, <1>16, <1>17, <1>18,
             <1>19, CommandPlaces DEF LoneInv

LEMMA LoneStep == LoneInv /\ [Next]_vars => LoneInv'
<1> SUFFICES ASSUME LoneInv, [Next]_vars PROVE \A d \in Calls : LoneOf(d)'
  BY TypeStep DEF LoneInv
<1> DEFINE LonesOK == \A d \in Calls : LoneOf(d)'
<1>1. TInv /\ call \in [Calls -> CallType] /\ \A c \in Calls : LoneOf(c)
  BY DEF LoneInv, TInv
<1>2. \A c \in Calls : \A k : At(c, k) => call[c].todo # << >>
  BY DEF At, Idle, Todo
<1>3. \A t \in Lists : \A c \in Calls :
          LET k == [call[c] EXCEPT !.todo = t] IN
             k \in CallType /\ k.todo = t /\ k.target = call[c].target /\ k.met = call[c].met
             /\ k.lone = call[c].lone
  BY <1>1 DEF CallType
\* A call that applies nothing goes on.
<1>4. ASSUME NEW c \in Calls, NEW t \in Lists, Go(c, t),
             Todo(c) \in (SetupLists \ {lApply}) \cup StopLists, Todo(c) # sEnd("raise"),
             t \in (SetupLists \ {lApply}) \cup StopLists \cup {<< >>}
      PROVE  LonesOK
  <2>1. ASSUME t # << >>, Alone(call[c], creds, chain, jumps)
        PROVE  Alone([call[c] EXCEPT !.todo = t], creds', chain', jumps')
    <3>1. call[c].target = 0
      BY <1>4, <2>1 DEF Alone, Todo
    <3>. QED  BY <1>3, <1>4, <2>1, <3>1, AloneSetup, AloneStop
  <2>2. call[c].todo # << >>
    BY <1>4, Heads DEF Todo, SetupLists, StopLists, Ends
  <2>. QED  BY <1>4, <2>1, <2>2, LoneGo
<1>5. ASSUME NEW c \in Calls, CallStart(c) PROVE LonesOK
  <2> DEFINE t == IF front[proc[c]] = "ui" THEN lCheck ELSE lCreate
             k == [NoCall EXCEPT !.todo = t]
  <2>1. Begin(c, k) /\ UNCHANGED <<kernel, creds>>
    BY <1>5, Beginnings DEF CallStart
  <2>2. t \in SetupLists /\ t # lApply /\ t \in Lists
    BY Heads DEF Lists, SetupLists
  <2>3. k \in CallType /\ k.target = 0 /\ k.todo = t
    BY <2>2, NoCallOK DEF CallType, NoCall
  <2> HIDE DEF k, t
  <2>. QED  BY <2>1, <2>2, <2>3, Apart, LoneBegin
<1>6. ASSUME NEW c \in Calls, NEW p \in Procs, UNCHANGED <<kernel, creds>>,
             Begin(c, [NoCall EXCEPT !.todo = sRemove("forget"), !.self = api[p]])
      PROVE  LonesOK
  <2> DEFINE k == [NoCall EXCEPT !.todo = sRemove("forget"), !.self = api[p]]
  <2>1. sRemove("forget") \in StopLists /\ sRemove("forget") \in Lists
    BY DEF StopLists, Ends, Lists
  <2>2. sRemove("forget") \notin ApplyLists \cup UndoLists \cup {lApply}
    BY <2>1, Apart DEF SetupLists
  <2>3. api[p] \in 0..MaxSessions
    BY <1>1 DEF TInv, RestOK
  <2>4. k \in CallType /\ k.target = 0 /\ k.todo = sRemove("forget")
    BY <2>1, <2>3, NoCallOK DEF CallType, NoCall
  <2>5. Begin(c, k)
    BY <1>6
  <2> HIDE DEF k
  <2>. QED  BY <1>6, <2>2, <2>4, <2>5, LoneBegin
<1>7. ASSUME NEW p \in Procs, Die(p), UNCHANGED <<kernel, creds>> PROVE LonesOK
  <2>1. \A d \in Calls : call'[d] = call[d] \/ call'[d] = NoCall
    BY <1>7 DEF Die
  <2>. QED  BY <1>7, <2>1, LoneEnd
<1>8. ASSUME NEW c \in Calls, CallStop(c) PROVE LonesOK
  <2>1. /\ Begin(c, [NoCall EXCEPT !.todo = sRemove("forget"), !.self = api[proc[c]]])
        /\ UNCHANGED <<kernel, creds>>
    BY <1>8, Beginnings DEF CallStop
  <2>2. proc[c] \in Procs
    BY <1>1 DEF TInv, RestOK
  <2>. QED  BY <1>6, <2>1, <2>2
<1>9. ASSUME NEW c \in Calls, Check(c) PROVE LonesOK
  <2>1. PICK t \in {<< >>, lCreate} : Go(c, t) /\ Todo(c) = lCheck
    BY <1>1, <1>9, StartPlaces
  <2>2. /\ t \in Lists /\ t \in (SetupLists \ {lApply}) \cup {<< >>}
        /\ lCheck \in SetupLists \ {lApply} /\ lCheck # sEnd("raise")
    BY Heads DEF Lists, SetupLists, Ends
  <2>. QED  BY <1>4, <2>1, <2>2
<1>10. ASSUME NEW c \in Calls, Create(c) PROVE LonesOK
  <2> DEFINE r == [call[c] EXCEPT !.todo = lEnter, !.own = made + 1]
  <2>1. Todo(c) = lCreate /\ call' = [call EXCEPT ![c] = r]
    BY <1>1, <1>10, StartPlaces
  <2>2. r.todo = lEnter /\ r.target = call[c].target /\ r.lone = call[c].lone
    BY <1>1 DEF CallType
  <2>3. lCreate \in SetupLists /\ lEnter \in SetupLists /\ lEnter # lApply /\ lCreate # << >>
    BY Heads DEF SetupLists
  <2>4. Alone(call[c], creds, chain, jumps) => call[c].target = 0
    BY <2>1, <2>3 DEF Alone, Todo
  <2> HIDE DEF r
  <2>5. Alone(call[c], creds, chain, jumps) => Alone(r, creds', chain', jumps')
    BY <2>2, <2>3, <2>4, AloneSetup
  <2>. QED  BY <2>1, <2>2, <2>3, <2>5, LoneStepOf DEF Todo
<1>11. ASSUME NEW c \in Calls, Enter(c) PROVE LonesOK
  <2> DEFINE t == IF api[proc[c]] = 0 THEN sEnd("raise") ELSE lRelay
             r == [call[c] EXCEPT !.todo = t, !.self = api[proc[c]]]
  <2>1. Todo(c) = lEnter /\ call' = [call EXCEPT ![c] = r]
    BY <1>1, <1>11, StartPlaces
  <2>2. r.todo = t /\ r.target = call[c].target /\ r.lone = call[c].lone
    BY <1>1 DEF CallType
  <2>3. lEnter \in SetupLists /\ lEnter # << >> /\ t \in (SetupLists \ {lApply}) \cup StopLists
    BY Heads DEF SetupLists, StopLists, Ends
  <2>4. Alone(call[c], creds, chain, jumps) => call[c].target = 0
    BY <2>1, <2>3 DEF Alone, Todo
  <2> HIDE DEF r, t
  <2>5. Alone(call[c], creds, chain, jumps) => Alone(r, creds', chain', jumps')
    BY <2>2, <2>3, <2>4, AloneSetup, AloneStop
  <2>. QED  BY <2>1, <2>2, <2>3, <2>5, LoneStepOf DEF Todo
<1>12. ASSUME NEW c \in Calls, StartRelay(c) PROVE LonesOK
  <2>1. PICK t \in {<< >>, lProbe, sEnd("raise")} : Go(c, t) /\ Todo(c) = lRelay
    BY <1>1, <1>12, StartPlaces
  <2>2. /\ t \in Lists /\ t \in (SetupLists \ {lApply}) \cup StopLists \cup {<< >>}
        /\ lRelay \in SetupLists \ {lApply} /\ lRelay # sEnd("raise")
    BY Heads DEF Lists, SetupLists, StopLists, Ends
  <2>. QED  BY <1>4, <2>1, <2>2
<1>13. ASSUME NEW c \in Calls, Probe(c) PROVE LonesOK
  <2> DEFINE t == IF creds THEN lApply ELSE sRemove("raise")
  <2>1. Todo(c) = lProbe /\ Go(c, t) /\ creds' = creds
    BY <1>1, <1>13, StartPlaces DEF Probe
  <2>2. /\ lApply \in SetupLists \cap Lists /\ sRemove("raise") \in StopLists \cap Lists
        /\ lProbe \in SetupLists /\ lProbe # << >> /\ lApply # << >>
    BY Heads DEF SetupLists, StopLists, Ends, Lists
  <2>3. ASSUME Alone(call[c], creds, chain, jumps)
        PROVE  Alone([call[c] EXCEPT !.todo = t], creds', chain', jumps')
    <3>1. call[c].target = 0
      BY <2>1, <2>2, <2>3 DEF Alone, Todo
    <3>2. CASE creds
      BY <1>3, <2>1, <2>2, <3>1, <3>2, AloneSetup
    <3>3. CASE ~creds
      BY <1>3, <2>1, <2>2, <3>1, <3>3, AloneStop
    <3>. QED  BY <3>2, <3>3
  <2>4. t \in Lists
    BY <2>2
  <2> HIDE DEF t
  <2>. QED  BY <2>1, <2>2, <2>3, <2>4, LoneGo DEF Todo
<1>14. ASSUME NEW c \in Calls, Apply(c) PROVE LonesOK
  <2> DEFINE r == [call[c] EXCEPT !.todo = aDelete,
                      !.target = session[Self(c)].redirector, !.met = jumps]
  <2>1. Todo(c) = lApply /\ ApplySteps(c, aDelete)
    BY <1>1, <1>14, StartPlaces
  <2>2. call' = [call EXCEPT ![c] = r] /\ UNCHANGED <<kernel, creds>>
    BY <2>1 DEF ApplySteps
  <2>3. r.todo = aDelete /\ r.met = jumps /\ r.lone = call[c].lone
    BY <1>1 DEF CallType
  <2>4. lApply # << >>
    BY Heads
  <2>5. Alone(call[c], creds, chain, jumps) => creds
    BY <2>1 DEF Alone, Todo
  <2> HIDE DEF r
  <2>6. Alone(call[c], creds, chain, jumps) => Alone(r, creds', chain', jumps')
    BY <2>2, <2>3, <2>5, AloneApply DEF kernel
  <2>. QED  BY <2>1, <2>2, <2>3, <2>4, <2>6, LoneStepOf DEF Todo
<1>15. ASSUME NEW c \in Calls, SetMode(c) PROVE LonesOK
  <2>1. Todo(c) = aMode /\ Go(c, << >>) /\ << >> \in Lists /\ aMode # << >>
    BY <1>1, <1>15, StartPlaces, Heads DEF From, Lists
  <2>. QED  BY <2>1, LoneGo DEF Todo
<1>16. ASSUME NEW c \in Calls, Raise(c) \/ Forget(c) PROVE LonesOK
  <2>1. Drop(c) /\ Todo(c) \in {sEnd("raise"), sEnd("forget")}
    BY <1>1, <1>16, StartPlaces, StopPlaces DEF Raise, Forget
  <2>2. UNCHANGED <<kernel, creds>> /\ proc[c] \in Procs
    BY <1>1, <2>1 DEF Drop, TInv, RestOK
  <2>3. CASE Die(proc[c])
    BY <1>7, <2>2, <2>3
  <2>4. CASE Proceed(c)
    <3>1. Go(c, << >>) /\ Todo(c) # << >> /\ << >> \in Lists
      BY <2>1, <2>4, StopTails, Heads DEF Proceed, Lists, Ends
    <3>. QED  BY <3>1, LoneGo DEF Todo
  <2>. QED  BY <2>1, <2>3, <2>4 DEF Drop
<1>17. ASSUME NEW c \in Calls, Remove(c) PROVE LonesOK
  <2>1. PICK last \in Ends :
           /\ Todo(c) = sRemove(last)
           /\ Go(c, IF session[Self(c)].redirector # 0 THEN sDelete(last) ELSE sHalt(last))
    BY <1>1, <1>17, StopPlaces
  <2>2. /\ {sRemove(last), sDelete(last), sHalt(last)} \subseteq StopLists
        /\ sRemove(last) # sEnd("raise")
    BY Heads DEF StopLists, Ends
  <2>. QED  BY <1>4, <2>1, <2>2 DEF Lists
<1>18. ASSUME NEW c \in Calls, Halt(c) PROVE LonesOK
  <2>1. PICK last \in Ends : From(c, sHalt(last), sStopped(last))
    BY <1>1, <1>18, StopPlaces
  <2>2. {sHalt(last), sStopped(last)} \subseteq StopLists /\ sHalt(last) # sEnd("raise")
    BY Heads DEF StopLists, Ends
  <2>. QED  BY <1>4, <2>1, <2>2 DEF Lists, From
<1>19. ASSUME NEW c \in Calls, Stopped(c) PROVE LonesOK
  <2>1. PICK last \in Ends : From(c, sStopped(last), sEnd(last))
    BY <1>1, <1>19, StopPlaces
  <2>2. {sStopped(last), sEnd(last)} \subseteq StopLists /\ sStopped(last) # sEnd("raise")
    BY Heads DEF StopLists, Ends
  <2>. QED  BY <1>4, <2>1, <2>2 DEF Lists, From
<1>20. ASSUME NEW n \in Sessions, LoopRuns(n) PROVE LonesOK
  BY <1>20, LoneEnd DEF LoopRuns
<1>21. ASSUME NEW p \in Procs, Kill(p) PROVE LonesOK
  BY <1>7, <1>21 DEF Kill
<1>22. ASSUME NEW p \in Procs, Signal(p) PROVE LonesOK
  <2>1. UNCHANGED <<kernel, creds>>
    BY <1>22 DEF Signal
  <2>2. PICK c \in Calls :
          \/ Begin(c, [NoCall EXCEPT !.todo = sRemove("forget"), !.self = api[p]])
          \/ Die(p)
    BY <1>22, Beginnings DEF Signal
  <2>. QED  BY <1>6, <1>7, <2>1, <2>2
<1>23. ASSUME SudoExpires PROVE LonesOK
  <2> SUFFICES ASSUME NEW d \in Calls, call'[d].lone, call'[d].todo # << >> PROVE FALSE
    BY DEF LoneOf
  <2>1. call'[d] = IF Idle(d) THEN call[d] ELSE [call[d] EXCEPT !.lone = FALSE]
    BY <1>23 DEF SudoExpires
  <2>. QED  BY <1>1, <2>1 DEF Idle, Todo, CallType
<1>25. ASSUME SudoReturns PROVE LonesOK
  <2>1. creds' /\ UNCHANGED <<call, chain, jumps>>
    BY <1>25 DEF SudoReturns, kernel
  <2>. QED  BY <1>1, <2>1 DEF LoneOf, Alone
<1>24. ASSUME UNCHANGED vars PROVE LonesOK
  BY <1>24, LoneEnd DEF vars
<1>. QED  BY <1>5, <1>8, <1>9, <1>10, <1>11, <1>12, <1>13, <1>14, <1>15, <1>16, <1>17, <1>18,
             <1>19, <1>20, <1>21, <1>22, <1>23, <1>24, <1>25, LoneCommand
          DEF Next, StartStep, StopStep

\* apply is all or nothing: a start that runs alone and keeps its rights ends with its own
\* rule and one jump to it, or with an empty chain and no jumps but those, past two, that
\* it has met; whatever the table held before.
THEOREM ApplyAllOrNothing == Spec => []AllOrNothing
<1>1. LoneInv => AllOrNothing
  <2> SUFFICES ASSUME LoneInv, NEW c \in Calls, call[c].lone
               PROVE  /\ At(c, "mode") =>
                           jumps = 1 /\ chain = [there |-> TRUE, to |-> <<call[c].target>>]
                      /\ At(c, "raise") /\ call[c].target # 0 =>
                            /\ jumps = IF call[c].met > 2 THEN call[c].met - 2 ELSE 0
                            /\ chain = [there |-> jumps > 0, to |-> << >>]
    BY DEF AllOrNothing
  <2>1. call[c] \in CallType /\ LoneOf(c)
    BY DEF LoneInv, TInv
  <2>2. ASSUME At(c, "mode")
        PROVE  jumps = 1 /\ chain = [there |-> TRUE, to |-> <<call[c].target>>]
    <3>1. call[c].todo = aMode /\ call[c].todo # << >>
      BY <2>1, <2>2, Places DEF At, Idle, Todo, CallType
    <3>. QED  BY <2>1, <3>1 DEF LoneOf, Alone
  <2>3. ASSUME At(c, "raise"), call[c].target # 0
        PROVE  /\ jumps = IF call[c].met > 2 THEN call[c].met - 2 ELSE 0
               /\ chain = [there |-> jumps > 0, to |-> << >>]
    <3>1. call[c].todo = sEnd("raise") /\ call[c].todo # << >>
      BY <2>1, <2>3, Places DEF At, Idle, Todo, CallType
    <3>2. jumps = Left(Left(call[c].met)) /\ chain = EmptyChain(jumps)
      BY <2>1, <2>3, <3>1 DEF LoneOf, Alone
    <3>3. call[c].met \in Nat
      BY <2>1 DEF CallType
    <3>4. jumps = IF call[c].met > 2 THEN call[c].met - 2 ELSE 0
      BY <3>2, <3>3 DEF Left
    <3>. QED  BY <3>2, <3>4 DEF EmptyChain
  <2>. QED  BY <2>2, <2>3
<1>. QED  BY <1>1, LoneInit, LoneStep, PTL DEF Spec

----------------------------------------------------------------------------
(* While the rights last and no two calls, or two sessions, meet: what the  *)
(* table, the session and its relay are like at each place of a call, and   *)
(* when none runs.                                                          *)

Calm      == causes \cap {"expired", "shared"} = {}
Untouched == causes \subseteq {"early"}

\* Nothing is installed, unless a killed process has left it.
Nothing == jumps = 0 /\ ~chain.there
Free    == Untouched => Nothing

OwnRule(n) == jumps = 1 /\ chain = [there |-> TRUE, to |-> <<n>>]

Made(n, r, m) == session[n] = [thread |-> n, redirector |-> r, mode |-> m]

\* Session n of process p before its relay is started, and after.
Fresh(p, n)   == n \in Sessions /\ api[p] = n /\ session[n] = NewSession /\ relay[n] = "none"
Serving(p, n) == n \in Sessions /\ api[p] = n /\ Listening(n)

\* The process has no session, or a complete one.
Settled(p) ==
    \/ api[p] = 0 /\ Free
    \/ Serving(p, api[p]) /\ Made(api[p], 0, "relay_only") /\ Free
    \/ Serving(p, api[p]) /\ Made(api[p], api[p], "intercepting") /\ OwnRule(api[p])

StagedIn(c, p, t, n) ==
    \/ t = lCheck /\ Settled(p)
    \/ t = lCreate /\ api[p] = 0 /\ Free
    \/ t = lEnter /\ Fresh(p, call[c].own) /\ Free
    \/ t = lRelay /\ Fresh(p, n) /\ n = call[c].own /\ Free
    \/ t = lProbe /\ Serving(p, n) /\ Made(n, 0, "idle") /\ Free
    \/ t = lApply /\ Serving(p, n) /\ Made(n, n, "idle") /\ Free
    \/ t \in ApplyLists /\ Serving(p, n) /\ Made(n, n, "idle") /\ (t = aDelete => Free)
          /\ call[c].target = n /\ call[c].met \in {0, 1}
    \/ t = sRemove("forget") /\ api[p] = n /\ n # 0 /\ Settled(p)
    \/ t = sDelete("forget") /\ Serving(p, n) /\ session[n].thread = n /\ OwnRule(n)
    \/ t = sFlush("forget") /\ Serving(p, n) /\ session[n].thread = n
          /\ jumps = 0 /\ chain.there
    \/ t = sDrop("forget") /\ Serving(p, n) /\ session[n].thread = n
          /\ jumps = 0 /\ chain.there /\ chain.to = << >>
    \/ t = sHalt("forget") /\ Serving(p, n) /\ session[n].thread = n /\ Free
    \/ t \in {sStopped("forget"), sEnd("forget"), sEnd("raise")}
          /\ n \in Sessions /\ api[p] = n /\ Free /\ ("early" \notin causes => ~Listening(n))

Staged(c) == StagedIn(c, proc[c], call[c].todo, call[c].self)

\* Sessions that are still to be made are as at first; a relay belongs to one process,
\* and unless it was stopped too early only listens for the session there is.
Base ==
    /\ creds /\ jumps \in {0, 1}
    /\ \A p \in Procs : api[p] <= made
    /\ \A n \in Sessions : n > made => session[n] = NewSession /\ relay[n] = "none"
    /\ \A p \in Procs : \A n \in owns[p] : relay[n] # "none"
    /\ \A p, q \in Procs : api[p] # 0 /\ api[q] # 0 => p = q
    /\ \A p \in Procs : \A n \in Sessions : api[p] = n /\ Listening(n) =>
          n \in owns[p] /\ \A q \in Procs \ {p} : n \notin owns[q]
    /\ "early" \notin causes => \A n \in Sessions : Listening(n) => \E p \in Procs : api[p] = n

Only(p) == \A q \in Procs \ {p} : api[q] = 0

Running(c) == call[c].todo # << >> => call[c].lone /\ Only(proc[c]) /\ Staged(c)

AtRest ==
    (\A c \in Calls : call[c].todo = << >>) =>
        /\ \A p \in Procs : Only(p) => Settled(p)
        /\ (\A p \in Procs : api[p] = 0) => Free

Clean == Base /\ AtRest /\ \A c \in Calls : Running(c)

CleanInv == LoneInv /\ (Calm => Clean)

\* Where a call is, the others of these facts do not matter.
LEMMA StagedAt ==
    ASSUME NEW c, NEW p, NEW t, NEW n, StagedIn(c, p, t, n)
    PROVE  /\ t = lCheck => Settled(p)
           /\ t = lCreate => api[p] = 0 /\ Free
           /\ t = lEnter => Fresh(p, call[c].own) /\ Free
           /\ t = lRelay => Fresh(p, n) /\ n = call[c].own /\ Free
           /\ t = lProbe => Serving(p, n) /\ Made(n, 0, "idle") /\ Free
           /\ t = lApply => Serving(p, n) /\ Made(n, n, "idle") /\ Free
           /\ t \in ApplyLists => /\ Serving(p, n) /\ Made(n, n, "idle") /\ (t = aDelete => Free)
                                  /\ call[c].target = n /\ call[c].met \in {0, 1}
           /\ t \notin UndoLists
           /\ \A last \in Ends :
                 /\ t \in {sRemove(last), sDelete(last), sFlush(last), sDrop(last), sHalt(last),
                           sStopped(last)} => last = "forget"
                 /\ t = sRemove(last) => api[p] = n /\ n # 0 /\ Settled(p)
                 /\ t = sDelete(last) => Serving(p, n) /\ session[n].thread = n /\ OwnRule(n)
                 /\ t = sFlush(last) => /\ Serving(p, n) /\ session[n].thread = n
                                        /\ jumps = 0 /\ chain.there
                 /\ t = sDrop(last) => /\ Serving(p, n) /\ session[n].thread = n
                                       /\ jumps = 0 /\ chain.there /\ chain.to = << >>
                 /\ t = sHalt(last) => Serving(p, n) /\ session[n].thread = n /\ Free
                 /\ t \in {sStopped(last), sEnd(last)} =>
                       /\ n \in Sessions /\ api[p] = n /\ Free
                       /\ "early" \notin causes => ~Listening(n)
<1>1. \A a, b \in Ends :
         /\ a # b =>
               /\ sRemove(a) # sRemove(b) /\ sDelete(a) # sDelete(b) /\ sFlush(a) # sFlush(b)
               /\ sDrop(a) # sDrop(b) /\ sHalt(a) # sHalt(b) /\ sStopped(a) # sStopped(b)
  BY DEF Ends, sRemove, sDelete, sFlush, sDrop, sHalt, sStopped
<1>2. \A a, b \in Ends :
         /\ sDelete(a) # sRemove(b) /\ sDelete(a) # sFlush(b) /\ sDelete(a) # sDrop(b)
         /\ sDelete(a) # sHalt(b) /\ sDelete(a) # sStopped(b) /\ sDelete(a) # sEnd(b)
         /\ sFlush(a) # sRemove(b) /\ sFlush(a) # sDrop(b)
         /\ sFlush(a) # sHalt(b) /\ sFlush(a) # sStopped(b) /\ sFlush(a) # sEnd(b)
         /\ sDrop(a) # sRemove(b)
         /\ sDrop(a) # sHalt(b) /\ sDrop(a) # sStopped(b) /\ sDrop(a) # sEnd(b)
         /\ sHalt(a) # sRemove(b) /\ sHalt(a) # sStopped(b) /\ sHalt(a) # sEnd(b)
         /\ sStopped(a) # sRemove(b) /\ sStopped(a) # sEnd(b) /\ sRemove(a) # sEnd(b)
  BY Heads DEF Ends
<1>3. "forget" \in Ends /\ "raise" \in Ends
  BY DEF Ends
<1>4. \A last \in Ends : {sRemove(last), sDelete(last), sFlush(last), sDrop(last), sHalt(last),
                          sStopped(last), sEnd(last)} \subseteq StopLists
  BY DEF StopLists
<1>5. /\ {lCheck, lCreate, lEnter, lRelay, lProbe, lApply} = SetupLists
      /\ lCheck \notin {lCreate, lEnter, lRelay, lProbe, lApply}
      /\ lCreate \notin {lEnter, lRelay, lProbe, lApply}
      /\ lEnter \notin {lRelay, lProbe, lApply} /\ lRelay \notin {lProbe, lApply}
      /\ lProbe # lApply
  BY Heads DEF SetupLists
<1>6. CASE t \in SetupLists
  BY <1>3, <1>4, <1>5, <1>6, Apart DEF StagedIn
<1>7. CASE t \in ApplyLists
  BY <1>3, <1>4, <1>5, <1>7, Apart DEF StagedIn
<1>8. CASE t \in StopLists
  BY <1>1, <1>2, <1>3, <1>4, <1>5, <1>8, Apart DEF StagedIn, Ends
<1>. QED  BY <1>3, <1>4, <1>5, <1>6, <1>7, <1>8 DEF StagedIn

\* What has disturbed the calls is not forgotten.
LEMMA CausedKeeps ==
    ASSUME NEW x, causes' = Caused(x)
    PROVE  /\ Calm' => Calm /\ x \notin {"expired", "shared"}
           /\ Untouched' => Untouched
           /\ Calm' /\ "early" \notin causes' => "early" \notin causes
           /\ Calm' /\ x = "early" => "early" \in causes'
           /\ Calm' /\ x \in {"killed", "signalled"} => ~Untouched'
<1>1. "shared" \in causes => causes' = causes
  BY DEF Caused
<1>2. x = "shared" => "shared" \in causes'
  BY DEF Caused
<1>3. x # "shared" /\ "shared" \notin causes => causes' = causes \cup {x}
  BY DEF Caused
<1>. QED  BY <1>1, <1>2, <1>3 DEF Calm, Untouched

\* What happens is noted, or nothing is.
LEMMA CausesGrow ==
    ASSUME TInv, [Next]_vars
    PROVE  causes' = causes \/ \E x : causes' = Caused(x)
<1>1. ASSUME NEW c \in Calls, Command(c) PROVE causes' = causes
  BY <1>1, CommandPlaces
<1>2. ASSUME NEW c \in Calls, CallStart(c) \/ CallStop(c)
      PROVE  causes' = causes \/ \E x : causes' = Caused(x)
  BY <1>2 DEF CallStart, CallStop, Begin
<1>3. ASSUME NEW c \in Calls, \/ Check(c) \/ Create(c) \/ Enter(c) \/ StartRelay(c)
                              \/ Probe(c) \/ Apply(c) \/ SetMode(c) \/ Raise(c)
      PROVE  causes' = causes
  BY <1>3 DEF Check, Create, Enter, StartRelay, Probe, Apply, ApplySteps, SetMode,
              ModeBecomes, Raise, Drop
<1>4. ASSUME NEW c \in Calls, Remove(c) \/ Halt(c) \/ Stopped(c) \/ Forget(c)
      PROVE  causes' = causes \/ \E x : causes' = Caused(x)
  BY <1>4 DEF Remove, Halt, Stopped, ModeBecomes, Forget, Drop
<1>5. ASSUME NEW n \in Sessions, LoopRuns(n) PROVE causes' = causes
  BY <1>5 DEF LoopRuns
<1>6. ASSUME NEW p \in Procs, Signal(p) \/ Kill(p)
      PROVE  causes' = causes \/ \E x : causes' = Caused(x)
  BY <1>6 DEF Signal, Kill, Begin
<1>7. SudoExpires => \E x : causes' = Caused(x)
  BY DEF SudoExpires
<1>8. UNCHANGED vars \/ SudoReturns => causes' = causes
  BY DEF vars, SudoReturns
<1>. QED  BY <1>1, <1>2, <1>3, <1>4, <1>5, <1>6, <1>7, <1>8 DEF Next, StartStep, StopStep

LEMMA CalmBefore == TInv /\ [Next]_vars /\ Calm' => Calm
<1> SUFFICES ASSUME TInv, [Next]_vars, Calm' PROVE Calm
  OBVIOUS
<1>1. CASE causes' = causes
  BY <1>1 DEF Calm
<1>. QED  BY <1>1, CausesGrow, CausedKeeps

LEMMA NoSessionZero == 0 \notin Sessions
  BY DEF Sessions

LEMMA LaterSession ==
    ASSUME NEW n \in Sessions, NEW m \in Nat, n <= m
    PROVE  \A k \in Sessions : k > m => k # n
  BY DEF Sessions

LEMMA CleanInit == Init => CleanInv
<1> SUFFICES ASSUME Init, Calm PROVE Clean
  BY LoneInit DEF CleanInv
<1>1. PICK n \in 0..MaxRules, k \in 0..MaxJumps :
         \/ /\ jumps = k
            /\ causes = IF n > 1 \/ k > n THEN {"shared"} ELSE {"killed"}
         \/ /\ chain = [there |-> FALSE, to |-> << >>]
            /\ jumps = 0
            /\ causes = {}
  BY DEF Init
<1>2. n \in Nat /\ k \in Nat
  BY SessionAssumption
<1>3. jumps \in {0, 1} /\ Free /\ "early" \notin causes
  <2>1. CASE jumps = k /\ causes = IF n > 1 \/ k > n THEN {"shared"} ELSE {"killed"}
    <3>1. ~(n > 1 \/ k > n)
      BY <2>1 DEF Calm
    <3>2. causes = {"killed"} /\ k \in {0, 1}
      BY <1>2, <2>1, <3>1
    <3>. QED  BY <2>1, <3>2 DEF Free, Untouched
  <2>2. CASE chain = [there |-> FALSE, to |-> << >>] /\ jumps = 0 /\ causes = {}
    BY <2>2 DEF Free, Nothing
  <2>. QED  BY <1>1, <2>1, <2>2
<1>4. Base
  BY <1>3 DEF Init, Base, Listening
<1>5. AtRest
  BY <1>3 DEF Init, AtRest, Settled
<1>6. \A c \in Calls : Running(c)
  BY DEF Init, Running, NoCall
<1>. QED  BY <1>4, <1>5, <1>6 DEF Clean

\* A call makes a step, and is then at another place, or over.
LEMMA CleanStepOf ==
    ASSUME CleanInv, Calm, NEW c \in Calls, call[c].todo # << >>, NEW r,
           call' = [call EXCEPT ![c] = r], proc' = proc, Base', Only(proc[c])',
           r.todo # << >> => r.lone = call[c].lone /\ Staged(c)',
           r.todo = << >> => Settled(proc[c])'
    PROVE  Clean'
<1> DEFINE p == proc[c]
<1>1. Clean /\ Running(c) /\ LoneOf(c) /\ call \in [Calls -> CallType] /\ p \in Procs
  BY DEF CleanInv, Clean, LoneInv, TInv, RestOK
<1>2. call[c].lone /\ \A d \in Calls \ {c} : call[d].todo = << >>
  BY <1>1 DEF Running, LoneOf
<1>3. call'[c] = r /\ \A d \in Calls \ {c} : call'[d].todo = << >>
  BY <1>1, <1>2
<1>4. ASSUME NEW d \in Calls PROVE Running(d)'
  BY <1>2, <1>3 DEF Running
<1>5. ASSUME r.todo = << >> PROVE AtRest'
  <2>1. Settled(p)' /\ Only(p)'
    BY <1>5
  <2>2. api'[p] = 0 => Free'
    <3>1. 0 \notin Sessions
      BY DEF Sessions
    <3>. QED  BY <2>1, <3>1 DEF Settled, Serving
  <2>3. ASSUME NEW q \in Procs, Only(q)' PROVE Settled(q)'
    <3>1. CASE q = p
      BY <2>1, <3>1
    <3>2. CASE q # p
      <4>1. api'[p] = 0 /\ api'[q] = 0
        BY <1>1, <2>1, <2>3, <3>2 DEF Only
      <4>. QED  BY <2>2, <4>1 DEF Settled
    <3>. QED  BY <3>1, <3>2
  <2>. QED  BY <1>1, <2>2, <2>3 DEF AtRest
<1>6. AtRest'
  BY <1>3, <1>5 DEF AtRest
<1>. QED  BY <1>4, <1>6 DEF Clean

\* What is said of a process stays while its session, its relay and the table do.
Stays(p) ==
    /\ api'[p] = api[p] /\ UNCHANGED kernel /\ (Free => Free')
    /\ \A n \in Sessions : api[p] = n =>
          /\ session'[n] = session[n]
          /\ Listening(n)' = Listening(n) /\ (relay[n] = "none" => relay'[n] = "none")

LEMMA SettledStays ==
    ASSUME NEW p, Settled(p), Stays(p)
    PROVE  Settled(p)'
  BY DEF Settled, Stays, Serving, Made, OwnRule, kernel

LEMMA StagedStays ==
    ASSUME NEW c, NEW p, NEW t, NEW n, StagedIn(c, p, t, n), Stays(p), call'[c] = call[c],
           "early" \notin causes' => "early" \notin causes
    PROVE  StagedIn(c, p, t, n)'
<1>1. Settled(p) => Settled(p)'
  BY SettledStays
<1>2. \A m : Serving(p, m) => Serving(p, m)'
  BY DEF Stays, Serving
<1>3. \A m : Fresh(p, m) => Fresh(p, m)'
  BY DEF Stays, Fresh
<1>4. \A m, r, w : m \in Sessions /\ api[p] = m /\ Made(m, r, w) => Made(m, r, w)'
  BY DEF Stays, Made
<1>5. \A m : OwnRule(m) => OwnRule(m)'
  BY DEF Stays, OwnRule, kernel
<1>6. \A m \in Sessions : api[p] = m =>
         session'[m] = session[m] /\ Listening(m)' = Listening(m)
  BY DEF Stays
<1>7. api'[p] = api[p] /\ (Free => Free') /\ UNCHANGED kernel
  BY DEF Stays
<1>8. \A m : Serving(p, m) => m \in Sessions /\ api[p] = m
  BY DEF Serving
<1>. QED  BY <1>1, <1>2, <1>3, <1>4, <1>5, <1>6, <1>7, <1>8 DEF StagedIn, kernel

LEMMA Typed ==
    ASSUME TInv
    PROVE  /\ proc \in [Calls -> Procs] /\ made \in Nat /\ api \in [Procs -> 0..MaxSessions]
           /\ relay \in [Sessions -> {"none", "bound", "running", "stopped"}]
           /\ owns \in [Procs -> SUBSET Sessions] /\ call \in [Calls -> CallType]
           /\ session \in [Sessions -> SessionType]
<1>1. made \in 0..MaxSessions
  BY DEF TInv, RestOK
<1>2. made \in Nat
  BY <1>1, ZeroSession
<1>. QED  BY <1>2 DEF TInv, RestOK, SessionType

\* A process ends, killed at any moment or when it is done.
LEMMA CleanDie ==
    ASSUME CleanInv, Calm, NEW p \in Procs, Die(p), UNCHANGED <<fixed, kernel, creds, made>>,
           Untouched' => Nothing, "early" \notin causes' => "early" \notin causes
    PROVE  Clean'
<1>1. Base /\ AtRest /\ \A c \in Calls : Running(c)
  BY DEF CleanInv, Clean
<1>2. /\ proc \in [Calls -> Procs] /\ made \in Nat /\ api \in [Procs -> 0..MaxSessions]
      /\ relay \in [Sessions -> {"none", "bound", "running", "stopped"}]
      /\ owns \in [Procs -> SUBSET Sessions] /\ call \in [Calls -> CallType]
      /\ session \in [Sessions -> SessionType]
  BY Typed DEF CleanInv, LoneInv
<1>3. Free' /\ proc' = proc
  BY DEF Free, Nothing, kernel, fixed
<1>4. /\ \A d \in Calls : call'[d] = IF proc[d] = p THEN NoCall ELSE call[d]
      /\ api'[p] = 0 /\ owns'[p] = {}
      /\ \A q \in Procs \ {p} : api'[q] = api[q] /\ owns'[q] = owns[q]
      /\ \A n \in Sessions : relay'[n] = IF n \in owns[p] THEN "stopped" ELSE relay[n]
  BY <1>2 DEF Die
<1>5. /\ \A q \in Procs, n \in Sessions : api'[q] = n => session'[n] = session[n]
      /\ \A n \in Sessions : session'[n] = session[n] \/ session'[n] = NewSession
  BY DEF Die, Collect
<1>6. \A n \in Sessions : Listening(n)' => Listening(n) /\ n \notin owns[p]
  BY <1>4 DEF Listening
<1>7. ASSUME NEW q \in Procs, q # p PROVE Stays(q)
  <2>1. ASSUME NEW n \in Sessions, api[q] = n
        PROVE  /\ session'[n] = session[n]
               /\ Listening(n)' = Listening(n) /\ (relay[n] = "none" => relay'[n] = "none")
    <3>1. session'[n] = session[n]
      BY <1>4, <1>5, <1>7, <2>1
    <3>2. Listening(n) => n \notin owns[p]
      BY <1>1, <1>7, <2>1 DEF Base
    <3>3. relay[n] = "none" => n \notin owns[p]
      BY <1>1 DEF Base
    <3>. QED  BY <1>4, <3>1, <3>2, <3>3 DEF Listening
  <2>. QED  BY <1>3, <1>4, <1>7, <2>1 DEF Stays, kernel
<1>8. Base'
  <2>1. creds' /\ jumps' \in {0, 1} /\ made' = made
    BY <1>1 DEF Base, kernel
  <2>2. \A q \in Procs : api'[q] <= made'
    BY <1>1, <1>2, <1>4, <2>1 DEF Base
  <2>3. \A n \in Sessions : n > made' => session'[n] = NewSession /\ relay'[n] = "none"
    BY <1>1, <1>4, <1>5, <2>1 DEF Base
  <2>4. \A q \in Procs : \A n \in owns'[q] : relay'[n] # "none"
    BY <1>1, <1>2, <1>4 DEF Base
  <2>5. \A q, r \in Procs : api'[q] # 0 /\ api'[r] # 0 => q = r
    BY <1>1, <1>4 DEF Base
  <2>6. \A q \in Procs : \A n \in Sessions : api'[q] = n /\ Listening(n)' =>
            n \in owns'[q] /\ \A r \in Procs \ {q} : n \notin owns'[r]
    <3>1. 0 \notin Sessions
      BY DEF Sessions
    <3>. QED  BY <1>1, <1>4, <1>6, <3>1 DEF Base
  <2>7. "early" \notin causes' => \A n \in Sessions : Listening(n)' => \E q \in Procs : api'[q] = n
    BY <1>1, <1>4, <1>6 DEF Base
  <2>. QED  BY <2>1, <2>2, <2>3, <2>4, <2>5, <2>6, <2>7 DEF Base
<1>9. ASSUME NEW d \in Calls PROVE Running(d)'
  <2>1. CASE proc[d] = p
    BY <1>4, <2>1 DEF Running, NoCall
  <2>2. CASE proc[d] # p
    <3>1. call'[d] = call[d] /\ proc[d] \in Procs /\ proc'[d] = proc[d]
      BY <1>2, <1>3, <1>4, <2>2
    <3>2. Only(proc[d]) => Only(proc[d])'
      BY <1>3, <1>4 DEF Only
    <3>3. Staged(d) => Staged(d)'
      BY <1>7, <2>2, <3>1, StagedStays DEF Staged
    <3>. QED  BY <1>1, <3>1, <3>2, <3>3 DEF Running
  <2>. QED  BY <2>1, <2>2
<1>10. AtRest'
  <2>1. ASSUME \A d \in Calls : call'[d].todo = << >>, NEW q \in Procs, Only(q)'
        PROVE  Settled(q)'
    <3>1. CASE api'[q] = 0
      BY <1>3, <3>1 DEF Settled
    <3>2. CASE api'[q] # 0
      <4>1. q # p /\ api[q] # 0
        BY <1>4, <3>2
      <4>2. api[p] = 0 /\ Only(q)
        BY <1>1, <1>4, <2>1, <4>1 DEF Base, Only
      <4>3. \A d \in Calls : call[d].todo = << >>
        <5> SUFFICES ASSUME NEW d \in Calls, call[d].todo # << >> PROVE FALSE
          OBVIOUS
        <5>1. proc[d] = p
          BY <1>4, <2>1
        <5>. QED  BY <1>1, <4>1, <5>1 DEF Running, Only
      <4>. QED  BY <1>1, <1>7, <4>1, <4>2, <4>3, SettledStays DEF AtRest
    <3>. QED  BY <3>1, <3>2
  <2>. QED  BY <1>3, <2>1 DEF AtRest
<1>. QED  BY <1>8, <1>9, <1>10 DEF Clean

LEMMA Here ==
    ASSUME CleanInv, Calm, NEW c \in Calls, call[c].todo # << >>
    PROVE  /\ TInv /\ Base /\ AtRest /\ proc[c] \in Procs /\ call[c] \in CallType
           /\ call[c].lone /\ Only(proc[c]) /\ LoneOf(c) /\ ~LockTaken(c)
           /\ StagedIn(c, proc[c], call[c].todo, call[c].self)
<1>1. /\ TInv /\ Base /\ AtRest /\ LoneOf(c) /\ Running(c)
  BY DEF CleanInv, Clean, LoneInv
<1>2. proc[c] \in Procs /\ call[c] \in CallType
  BY <1>1, Typed
<1>3. ~LockTaken(c)
  BY <1>1 DEF Running, LoneOf, LockTaken, At, Idle, Todo
<1>. QED  BY <1>1, <1>2, <1>3 DEF Running, Staged

LEMMA CleanGo ==
    ASSUME CleanInv, Calm, NEW c \in Calls, call[c].todo # << >>, NEW t \in Lists, Go(c, t),
           UNCHANGED fixed, NEW p, p = proc[c], NEW n, n = call[c].self, Base', Only(p)',
           t # << >> /\ call'[c] = [call[c] EXCEPT !.todo = t] => StagedIn(c, p, t, n)',
           t = << >> => Settled(p)'
    PROVE  Clean'
<1> DEFINE r == Going(call[c], t)
<1>1. call[c] \in CallType /\ call' = [call EXCEPT ![c] = r] /\ proc' = proc
  BY DEF CleanInv, LoneInv, TInv, Go, fixed
<1>2. /\ r.todo = t
      /\ t # << >> => r = [call[c] EXCEPT !.todo = t]
  BY <1>1, GoingTo
<1>3. call'[c] = r
  BY <1>1 DEF CleanInv, LoneInv, TInv
<1>4. r.todo # << >> => r.lone = call[c].lone /\ Staged(c)'
  <2>1. t # << >> => r.lone = call[c].lone /\ call'[c].self = n /\ call'[c].todo = t
    BY <1>1, <1>2, <1>3 DEF CallType
  <2>. QED  BY <1>1, <1>2, <1>3, <2>1 DEF Staged
<1> HIDE DEF r
<1>5. Only(proc[c])' /\ (r.todo = << >> => Settled(proc[c])')
  BY <1>1, <1>2
<1>. QED  BY <1>1, <1>4, <1>5, CleanStepOf

LEMMA BaseStays ==
    ASSUME Base, UNCHANGED <<creds, made, api, relays>>, jumps' \in {0, 1},
           "early" \notin causes' => "early" \notin causes,
           \A n \in Sessions : n > made => session'[n] = session[n]
    PROVE  Base'
  BY DEF Base, relays, Listening

LEMMA CleanCheck ==
    ASSUME CleanInv, Calm, NEW c \in Calls, Check(c)
    PROVE  Clean'
<1>1. call[c].todo # << >>
  BY DEF Check, At, Idle, Todo
<1>2. PICK p \in Procs : p = proc[c]
  BY <1>1, Here
<1>3. PICK n : n = call[c].self
  OBVIOUS
<1>4. TInv /\ Base /\ Only(p) /\ StagedIn(c, p, call[c].todo, n)
  BY <1>1, <1>2, <1>3, Here
<1>5. PICK t \in {<< >>, lCreate} : /\ t = IF api[p] # 0 THEN << >> ELSE lCreate
                                    /\ call[c].todo = lCheck /\ Go(c, t)
  BY <1>2, <1>4, StartPlaces DEF Todo
<1>6. UNCHANGED <<fixed, kernel, creds, made, api, relays, session, causes>>
  BY DEF Check
<1>7. Settled(p)
  BY <1>4, <1>5, StagedAt
<1>8. Stays(p)
  BY <1>6 DEF Stays, Free, Untouched, Nothing, kernel, relays, Listening
<1>9. Settled(p)'
  BY <1>7, <1>8, SettledStays
<1>10. Base'
  BY <1>4, <1>6, BaseStays DEF kernel, Base
<1>11. Only(p)'
  BY <1>4, <1>6 DEF Only
<1>12. t # << >> => StagedIn(c, p, t, n)'
  <2>1. t # << >> => t = lCreate /\ api'[p] = 0
    BY <1>5, <1>6
  <2>2. 0 \notin Sessions
    BY DEF Sessions
  <2>3. t # << >> => Free'
    BY <1>9, <2>1, <2>2 DEF Settled, Serving
  <2>. QED  BY <2>1, <2>3 DEF StagedIn
<1>13. t \in Lists
  BY DEF Lists, SetupLists
<1>. QED  BY <1>1, <1>2, <1>3, <1>5, <1>6, <1>9, <1>10, <1>11, <1>12, <1>13, CleanGo

LEMMA CleanCreate ==
    ASSUME CleanInv, Calm, NEW c \in Calls, Create(c)
    PROVE  Clean'
<1>1. call[c].todo # << >>
  BY DEF Create, At, Idle, Todo
<1>2. PICK p \in Procs : p = proc[c]
  BY <1>1, Here
<1>3. PICK n : n = call[c].self
  OBVIOUS
<1>4. TInv /\ Base /\ Only(p) /\ StagedIn(c, p, call[c].todo, n) /\ call[c] \in CallType
  BY <1>1, <1>2, <1>3, Here
<1>5. call[c].todo = lCreate /\ call' = [call EXCEPT ![c] =
                                     [call[c] EXCEPT !.todo = lEnter, !.own = made + 1]]
  BY <1>4, <1>1, StartPlaces DEF Todo
<1>6. UNCHANGED <<fixed, kernel, creds, relays, session, causes>> /\ made' = made + 1
  BY DEF Create
<1>7. PICK m : m = made + 1
  OBVIOUS
<1>8. m \in Sessions /\ m > made /\ made \in Nat /\ api \in [Procs -> 0..MaxSessions]
  <2>1. made \in Nat /\ made < MaxSessions /\ api \in [Procs -> 0..MaxSessions]
    BY <1>4, Typed DEF Create
  <2>. QED  BY <1>7, <2>1, ZeroSession DEF Sessions
<1>9. api'[p] = m /\ \A q \in Procs \ {p} : api'[q] = 0
  <2>1. api' = [api EXCEPT ![p] = m]
    BY <1>2, <1>7 DEF Create
  <2>. QED  BY <1>4, <1>8, <2>1 DEF Only
<1>10. session[m] = NewSession /\ relay[m] = "none" /\ api[p] = 0 /\ Free
  <2>1. session[m] = NewSession /\ relay[m] = "none"
    BY <1>4, <1>8 DEF Base
  <2>. QED  BY <1>4, <1>5, <2>1, StagedAt
<1>11. Base'
  <2>1. creds' /\ jumps' \in {0, 1} /\ made' = m /\ session' = session /\ relay' = relay
        /\ owns' = owns /\ causes' = causes
    BY <1>4, <1>6, <1>7 DEF Base, kernel, relays
  <2>2. \A q \in Procs : api'[q] <= made'
    <3>1. 0 <= m /\ m <= m
      BY <1>8 DEF Sessions
    <3>2. \A q \in Procs : api'[q] \in {0, m}
      BY <1>9
    <3>. QED  BY <2>1, <3>1, <3>2
  <2>3. \A k \in Sessions : k > made' => session'[k] = NewSession /\ relay'[k] = "none"
    <3>1. \A k \in Sessions : k > m => k > made
      BY <1>7, <1>8 DEF Sessions
    <3>. QED  BY <1>4, <2>1, <3>1 DEF Base
  <2>4. \A q \in Procs : \A k \in owns'[q] : relay'[k] # "none"
    BY <1>4, <2>1 DEF Base
  <2>5. \A q, r \in Procs : api'[q] # 0 /\ api'[r] # 0 => q = r
    BY <1>9
  <2>6. ~Listening(m)' /\ \A k \in Sessions : Listening(k)' = Listening(k)
    BY <1>10, <2>1 DEF Listening
  <2>7. 0 \notin Sessions
    BY DEF Sessions
  <2>8. \A q \in Procs : \A k \in Sessions : api'[q] = k /\ Listening(k)' =>
            k \in owns'[q] /\ \A r \in Procs \ {q} : k \notin owns'[r]
    BY <1>9, <2>6, <2>7
  <2>9. "early" \notin causes' => \A k \in Sessions : Listening(k)' => \E q \in Procs : api'[q] = k
    <3>1. \A q \in Procs : api[q] = 0
      BY <1>4, <1>10 DEF Only
    <3>. QED  BY <1>4, <2>1, <2>6, <2>7, <3>1 DEF Base
  <2>. QED  BY <2>1, <2>2, <2>3, <2>4, <2>5, <2>8, <2>9 DEF Base
<1>12. Only(p)'
  BY <1>9 DEF Only
<1>13. PICK r : r = [call[c] EXCEPT !.todo = lEnter, !.own = m]
  OBVIOUS
<1>14. r.todo = lEnter /\ r.own = m /\ r.lone = call[c].lone /\ call' = [call EXCEPT ![c] = r]
  BY <1>4, <1>5, <1>7, <1>13 DEF CallType
<1>15. call'[c] = r /\ proc'[c] = p
  BY <1>2, <1>4, <1>6, <1>14 DEF TInv, fixed
<1>16. Fresh(p, m)' /\ Free'
  BY <1>6, <1>8, <1>9, <1>10 DEF Fresh, Free, Untouched, Nothing, kernel, relays
<1>17. Staged(c)'
  BY <1>14, <1>15, <1>16 DEF Staged, StagedIn
<1>18. Only(proc[c])' /\ r.todo # << >> /\ proc' = proc
  BY <1>6, <1>12, <1>14, <1>15, Heads DEF fixed
<1>. QED  BY <1>1, <1>11, <1>14, <1>17, <1>18, CleanStepOf

LEMMA CleanEnter ==
    ASSUME CleanInv, Calm, NEW c \in Calls, Enter(c)
    PROVE  Clean'
<1>1. call[c].todo # << >>
  BY DEF Enter, At, Idle, Todo
<1>2. PICK p \in Procs : p = proc[c]
  BY <1>1, Here
<1>3. PICK n : n = call[c].self
  OBVIOUS
<1>4. TInv /\ Base /\ Only(p) /\ StagedIn(c, p, call[c].todo, n) /\ call[c] \in CallType
  BY <1>1, <1>2, <1>3, Here
<1>5. call[c].todo = lEnter /\ call' = [call EXCEPT ![c] = [call[c] EXCEPT
              !.todo = IF api[p] = 0 THEN sEnd("raise") ELSE lRelay, !.self = api[p]]]
  BY <1>2, <1>4, StartPlaces DEF Todo
<1>6. UNCHANGED <<fixed, kernel, creds, made, api, relays, session, causes>>
  BY DEF Enter
<1>7. Fresh(p, call[c].own) /\ Free
  BY <1>4, <1>5, StagedAt
<1>8. api[p] = call[c].own /\ api[p] # 0
  BY <1>7 DEF Fresh, Sessions
<1>9. PICK r : r = [call[c] EXCEPT !.todo = lRelay, !.self = call[c].own]
  OBVIOUS
<1>10. r.todo = lRelay /\ r.self = call[c].own /\ r.own = call[c].own /\ r.lone = call[c].lone
       /\ call' = [call EXCEPT ![c] = r]
  BY <1>4, <1>5, <1>8, <1>9 DEF CallType
<1>11. call'[c] = r /\ proc'[c] = p /\ proc' = proc
  BY <1>2, <1>4, <1>6, <1>10 DEF TInv, fixed
<1>12. PICK m : m = call[c].own
  OBVIOUS
<1>13. Fresh(p, m)' /\ Free'
  BY <1>6, <1>7, <1>12 DEF Fresh, Free, Untouched, Nothing, kernel, relays
<1>14. Staged(c)'
  BY <1>10, <1>11, <1>12, <1>13 DEF Staged, StagedIn
<1>15. Base'
  BY <1>4, <1>6, BaseStays DEF kernel, Base
<1>16. Only(proc[c])' /\ r.todo # << >>
  BY <1>2, <1>4, <1>6, <1>10, <1>11, Heads DEF Only
<1>. QED  BY <1>1, <1>10, <1>11, <1>14, <1>15, <1>16, CleanStepOf

LEMMA CleanProbe ==
    ASSUME CleanInv, Calm, NEW c \in Calls, Probe(c)
    PROVE  Clean'
<1>1. call[c].todo # << >>
  BY DEF Probe, At, Idle, Todo
<1>2. PICK p \in Procs : p = proc[c]
  BY <1>1, Here
<1>3. PICK n : n = call[c].self
  OBVIOUS
<1>4. TInv /\ Base /\ Only(p) /\ StagedIn(c, p, call[c].todo, n) /\ call[c] \in CallType
  BY <1>1, <1>2, <1>3, Here
<1>5. call[c].todo = lProbe /\ Go(c, lApply)
  BY <1>4, StartPlaces DEF Todo, Base
<1>6. UNCHANGED <<fixed, kernel, creds, made, api, relays, causes>>
  BY DEF Probe
<1>7. Serving(p, n) /\ Made(n, 0, "idle") /\ Free
  BY <1>4, <1>5, StagedAt
<1>8. session' = [session EXCEPT ![n].redirector = session[n].thread]
  BY <1>3 DEF Probe, Self
<1>9. n \in Sessions /\ session \in [Sessions -> SessionType] /\ api[p] = n /\ n <= made
      /\ made \in Nat
  BY <1>4, <1>7, Typed DEF Serving, Base
<1>10. Made(n, n, "idle")' /\ \A k \in Sessions : k > made => session'[k] = session[k]
  <2>1. session'[n] = [session[n] EXCEPT !.redirector = session[n].thread]
    BY <1>8, <1>9
  <2>2. session'[n] = [thread |-> n, redirector |-> n, mode |-> "idle"]
    BY <1>7, <2>1 DEF Made
  <2>3. \A k \in Sessions : k > made => k # n
    BY <1>9 DEF Sessions
  <2>. QED  BY <1>8, <1>9, <2>2, <2>3 DEF Made
<1>11. Serving(p, n)' /\ Free'
  BY <1>6, <1>7 DEF Serving, Listening, relays, Free, Untouched, Nothing, kernel
<1>12. Base'
  BY <1>4, <1>6, <1>10, BaseStays DEF kernel, Base
<1>13. Only(p)' /\ lApply \in Lists /\ lApply # << >>
  BY <1>4, <1>6, Heads DEF Only, Lists, SetupLists
<1>14. StagedIn(c, p, lApply, n)'
  BY <1>10, <1>11 DEF StagedIn
<1>. QED  BY <1>1, <1>2, <1>3, <1>5, <1>6, <1>12, <1>13, <1>14, CleanGo

LEMMA CleanApply ==
    ASSUME CleanInv, Calm, NEW c \in Calls, Apply(c)
    PROVE  Clean'
<1>1. call[c].todo # << >>
  BY DEF Apply, ApplySteps, At, Idle, Todo
<1>2. PICK p \in Procs : p = proc[c]
  BY <1>1, Here
<1>3. PICK n : n = call[c].self
  OBVIOUS
<1>4. TInv /\ Base /\ Only(p) /\ StagedIn(c, p, call[c].todo, n) /\ call[c] \in CallType
  BY <1>1, <1>2, <1>3, Here
<1>5. call[c].todo = lApply /\ ApplySteps(c, aDelete)
  BY <1>4, StartPlaces DEF Todo
<1>6. UNCHANGED <<fixed, kernel, creds, made, api, relays, session, causes>>
  BY <1>5 DEF ApplySteps
<1>7. Serving(p, n) /\ Made(n, n, "idle") /\ Free
  BY <1>4, <1>5, StagedAt
<1>8. PICK r : r = [call[c] EXCEPT !.todo = aDelete, !.target = n, !.met = jumps]
  OBVIOUS
<1>9. call' = [call EXCEPT ![c] = r]
  <2>1. session[n].redirector = n
    BY <1>7 DEF Made
  <2>. QED  BY <1>3, <1>5, <1>8, <2>1 DEF ApplySteps, Self
<1>10. r.todo = aDelete /\ r.self = n /\ r.target = n /\ r.met \in {0, 1} /\ r.lone = call[c].lone
  BY <1>3, <1>4, <1>8 DEF CallType, Base
<1>11. call'[c] = r /\ proc'[c] = p /\ proc' = proc
  BY <1>2, <1>4, <1>6, <1>9 DEF TInv, fixed
<1>12. Serving(p, n)' /\ Made(n, n, "idle")' /\ Free'
  BY <1>6, <1>7 DEF Serving, Listening, relays, Made, Free, Untouched, Nothing, kernel
<1>13. aDelete \in ApplyLists /\ r.todo # << >>
  BY <1>10, Heads DEF ApplyLists
<1>14. Staged(c)'
  BY <1>10, <1>11, <1>12, <1>13 DEF Staged, StagedIn
<1>15. Base'
  BY <1>4, <1>6, BaseStays DEF kernel, Base
<1>16. Only(proc[c])'
  BY <1>2, <1>4, <1>6, <1>11 DEF Only
<1>. QED  BY <1>1, <1>9, <1>10, <1>11, <1>13, <1>14, <1>15, <1>16, CleanStepOf

LEMMA CleanStartRelay ==
    ASSUME CleanInv, Calm, NEW c \in Calls, StartRelay(c)
    PROVE  Clean'
<1>1. call[c].todo # << >>
  BY DEF StartRelay, At, Idle, Todo
<1>2. PICK p \in Procs : p = proc[c]
  BY <1>1, Here
<1>3. PICK n : n = call[c].self
  OBVIOUS
<1>4. /\ TInv /\ Base /\ Only(p) /\ StagedIn(c, p, call[c].todo, n) /\ call[c] \in CallType
      /\ call[c].lone /\ LoneOf(c) /\ ~LockTaken(c)
  BY <1>1, <1>2, <1>3, Here
<1>5. call[c].todo = lRelay
  BY <1>4, StartPlaces DEF Todo
<1>6. Fresh(p, n) /\ n = call[c].own /\ Free
  BY <1>4, <1>5, StagedAt
<1>7. UNCHANGED <<fixed, kernel, creds, made, api, causes>>
  BY DEF StartRelay
<1>8. /\ n \in Sessions /\ api[p] = n /\ n <= made /\ made \in Nat /\ n # 0
      /\ session[n] = NewSession /\ relay[n] = "none"
      /\ session \in [Sessions -> SessionType] /\ owns \in [Procs -> SUBSET Sessions]
      /\ relay \in [Sessions -> {"none", "bound", "running", "stopped"}]
  BY <1>4, <1>6, Typed DEF Fresh, Base, Sessions
<1>9. Only(p)' /\ Free'
  BY <1>4, <1>6, <1>7 DEF Only, Free, Untouched, Nothing, kernel
<1>10. /\ lProbe \in Lists /\ lProbe # << >> /\ << >> \in Lists
       /\ sEnd("raise") \in Lists /\ sEnd("raise") # << >>
  BY Heads DEF Lists, SetupLists, StopLists, Ends
<1>11. ASSUME relay' = [relay EXCEPT ![n] = "bound"],
              owns' = [owns EXCEPT ![p] = owns[p] \cup {n}],
              NEW w \in {"idle", "relay_only"},
              session'[n] = [thread |-> n, redirector |-> 0, mode |-> w],
              \A k \in Sessions \ {n} : session'[k] = session[k]
       PROVE  Base' /\ Serving(p, n)' /\ Made(n, 0, w)'
  <2>1. relay'[n] = "bound" /\ \A k \in Sessions \ {n} : relay'[k] = relay[k]
    BY <1>8, <1>11
  <2>2. owns'[p] = owns[p] \cup {n} /\ \A q \in Procs \ {p} : owns'[q] = owns[q]
    BY <1>8, <1>11
  <2>3. \A k \in Sessions : k > made => k # n
    BY <1>8, LaterSession
  <2>4. \A q \in Procs : n \notin owns[q]
    BY <1>4, <1>8 DEF Base
  <2>5. \A k \in Sessions \ {n} : \A q \in Procs : api[q] # k
    BY <1>4, <1>8, NoSessionZero DEF Only
  <2>6. Listening(n)' /\ \A k \in Sessions \ {n} : Listening(k)' = Listening(k)
    BY <2>1 DEF Listening
  <2>7. creds' /\ jumps' \in {0, 1} /\ made' = made /\ api' = api /\ causes' = causes
    BY <1>4, <1>7 DEF Base, kernel
  <2>8. \A k \in Sessions : k > made' => session'[k] = NewSession /\ relay'[k] = "none"
    BY <1>4, <1>11, <2>1, <2>3, <2>7 DEF Base
  <2>9. ASSUME NEW q \in Procs, NEW k \in owns'[q] PROVE relay'[k] # "none"
    <3>1. k = n \/ k \in owns[q]
      BY <2>2
    <3>2. k \in Sessions
      BY <1>8, <3>1
    <3>3. k \in owns[q] => relay[k] # "none"
      BY <1>4 DEF Base
    <3>. QED  BY <2>1, <3>1, <3>2, <3>3
  <2>10. \A q \in Procs : \A k \in Sessions : api'[q] = k /\ Listening(k)' =>
            k \in owns'[q] /\ \A r \in Procs \ {q} : k \notin owns'[r]
    <3>1. \A q \in Procs : api[q] = n => q = p
      BY <1>4, <1>8 DEF Only
    <3>. QED  BY <2>2, <2>4, <2>5, <2>7, <3>1
  <2>11. "early" \notin causes' => \A k \in Sessions : Listening(k)' => \E q \in Procs : api'[q] = k
    BY <1>4, <1>8, <2>6, <2>7 DEF Base
  <2>12. Base'
    <3>1. \A q \in Procs : api'[q] <= made'
      BY <1>4, <2>7 DEF Base
    <3>2. \A q, r \in Procs : api'[q] # 0 /\ api'[r] # 0 => q = r
      BY <1>4, <2>7 DEF Base
    <3>. QED  BY <2>7, <2>8, <2>9, <2>10, <2>11, <3>1, <3>2 DEF Base
  <2>13. Serving(p, n)' /\ Made(n, 0, w)'
    BY <1>8, <1>11, <2>6, <2>7 DEF Serving, Made
  <2>. QED  BY <2>12, <2>13
<1>12. \/ /\ relay' = [relay EXCEPT ![n] = "bound"]
          /\ owns' = [owns EXCEPT ![p] = owns[p] \cup {n}]
          /\ \/ session' = [session EXCEPT ![n].thread = n] /\ Go(c, lProbe)
             \/ session' = [session EXCEPT ![n].thread = n, ![n].mode = "relay_only"] /\ Go(c, << >>)
       \/ UNCHANGED <<relays, session>> /\ Go(c, sEnd("raise"))
  BY <1>2, <1>3, <1>5, <1>6, SetupTails, Beginnings DEF StartRelay, Proceed, Self, Todo
<1>13. CASE /\ relay' = [relay EXCEPT ![n] = "bound"]
            /\ owns' = [owns EXCEPT ![p] = owns[p] \cup {n}]
            /\ session' = [session EXCEPT ![n].thread = n] /\ Go(c, lProbe)
  <2>1. session'[n] = [thread |-> n, redirector |-> 0, mode |-> "idle"]
    BY <1>8, <1>13 DEF NewSession
  <2>2. \A k \in Sessions \ {n} : session'[k] = session[k]
    BY <1>8, <1>13
  <2>3. Base' /\ Serving(p, n)' /\ Made(n, 0, "idle")'
    BY <1>11, <1>13, <2>1, <2>2
  <2>4. StagedIn(c, p, lProbe, n)'
    BY <1>9, <2>3 DEF StagedIn
  <2>. QED  BY <1>1, <1>2, <1>3, <1>7, <1>9, <1>10, <1>13, <2>3, <2>4, CleanGo
<1>14. CASE /\ relay' = [relay EXCEPT ![n] = "bound"]
            /\ owns' = [owns EXCEPT ![p] = owns[p] \cup {n}]
            /\ session' = [session EXCEPT ![n].thread = n, ![n].mode = "relay_only"] /\ Go(c, << >>)
  <2>1. session'[n] = [thread |-> n, redirector |-> 0, mode |-> "relay_only"]
    <3>1. session'[n] = [session[n] EXCEPT !.thread = n, !.mode = "relay_only"]
      BY <1>8, <1>14
    <3>2. session'[n] = [NewSession EXCEPT !.thread = n, !.mode = "relay_only"]
      BY <1>8, <3>1
    <3>. QED  BY <3>2 DEF NewSession
  <2>2. \A k \in Sessions \ {n} : session'[k] = session[k]
    BY <1>8, <1>14
  <2>3. Base' /\ Serving(p, n)' /\ Made(n, 0, "relay_only")'
    BY <1>11, <1>14, <2>1, <2>2
  <2>4. Settled(p)'
    BY <1>9, <2>3 DEF Settled, Serving
  <2>. QED  BY <1>1, <1>2, <1>3, <1>7, <1>9, <1>10, <1>14, <2>3, <2>4, CleanGo
<1>15. CASE UNCHANGED <<relays, session>> /\ Go(c, sEnd("raise"))
  <2>1. Base'
    BY <1>4, <1>7, <1>15, BaseStays DEF kernel, Base
  <2>2. api'[p] = n /\ ~Listening(n)'
    BY <1>7, <1>8, <1>15 DEF Listening, relays
  <2>3. StagedIn(c, p, sEnd("raise"), n)'
    BY <1>8, <1>9, <2>2 DEF StagedIn
  <2>. QED  BY <1>1, <1>2, <1>3, <1>7, <1>9, <1>10, <1>15, <2>1, <2>3, CleanGo
<1>. QED  BY <1>12, <1>13, <1>14, <1>15

\* A command of apply: over one jump at most it succeeds.
LEMMA CleanApplying ==
    ASSUME CleanInv, Calm, LoneInv', NEW c \in Calls, Command(c), NEW t \in ApplyLists,
           NEW u \in (ApplyLists \ {aDelete}) \cup {uDelete}, From(c, t, u)
    PROVE  Clean'
<1>1. call[c].todo # << >>
  BY DEF Command, At, Idle, Todo
<1>2. PICK p \in Procs : p = proc[c]
  BY <1>1, Here
<1>3. PICK n : n = call[c].self
  OBVIOUS
<1>4. /\ TInv /\ Base /\ Only(p) /\ StagedIn(c, p, call[c].todo, n) /\ call[c] \in CallType
      /\ call[c].lone /\ LoneOf(c) /\ ~LockTaken(c)
  BY <1>1, <1>2, <1>3, Here
<1>5. UNCHANGED <<fixed, creds, made, api, relays, session, causes>>
  BY <1>4, CommandPlaces
<1>6. Serving(p, n) /\ Made(n, n, "idle") /\ call[c].target = n /\ call[c].met \in {0, 1}
  BY <1>4, StagedAt DEF From, Todo
<1>7. u \in Lists /\ u # << >>
  BY Heads DEF Lists, ApplyLists, UndoLists
<1>8. call'[c] = [call[c] EXCEPT !.todo = u]
  BY <1>4, <1>7, GoingTo DEF From, Go, TInv
<1>9. /\ call'[c].todo = u /\ call'[c].self = n /\ call'[c].target = n
      /\ call'[c].met = call[c].met /\ call'[c].lone
  BY <1>3, <1>4, <1>6, <1>8 DEF CallType
<1>10. Alone(call'[c], creds', chain', jumps')
  BY <1>7, <1>9 DEF LoneInv, LoneOf
<1>11. Left(call[c].met) = 0
  BY <1>6 DEF Left
<1>12. u # uDelete /\ jumps' \in {0, 1}
  <2>1. u # uDelete
    BY <1>9, <1>10, <1>11 DEF Alone
  <2>2. u \in {aFlush, aDrop, aNew, aRule, aJump, aMode}
    BY <2>1 DEF ApplyLists
  <2>. QED  BY <1>9, <1>10, <1>11, <2>1, <2>2 DEF Alone
<1>13. u \in ApplyLists /\ u # aDelete
  BY <1>12
<1>14. Serving(p, n)' /\ Made(n, n, "idle")'
  BY <1>5, <1>6 DEF Serving, Listening, relays, Made
<1>15. StagedIn(c, p, u, n)'
  BY <1>6, <1>9, <1>13, <1>14 DEF StagedIn
<1>16. Base'
  BY <1>4, <1>5, <1>12, BaseStays
<1>17. Only(p)'
  BY <1>4, <1>5 DEF Only
<1>. QED  BY <1>1, <1>2, <1>3, <1>5, <1>7, <1>15, <1>16, <1>17, CleanGo DEF From

\* A command of a stop: it takes back what is installed.
LEMMA CleanRemoving ==
    ASSUME CleanInv, Calm, NEW c \in Calls, Command(c), NEW last \in Ends,
           \/ From(c, sDelete(last), sFlush(last)) /\ Runs(c, "-D_OUTPUT")
           \/ From(c, sFlush(last), sDrop(last)) /\ Runs(c, "-F")
           \/ From(c, sDrop(last), sHalt(last)) /\ Runs(c, "-X")
    PROVE  Clean'
<1>1. call[c].todo # << >>
  BY DEF Command, At, Idle, Todo
<1>2. PICK p \in Procs : p = proc[c]
  BY <1>1, Here
<1>3. PICK n : n = call[c].self
  OBVIOUS
<1>4. /\ TInv /\ Base /\ Only(p) /\ StagedIn(c, p, call[c].todo, n) /\ call[c] \in CallType
      /\ call[c].lone /\ LoneOf(c) /\ ~LockTaken(c)
  BY <1>1, <1>2, <1>3, Here
<1>5. UNCHANGED <<fixed, creds, made, api, relays, session, causes>>
  BY <1>4, CommandPlaces
<1>6. PICK t \in {sDelete(last), sFlush(last), sDrop(last)},
           u \in {sFlush(last), sDrop(last), sHalt(last)} : From(c, t, u)
  OBVIOUS
<1>7. last = "forget"
  BY <1>4, <1>6, StagedAt DEF From, Todo
<1>8. Serving(p, n) /\ session[n].thread = n
  BY <1>4, <1>6, StagedAt DEF From, Todo
<1>9. Serving(p, n)' /\ session'[n].thread = n /\ Only(p)'
  BY <1>4, <1>5, <1>8 DEF Serving, Listening, relays, Only
<1>10. creds
  BY <1>4 DEF Base
<1>11. CASE From(c, sDelete(last), sFlush(last)) /\ Runs(c, "-D_OUTPUT")
  <2>1. jumps = 1 /\ chain.there
    <3>1. OwnRule(n)
      BY <1>4, <1>11, StagedAt DEF From, Todo
    <3>. QED  BY <3>1 DEF OwnRule
  <2>2. jumps' = 0 /\ chain' = chain
    BY <1>4, <1>10, <1>11, <2>1 DEF Runs, Done, Fails, Possible, Effect
  <2>3. StagedIn(c, p, sFlush(last), n)'
    BY <1>7, <1>9, <2>1, <2>2 DEF StagedIn
  <2>4. Base'
    BY <1>4, <1>5, <2>2, BaseStays
  <2>5. sFlush(last) \in Lists /\ sFlush(last) # << >>
    BY Heads DEF Lists, StopLists
  <2>. QED  BY <1>1, <1>2, <1>3, <1>5, <1>9, <1>11, <2>3, <2>4, <2>5, CleanGo DEF From
<1>12. CASE From(c, sFlush(last), sDrop(last)) /\ Runs(c, "-F")
  <2>1. jumps = 0 /\ chain.there
    BY <1>4, <1>12, StagedAt DEF From, Todo
  <2>2. jumps' = 0 /\ chain' = [chain EXCEPT !.to = << >>]
    BY <1>4, <1>10, <1>12, <2>1 DEF Runs, Done, Fails, Possible, Effect
  <2>3. chain'.there /\ chain'.to = << >>
    BY <1>4, <2>1, <2>2 DEF TInv, KernelOK
  <2>4. StagedIn(c, p, sDrop(last), n)'
    BY <1>7, <1>9, <2>2, <2>3 DEF StagedIn
  <2>5. Base'
    BY <1>4, <1>5, <2>2, BaseStays
  <2>6. sDrop(last) \in Lists /\ sDrop(last) # << >>
    BY Heads DEF Lists, StopLists
  <2>. QED  BY <1>1, <1>2, <1>3, <1>5, <1>9, <1>12, <2>4, <2>5, <2>6, CleanGo DEF From
<1>13. CASE From(c, sDrop(last), sHalt(last)) /\ Runs(c, "-X")
  <2>1. jumps = 0 /\ chain.there /\ chain.to = << >>
    BY <1>4, <1>13, StagedAt DEF From, Todo
  <2>2. jumps' = 0 /\ chain' = [chain EXCEPT !.there = FALSE]
    BY <1>4, <1>10, <1>13, <2>1 DEF Runs, Done, Fails, Possible, Effect
  <2>3. ~chain'.there
    BY <1>4, <2>2 DEF TInv, KernelOK
  <2>4. Free'
    BY <2>2, <2>3 DEF Free, Nothing
  <2>5. StagedIn(c, p, sHalt(last), n)'
    BY <1>7, <1>9, <2>4 DEF StagedIn
  <2>6. Base'
    BY <1>4, <1>5, <2>2, BaseStays
  <2>7. sHalt(last) \in Lists /\ sHalt(last) # << >>
    BY Heads DEF Lists, StopLists
  <2>. QED  BY <1>1, <1>2, <1>3, <1>5, <1>9, <1>13, <2>5, <2>6, <2>7, CleanGo DEF From
<1>. QED  BY <1>11, <1>12, <1>13

LEMMA CleanCommand ==
    ASSUME CleanInv, Calm, LoneInv', NEW c \in Calls, Command(c)
    PROVE  Clean'
<1>1. TInv
  BY DEF CleanInv, LoneInv
<1>2. /\ {aDelete, aFlush, aDrop, aNew, aRule, aJump, aMode} = ApplyLists
      /\ aDelete \notin {aFlush, aDrop, aNew, aRule, aJump, aMode}
      /\ {uDelete, uFlush, uDrop} = UndoLists
  BY Heads DEF ApplyLists, UndoLists
<1>3. call[c].todo \notin UndoLists
  <2>1. call[c].todo # << >>
    BY DEF Command, At, Idle, Todo
  <2>. QED  BY <2>1, Here, StagedAt
<1>4. \A t, u : From(c, t, u) => t \notin UndoLists
  BY <1>3 DEF From, Todo
<1>. QED  BY <1>1, <1>2, <1>4, CommandPlaces, CleanApplying, CleanRemoving

\* The session is intercepting, and its own rule is there.
LEMMA CleanSetMode ==
    ASSUME CleanInv, Calm, NEW c \in Calls, SetMode(c)
    PROVE  Clean'
<1>1. call[c].todo # << >>
  BY DEF SetMode, ModeBecomes, At, Idle, Todo
<1>2. PICK p \in Procs : p = proc[c]
  BY <1>1, Here
<1>3. PICK n : n = call[c].self
  OBVIOUS
<1>4. /\ TInv /\ Base /\ Only(p) /\ StagedIn(c, p, call[c].todo, n) /\ call[c] \in CallType
      /\ call[c].lone /\ LoneOf(c)
  BY <1>1, <1>2, <1>3, Here
<1>5. call[c].todo = aMode /\ Go(c, << >>)
  BY <1>4, StartPlaces DEF From, Todo
<1>6. UNCHANGED <<fixed, kernel, creds, made, api, relays, causes>>
  BY DEF SetMode, ModeBecomes
<1>7. Serving(p, n) /\ Made(n, n, "idle") /\ call[c].target = n
  <2>1. aMode \in ApplyLists
    BY DEF ApplyLists
  <2>. QED  BY <1>4, <1>5, <2>1, StagedAt
<1>8. OwnRule(n)'
  <2>1. Alone(call[c], creds, chain, jumps)
    BY <1>1, <1>4 DEF LoneOf
  <2>. QED  BY <1>5, <1>6, <1>7, <2>1 DEF Alone, OwnRule, kernel
<1>9. n \in Sessions /\ n <= made /\ made \in Nat /\ session \in [Sessions -> SessionType]
  BY <1>4, <1>7, Typed DEF Serving, Base
<1>10. session' = [session EXCEPT ![n].mode = "intercepting"]
  BY <1>3 DEF SetMode, ModeBecomes, Self
<1>11. Made(n, n, "intercepting")'
  <2>1. session'[n] = [session[n] EXCEPT !.mode = "intercepting"]
    BY <1>9, <1>10
  <2>. QED  BY <1>7, <2>1 DEF Made
<1>12. Base'
  <2>1. \A k \in Sessions : k > made => session'[k] = session[k]
    BY <1>9, <1>10, LaterSession
  <2>. QED  BY <1>4, <1>6, <2>1, BaseStays DEF kernel, Base
<1>13. Only(p)' /\ Serving(p, n)' /\ api'[p] = n
  BY <1>4, <1>6, <1>7 DEF Only, Serving, Listening, relays
<1>14. Settled(p)'
  BY <1>8, <1>11, <1>13 DEF Settled
<1>15. << >> \in Lists
  BY DEF Lists
<1>. QED  BY <1>1, <1>2, <1>3, <1>5, <1>6, <1>12, <1>13, <1>14, <1>15, CleanGo

\* A stop begins: a session with a redirector has its own rule, another one has none.
LEMMA CleanRemove ==
    ASSUME CleanInv, Calm, NEW c \in Calls, Remove(c)
    PROVE  Clean'
<1>1. call[c].todo # << >>
  BY DEF Remove, At, Idle, Todo
<1>2. PICK p \in Procs : p = proc[c]
  BY <1>1, Here
<1>3. PICK n : n = call[c].self
  OBVIOUS
<1>4. /\ TInv /\ Base /\ Only(p) /\ StagedIn(c, p, call[c].todo, n) /\ call[c] \in CallType
      /\ call[c].lone /\ LoneOf(c)
  BY <1>1, <1>2, <1>3, Here
<1>5. PICK last \in Ends :
         /\ call[c].todo = sRemove(last)
         /\ Go(c, IF session[n].redirector # 0 THEN sDelete(last) ELSE sHalt(last))
  BY <1>3, <1>4, StopPlaces DEF Todo, Self
<1>6. UNCHANGED <<fixed, kernel, creds, made, api, relays, session, causes>>
  BY DEF Remove
<1>7. last = "forget" /\ api[p] = n /\ n # 0 /\ Settled(p)
  BY <1>4, <1>5, StagedAt
<1>8. Serving(p, n) /\ \/ Made(n, 0, "relay_only") /\ Free
                       \/ Made(n, n, "intercepting") /\ OwnRule(n)
  BY <1>7 DEF Settled
<1>9. Serving(p, n)' /\ session' = session /\ Only(p)' /\ Stays(p)
  BY <1>4, <1>6, <1>8
     DEF Serving, Listening, relays, Only, Stays, Free, Untouched, Nothing, kernel
<1>10. Base'
  BY <1>4, <1>6, BaseStays DEF kernel, Base
<1>11. /\ sHalt(last) \in Lists /\ sHalt(last) # << >>
       /\ sDelete(last) \in Lists /\ sDelete(last) # << >>
  BY Heads DEF Lists, StopLists
<1>12. CASE Made(n, 0, "relay_only") /\ Free
  <2>1. session[n].redirector = 0 /\ session[n].thread = n
    BY <1>12 DEF Made
  <2>2. Go(c, sHalt(last))
    BY <1>5, <2>1
  <2>3. session'[n].thread = n /\ Free'
    BY <1>9, <1>12, <2>1 DEF Stays
  <2>4. StagedIn(c, p, sHalt(last), n)'
    BY <1>7, <1>9, <2>3 DEF StagedIn
  <2>. QED  BY <1>1, <1>2, <1>3, <1>6, <1>9, <1>10, <1>11, <2>2, <2>4, CleanGo
<1>13. CASE Made(n, n, "intercepting") /\ OwnRule(n)
  <2>1. Go(c, sDelete(last))
    BY <1>5, <1>7, <1>13 DEF Made
  <2>2. OwnRule(n)' /\ session'[n].thread = n
    BY <1>6, <1>13 DEF OwnRule, kernel, Made
  <2>3. StagedIn(c, p, sDelete(last), n)'
    BY <1>7, <1>9, <2>2 DEF StagedIn
  <2>. QED  BY <1>1, <1>2, <1>3, <1>6, <1>9, <1>10, <1>11, <2>1, <2>3, CleanGo
<1>. QED  BY <1>8, <1>12, <1>13

\* The relay is stopped, unless its loop does not run yet.
LEMMA CleanHalt ==
    ASSUME CleanInv, Calm, Calm', NEW c \in Calls, Halt(c)
    PROVE  Clean'
<1>1. call[c].todo # << >>
  BY DEF Halt, At, Idle, Todo
<1>2. PICK p \in Procs : p = proc[c]
  BY <1>1, Here
<1>3. PICK n : n = call[c].self
  OBVIOUS
<1>4. /\ TInv /\ Base /\ Only(p) /\ StagedIn(c, p, call[c].todo, n) /\ call[c] \in CallType
      /\ call[c].lone /\ LoneOf(c)
  BY <1>1, <1>2, <1>3, Here
<1>5. PICK last \in Ends : call[c].todo = sHalt(last) /\ Go(c, sStopped(last))
  BY <1>4, StopPlaces DEF From, Todo
<1>6. UNCHANGED <<fixed, kernel, creds, made, api, owns, session>>
  BY DEF Halt
<1>7. last = "forget" /\ Serving(p, n) /\ session[n].thread = n /\ Free
  BY <1>4, <1>5, StagedAt
<1>8. /\ n \in Sessions /\ n # 0 /\ api[p] = n /\ n <= made /\ made \in Nat
      /\ relay \in [Sessions -> {"none", "bound", "running", "stopped"}]
      /\ owns \in [Procs -> SUBSET Sessions]
  BY <1>4, <1>7, Typed, NoSessionZero DEF Serving, Base
<1>9. /\ relay' = IF relay[n] = "running" THEN [relay EXCEPT ![n] = "stopped"] ELSE relay
      /\ causes' = IF relay[n] = "bound" THEN Caused("early") ELSE causes
  BY <1>3, <1>7, <1>8 DEF Halt, Self
<1>10. /\ Untouched' => Untouched
       /\ "early" \notin causes' => "early" \notin causes /\ relay[n] # "bound"
  <2>1. CASE relay[n] = "bound"
    BY <1>9, <2>1, CausedKeeps
  <2>2. CASE relay[n] # "bound"
    BY <1>9, <2>2 DEF Untouched
  <2>. QED  BY <2>1, <2>2
<1>11. /\ relay'[n] \in {"bound", "stopped"}
       /\ relay[n] # "bound" => relay'[n] = "stopped"
       /\ \A k \in Sessions \ {n} : relay'[k] = relay[k]
  <2>1. relay[n] \in {"bound", "running"}
    BY <1>7 DEF Serving, Listening
  <2>. QED  BY <1>8, <1>9, <2>1
<1>12. Free' /\ Only(p)' /\ ("early" \notin causes' => ~Listening(n)')
  BY <1>4, <1>6, <1>7, <1>10, <1>11 DEF Free, Nothing, kernel, Only, Listening
<1>13. \A k \in Sessions : Listening(k)' => Listening(k)
  BY <1>7, <1>11 DEF Listening, Serving
<1>14. Base'
  <2>1. creds' /\ jumps' \in {0, 1} /\ made' = made /\ api' = api /\ owns' = owns
    BY <1>4, <1>6 DEF Base, kernel
  <2>2. \A k \in Sessions : k > made' => session'[k] = NewSession /\ relay'[k] = "none"
    <3>1. \A k \in Sessions : k > made => k # n
      BY <1>8, LaterSession
    <3>. QED  BY <1>4, <1>6, <1>11, <2>1, <3>1 DEF Base
  <2>3. ASSUME NEW q \in Procs, NEW k \in owns'[q] PROVE relay'[k] # "none"
    <3>1. k \in Sessions /\ relay[k] # "none"
      BY <1>4, <1>8, <2>1 DEF Base
    <3>. QED  BY <1>11, <3>1
  <2>4. \A q \in Procs : \A k \in Sessions : api'[q] = k /\ Listening(k)' =>
            k \in owns'[q] /\ \A r \in Procs \ {q} : k \notin owns'[r]
    BY <1>4, <1>13, <2>1 DEF Base
  <2>5. "early" \notin causes' => \A k \in Sessions : Listening(k)' => \E q \in Procs : api'[q] = k
    BY <1>4, <1>10, <1>13, <2>1 DEF Base
  <2>6. /\ \A q \in Procs : api'[q] <= made'
        /\ \A q, r \in Procs : api'[q] # 0 /\ api'[r] # 0 => q = r
    BY <1>4, <2>1 DEF Base
  <2>. QED  BY <2>1, <2>2, <2>3, <2>4, <2>5, <2>6 DEF Base
<1>15. sStopped(last) \in Lists /\ sStopped(last) # << >>
  BY Heads DEF Lists, StopLists
<1>16. StagedIn(c, p, sStopped(last), n)'
  BY <1>6, <1>7, <1>8, <1>12 DEF StagedIn
<1>. QED  BY <1>1, <1>2, <1>3, <1>5, <1>6, <1>12, <1>14, <1>15, <1>16, CleanGo

\* The session says it is stopped.
LEMMA CleanStopped ==
    ASSUME CleanInv, Calm, NEW c \in Calls, Stopped(c)
    PROVE  Clean'
<1>1. call[c].todo # << >>
  BY DEF Stopped, ModeBecomes, At, Idle, Todo
<1>2. PICK p \in Procs : p = proc[c]
  BY <1>1, Here
<1>3. PICK n : n = call[c].self
  OBVIOUS
<1>4. /\ TInv /\ Base /\ Only(p) /\ StagedIn(c, p, call[c].todo, n) /\ call[c] \in CallType
      /\ call[c].lone /\ LoneOf(c)
  BY <1>1, <1>2, <1>3, Here
<1>5. PICK last \in Ends : call[c].todo = sStopped(last) /\ Go(c, sEnd(last))
  BY <1>4, StopPlaces DEF From, Todo
<1>6. UNCHANGED <<fixed, kernel, creds, made, api, relays, causes>>
  BY DEF Stopped, ModeBecomes
<1>7. last = "forget"
  BY <1>4, <1>5, StagedAt
<1>8. n \in Sessions /\ api[p] = n /\ Free /\ ("early" \notin causes => ~Listening(n))
  BY <1>4, <1>5, StagedAt
<1>9. n <= made /\ made \in Nat /\ session' = [session EXCEPT ![n].mode = "stopped"]
      /\ session \in [Sessions -> SessionType]
  BY <1>3, <1>4, <1>8, Typed DEF Stopped, ModeBecomes, Self, Base
<1>10. Base'
  <2>1. \A k \in Sessions : k > made => session'[k] = session[k]
    BY <1>8, <1>9, LaterSession
  <2>. QED  BY <1>4, <1>6, <2>1, BaseStays DEF kernel, Base
<1>11. api'[p] = n /\ Free' /\ ("early" \notin causes' => ~Listening(n)') /\ Only(p)'
  BY <1>4, <1>6, <1>8 DEF Free, Untouched, Nothing, kernel, relays, Listening, Only
<1>12. sEnd(last) \in Lists /\ sEnd(last) # << >>
  BY Heads DEF Lists, StopLists
<1>13. StagedIn(c, p, sEnd(last), n)'
  BY <1>7, <1>8, <1>11 DEF StagedIn
<1>. QED  BY <1>1, <1>2, <1>3, <1>5, <1>6, <1>10, <1>11, <1>12, <1>13, CleanGo

\* The front end gives the session up.
LEMMA CleanDrop ==
    ASSUME CleanInv, Calm, NEW c \in Calls, Raise(c) \/ Forget(c)
    PROVE  Clean'
<1>1. call[c].todo # << >>
  BY DEF Raise, Forget, At, Idle, Todo
<1>2. PICK p \in Procs : p = proc[c]
  BY <1>1, Here
<1>3. PICK n : n = call[c].self
  OBVIOUS
<1>4. /\ TInv /\ Base /\ Only(p) /\ StagedIn(c, p, call[c].todo, n) /\ call[c] \in CallType
      /\ call[c].lone /\ LoneOf(c)
  BY <1>1, <1>2, <1>3, Here
<1>5. PICK last \in Ends : call[c].todo = sEnd(last)
  BY <1>4, StartPlaces, StopPlaces DEF Todo, Ends
<1>6. Drop(c) /\ UNCHANGED <<fixed, kernel, creds, made, causes>>
  BY DEF Raise, Forget, Drop
<1>7. n \in Sessions /\ api[p] = n /\ Free /\ ("early" \notin causes => ~Listening(n))
  BY <1>4, <1>5, StagedAt
<1>8. Free'
  BY <1>6, <1>7 DEF Free, Untouched, Nothing, kernel
<1>9. CASE front[p] = "ui"
  <2>1. /\ api' = [api EXCEPT ![p] = 0] /\ Go(c, << >>) /\ Collect
        /\ UNCHANGED relays
    BY <1>2, <1>5, <1>6, <1>9, StopTails DEF Drop, Proceed, Todo
  <2>2. api \in [Procs -> 0..MaxSessions] /\ made \in Nat
    BY <1>4, Typed
  <2>3. api'[p] = 0 /\ \A q \in Procs \ {p} : api'[q] = 0
    BY <1>4, <2>1, <2>2 DEF Only
  <2>4. \A k \in Sessions : session'[k] = session[k] \/ session'[k] = NewSession
    BY <2>1 DEF Collect
  <2>5. relay' = relay /\ owns' = owns /\ causes' = causes /\ made' = made
        /\ \A k \in Sessions : Listening(k)' = Listening(k)
    BY <1>6, <2>1 DEF relays, Listening
  <2>6. Base'
    <3>1. creds' /\ jumps' \in {0, 1}
      BY <1>4, <1>6 DEF Base, kernel
    <3>2. \A q \in Procs : api'[q] <= made'
      BY <2>2, <2>3, <2>5
    <3>3. \A k \in Sessions : k > made' => session'[k] = NewSession /\ relay'[k] = "none"
      BY <1>4, <2>4, <2>5 DEF Base
    <3>4. \A q \in Procs : \A k \in owns'[q] : relay'[k] # "none"
      BY <1>4, <2>5 DEF Base
    <3>5. \A q \in Procs : \A k \in Sessions : api'[q] # k
      BY <2>3, NoSessionZero
    <3>6. "early" \notin causes' => \A k \in Sessions : ~Listening(k)'
      <4>1. \A q \in Procs : \A k \in Sessions : api[q] = k => k = n
        BY <1>4, <1>7, NoSessionZero DEF Only
      <4>. QED  BY <1>4, <1>7, <2>5, <4>1 DEF Base
    <3>. QED  BY <2>3, <3>1, <3>2, <3>3, <3>4, <3>5, <3>6 DEF Base
  <2>7. Only(p)' /\ Settled(p)' /\ << >> \in Lists
    BY <1>8, <2>3 DEF Only, Settled, Lists
  <2>. QED  BY <1>1, <1>2, <1>3, <1>6, <2>1, <2>6, <2>7, CleanGo
<1>10. CASE front[p] # "ui"
  <2>1. Die(p)
    BY <1>2, <1>6, <1>10 DEF Drop
  <2>2. Untouched' => Nothing
    BY <1>6, <1>7 DEF Free, Untouched
  <2>. QED  BY <1>6, <2>1, <2>2, CleanDie
<1>. QED  BY <1>9, <1>10

\* A call begins where nothing else runs and no other process has a session; otherwise
\* that is noted.
LEMMA CleanBegin ==
    ASSUME CleanInv, Calm, Calm', NEW c \in Calls, NEW k \in CallType, Begin(c, k),
           UNCHANGED <<fixed, kernel, creds, made, api, relays, session>>,
           k.todo # << >>, NEW p \in Procs, p = proc[c],
           Settled(p)' => StagedIn(c, p, k.todo, k.self)'
    PROVE  Clean'
<1>1. Base /\ AtRest /\ TInv /\ call \in [Calls -> CallType]
  BY DEF CleanInv, Clean, LoneInv, TInv
<1>2. ~Shared(c)
  <2>1. Shared(c) => causes' = Caused("shared")
    BY DEF Begin
  <2>. QED  BY <2>1, CausedKeeps
<1>3. causes' = causes /\ proc' = proc
  BY <1>2 DEF Begin, fixed
<1>4. (\A d \in Calls : call[d].todo = << >>) /\ Only(p)
  BY <1>2 DEF Begin, Shared, Idle, Todo, Only
<1>5. Stays(p)
  BY <1>3 DEF Stays, Free, Untouched, Nothing, kernel, relays, Listening
<1>6. Settled(p)'
  BY <1>1, <1>4, <1>5, SettledStays DEF AtRest
<1>7. /\ call'[c] = [k EXCEPT !.lone = TRUE]
      /\ \A d \in Calls \ {c} : call'[d] = call[d]
  BY <1>4 DEF Begin, Idle, Todo
<1>8. call'[c].todo = k.todo /\ call'[c].self = k.self /\ call'[c].lone
  BY <1>7 DEF CallType
<1>9. Base'
  BY <1>1, <1>3, BaseStays DEF kernel, Base
<1>10. ASSUME NEW d \in Calls PROVE Running(d)'
  <2>1. CASE d = c
    <3>1. Staged(c)'
      BY <1>3, <1>6, <1>8 DEF Staged
    <3>2. Only(p)'
      BY <1>4 DEF Only
    <3>. QED  BY <1>3, <1>8, <2>1, <3>1, <3>2 DEF Running
  <2>2. CASE d # c
    BY <1>4, <1>7, <2>2 DEF Running
  <2>. QED  BY <2>1, <2>2
<1>11. AtRest'
  BY <1>8 DEF AtRest
<1>. QED  BY <1>9, <1>10, <1>11 DEF Clean

LEMMA CleanStart ==
    ASSUME CleanInv, Calm, Calm', NEW c \in Calls, CallStart(c)
    PROVE  Clean'
<1>1. PICK p \in Procs : p = proc[c]
  BY Typed DEF CleanInv, LoneInv
<1>2. PICK t : t = IF front[p] = "ui" THEN lCheck ELSE lCreate
  OBVIOUS
<1>3. PICK k : k = [NoCall EXCEPT !.todo = t]
  OBVIOUS
<1>4. Begin(c, k) /\ UNCHANGED <<fixed, kernel, creds, made, api, relays, session>>
  BY <1>1, <1>2, <1>3, Beginnings DEF CallStart
<1>5. t # << >> /\ t \in Lists
  BY <1>2, Heads DEF Lists, SetupLists
<1>6. k \in CallType /\ k.todo = t
  BY <1>3, <1>5, NoCallOK DEF CallType
<1>7. t = lCheck \/ (t = lCreate /\ api'[p] = 0)
  <2>1. front[p] \in {"ui", "cli"}
    BY DEF CleanInv, LoneInv, TInv, RestOK
  <2>. QED  BY <1>1, <1>2, <1>4, <2>1 DEF CallStart
<1>8. Settled(p)' => StagedIn(c, p, t, k.self)'
  <2>1. api'[p] = 0 /\ Settled(p)' => Free'
    BY NoSessionZero DEF Settled, Serving
  <2>. QED  BY <1>7, <2>1 DEF StagedIn
<1>. QED  BY <1>1, <1>4, <1>5, <1>6, <1>8, CleanBegin

LEMMA CleanStop ==
    ASSUME CleanInv, Calm, Calm', NEW c \in Calls, NEW p \in Procs, p = proc[c], api[p] # 0,
           UNCHANGED <<fixed, kernel, creds, made, api, relays, session>>,
           Begin(c, [NoCall EXCEPT !.todo = sRemove("forget"), !.self = api[p]])
    PROVE  Clean'
<1>1. PICK t : t = sRemove("forget")
  OBVIOUS
<1>2. PICK k : k = [NoCall EXCEPT !.todo = t, !.self = api[p]]
  OBVIOUS
<1>3. Begin(c, k) /\ api[p] \in 0..MaxSessions
  BY <1>1, <1>2, Typed DEF CleanInv, LoneInv
<1>4. t # << >> /\ t \in Lists
  BY <1>1, Heads DEF Lists, StopLists, Ends
<1>5. k \in CallType /\ k.todo = t /\ k.self = api[p]
  BY <1>2, <1>3, <1>4, NoCallOK DEF CallType
<1>6. Settled(p)' => StagedIn(c, p, t, k.self)'
  BY <1>1, <1>5 DEF StagedIn
<1>. QED  BY <1>3, <1>4, <1>5, <1>6, CleanBegin

\* No call makes a step, and no process ends.
LEMMA CleanStays ==
    ASSUME CleanInv, Calm, Base', UNCHANGED <<proc, api, call>>, \A q \in Procs : Stays(q),
           Free => Free', "early" \notin causes' => "early" \notin causes
    PROVE  Clean'
<1>1. AtRest /\ proc \in [Calls -> Procs] /\ \A c \in Calls : Running(c)
  BY Typed DEF CleanInv, Clean, LoneInv
<1>2. \A q \in Procs : Settled(q) => Settled(q)'
  BY SettledStays
<1>3. \A q \in Procs : Only(q)' = Only(q)
  BY DEF Only
<1>4. AtRest'
  BY <1>1, <1>2, <1>3 DEF AtRest
<1>5. ASSUME NEW c \in Calls PROVE Running(c)'
  <2>1. PICK p \in Procs : p = proc[c]
    BY <1>1
  <2>2. StagedIn(c, p, call[c].todo, call[c].self) =>
           StagedIn(c, p, call[c].todo, call[c].self)'
    BY StagedStays
  <2>. QED  BY <1>1, <1>3, <2>1, <2>2 DEF Running, Staged
<1>. QED  BY <1>4, <1>5 DEF Clean

LEMMA CleanLoop ==
    ASSUME CleanInv, Calm, NEW m \in Sessions, LoopRuns(m)
    PROVE  Clean'
<1>1. UNCHANGED <<fixed, kernel, creds, made, api, owns, session, call, causes>>
  BY DEF LoopRuns
<1>2. Base /\ relay \in [Sessions -> {"none", "bound", "running", "stopped"}]
      /\ owns \in [Procs -> SUBSET Sessions]
  BY Typed DEF CleanInv, Clean, LoneInv
<1>3. relay[m] = "bound" /\ relay'[m] = "running" /\ \A k \in Sessions \ {m} : relay'[k] = relay[k]
  BY <1>2 DEF LoopRuns
<1>4. \A k \in Sessions : Listening(k)' = Listening(k) /\ (relay'[k] = "none" <=> relay[k] = "none")
  BY <1>3 DEF Listening
<1>5. Free => Free'
  BY <1>1 DEF Free, Untouched, Nothing, kernel
<1>6. \A q \in Procs : Stays(q)
  BY <1>1, <1>4, <1>5 DEF Stays
<1>7. Base'
  <2>1. \A k \in Sessions : k > made' => session'[k] = NewSession /\ relay'[k] = "none"
    BY <1>1, <1>2, <1>4 DEF Base
  <2>2. ASSUME NEW q \in Procs, NEW k \in owns'[q] PROVE relay'[k] # "none"
    <3>1. k \in Sessions /\ relay[k] # "none"
      BY <1>1, <1>2 DEF Base
    <3>. QED  BY <1>4, <3>1
  <2>. QED  BY <1>1, <1>2, <1>4, <2>1, <2>2 DEF Base, kernel
<1>. QED  BY <1>1, <1>5, <1>6, <1>7, CleanStays DEF fixed

LEMMA CleanStep == CleanInv /\ [Next]_vars => CleanInv'
<1> SUFFICES ASSUME CleanInv, [Next]_vars, Calm' PROVE Clean'
  BY LoneStep DEF CleanInv
<1>1. Calm /\ LoneInv'
  BY CalmBefore, LoneStep DEF CleanInv, LoneInv
<1>2. ASSUME NEW c \in Calls, CallStart(c) \/ CallStop(c) PROVE Clean'
  <2>1. CASE CallStart(c)
    BY <1>1, <2>1, CleanStart
  <2>2. CASE CallStop(c)
    <3>1. PICK p \in Procs : p = proc[c]
      BY Typed DEF CleanInv, LoneInv
    <3>. QED  BY <1>1, <2>2, <3>1, CleanStop, Beginnings DEF CallStop
  <2>. QED  BY <1>2, <2>1, <2>2
<1>3. ASSUME NEW c \in Calls, StartStep(c) PROVE Clean'
  BY <1>1, <1>3, CleanCheck, CleanCreate, CleanEnter, CleanStartRelay, CleanProbe, CleanApply,
     CleanCommand, CleanSetMode, CleanDrop DEF StartStep
<1>4. ASSUME NEW c \in Calls, StopStep(c) PROVE Clean'
  BY <1>1, <1>4, CleanRemove, CleanHalt, CleanStopped, CleanDrop DEF StopStep
<1>5. ASSUME NEW n \in Sessions, LoopRuns(n) PROVE Clean'
  BY <1>1, <1>5, CleanLoop
<1>6. ASSUME NEW p \in Procs, Die(p), NEW x \in {"killed", "signalled"}, causes' = Caused(x),
             UNCHANGED <<fixed, kernel, creds, made>>
      PROVE  Clean'
  <2>1. ~Untouched' /\ ("early" \notin causes' => "early" \notin causes)
    BY <1>6, CausedKeeps
  <2>. QED  BY <1>1, <1>6, <2>1, CleanDie
<1>7. ASSUME NEW p \in Procs, Signal(p) PROVE Clean'
  <2>1. PICK c \in Calls :
           /\ proc[c] = p
           /\ \/ /\ Idle(c) /\ api[p] # 0
                 /\ Begin(c, [NoCall EXCEPT !.todo = sRemove("forget"), !.self = api[p]])
                 /\ UNCHANGED <<api, relays, session>>
              \/ Die(p) /\ causes' = Caused("signalled")
    BY <1>7, Beginnings DEF Signal
  <2>2. UNCHANGED <<fixed, kernel, creds, made>>
    BY <1>7 DEF Signal
  <2>. QED  BY <1>1, <1>6, <2>1, <2>2, CleanStop
<1>8. ASSUME NEW p \in Procs, Kill(p) PROVE Clean'
  BY <1>6, <1>8 DEF Kill
<1>9. ~SudoExpires
  BY CausedKeeps DEF SudoExpires
<1>11. ~SudoReturns
  BY <1>1 DEF SudoReturns, CleanInv, Clean, Base
<1>10. CASE UNCHANGED vars
  <2>1. Base'
    BY <1>1, <1>10, BaseStays DEF vars, fixed, kernel, relays, CleanInv, Clean, Base
  <2>2. (Free => Free') /\ \A q \in Procs : Stays(q)
    BY <1>10 DEF vars, fixed, kernel, relays, Free, Untouched, Nothing, Stays, Listening
  <2>. QED  BY <1>1, <1>10, <2>1, <2>2, CleanStays DEF vars, fixed
<1>. QED  BY <1>2, <1>3, <1>4, <1>5, <1>7, <1>8, <1>9, <1>10, <1>11 DEF Next

LEMMA CleanHolds == Spec => []CleanInv
  BY CleanInit, CleanStep, PTL DEF Spec

\* A process with a session that no call changes.
LEMMA AtRestSettled ==
    ASSUME CleanInv, Calm, Quiet, NEW p \in Procs, api[p] # 0
    PROVE  Settled(p)
<1>1. Base /\ AtRest
  BY DEF CleanInv, Clean
<1>2. Only(p)
  BY <1>1 DEF Base, Only
<1>. QED  BY <1>1, <1>2 DEF AtRest, Quiet, Idle, Todo

\* "leftovers from a crashed run" never stand in the way of apply, and a session that
\* intercepts has its own rule installed, alone and once: any number of processes, calls
\* and crashes, while the rights last and calls do not meet.
THEOREM CrashesAreHealed == Spec => []CrashesHeal
<1>1. CleanInv => CrashesHeal
  <2> SUFFICES ASSUME CleanInv, Calm PROVE
        /\ \A c \in Calls : \A k \in Additions : At(c, k) => Possible(k)
        /\ \A p \in Procs : Quiet /\ Intercepting(p) =>
              jumps = 1 /\ chain = [there |-> TRUE, to |-> <<session[api[p]].thread>>]
    BY DEF CrashesHeal, Calm
  <2>1. ASSUME NEW c \in Calls, NEW k \in Additions, At(c, k) PROVE Possible(k)
    <3>1. call[c].todo # << >> /\ Head(call[c].todo) = k
      BY <2>1 DEF At, Idle, Todo
    <3>2. PICK p \in Procs : p = proc[c]
      BY <3>1, Here
    <3>3. PICK n : n = call[c].self
      OBVIOUS
    <3>4. /\ call[c] \in CallType /\ call[c].lone /\ LoneOf(c)
          /\ StagedIn(c, p, call[c].todo, n)
      BY <3>1, <3>2, <3>3, Here
    <3>5. Alone(call[c], creds, chain, jumps)
      BY <3>1, <3>4 DEF LoneOf
    <3>6. call[c].todo \in {aNew, aRule, aJump}
      BY <3>1, <3>4, Places DEF CallType, Additions
    <3>7. Left(call[c].met) = 0
      <4>1. call[c].todo \in ApplyLists
        BY <3>6 DEF ApplyLists
      <4>2. call[c].met \in {0, 1}
        BY <3>4, <4>1, StagedAt
      <4>. QED  BY <4>2 DEF Left
    <3>8. CASE call[c].todo = aNew
      <4>1. k = "-N" /\ jumps = 0 /\ chain = EmptyChain(jumps)
        BY <3>1, <3>5, <3>7, <3>8, Heads DEF Alone
      <4>2. EmptyChain(jumps).there <=> jumps > 0
        BY Zenon DEF EmptyChain
      <4>3. ~(jumps > 0)
        BY <4>1
      <4>. QED  BY <4>1, <4>2, <4>3 DEF Possible
    <3>9. CASE call[c].todo \in {aRule, aJump}
      <4>1. k \in {"-A", "-A_OUTPUT"} /\ chain.there
        BY <3>1, <3>5, <3>9, Heads DEF Alone
      <4>. QED  BY <4>1 DEF Possible
    <3>. QED  BY <3>6, <3>8, <3>9
  <2>2. ASSUME NEW p \in Procs, Quiet, Intercepting(p)
        PROVE  jumps = 1 /\ chain = [there |-> TRUE, to |-> <<session[api[p]].thread>>]
    <3>1. api[p] # 0 /\ session[api[p]].mode = "intercepting"
      BY <2>2 DEF Intercepting
    <3>2. Settled(p)
      BY <2>2, <3>1, AtRestSettled
    <3>3. ~Made(api[p], 0, "relay_only")
      BY <3>1 DEF Made
    <3>4. Made(api[p], api[p], "intercepting") /\ OwnRule(api[p])
      BY <3>1, <3>2, <3>3 DEF Settled
    <3>. QED  BY <3>4 DEF Made, OwnRule
  <2>. QED  BY <2>1, <2>2
<1>. QED  BY <1>1, CleanHolds, PTL

\* The rule that is there leads to a relay that listens, at every step of a start and of
\* a stop that nothing disturbs: the relay comes first, and it goes last.
THEOREM RelayBehindRules == Spec => []RulesLeadToRelay
<1>1. CleanInv => RulesLeadToRelay
  <2> SUFFICES ASSUME CleanInv, Untouched, jumps > 0
               PROVE  \A i \in 1..Len(chain.to) : Listening(chain.to[i])
    BY DEF RulesLeadToRelay, Untouched
  <2>1. Calm /\ Base /\ AtRest
    BY DEF CleanInv, Clean, Calm, Untouched
  <2>2. ~Free /\ jumps # 0
    BY <2>1 DEF Free, Nothing, Base
  <2>3. ASSUME NEW n \in Sessions, OwnRule(n), Listening(n)
        PROVE  \A i \in 1..Len(chain.to) : Listening(chain.to[i])
    <3>1. chain.to = <<n>>
      BY <2>3 DEF OwnRule
    <3>. QED  BY <2>3, <3>1
  <2>4. ASSUME NEW p \in Procs, Settled(p)
        PROVE  \A i \in 1..Len(chain.to) : Listening(chain.to[i])
    BY <2>2, <2>3, <2>4 DEF Settled, Serving
  <2>5. CASE \A c \in Calls : call[c].todo = << >>
    <3>1. PICK p \in Procs : api[p] # 0
      BY <2>1, <2>2, <2>5 DEF AtRest
    <3>2. Settled(p)
      BY <2>1, <2>5, <3>1, AtRestSettled DEF Quiet, Idle, Todo
    <3>. QED  BY <2>4, <3>2
  <2>6. ASSUME NEW c \in Calls, call[c].todo # << >>
        PROVE  \A i \in 1..Len(chain.to) : Listening(chain.to[i])
    <3>1. PICK p \in Procs : p = proc[c]
      BY <2>1, <2>6, Here
    <3>2. PICK n : n = call[c].self
      OBVIOUS
    <3>3. LoneOf(c) /\ call[c].lone /\ StagedIn(c, p, call[c].todo, n)
      BY <2>1, <2>6, <3>1, <3>2, Here
    <3>4. Alone(call[c], creds, chain, jumps)
      BY <2>6, <3>3 DEF LoneOf
    <3>5. CASE call[c].todo \in ApplyLists
      <4>1. /\ Serving(p, n) /\ call[c].target = n /\ Left(call[c].met) = 0
            /\ call[c].todo # aDelete
        <5>1. Serving(p, n) /\ call[c].target = n /\ call[c].met \in {0, 1}
              /\ (call[c].todo = aDelete => Free)
          BY <3>3, <3>5, StagedAt
        <5>. QED  BY <2>2, <5>1 DEF Left
      <4>2. call[c].todo = aMode
        BY <2>2, <3>4, <3>5, <4>1 DEF Alone, ApplyLists
      <4>3. OwnRule(n)
        BY <3>4, <4>1, <4>2 DEF Alone, OwnRule
      <4>. QED  BY <2>3, <4>1, <4>3 DEF Serving
    <3>6. CASE call[c].todo \notin ApplyLists
      <4>1. Settled(p) \/ (Serving(p, n) /\ OwnRule(n))
        BY <2>2, <3>3, <3>6 DEF StagedIn
      <4>. QED  BY <2>3, <2>4, <4>1 DEF Serving
    <3>. QED  BY <3>5, <3>6
  <2>. QED  BY <2>5, <2>6
<1>. QED  BY <1>1, CleanHolds, PTL

\* When no session intercepts and no call runs, something of camcap is in the table only if
\* a process was killed or signalled, calls met, or the rights were lost: for any number
\* of processes, sessions and undisturbed starts and stops.
THEOREM NothingStays == Spec => []GoneAfterStop
<1>1. CleanInv => GoneAfterStop
  <2> SUFFICES ASSUME CleanInv, Untouched, Quiet, \A p \in Procs : ~Intercepting(p)
               PROVE  Nothing
    BY DEF GoneAfterStop, Untouched, Nothing
  <2>1. Calm /\ AtRest
    BY DEF CleanInv, Clean, Calm, Untouched
  <2>2. CASE \A p \in Procs : api[p] = 0
    BY <2>1, <2>2 DEF AtRest, Quiet, Idle, Todo, Free
  <2>3. ASSUME NEW p \in Procs, api[p] # 0 PROVE Nothing
    <3>1. Settled(p)
      BY <2>1, <2>3, AtRestSettled
    <3>2. ~Made(api[p], api[p], "intercepting")
      BY <2>3 DEF Made, Intercepting
    <3>. QED  BY <3>1, <3>2 DEF Settled, Free
  <2>. QED  BY <2>2, <2>3
<1>. QED  BY <1>1, CleanHolds, PTL

\* No relay goes on listening without a session that can stop it, unless the rights ran
\* out, calls met, or a stop came before the loop of the relay ran.
THEOREM NoOrphans == Spec => []OrphanHasCause
<1>1. CleanInv => OrphanHasCause
  <2> SUFFICES ASSUME CleanInv, Calm, "early" \notin causes, NEW n \in Sessions,
                      Quiet, Listening(n)
               PROVE  \E p \in Procs : api[p] # 0 /\ session[api[p]].thread = n
    BY DEF OrphanHasCause, Calm
  <2>1. PICK p \in Procs : api[p] = n
    BY DEF CleanInv, Clean, Base
  <2>2. api[p] # 0 /\ Settled(p)
    BY <2>1, NoSessionZero, AtRestSettled
  <2>3. \E r, w : Made(n, r, w)
    BY <2>1, <2>2 DEF Settled
  <2>4. session[n].thread = n
    BY <2>3 DEF Made
  <2>. QED  BY <2>1, <2>2, <2>4
<1>. QED  BY <1>1, CleanHolds, PTL

----------------------------------------------------------------------------
(* While calls do not meet: what the loss of the rights leaves in the table. *)

Alike == "shared" \notin causes

\* One call runs at a time.
Sole == \A c, d \in Calls : call[c].todo # << >> /\ call[d].todo # << >> => c = d

Small(ch, j) == j \in {0, 1} /\ Len(ch.to) \in {0, 1}

\* What a call is about to add is not there yet.
Room(t, ch, j) == (t = aRule => ch.to = << >>) /\ (t \in {aRule, aJump} => j = 0)

Roomy == /\ Sole /\ Small(chain, jumps)
         /\ \A c \in Calls : call[c].met \in {0, 1} /\ Room(call[c].todo, chain, jumps)

HealInv == LoneInv /\ (Alike => Roomy)

LEMMA NoRoomNeeded ==
    ASSUME NEW t, NEW ch, NEW j, t \notin {aRule, aJump}
    PROVE  Room(t, ch, j)
  BY DEF Room

LEMMA HealInit == Init => HealInv
<1> SUFFICES ASSUME Init, Alike PROVE Roomy
  BY LoneInit DEF HealInv
<1>1. ASSUME NEW c \in Calls PROVE call[c].todo = << >> /\ call[c].met = 0
  BY DEF Init, NoCall
<1>2. \A c \in Calls : Room(call[c].todo, chain, jumps)
  BY <1>1, Heads, NoRoomNeeded
<1>3. Small(chain, jumps)
  <2>1. PICK n \in 0..MaxRules, k \in 0..MaxJumps :
          \/ /\ chain = [there |-> TRUE, to |-> [i \in 1..n |-> 0]] /\ jumps = k
             /\ n <= 1 /\ k <= n
          \/ chain = [there |-> FALSE, to |-> << >>] /\ jumps = 0
    BY SessionAssumption DEF Init, Alike
  <2>2. n \in Nat /\ k \in Nat
    BY SessionAssumption
  <2>3. CASE chain = [there |-> FALSE, to |-> << >>] /\ jumps = 0
    BY <2>3 DEF Small
  <2>4. CASE chain = [there |-> TRUE, to |-> [i \in 1..n |-> 0]] /\ jumps = k /\ n <= 1 /\ k <= n
    <3>1. n \in {0, 1} /\ k \in {0, 1}
      BY <2>2, <2>4
    <3>2. Len([i \in 1..n |-> 0]) = n
      BY <2>2
    <3>3. chain.to = [i \in 1..n |-> 0]
      BY <2>4
    <3>. QED  BY <2>4, <3>1, <3>2, <3>3 DEF Small
  <2>. QED  BY <2>1, <2>3, <2>4
<1>. QED  BY <1>1, <1>2, <1>3 DEF Roomy, Sole

\* The call that runs makes a step.
LEMMA HealMove ==
    ASSUME TInv, Roomy, NEW c \in Calls, call[c].todo # << >>, NEW r,
           call' = [call EXCEPT ![c] = r], r.met \in {0, 1},
           Small(chain', jumps'), Room(r.todo, chain', jumps')
    PROVE  Roomy'
<1>1. \A d \in Calls \ {c} : call'[d] = call[d] /\ call[d].todo = << >>
  BY DEF TInv, Roomy, Sole
<1>2. call'[c] = r
  BY DEF TInv
<1>3. \A d \in Calls \ {c} : Room(call'[d].todo, chain', jumps')
  BY <1>1, Heads, NoRoomNeeded
<1>4. Sole'
  BY <1>1 DEF Sole
<1>5. \A d \in Calls : call'[d].met \in {0, 1}
  BY <1>1, <1>2 DEF Roomy
<1>6. \A d \in Calls : Room(call'[d].todo, chain', jumps')
  BY <1>2, <1>3
<1>. QED  BY <1>4, <1>5, <1>6 DEF Roomy

LEMMA HealGo ==
    ASSUME TInv, Roomy, NEW c \in Calls, call[c].todo # << >>, NEW t \in Lists, Go(c, t),
           Small(chain', jumps'), Room(t, chain', jumps')
    PROVE  Roomy'
<1> DEFINE r == Going(call[c], t)
<1>1. call[c] \in CallType /\ call' = [call EXCEPT ![c] = r]
  BY DEF TInv, Go
<1>2. r.todo = t /\ (r = NoCall \/ r = [call[c] EXCEPT !.todo = t])
  BY <1>1, GoingTo
<1>3. r.met \in {0, 1}
  BY <1>1, <1>2 DEF CallType, NoCall, Roomy
<1> HIDE DEF r
<1>. QED  BY <1>1, <1>2, <1>3, HealMove

\* Calls end, or none goes on.
LEMMA HealRest ==
    ASSUME Roomy, UNCHANGED kernel,
           \A d \in Calls : \/ call'[d] = NoCall
                            \/ call'[d].todo = call[d].todo /\ call'[d].met = call[d].met
    PROVE  Roomy'
<1>1. NoCall.todo = << >> /\ NoCall.met = 0
  BY DEF NoCall
<1>2. << >> \notin {aRule, aJump}
  BY Heads
<1>3. \A d \in Calls : call'[d].met \in {0, 1} /\ (call'[d].todo # << >> => call'[d].todo = call[d].todo)
  BY <1>1 DEF Roomy
<1>4. Sole'
  BY <1>3 DEF Roomy, Sole
<1>5. ASSUME NEW d \in Calls PROVE Room(call'[d].todo, chain', jumps')
  BY <1>2, <1>3, NoRoomNeeded DEF Roomy, kernel
<1>. QED  BY <1>3, <1>4, <1>5 DEF Roomy, kernel

\* A call begins while no other runs.
LEMMA HealBegin ==
    ASSUME TInv, Roomy, Alike', NEW c \in Calls, NEW k \in CallType, Begin(c, k), k.met = 0,
           k.todo \notin {aRule, aJump}, UNCHANGED kernel
    PROVE  Roomy'
<1>1. ~Shared(c)
  BY DEF Begin, Caused, Alike
<1>2. \A d \in Calls \ {c} : call[d].todo = << >> /\ call'[d] = call[d]
  BY <1>1 DEF Shared, Begin, Idle, Todo
<1>3. call'[c].todo = k.todo /\ call'[c].met = 0
  BY DEF Begin, CallType
<1>4. Sole'
  BY <1>2 DEF Sole
<1>5. \A d \in Calls : call'[d].met \in {0, 1}
  BY <1>2, <1>3 DEF Roomy
<1>6. ASSUME NEW d \in Calls PROVE Room(call'[d].todo, chain', jumps')
  BY <1>2, <1>3, Heads, NoRoomNeeded
<1>7. Small(chain', jumps')
  BY DEF Roomy, kernel
<1>. QED  BY <1>4, <1>5, <1>6, <1>7 DEF Roomy

\* A deletion makes the table no larger.
LEMMA HealDelete ==
    ASSUME TInv, Roomy, NEW c \in Calls, NEW k \in {"-D_OUTPUT", "-F", "-X"}, Runs(c, k)
    PROVE  Small(chain', jumps')
<1>1. CASE UNCHANGED kernel
  BY <1>1 DEF Roomy, kernel
<1>2. CASE Done(c, k)
  <2>1. /\ jumps' = IF k = "-D_OUTPUT" THEN jumps - 1 ELSE jumps
        /\ k = "-D_OUTPUT" => jumps > 0
    BY <1>2 DEF Done, Possible, Effect
  <2>2. chain'.to = IF k = "-F" THEN << >> ELSE chain.to
    BY <1>2 DEF Done, Effect, TInv, KernelOK
  <2>. QED  BY <2>1, <2>2 DEF Roomy, Small
<1>. QED  BY <1>1, <1>2 DEF Runs, Fails

\* An addition comes when there is room for it.
LEMMA HealAdd ==
    ASSUME TInv, Roomy, NEW c \in Calls
    PROVE  /\ Done(c, "-N") => Small(chain', jumps') /\ jumps' = 0 /\ chain'.to = << >>
           /\ Todo(c) = aRule /\ Done(c, "-A") => Small(chain', jumps') /\ jumps' = 0
           /\ Todo(c) = aJump /\ Done(c, "-A_OUTPUT") => Small(chain', jumps')
<1>1. ASSUME Done(c, "-N") PROVE Small(chain', jumps') /\ jumps' = 0 /\ chain'.to = << >>
  <2>1. ~chain.there /\ chain'.to = chain.to /\ jumps' = jumps
    BY <1>1 DEF Done, Possible, Effect, TInv, KernelOK
  <2>. QED  BY <2>1 DEF TInv, KernelOK, Small
<1>2. ASSUME Todo(c) = aRule, Done(c, "-A") PROVE Small(chain', jumps') /\ jumps' = 0
  <2>1. chain.to = << >> /\ jumps = 0
    BY <1>2 DEF Roomy, Room, Todo
  <2>2. chain'.to = Append(chain.to, call[c].target) /\ jumps' = jumps
    BY <1>2 DEF Done, Effect, TInv, KernelOK
  <2>3. Len(chain'.to) = 1
    BY <2>1, <2>2
  <2>. QED  BY <2>1, <2>2, <2>3 DEF Small
<1>3. ASSUME Todo(c) = aJump, Done(c, "-A_OUTPUT") PROVE Small(chain', jumps')
  <2>1. jumps = 0
    BY <1>3 DEF Roomy, Room, Todo
  <2>2. chain'.to = chain.to /\ jumps' = jumps + 1
    BY <1>3 DEF Done, Effect, TInv, KernelOK
  <2>. QED  BY <2>1, <2>2 DEF Roomy, Small
<1>. QED  BY <1>1, <1>2, <1>3

LEMMA HealCommand ==
    ASSUME TInv, Roomy, NEW c \in Calls, Command(c)
    PROVE  Roomy'
<1>1. call[c].todo # << >> /\ Todo(c) = call[c].todo
  BY DEF Command, At, Idle, Todo
\* A command after which nothing is to be added.
<1>2. ASSUME NEW t, NEW u \in Lists, From(c, t, u), Small(chain', jumps'),
             Room(u, chain', jumps')
      PROVE  Roomy'
  BY <1>1, <1>2, HealGo DEF From
<1>3. ASSUME NEW t, NEW u \in Lists, From(c, t, u), u \notin {aRule, aJump},
             NEW k \in {"-D_OUTPUT", "-F", "-X"}, Runs(c, k)
      PROVE  Roomy'
  BY <1>2, <1>3, HealDelete, NoRoomNeeded
<1>4. ASSUME NEW t, NEW k, From(c, t, uDelete), Fails(c, k) PROVE Roomy'
  <2>1. uDelete \in Lists /\ uDelete \notin {aRule, aJump}
    BY Heads DEF Lists, UndoLists
  <2>2. Small(chain', jumps')
    BY <1>4 DEF Fails, kernel, Roomy
  <2>. QED  BY <1>2, <1>4, <2>1, <2>2, NoRoomNeeded
<1>5. /\ {aFlush, aDrop, aNew, aRule, aJump, aMode, uFlush, uDrop, sEnd("raise")} \subseteq Lists
      /\ \A t \in {aFlush, aDrop, aNew, aMode, uFlush, uDrop, sEnd("raise")} : t \notin {aRule, aJump}
  BY Heads DEF Lists, ApplyLists, UndoLists, StopLists, Ends
<1>6. \A last \in Ends : \A t \in {sFlush(last), sDrop(last), sHalt(last)} :
          t \in Lists /\ t \notin {aRule, aJump}
  BY Heads DEF Lists, StopLists
<1>7. CASE \/ From(c, aDelete, aFlush) /\ Runs(c, "-D_OUTPUT")
           \/ From(c, aFlush, aDrop) /\ Runs(c, "-F")
           \/ From(c, aDrop, aNew) /\ Runs(c, "-X")
           \/ From(c, uDelete, uFlush) /\ Runs(c, "-D_OUTPUT")
           \/ From(c, uFlush, uDrop) /\ Runs(c, "-F")
           \/ From(c, uDrop, sEnd("raise")) /\ Runs(c, "-X")
  BY <1>3, <1>5, <1>7
<1>8. CASE From(c, aNew, aRule) /\ Done(c, "-N")
  BY <1>2, <1>5, <1>8, HealAdd DEF Room
<1>9. CASE From(c, aRule, aJump) /\ Done(c, "-A")
  <2>1. Small(chain', jumps') /\ jumps' = 0
    BY <1>9, HealAdd DEF From
  <2>2. aJump # aRule
    BY Heads
  <2>. QED  BY <1>2, <1>5, <1>9, <2>1, <2>2 DEF Room
<1>10. CASE From(c, aJump, aMode) /\ Done(c, "-A_OUTPUT")
  <2>1. Small(chain', jumps')
    BY <1>10, HealAdd DEF From
  <2>. QED  BY <1>2, <1>5, <1>10, <2>1, NoRoomNeeded
<1>11. ASSUME NEW last \in Ends,
              \/ From(c, sDelete(last), sFlush(last)) /\ Runs(c, "-D_OUTPUT")
              \/ From(c, sFlush(last), sDrop(last)) /\ Runs(c, "-F")
              \/ From(c, sDrop(last), sHalt(last)) /\ Runs(c, "-X")
       PROVE  Roomy'
  BY <1>3, <1>6, <1>11
<1>. QED  BY <1>4, <1>7, <1>8, <1>9, <1>10, <1>11, CommandPlaces

\* The other steps of a call leave the table alone and lead to no addition.
LEMMA HealOwnStep ==
    ASSUME TInv, Roomy, NEW c \in Calls,
           \/ Check(c) \/ Create(c) \/ Enter(c) \/ StartRelay(c) \/ Probe(c) \/ Apply(c)
           \/ SetMode(c) \/ Raise(c) \/ StopStep(c)
    PROVE  Roomy'
<1>1. UNCHANGED kernel
  BY DEF Check, Create, Enter, StartRelay, Probe, Apply, ApplySteps, SetMode, ModeBecomes,
         Raise, Drop, StopStep, Remove, Halt, Stopped, Forget
<1>2. Small(chain', jumps')
  BY <1>1 DEF kernel, Roomy
<1>3. call[c] \in CallType /\ call[c].met \in {0, 1} /\ jumps \in {0, 1}
  BY DEF TInv, Roomy, Small
<1>4. ASSUME NEW t \in Lists, Go(c, t), t \notin {aRule, aJump}, call[c].todo # << >>
      PROVE  Roomy'
  BY <1>2, <1>4, HealGo, NoRoomNeeded
<1>5. /\ {<< >>, lCreate, lEnter, lRelay, lProbe, lApply, aDelete, sEnd("raise")} \subseteq Lists
      /\ \A t \in {<< >>, lCreate, lEnter, lRelay, lProbe, lApply, aDelete, sEnd("raise")} :
            t \notin {aRule, aJump}
  BY Heads DEF Lists, SetupLists, ApplyLists, StopLists, Ends
<1>6. \A last \in Ends :
          \A t \in {sRemove(last), sDelete(last), sHalt(last), sStopped(last), sEnd(last)} :
             t \in Lists /\ t \notin {aRule, aJump} /\ t # << >>
  BY Heads DEF Lists, StopLists, Ends
<1>7. Todo(c) = call[c].todo
  BY DEF Todo
<1>8. CASE Check(c)
  <2>1. Todo(c) = lCheck /\ Go(c, IF api[proc[c]] # 0 THEN << >> ELSE lCreate)
    BY <1>8, StartPlaces
  <2>. QED  BY <1>4, <1>5, <1>7, <2>1, Heads
<1>9. CASE Create(c)
  <2>1. /\ Todo(c) = lCreate
        /\ call' = [call EXCEPT ![c] = [call[c] EXCEPT !.todo = lEnter, !.own = made + 1]]
    BY <1>9, StartPlaces
  <2> DEFINE r == [call[c] EXCEPT !.todo = lEnter, !.own = made + 1]
  <2>2. r.met \in {0, 1} /\ r.todo = lEnter
    BY <1>3 DEF CallType
  <2>3. call[c].todo # << >>
    BY <1>7, <2>1, Heads
  <2>4. Room(r.todo, chain', jumps')
    BY <1>5, <2>2, NoRoomNeeded
  <2> HIDE DEF r
  <2>5. call' = [call EXCEPT ![c] = r]
    BY <2>1 DEF r
  <2>. QED  BY <1>2, <2>2, <2>3, <2>4, <2>5, HealMove
<1>10. CASE Enter(c)
  <2> DEFINE t == IF api[proc[c]] = 0 THEN sEnd("raise") ELSE lRelay
             r == [call[c] EXCEPT !.todo = t, !.self = api[proc[c]]]
  <2>1. Todo(c) = lEnter /\ call' = [call EXCEPT ![c] = r]
    BY <1>10, StartPlaces
  <2>2. t \notin {aRule, aJump}
    BY <1>5
  <2>3. r.met \in {0, 1} /\ r.todo = t
    BY <1>3 DEF CallType
  <2>4. call[c].todo # << >>
    BY <1>7, <2>1, Heads
  <2> HIDE DEF r, t
  <2>5. Room(r.todo, chain', jumps')
    BY <2>2, <2>3, NoRoomNeeded
  <2>. QED  BY <1>2, <2>1, <2>3, <2>4, <2>5, HealMove
<1>11. CASE StartRelay(c)
  <2>1. Todo(c) = lRelay /\ (Go(c, << >>) \/ Go(c, lProbe) \/ Go(c, sEnd("raise")))
    BY <1>11, StartPlaces
  <2>. QED  BY <1>4, <1>5, <1>7, <2>1, Heads
<1>12. CASE Probe(c)
  <2>1. Todo(c) = lProbe /\ Go(c, IF creds THEN lApply ELSE sRemove("raise"))
    BY <1>12, StartPlaces
  <2>. QED  BY <1>4, <1>5, <1>6, <1>7, <2>1, Heads DEF Ends
<1>13. CASE Apply(c)
  <2> DEFINE r == [call[c] EXCEPT !.todo = aDelete, !.target = session[Self(c)].redirector,
                                  !.met = jumps]
  <2>1. Todo(c) = lApply /\ call' = [call EXCEPT ![c] = r]
    BY <1>13, StartPlaces DEF ApplySteps
  <2>2. r.met \in {0, 1} /\ r.todo = aDelete
    BY <1>3 DEF CallType
  <2>3. call[c].todo # << >>
    BY <1>7, <2>1, Heads
  <2> HIDE DEF r
  <2>4. Room(r.todo, chain', jumps')
    BY <1>5, <2>2, NoRoomNeeded
  <2>. QED  BY <1>2, <2>1, <2>2, <2>3, <2>4, HealMove
<1>14. CASE SetMode(c)
  <2>1. Todo(c) = aMode /\ Go(c, << >>)
    BY <1>14, StartPlaces DEF From
  <2>. QED  BY <1>4, <1>5, <1>7, <2>1, Heads
\* The session is dropped.
<1>15. ASSUME Drop(c), NEW last \in Ends, Todo(c) = sEnd(last) PROVE Roomy'
  <2>1. CASE front[proc[c]] = "ui"
    <3>1. Go(c, << >>)
      BY <1>15, <2>1, StopTails DEF Drop, Proceed
    <3>. QED  BY <1>4, <1>5, <1>6, <1>7, <1>15, <3>1
  <2>2. CASE front[proc[c]] # "ui"
    <3>1. \A d \in Calls : call'[d] = NoCall \/ call'[d] = call[d]
      BY <1>15, <2>2 DEF Drop, Die
    <3>. QED  BY <1>1, <3>1, HealRest
  <2>. QED  BY <2>1, <2>2
<1>16. CASE Raise(c)
  BY <1>15, <1>16, StartPlaces DEF Raise, Ends
<1>17. CASE Forget(c)
  BY <1>15, <1>17, StopPlaces DEF Forget, Ends
<1>18. CASE Remove(c)
  <2>1. PICK last \in Ends :
          /\ Todo(c) = sRemove(last)
          /\ Go(c, IF session[Self(c)].redirector # 0 THEN sDelete(last) ELSE sHalt(last))
    BY <1>18, StopPlaces
  <2>. QED  BY <1>4, <1>6, <1>7, <2>1
<1>19. CASE Halt(c)
  <2>1. PICK last \in Ends : Todo(c) = sHalt(last) /\ Go(c, sStopped(last))
    BY <1>19, StopPlaces DEF From
  <2>. QED  BY <1>4, <1>6, <1>7, <2>1
<1>20. CASE Stopped(c)
  <2>1. PICK last \in Ends : Todo(c) = sStopped(last) /\ Go(c, sEnd(last))
    BY <1>20, StopPlaces DEF From
  <2>. QED  BY <1>4, <1>6, <1>7, <2>1
<1>. QED  BY <1>8, <1>9, <1>10, <1>11, <1>12, <1>13, <1>14, <1>16, <1>17, <1>18, <1>19, <1>20
          DEF StopStep

LEMMA HealStep == HealInv /\ [Next]_vars => HealInv'
<1> SUFFICES ASSUME HealInv, [Next]_vars, Alike' PROVE Roomy'
  BY LoneStep DEF HealInv
<1>1. TInv /\ LoneInv
  BY DEF HealInv, LoneInv
<1>2. Roomy
  <2>1. Alike
    BY <1>1, CausesGrow DEF Alike, Caused
  <2>. QED  BY <2>1 DEF HealInv
<1>3. ASSUME NEW c \in Calls, CallStart(c) PROVE Roomy'
  <2> DEFINE t == IF front[proc[c]] = "ui" THEN lCheck ELSE lCreate
             k == [NoCall EXCEPT !.todo = t]
  <2>1. Begin(c, k) /\ UNCHANGED kernel
    BY <1>3, Beginnings DEF CallStart
  <2>2. t \in Lists /\ t \notin {aRule, aJump}
    BY Heads DEF Lists, SetupLists
  <2>3. k \in CallType /\ k.met = 0 /\ k.todo = t
    BY <2>2, NoCallOK DEF CallType, NoCall
  <2> HIDE DEF k, t
  <2>. QED  BY <1>1, <1>2, <2>1, <2>2, <2>3, HealBegin
<1>4. ASSUME NEW c \in Calls, NEW p \in Procs, UNCHANGED kernel,
             Begin(c, [NoCall EXCEPT !.todo = sRemove("forget"), !.self = api[p]])
      PROVE  Roomy'
  <2> DEFINE k == [NoCall EXCEPT !.todo = sRemove("forget"), !.self = api[p]]
  <2>1. sRemove("forget") \in Lists /\ sRemove("forget") \notin {aRule, aJump}
    BY Heads DEF Lists, StopLists, Ends
  <2>2. api[p] \in 0..MaxSessions
    BY <1>1 DEF TInv, RestOK
  <2>3. k \in CallType /\ k.met = 0 /\ k.todo = sRemove("forget")
    BY <2>1, <2>2, NoCallOK DEF CallType, NoCall
  <2>4. Begin(c, k)
    BY <1>4
  <2> HIDE DEF k
  <2>. QED  BY <1>1, <1>2, <1>4, <2>1, <2>3, <2>4, HealBegin
<1>5. ASSUME NEW c \in Calls, CallStop(c) PROVE Roomy'
  <2>1. proc[c] \in Procs
    BY <1>1 DEF TInv, RestOK
  <2>. QED  BY <1>4, <1>5, <2>1, Beginnings DEF CallStop
<1>6. ASSUME NEW c \in Calls, StartStep(c) \/ StopStep(c) PROVE Roomy'
  BY <1>1, <1>2, <1>6, HealCommand, HealOwnStep DEF StartStep
<1>7. ASSUME NEW p \in Procs, Die(p), UNCHANGED kernel PROVE Roomy'
  <2>1. \A d \in Calls : call'[d] = NoCall \/ call'[d] = call[d]
    BY <1>7 DEF Die
  <2>. QED  BY <1>2, <1>7, <2>1, HealRest
<1>8. ASSUME NEW p \in Procs, Signal(p) PROVE Roomy'
  <2>1. UNCHANGED kernel
    BY <1>8 DEF Signal
  <2>2. PICK c \in Calls :
          \/ Begin(c, [NoCall EXCEPT !.todo = sRemove("forget"), !.self = api[p]])
          \/ Die(p)
    BY <1>8, Beginnings DEF Signal
  <2>. QED  BY <1>4, <1>7, <2>1, <2>2
<1>9. ASSUME NEW p \in Procs, Kill(p) PROVE Roomy'
  BY <1>7, <1>9 DEF Kill
<1>10. CASE SudoExpires
  <2>1. \A d \in Calls : call'[d].todo = call[d].todo /\ call'[d].met = call[d].met
    BY <1>1, <1>10 DEF SudoExpires, TInv, CallType
  <2>. QED  BY <1>2, <1>10, <2>1, HealRest DEF SudoExpires
<1>11. CASE SudoReturns \/ (\E n \in Sessions : LoopRuns(n)) \/ UNCHANGED vars
  BY <1>2, <1>11, HealRest DEF SudoReturns, LoopRuns, vars
<1>. QED  BY <1>3, <1>5, <1>6, <1>8, <1>9, <1>10, <1>11 DEF Next

\* Whatever a loss of the rights between any two commands has left, or a kill, every
\* command of the next start that has its rights succeeds, as long as calls do not meet;
\* there is never more than one jump and one rule.
THEOREM LossIsHealed == Spec => []HealsAfterLoss
<1>1. HealInv => HealsAfterLoss
  <2> SUFFICES ASSUME HealInv, Alike
               PROVE  /\ jumps <= 1 /\ Len(chain.to) <= 1
                      /\ \A c \in Calls : call[c].lone =>
                             \A k \in Additions : At(c, k) => Possible(k)
    BY DEF HealsAfterLoss, Alike
  <2>1. Roomy /\ LoneInv
    BY DEF HealInv
  <2>2. jumps <= 1 /\ Len(chain.to) <= 1
    <3>1. \A n \in {0, 1} : n <= 1
      OBVIOUS
    <3>2. jumps \in {0, 1} /\ Len(chain.to) \in {0, 1}
      BY <2>1 DEF Roomy, Small
    <3>. QED  BY <3>1, <3>2
  <2>3. ASSUME NEW c \in Calls, call[c].lone, NEW k \in Additions, At(c, k) PROVE Possible(k)
    <3>1. /\ call[c].todo # << >> /\ Head(call[c].todo) = k
          /\ call[c] \in CallType /\ LoneOf(c)
      BY <2>1, <2>3 DEF At, Idle, Todo, LoneInv, TInv
    <3>2. Alone(call[c], creds, chain, jumps)
      BY <2>3, <3>1 DEF LoneOf
    <3>3. call[c].todo \in {aNew, aRule, aJump}
      BY <2>3, <3>1, Places DEF CallType, Additions
    <3>4. CASE call[c].todo = aNew
      <4>1. Left(call[c].met) = 0
        BY <2>1 DEF Roomy, Left
      <4>2. k = "-N" /\ jumps = 0 /\ chain = EmptyChain(jumps)
        BY <3>1, <3>2, <3>4, <4>1, Heads DEF Alone
      <4>3. EmptyChain(jumps).there <=> jumps > 0
        BY Zenon DEF EmptyChain
      <4>4. ~(jumps > 0)
        BY <4>2
      <4>. QED  BY <4>2, <4>3, <4>4 DEF Possible
    <3>5. CASE call[c].todo \in {aRule, aJump}
      <4>1. k \in {"-A", "-A_OUTPUT"} /\ chain.there
        BY <3>1, <3>2, <3>5, Heads DEF Alone
      <4>. QED  BY <4>1 DEF Possible
    <3>. QED  BY <3>3, <3>4, <3>5
  <2>. QED  BY <2>2, <2>3
<1>. QED  BY <1>1, HealInit, HealStep, PTL DEF Spec
=============================================================================
