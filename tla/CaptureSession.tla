--------------------------- MODULE CaptureSession ---------------------------
(***************************************************************************)
(* The life of a capture on Linux: CaptureSession.start and .stop          *)
(* (capture.py), the RelayThread they own (relay.py), the iptables         *)
(* commands of LinuxRedirector (redirector_linux.py), called by the UI's   *)
(* Api.start and .stop (app.py) or by `camcap capture` (cli.py).           *)
(*                                                                         *)
(* A call is the list of steps it has still to take; every iptables        *)
(* command is a step of its own, and a process may be killed or signalled  *)
(* between any two.  The rules are in the kernel and outlive the process.  *)
(*                                                                         *)
(* External: the `nat` table (a chain is removed only when it is empty and *)
(* nothing jumps to it, and created only when it is not there; a command   *)
(* may fail while another one holds the table's lock), and sudo.  That a   *)
(* program other than camcap holds the lock does to the commands what the  *)
(* loss of the rights does, and passes like it.  Sessions of the test mode *)
(* or with external rules own a relay and no rules.                        *)
(***************************************************************************)
EXTENDS Naturals, Sequences

CONSTANTS
    Procs,        \* camcap processes; one that ended may be started again
    Calls,        \* threads that call start and stop
    MaxSessions,  \* bound: sessions made
    MaxRules,     \* bound: rules that earlier processes have left
    MaxJumps,     \* bound: jumps to the chain that they have left
    CachedSudo    \* the rights come from `sudo -n` and may expire, or others hold the lock

ASSUME SessionAssumption ==
    /\ MaxSessions \in Nat /\ MaxRules \in Nat /\ MaxJumps \in Nat
    /\ CachedSudo \in BOOLEAN

VARIABLES
    proc,       \* the process of each call
    front,      \* the front end of each process: ui or cli
    chain,      \* the CAMCAP chain: is it there, the relays its rules lead to
    jumps,      \* how many times OUTPUT jumps to it
    creds,      \* `sudo -n` works, and no other program holds the table's lock
    made,       \* sessions made so far; the call that made the n-th starts relay n
    api,        \* Api.session, or `sess` of the command line; 0 is None
    relay,      \* what the thread of each relay is doing
    owns,       \* the relays of each process
    session,    \* each session: its relay_thread, its redirector (by relay_port; 0 is
                \* None in both) and its mode
    call,       \* each call: the steps it has still to take, the number of the session
                \* it made, the session it is about, the redirector it applies;
                \* history: the jumps it met when it began to apply; no other call ran
                \* meanwhile and the rights stayed
    causes      \* history: what happened that a lone start or stop does not expect

fixed  == <<proc, front>>
kernel == <<chain, jumps>>
relays == <<relay, owns>>
vars   == <<fixed, kernel, creds, made, api, relays, session, call, causes>>

Sessions == 1..MaxSessions

\* Mutants: the chain goes before the jump to it, or with its rules in it; the relay
\* before the rules.
RemoveChainFirst == <<"-F", "-X", "-D_OUTPUT">>
RemoveNoFlush    == <<"-D_OUTPUT", "-X">>
HaltFirst        == <<"halt", "remove", "stopped">>

RemoveCommands == <<"-D_OUTPUT", "-F", "-X">>
AddCommands    == <<"-N", "-A", "-A_OUTPUT">>
Additions == {"-N", "-A", "-A_OUTPUT"}
Commands  == Additions \cup {"-D_OUTPUT", "-F", "-X"}

SessionStop == <<"remove", "halt", "stopped">>
NewSession  == [thread |-> 0, redirector |-> 0, mode |-> "idle"]
NoCall      == [todo |-> << >>, own |-> 0, self |-> 0, target |-> 0, met |-> 0,
                lone |-> TRUE]
Steps == Commands \cup {"check", "create", "enter", "relay", "probe", "apply", "mode",
                        "raise", "remove", "halt", "stopped", "forget"}

\* The table holds nothing, or what earlier processes left there: relay 0 is
\* one of theirs.  A lone one leaves at most one rule, and jumps to it last.
Init ==
    /\ front \in [Procs -> {"ui", "cli"}]
    /\ proc \in [Calls -> Procs]
    /\ \A c, d \in Calls : c # d /\ proc[c] = proc[d] => front[proc[c]] = "ui"
    /\ \E n \in 0..MaxRules, k \in 0..MaxJumps :
          \/ /\ chain = [there |-> TRUE, to |-> [i \in 1..n |-> 0]]
             /\ jumps = k
             /\ causes = IF n > 1 \/ k > n THEN {"shared"} ELSE {"killed"}
          \/ /\ chain = [there |-> FALSE, to |-> << >>]
             /\ jumps = 0
             /\ causes = {}
    /\ creds = TRUE
    /\ made = 0
    /\ api = [p \in Procs |-> 0]
    /\ relay = [n \in Sessions |-> "none"]
    /\ owns = [p \in Procs |-> {}]
    /\ session = [n \in Sessions |-> NewSession]
    /\ call = [c \in Calls |-> NoCall]

----------------------------------------------------------------------------
(* Calls.                                                                   *)

Todo(c)  == call[c].todo
Self(c)  == call[c].self
Idle(c)  == Todo(c) = << >>
At(c, k) == ~Idle(c) /\ Head(Todo(c)) = k

\* The call k goes on with the given steps; without any it is over.
Going(k, steps) == IF steps = << >> THEN NoCall ELSE [k EXCEPT !.todo = steps]
Go(c, steps)    == call' = [call EXCEPT ![c] = Going(@, steps)]
Proceed(c)      == Go(c, Tail(Todo(c)))

\* Once calls have interfered, what else happens is not told apart.
Caused(cause) == IF {cause, "shared"} \cap causes # {} THEN causes
                 ELSE IF cause = "shared" THEN {cause} ELSE causes \cup {cause}

\* Another call is in progress, or another process has a session.
Shared(c) == \/ \E d \in Calls \ {c} : ~Idle(d)
             \/ \E p \in Procs \ {proc[c]} : api[p] # 0

Begin(c, k) ==
    /\ Idle(c)
    /\ call' = [d \in Calls |->
          IF d = c THEN [k EXCEPT !.lone = \A e \in Calls : Idle(e)]
          ELSE IF Idle(d) THEN call[d] ELSE [call[d] EXCEPT !.lone = FALSE]]
    /\ causes' = IF Shared(c) THEN Caused("shared") ELSE causes

\* A session that neither the process nor a call refers to is forgotten.
Collect ==
    session' = [n \in Sessions |->
        IF \/ \E p \in Procs : api'[p] = n
           \/ \E c \in Calls : call'[c].self = n
        THEN session[n] ELSE NewSession]

\* Api.start, or the start of `camcap capture`.
CallStart(c) ==
    /\ made < MaxSessions
    /\ front[proc[c]] = "cli" => api[proc[c]] = 0
    /\ Begin(c, [NoCall EXCEPT !.todo =
                    (IF front[proc[c]] = "ui" THEN <<"check">> ELSE << >>)
                        \o <<"create", "enter", "relay", "probe">>])
    /\ UNCHANGED <<fixed, kernel, creds, made, api, relays, session>>

\* Api.stop, with its test for a session.
CallStop(c) ==
    /\ front[proc[c]] = "ui" /\ api[proc[c]] # 0
    /\ Begin(c, [NoCall EXCEPT !.todo = SessionStop \o <<"forget">>, !.self = api[proc[c]]])
    /\ UNCHANGED <<fixed, kernel, creds, made, api, relays, session>>

\* Process p ends: its threads and its relays are gone, the kernel's rules are
\* not.
Die(p) ==
    /\ call' = [c \in Calls |-> IF proc[c] = p THEN NoCall ELSE call[c]]
    /\ api' = [api EXCEPT ![p] = 0]
    /\ relay' = [n \in Sessions |-> IF n \in owns[p] THEN "stopped" ELSE relay[n]]
    /\ owns' = [owns EXCEPT ![p] = {}]
    /\ Collect

----------------------------------------------------------------------------
(* CaptureSession.start.                                                    *)

\* if self.session: return
Check(c) ==
    /\ At(c, "check")
    /\ IF api[proc[c]] # 0 THEN Go(c, << >>) ELSE Proceed(c)
    /\ UNCHANGED <<fixed, kernel, creds, made, api, relays, session, causes>>

\* self.session = CaptureSession(...)
Create(c) ==
    /\ At(c, "create") /\ made < MaxSessions
    /\ made' = made + 1
    /\ api' = [api EXCEPT ![proc[c]] = made + 1]
    /\ call' = [call EXCEPT ![c] = [Going(@, Tail(Todo(c))) EXCEPT !.own = made + 1]]
    /\ UNCHANGED <<fixed, kernel, creds, relays, session, causes>>

\* self.session.start(): the attribute is read again.
Enter(c) ==
    /\ At(c, "enter")
    /\ call' = [call EXCEPT ![c] =
          [Going(@, IF api[proc[c]] = 0 THEN <<"raise">> ELSE Tail(Todo(c)))
             EXCEPT !.self = api[proc[c]]]]
    /\ UNCHANGED <<fixed, kernel, creds, made, api, relays, session, causes>>

\* RelayThread(relay).start() returns once the port is bound, or raises when
\* it cannot be.  A relay-only session is then complete.
StartRelay(c) ==
    /\ At(c, "relay")
    /\ \/ /\ relay' = [relay EXCEPT ![call[c].own] = "bound"]
          /\ owns' = [owns EXCEPT ![proc[c]] = @ \cup {call[c].own}]
          /\ \/ /\ session' = [session EXCEPT ![Self(c)].thread = call[c].own]
                /\ Proceed(c)
             \/ /\ session' = [session EXCEPT ![Self(c)].thread = call[c].own,
                                              ![Self(c)].mode = "relay_only"]
                /\ Go(c, << >>)
       \/ Go(c, <<"raise">>) /\ UNCHANGED <<relays, session>>
    /\ UNCHANGED <<fixed, kernel, creds, made, api, causes>>

\* The loop of the relay's thread begins to run.
LoopRuns(n) ==
    /\ relay[n] = "bound"
    /\ relay' = [relay EXCEPT ![n] = "running"]
    /\ UNCHANGED <<fixed, kernel, creds, made, api, owns, session, call, causes>>

\* LinuxRedirector(...), then can_apply.
Probe(c) ==
    /\ At(c, "probe")
    /\ session' = [session EXCEPT ![Self(c)].redirector = session[Self(c)].thread]
    /\ Go(c, IF creds THEN <<"apply">> ELSE SessionStop \o <<"raise">>)
    /\ UNCHANGED <<fixed, kernel, creds, made, api, relays, causes>>

ApplySteps(c, steps) ==
    /\ At(c, "apply")
    /\ call' = [call EXCEPT ![c] =
          [@ EXCEPT !.todo = steps, !.target = session[Self(c)].redirector, !.met = jumps]]
    /\ UNCHANGED <<fixed, kernel, creds, made, api, relays, session, causes>>

\* Mutant: what a crashed run has left stays.
ApplyOnly(c) == ApplySteps(c, AddCommands \o <<"mode">>)

\* apply() of the redirector the session has now.
Apply(c) == ApplySteps(c, RemoveCommands \o AddCommands \o <<"mode">>)

\* What a command needs to succeed, and what it does.
Possible(k) ==
    CASE k = "-D_OUTPUT"           -> jumps > 0
      [] k = "-F"                  -> chain.there
      [] k = "-X"                  -> chain.there /\ chain.to = << >> /\ jumps = 0
      [] k = "-N"                  -> ~chain.there
      [] k \in {"-A", "-A_OUTPUT"} -> chain.there

Effect(k, port) ==
    /\ chain' = CASE k = "-F" -> [chain EXCEPT !.to = << >>]
                  [] k = "-X" -> [chain EXCEPT !.there = FALSE]
                  [] k = "-N" -> [chain EXCEPT !.there = TRUE]
                  [] k = "-A" -> [chain EXCEPT !.to = Append(@, port)]
                  [] OTHER    -> chain
    /\ jumps' = CASE k = "-D_OUTPUT" -> jumps - 1
                  [] k = "-A_OUTPUT" -> jumps + 1
                  [] OTHER           -> jumps

LockTaken(c) == \E d \in Calls \ {c} : \E k \in Commands : At(d, k)

\* Mutant: what was added before the failure stays.
RaiseOnly(c, k) == IF k \in Additions THEN Go(c, <<"raise">>) ELSE Proceed(c)

\* remove ignores a failure (quiet); apply removes what it has added and raises.
AfterFailure(c, k) ==
    IF k \in Additions THEN Go(c, RemoveCommands \o <<"raise">>) ELSE Proceed(c)

Command(c) ==
    \E k \in Commands :
        /\ At(c, k)
        /\ \/ creds /\ Possible(k) /\ Effect(k, call[c].target) /\ Proceed(c)
           \/ /\ ~creds \/ ~Possible(k) \/ LockTaken(c)
              /\ AfterFailure(c, k) /\ UNCHANGED kernel
        /\ UNCHANGED <<fixed, creds, made, api, relays, session, causes>>

ModeBecomes(c, step, m) ==
    /\ At(c, step)
    /\ session' = [session EXCEPT ![Self(c)].mode = m]
    /\ Proceed(c)
    /\ UNCHANGED <<fixed, kernel, creds, made, api, relays, causes>>

\* The last step of start: the session says it is intercepting.
SetMode(c) == ModeBecomes(c, "mode", "intercepting")

\* Api sets its session to None; `camcap capture` ends.
Drop(c) ==
    /\ IF front[proc[c]] = "ui"
       THEN /\ api' = [api EXCEPT ![proc[c]] = 0]
            /\ Proceed(c) /\ Collect /\ UNCHANGED relays
       ELSE Die(proc[c])
    /\ UNCHANGED <<fixed, kernel, creds, made, causes>>

\* start raised.
Raise(c) == At(c, "raise") /\ Drop(c)

----------------------------------------------------------------------------
(* CaptureSession.stop.                                                     *)

\* if self.redirector: remove(quiet=True)
Remove(c) ==
    /\ At(c, "remove")
    /\ Go(c, IF session[Self(c)].redirector # 0 THEN RemoveCommands \o Tail(Todo(c))
                                                ELSE Tail(Todo(c)))
    /\ UNCHANGED <<fixed, kernel, creds, made, api, relays, session, causes>>

\* Mutant: the thread is only waited for.
HaltNot(c) ==
    /\ At(c, "halt")
    /\ Proceed(c)
    /\ UNCHANGED <<fixed, kernel, creds, made, api, relays, session, causes>>

\* relay_thread.stop(): a loop that does not run yet is not told to stop.
Halt(c) ==
    /\ At(c, "halt")
    /\ LET n == session[Self(c)].thread IN
        /\ relay' = IF n # 0 /\ relay[n] = "running"
                    THEN [relay EXCEPT ![n] = "stopped"] ELSE relay
        /\ causes' = IF n # 0 /\ relay[n] = "bound"
                     THEN Caused("early") ELSE causes
    /\ Proceed(c)
    /\ UNCHANGED <<fixed, kernel, creds, made, api, owns, session>>

Stopped(c) == ModeBecomes(c, "stopped", "stopped")

\* Api.stop, or `camcap capture`, is done with the session.
Forget(c) == At(c, "forget") /\ Drop(c)

----------------------------------------------------------------------------
(* What happens to the processes.                                           *)

\* Ctrl-C or SIGTERM on `camcap capture`: the printing loop turns it into a
\* stop; before the loop and during the stop it ends the process.
Signal(p) ==
    /\ front[p] = "cli"
    /\ \E c \in Calls :
        /\ proc[c] = p
        /\ \/ /\ Idle(c) /\ api[p] # 0
              /\ Begin(c, [NoCall EXCEPT !.todo = SessionStop \o <<"forget">>,
                                         !.self = api[p]])
              /\ UNCHANGED <<api, relays, session>>
           \/ /\ ~Idle(c)
              /\ Die(p)
              /\ causes' = Caused("signalled")
    /\ UNCHANGED <<fixed, kernel, creds, made>>

Kill(p) ==
    /\ api[p] # 0 \/ owns[p] # {}
    /\ Die(p)
    /\ causes' = Caused("killed")
    /\ UNCHANGED <<fixed, kernel, creds, made>>

\* The cached rights run out, or another program takes the table's lock.
SudoExpires ==
    /\ CachedSudo /\ creds
    /\ creds' = FALSE
    /\ causes' = Caused("expired")
    /\ call' = [c \in Calls |-> IF Idle(c) THEN call[c] ELSE [call[c] EXCEPT !.lone = FALSE]]
    /\ UNCHANGED <<fixed, kernel, made, api, relays, session>>

\* The user gives the rights again, or the lock is free.
SudoReturns ==
    /\ ~creds
    /\ creds' = TRUE
    /\ UNCHANGED <<fixed, kernel, made, api, relays, session, call, causes>>

----------------------------------------------------------------------------
StartStep(c) == \/ Check(c) \/ Create(c) \/ Enter(c) \/ StartRelay(c) \/ Probe(c)
                \/ Apply(c) \/ Command(c) \/ SetMode(c) \/ Raise(c)
StopStep(c)  == Remove(c) \/ Halt(c) \/ Stopped(c) \/ Forget(c)

Next ==
    \/ \E c \in Calls : CallStart(c) \/ CallStop(c) \/ StartStep(c) \/ StopStep(c)
    \/ \E n \in Sessions : LoopRuns(n)
    \/ \E p \in Procs : Signal(p) \/ Kill(p)
    \/ SudoExpires \/ SudoReturns

Spec == Init /\ [][Next]_vars

----------------------------------------------------------------------------
(* Properties.                                                              *)

TypeOK ==
    /\ proc \in [Calls -> Procs] /\ front \in [Procs -> {"ui", "cli"}]
    /\ chain \in [there : BOOLEAN, to : Seq(0..MaxSessions)] /\ jumps \in Nat
    /\ creds \in BOOLEAN /\ made \in 0..MaxSessions
    /\ api \in [Procs -> 0..MaxSessions]
    /\ relay \in [Sessions -> {"none", "bound", "running", "stopped"}]
    /\ owns \in [Procs -> SUBSET Sessions]
    /\ session \in [Sessions -> [thread : 0..MaxSessions, redirector : 0..MaxSessions,
                     mode : {"idle", "relay_only", "intercepting", "stopped"}]]
    /\ call \in [Calls -> [todo : Seq(Steps), own : 0..MaxSessions,
                           self : 0..MaxSessions, target : 0..MaxSessions,
                           met : Nat, lone : BOOLEAN]]
    /\ causes \subseteq {"killed", "signalled", "expired", "shared", "early"}

Quiet == \A c \in Calls : Idle(c)
Intercepting(p) == api[p] # 0 /\ session[api[p]].mode = "intercepting"
Listening(n) == relay[n] \in {"bound", "running"}

\* "leftovers from a crashed run" never stand in the way: wherever earlier
\* processes were killed, apply's commands succeed, and a session that says it
\* is intercepting has its own rule installed, and nothing else, exactly once.
CrashesHeal ==
    causes \cap {"expired", "shared"} = {} =>
        /\ \A c \in Calls : \A k \in Additions : At(c, k) => Possible(k)
        /\ \A p \in Procs : Quiet /\ Intercepting(p) =>
              jumps = 1 /\ chain = [there |-> TRUE, to |-> <<session[api[p]].thread>>]

\* apply is all or nothing: whatever was in the table before, a start that runs
\* alone with its rights ends with exactly its own rule, or with none at all; of the
\* jumps it has met it takes two, one before it adds its own and one when it gives up,
\* so that more of them keep the chain, but an empty one.
AllOrNothing ==
    \A c \in Calls : call[c].lone =>
        /\ At(c, "mode") => jumps = 1 /\ chain = [there |-> TRUE, to |-> <<call[c].target>>]
        /\ At(c, "raise") /\ call[c].target # 0 =>
              /\ jumps = IF call[c].met > 2 THEN call[c].met - 2 ELSE 0
              /\ chain = [there |-> jumps > 0, to |-> << >>]

\* What is left when the rights are lost between any two commands of a start or a
\* stop does not stand in the way of the next start that has them: remove(quiet=True)
\* has ignored the failures, and yet every command of that start succeeds.
HealsAfterLoss ==
    "shared" \notin causes =>
        /\ jumps <= 1 /\ Len(chain.to) <= 1
        /\ \A c \in Calls : call[c].lone => \A k \in Additions : At(c, k) => Possible(k)

\* At every moment of a start or a stop that nothing disturbs, traffic is only
\* redirected to a relay that listens.
RulesLeadToRelay ==
    causes \subseteq {"early"} =>
        (jumps > 0 => \A i \in 1..Len(chain.to) : Listening(chain.to[i]))

\* When no session is intercepting and no call runs, something of camcap is in the
\* kernel only if a process was killed or signalled, calls met, or the rights were
\* lost: an undisturbed start or stop leaves nothing on any path, that of a relay
\* that cannot start and of a stop before its loop ran included.
GoneAfterStop ==
    causes \subseteq {"early"} =>
        (Quiet /\ (\A p \in Procs : ~Intercepting(p)) => jumps = 0 /\ ~chain.there)

\* A relay that no session can stop any more is left behind only by the loss
\* of the rights (apply raises out of start), by concurrent calls, or by a stop
\* before its loop ran; in particular not by a start that fails otherwise, nor
\* by kills and signals.
OrphanHasCause ==
    causes \cap {"expired", "shared", "early"} = {} =>
        \A n \in Sessions : Quiet /\ Listening(n) =>
            \E p \in Procs : api[p] # 0 /\ session[api[p]].thread = n

\* Claimed by cli.py:29: a SIGTERM makes the "same clean shutdown as Ctrl-C".
SignalsCleanUp ==
    (causes = {"signalled"} /\ Quiet /\ \A p \in Procs : api[p] = 0) =>
        jumps = 0 /\ ~chain.there
============================================================================
