----------------------------- MODULE SourcePorts -----------------------------
(***************************************************************************)
(* The source ports of the relay's connections to the camera (relay.py,    *)
(* _pick_src_port and _connect): they come from a range that the           *)
(* redirector leaves alone, round robin, from one cursor that all handler  *)
(* tasks share.  A task tries a few of them; a port that is taken, by      *)
(* another connection, another program or a connection that has just been  *)
(* closed (TIME_WAIT), sends it to the next, whether bind or connect finds *)
(* it so; any other error ends its attempt, and so does the timeout.       *)
(*                                                                         *)
(* Between a pick and the bind the event loop may run other tasks (wait_for*)
(* makes a task of its own before Python 3.12).  External: the operating   *)
(* system's ports and the camera.                                          *)
(***************************************************************************)
EXTENDS Naturals, FiniteSets

CONSTANTS
    Tasks,      \* handler tasks
    Lo, Hi,     \* src_port_range: Lo..Hi-1
    Tries       \* 64 in the code

ASSUME PortsAssumption == Lo \in Nat /\ Hi \in Nat /\ Lo < Hi /\ Tries \in Nat \ {0}

VARIABLES
    next,       \* _next_src
    stage,      \* of a task: idle, trying, picked, bound, open, refused
    port,       \* the port in a task's hands
    tried,      \* attempts of a task's loop
    taken,      \* ports taken by others than the relay's tasks
    met         \* history: for a trying task, the ports that it found taken, or
                \* that another task picked since it began

portVars == <<next, stage, port, tried, taken, met>>

Ports == Lo..(Hi - 1)

PortsInit ==
    /\ next = Lo
    /\ stage = [t \in Tasks |-> "idle"]
    /\ port = [t \in Tasks |-> Lo]
    /\ tried = [t \in Tasks |-> 0]
    /\ taken \in SUBSET Ports
    /\ met = [t \in Tasks |-> {}]

Attempting == {"trying", "picked", "bound"}

Holds(t, p) == stage[t] \in {"bound", "open"} /\ port[t] = p

Busy(p) == p \in taken \/ \E t \in Tasks : Holds(t, p)

----------------------------------------------------------------------------
\* _connect begins.
Connect(t) ==
    /\ stage[t] = "idle"
    /\ stage' = [stage EXCEPT ![t] = "trying"]
    /\ UNCHANGED <<next, port, tried, taken, met>>

\* Its loop is over, with or without a port.
Forget(t) ==
    /\ tried' = [tried EXCEPT ![t] = 0]
    /\ met' = [met EXCEPT ![t] = {}]

\* Mutant: the cursor stays at the end.
AfterStuck(p) == IF p + 1 >= Hi THEN p ELSE p + 1

After(p) == IF p + 1 >= Hi THEN Lo ELSE p + 1

\* _pick_src_port.
PickSrcPort(t) ==
    /\ stage[t] = "trying" /\ tried[t] < Tries
    /\ stage' = [stage EXCEPT ![t] = "picked"]
    /\ port' = [port EXCEPT ![t] = next]
    /\ next' = After(next)
    /\ met' = [u \in Tasks |-> IF u # t /\ stage[u] \in Attempting
                               THEN met[u] \cup {next} ELSE met[u]]
    /\ UNCHANGED <<tried, taken>>

Bind(t) ==
    /\ stage[t] = "picked" /\ ~Busy(port[t])
    /\ stage' = [stage EXCEPT ![t] = "bound"]
    /\ UNCHANGED <<next, port, tried, taken, met>>

\* EADDRINUSE, from bind or, once bound, from connect: the next one.
InUse(t) ==
    /\ \/ stage[t] = "picked" /\ Busy(port[t])
       \/ stage[t] = "bound"
    /\ stage' = [stage EXCEPT ![t] = "trying"]
    /\ tried' = [tried EXCEPT ![t] = @ + 1]
    /\ met' = [met EXCEPT ![t] = @ \cup {port[t]}]
    /\ UNCHANGED <<next, port, taken>>

\* "no free source port": the client's connection is dropped.
GiveUp(t) ==
    /\ stage[t] = "trying" /\ tried[t] >= Tries
    /\ stage' = [stage EXCEPT ![t] = "refused"]
    /\ UNCHANGED <<next, port, tried, taken, met>>

Connected(t) ==
    /\ stage[t] = "bound"
    /\ stage' = [stage EXCEPT ![t] = "open"]
    /\ Forget(t)
    /\ UNCHANGED <<next, port, taken>>

\* The camera refuses, or the timeout: the socket is closed, the error raised.
ConnectFails(t) ==
    /\ stage[t] = "bound"
    /\ stage' = [stage EXCEPT ![t] = "idle"]
    /\ port' = [port EXCEPT ![t] = Lo]
    /\ Forget(t)
    /\ UNCHANGED <<next, taken>>

\* The end of a connection, whose port may stay in TIME_WAIT, or of a refusal.
ConnectionEnds(t) ==
    /\ \/ stage[t] = "open" /\ \E lingers \in {{}, {port[t]}} : taken' = taken \cup lingers
       \/ stage[t] = "refused" /\ UNCHANGED taken
    /\ stage' = [stage EXCEPT ![t] = "idle"]
    /\ port' = [port EXCEPT ![t] = Lo]
    /\ Forget(t)
    /\ UNCHANGED next

\* Another program, or the end of TIME_WAIT.
OthersTake(p) == ~Busy(p) /\ taken' = taken \cup {p} /\ UNCHANGED <<next, stage, port, tried, met>>
OthersFree(p) == p \in taken /\ taken' = taken \ {p} /\ UNCHANGED <<next, stage, port, tried, met>>

Step(t) == \/ PickSrcPort(t) \/ Bind(t) \/ InUse(t) \/ GiveUp(t)
           \/ Connected(t) \/ ConnectFails(t)

PortsNext ==
    \/ \E t \in Tasks : Connect(t) \/ Step(t) \/ ConnectionEnds(t)
    \/ \E p \in Ports : OthersTake(p) \/ OthersFree(p)

PortsSpec == PortsInit /\ [][PortsNext]_portVars

----------------------------------------------------------------------------
(* Properties.                                                              *)

PortsTypeOK ==
    /\ next \in Ports /\ port \in [Tasks -> Ports]
    /\ stage \in [Tasks -> {"idle", "trying", "picked", "bound", "open", "refused"}]
    /\ tried \in [Tasks -> 0..Tries]
    /\ taken \in SUBSET Ports /\ met \in [Tasks -> SUBSET Ports]

\* A connection is dropped for want of a port only if as many ports as it has
\* tries, or all there are, were found taken or went to other tasks meanwhile:
\* sharing the cursor never makes a task try less of the range.
RefusedHasCause ==
    \A t \in Tasks : stage[t] = "refused" =>
        Cardinality(met[t]) >= Tries \/ met[t] = Ports
============================================================================
