# A TLA+ model of camcap

camcap captures every command the programs of one computer send to an IP camera. It redirects the
TCP connections to the camera into a local relay, which passes the bytes on unchanged and gives a
copy to a decoder; the decoder fills a log, which a UI or the command line shows, exports and
replays. This directory models the parts of it whose correctness depends on the order of things:
packets, tasks, threads, processes, answers.

Run `tlc -config X.cfg M` and `tlapm M.tla` in this directory. `PROJECT.json` lists every run,
the lines of code each definition stands for, the hazards the properties are aimed at, and for
each property a *mutant*: a definition changed the way a bug would change it, under which the
property fails. Definitions marked "Mutant" in the modules are these.

## 1. The system

| Part | State | Operations | Whom it meets |
| --- | --- | --- | --- |
| `redirector.Redirector` (Windows) | one thread over WinDivert's packet queue | `run`, `_rewrite` (rule 1: client to relay; rule 2: relay to client), `stop` | writes and reads the NAT table; the client's and the relay's TCP |
| `relay.NatTable` | client port -> camera address | `set`, `get`, `pop`, locked | redirector thread, relay tasks |
| `relay.Relay` | an asyncio task per connection, a cursor over source ports | `_handle`, `_pump` (two per task), `_connect` | NAT table, camera, decoder |
| `relay.RelayThread` | a thread with its event loop | `start`, `stop` | session |
| `redirector_linux.LinuxRedirector` | none: the rules are in the kernel | `can_apply`, `apply`, `remove` | iptables, sudo, other camcap processes |
| `capture.CaptureSession` | relay thread, redirector, mode, errors | `start`, `stop`, `status` | all of the above |
| `decoders.StreamDecoder` | per connection: kind, first bytes, two h11 machines, two RTSP buffers, the waiting requests | `feed_c2s`, `feed_s2c`, `close` | relay task, log |
| `model.LogStore` | the events, the next id, a lock | `new_id`, `add`, `since`, `all`, `clear`, import and export | decoders, sniffer, UI, printing loop |
| `cli._cmd_capture` | the last id printed | a loop around `store.since` | log, session, signals |
| `replay.Replayer` | two cookie jars, clock offset, results, cancel | `run` | camera, `wsse`, the thread that cancels |
| `model.redact_text`, `replay.substitute_credentials`, `wsse.resign` | none: text to text | the same | the log that leaves the machine and comes back to be replayed |
| `app.Api`, `ui/index.html` | session, store, replayer; the page's map of events | `start`, `stop`, `clear`, `load`, `poll`, `replay*` | threads of the webview |
| `redirector.WsDiscoverySniffer` | one thread | `run`, `stop` | log |

How they interact: on Windows the redirector thread and the relay's event loop share the NAT
table and nothing else; the order in which they touch it is that of packets. On Linux the kernel
keeps the table (`SO_ORIGINAL_DST`), and what can go wrong is the life of the rules. The relay's
loop calls the decoder synchronously; the decoder and the sniffer append to the log; the UI and
the command line read it from other threads.

What is hard, and to test as well:

* a connection's handler ends after another connection has taken its client port, and packets of
  both are still in the queue;
* half-closed, reset and slow peers on either side of the relay;
* answers that start before their request has been read, pipelining, `100`, `101`, connections
  that close, all cut into pieces anywhere: h11 must be reset after each pair;
* resets with which a client's TCP answers what arrives too late, and which are redirected too;
* ids that are reserved at the start of a request and enter the log at its end;
* iptables commands that fail one by one, processes that are killed between two of them, two
  processes that use one chain, rights that expire, the table's lock in the hands of another
  program, signals during start and stop;
* a thread of the webview per call: two starts, a stop during a start, two replays, an answer to
  a poll that is older than the replay it is taken for;
* a protocol that is decided once, on the first bytes as they happen to arrive; a camera that
  talks first; RTSP answers without a look at their CSeq, with media between them;
* source ports that tasks take from one cursor while others use them;
* an answer that breaks off, a cookie set or cleared in an attempt that is then repeated, a
  Digest login that is two requests in one call, an exception that ends the whole replay;
* credentials that redaction finds in one way and substitution in another.

What makes each part correct is stated in section 3, part by part.

## 2. The modules

| Module | Models | Checked by | Proved in |
| --- | --- | --- | --- |
| `NatRedirect` | redirector thread, NAT table, life of a handler | run `nat` | `NatRedirectProofs` |
| `TransparentPipe` | abstract: what one direction of a relayed connection promises | as a property of `pump` | `RelayProofs` |
| `RelayPump` | `_handle` after the lookup and the two pumps; implements `TransparentPipe` twice | run `pump` | `RelayProofs` |
| `SourcePorts` | `_pick_src_port` and `_connect` against ports in use | run `ports` | `RelayProofs` |
| `CaptureLog` | store, recording threads, printing loop | run `log` | `CaptureLogProofs` |
| `HttpDecoder` | HTTP's part of `StreamDecoder`: h11's machines, pairing | through `StreamDecoder` | `StreamDecoderProofs` |
| `StreamDecoder` | a connection from its first byte to `close`: decision, RTSP, TLS, raw, and HTTP by `HttpDecoder` | runs `decoder`, `decoder_raw` | `StreamDecoderProofs` |
| `CaptureSession` | sessions, relay threads, iptables rules, processes, signals | runs `session`, `session_term` | `CaptureSessionProofs` |
| `Credentials` | functions: redaction, substitution and signing of a body | through `Replayer` | `ReplayerProofs` |
| `Replayer` | a replay: events, attempts, cookies, bodies, cancel | runs `replay`, `replay_name` | `ReplayerProofs` |
| `UiLog` | `Api`, the logs it may have, the page and its map of events | run `uilog` | `UiLogProofs` |
| `ReplayCalls` | the page's replay button and timer, the calls and threads of `Api.replay` | run `calls` | `ReplayCallsProofs` |

The modules meet at their interfaces: `NatRedirect` leaves out the bytes that `RelayPump`
carries; `CauseBeforeEffect` of `RelayPump` is what `HttpDecoder` assumes of the order in which
it is fed; a request of `CaptureLog` takes and adds its id where `HttpDecoder` does;
`NatRedirect`'s ConnectOk and ConnectFail are the outcomes of an attempt in `SourcePorts`; the
replay that is one step in `UiLog` is taken apart in `ReplayCalls`, and what its thread then does
is `Replayer`.

### NatRedirect

`wire` is the FIFO of captured packets (`for pkt in w`), `nat` is `NatTable._m`. An entry of
`handler` follows `_handle`: accepted, connecting, relaying, and then dropped (no entry), failed
(no connection to the camera) or done. `Redirect` takes one packet: `RedirectToRelay` is rule 1,
which sets the entry with *every* client packet, `RestoreReply` and `PassUnrestored` are rule 2
with and without an entry. The handler's `pop` comes where the code has it: in `ConnectFail` and
`HandlerFinish`, in both cases before the packets that close the connection have been captured.
Environment: one local port belongs to one live connection of a client; a segment for a dead
socket is answered with a reset, and so is one that reaches the client from an address with which
it has no connection (`ArriveAstray`), unless a live connection of the port is with that address:
then that one acknowledges. A reset of the client bears the address of the rewritten packet, is
captured, and rule 1 sets that entry again; `rejected` is the history of these. A SYN is
retransmitted.

### TransparentPipe and RelayPump

`TransparentPipe` says: what arrives is what was sent, in order; the end comes after the last
byte; without a reset all of it arrives. `RelayPump` has a pump per direction with the reader's
and the writer's buffers. From one `await` to the next a task is one step: `Forward` is read,
tee, write; `Drained` the return of `drain`; `EndPump` the end of a pump on EOF or on an
exception, with `write_eof`; `Finish` what follows `gather`. An exception of the decoder leaves
the bytes alone (`Tee`, `PassOn`).

### CaptureLog

A *producer* is a request being received, or any other caller between `new_id` and `add`. The
loop of `camcap capture` takes a list (`Poll`) and prints it (`PrintEvent`), each time setting
`last` to the id it prints, even when that is smaller than the one before.

### SourcePorts

A task of `_connect` is *trying* between two attempts, *picked* between the pick and the bind
(`open_connection` gives the event loop up in between), then bound. "Address in use" sends it to
the next port, whether `bind` or `connect` raises it (`InUse`); any other error ends the attempt.
A port is taken by another task, by another program, or after its connection in TIME_WAIT, and
both come and go at any time. `met` is history: the ports a trying task has found taken, or has
seen go to another task.

### HttpDecoder and StreamDecoder

`HttpDecoder` has the state of a connection, what the two peers do with requests and answers, and
the loop of `_http_feed`, which takes one h11 event per step (`Decode`): from the machine of its
own direction, mirrored into the other (`SentToS`, `SentToC`). Requests and answers are numbered;
the camera answers in order but at any time after the head. `ParseFails` covers protocol errors
(the connection becomes raw) and the `AttributeError` of a request that meets a machine past
IDLE, which the code does not catch in the decoder but in the relay. h11 is external; its
transitions were compared with h11 0.16 by feeding more than 4000 simulated behaviours of this
module to the real `StreamDecoder` and comparing kind, events, pairs and waiting requests after
each feed: there was no difference.

`StreamDecoder` extends it with everything around: `FeedC2S` and `FeedS2C` are `feed_c2s` and
`feed_s2c`, `Decide` is `_decide`, `RtspParse`, `TlsFeed` and `RawTouch` the other protocols, and
`Close` is `close`. What is abstracted from the bytes is what they depend on: whether a piece is
too short to decide, a part of the first line, or the rest of it, and whether that line fits the
64 bytes the decision looks at (`fits`). In RTSP a message is complete or not, its length
readable or not, and media may stand in front of it (`glued`).

### CaptureSession

A call is the list of steps it has still to take, so that the order of the code is visible in one
place: `SessionStop`, `RemoveCommands`, `AddCommands`, `CallStart`. Each iptables command is one
step that succeeds or fails: `Possible` says what the table allows, `LockTaken` that another
command of camcap holds its lock, `creds` that the rights are there and no other program has the
lock; both can go and come back between any two steps (`SudoExpires`, `SudoReturns`).
`AfterFailure` is the difference between `remove(quiet=True)` and `apply`. `Raise` is what the
caller of `start` does with its exception. A relay is *bound* until its loop runs; `Halt` only
stops a running one, as `RelayThread.stop` does. Kill, signals and expiry of the sudo rights come
between any two steps. Initially the table holds anything earlier processes may have left: rules,
jumps to the chain, or an empty chain. `met` is history: the jumps that were there when `apply`
began.

### Replayer

The steps are those of `run` (`Loop`, `Due`) and `_replay_one` (`Begin`, `Raw`, `Reauth`,
`Login`, `Digest`, `Fallback`). Both cookie jars are kept apart, with requests' rule that an
explicit Cookie header goes before the jar; an answer may add to a jar or empty it (a cookie with
`Max-Age=0`). A Digest login is one call and two requests: the first without credentials, and,
when the refusal has a challenge, a second (`Digest`), into which requests copies the challenge's
cookie. An exchange may fail before or after the headers of its answer. What the code does not
catch ends the replay (`Dies`): a body that cannot be signed, Basic credentials that latin-1 has
no code for, a challenge that cannot be answered. `kept` is the Cookie header as it was when the
headers were made, which both attempts use. `Credentials` has the bodies: a syntax and a set of
fields, each with the class of its key, its depth and its value; `Redact`, `Substitute` and
`Resign` say which fields each of the three functions finds. A log may have been redacted before
it is replayed (`Loaded`), and the history `sent` has the body of each request.

### UiLog

The page and the `Api` are two actors: `Clear` and `ClearPage`, `Load` and `LoadPage`, `Poll` and
`Receive`, `AskReplay` and `Replay` are the two halves of a call, and anything may come between
them. A session keeps the store it was started with (`recording`), while `load` gives the `Api`
another (`current`). A file's events keep their ids, which may repeat: it may have been
downloaded from a log in which they did (`FileIds`). Events are numbered beside their ids, so
that a row can be told from another event with its id. `ghost` and `crossed` are history: they
name the two causes that the properties allow. `crossed` is the set of logs that may have an id
twice. After a load the rows stay clickable until the poll is rendered (`rows`), and the
selection stays.

### ReplayCalls

Click *k* makes call, Replayer, thread and timer *k*. `Test`, `MakeReplayer`, `Mark`,
`MakeThread` and `Launch` are the statements of `Api.replay`, each of which another thread of the
webview may come between; `Launch` starts the thread that is in `_replay_thread` *then*, and
`Run` takes the Replayer that is in `self.replayer` *then*. A request of the replay may meet an
answer that never ends (`NeverEnds`). `Answered` and `PollReplay` are the page, `Tick` its
interval, which does not wait for the answer to the last poll.

## 3. What is checked

Every run is exhaustive within its bounds. "By cause" in the table means a property of the form:
the bad thing happens only after a named event; this says both what the code cannot prevent and
that nothing else brings it about.

| Run | Properties |
| --- | --- |
| `nat` | By cause: `EntryHasCause`, the entry of a live client past its SYN is another's only after the client's TCP has reset something late of an earlier, dead connection of the port, and `MisrouteHasCause`, a live client is connected to a camera port it did not dial only after such a reset. `StrayHasCause`, `DropHasCause`: replies that are not rewritten come only from the pop of a handler of the port (the connection's own included, whose FIN is still in the queue), and connections that are dropped only from that of another's. `DialConnects`: a late pop or reset may strand a handshake, but SYN retransmission sets the entry again. |
| `pump` | `Transparent`: each direction refines `TransparentPipe`, with its liveness. `CauseBeforeEffect`: the decoder is never given an effect before its cause. `HandlerEnds`. |
| `ports` | `RefusedHasCause`: a connection is refused for want of a port only if as many ports as it has tries, or all there are, were taken or went to other tasks meanwhile. |
| `log` | `IdsUnique`; `SkippedWasOvertaken`, `RepeatedWasOvertaking`: the cursor loses or repeats only because of ids out of order; `PrintsLogInOrder`, `PrintedInTheEnd`, `FallsSilent`. |
| `decoder` | `PairedExactly`, `CaughtUp`, `InSyncWithoutOverlap`: without early answers, pipelining and requests of the camera, every pair of HTTP and RTSP is right and complete, with media in between or not. `AwaitingIsUnanswered`: in every case. `RawHasCause`: when a connection is logged as no HTTP or RTSP, by cause. |
| `session` | `CrashesHeal`: apply succeeds over whatever a killed process left, and then exactly one rule is there. `AllOrNothing`: a start ends with its own rule or with none, whatever was there before, but for the jumps beyond two that `apply` does not reach. `HealsAfterLoss`: what is left when the rights, or the lock, are lost anywhere in a start or a stop does not make the next start fail that has them, although `remove(quiet=True)` ignored the failures. `RulesLeadToRelay`: no moment at which traffic is sent to a closed port. By cause: `GoneAfterStop`, something of camcap stays in the table only after a kill, a signal, calls that met, or a loss of the rights; `OrphanHasCause`, a relay without a session only after that loss, calls that met, or a stop before its loop ran. |
| `replay` | `LadderInOrder`: when credentials may go into the *headers*, and which attempt may follow which (a login's body has the operator's credentials in every attempt, see section 5). `ResultsAccount`: which events get no result, and which of three exceptions ended the replay. `StaleCookieDropped`, unless an answer of the same event cleared the session; `BareUnlessTorn`, by cause. `RedactedAsCaptured`: what goes out is the same whether the log was redacted or not, but for the fields that only redaction knows. `CredentialsTogether`: the operator's user never goes out with another password. `SignedOnce`: one fresh token before all others, and no captured one beside it unless the envelope had several. |
| `uilog` | `GhostHasCause`: the page shows only what is in the log, by cause (an answer older than a clear or load that arrives after it: the page merges and never deletes). `DuplicateHasCause`: an id occurs twice in a log only after a clear while a request held one, or when it was in the file twice. `ReplayAsSelected`: selected rows are replayed as the page showed them. |
| `calls` | `OneReplay`: one replay at a time, the one that polls and cancel are about, unless two calls were accepted before the page had an answer. `RunningIsWatched`: while it runs the button is disabled and a timer polls, unless an older answer came late. `ButtonReturns`, unless the replay waits for an answer that never ends. |

Each module has a type invariant, `TypeOK` (`PortsTypeOK` in `SourcePorts`). It is proved for all
of them, so that the runs, but for `decoder`, spend their time on the properties above.

### Bounds

* `nat`: two connections on two ports, one of them reserved, two camera ports. Two connections
  are needed for a reuse of a port. `MaxWire` = 2 only holds back new data of clients and camera,
  never what the redirector or a TCP answers; `MaxSyns` = 2 bounds the SYNs of one connection in
  the queue: one retransmission while the handshake is under way. `MCInit` fixes what is
  symmetric (the first connection's port and camera port) and that the second dials the other
  camera port. The four invariants are proved for any number of connections and ports and any
  queue, so that the small instance is for `DialConnects`.
* `pump`: three bytes against one, read two at once, write buffer of one read: a read that is
  cut, a drain that waits, data after EOF. Nothing depends on what the bytes are.
* `log`: three producers and five ids: an id can be overtaken twice and the cursor go back twice.
  Proved for all sizes, except for liveness.
* `ports`: two tasks, four ports, three tries: more ports than tries, and fewer tries than the
  tasks and other programs can take. With one task the cursor would not be shared.
* `decoder`: three requests. A wrong pair needs two, a wrong pair that is followed by a third, or
  corrected, needs three. Every invariant of the run is proved for any number. All dialects,
  framings and upgrades are on; a camera sends each unasked message at most once.
* `session`: two processes of either kind, two calling threads, two sessions, and a rule and up
  to three jumps left over. `apply` takes one jump before it adds its own and one more when it
  gives up: two jumps make it fail, and of three one is left behind, with an empty chain that it
  leads to. That many come from concurrent starts. More rules than one all go with one `-F`. The
  rights can go and come back any number of times. All six invariants are proved for any bounds.
* `replay`: every event alone: commands, bodies of every syntax that carry a login or what looks
  like one, envelopes with no, one and two tokens, events that cannot be replayed (`Firsts`,
  `Others`, `Logins`); and in pairs a command, a stream, a login or a command of a session before
  one of the two kinds of command (`Seconds`); all with all options. What one event leaves to the
  next is two jars, the clock and cancel, all of which the second shows; a body does not depend
  on another's.
* `uilog`: two requests, a file with two events, whose ids are twice the same or not in order,
  two events after it, one load, any number of clears, one answer under way. An id occurs twice
  with two events, and the file's events meet them. One answer is enough to be older than a
  clear; two answers merge the same lists.
* `calls`: two clicks and two polls under way. The two invariants are proved for any number; a
  stale answer needs two replays and two polls.

Runs with `CHECK_DEADLOCK FALSE` may stop: clients stop dialling, the counted events are used up,
a replay ends.

### Fairness

* `nat`: the redirector thread (it blocks only on the queue), and retransmission of each SYN,
  which TCP does. Its timer backs off, which `DialConnects` has as a premise: it must not happen
  for ever that a SYN is sent while earlier ones, or their answers, are still in the queue
  (`Unhurried`). Nothing is assumed of handlers.
* `pump`: the event loop runs every task that is ready (handler and pumps), and the network
  delivers. No peer has to read, write or close; the abstract pipe's own liveness is conditional
  on no reset.
* `log`: the printing loop goes on. No producer has to finish.
* `calls`: the threads run, polls are answered, and the page's interval fires. A replay ends (a
  log is finite, and the timeout of requests ends one that waits in vain) *or* meets an answer
  that never ends: that timeout is for a pause in the answer, not for its length, so `NeverEnds`
  is always possible, and the property says what follows. Nobody has to click.
* `session`, `replay`, `decoder`, `uilog`, `ports`: safety only.

## 4. What is proved

With TLAPS, for every value of the constants that satisfies the modules' named assumptions:
`NatAssumption`, `PumpAssumption`, `PortsAssumption`, `LogAssumption`, `HttpAssumption`,
`StreamAssumption`, `SessionAssumption`, `LogsAssumption`, `UiAssumption`, `CallsAssumption`. All
but three say what kind of number a bound is, or name the kinds of protocol and framing there
are. `PortsAssumption` adds that the range of ports is not empty and there is at least one try;
`UiAssumption` that the bound on events leaves room for those of the file, and that there is a
log; `LogsAssumption` that what was captured is a text or a number and not yet the operator's.
Each proof module has a `TypeCorrect`; every invariant below is a theorem under another name,
which `PROJECT.json` lists beside it.

`NatRedirectProofs`: `EntryHasCause` (theorem `EntriesHaveCause`), `MisrouteHasCause`,
`StrayHasCause`, `DropHasCause`. The first is not inductive: rule 1 writes the entry from a
packet that may have been in the queue for long. The strengthening is about the queue: a live
connection owns its port (`Exclusive`), so behind a packet of it all client packets of the port
are its own or resets of what was rejected (`Ordered`), and once its SYN has been taken there are
no others in the queue (`OwnAfterSyn`). A SYN thus closes the queue to older packets of earlier
connections; after that an entry can only be set to its own destination, popped, or set by a
reset. `Known` says where the address in a reset comes from, an entry that somebody dialled, and
that who dialled it is gone if it is not the live one. The steps are grouped by what they do to
the queue (append, take the head, nothing), with a lemma for each.

`RelayProofs`, on `RelayPump`: each direction implements the safety part of `TransparentPipe`
(`PumpsAreFaithful`), and `CauseBeforeEffect`. The invariant of a direction (`Chain`) says where
its bytes are: delivered, in the writer's buffer, in the reader's, in this order and without a
gap while the sink is up; `Ended` says when a stream may have ended. Each step of the two pumps
is then a step of the abstract pipe or leaves it as it is. For `CauseBeforeEffect` the bytes teed
carry what had been teed of the other direction (`Caused`): a peer can only have received what
had gone through the tee before. The other half of `Transparent`, the pipe's liveness, is TLC's.

`RelayProofs`, on `SourcePorts`: every port a task picks or connects from lies in the range the
redirector leaves alone (`PortsTypeCorrect`), and `RefusedHasCause`. The invariant `Trail`: the
last ports the cursor has left, as many as the task has begun attempts, have all been met by it,
in its own attempts or as those of the task they went to. When the tries are used up the trail is
as many ports (`TrailCounts`), or the whole range.

`CaptureLogProofs`: `IdsUnique`, `SkippedWasOvertaken`, `RepeatedWasOvertaking`,
`PrintsLogInOrder`. `IdsUnique` needs that all ids are below the counter. That what is missed was
overtaken needs a statement about the batch in progress (`Missed`): a position that is skipped
and below the cursor *or below a position still in the batch* is overtaken; `Again` is its
counterpart for repetitions, and `Orderly` says that as long as ids are in order, what is printed
and the batch are adjacent pieces of the list.

`StreamDecoderProofs`: every invariant of run `decoder`, `TypeOK` (`TypeCorrect`),
`AwaitingIsUnanswered` (`AwaitingExact`), `RawHasCause` (`RawCaptured`), `PairedExactly`
(`PairsExactly`), `CaughtUp` (`CatchesUp`) and `InSyncWithoutOverlap` (`StaysInSync`), for any
number of requests. The last three speak of the log or of the moments between two calls, and a
call is many steps, so the invariant has to know every moment in one:

* `Sound` holds whatever the peers do. `Wire` says how far the camera can be behind the client,
  and what it may have sent at all; `Decided` what each protocol implies about what has come and
  what is in the log, and why a connection is raw; `Ids` that ids in the log, in a request being
  built and in the one being answered are distinct; `Lists` that the queue and the log's
  unanswered requests are the same, in the same order. The order is stated by positions and not
  with a filtered sequence, whose definition is recursive and out of the prover's reach.
* `Lockstep`, for HTTP without overlap: `Machine` gives the state of both h11 machines, and
  `Records` the log, the queue, the request being built and the answer being taken, as functions
  of how many heads, ends, answers and ends of answers have been fed. A call under way is one of
  six situations (`HeadTold` ... `DoneTold`), each with the one token that is still to be
  decoded, and with the counts before it; between calls it is `AtRest` or, after a 101,
  `Switched`.
* `Paired`, for RTSP in order: the queue is the requests from the first unanswered on, and
  `finished` says which that is. A media packet glued to an answer is why the status may be lost
  but not the place in the queue.
* `HelloRead` is the second half of `CaughtUp`. `LeftExact` keeps `PairedExactly` on a connection
  that an error has made raw, where neither machine says anything any more.

`Lockstep` is where the proof uses that nothing overlaps; what is still true of the queue when
something does is `Lists`.

`CaptureSessionProofs`: `AllOrNothing`, `HealsAfterLoss` (`LossIsHealed`), `CrashesHeal`,
`RulesLeadToRelay`, `GoneAfterStop` (`NothingStays`), `OrphanHasCause`. A call is a list of
steps, so the first part gives each list it can be at a name (`lCheck` ... `sEnd`) and shows that
a step leads from one to the next; `TypeCorrect` follows. `LoneInv` says what the table is like
at each place of a call that runs alone with its rights (`Alone`): after `apply` has taken one
jump, flushed, and tried to delete, the chain is there exactly if jumps are left, and empty. This
proves `AllOrNothing`. For `HealsAfterLoss`, `HealInv` adds that while calls do not meet, one
runs at a time and the table has at most one jump and one rule, and none of what the running call
is about to add (`Roomy`): `apply` removes before it adds, a failed command of `remove` only
leaves what was there, and the next start, alone and with its rights, is in the situation of
`AllOrNothing`. The other four are about everything that happens while the rights last and calls
do not meet (`Calm`). Their invariant, `CleanInv`, ties the three parts together: at each place
of a call (`Staged`) and at rest (`Settled`) it says what the session has recorded, whether its
relay listens, and what is in the table, which is nothing (`Free`), unless a process was killed,
or the session's own rule (`OwnRule`). `Base` adds what holds between processes: only one has a
session, no relay belongs to two of them, and a relay that listens belongs to a session, unless a
stop came too early. There is a lemma for each action (`CleanCheck` ... `CleanLoop`).

`ReplayerProofs`: `ResultsAccount`, `StaleCookieDropped`, `BareUnlessTorn`, `LadderInOrder`,
`SignedOnce`, `CredentialsTogether`, `RedactedAsCaptured`. They need what holds between the
attempts of an event: how many results there are while one is in hand (`Account`); that a
captured Cookie is kept only while the session is fresh, or an answer of the event has cleared
it, and that what is in the bare jar came from a torn answer (`Jarred`); that the attempts past
the first were allowed by a refusal (`Rungs`); and that every body sent is the one its attempt
makes (`Bodied`). With that, the last three are about the functions of `Credentials`, for every
body: what redaction takes and substitution or signing gives back, field by field.

`UiLogProofs`: `DuplicateHasCause`, `GhostHasCause`, `ReplayAsSelected`. For the first, what a
log and its requests have as ids is below its counter (`Below`), unless it was cleared while a
request held one, or loaded from a file with an id twice. The page is right about the log because
of what is on its way: an answer that is not outdated holds only events of the log (`Answers`),
which only grows until a clear or a load outdates all of them; so a page that has had no outdated
answer shows only these (`ShownInLog`). A request for a replay that can be sure names ids the log
has, and chooses what it wants (`Requested`): an event added later has another id, so it cannot
be chosen too. That the merge of an answer takes nothing from anywhere else (`MergedFrom`) needs
that a set of positions has a last one, which follows from the library's theorem on well-founded
orders.

`ReplayCallsProofs`: `OneReplay`, `RunningIsWatched`. The first invariant (`Ordered`) is about
the time before the thread runs: without overlapping calls at most one is past its test, no
thread is alive from there until it makes its own, and from each statement on what it has set is
still its own. For the second, the page knows only clicks it has had the answer for (`Known`), no
other thread is there while an answer is on its way (`Alone`), and a replay that runs has the
page's timer and no poll on its way that says it is done (`Timed`).

Two properties turned out to be false when they were to be proved, for states that the instances
of the time did not reach, and were restated: `AllOrNothing` said that a failed start leaves the
table empty, which three jumps refute; `RedactedAsCaptured` left out bodies of another kind than
their path (JSON to an ONVIF path, an envelope to a CGI). The instances now contain both.

Only model-checked: liveness (`DialConnects`, `HandlerEnds`, `PrintedInTheEnd`, `FallsSilent`,
`ButtonReturns`, the abstract pipe's), which the prover does not support. Every safety invariant
of a passing run is a theorem. What a run refutes (section 5) is a counterexample on its
instance, which is all it has to be.

## 5. Where code and comments disagree

Each is a run that ends in a counterexample.

* `decoder_raw`: what is HTTP is logged as commands, and only the rest as raw. Not when the first
  request's line ends after 64 bytes (`/cgi-bin/...` with a long query): the connection is raw,
  and none of its commands is in the log. A first line in two pieces has the same effect.
* `session_term`: SIGTERM means the same clean shutdown as Ctrl-C: not while the session starts,
  and not a second time while it stops.
* `replay_name`: login bodies get the operator's credentials. So does a JSON body that is no
  login: a `name` (or `user`) at its top level is replaced with the operator's user name.

More facts, which the models show because a property has to allow them (`MisrouteHasCause`,
`DropHasCause`, `SkippedWasOvertaken`, `StaleCookieDropped`, `BareUnlessTorn`, `LadderInOrder`,
`ResultsAccount`, `RedactedAsCaptured`, `SignedOnce`, `AllOrNothing`, `GoneAfterStop`,
`OrphanHasCause`, `DuplicateHasCause`, `RunningIsWatched`, `ButtonReturns`; `recording` and
`current` in `UiLog`):

* a client that aborts while a reply is under way resets it when it arrives; if its port has been
  dialled again to another camera port meanwhile, the redirected reset puts the old camera port
  into the table, and a new connection that is accepted just then is connected to the wrong one;
* a connection that takes a client port while the old handler is closing may find no entry and be
  dropped;
* `camcap capture` never prints a command that takes longer than its successor to be received (it
  is in the log);
* what a session records after a load goes into a log that the page does not show any more;
* an answer that breaks off once its headers have set a cookie leaves that in the session for
  requests without cookies;
* redaction hides secrets that a replay does not give back: deeper in JSON, as numbers, in lists,
  in bodies of several lines, in SOAP, under keys like `token`, and in bodies of another kind
  than their path;
* `apply` and its undoing take one jump each: when concurrent starts have left three, one of them
  stays, with an empty chain, after a start that has failed;
* an envelope with an empty `<Header/>` gets its new token outside of the header, and of two
  Security elements only the first is removed (`count=1`, `wsse.py:66`; the docstring of `resign`
  says "any existing"), so that the second, captured one stays;
* `replay.py:11` says of the first attempt "send exactly what was captured"; the body of a CGI
  login has the operator's credentials in it already (`_body_for`, lines 144 and 209);
* an exception that is no `RequestException` ends the whole replay, without a result for the
  event and those after it: a body to an ONVIF path that is no envelope, a Basic password with
  letters that latin-1 does not have, a Digest challenge that requests cannot answer;
* an answer that clears the session's cookies in an event makes the next attempt of that event
  send the stale captured Cookie; the second request of a Digest carries the cookie of its
  challenge, even when the event was captured without;
* a log that was cleared while a request was being received may have an id twice, and so has
  every log that is loaded from a download of it;
* when the rights, or the table's lock, are lost during a stop, the rules stay until the next
  start, and when they are lost during a start, its relay stays until the process ends;
* an answer that never ends (`multipart/x-mixed-replace`, an alert stream) keeps the replay's
  thread, which cancel does not reach, and the button disabled;
* a poll's answer that is older than the replay enables the button and ends the timer.

## 6. What is not modelled

* The list of a replay's results, which only grows, and `replay_cancel` from the page: cancel is
  an action of `Replayer`. `CaptureLog` is about a log that is not cleared.
* The bytes of a ClientHello, and a TLS buffer past 16 KiB.
* The dialogs and files of `download` and `load`: a file is a list of ids, as a log had them.
* What requests refuses before it sends anything: the urls and headers of the events are assumed
  to be ones it takes. Paths, domains and expiry of cookies: a jar is empty or not.
* The timeout of `_ready.wait(5)` in `RelayThread.start`: the loop is assumed to say within five
  seconds whether it could bind.
* HTTP/1.0 requests, which the decision takes for HTTP and h11 then refuses to mirror: the
  connection becomes raw, as after an HTTP/1.0 answer, which is modelled. RTSP media that
  happens to contain an empty line (CRLF CRLF), which the code takes for the end of a message's
  head.
* The error list of the session, which the printing loop walks and empties without the lock its
  writers take: an error that comes just before the `clear`, or that the cut to 200 moves under
  the loop's iterator, is lost unprinted. Nothing else depends on the list.
* `Redirector.stop` lets one more packet pass as it was; `local_ip_for`, `check_filter` and the
  filter text are pure functions.
* The Windows branch of `CaptureSession.start`: it creates two threads and has no system-wide
  state to leave behind.
* Text: HAR and JSONL, classification, URL rewriting, redaction of headers and URLs, XML and the
  digest of WS-Security; packaging and argument parsing.
* Data: a body is part of the piece that ends it; cut-off at the size limit and decompression are
  left out.

## 7. Plan

Done, in this order: the interception path (most important: everything else depends on it), the
pumps, the log, HTTP, the session, the replay, the page; then the decision and the other
protocols, credentials, source ports, the calls of the replay button; then the proofs of all
safety properties, the decoder's last. What is left is not modelled (section 6), or liveness.
