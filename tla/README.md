# A formal model of OvpnLane

OvpnLane is an OpenVPN client without a network device: packets of the VPN end
in a TCP/IP stack inside the process, and a SOCKS5 server on the loopback
interface offers that stack to other programs.  This directory holds TLA+
modules translated from the Rust sources under `src/src/`, the TLC
configurations that check them on small instances, and proofs checked by TLAPS.

## The system

| Part | State | Operations | Hard behaviour | What makes it correct |
| --- | --- | --- | --- | --- |
| `netstack.rs`, run loop and `Engine` | command and packet channels, the engine of the tunnel that is up: sockets, `lookups`, `flows`, port counter | `Tunnel::connect/online/offline/receive`, `Engine::connect/step`, drop | callers, adapter, clock and worker interleave; a tunnel is replaced under requests; cancellation; deadlines; limits | a reply is owed by exactly one place and given in time; streams belong to the tunnel that is up; limit, ports and DNS queries are never exceeded, shared or leaked |
| `netstack.rs`, `Flow::poll` | two copy loops between socket and pipe, `read_closed`, `write_closed`, `activity` | poll, the client's reads, writes, shutdown and drop | both half-closes, reset, full buffers, idle timeout | no byte lost, no end of stream before the last byte, the place of a dead connection is given back |
| `vpn.rs`, `UserspaceVpn` | `generation`, `io`, `mtu`, `info` | the OpenVPN core's callbacks | start in steps, callbacks from within `connected()`, a stack that lags behind, fails or has stopped | the stack runs the engine of the tunnel the core has, and none after a stop; packets get only into the engine of the tunnel they came by |
| `vpn.rs`, `Diagnostics` | four flags and a notification | events, `wait_connected`, `session_end` | event against waiter | nobody waits for a tunnel that is up; the reason reported is the last failure |
| `socks.rs` | semaphore, task set, protocol position of each client | accept, handshake, connect, copy | shutdown against clients, timeouts | no success reply before the TCP connection stands; no task outlives `serve` |
| `main.rs` | proxy, session and save tasks; passwords | the select of `main`, shutdown, password sources | order of shutdown, save against stop | the process ends; a password is saved only after the server took it |
| `settings.rs` | none | `Settings::parse` | filters that depend on other options, checks that depend on the last line | what is parsed is what the list asks for, and an engine can be built with it |
| `connect.rs`, `connect/password.rs` | files and keychain entries of OpenVPN Connect | discovery, choice, decoding | several profiles of one name; Connect writes its storage meanwhile | the profile used is the one asked for; Connect's password is used only for the user it was saved for |
| `update.rs` | the release, a temporary directory and the executable | choose, verify, unpack, try, replace | a failure or a kill at each step, a release published anew, two updates at a time | the executable is the old one or a verified and tried new one |

SOCKS tasks call `Tunnel::connect`, which sends a command with a oneshot channel
for the reply and awaits it.  The OpenVPN core calls `UserspaceVpn`, which sends
`Online` and `Offline` commands and packets.  One thread, `vpn-ip-stack`, takes
commands and packets, runs the engine and answers.  A connected caller and the
engine then share a tokio duplex pipe.

## Modules

### Netstack: the run loop, the engine and the tunnel handle

| Model | Code |
| --- | --- |
| `commands`, `packets` | the two crossbeam channels of `Tunnel` |
| `generation` | the last generation the adapter brought up |
| `reply[r]` | the caller's view of its oneshot channel; `cancelled` when its future was dropped |
| `engine`, `settings`, `failed` | the `Option<(u64, Engine)>` of `run`, `Engine.settings`, `PacketDevice.failed` |
| `slot`, `fallback`, `dns` | `Engine.lookups` and the queries of the DNS socket |
| `tcp`, `port`, `next_port` | `Engine.flows`, the states of their sockets, the port counter |
| `expired`, `late` | the deadlines that have passed, and those that had when `step` read the clock |
| `pc`, `todo`, `drained` | where the worker is in its loop, the vector of the scan from its index on, packets taken in a row |
| `accepted`, `home` | history, for the properties: which server accepted over which tunnel, and over which tunnel a caller was told so |

One iteration of the worker is `select -> drain -> lookups -> flows (<-> reply) -> select`,
and each turn of each of its loops is an action: `TakeCommand`, `TakePacket` and
`WakeUp` are the arms of `select!`, `Drain` the turns of the packet loop,
`Egress` the rest of the first `Interface::poll` and the reading of the clock,
`ServeLookup` and `PollFlow` the turns of the two scans of `Engine::step`,
`FinishStep` the second poll and the test of `failed`.  Callers, the adapter and the
clock act between any two of them.

A scan walks a vector from which it removes: `todo` is what lies from the index on.
It begins as any ordering of the entries (`Orders`; which one is due to earlier steps), loses its
head when the index moves on, and when an entry is removed the last one takes its place and is the
next to be visited (`SwapRemove`); a lookup that asks again is appended and visited
once more.  A flow that is established is polled in two actions, `PollFlow`
with the question whether the caller is still there and `SendReply` with the sending itself,
since the caller may drop its receiver between them.

Data that no property tells apart is left out: an address is `v4`, `v6` or
`bad` (unspecified, multicast, or with port zero), a packet is a DNS answer,
one of three TCP segments that change an attempt, or data of an open stream, for one request.  smoltcp is external.  Its sockets
are modelled by the states netstack.rs reads; the table of DNS queries has
`MaxConnections` places here (the real one grows), and `QueriesOwned` shows that
these are enough.  A server may accept, finish or reset an attempt at any
time.  The packet of an attempt reaches its socket when the worker takes it,
because `device.incoming` is emptied by the `Interface::poll` of the same
iteration.  What `Flow::poll` does after the reply is only "goes on or ends" here;
module Flow has the details.

### TunnelService: what the stack promises

Requests go from `idle` to `waiting` and from there to `failed`, `cancelled` or
`open`; an open stream closes; when the tunnel is lost or replaced (`Relink`)
every open stream closes in the same step.  `Netstack!ImplementsService` is the
refinement: `link` is `engine`, and the status of a request is read from its
reply and its flow.

### Flow: the bytes of one connection

Four buffers in a row each way, counted in bytes: `rx` and `down` towards the
client, `up` and `tx` towards the server.  `BeginPoll`, `Receive` (one turn),
`ReceiveDone`, `ShutdownBridge`, `Send` (one turn), `EndPoll` are `Flow::poll` from
the idle test on; the client's four operations on the pipe come between any two
of them, segments only while the worker is not in `Flow::poll`.
The socket follows smoltcp as far as `Flow::poll` observes it: a socket in
CLOSED keeps what it had received, one that leaves TIME-WAIT is reset and loses
it, and TIME-WAIT lasts for many polls.

### Socks: the accept loop and its clients

| Model | Code |
| --- | --- |
| `serving` | where `serve` is: top of the loop, `select!`, `abort_all`/`join_next`, returned |
| `permits` | of the semaphore; a permit lives as long as its task |
| `task[c]` | `handle` for one client: greeting, request, connecting, copying; `refused` is a client dropped for want of a permit |
| `sent[c]` | what it was sent: the method (0 or 255), then the reply code |
| `link`, `status[c]` | the tunnel, an instance of TunnelService: one request per client |

A client's bytes are a choice at each step (well formed, refused with a code, or
malformed, gone and too slow, which all end the task).  `Abort` is `abort_all` taking
effect on one task at its next await; until then it goes on, as in tokio.
A dropped `Tunnel::connect` withdraws its request.

### Lifecycle: main, the session and the diagnostics

`main` walks `select -> stop -> join_proxy -> join_session -> join_save -> (wait_save) -> done`.
`session` is the thread inside `Client::connect`: the OpenVPN core, external, may
emit any sequence of events and log lines and end at any time.  `proxy` is
`socks::serve`, reduced to what Socks shows of it: it ends well only after the
shutdown signal, or fails.  `save` is the task that awaits `wait_connected` and then
writes the keychain; `permit` is the one notification a tokio `Notify` keeps.
`lastError` is history.  Texts of failures are reasons: `timeout_silent`
stands for "no reply received", and so on.
A write of the keychain comes to an end as `written` or `refused`, which main does not tell
apart.  That the interrupt handler closes (`ensure!`, main.rs:312, which returns
without any of the waits) is left out: it lives as long as `main`.

`main` of Lifecycle begins where the credentials are known; Credentials has what
comes before it and what becomes of the password.

### Settings: what a server pushes

`Parse` is `Settings::parse`: the lines are read one by one (`ReadLines`, a fold of
`ApplyLine`), `--dns` stands in for the pushed resolvers, the result is checked, and
resolvers of a family without an address are left out.  A line is a record; the
text it is read from is left out, and what cannot be read is `garbled`, or an
address of the wrong family.  `Asked` is the reference: what the list as a whole asks for, as
sets, without an order of work.

### Vpn and TunnelAdapter: the adapter of the OpenVPN core

| Model | Code |
| --- | --- |
| `generation`, `io`, `mtu`, `info` | `State`, behind its mutex; `io` is the number of the core's tunnel |
| `step`, `settings` | how far `start` is, and its local `settings` |
| `tunnel`, `tunnels` | the core: the tunnel it has, and how many it started |
| `commands`, `packets`, `engine`, `worker` | the two channels and the worker, reduced to whose `Engine` it runs |
| `active`, `announced` | history, for the properties |

`start` is four actions: `StartParse` (reads the MTU under the lock), `Publish` (the block that
holds the lock), `Announce` (`Tunnel::online`, the lock released), `Activate` (the calls of
the core from `pre_tun_config` to `connected`, which may fail).  The core makes its callbacks one at a time,
but a `stop` or a packet may come from within `connected()`, hence before `Activate` is over.  The
worker takes commands and packets between any two of them; its sink may fail and it may end at
any time, and then commands and packets go nowhere.  `apply_push_update` only reports an error and changes
nothing; it calls `io.error` with the lock held, so a core that answers with another
callback on the same thread would stop for ever.  The code relies on the core here, and so does the
model (two hazards without a property say where).

TunnelAdapter is what the stack is promised: tunnels announced one generation after
another, taken down only after they were announced, packets that bear the
last generation.  These are the environment's actions of Netstack; `Vpn!ImplementsAdapter` is
the refinement, with commands and packets stripped to their generations.  It is
what showed that `Offline` may come late for a tunnel of the past and even
for generation 0 (a `stop` before any `start`), so Netstack's adapter sends it for any.

### Profiles and Credentials: which password, and which one is saved

Profiles has the pure part of `connect.rs`: `Discover` joins the files of the profile
directory with the records of config.json and sorts them, `Select` and `Choose` pick
one.  Identifiers and names are numbers of one set, since a name may equal another
profile's identifier; the JSON is a record, its malformations a few of its fields.

| Model | Code |
| --- | --- |
| `run[p].step` | where `main` is: `choose -> evaluate -> user -> (typing_user) -> password -> own -> connect -> (typing_password) -> connecting -> up -> done`, or `killed` |
| `run[p].args`, `.profile`, `.user`, `.password`, `.source` | `Args`, the profile chosen, the credentials and where the password came from |
| `run[p].save`, `.saved` | whether the save task has been spawned, and what the keychain answered |
| `storage` | external: OpenVPN Connect's directory, config.json and keychain, which change at any time |
| `keychain` | external: OvpnLane's own entries, by profile and user |
| `server`, `rotations` | external: the password the server takes of each user, which may change |
| `accepted` | history: what the server let in, for which entry |

Each source that `resolve_vpn_password` tries is an action, so the world may change
between any two: `ReadEnvironment`, `ReadOwn`, `ReadConnect`, `TypePassword`.  A process
is launched again and again, and may be killed at any time.  Connect's entry is read
for the profile, as it is by then, while `savedPassword` and the user name are those of
discovery.  `NoNeedlessAccess` is about the latter; that the entry is the user's own,
`OnlyForItsUser`, does not hold (see Findings).  Its decryption is a computation without state: `Saved` gives a password or none.

### Update: the self-update

One action per step of `run`: `Query`, `Decide`, `Confirm`, `Stage`, `Download`,
`Verify`, `Unpack`, `Try`, `Replace`; each may fail, and every way out drops the temporary
directory (`Ends`), except a kill.  A request is answered with whatever is published by then, so archive
and checksum need not belong together.  A binary is the version it was built as and
whether it runs, fails or hangs; a checksum is the archive it was taken of.
`self_replace` is external and assumed to take place as a whole or not at all; on Windows it
renames twice, and a kill between the two is outside the model.

### How the modules fit together

Vpn implements TunnelAdapter, which is what Netstack assumes of the core's side.
Netstack implements TunnelService, over which Socks runs.  Lifecycle uses of Socks that
`serve` returns (`ServeReturns`) and ends well only after the signal.
Credentials and Lifecycle are two views of `main`: the first has the data, and its session
is only let in or not; the second has the tasks, and its save task only a permit to
save.  Both agree that saving waits for CONNECTED and that `main` waits for a save that may take
place.

## Runs

| Run | Module, configuration | Question |
| --- | --- | --- |
| tunnels | MCNetstack, Netstack_tunnels.cfg | streams, late packets and late commands across two tunnels; refinement of TunnelService |
| engine | MCNetstack, Netstack_engine.cfg | replies, DNS queries and deadlines of two requests in one engine |
| ports | MCNetstack, Netstack_ports.cfg | port reuse and wrap-around with three requests |
| answers | MCNetstack, Netstack_answers.cfg | two requests over one place: the limit, and every waiting caller is answered |
| bytes | Flow, Flow_bytes.cfg | order of bytes and ends of stream; bytes arrive; places come back, with and without idle timeout |
| halfclose | Flow, Flow_halfclose.cfg | a violation: see Findings |
| clients | Socks, Socks_clients.cfg | permits, replies and shutdown with three clients and two places; the server stops, every client admitted is settled |
| process | Lifecycle, Lifecycle_process.cfg | what is saved, awaited and reported when main ends; that it ends; the save task is not left waiting |
| adapter | MCVpn, Vpn_adapter.cfg | the stack follows the core over three tunnels; refinement of TunnelAdapter; all option lists of up to three lines |
| saving | MCCredentials, Credentials_saving.cfg | sources and saving over runs of the program; all small profile directories |
| changed | MCCredentials, Credentials_changed.cfg | a violation: see Findings |
| update | MCUpdate, Update_update.cfg | two processes update one installation |

Bounds.  Two requests are enough for a request to meet another one's place,
query or deadline, three for two ports to be in use when the counter passes
over them.  `MaxGeneration = 2` gives an old and a new tunnel; `MaxCommands`
bounds only the sending (commands waiting when another is sent), and two lets
an Offline or a Connect stand behind an Online; a Shutdown fits always.  `MaxPackets = 1` makes the
full channel (a dropped packet) frequent.  `DrainLimit` is 0 or 1, so the limit
is met.  MCDual is a dual-stack tunnel with DNS (fallback from A to AAAA),
MCIPv4 one with IPv4 and no name server.  The run `ports` leaves deadlines aside
(`NoDeadlinePasses`).  Requests are interchangeable, hence the
symmetry of the safety runs; the liveness run has none.

The run `answers` has two requests over one place, so one caller may be refused for the other, wait behind
it in the commands, or see the worker busy with packets for the other's attempt or stream, which
the server may send without end.  It has one generation (the tunnel may be lost but not
replaced) and one command waiting.  Two lookups or two flows in one scan, and all ports in
use, are met in the safety runs `engine` and `ports` only; two tunnels in `tunnels`.  That the search for a port ends is
`AtHandTheorem`, not a run: in the model it is one step.

In Flow the buffers
hold two bytes and are filled more than once; `Turns` is 1 or 2, fewer than what can be moved, so the bound of
the copy loops is met.

In Socks one client of three finds no place, and the tunnel comes up once
(`MaxLink = 1`); a reply code and an error stand for all (`Refusals`, `Failing`).  Lifecycle is finite as
it stands.

In Vpn three tunnels give an old one, the current one and a tunnel that is started while the stack
still has commands for both (`MaxCommands = 3`, counted before a callback; `MaxPackets = 2`
lets packets of two tunnels wait).  Option lists of 14 kinds of lines, up to
three in a row, with seven configured MTUs around each bound and three values of `--dns` are all
parsed: a line can override, follow or spoil another, and no part of `Parse` looks at more than
two lines and the result.  In Credentials one process (any number by theorem) is launched with
seven kinds of arguments, for two users, one of whose passwords changes once; Connect moves among
three states of its storage.  Profiles are looked at for every directory of up to three files and
every document about two of them.  In Update version 2 is installed, 1 is
older, 3 a pre-release, 4 newer; the archives are one good one per version and one for each way
to be bad.  A GitHub answer with a tag of another form or several assets is among the releases.

All configurations but that of `update` say `CHECK_DEADLOCK FALSE`: the worker thread really
ends after Shutdown, a flow is removed, `serve` returns, the process ends, and the
core stops starting tunnels when its bound is reached.  The configuration of `saving` says so
although a process can always be launched again.

Fairness.  `WF(Worker)`: the thread runs, and its `select!` has a 20 ms default.
`SF(TakeCommand)`: crossbeam's `select!` picks at random among the ready
channels, so a command is taken however many packets come.  `WF(Expire(r))`:
the clock advances.  Nothing is assumed of callers, servers or the adapter.  In
Flow the worker polls (`WF(Poll)`), segments that are sent again and again
arrive (`SF(DataAcked)`, `SF(FinAcked)`: smoltcp retransmits), timers run out, and the SOCKS task
reads what there is (`WF(ClientRead)`: `copy_bidirectional` runs).  The server is never assumed to
finish.  In Socks the runtime runs `serve` and the tasks, the handshake has its
timeout, `select!` takes the shutdown arm at last whatever else is ready
(`SF`), and the tunnel answers (what `AnsweredEventually` shows of Netstack);
nothing is assumed of copying, whose end depends on the client.  In Lifecycle the
runtime runs `main` and the save task, the keychain answers, and the OpenVPN core
returns from connect after `stop()`, which is its promise and not this program's.
In Vpn a callback that has begun goes on (`WF(Start)`) and the worker takes commands
(`WF(TakeCommand)`, shown of Netstack); the core is not assumed to stop or start anything.
In Credentials the save task runs (`WF(SavePassword(p))`); nothing is assumed of the user, the
server or the steps of `main` before.  In Update each step comes to an
end (`WF(Goes(p))`; requests take 120 s at most, update.rs:125), except the trial of a candidate that hangs, and the user
need not confirm.

## Findings

`HalfCloseDelivers` is what README.md:428 ("TCP half-close") and
tests/proxy.rs:163-177 promise.  TLC refutes it: the server sends its last bytes
and FIN while the pipe to the client is full, the client has shut down its side,
so the socket goes CLOSE-WAIT, LAST-ACK and, when the server acknowledges, CLOSED.
The next `Flow::poll` moves what fits into the pipe and then returns
`socket.state() != Closed`, so the flow is dropped with bytes left in the
socket's buffer, and the client reads a clean end of stream too early.
The test passes because its client reads at full speed.  `CleanEof` shows that a
client which has not half-closed is never cut this way.

`OnlyForItsUser` is what connect.rs:26-27 ("Never reuse a saved password for an
explicitly different user") and README.md:219 promise.  TLC refutes it: the program
discovers a profile of user 2 with a saved password and is given `--username` of user 2;
before it reads the keychain, Connect saves user 1's password for that profile.
`password_account` still compares with what was discovered, `password::read` opens the entry by the
profile's id alone, and user 1's password is sent for user 2.  The window is the
time between discovery and the password, in which the user may be choosing a profile at the terminal
or unlocking OvpnLane's own keychain.

## Proofs

| Module | Theorem | Says |
| --- | --- | --- |
| NetstackProofs | `TypeCorrect` | `Spec => []TypeOK` |
| NetstackProofs | `EngineConsistent` | `Spec => []EngineInvariant` |
| NetstackProofs | `DeadlineTheorem` | `Spec => []DeadlinesKept` |
| NetstackProofs | `OwnerTheorem`, `PortsTheorem`, `QueriesTheorem`, `StreamsTheorem`, `SuccessTheorem` | `SenderHasOneOwner`, `UniqueLocalPorts`, `QueriesOwned`, `StreamsFollowTunnel`, `SuccessIsGenuine` |
| NetstackProofs | `SharedDeadlineTheorem` | `Spec => SharedDeadline` |
| NetstackProofs | `LimitTheorem` | `Spec => []ConnectionLimit` |
| NetstackProofs | `AtHandTheorem` | `Spec => [](PortAtHand /\ QueryAtHand)`: a connection never waits for a port or a query |
| NetstackProofs | `ServiceTheorem` | `Spec => ImplementsService` |
| FlowProofs | `FlowTypes` | `Spec => []TypeOK` |
| FlowProofs | `FlowConsistent` | `Spec => []FlowInvariant` |
| FlowProofs | `NothingLostTheorem`, `EofTheorem`, `FinTheorem` | `NothingLost`, `CleanEof`, `FinAfterData` |
| SocksProofs | `SocksTypes` | `Spec => []TypeOK` |
| SocksProofs | `SocksConsistent` | `Spec => []SocksInvariant` |
| SocksProofs | `PermitsTheorem`, `RepliesTheorem`, `ServeTheorem` | `PermitsKept`, `RepliesAreTrue`, `NothingOutlivesServe` |
| LifecycleProofs | `LifecycleTypes` | `Spec => []TypeOK` |
| LifecycleProofs | `LifecycleConsistent` | `Spec => []LifecycleInvariant` |
| LifecycleProofs | `SavedTheorem`, `LeftBehindTheorem`, `SuccessTheorem`, `ReportTheorem` | `SavedIfAccepted`, `NothingLeftBehind`, `SuccessMeansInterrupted`, `LastErrorReported` |
| CredentialsProofs | `CredentialsTypes` | `Spec => []TypeOK` |
| CredentialsProofs | `ListedOnceTheorem`, `ResolvableTheorem` | `ListedOnce` and `Resolvable` of what `Discover` returns, for every directory and document |
| CredentialsProofs | `AllResolvableTheorem` | `Spec => []AllResolvable` |
| CredentialsProofs | `SavedTheorem`, `LazyTheorem`, `RequestTheorem` | `SavedWereAccepted`, `NoNeedlessAccess`, `SavedOnRequestOnly` |
| UpdateProofs | `UpdateTypes` | `Spec => []TypeOK` |
| UpdateProofs | `VerifiedTheorem`, `AlwaysRunsTheorem`, `AskedTheorem` | `RunsOnlyVerified`, `AlwaysRuns`, `ReplacedAsAsked` |
| VpnProofs | `ParseRightTheorem` | `ParsedRight` for every list of options, MTU and `--dns` list |
| VpnProofs | `ParsedTheorem` | `Spec => []ParsedAsAsked` |
| VpnProofs | `UsableTheorem` | `Spec => []EnginesUsable`: engines are built from usable settings only |
| VpnProofs | `VpnTypes` | `Spec => []TypeOK` |
| VpnProofs | `PacketsTheorem`, `FollowsTheorem` | `PacketsOfTheirTunnel`, `EngineFollowsTunnel` |
| VpnProofs | `AdapterTheorem` | `Spec => ImplementsAdapter` |
| Induction | `SetInduction` | a set of naturals with 0 and every successor is all of them |

The theorems of Netstack hold for all values of the constants that satisfy `NetstackAssumption`:
finitely many requests, a positive limit that does not exceed the number of
ports (the command line allows 1 to 4096, the port range has 16384),
channels of positive capacity.

The inductive invariant is `EngineInvariant`.  The properties worth having are
not inductive one by one.  That a reply has one owner needs that a request is
queued once and that lookups and flows are disjoint; that a success is genuine
needs `AttemptsAreGenuine` (a SYN-ACK under way, and an attempt past SYN-SENT, were accepted over
the tunnel in question), and that needs `GenerationsAscend`, because a packet of
an old tunnel could otherwise meet an engine of its own generation again; the
scans need `WorkerPhase` (what is in `todo`, each entry once, and which of what is not in it is overdue;
for `swap_remove` this is an argument about the positions of a sequence).  Its
named parts are properties of the runs; the other strengthenings (`WorkerPhase` and the like,
`FlowInvariant`, `SocksInvariant`, `LifecycleInvariant`, the `TypeOK` of each module) are proved only.
`LimitTheorem` adds the cardinality argument: a turn of a scan moves a request
from lookups to flows and never adds one.  `ServiceTheorem` splits by action; each
step of the worker changes the status of at most one request, except those
that drop the engine, which map to `Relink`.

Flow and Socks follow the same pattern.  In Flow the byte counts are inductive only
together with `FlagsFollowSocket`: the FIN follows the last byte because
`read_closed`, the state of the socket and the emptied pipe move together.
In Socks `TaskProgress` ties the position of a task to the bytes it sent and to
its request, and that no permit leaks is an argument about the cardinality of
the set of tasks that live.  In Lifecycle `WaitsKept` says that what main waited for
stays over, and `StopsInOrder` that the server cannot end well before it is told to
stop, without which its arm of the select could report success.

In Credentials and Update the processes share only the keychain and the executable, so the invariant is a
predicate of each process's record and one of what they share.  `CredentialsInvariant` says of a record that `save` needs
`--save-password` and a source other than our own keychain, and that a run the server let in by a
password has its pair in `accepted`; then an entry written is an accepted one, whichever
processes wrote to it before.  It holds for any set of processes, invocations and storages.
`UpdateInvariant` accumulates what each step has established: after `Query` the selection agrees with the
request, after `Verify` the manifest vouches for the archive, after `Unpack` the candidate is
its only executable, after `Try` it runs as the version selected.  Only the last of these is what `AlwaysRuns`
says, and it needs the invariant only for processes that do not act: nothing else writes to a record.

In Vpn neither property is inductive, since each looks only at what has arrived.  `OneTunnel` says that a generation stands
for one tunnel wherever the pair occurs: in a packet, in an Online that waits, in the engine,
in `State`; only `Publish` makes a new pair, and with a generation above all others.  `CommandsFollow`
says what the engine will be once the commands that wait are taken: while the tunnel is active the last Online
is the core's and no Offline behind it has its generation (`Stays`); otherwise whatever comes last is taken
down by a command behind it (`Goes`).  For a sink that fails this needs `OnlinesAscend`: an engine of the
current generation has no Online behind it.  `AdapterTheorem` adds `CoreAgrees`, by which the generation in `State` is
the one announced, or the next one while `start` has still to announce it.  None of these uses what
`Parse` computes; `UsableTheorem` does: whatever waits in the commands, in `settings` or in the engine
is the result of `Parse` on some list (`AcceptedOnly`), and such results are `Usable`.

`SharedDeadlineTheorem` needs to know where a deadline can be: `ExpiredOwned` says that only
lookups and attempts have one.  Then a request whose deadline has passed can lose it only as it is
answered or found cancelled, or with the engine, which hangs up on everyone in `lookups` and
`pending`; a lookup that turns into an attempt goes on with its own.

`AtHandTheorem` is about the loop of `connect_ip` (netstack.rs:454-460), which has no exit but a
free port: below the limit, and for a lookup that is already counted, there are fewer flows than
ports, so one of them is free, and a free one that is nearest to `next_port` is what the loop finds.  It also
shows that the bound `Slots` on the DNS queries, which the code does not have, never bites.

### What is computed: lists, folds and sorting

The induction theorems of the library take an operator, which the provers cannot instantiate.
Induction (the module) proves one about sets instead.  Let `S` hold 0 and every successor of its members, and miss some
`k`; then `n |-> n + 1` maps the members of `S` up to `k` one to one into those except 0, against
the pigeonhole principle.  From it come least and greatest elements and `FoldExists`: a
fold of the community modules over `n` elements is a function on the sets of its positions.

For Settings the fold over the lines is characterised prefix by prefix: after `k` lines the address
is that of the last line of its name, the MTU the least so far and the resolvers all so far.
`KeepAt`, which `retain` and `dedup` are instances of, keeps exactly the elements at its positions, and
`Dedup` leaves no equal neighbours.  The library's `SelectSeq` is recursive and out of the provers'
reach, which is why `KeepAt` is a fold.  For Profiles `Sorted` is
a choice among the ordered enumerations; that there is one is proved by taking off the last
element, and that it holds each profile once because `Before` is a strict order on profiles
of distinct identifiers.  What the theorems ask of the data is what the types of the code give:
addresses, lines and records of the shapes of `Lines` and `Records`, and a finite directory
(`IsDirectory`).  Two files that differ in the case of `.ovpn` alone, which the usual file
systems of macOS do not have, would be two profiles of one identifier; they are left out.

`Limit` and the set of clients in Socks are any positive number and any finite set; the capacities
of Flow any positive numbers.

Only model-checked: the liveness properties `AnsweredEventually`, `DeliveredEventually`,
`ReleasedEventually`, `ServeReturns`, `ClientSettled`, `ProcessEnds`, `SaveNotStuck`, `StoppedTunnelsLeave`,
`ReplacedEventually` and `UpdateEnds` (fairness and ENABLED are outside of the prover), and the two findings.
Every other property of the runs is a theorem.

## Plan

Done: all modules above, and a theorem for each safety property, action property and
refinement that the runs check.

Left: an abstract full-duplex stream that Flow implements up to the finding.

## Not modelled

- The decryption of OpenVPN Connect's passwords (`connect/password.rs` from `decode` on): a
  computation without state, whose result is here a password or none.
- Private key passwords and challenges (`main.rs`): asked for at the terminal, kept nowhere.
- Packaging and installation (`install.sh`, `scripts`, workflows): no state of their own.
- The internals of smoltcp, tokio, crossbeam, self_replace and the OpenVPN core, modelled from their use.
- The text of options, JSON, messages and lists; the length of packets and the tokens
  of the packet device, which live within one poll.
