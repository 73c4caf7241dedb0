------------------------------ MODULE Netstack ------------------------------
(***************************************************************************)
(* The "vpn-ip-stack" thread of src/src/netstack.rs: the run loop, the     *)
(* Engine it owns while a VPN tunnel is up, and the Tunnel handle through  *)
(* which other threads drive it.                                           *)
(*                                                                         *)
(* Callers (SOCKS tasks) and the VPN adapter only append to two channels;  *)
(* everything else belongs to the worker.  An iteration of the worker is   *)
(*     select -> drain -> lookups -> flows -> select                       *)
(* and an action stands for one turn of one of its loops, so that callers, *)
(* the adapter and the clock interleave with it.  A packet the worker      *)
(* takes is handed to its socket at once: device.incoming is emptied by    *)
(* the Interface::poll of the iteration that fills it.                     *)
(*                                                                         *)
(* The bytes of an accepted connection are the subject of module Flow;     *)
(* here such a connection is "Bridged" and may end at any of its polls.    *)
(* The smoltcp sockets are external: their state changes are modelled as   *)
(* netstack.rs observes them (state(), get_query_result()).                *)
(***************************************************************************)
EXTENDS Naturals, FiniteSets, SequencesExt

CONSTANTS
    Requests,        \* calls of Tunnel::connect, each made at most once
    MaxConnections,  \* --max-connections
    PortLo, PortHi,  \* the ephemeral ports, 49152..65535 in the code
    MaxPackets,      \* MAX_PACKETS, capacity of the packet channel
    DrainLimit,      \* packets taken per iteration, 256 in the code
    OfferedSettings, \* settings a server may push
    MaxGeneration,   \* bound: tunnels brought up
    MaxCommands      \* bound: commands waiting when another is sent

AllSettings ==
    { s \in [v4 : BOOLEAN, v6 : BOOLEAN, dns : BOOLEAN] : s.v4 \/ s.v6 }

ASSUME NetstackAssumption ==
    /\ IsFiniteSet(Requests)
    /\ MaxConnections \in Nat \ {0}
    /\ PortLo \in Nat /\ PortHi \in Nat /\ PortLo < PortHi
    /\ MaxConnections <= PortHi - PortLo + 1
    /\ MaxPackets \in Nat \ {0} /\ DrainLimit \in Nat
    /\ OfferedSettings \subseteq AllSettings /\ OfferedSettings # {}
    /\ MaxGeneration \in Nat /\ MaxCommands \in Nat

Ports == PortLo .. PortHi
Slots == 1 .. MaxConnections

\* Destinations, as far as connect and connect_ip tell them apart; "bad" is an
\* IPv4 address that is unspecified or multicast, or port zero.
Addresses == {"v4", "v6", "bad"}
Targets == Addresses \cup {"domain"}

Failures == {"NotConnected", "LimitReached", "NotFound", "InvalidInput",
             "NetworkUnreachable", "Other", "TimedOut", "ConnectionRefused"}
Replies == {"idle", "waiting", "cancelled", "Ok"} \cup Failures

TcpStates == {"None", "SynSent", "Established", "CloseWait", "Closed", "Bridged"}
Answers == Addresses \cup {"failed"}
Bodies == {"synack", "fin", "rst", "data"} \cup Answers

VARIABLES
    commands,   \* crossbeam unbounded channel of Command
    packets,    \* crossbeam bounded channel of (generation, packet)
    generation, \* the last generation the VPN adapter brought up
    reply,      \* what the caller of each request sees of its oneshot channel
    expired,    \* requests in the engine whose deadline has passed
    pc, todo, late, drained,         \* the worker's position and its locals
    engine,     \* generation of the running Engine, 0 for None
    settings, failed,                \* Engine.settings and device.failed
    slot, fallback, dns,             \* Engine.lookups and the DNS socket
    tcp, port, next_port,            \* Engine.flows and Engine.next_port
    accepted,   \* history: <<g, r>> where r's SYN-ACK arrived over tunnel g
    home        \* history: the tunnel over which r was reported connected

channels == <<commands, packets, generation>>
loop == <<pc, todo, late, drained>>
device == <<settings, failed>>
lookupVars == <<slot, fallback, dns>>
flowVars == <<tcp, port, next_port>>
history == <<accepted, home>>
clients == <<reply, expired>>
vars == <<channels, clients, loop, engine, device, lookupVars, flowVars, history>>

(* Engine.lookups and Engine.flows, as sets; a scan begins with any order of them. *)
lookups == { r \in Requests : slot[r] # 0 }
flows == { r \in Requests : tcp[r] # "None" }

(* A flow whose reply has not been sent: Flow.reply is Some. *)
pending == { r \in flows : tcp[r] # "Bridged" }

Packets == [gen : Nat, to : Requests, body : Bodies]
Commands == [op : {"online"}, gen : Nat, settings : OfferedSettings]
       \cup [op : {"offline"}, gen : Nat]
       \cup [op : {"connect"}, req : Requests, target : Targets]
       \cup [op : {"shutdown"}]

NoSettings == [v4 |-> FALSE, v6 |-> FALSE, dns |-> FALSE]

Init ==
    /\ commands = <<>> /\ packets = <<>> /\ generation = 0
    /\ reply = [r \in Requests |-> "idle"]
    /\ expired = {}
    /\ pc = "select" /\ todo = <<>> /\ late = {} /\ drained = 0
    /\ engine = 0 /\ settings = NoSettings /\ failed = FALSE
    /\ slot = [r \in Requests |-> 0]
    /\ fallback = [r \in Requests |-> FALSE]
    /\ dns = [s \in Slots |-> "free"]
    /\ tcp = [r \in Requests |-> "None"]
    /\ port = [r \in Requests |-> 0]
    /\ next_port = PortLo
    /\ accepted = {} /\ home = [r \in Requests |-> 0]

-----------------------------------------------------------------------------
(* The Tunnel handle and its callers. *)

\* oneshot::Sender::send; nothing happens when the caller has gone.
Answer(r, outcome) ==
    reply' = [reply EXCEPT ![r] = IF @ = "waiting" THEN outcome ELSE @]

RoomForCommand == Len(commands) < MaxCommands

TunnelConnect(r, t) ==
    /\ reply[r] = "idle" /\ RoomForCommand
    /\ IF pc = "stopped"
       THEN /\ reply' = [reply EXCEPT ![r] = "NotConnected"]
            /\ UNCHANGED commands
       ELSE /\ reply' = [reply EXCEPT ![r] = "waiting"]
            /\ commands' = Append(commands, [op |-> "connect", req |-> r, target |-> t])
    /\ UNCHANGED <<packets, generation, expired, loop, engine, device,
                   lookupVars, flowVars, history>>

\* The future of Tunnel::connect is dropped, e.g. by JoinSet::abort_all.
Cancel(r) ==
    /\ reply[r] = "waiting"
    /\ reply' = [reply EXCEPT ![r] = "cancelled"]
    /\ UNCHANGED <<channels, expired, loop, engine, device, lookupVars,
                   flowVars, history>>

TunnelOnline(s) ==
    /\ pc # "stopped" /\ RoomForCommand
    /\ generation < MaxGeneration
    /\ generation' = generation + 1
    /\ commands' = Append(commands,
                     [op |-> "online", gen |-> generation + 1, settings |-> s])
    /\ UNCHANGED <<packets, clients, loop, engine, device, lookupVars,
                   flowVars, history>>

TunnelOffline(g) ==
    /\ pc # "stopped" /\ RoomForCommand
    /\ commands' = Append(commands, [op |-> "offline", gen |-> g])
    /\ UNCHANGED <<packets, generation, clients, loop, engine, device,
                   lookupVars, flowVars, history>>

\* The record type a lookup is waiting for: A unless only AAAA is left to try.
WantsA(r) == settings.v4 /\ (fallback[r] \/ ~settings.v6)

\* What the far side may have to say to a connection: a DNS answer of the type
\* asked for, or a TCP segment.
Responses(r) ==
    IF r \in lookups
    THEN IF WantsA(r) THEN {"v4", "bad", "failed"} ELSE {"v6", "failed"}
    ELSE IF r \in pending THEN {"synack", "fin", "rst"}
    ELSE IF r \in flows THEN {"data"} ELSE {}

\* try_send: a packet that finds the channel full is lost.
TunnelReceive(r, body) ==
    /\ body \in Responses(r)
    /\ Len(packets) < MaxPackets
    /\ packets' = Append(packets, [gen |-> generation, to |-> r, body |-> body])
    /\ accepted' = IF body = "synack"
                   THEN accepted \cup {<<generation, r>>} ELSE accepted
    /\ UNCHANGED <<commands, generation, clients, loop, engine, device,
                   lookupVars, flowVars, home>>

\* StackWorker::drop sends Shutdown and joins the thread.
DropWorker ==
    /\ pc # "stopped"
    /\ \A i \in DOMAIN commands : commands[i].op # "shutdown"
    /\ commands' = Append(commands, [op |-> "shutdown"])
    /\ UNCHANGED <<packets, generation, clients, loop, engine, device,
                   lookupVars, flowVars, history>>

\* Instant::now() passes the deadline of a request.
Expire(r) ==
    /\ r \in lookups \cup pending
    /\ expired' = expired \cup {r}
    /\ UNCHANGED <<channels, reply, loop, engine, device, lookupVars, flowVars,
                   history>>

-----------------------------------------------------------------------------
(* Engine::connect and Engine::connect_ip. *)

SupportsFamily(a) == IF a = "v6" THEN settings.v6 ELSE settings.v4

\* Plausible bug: a port still used by a flow is handed out again.
PortFreeUnchecked(p) == p \in Ports

PortFree(p) == p \in Ports /\ \A r \in flows : port[r] # p

\* How far the loop of connect_ip goes from next_port to reach p.
Distance(p) == IF p >= next_port THEN p - next_port
               ELSE p + (PortHi - PortLo + 1) - next_port

FirstFree(p) ==
    /\ PortFree(p)
    /\ \A q \in Ports : PortFree(q) => Distance(p) <= Distance(q)

Successor(p) == IF p = PortHi THEN PortLo ELSE p + 1

ConnectIp(r, a) ==
    \/ /\ ~SupportsFamily(a)
       /\ Answer(r, "NetworkUnreachable")
       /\ UNCHANGED flowVars
    \/ /\ SupportsFamily(a) /\ a = "bad"
       /\ Answer(r, "InvalidInput")
       /\ UNCHANGED flowVars
    \/ /\ SupportsFamily(a) /\ a # "bad"
       /\ \E p \in Ports :
            /\ FirstFree(p)
            /\ next_port' = Successor(p)
            /\ \/ /\ tcp' = [tcp EXCEPT ![r] = "SynSent"]
                  /\ port' = [port EXCEPT ![r] = p]
                  /\ UNCHANGED reply
               \/ /\ Answer(r, "Other")       \* socket.connect refused it
                  /\ UNCHANGED <<tcp, port>>

\* dns::Socket::start_query takes the first slot that is free in d.
FreeSlot(d, s) == s \in Slots /\ d[s] = "free"
                  /\ \A q \in 1 .. s - 1 : d[q] # "free"

StartQuery(r, d, more) ==
    \E s \in Slots :
        /\ FreeSlot(d, s)
        /\ slot' = [slot EXCEPT ![r] = s]
        /\ dns' = [d EXCEPT ![s] = "pending"]
        /\ fallback' = [fallback EXCEPT ![r] = more]

\* Plausible bug: the limit is compared with > instead of >=.
AtLimitOffByOne == Cardinality(flows) + Cardinality(lookups) > MaxConnections

AtLimit == Cardinality(flows) + Cardinality(lookups) >= MaxConnections

EngineConnect(r, t) ==
    \/ /\ reply[r] = "cancelled"
       /\ UNCHANGED <<reply, lookupVars, flowVars>>
    \/ /\ reply[r] # "cancelled" /\ AtLimit
       /\ Answer(r, "LimitReached")
       /\ UNCHANGED <<lookupVars, flowVars>>
    \/ /\ reply[r] # "cancelled" /\ ~AtLimit /\ t # "domain"
       /\ ConnectIp(r, t)
       /\ UNCHANGED lookupVars
    \/ /\ reply[r] # "cancelled" /\ ~AtLimit /\ t = "domain"
       /\ UNCHANGED flowVars
       /\ \/ /\ ~settings.dns
             /\ Answer(r, "NotFound")
             /\ UNCHANGED lookupVars
          \/ /\ settings.dns
             /\ StartQuery(r, dns, settings.v4 /\ settings.v6)
             /\ UNCHANGED reply
          \/ /\ settings.dns                  \* start_query refused the name
             /\ Answer(r, "InvalidInput")
             /\ UNCHANGED lookupVars

-----------------------------------------------------------------------------
(* The commands of the run loop. *)

\* Plausible bug: established streams are carried over to the next engine.
DiscardEngineKeepingStreams ==
    /\ failed' = FALSE
    /\ expired' = {} /\ late' = {} /\ todo' = <<>> /\ drained' = 0
    /\ slot' = [r \in Requests |-> 0]
    /\ fallback' = [r \in Requests |-> FALSE]
    /\ dns' = [s \in Slots |-> "free"]
    /\ tcp' = [r \in Requests |-> IF tcp[r] = "Bridged" THEN "Bridged" ELSE "None"]
    /\ port' = [r \in Requests |-> IF tcp[r] = "Bridged" THEN port[r] ELSE 0]

\* Every socket, stream and pending reply of the engine goes with it.
DiscardEngine ==
    /\ failed' = FALSE
    /\ expired' = {} /\ late' = {} /\ todo' = <<>> /\ drained' = 0
    /\ slot' = [r \in Requests |-> 0]
    /\ fallback' = [r \in Requests |-> FALSE]
    /\ dns' = [s \in Slots |-> "free"]
    /\ tcp' = [r \in Requests |-> "None"]
    /\ port' = [r \in Requests |-> 0]

\* Plausible bug: requests that still wait are left without an answer.
HangUpNobody(who) == UNCHANGED reply

\* Dropping a oneshot::Sender: Tunnel::connect reports NotConnected.
HangUp(who) ==
    reply' = [r \in Requests |-> IF r \in who /\ reply[r] = "waiting"
                                 THEN "NotConnected" ELSE reply[r]]

EngineNone ==
    /\ engine' = 0 /\ settings' = NoSettings /\ next_port' = PortLo
    /\ DiscardEngine

OnOnline(g, s) ==
    /\ engine' = g /\ settings' = s
    /\ next_port' \in PortLo .. PortHi - 1    \* rand::random_range
    /\ DiscardEngine
    /\ HangUp(lookups \cup pending)
    /\ pc' = "drain"

\* Plausible bug: any Offline stops the running engine, whatever its generation.
IsCurrentAlways(g) == engine # 0

IsCurrent(g) == engine # 0 /\ engine = g

OnOffline(g) ==
    \/ /\ IsCurrent(g)
       /\ EngineNone
       /\ HangUp(lookups \cup pending)
       /\ pc' = "select"
    \/ /\ ~IsCurrent(g)
       /\ pc' = IF engine = 0 THEN "select" ELSE "drain"
       /\ UNCHANGED <<clients, todo, late, drained, engine, device,
                      lookupVars, flowVars>>

OnConnect(r, t) ==
    /\ UNCHANGED <<expired, todo, late, drained, engine, device>>
    /\ \/ /\ engine = 0
          /\ Answer(r, "NotConnected")
          /\ pc' = "select"
          /\ UNCHANGED <<lookupVars, flowVars>>
       \/ /\ engine # 0
          /\ EngineConnect(r, t)
          /\ pc' = "drain"

Queued ==
    { r \in Requests :
        \E i \in DOMAIN commands : commands[i].op = "connect" /\ commands[i].req = r }

\* The loop ends; the receiver goes and drops the commands behind Shutdown.
OnShutdown ==
    /\ EngineNone
    /\ HangUp(lookups \cup pending \cup Queued)
    /\ pc' = "stopped"
    /\ packets' = <<>> /\ commands' = <<>>

\* Plausible bug: packets are served first, commands when there are none left.
MayTakeCommandWhenIdle == pc = "select" /\ commands # <<>> /\ packets = <<>>

MayTakeCommand == pc = "select" /\ commands # <<>>

TakeCommand ==
    /\ MayTakeCommand
    /\ \/ Head(commands).op = "shutdown" /\ OnShutdown
       \/ /\ LET c == Head(commands) IN
               \/ c.op = "online"  /\ OnOnline(c.gen, c.settings)
               \/ c.op = "offline" /\ OnOffline(c.gen)
               \/ c.op = "connect" /\ OnConnect(c.req, c.target)
          /\ commands' = Tail(commands)
          /\ UNCHANGED packets
    /\ UNCHANGED <<generation, history>>

-----------------------------------------------------------------------------
(* The packet arms of the run loop and Engine::step. *)

\* Plausible bug: the generation of a packet is not compared.
FreshPacketUnchecked(p) == engine # 0

FreshPacket(p) == engine # 0 /\ p.gen = engine

\* A TCP segment moves the state of an unfinished connection attempt.
AfterSegment(state, body) ==
    CASE state = "SynSent" /\ body = "synack" -> "Established"
      [] state = "Established" /\ body = "fin" -> "CloseWait"
      [] state \in {"SynSent", "Established", "CloseWait"} /\ body = "rst" -> "Closed"
      [] OTHER -> state

\* What Interface::poll makes of one packet; a stray one does nothing.
Deliver(p) ==
    /\ dns' = [s \in Slots |-> IF s = slot[p.to] /\ p.body \in Answers /\ dns[s] = "pending"
                               THEN p.body ELSE dns[s]]
    /\ tcp' = [tcp EXCEPT ![p.to] = AfterSegment(@, p.body)]

PacketArrives ==
    /\ packets' = Tail(packets)
    /\ \/ FreshPacket(Head(packets)) /\ Deliver(Head(packets))
       \/ ~FreshPacket(Head(packets)) /\ UNCHANGED <<dns, tcp>>

TakePacket ==
    /\ pc = "select" /\ packets # <<>>
    /\ PacketArrives
    /\ pc' = IF engine = 0 THEN "select" ELSE "drain"
    /\ UNCHANGED <<commands, generation, clients, todo, late, drained, engine, device,
                   slot, fallback, port, next_port, history>>

\* The wake-up channel or the 20 ms default of select!.
WakeUp ==
    /\ pc = "select" /\ engine # 0
    /\ pc' = "drain"
    /\ UNCHANGED <<channels, clients, todo, late, drained, engine, device,
                   lookupVars, flowVars, history>>

Drain ==
    /\ pc = "drain" /\ packets # <<>> /\ drained < DrainLimit
    /\ PacketArrives
    /\ drained' = drained + 1
    /\ UNCHANGED <<commands, generation, clients, pc, todo, late, engine, device,
                   slot, fallback, port, next_port, history>>

(* The scans of Engine::step.  `todo` is the vector from its index i on. *)

\* The vector may be in any order when its scan begins.
Orders(S) == Bijection(1 .. Cardinality(S), S)

\* Plausible bug: the index moves on after a removal too, past the entry that
\* has come to its place.
SwapRemoveSkipping(s) == [i \in 1 .. Len(s) - 2 |-> s[i + 1]]

\* Vec::swap_remove(i): the last entry comes to the place of the first.
SwapRemove(s) == [i \in 1 .. Len(s) - 1 |-> IF i = 1 THEN s[Len(s)] ELSE s[i]]

\* The rest of the first Interface::poll: packets go out, which may fail, and
\* queries unanswered for too long fail.  Then `now` is read.
Egress ==
    /\ pc = "drain" /\ (packets = <<>> \/ drained = DrainLimit)
    /\ failed' \in {failed, TRUE}
    /\ \E gaveUp \in SUBSET { s \in Slots : dns[s] = "pending" } :
         dns' = [s \in Slots |-> IF s \in gaveUp THEN "failed" ELSE dns[s]]
    /\ late' = expired /\ todo' \in Orders(lookups) /\ drained' = 0 /\ pc' = "lookups"
    /\ UNCHANGED <<channels, clients, engine, settings, slot, fallback, flowVars, history>>

\* Plausible bug: the deadline is not looked at.
NeverOverdue(r) == FALSE

Overdue(r) == r \in late

\* Plausible bug: a lookup is abandoned without cancelling its query.
LeakQuery(r) == UNCHANGED dns

\* The DNS socket frees the slot of r: cancel_query, or a result taken.
FreeQuery(r) == dns' = [dns EXCEPT ![slot[r]] = "free"]

ForgetLookup(r) ==
    /\ slot' = [slot EXCEPT ![r] = 0]
    /\ fallback' = [fallback EXCEPT ![r] = FALSE]

\* Plausible bug: the TCP attempt of a resolved name gets a deadline of its own.
RenewDeadline(r) == expired' = expired \ {r}

\* Lookup.deadline is passed on to connect_ip; only an ended request loses it.
KeepDeadline(r) == expired' = IF tcp'[r] = "None" THEN expired \ {r} ELSE expired

ServeLookup(r) ==
    /\ pc = "lookups" /\ todo # <<>> /\ r = Head(todo)
    /\ \/ /\ reply[r] = "cancelled" \/ Overdue(r)
          /\ FreeQuery(r) /\ ForgetLookup(r)
          /\ Answer(r, "TimedOut")
          /\ expired' = expired \ {r}
          /\ todo' = SwapRemove(todo)
          /\ UNCHANGED flowVars
       \/ /\ reply[r] # "cancelled" /\ ~Overdue(r)
          /\ \/ /\ dns[slot[r]] = "pending"
                /\ todo' = Tail(todo)
                /\ UNCHANGED <<clients, lookupVars, flowVars>>
             \/ /\ dns[slot[r]] \in Addresses
                /\ ConnectIp(r, dns[slot[r]])
                /\ FreeQuery(r) /\ ForgetLookup(r)
                /\ KeepDeadline(r)
                /\ todo' = SwapRemove(todo)
             \/ /\ dns[slot[r]] = "failed" /\ fallback[r]
                /\ StartQuery(r, [dns EXCEPT ![slot[r]] = "free"], FALSE)
                /\ todo' = Append(SwapRemove(todo), r)
                /\ UNCHANGED <<clients, flowVars>>
             \/ /\ dns[slot[r]] = "failed"    \* nothing left to try, or refused
                /\ FreeQuery(r) /\ ForgetLookup(r)
                /\ Answer(r, "NotFound")
                /\ expired' = expired \ {r}
                /\ todo' = SwapRemove(todo)
                /\ UNCHANGED flowVars
    /\ UNCHANGED <<channels, pc, late, drained, engine, device, history>>

LookupsDone ==
    /\ pc = "lookups" /\ todo = <<>>
    /\ pc' = "flows" /\ todo' \in Orders(flows)
    /\ UNCHANGED <<channels, clients, late, drained, engine, device,
                   lookupVars, flowVars, history>>

RemoveFlow(r) ==
    /\ tcp' = [tcp EXCEPT ![r] = "None"]
    /\ port' = [port EXCEPT ![r] = 0]
    /\ expired' = expired \ {r}
    /\ UNCHANGED next_port

\* Plausible bug: anything but a refusal counts as connected.
IsConnectedUnlessClosed(r) == tcp[r] # "Closed"

IsConnected(r) == tcp[r] = "Established"

\* The scan goes on: with the entry that took the place of a removed one, or the next.
MoveOn(r) ==
    /\ pc' = "flows"
    /\ todo' = IF tcp'[r] = "None" THEN SwapRemove(todo) ELSE Tail(todo)

\* Flow::poll while the reply is owed, up to the sending of a success.
PollPending(r) ==
    \/ /\ reply[r] = "cancelled"
       /\ RemoveFlow(r) /\ MoveOn(r)
       /\ UNCHANGED reply
    \/ /\ reply[r] # "cancelled" /\ Overdue(r)
       /\ Answer(r, "TimedOut") /\ RemoveFlow(r) /\ MoveOn(r)
    \/ /\ reply[r] # "cancelled" /\ ~Overdue(r) /\ tcp[r] = "Closed"
       /\ Answer(r, "ConnectionRefused") /\ RemoveFlow(r) /\ MoveOn(r)
    \/ /\ reply[r] # "cancelled" /\ ~Overdue(r) /\ tcp[r] # "Closed" /\ IsConnected(r)
       /\ pc' = "reply"
       /\ UNCHANGED <<clients, todo, flowVars>>
    \/ /\ reply[r] # "cancelled" /\ ~Overdue(r) /\ tcp[r] # "Closed" /\ ~IsConnected(r)
       /\ UNCHANGED <<clients, flowVars>>
       /\ MoveOn(r)

\* Flow::poll afterwards: the flow goes on, or it ends (see module Flow).
PollBridged(r) ==
    /\ \/ RemoveFlow(r)
       \/ UNCHANGED <<expired, flowVars>>
    /\ MoveOn(r)
    /\ UNCHANGED reply

PollFlow(r) ==
    /\ pc = "flows" /\ todo # <<>> /\ r = Head(todo)
    /\ \/ r \in pending /\ PollPending(r)
       \/ r \notin pending /\ PollBridged(r)
    /\ UNCHANGED <<channels, late, drained, engine, device, lookupVars, history>>

\* Plausible bug: what send returns is ignored.
ReplyTakenAlways(r) == TRUE

\* The receiver is still there; it was when reply.is_closed was asked.
ReplyTaken(r) == reply[r] # "cancelled"

\* reply.send(Ok(connection)); then Flow::poll goes on, and may end the flow at once.
SendReply(r) ==
    /\ pc = "reply" /\ todo # <<>> /\ r = Head(todo)
    /\ \/ /\ ~ReplyTaken(r)
          /\ RemoveFlow(r)
          /\ UNCHANGED <<reply, home>>
       \/ /\ ReplyTaken(r)
          /\ Answer(r, "Ok")
          /\ home' = [home EXCEPT ![r] = engine]
          /\ \/ /\ tcp' = [tcp EXCEPT ![r] = "Bridged"]
                /\ expired' = expired \ {r}
                /\ UNCHANGED <<port, next_port>>
             \/ RemoveFlow(r)
    /\ MoveOn(r)
    /\ UNCHANGED <<channels, late, drained, engine, device, lookupVars, accepted>>

\* The second poll of the step; then a failed device takes the engine down.
FinishStep ==
    /\ pc = "flows" /\ todo = <<>>
    /\ pc' = "select"
    /\ \/ /\ EngineNone
          /\ HangUp(lookups \cup pending)
       \/ /\ ~failed
          /\ late' = {}
          /\ UNCHANGED <<clients, todo, drained, engine, device,
                         lookupVars, flowVars>>
    /\ UNCHANGED <<channels, history>>

-----------------------------------------------------------------------------
Callers == \E r \in Requests : Cancel(r) \/ \E t \in Targets : TunnelConnect(r, t)

Adapter ==
    \/ \E s \in OfferedSettings : TunnelOnline(s)
    \/ \E g \in 0 .. generation : TunnelOffline(g)
    \/ \E r \in Requests, body \in Bodies : TunnelReceive(r, body)

Worker ==
    \/ TakeCommand \/ TakePacket \/ WakeUp \/ Drain \/ Egress
    \/ LookupsDone \/ FinishStep
    \/ \E r \in Requests : ServeLookup(r) \/ PollFlow(r) \/ SendReply(r)

Clock == \E r \in Requests : Expire(r)

Next == Callers \/ Adapter \/ DropWorker \/ Worker \/ Clock

(* The worker thread runs, crossbeam's select! picks among its ready channels
   at random, and the clock advances. *)
Fairness ==
    /\ WF_vars(Worker)
    /\ SF_vars(TakeCommand)
    /\ \A r \in Requests : WF_vars(Expire(r))

Spec == Init /\ [][Next]_vars
FairSpec == Spec /\ Fairness

-----------------------------------------------------------------------------
(* Properties. *)

TypeOK ==
    /\ commands \in Seq(Commands) /\ packets \in Seq(Packets) /\ generation \in Nat
    /\ reply \in [Requests -> Replies] /\ expired \subseteq Requests
    /\ pc \in {"select", "drain", "lookups", "flows", "reply", "stopped"}
    /\ todo \in Seq(Requests) /\ late \subseteq Requests /\ drained \in Nat
    /\ engine \in Nat /\ settings \in OfferedSettings \cup {NoSettings}
    /\ failed \in BOOLEAN
    /\ slot \in [Requests -> Slots \cup {0}] /\ fallback \in [Requests -> BOOLEAN]
    /\ dns \in [Slots -> {"free", "pending"} \cup Answers]
    /\ tcp \in [Requests -> TcpStates] /\ port \in [Requests -> Ports \cup {0}]
    /\ next_port \in Ports
    /\ accepted \subseteq Nat \X Requests /\ home \in [Requests -> Nat]

\* The engine never carries more connections than --max-connections, counting
\* lookups, attempts and streams, also while a lookup turns into a connection
\* (Engine::connect, netstack.rs:396; connect_ip itself does not check).
ConnectionLimit == Cardinality(lookups) + Cardinality(flows) <= MaxConnections

QueuedOnce ==
    \A i, j \in DOMAIN commands :
      commands[i].op = "connect" /\ commands[j].op = "connect"
        /\ commands[i].req = commands[j].req => i = j

\* The oneshot sender of a caller that still waits is in exactly one place (the
\* command channel, a Lookup or a Flow), so no caller waits for an answer that
\* nobody can give, and nobody holds the sender of a caller already answered.
SenderHasOneOwner ==
    /\ \A r \in Requests :
         /\ reply[r] = "waiting" => r \in Queued \cup lookups \cup pending
         /\ r \in Queued \cup lookups \cup pending => reply[r] \in {"waiting", "cancelled"}
    /\ lookups \cap flows = {} /\ Queued \cap (lookups \cup flows) = {}
    /\ QueuedOnce

\* No two sockets of the engine share a local port: the server would see one
\* connection where there are two (connect_ip, netstack.rs:454-460).
UniqueLocalPorts ==
    \A r, q \in flows : port[r] \in Ports /\ (port[r] = port[q] => r = q)

\* The queries of the DNS socket are exactly those of the lookups, one each: a
\* timed-out or abandoned lookup leaves none behind (cancel_query).
QueriesOwned ==
    /\ \A s \in Slots : dns[s] # "free" => \E r \in lookups : slot[r] = s
    /\ \A r, q \in lookups : dns[slot[r]] # "free" /\ (slot[r] = slot[q] => r = q)

\* A stream exists only for a caller who was told so, and only while the tunnel
\* over which it was opened is up ("Dropping the old stack closes every stream",
\* netstack.rs:184).
StreamsFollowTunnel ==
    \A r \in flows \ pending : engine # 0 /\ home[r] = engine /\ reply[r] = "Ok"

\* A caller is told it is connected only if the server accepted the connection
\* over that very tunnel: packets of another generation, or other states of the
\* socket, never count.
SuccessIsGenuine ==
    \A r \in Requests : reply[r] = "Ok" => <<home[r], r>> \in accepted

\* A step leaves no request of the engine unanswered whose deadline had passed
\* when the step looked at the clock, in whichever stage the request was.
DeadlinesKept ==
    pc = "flows" /\ todo = <<>> => late \cap (lookups \cup pending) = {}

\* "DNS lookup and TCP setup share a per-request deadline" (README.md): once it
\* has passed it stays passed, and a step that sees it passed reports no success.
SharedDeadline ==
    [][\A r \in expired :
         reply[r] = "waiting" =>
           /\ reply'[r] = "waiting" => r \in expired'
           /\ reply'[r] = "Ok" => r \notin late]_vars

\* Whoever waits for a connection is answered, whatever the tunnel, the server
\* and the other callers do.
AnsweredEventually ==
    \A r \in Requests : reply[r] = "waiting" ~> reply[r] # "waiting"

(* What makes these inductive. *)

\* Where the worker is says what its locals hold, and without an engine there
\* is nothing to serve.
WorkerPhase ==
    /\ pc \in {"drain", "lookups", "flows", "reply"} => engine # 0
    /\ engine = 0 => lookups \cup flows = {}
    /\ IsInjective(todo)
    /\ pc = "lookups" => ToSet(todo) \subseteq lookups /\ late \cap lookups \subseteq ToSet(todo)
    /\ pc \in {"flows", "reply"} =>
         ToSet(todo) \subseteq flows /\ late \cap lookups = {} /\ late \cap pending \subseteq ToSet(todo)
    /\ pc = "reply" => todo # <<>> /\ tcp[Head(todo)] = "Established" /\ Head(todo) \notin late

\* An attempt past SynSent, and a SYN-ACK under way, were accepted by the server.
AttemptsAreGenuine ==
    /\ \A r \in pending : tcp[r] \in {"Established", "CloseWait"} => <<engine, r>> \in accepted
    /\ \A i \in DOMAIN packets :
         packets[i].body = "synack" => <<packets[i].gen, packets[i].to>> \in accepted

\* Generations come up in ascending order.
GenerationsAscend ==
    /\ engine <= generation
    /\ \A i \in DOMAIN commands : commands[i].op = "online" =>
         /\ engine < commands[i].gen /\ commands[i].gen <= generation
         /\ \A j \in DOMAIN commands :
              commands[j].op = "online" /\ i < j => commands[i].gen < commands[j].gen

\* The inductive invariant: what the worker, its callers and the adapter agree on.
EngineInvariant ==
    /\ SenderHasOneOwner /\ QueriesOwned /\ UniqueLocalPorts /\ StreamsFollowTunnel
    /\ SuccessIsGenuine /\ WorkerPhase /\ AttemptsAreGenuine /\ GenerationsAscend

\* The abstract service: see module TunnelService.
Status(r) ==
    CASE tcp[r] = "Bridged"         -> "open"
      [] tcp[r] # "Bridged" /\ reply[r] = "Ok"      -> "closed"
      [] tcp[r] # "Bridged" /\ reply[r] \in Failures -> "failed"
      [] OTHER                      -> reply[r]

Service == INSTANCE TunnelService
             WITH link <- engine, status <- [r \in Requests |-> Status(r)]

\* The worker and its callers implement the abstract tunnel service.
ImplementsService == Service!Spec
=============================================================================
