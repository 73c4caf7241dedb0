-------------------------------- MODULE Vpn ---------------------------------
(***************************************************************************)
(* UserspaceVpn of src/src/vpn.rs: the callbacks with which the OpenVPN    *)
(* core starts, feeds and stops a packet tunnel, its State, and the two    *)
(* channels to the IP stack, whose worker is here reduced to which tunnel  *)
(* its Engine belongs to (module Netstack is the whole of it).             *)
(*                                                                         *)
(* The core is external.  It makes its callbacks one at a time on its own  *)
(* thread, and may make others from within io.connected() and the calls    *)
(* before it, the last step of start; io.error() makes none.               *)
(***************************************************************************)
EXTENDS Settings

CONSTANTS
    PushedOptions,   \* option lists the server may push
    ConfiguredMtus,  \* ExternalTunConfig.mtu, 0 for none
    DnsOverride,     \* the addresses of --dns
    ParsedLists, ParsedMtus, ParsedOverrides,  \* what else ParsedAsAsked is about
    MaxTunnels,      \* bound: tunnels the core starts
    MaxPackets,      \* capacity of the packet channel
    MaxCommands      \* bound: commands waiting when a callback is made

ASSUME VpnAssumption ==
    /\ PushedOptions \subseteq Seq(Lines) /\ ParsedLists \subseteq Seq(Lines)
    /\ ConfiguredMtus \subseteq Nat /\ ParsedMtus \subseteq Nat
    /\ DnsOverride \in Seq(Addresses) /\ ParsedOverrides \subseteq Seq(Addresses)
    /\ MaxTunnels \in Nat /\ MaxPackets \in Nat /\ MaxCommands \in Nat

VARIABLES
    generation, mtu, io, info,  \* State; io is the core's tunnel it belongs to, 0 for None
    step, settings,             \* how far start is, and what it has parsed
    tunnel, tunnels,            \* the core: its tunnel, 0 for none; tunnels started
    commands, packets,          \* the channels to the stack
    engine, worker,             \* the stack: its Engine, and whether it runs
    active,                     \* history: the tunnel was announced and nothing ended it
    announced                   \* history: the last generation sent to the stack

state == <<generation, mtu, io, info>>
core == <<step, settings, tunnel, tunnels>>
channels == <<commands, packets>>
stack == <<engine, worker>>
history == <<active, announced>>
vars == <<state, core, channels, stack, history>>

NoEngine == [gen |-> 0, sink |-> 0, settings |-> Refused]

\* ExternalTunInfo: what the core is told of the tunnel.
InfoOf(s) == [ipv4 |-> s.ipv4, ipv6 |-> s.ipv6, mtu |-> s.mtu]
NoInfo == [ipv4 |-> {}, ipv6 |-> {}, mtu |-> 0]

Init ==
    /\ generation = 0 /\ mtu = 0 /\ io = 0 /\ info = NoInfo
    /\ step = "idle" /\ settings = Refused /\ tunnel = 0 /\ tunnels = 0
    /\ commands = <<>> /\ packets = <<>>
    /\ engine = NoEngine /\ worker = "running"
    /\ active = FALSE /\ announced = 0

\* Callbacks the core makes: between two others, or from the last step of start.
MayCall == step \in {"idle", "activate"} /\ Len(commands) < MaxCommands

-----------------------------------------------------------------------------
(* The callbacks. *)

\* configure: any layer but 3 is refused.
Configure(layer, configured) ==
    /\ step = "idle" /\ layer = 3
    /\ mtu' = IF configured > 0 THEN configured ELSE 1500
    /\ UNCHANGED <<generation, io, info, core, channels, stack, history>>

\* start, the options: what cannot be parsed is reported and changes nothing.
StartParse(options) ==
    /\ MayCall /\ step = "idle" /\ tunnel = 0 /\ tunnels < MaxTunnels
    /\ tunnels' = tunnels + 1 /\ tunnel' = tunnels + 1
    /\ LET parsed == Parse(options, mtu, DnsOverride)
       IN \/ /\ ~parsed.ok
             /\ UNCHANGED <<step, settings>>
          \/ /\ parsed.ok
             /\ settings' = parsed /\ step' = "publish"
    /\ UNCHANGED <<state, channels, stack, history>>

\* Plausible bug: a tunnel that is started again keeps its generation.
PublishInPlace ==
    /\ step = "publish"
    /\ generation' = IF generation = 0 THEN 1 ELSE generation
    /\ info' = InfoOf(settings) /\ io' = tunnel
    /\ step' = "announce"
    /\ UNCHANGED <<mtu, settings, tunnel, tunnels, channels, stack, history>>

\* start, the block that holds the lock.
Publish ==
    /\ step = "publish"
    /\ generation' = generation + 1
    /\ info' = InfoOf(settings) /\ io' = tunnel
    /\ step' = "announce"
    /\ UNCHANGED <<mtu, settings, tunnel, tunnels, channels, stack, history>>

\* Tunnel::online and Tunnel::offline; a stack that has stopped takes no command.
Send(command) == commands' = IF worker = "running" THEN Append(commands, command) ELSE commands
Online == [op |-> "online", gen |-> generation, sink |-> io, settings |-> settings]
Offline == [op |-> "offline", gen |-> generation]

Announce ==
    /\ step = "announce"
    /\ Send(Online)
    /\ active' = (worker = "running")
    /\ announced' = IF worker = "running" THEN generation ELSE announced
    /\ step' = IF worker = "running" THEN "activate" ELSE "idle"
    /\ UNCHANGED <<state, settings, tunnel, tunnels, packets, stack>>

\* pre_tun_config, pre_route_config, connected: if one fails, the stack is told.
Activate ==
    /\ step = "activate" /\ step' = "idle"
    /\ \/ UNCHANGED <<commands, active>>
       \/ Send(Offline) /\ active' = FALSE
    /\ UNCHANGED <<state, settings, tunnel, tunnels, packets, stack, announced>>

\* Plausible bug: a tunnel is taken down only while packets are exchanged.
StopIfConnected ==
    /\ MayCall
    /\ io' = 0 /\ tunnel' = 0 /\ active' = FALSE
    /\ IF step = "idle" THEN Send(Offline) ELSE UNCHANGED commands
    /\ UNCHANGED <<generation, mtu, info, step, settings, tunnels, packets, stack, announced>>

\* stop and set_disconnect: the lock is held throughout.
Stop ==
    /\ MayCall
    /\ io' = 0 /\ tunnel' = 0 /\ active' = FALSE
    /\ Send(Offline)
    /\ UNCHANGED <<generation, mtu, info, step, settings, tunnels, packets, stack, announced>>

\* send: a packet from the VPN; one that finds the channel full is lost.
Receive ==
    /\ MayCall /\ tunnel # 0 /\ io # 0
    /\ worker = "running" /\ Len(packets) < MaxPackets
    /\ packets' = Append(packets, [gen |-> generation, from |-> tunnel])
    /\ UNCHANGED <<state, core, commands, stack, history>>

-----------------------------------------------------------------------------
(* The worker of the stack. *)

\* Plausible bug: no Offline is obeyed.
ObeyOnlineOnly(command) ==
    CASE command.op = "online" ->
           [gen |-> command.gen, sink |-> command.sink, settings |-> command.settings]
      [] command.op = "offline" -> engine

Obey(command) ==
    CASE command.op = "online" ->
           [gen |-> command.gen, sink |-> command.sink, settings |-> command.settings]
      [] command.op = "offline" -> IF engine.gen = command.gen THEN NoEngine ELSE engine

TakeCommand ==
    /\ worker = "running" /\ commands # <<>>
    /\ engine' = Obey(Head(commands))
    /\ commands' = Tail(commands)
    /\ UNCHANGED <<state, core, packets, worker, history>>

\* The engine gets the packet if it is for its generation.
TakePacket ==
    /\ worker = "running" /\ packets # <<>>
    /\ packets' = Tail(packets)
    /\ UNCHANGED <<state, core, commands, stack, history>>

\* CoreSink::send fails, so the Engine is dropped.
SinkFails ==
    /\ engine # NoEngine
    /\ engine' = NoEngine
    /\ active' = (active /\ engine.gen # generation)
    /\ UNCHANGED <<state, core, channels, worker, announced>>

\* The worker ends, by Shutdown or by a panic, and its channels with it.
StopWorker ==
    /\ worker = "running"
    /\ worker' = "stopped" /\ engine' = NoEngine /\ active' = FALSE
    /\ commands' = <<>> /\ packets' = <<>>
    /\ UNCHANGED <<state, core, announced>>

-----------------------------------------------------------------------------
Start == Publish \/ Announce \/ Activate
Callbacks ==
    \/ \E configured \in ConfiguredMtus, layer \in {2, 3} : Configure(layer, configured)
    \/ \E options \in PushedOptions : StartParse(options)
    \/ Start \/ Stop \/ Receive
Worker == TakeCommand \/ TakePacket \/ SinkFails \/ StopWorker
Next == Callbacks \/ Worker

(* A callback that has begun goes on, and the worker takes the commands sent to it. *)
Fairness == WF_vars(Start) /\ WF_vars(TakeCommand)

Spec == Init /\ [][Next]_vars
FairSpec == Spec /\ Fairness

-----------------------------------------------------------------------------
(* Properties. *)

Mtus == ConfiguredMtus \cup {0, 1500}
Parsed == { Parse(options, m, DnsOverride) : options \in PushedOptions, m \in Mtus }
      \cup {Refused}

Commands == [op : {"online"}, gen : Nat, sink : Nat, settings : Parsed]
       \cup [op : {"offline"}, gen : Nat]
Engines == [gen : Nat, sink : Nat, settings : Parsed]

TypeOK ==
    /\ {generation, io, tunnel, tunnels, announced} \subseteq Nat /\ mtu \in Mtus
    /\ step \in {"idle", "publish", "announce", "activate"}
    /\ settings \in Parsed
    /\ commands \in Seq(Commands)
    /\ packets \in Seq([gen : Nat, from : Nat])
    /\ engine \in Engines
    /\ worker \in {"running", "stopped"} /\ active \in BOOLEAN
    /\ worker = "stopped" => commands = <<>> /\ packets = <<>> /\ engine = NoEngine

\* A packet that waits in the channel can only get into the engine of the tunnel
\* it came through, although packets and commands overtake each other and the
\* engine is replaced while packets wait (the tag of vpn.rs:253).
PacketsOfTheirTunnel ==
    \A i \in DOMAIN packets : packets[i].gen = engine.gen => packets[i].from = engine.sink

\* Between callbacks, once the stack has taken its commands, it runs the engine
\* of the tunnel the core has up, and none if the core has none, if the tunnel
\* could not be activated or if its sink failed.
Quiet == step = "idle" /\ commands = <<>> /\ worker = "running"

EngineFollowsTunnel ==
    Quiet => engine = IF active
                      THEN [gen |-> generation, sink |-> tunnel, settings |-> settings]
                      ELSE NoEngine

\* Reading the lines one by one gives what the list as a whole asks for: the last
\* address of each family, the smallest MTU, and the resolvers of the assigned
\* families or those of --dns in their place; no list is refused without reason, and
\* an engine can be built with what is accepted, every resolver reached through it.
\* The lists are the same in every state and are looked at in the first.
ParsedAsAsked ==
    Init => \A options \in ParsedLists, configured \in ParsedMtus, dns \in ParsedOverrides :
              ParsedRight(options, configured, dns)

\* What the stack is sent, as module Netstack has it from its environment.
Sent(command) == [op |-> command.op, gen |-> command.gen]
Adapter == INSTANCE TunnelAdapter WITH
    generation <- announced,
    commands <- [i \in DOMAIN commands |-> Sent(commands[i])],
    packets <- [i \in DOMAIN packets |-> packets[i].gen]

\* The callbacks drive the stack as Netstack assumes: each tunnel announced has
\* the generation after the last, and nothing is sent for one not yet announced.
ImplementsAdapter == Adapter!Spec

\* The engine of a tunnel that is gone does not stay: the core has no tunnel only
\* until the stack has none, or until the next start.
StoppedTunnelsLeave == tunnel = 0 ~> engine = NoEngine \/ tunnel # 0
=============================================================================
