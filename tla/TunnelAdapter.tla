--------------------------- MODULE TunnelAdapter ----------------------------
(***************************************************************************)
(* What the IP stack may assume of the adapter that drives it, whatever    *)
(* the callbacks, locks and failures behind it: tunnels are announced one  *)
(* generation after another, taken down only after they were announced     *)
(* (generation 0 is none), and packets bear the generation announced last. *)
(* These are the actions TunnelOnline, TunnelOffline and TunnelReceive of  *)
(* module Netstack, and the worker's receiving from both channels.         *)
(***************************************************************************)
EXTENDS Naturals, Sequences

VARIABLES
    generation,        \* the last generation announced
    commands, packets  \* the two channels

vars == <<generation, commands, packets>>

Init == generation = 0 /\ commands = <<>> /\ packets = <<>>

Online ==
    /\ generation' = generation + 1
    /\ commands' = Append(commands, [op |-> "online", gen |-> generation'])
    /\ UNCHANGED packets

Offline ==
    /\ \E g \in 0 .. generation :
         commands' = Append(commands, [op |-> "offline", gen |-> g])
    /\ UNCHANGED <<generation, packets>>

Receive ==
    /\ packets' = Append(packets, generation)
    /\ UNCHANGED <<generation, commands>>

\* The stack takes a command or a packet, or closes both channels.
Take ==
    /\ \/ commands # <<>> /\ commands' = Tail(commands) /\ UNCHANGED packets
       \/ packets # <<>> /\ packets' = Tail(packets) /\ UNCHANGED commands
       \/ commands' = <<>> /\ packets' = <<>>
    /\ UNCHANGED generation

Next == Online \/ Offline \/ Receive \/ Take

Spec == Init /\ [][Next]_vars
=============================================================================
