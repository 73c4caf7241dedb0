-------------------------------- MODULE Socks -------------------------------
(***************************************************************************)
(* The SOCKS5 server of src/src/socks.rs: the accept loop `serve` with its *)
(* semaphore and task set, and one task per client that goes through       *)
(* `handle`: greeting, request, Tunnel::connect, reply, copy.              *)
(*                                                                         *)
(* The tunnel behind it is the abstract service of TunnelService, which    *)
(* Netstack implements; one client makes at most one request of it.        *)
(* What a client sends is a choice at each step; `sent` is what it is sent.*)
(***************************************************************************)
EXTENDS Naturals, Sequences, FiniteSets

CONSTANTS
    Clients,   \* incoming connections
    Limit,     \* --max-connections
    Refusals,  \* bound: the codes of RefusalCodes that occur
    Failing,   \* bound: the kinds of FailureKinds that occur
    MaxLink    \* bound: tunnels that come up

\* The codes of requests refused by the handshake: malformed or port zero,
\* command, host name, address type.
RefusalCodes == {1, 7, 4, 8}

FailureKinds == {"NetworkUnreachable", "NotConnected", "NotFound", "HostUnreachable",
                 "TimedOut", "ConnectionRefused", "InvalidInput", "Other"}

ASSUME SocksAssumption ==
    /\ IsFiniteSet(Clients) /\ Limit \in Nat \ {0} /\ MaxLink \in Nat
    /\ Refusals \subseteq RefusalCodes /\ Failing \subseteq FailureKinds

VARIABLES
    link, status,  \* the tunnel service
    serving,       \* where `serve` is
    shutdown,      \* the watch channel of main
    permits,       \* of the semaphore
    task,          \* the task of each client
    sent           \* what each client was sent: the method, the reply code

tunnelVars == <<link, status>>
vars == <<tunnelVars, serving, shutdown, permits, task, sent>>

Tunnel == INSTANCE TunnelService WITH Requests <- Clients

TaskStates == {"none", "refused", "greeting", "request", "connecting", "copying", "ended"}
live == { c \in Clients : task[c] \in {"greeting", "request", "connecting", "copying"} }

Init ==
    /\ Tunnel!Init
    /\ serving = "top" /\ shutdown = FALSE /\ permits = Limit
    /\ task = [c \in Clients |-> "none"]
    /\ sent = [c \in Clients |-> <<>>]

-----------------------------------------------------------------------------
(* The tunnel, and main. *)

TunnelStep ==
    /\ \/ \E n \in 0 .. MaxLink : link' = n /\ Tunnel!Relink
       \/ \E c \in Clients : Tunnel!Fail(c) \/ Tunnel!Open(c) \/ Tunnel!Close(c)
    /\ UNCHANGED <<serving, shutdown, permits, task, sent>>

Shutdown ==
    /\ ~shutdown
    /\ shutdown' = TRUE
    /\ UNCHANGED <<tunnelVars, serving, permits, task, sent>>

-----------------------------------------------------------------------------
(* serve *)

\* The test at the top of the loop; leaving it aborts every task.
LoopTop ==
    /\ serving = "top"
    /\ serving' = IF shutdown THEN "joining" ELSE "select"
    /\ UNCHANGED <<tunnelVars, shutdown, permits, task, sent>>

\* The arm of shutdown.changed(), and a failed accept: the loop ends.
StopServing ==
    /\ serving = "select"
    /\ serving' = "joining"
    /\ UNCHANGED <<tunnelVars, shutdown, permits, task, sent>>

\* The arm of tasks.join_next(): a task that is over leaves the task set.
Reap ==
    /\ serving = "select" /\ \E c \in Clients : task[c] = "ended"
    /\ serving' = "top"
    /\ UNCHANGED <<tunnelVars, shutdown, permits, task, sent>>

\* try_acquire_owned succeeds.
PermitFree == permits > 0

Accept(c) ==
    /\ serving = "select" /\ task[c] = "none"
    /\ serving' = "top"
    /\ \/ /\ PermitFree
          /\ permits' = permits - 1
          /\ task' = [task EXCEPT ![c] = "greeting"]
       \/ /\ ~PermitFree
          /\ task' = [task EXCEPT ![c] = "refused"]
          /\ UNCHANGED permits
    /\ UNCHANGED <<tunnelVars, shutdown, sent>>

\* Plausible bug: serve returns without waiting for its tasks.
AllJoinedAtOnce == TRUE

AllJoined == live = {}

Return ==
    /\ serving = "joining" /\ AllJoined
    /\ serving' = "returned"
    /\ UNCHANGED <<tunnelVars, shutdown, permits, task, sent>>

-----------------------------------------------------------------------------
(* handle *)

\* Plausible bug: the permit is forgotten when a task ends.
EndKeepingPermit(c) ==
    /\ task' = [task EXCEPT ![c] = "ended"]
    /\ UNCHANGED permits

\* The task's future is dropped, and its permit with it.
End(c) ==
    /\ task' = [task EXCEPT ![c] = "ended"]
    /\ permits' = permits + 1

Send(c, code) == sent' = [sent EXCEPT ![c] = Append(@, code)]

\* The task does its next step, or comes to an error, or its client goes.
Step(c, from) == task[c] = from /\ UNCHANGED <<serving, shutdown>>

GoesTo(c, to) == task' = [task EXCEPT ![c] = to] /\ UNCHANGED permits

Greet(c) ==
    /\ Step(c, "greeting")
    /\ UNCHANGED tunnelVars
    /\ \/ Send(c, 0) /\ GoesTo(c, "request")
       \/ Send(c, 255) /\ End(c)            \* no acceptable method
       \/ UNCHANGED sent /\ End(c)          \* malformed, gone, or too slow

ReadRequest(c) ==
    /\ Step(c, "request")
    /\ \/ /\ Tunnel!Request(c) \/ Tunnel!Reject(c)
          /\ GoesTo(c, "connecting")
          /\ UNCHANGED sent
       \/ /\ \E code \in Refusals : Send(c, code)
          /\ End(c) /\ UNCHANGED tunnelVars
       \/ UNCHANGED <<sent, tunnelVars>> /\ End(c)

\* Plausible bug: success is reported before the connection stands.
ConnectedEarly(c) == status[c] # "failed"

\* Plausible bug: a stream that has ended already is not reported at all.
ConnectedWhileOpen(c) == status[c] = "open"

\* Tunnel::connect returned a stream, which may have ended since.
Connected(c) == status[c] \in {"open", "closed"}

\* The code of a kind of error that Tunnel::connect returns.
FailureCode(kind) ==
    CASE kind \in {"NetworkUnreachable", "NotConnected"} -> 3
      [] kind \in {"NotFound", "HostUnreachable", "TimedOut"} -> 4
      [] kind = "ConnectionRefused" -> 5
      [] OTHER -> 1

ReplyResult(c) ==
    /\ Step(c, "connecting")
    /\ UNCHANGED tunnelVars
    /\ \/ Connected(c) /\ Send(c, 0) /\ GoesTo(c, "copying")
       \/ status[c] = "failed" /\ End(c)
          /\ \E kind \in Failing : Send(c, FailureCode(kind))
       \/ /\ Connected(c) \/ status[c] = "failed"   \* the reply cannot be written
          /\ UNCHANGED sent /\ End(c)

\* copy_bidirectional is done with both directions, or met an error.
CopyDone(c) ==
    /\ Step(c, "copying")
    /\ End(c)
    /\ UNCHANGED <<tunnelVars, sent>>

\* A future of Tunnel::connect is dropped.
Withdraw(c) ==
    IF status[c] = "waiting" THEN Tunnel!Withdraw(c) ELSE UNCHANGED tunnelVars

\* Plausible bug: the loop ends without abort_all.
AbortedNever == FALSE

\* abort_all has been called.
Aborted == serving = "joining"

\* It takes effect on one task.
Abort(c) ==
    /\ Aborted /\ c \in live
    /\ End(c) /\ Withdraw(c)
    /\ UNCHANGED <<serving, shutdown, sent>>

-----------------------------------------------------------------------------
Serve == LoopTop \/ StopServing \/ Reap \/ Return \/ \E c \in Clients : Accept(c)
Handshake(c) == Greet(c) \/ ReadRequest(c)
Task(c) == Handshake(c) \/ ReplyResult(c) \/ CopyDone(c) \/ Abort(c)

Next == TunnelStep \/ Shutdown \/ Serve \/ \E c \in Clients : Task(c)

(* The runtime runs `serve` and its tasks; the handshake has a timeout of 10 s;
   a stopped channel is noticed by a random select!; the tunnel answers every
   request (Netstack, AnsweredEventually). *)
Fairness ==
    /\ WF_vars(LoopTop) /\ WF_vars(Return)
    /\ SF_vars(shutdown /\ StopServing)
    /\ \A c \in Clients :
         /\ WF_vars(Handshake(c)) /\ WF_vars(ReplyResult(c)) /\ WF_vars(Abort(c))
         /\ WF_vars(TunnelStep /\ status[c] = "waiting" /\ status'[c] # "waiting")

Spec == Init /\ [][Next]_vars
FairSpec == Spec /\ Fairness

-----------------------------------------------------------------------------
(* Properties. *)

TypeOK ==
    /\ link \in Nat
    /\ status \in [Clients -> {"idle", "waiting", "failed", "cancelled", "open", "closed"}]
    /\ serving \in {"top", "select", "joining", "returned"} /\ shutdown \in BOOLEAN
    /\ permits \in 0 .. Limit
    /\ task \in [Clients -> TaskStates]
    /\ sent \in [Clients -> Seq(0 .. 255)]

\* A permit is held by exactly the tasks that live, whichever way a task ends:
\* the limit neither leaks nor lets more clients in (socks.rs:37-41).
PermitsKept == permits + Cardinality(live) = Limit

\* "A SOCKS success reply is sent only once the destination TCP connection is
\* established" (README.md), and whoever is told of a failure of the network has
\* no stream.
RepliesAreTrue ==
    \A c \in Clients : Len(sent[c]) = 2 =>
      /\ sent[c][1] = 0
      /\ sent[c][2] = 0 <=> status[c] \in {"open", "closed"}

\* Nothing of a client survives `serve`: no task, and no request that the tunnel
\* still works on for nobody.
NothingOutlivesServe ==
    serving = "returned" => live = {} /\ \A c \in Clients : status[c] # "waiting"

(* What makes the safety properties inductive. *)

\* Where a task is, what its client was sent and what has become of its request
\* go together, and whatever ends a task leaves no request behind it.
TaskProgress ==
    \A c \in Clients :
      /\ task[c] \in {"none", "refused", "greeting"} => sent[c] = <<>>
      /\ task[c] \in {"request", "connecting"} => sent[c] = <<0>>
      /\ task[c] \in {"none", "refused", "greeting", "request"} => status[c] = "idle"
      /\ task[c] = "copying" => status[c] \in {"open", "closed"}
      /\ task[c] = "ended" => status[c] # "waiting"
      /\ Len(sent[c]) = 2 => task[c] \in {"copying", "ended"}

\* The inductive invariant.
SocksInvariant == PermitsKept /\ RepliesAreTrue /\ NothingOutlivesServe /\ TaskProgress

\* The server stops when it is told to, whatever clients and tunnel do.
ServeReturns == shutdown ~> serving = "returned"

\* No client is kept in its handshake, or waiting for its reply, for ever.
ClientSettled == \A c \in Clients : task[c] = "greeting" ~> task[c] \in {"copying", "ended"}
=============================================================================
