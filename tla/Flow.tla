-------------------------------- MODULE Flow --------------------------------
(***************************************************************************)
(* One established connection of src/src/netstack.rs: Flow::poll, which    *)
(* moves bytes between the smoltcp socket and the "bridge", one end of the *)
(* tokio duplex pipe whose other end the client of the connection holds.   *)
(*                                                                         *)
(*   server ==> rx ==> down ==> client         tcp socket | duplex pipe    *)
(*   server <== tx <== up   <== client                                     *)
(*                                                                         *)
(* Bytes are counted, not named: every buffer on the way is a queue.       *)
(* Flow::poll is split at its pipe operations, because the client uses the *)
(* pipe concurrently; the socket changes only in Interface::poll, between  *)
(* two polls of the flow (pc = "network").                                 *)
(*                                                                         *)
(* The socket (state machine, buffers, TIME-WAIT) and the pipe are         *)
(* external: modelled as Flow::poll uses them.                             *)
(***************************************************************************)
EXTENDS Naturals

CONSTANTS
    BufferSize,    \* BUFFER_SIZE: of rx, of tx and of each way of the pipe
    Turns,         \* turns of each copy loop in one poll, 64 in the code
    ServerBytes,   \* bound: bytes the server sends
    ClientBytes    \* bound: bytes the client writes

ASSUME FlowAssumption ==
    /\ BufferSize \in Nat \ {0} /\ Turns \in Nat \ {0}
    /\ ServerBytes \in Nat /\ ClientBytes \in Nat

VARIABLES
    client,        \* its end of the pipe: open, shut down for writing, dropped
    written, read, \* bytes the client wrote and read
    up, down,      \* bytes in the pipe
    tcp,           \* socket.state()
    rx, tx,        \* bytes in the socket's buffers
    arrived, acked,            \* bytes received from, acknowledged by the server
    read_closed, write_closed, \* Flow.read_closed, Flow.write_closed
    idle_timeout,  \* whether --idle-timeout is not 0; never changes
    quiet,         \* now - Flow.activity >= idle_timeout
    lingered,      \* a poll has seen the socket in TIME-WAIT
    pc, turn,      \* where the worker is in Flow::poll
    ending,        \* history: why the flow ended
    finished, reset            \* history: the server's FIN, RST arrived

clientVars == <<client, written, read>>
pipe == <<up, down>>
socket == <<tcp, rx, tx, arrived, acked>>
flags == <<read_closed, write_closed>>
history == <<ending, finished, reset>>
clock == <<quiet, lingered>>
vars == <<clientVars, pipe, socket, flags, clock, pc, turn, history, idle_timeout>>

TcpStates == {"Established", "FinWait1", "FinWait2", "Closing", "TimeWait",
              "CloseWait", "LastAck", "Closed"}
Endings == {"none", "closed", "idle", "broken", "tunnel"}

Init ==
    /\ client = "open" /\ written = 0 /\ read = 0
    /\ up = 0 /\ down = 0
    /\ tcp = "Established" /\ rx = 0 /\ tx = 0 /\ arrived = 0 /\ acked = 0
    /\ read_closed = FALSE /\ write_closed = FALSE
    /\ idle_timeout \in BOOLEAN
    /\ quiet = FALSE /\ lingered = FALSE /\ pc = "network" /\ turn = 0
    /\ ending = "none" /\ finished = FALSE /\ reset = FALSE

-----------------------------------------------------------------------------
(* The client's end of the pipe. *)

ClientWrite ==
    /\ client = "open" /\ pc # "ended"
    /\ up < BufferSize /\ written < ClientBytes
    /\ written' = written + 1 /\ up' = up + 1
    /\ UNCHANGED <<client, read, down, socket, flags, clock, pc, turn, history, idle_timeout>>

ClientRead ==
    /\ client # "gone" /\ down > 0
    /\ read' = read + 1 /\ down' = down - 1
    /\ UNCHANGED <<client, written, up, socket, flags, clock, pc, turn, history, idle_timeout>>

\* copy_bidirectional met the end of the SOCKS client's stream.
ClientShutdown ==
    /\ client = "open"
    /\ client' = "half"
    /\ UNCHANGED <<written, read, pipe, socket, flags, clock, pc, turn, history, idle_timeout>>

\* The SOCKS task ends.
ClientDrop ==
    /\ client # "gone"
    /\ client' = "gone"
    /\ UNCHANGED <<written, read, pipe, socket, flags, clock, pc, turn, history, idle_timeout>>

-----------------------------------------------------------------------------
(* Interface::poll: what the server's segments do to the socket. *)

Receiving == tcp \in {"Established", "FinWait1", "FinWait2"}

Segment ==
    /\ pc = "network"
    /\ UNCHANGED <<clientVars, pipe, flags, clock, pc, turn, ending, idle_timeout>>

DataArrives ==
    /\ Segment
    /\ Receiving /\ rx < BufferSize /\ arrived < ServerBytes
    /\ rx' = rx + 1 /\ arrived' = arrived + 1
    /\ UNCHANGED <<tcp, tx, acked, finished, reset>>

FinArrives ==
    /\ Segment
    /\ Receiving
    /\ tcp' = CASE tcp = "Established" -> "CloseWait"
                [] tcp = "FinWait1"    -> "Closing"
                [] tcp = "FinWait2"    -> "TimeWait"
    /\ finished' = TRUE
    /\ UNCHANGED <<rx, tx, arrived, acked, reset>>

DataAcked ==
    /\ Segment
    /\ tcp # "Closed" /\ tx > 0
    /\ tx' = tx - 1 /\ acked' = acked + 1
    /\ UNCHANGED <<tcp, rx, arrived, finished, reset>>

\* Our FIN follows the bytes of tx, and so does its acknowledgement.
FinAcked ==
    /\ Segment
    /\ tcp \in {"FinWait1", "Closing", "LastAck"} /\ tx = 0
    /\ tcp' = CASE tcp = "FinWait1" -> "FinWait2"
                [] tcp = "Closing"  -> "TimeWait"
                [] tcp = "LastAck"  -> "Closed"
    /\ UNCHANGED <<rx, tx, arrived, acked, finished, reset>>

ResetArrives ==
    /\ Segment
    /\ tcp # "Closed"
    /\ tcp' = "Closed" /\ reset' = TRUE
    /\ UNCHANGED <<rx, tx, arrived, acked, finished>>

\* The socket leaves TIME-WAIT, after many polls, and is reset, unread bytes
\* included.
TimeWaitOver ==
    /\ Segment
    /\ tcp = "TimeWait" /\ lingered
    /\ tcp' = "Closed" /\ rx' = 0
    /\ UNCHANGED <<tx, arrived, acked, finished, reset>>

\* idle_timeout has gone by since Flow.activity, in the `now` of the next poll.
GrowQuiet ==
    /\ pc = "network" /\ idle_timeout
    /\ quiet' = TRUE
    /\ UNCHANGED <<clientVars, pipe, socket, flags, lingered, pc, turn, history, idle_timeout>>

-----------------------------------------------------------------------------
(* Flow::poll once its reply has been sent. *)

\* `return false`, and the engine removes the flow, its socket and the bridge.
End(cause) ==
    /\ pc' = "ended" /\ ending' = cause
    /\ UNCHANGED <<clientVars, pipe, socket, flags, clock, turn, finished, reset, idle_timeout>>

\* The Engine that holds the flow is dropped: another tunnel, or none.
EngineDropped == pc = "network" /\ End("tunnel")

\* Plausible bug: the idle timeout is not applied to half-closed connections.
IdleElapsedWhileOpen == idle_timeout /\ quiet /\ ~read_closed

IdleElapsed == idle_timeout /\ quiet

BeginPoll ==
    /\ pc = "network"
    /\ \/ IdleElapsed /\ End("idle")
       \/ /\ ~IdleElapsed
          /\ pc' = "receive" /\ turn' = 0
          /\ lingered' = (lingered \/ tcp = "TimeWait")
          /\ UNCHANGED <<clientVars, pipe, socket, flags, quiet, history, idle_timeout>>

TurnLeft == turn < Turns

\* Plausible bug: bytes count as receivable only while more may come.
CanRecvWhileOpen == rx > 0 /\ Receiving

\* socket.can_recv()
CanRecv == rx > 0

\* Plausible bug: the closure reports the length of `data`, not what was written.
ConsumeAll(n) == rx' = 0

Consume(n) == rx' = rx - n

Receive ==
    /\ pc = "receive"
    /\ CanRecv /\ ~write_closed /\ TurnLeft
    /\ \/ client = "gone" /\ End("broken")
       \/ /\ client # "gone"
          /\ \E n \in 1 .. rx :
               /\ down + n <= BufferSize
               /\ Consume(n) /\ down' = down + n
          /\ quiet' = FALSE /\ turn' = turn + 1
          /\ UNCHANGED <<clientVars, up, tcp, tx, arrived, acked, flags, lingered, pc, history,
                         idle_timeout>>

ReceiveDone ==
    /\ pc = "receive"
    /\ \/ ~CanRecv \/ write_closed \/ ~TurnLeft
       \/ client # "gone" /\ down = BufferSize
    /\ pc' = "shutdown"
    /\ UNCHANGED <<clientVars, pipe, socket, flags, clock, turn, history, idle_timeout>>

\* Plausible bug: bytes still in the socket's buffer are not waited for.
MayRecvIgnoringBuffer == Receiving

\* socket.may_recv()
MayRecv == Receiving \/ rx > 0

ShutdownBridge ==
    /\ pc = "shutdown"
    /\ write_closed' = (write_closed \/ ~MayRecv)
    /\ pc' = "send" /\ turn' = 0
    /\ UNCHANGED <<clientVars, pipe, socket, read_closed, clock, history, idle_timeout>>

\* socket.can_send()
CanSend == tcp \in {"Established", "CloseWait"} /\ tx < BufferSize

\* Plausible bug: a pipe with nothing to read is taken for one at its end.
UpstreamEndIfEmpty == up = 0

\* poll_read reports the end of the client's bytes.
UpstreamEnd == up = 0 /\ client # "open"

\* Plausible bug: half-close is forgotten, the socket is never closed.
CloseNever == UNCHANGED tcp

\* socket.close()
Close == tcp' = IF tcp = "Established" THEN "FinWait1" ELSE "LastAck"

Send ==
    /\ pc = "send"
    /\ CanSend /\ ~read_closed /\ TurnLeft
    /\ \/ /\ UpstreamEnd
          /\ read_closed' = TRUE /\ Close
          /\ UNCHANGED <<up, tx, quiet, turn>>
       \/ /\ \E n \in 1 .. up :
               /\ tx + n <= BufferSize
               /\ up' = up - n /\ tx' = tx + n
          /\ quiet' = FALSE /\ turn' = turn + 1
          /\ UNCHANGED <<tcp, read_closed>>
    /\ UNCHANGED <<clientVars, down, rx, arrived, acked, write_closed, lingered, pc, history,
                   idle_timeout>>

\* Plausible bug: a flow whose server is done is taken for a finished one.
OverWhenServerIs == tcp \in {"CloseWait", "Closed"}

Over == tcp = "Closed"

EndPoll ==
    /\ pc = "send"
    /\ ~CanSend \/ read_closed \/ ~TurnLeft \/ (up = 0 /\ client = "open")
    /\ \/ Over /\ End("closed")
       \/ /\ ~Over
          /\ pc' = "network"
          /\ UNCHANGED <<clientVars, pipe, socket, flags, clock, turn, history, idle_timeout>>

-----------------------------------------------------------------------------
Client == ClientWrite \/ ClientRead \/ ClientShutdown \/ ClientDrop

Network ==
    DataArrives \/ FinArrives \/ DataAcked \/ FinAcked \/ ResetArrives \/ TimeWaitOver

Poll ==
    BeginPoll \/ Receive \/ ReceiveDone \/ ShutdownBridge \/ Send \/ EndPoll

Next == Client \/ Network \/ GrowQuiet \/ EngineDropped \/ Poll

(* The worker polls at least every 20 ms; segments arrive, or smoltcp sends
   again until they do; the clock advances; the SOCKS task copies what it is
   given. *)
Fairness ==
    /\ WF_vars(Poll)
    /\ SF_vars(DataAcked) /\ SF_vars(FinAcked) /\ SF_vars(TimeWaitOver)
    /\ SF_vars(GrowQuiet)
    /\ WF_vars(ClientRead)

Spec == Init /\ [][Next]_vars
FairSpec == Spec /\ Fairness

-----------------------------------------------------------------------------
(* Properties. *)

BytesTyped ==
    /\ written \in Nat /\ read \in Nat /\ arrived \in Nat /\ acked \in Nat
    /\ up \in 0 .. BufferSize /\ down \in 0 .. BufferSize
    /\ rx \in 0 .. BufferSize /\ tx \in 0 .. BufferSize
    /\ turn \in 0 .. Turns

FlagsTyped ==
    /\ read_closed \in BOOLEAN /\ write_closed \in BOOLEAN
    /\ quiet \in BOOLEAN /\ lingered \in BOOLEAN /\ idle_timeout \in BOOLEAN
    /\ finished \in BOOLEAN /\ reset \in BOOLEAN
    /\ client \in {"open", "half", "gone"} /\ tcp \in TcpStates /\ ending \in Endings
    /\ pc \in {"network", "receive", "shutdown", "send", "ended"}

TypeOK == BytesTyped /\ FlagsTyped

\* What the client reads next, or waits for, is the end of its stream.
ClientEof == client # "gone" /\ down = 0 /\ (write_closed \/ pc = "ended")

\* Every byte is in exactly one place: none is lost or doubled while the socket
\* lives, however full the pipe is when Flow::poll copies (netstack.rs:615-633).
NothingLost ==
    /\ written = up + tx + acked
    /\ tcp # "Closed" => arrived = rx + down + read

\* A client that has not shut down its own side meets the end of the stream only
\* after the server's FIN and every byte before it, unless the connection was
\* reset, or the engine cut it (idle timeout, tunnel gone).
CleanEof ==
    ClientEof /\ client = "open" /\ ~reset /\ ending \in {"none", "closed"}
      => finished /\ read = arrived

\* The server is told that the client has finished only after the client has,
\* and has acknowledged that only with all its bytes: TCP half-close never
\* cuts what the client wrote (netstack.rs:662-666).
FinAfterData ==
    /\ tcp \in {"FinWait1", "FinWait2", "Closing", "TimeWait", "LastAck"} =>
         up = 0 /\ client # "open"
    /\ tcp \in {"FinWait2", "TimeWait"} => acked = written

\* What "supports ... TCP half-close" (README.md) promises: a client that
\* finished sending still gets everything from a server that finished properly.
\* (A client so slow that TIME-WAIT runs out is left aside.)
HalfCloseDelivers ==
    ClientEof /\ client = "half" /\ finished /\ ~reset /\ ~lingered
      /\ ending \in {"none", "closed"}
      => read = arrived

\* Every byte that came reaches the client, unless the flow ends or the client goes.
DeliveredEventually ==
    \A n \in 1 .. ServerBytes :
      arrived >= n ~> read >= n \/ pc = "ended" \/ client = "gone"

\* A flow whose client has gone gives its place back: always if there is an idle
\* timeout, otherwise once the server has finished too.
ReleasedEventually ==
    client = "gone" /\ (idle_timeout \/ finished) ~> pc = "ended"

(* What makes the safety properties inductive. *)

\* The flags of the flow and the states of its socket tell the same story: the
\* socket is closed for sending exactly when the client's end has been read, and
\* the pipe is closed only when nothing more can come.
FlagsFollowSocket ==
    /\ tcp \in {"Established", "CloseWait"} => ~read_closed
    /\ tcp \in {"FinWait1", "FinWait2", "Closing", "TimeWait", "LastAck"} => read_closed
    /\ tcp \in {"CloseWait", "Closing", "TimeWait", "LastAck"} => finished
    /\ tcp = "Closed" /\ ~reset => client # "open" /\ finished
    /\ read_closed => client # "open" /\ up = 0
    /\ write_closed => ~Receiving /\ rx = 0

\* The cause of the end is recorded with it.
EndingRecorded ==
    /\ pc = "ended" <=> ending # "none"
    /\ ending = "closed" => tcp = "Closed"

\* The inductive invariant: socket, pipe and flags agree about both streams.
FlowInvariant == NothingLost /\ FinAfterData /\ FlagsFollowSocket /\ EndingRecorded
=============================================================================
