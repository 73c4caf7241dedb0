----------------------------- MODULE FlowProofs -----------------------------
(* Proofs about Flow: the bytes and the ends of one connection keep their order
   for every buffer size, number of turns and amount of data. *)
EXTENDS Flow, TLAPS

USE DEF clientVars, pipe, socket, flags, clock, history

\* Every variable keeps its type; in particular no buffer ever overflows.
THEOREM FlowTypes == Spec => []TypeOK
<1>1. Init => TypeOK
  <2>1. Init => BytesTyped
    BY FlowAssumption DEF FlowAssumption, Init, BytesTyped
  <2>2. Init => FlagsTyped
    BY DEF Init, FlagsTyped, TcpStates, Endings
  <2> QED  BY <2>1, <2>2 DEF TypeOK
<1>2. TypeOK /\ [Next]_vars => BytesTyped'
  <2> SUFFICES ASSUME BytesTyped, [Next]_vars PROVE BytesTyped'
    BY DEF TypeOK
  <2> USE FlowAssumption DEF FlowAssumption, BytesTyped
  <2>1. CASE UNCHANGED vars
    BY <2>1 DEF vars
  <2>2. CASE Client
    BY <2>2 DEF Client, ClientWrite, ClientRead, ClientShutdown, ClientDrop
  <2>3. CASE Network
    BY <2>3 DEF Network, Segment, DataArrives, FinArrives, DataAcked, FinAcked, ResetArrives,
                TimeWaitOver
  <2>4. CASE GrowQuiet \/ EngineDropped
    BY <2>4 DEF GrowQuiet, EngineDropped, End
  <2>5. CASE Poll
    <3>1. CASE Receive
      BY <3>1 DEF Receive, End, Consume, TurnLeft
    <3>2. CASE Send
      BY <3>2 DEF Send, TurnLeft
    <3> QED
      BY <2>5, <3>1, <3>2 DEF Poll, BeginPoll, ReceiveDone, ShutdownBridge, EndPoll, End
  <2> QED  BY <2>1, <2>2, <2>3, <2>4, <2>5 DEF Next
<1>3. TypeOK /\ [Next]_vars => FlagsTyped'
  <2> SUFFICES ASSUME FlagsTyped, [Next]_vars PROVE FlagsTyped'
    BY DEF TypeOK
  <2> USE DEF FlagsTyped, TcpStates, Endings
  <2>1. CASE UNCHANGED vars
    BY <2>1 DEF vars
  <2>2. CASE Client
    BY <2>2 DEF Client, ClientWrite, ClientRead, ClientShutdown, ClientDrop
  <2>3. CASE Network
    <3>1. CASE DataArrives \/ DataAcked
      BY <3>1 DEF DataArrives, DataAcked, Segment
    <3>2. CASE FinArrives \/ FinAcked
      <4>1. tcp' \in TcpStates
        BY <3>2 DEF FinArrives, FinAcked, Receiving
      <4>2. finished' \in BOOLEAN /\ UNCHANGED <<client, flags, clock, pc, ending, reset, idle_timeout>>
        BY <3>2 DEF FinArrives, FinAcked, Segment
      <4> QED  BY <4>1, <4>2
    <3>3. CASE ResetArrives \/ TimeWaitOver
      BY <3>3 DEF ResetArrives, TimeWaitOver, Segment
    <3> QED  BY <2>3, <3>1, <3>2, <3>3 DEF Network
  <2>4. CASE GrowQuiet \/ EngineDropped
    BY <2>4 DEF GrowQuiet, EngineDropped, End
  <2>5. CASE Poll
    <3>1. CASE BeginPoll
      BY <3>1 DEF BeginPoll, End
    <3>2. CASE Receive
      BY <3>2 DEF Receive, End
    <3>3. CASE ReceiveDone
      BY <3>3 DEF ReceiveDone
    <3>6. CASE ShutdownBridge
      <4>1. write_closed' \in BOOLEAN
        BY <3>6 DEF ShutdownBridge
      <4>2. pc' = "send" /\ UNCHANGED <<client, tcp, read_closed, clock, history, idle_timeout>>
        BY <3>6 DEF ShutdownBridge
      <4> QED  BY <4>1, <4>2
    <3>4. CASE Send
      <4>1. tcp' \in TcpStates
        BY <3>4 DEF Send, Close
      <4>2. quiet' \in BOOLEAN /\ read_closed' \in BOOLEAN
        BY <3>4 DEF Send
      <4>3. UNCHANGED <<client, write_closed, lingered, pc, history, idle_timeout>>
        BY <3>4 DEF Send
      <4> QED  BY <4>1, <4>2, <4>3
    <3>5. CASE EndPoll
      BY <3>5 DEF EndPoll, End
    <3> QED  BY <2>5, <3>1, <3>2, <3>3, <3>6, <3>4, <3>5 DEF Poll
  <2> QED  BY <2>1, <2>2, <2>3, <2>4, <2>5 DEF Next
<1> QED  BY <1>1, <1>2, <1>3, PTL DEF Spec, TypeOK

\* Socket, pipe and flags agree about both streams, whatever the client, the
\* server and the clock do.
THEOREM FlowConsistent == Spec => []FlowInvariant
<1>1. Init => FlowInvariant
  BY DEF Init, FlowInvariant, NothingLost, FinAfterData, FlagsFollowSocket, EndingRecorded,
         Receiving
<1>2. TypeOK /\ FlowInvariant /\ [Next]_vars => FlowInvariant'
  <2> SUFFICES ASSUME TypeOK, FlowInvariant, [Next]_vars PROVE FlowInvariant'
    OBVIOUS
  <2> USE FlowAssumption DEF FlowAssumption, TypeOK, BytesTyped, FlagsTyped, TcpStates, FlowInvariant, NothingLost, FinAfterData,
              FlagsFollowSocket, EndingRecorded, Receiving
  <2>1. CASE UNCHANGED vars
    BY <2>1 DEF vars
  <2>2. CASE Client
    <3>1. CASE ClientWrite
      BY <3>1 DEF ClientWrite
    <3>2. CASE ClientRead
      BY <3>2 DEF ClientRead
    <3>3. CASE ClientShutdown \/ ClientDrop
      BY <3>3 DEF ClientShutdown, ClientDrop
    <3> QED  BY <2>2, <3>1, <3>2, <3>3 DEF Client
  <2>3. CASE Network
    <3>1. CASE DataArrives
      BY <3>1 DEF DataArrives, Segment
    <3>2. CASE FinArrives
      BY <3>2 DEF FinArrives, Segment
    <3>3. CASE DataAcked
      BY <3>3 DEF DataAcked, Segment
    <3>4. CASE FinAcked
      BY <3>4 DEF FinAcked, Segment
    <3>5. CASE ResetArrives
      BY <3>5 DEF ResetArrives, Segment
    <3>6. CASE TimeWaitOver
      BY <3>6 DEF TimeWaitOver, Segment
    <3> QED  BY <2>3, <3>1, <3>2, <3>3, <3>4, <3>5, <3>6 DEF Network
  <2>4. CASE GrowQuiet \/ EngineDropped
    BY <2>4 DEF GrowQuiet, EngineDropped, End
  <2>5. CASE Poll
    <3>1. CASE BeginPoll
      BY <3>1 DEF BeginPoll, End
    <3>2. CASE Receive
      BY <3>2 DEF Receive, End, Consume
    <3>3. CASE ReceiveDone
      BY <3>3 DEF ReceiveDone
    <3>4. CASE ShutdownBridge
      BY <3>4 DEF ShutdownBridge, MayRecv
    <3>5. CASE Send
      BY <3>5 DEF Send, Close, CanSend, UpstreamEnd
    <3>6. CASE EndPoll
      BY <3>6 DEF EndPoll, End, Over
    <3> QED  BY <2>5, <3>1, <3>2, <3>3, <3>4, <3>5, <3>6 DEF Poll
  <2> QED  BY <2>1, <2>2, <2>3, <2>4, <2>5 DEF Next
<1> QED  BY <1>1, <1>2, FlowTypes, PTL DEF Spec

\* No byte is lost or doubled between server and client.
THEOREM NothingLostTheorem == Spec => []NothingLost
<1>1. FlowInvariant => NothingLost
  BY DEF FlowInvariant
<1> QED  BY <1>1, FlowConsistent, PTL

\* The server hears of the end of the client's stream only after all of it.
THEOREM FinTheorem == Spec => []FinAfterData
<1>1. FlowInvariant => FinAfterData
  BY DEF FlowInvariant
<1> QED  BY <1>1, FlowConsistent, PTL

\* A client that still sends meets a clean end of the stream only after all of it.
THEOREM EofTheorem == Spec => []CleanEof
<1>1. TypeOK /\ FlowInvariant => CleanEof
  BY DEF TypeOK, BytesTyped, FlagsTyped, FlowInvariant, CleanEof, ClientEof, NothingLost, FlagsFollowSocket,
         EndingRecorded, Receiving, TcpStates
<1> QED  BY <1>1, FlowTypes, FlowConsistent, PTL
=============================================================================
