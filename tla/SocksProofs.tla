----------------------------- MODULE SocksProofs -----------------------------
(***************************************************************************)
(* Proofs of the safety properties of Socks.  What concerns one client is  *)
(* gathered in ClientOK; a step of one task leaves every other client      *)
(* alone, and a step of the tunnel moves requests forward only.  That no   *)
(* permit is lost is an argument about the cardinality of `live`.          *)
(***************************************************************************)
EXTENDS Socks, FiniteSetTheorems, SequenceTheorems, TLAPS

USE SocksAssumption DEF SocksAssumption

Statuses == {"idle", "waiting", "failed", "cancelled", "open", "closed"}
LiveStates == {"greeting", "request", "connecting", "copying"}

\* TypeOK but for the upper bound of permits, which needs PermitsKept.
Typed ==
    /\ link \in Nat /\ status \in [Clients -> Statuses]
    /\ serving \in {"top", "select", "joining", "returned"} /\ shutdown \in BOOLEAN
    /\ permits \in Nat
    /\ task \in [Clients -> TaskStates]
    /\ sent \in [Clients -> Seq(0 .. 255)]

\* The part of the invariant about one client.
ClientOK(c) ==
    /\ task[c] \in {"none", "refused", "greeting"} => sent[c] = <<>>
    /\ task[c] \in {"request", "connecting"} => sent[c] = <<0>>
    /\ task[c] \in {"none", "refused", "greeting", "request"} => status[c] = "idle"
    /\ task[c] = "copying" => status[c] \in {"open", "closed"}
    /\ task[c] = "ended" => status[c] # "waiting"
    /\ Len(sent[c]) = 2 =>
         /\ task[c] \in {"copying", "ended"}
         /\ sent[c][1] = 0
         /\ sent[c][2] = 0 <=> status[c] \in {"open", "closed"}

\* The step concerns client c only.
Only(c) ==
    \A d \in Clients \ {c} : task'[d] = task[d] /\ sent'[d] = sent[d] /\ status'[d] = status[d]

-----------------------------------------------------------------------------
(* The tunnel. *)

\* A step of the tunnel answers a waiting request or ends an open stream.
LEMMA TunnelMoves ==
    ASSUME Typed, TunnelStep
    PROVE  /\ link' \in Nat /\ status' \in [Clients -> Statuses]
           /\ \A c \in Clients :
                \/ status'[c] = status[c]
                \/ status[c] = "waiting" /\ status'[c] \in {"failed", "open", "closed"}
                \/ status[c] = "open" /\ status'[c] = "closed"
<1> USE DEF Typed, Statuses
<1>1. ASSUME NEW n \in 0 .. MaxLink, link' = n, Tunnel!Relink
      PROVE  /\ link' \in Nat /\ status' \in [Clients -> Statuses]
             /\ \A c \in Clients :
                  \/ status'[c] = status[c]
                  \/ status[c] = "waiting" /\ status'[c] \in {"failed", "open", "closed"}
                  \/ status[c] = "open" /\ status'[c] = "closed"
  BY <1>1 DEF Tunnel!Relink
<1>2. ASSUME NEW c \in Clients, Tunnel!Fail(c) \/ Tunnel!Open(c) \/ Tunnel!Close(c)
      PROVE  /\ link' \in Nat /\ status' \in [Clients -> Statuses]
             /\ \A d \in Clients :
                  \/ status'[d] = status[d]
                  \/ status[d] = "waiting" /\ status'[d] \in {"failed", "open", "closed"}
                  \/ status[d] = "open" /\ status'[d] = "closed"
  BY <1>2 DEF Tunnel!Fail, Tunnel!Open, Tunnel!Close, Tunnel!Becomes
<1> QED
  BY <1>1, <1>2 DEF TunnelStep

\* Moving requests forward disturbs no client (Tunnel::connect, netstack.rs:140-151).
LEMMA TunnelKeepsClients ==
    ASSUME Typed, TunnelStep, \A c \in Clients : ClientOK(c)
    PROVE  \A c \in Clients : ClientOK(c)'
<1> SUFFICES ASSUME NEW c \in Clients PROVE ClientOK(c)'
  OBVIOUS
<1>1. task' = task /\ sent' = sent
  BY DEF TunnelStep
<1>2. \/ status'[c] = status[c]
      \/ status[c] = "waiting" /\ status'[c] \in {"failed", "open", "closed"}
      \/ status[c] = "open" /\ status'[c] = "closed"
  BY TunnelMoves
<1>3. status[c] = "waiting" => Len(sent[c]) # 2
  BY DEF ClientOK, Typed, TaskStates
<1> QED
  BY <1>1, <1>2, <1>3 DEF ClientOK

-----------------------------------------------------------------------------
(* One task. *)

\* What appending one code to the bytes sent does (reply, socks.rs:145-164).
LEMMA SendEffect ==
    ASSUME Typed, NEW c \in Clients, NEW code \in 0 .. 255, Send(c, code)
    PROVE  /\ sent' \in [Clients -> Seq(0 .. 255)]
           /\ \A d \in Clients \ {c} : sent'[d] = sent[d]
           /\ sent[c] = <<>> => sent'[c] = <<code>>
           /\ sent[c] = <<0>> => sent'[c] = <<0, code>>
<1>1. sent' = [sent EXCEPT ![c] = Append(sent[c], code)]
  BY DEF Send
<1>2. Append(sent[c], code) \in Seq(0 .. 255)
  BY DEF Typed
<1>3. sent'[c] = Append(sent[c], code)
  BY <1>1 DEF Typed
<1>4. sent[c] = <<>> => sent'[c] = <<code>>
  BY <1>3
<1>5. ASSUME sent[c] = << 0 >> PROVE sent'[c] = <<0, code>>
  <2>1. sent'[c] = Append(<<0>>, code)
    BY <1>3, <1>5
  <2>2. Append(<<0>>, code) = <<0, code>>
    <3>1. <<0>> \in Seq(0 .. 255) /\ <<0, code>> \in Seq(0 .. 255)
      OBVIOUS
    <3>2. Append(<<0>>, code) \in Seq(0 .. 255) /\ Len(Append(<<0>>, code)) = 2
      BY <3>1
    <3>3. Append(<<0>>, code)[1] = 0 /\ Append(<<0>>, code)[2] = code
      BY <3>1
    <3>4. \A i \in 1 .. Len(Append(<<0>>, code)) : Append(<<0>>, code)[i] = <<0, code>>[i]
      BY <3>2, <3>3
    <3> QED
      BY <3>1, <3>2, <3>4, SeqEqual
  <2> QED
    BY <2>1, <2>2
<1> QED
  BY <1>1, <1>2, <1>4, <1>5 DEF Typed

\* The first code sent is the method, the second the reply (socks.rs:90-96, 145-164).
LEMMA SendFirst ==
    ASSUME Typed, NEW c \in Clients, NEW code \in 0 .. 255, Send(c, code), sent[c] = <<>>
    PROVE  /\ sent' \in [Clients -> Seq(0 .. 255)]
           /\ \A d \in Clients \ {c} : sent'[d] = sent[d]
           /\ sent'[c] = <<code>>
BY SendEffect

\* The reply code is the second thing a client is sent.
LEMMA SendSecond ==
    ASSUME Typed, NEW c \in Clients, NEW code \in 0 .. 255, Send(c, code), sent[c] = << 0 >>
    PROVE  /\ sent' \in [Clients -> Seq(0 .. 255)]
           /\ \A d \in Clients \ {c} : sent'[d] = sent[d]
           /\ sent'[c] = <<0, code>>
BY SendEffect

\* A task goes on with its permit, or ends and gives it back.
Moves(c) ==
    /\ task' \in [Clients -> TaskStates]
    /\ \A d \in Clients \ {c} : task'[d] = task[d]
    /\ \/ task'[c] \in LiveStates /\ permits' = permits
       \/ task'[c] = "ended" /\ permits' = permits + 1

\* Every step of handle is one of the two (socks.rs:39-42).
LEMMA TaskMoves ==
    ASSUME Typed, NEW c \in Clients, Task(c)
    PROVE  Moves(c) /\ task[c] \in LiveStates
<1> USE DEF Typed, TaskStates, LiveStates, Moves
<1>1. ASSUME End(c) PROVE Moves(c)
  BY <1>1 DEF End
<1>2. ASSUME NEW to \in LiveStates, GoesTo(c, to) PROVE Moves(c)
  BY <1>2 DEF GoesTo
<1>3. task[c] \in LiveStates
  BY DEF Task, Handshake, Greet, ReadRequest, ReplyResult, CopyDone, Abort, Step, live
<1>4. End(c) \/ \E to \in LiveStates : GoesTo(c, to)
  BY DEF Task, Handshake, Greet, ReadRequest, ReplyResult, CopyDone, Abort
<1> QED
  BY <1>1, <1>2, <1>3, <1>4

-----------------------------------------------------------------------------
\* The greeting (socks.rs:82-96).
LEMMA GreetKeeps ==
    ASSUME Typed, NEW c \in Clients, ClientOK(c), Greet(c)
    PROVE  Typed' /\ Only(c) /\ ClientOK(c)'
<1> USE DEF Step
<1>1. Moves(c)
  BY TaskMoves DEF Task, Handshake
<1>2. sent[c] = <<>> /\ status[c] = "idle" /\ link' = link /\ status' = status
  BY DEF Greet, ClientOK, tunnelVars
<1>3. CASE Send(c, 0) /\ GoesTo(c, "request")
  <2> USE 0 \in 0 .. 255
  <2>1. task'[c] = "request"
    BY <1>3 DEF GoesTo, Typed
  <2>2. sent'[c] = <<0>> /\ sent' \in [Clients -> Seq(0 .. 255)] /\ Only(c)
    <3>1. /\ sent' \in [Clients -> Seq(0 .. 255)]
          /\ \A d \in Clients \ {c} : sent'[d] = sent[d]
          /\ sent'[c] = <<0>>
      BY <1>2, <1>3, SendFirst
    <3>2. Only(c)
      BY <1>1, <1>2, <1>3, <3>1 DEF Only, Moves
    <3> QED
      BY <3>1, <3>2
  <2>3. ClientOK(c)'
    BY <2>1, <2>2, <1>2 DEF ClientOK
  <2> QED
    BY <1>1, <1>2, <2>2, <2>3 DEF Typed, Moves, Greet
<1>4. ASSUME NEW code \in 0 .. 255, Send(c, code), End(c)
      PROVE  Typed' /\ Only(c) /\ ClientOK(c)'
  <2>1. task'[c] = "ended"
    BY <1>4 DEF End, Typed
  <2>2. sent'[c] = <<code>> /\ sent' \in [Clients -> Seq(0 .. 255)] /\ Only(c)
    <3>1. /\ sent' \in [Clients -> Seq(0 .. 255)]
          /\ \A d \in Clients \ {c} : sent'[d] = sent[d]
          /\ sent'[c] = <<code>>
      BY <1>2, <1>4, SendFirst
    <3>2. Only(c)
      BY <1>1, <1>2, <1>4, <3>1 DEF Only, Moves
    <3> QED
      BY <3>1, <3>2
  <2>3. ClientOK(c)'
    BY <2>1, <2>2, <1>2 DEF ClientOK
  <2> QED
    BY <1>1, <1>2, <2>2, <2>3 DEF Typed, Moves, Greet
<1>5. CASE UNCHANGED sent /\ End(c)
  <2>1. task'[c] = "ended"
    BY <1>5 DEF End, Typed
  <2>2. ClientOK(c)' /\ Only(c)
    BY <2>1, <1>1, <1>2, <1>5 DEF ClientOK, Only, Moves
  <2> QED
    BY <1>1, <1>2, <1>5, <2>2 DEF Typed, Moves, Greet
<1>6. 255 \in 0 .. 255
  OBVIOUS
<1> QED
  BY <1>3, <1>4, <1>5, <1>6 DEF Greet

\* The request (socks.rs:97-142): it reaches the tunnel, or the task ends.
LEMMA RequestKeeps ==
    ASSUME Typed, NEW c \in Clients, ClientOK(c), ReadRequest(c)
    PROVE  Typed' /\ Only(c) /\ ClientOK(c)'
<1> USE DEF Step
<1>1. Moves(c)
  BY TaskMoves DEF Task, Handshake
<1>2. sent[c] = <<0>> /\ status[c] = "idle"
  BY DEF ReadRequest, ClientOK
<1>3. CASE (Tunnel!Request(c) \/ Tunnel!Reject(c)) /\ GoesTo(c, "connecting") /\ UNCHANGED sent
  <2>1. task'[c] = "connecting"
    BY <1>3 DEF GoesTo, Typed
  <2>2. /\ link' = link /\ status' \in [Clients -> Statuses]
        /\ status'[c] \in {"waiting", "failed"}
        /\ \A d \in Clients \ {c} : status'[d] = status[d]
    BY <1>3 DEF Tunnel!Request, Tunnel!Reject, Tunnel!Becomes, Typed, Statuses
  <2>3. ClientOK(c)' /\ Only(c)
    BY <2>1, <2>2, <1>1, <1>2, <1>3 DEF ClientOK, Only, Moves
  <2> QED
    BY <1>1, <1>3, <2>2, <2>3 DEF Typed, Moves, ReadRequest
<1>4. ASSUME NEW code \in Refusals, Send(c, code), End(c), UNCHANGED tunnelVars
      PROVE  Typed' /\ Only(c) /\ ClientOK(c)'
  <2>1. task'[c] = "ended" /\ link' = link /\ status' = status
    BY <1>4 DEF End, Typed, tunnelVars
  <2>2. code \in 0 .. 255 /\ code # 0
    BY DEF RefusalCodes
  <2>3. sent'[c] = <<0, code>> /\ sent' \in [Clients -> Seq(0 .. 255)] /\ Only(c)
    <3>1. /\ sent' \in [Clients -> Seq(0 .. 255)]
          /\ \A d \in Clients \ {c} : sent'[d] = sent[d]
          /\ sent'[c] = <<0, code>>
      BY <1>2, <1>4, <2>1, <2>2, SendSecond
    <3>2. Only(c)
      BY <1>1, <1>2, <1>4, <2>1, <2>2, <3>1 DEF Only, Moves
    <3> QED
      BY <3>1, <3>2
  <2>4. ClientOK(c)'
    BY <2>1, <2>2, <2>3, <1>2 DEF ClientOK
  <2> QED
    BY <1>1, <2>1, <2>3, <2>4 DEF Typed, Moves, ReadRequest
<1>5. CASE UNCHANGED <<sent, tunnelVars>> /\ End(c)
  <2>1. task'[c] = "ended" /\ link' = link /\ status' = status /\ sent' = sent
    BY <1>5 DEF End, Typed, tunnelVars
  <2>2. ClientOK(c)' /\ Only(c)
    BY <2>1, <1>1, <1>2 DEF ClientOK, Only, Moves
  <2> QED
    BY <1>1, <2>1, <2>2 DEF Typed, Moves, ReadRequest
<1> QED
  BY <1>3, <1>4, <1>5 DEF ReadRequest

\* The reply (socks.rs:58-73): zero exactly for a stream.
LEMMA ReplyKeeps ==
    ASSUME Typed, NEW c \in Clients, ClientOK(c), ReplyResult(c)
    PROVE  Typed' /\ Only(c) /\ ClientOK(c)'
<1> USE DEF Step
<1>1. Moves(c)
  BY TaskMoves DEF Task
<1>2. sent[c] = <<0>> /\ link' = link /\ status' = status
  BY DEF ReplyResult, ClientOK, tunnelVars
<1>3. CASE Connected(c) /\ Send(c, 0) /\ GoesTo(c, "copying")
  <2> USE 0 \in 0 .. 255
  <2>1. task'[c] = "copying" /\ status'[c] \in {"open", "closed"}
    BY <1>2, <1>3 DEF GoesTo, Typed, Connected
  <2>2. sent'[c] = <<0, 0>> /\ sent' \in [Clients -> Seq(0 .. 255)] /\ Only(c)
    <3>1. /\ sent' \in [Clients -> Seq(0 .. 255)]
          /\ \A d \in Clients \ {c} : sent'[d] = sent[d]
          /\ sent'[c] = <<0, 0>>
      BY <1>2, <1>3, SendSecond
    <3>2. Only(c)
      BY <1>1, <1>2, <1>3, <3>1 DEF Only, Moves
    <3> QED
      BY <3>1, <3>2
  <2>3. ClientOK(c)'
    BY <2>1, <2>2 DEF ClientOK
  <2> QED
    BY <1>1, <1>2, <2>2, <2>3 DEF Typed, Moves, ReplyResult
<1>4. ASSUME status[c] = "failed", End(c), NEW kind \in Failing, Send(c, FailureCode(kind))
      PROVE  Typed' /\ Only(c) /\ ClientOK(c)'
  <2>1. task'[c] = "ended" /\ status'[c] = "failed"
    BY <1>2, <1>4 DEF End, Typed
  <2>2. PICK code : code = FailureCode(kind)
    OBVIOUS
  <2>3. code \in 0 .. 255 /\ code # 0
    BY <2>2 DEF FailureCode
  <2>4. sent'[c] = <<0, code>> /\ sent' \in [Clients -> Seq(0 .. 255)] /\ Only(c)
    <3>1. /\ sent' \in [Clients -> Seq(0 .. 255)]
          /\ \A d \in Clients \ {c} : sent'[d] = sent[d]
          /\ sent'[c] = <<0, code>>
      BY <1>2, <1>4, <2>2, <2>3, SendSecond
    <3>2. Only(c)
      BY <1>1, <1>2, <1>4, <2>2, <2>3, <3>1 DEF Only, Moves
    <3> QED
      BY <3>1, <3>2
  <2>5. ClientOK(c)'
    BY <2>1, <2>3, <2>4 DEF ClientOK
  <2> QED
    BY <1>1, <1>2, <2>4, <2>5 DEF Typed, Moves, ReplyResult
<1>5. CASE (Connected(c) \/ status[c] = "failed") /\ UNCHANGED sent /\ End(c)
  <2>1. task'[c] = "ended" /\ status'[c] # "waiting" /\ sent'[c] = <<0>>
    BY <1>2, <1>5 DEF End, Typed, Connected
  <2>2. ClientOK(c)' /\ Only(c)
    BY <2>1, <1>1, <1>2, <1>5 DEF ClientOK, Only, Moves
  <2> QED
    BY <1>1, <1>2, <1>5, <2>2 DEF Typed, Moves, ReplyResult
<1> QED
  BY <1>3, <1>4, <1>5 DEF ReplyResult

\* The end of copying (socks.rs:74-75) and abort_all (socks.rs:46-47): a request
\* still waiting is withdrawn with its task.
LEMMA EndingKeeps ==
    ASSUME Typed, NEW c \in Clients, ClientOK(c), CopyDone(c) \/ Abort(c)
    PROVE  Typed' /\ Only(c) /\ ClientOK(c)'
<1>1. Moves(c) /\ task[c] \in LiveStates
  BY TaskMoves DEF Task
<1>2. sent' = sent /\ End(c) /\ serving' = serving /\ shutdown' = shutdown
  BY DEF CopyDone, Abort, Step
<1>3. task'[c] = "ended"
  BY <1>2 DEF End, Typed
<1>4. /\ link' = link /\ status' \in [Clients -> Statuses]
      /\ \A d \in Clients \ {c} : status'[d] = status[d]
      /\ status'[c] = IF status[c] = "waiting" THEN "cancelled" ELSE status[c]
  <2>1. CASE CopyDone(c)
    BY <2>1 DEF CopyDone, Step, tunnelVars, ClientOK, Typed
  <2>2. CASE Abort(c) /\ status[c] = "waiting"
    BY <2>2 DEF Abort, Withdraw, Tunnel!Withdraw, Tunnel!Becomes, Typed, Statuses
  <2>3. CASE Abort(c) /\ status[c] # "waiting"
    BY <2>3 DEF Abort, Withdraw, tunnelVars, Typed
  <2> QED
    BY <2>1, <2>2, <2>3
<1>5. Len(sent[c]) = 2 => task[c] = "copying"
  BY <1>1 DEF ClientOK, LiveStates
<1>6. ClientOK(c)'
  BY <1>2, <1>3, <1>4, <1>5 DEF ClientOK
<1> QED
  BY <1>1, <1>2, <1>4, <1>6 DEF Typed, Moves, Only

-----------------------------------------------------------------------------
(* The permits. *)

\* The tasks that live are finitely many.
LEMMA LiveFinite == IsFiniteSet(live) /\ Cardinality(live) \in Nat
<1>1. live \in SUBSET Clients
  BY DEF live
<1> QED
  BY <1>1, FS_Subset, FS_CardinalityType

\* A task that goes on keeps its permit, one that ends gives it back (socks.rs:40).
LEMMA TaskKeepsPermits ==
    ASSUME Typed, NEW c \in Clients, Task(c), PermitsKept
    PROVE  PermitsKept'
<1>1. Moves(c) /\ c \in live
  BY TaskMoves DEF live, LiveStates
<1>2. CASE task'[c] \in LiveStates /\ permits' = permits
  <2>1. live' = live
    BY <1>1, <1>2 DEF live, LiveStates, Moves
  <2> QED
    BY <1>2, <2>1 DEF PermitsKept
<1>3. CASE task'[c] = "ended" /\ permits' = permits + 1
  <2>1. live' = live \ {c}
    BY <1>1, <1>3 DEF live, LiveStates, Moves
  <2>2. Cardinality(live') = Cardinality(live) - 1
    BY <1>1, <2>1, LiveFinite, FS_RemoveElement
  <2> QED
    BY <1>3, <2>2, LiveFinite DEF PermitsKept, Typed
<1> QED
  BY <1>1, <1>2, <1>3 DEF Moves

\* Accepting a client takes a permit for it, or turns it away (socks.rs:35-43).
LEMMA AcceptKeeps ==
    ASSUME Typed, NEW c \in Clients, Accept(c), PermitsKept,
           \A d \in Clients : ClientOK(d)
    PROVE  /\ Typed' /\ PermitsKept'
           /\ \A d \in Clients : ClientOK(d)'
<1> USE DEF Accept, Typed, TaskStates
<1>1. CASE PermitFree /\ permits' = permits - 1 /\ task' = [task EXCEPT ![c] = "greeting"]
  <2>1. permits' \in Nat
    BY <1>1 DEF PermitFree
  <2>2. live' = live \cup {c} /\ c \notin live
    BY <1>1 DEF live
  <2>3. Cardinality(live') = Cardinality(live) + 1
    BY <2>2, LiveFinite, FS_AddElement
  <2>4. PermitsKept'
    BY <1>1, <2>3, LiveFinite DEF PermitsKept
  <2>5. \A d \in Clients : ClientOK(d)'
    BY <1>1 DEF ClientOK, tunnelVars
  <2>6. task' \in [Clients -> TaskStates]
    BY <1>1
  <2> QED
    BY <2>1, <2>4, <2>5, <2>6 DEF tunnelVars
<1>2. CASE task' = [task EXCEPT ![c] = "refused"] /\ UNCHANGED permits
  <2>1. live' = live
    BY <1>2 DEF live
  <2>2. PermitsKept'
    BY <1>2, <2>1 DEF PermitsKept
  <2>3. \A d \in Clients : ClientOK(d)'
    BY <1>2 DEF ClientOK, tunnelVars
  <2>4. task' \in [Clients -> TaskStates]
    BY <1>2
  <2> QED
    BY <1>2, <2>2, <2>3, <2>4 DEF tunnelVars
<1> QED
  BY <1>1, <1>2

-----------------------------------------------------------------------------
\* The invariant of the proofs.
IInv ==
    /\ Typed /\ PermitsKept
    /\ \A c \in Clients : ClientOK(c)
    /\ serving = "returned" => live = {}

\* Nothing lives after serve has returned, and nothing comes to life then: only
\* Accept starts a task, and no task outlives the wait for all of them.
LEMMA TaskKeepsInvariant ==
    ASSUME IInv, NEW c \in Clients, Task(c)
    PROVE  IInv'
<1> USE DEF IInv
<1>1. Typed' /\ Only(c) /\ ClientOK(c)'
  BY GreetKeeps, RequestKeeps, ReplyKeeps, EndingKeeps DEF Task, Handshake
<1>2. \A d \in Clients \ {c} : ClientOK(d)'
  BY <1>1 DEF Only, ClientOK
<1>3. c \in live
  BY TaskMoves DEF live, LiveStates
<1>4. serving' = serving
  BY DEF Task, Handshake, Greet, ReadRequest, ReplyResult, CopyDone, Abort, Step
<1>5. PermitsKept'
  BY TaskKeepsPermits
<1> QED
  BY <1>1, <1>2, <1>3, <1>4, <1>5

\* Every step keeps the invariant.
LEMMA NextKeepsInvariant == IInv /\ [Next]_vars => IInv'
<1> SUFFICES ASSUME IInv, [Next]_vars PROVE IInv'
  OBVIOUS
<1> USE DEF IInv
<1>1. CASE TunnelStep
  <2>1. Typed'
    BY <1>1, TunnelMoves DEF TunnelStep, Typed
  <2>2. \A c \in Clients : ClientOK(c)'
    BY <1>1, TunnelKeepsClients
  <2> QED
    BY <1>1, <2>1, <2>2 DEF TunnelStep, PermitsKept, live
<1>2. CASE Shutdown \/ LoopTop \/ StopServing \/ Reap \/ Return
  <2>1. link' = link /\ status' = status /\ permits' = permits /\ task' = task /\ sent' = sent
    BY <1>2 DEF Shutdown, LoopTop, StopServing, Reap, Return, tunnelVars
  <2>2. /\ serving' \in {"top", "select", "joining", "returned"}
        /\ shutdown' \in BOOLEAN
        /\ serving' = "returned" => live = {}
    BY <1>2 DEF Shutdown, LoopTop, StopServing, Reap, Return, AllJoined, Typed
  <2>3. Typed'
    BY <2>1, <2>2 DEF Typed
  <2>4. PermitsKept' /\ live' = live /\ \A c \in Clients : ClientOK(c)'
    BY <2>1 DEF PermitsKept, live, ClientOK
  <2> QED
    BY <2>2, <2>3, <2>4
<1>3. ASSUME NEW c \in Clients, Accept(c) PROVE IInv'
  <2>1. serving' = "top"
    BY <1>3 DEF Accept
  <2> QED
    BY <1>3, <2>1, AcceptKeeps
<1>4. ASSUME NEW c \in Clients, Task(c) PROVE IInv'
  BY <1>4, TaskKeepsInvariant
<1>5. CASE UNCHANGED vars
  BY <1>5 DEF vars, tunnelVars, Typed, PermitsKept, live, ClientOK
<1> QED
  BY <1>1, <1>2, <1>3, <1>4, <1>5 DEF Next, Serve

\* It holds when serve starts.
LEMMA InitInvariant == Init => IInv
<1> SUFFICES ASSUME Init PROVE IInv
  OBVIOUS
<1> USE DEF Init, Tunnel!Init
<1>1. live = {}
  BY DEF live
<1>2. PermitsKept
  BY <1>1, FS_EmptySet DEF PermitsKept
<1>3. Typed
  <2>1. permits \in Nat /\ link \in Nat
    OBVIOUS
  <2>2. shutdown \in BOOLEAN
    OBVIOUS
  <2>3. sent \in [Clients -> Seq(0 .. 255)]
    OBVIOUS
  <2> QED
    BY <2>1, <2>2, <2>3 DEF Typed, Statuses, TaskStates
<1>4. \A c \in Clients : ClientOK(c)
  BY DEF ClientOK
<1> QED
  BY <1>1, <1>2, <1>3, <1>4 DEF IInv

\* The invariant holds at all times.
LEMMA InvariantHolds == Spec => []IInv
BY InitInvariant, NextKeepsInvariant, PTL DEF Spec

\* The types, and the bounds of the semaphore (socks.rs:24).
THEOREM SocksTypes == Spec => []TypeOK
<1>1. IInv => TypeOK
  <2> SUFFICES ASSUME IInv PROVE TypeOK
    OBVIOUS
  <2>1. permits \in 0 .. Limit
    BY LiveFinite DEF IInv, Typed, PermitsKept
  <2> QED
    BY <2>1 DEF IInv, Typed, Statuses, TypeOK
<1> QED
  BY <1>1, InvariantHolds, PTL

\* Permits, replies and the end of serve go together with where each task is.
THEOREM SocksConsistent == Spec => []SocksInvariant
<1>1. IInv => SocksInvariant
  <2> SUFFICES ASSUME IInv PROVE SocksInvariant
    OBVIOUS
  <2>1. TaskProgress /\ RepliesAreTrue
    BY DEF IInv, ClientOK, TaskProgress, RepliesAreTrue
  <2>2. NothingOutlivesServe
    <3> SUFFICES ASSUME serving = "returned", NEW c \in Clients PROVE status[c] # "waiting"
      BY DEF IInv, NothingOutlivesServe
    <3>1. task[c] \in {"none", "refused", "ended"}
      BY DEF IInv, live, Typed, TaskStates
    <3> QED
      BY <3>1 DEF IInv, ClientOK
  <2> QED
    BY <2>1, <2>2 DEF IInv, SocksInvariant
<1> QED
  BY <1>1, InvariantHolds, PTL

\* The permits in use are the tasks that live: the limit is kept and none leaks.
THEOREM PermitsTheorem == Spec => []PermitsKept
BY SocksConsistent, PTL DEF SocksInvariant

\* Success is reported exactly for a connection that was established.
THEOREM RepliesTheorem == Spec => []RepliesAreTrue
BY SocksConsistent, PTL DEF SocksInvariant

\* Neither a task nor a request survives serve.
THEOREM ServeTheorem == Spec => []NothingOutlivesServe
BY SocksConsistent, PTL DEF SocksInvariant
=============================================================================
