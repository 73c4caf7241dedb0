--------------------------- MODULE NetstackProofs ---------------------------
(***************************************************************************)
(* Theorems about Netstack, for every value of its constants: its types,   *)
(* then that EngineInvariant is an invariant (one lemma per kind of step)  *)
(* and what follows from it.                                               *)
(***************************************************************************)
EXTENDS Netstack, Induction

USE DEF channels, clients, loop, device, lookupVars, flowVars, history, MayTakeCommand

-----------------------------------------------------------------------------
(* The vectors that Engine::step scans. *)

\* swap_remove and moving on leave the requests not visited yet a vector of requests.
LEMMA ScanTyped ==
  ASSUME NEW s \in Seq(Requests), s # <<>>
  PROVE  /\ SwapRemove(s) \in Seq(Requests) /\ Tail(s) \in Seq(Requests)
         /\ Append(SwapRemove(s), Head(s)) \in Seq(Requests)
<1>1. /\ Len(s) \in Nat \ {0} /\ Len(s) - 1 \in Nat /\ DOMAIN s = 1 .. Len(s)
      /\ \A i \in 1 .. Len(s) : s[i] \in Requests
  OBVIOUS
<1>2. SwapRemove(s) \in [1 .. Len(s) - 1 -> Requests]
  BY <1>1 DEF SwapRemove
<1>3. SwapRemove(s) \in Seq(Requests)
  BY <1>1, <1>2
<1> QED  BY <1>3

\* Both leave exactly the others, each of them once.
LEMMA ScanTurn ==
  ASSUME NEW s \in Seq(Requests), s # <<>>, IsInjective(s), NEW t, t = Tail(s) \/ t = SwapRemove(s)
  PROVE  Head(s) \in ToSet(s) /\ IsInjective(t) /\ ToSet(t) = ToSet(s) \ {Head(s)}
<1> DEFINE n == Len(s)
<1>1. /\ n \in Nat /\ n >= 1 /\ DOMAIN s = 1 .. n /\ Head(s) = s[1]
      /\ \A i, j \in 1 .. n : s[i] = s[j] => i = j
  BY DEF IsInjective
<1>2. DOMAIN t = 1 .. n - 1
  BY DEF SwapRemove
<1>3. \A i \in 1 .. n - 1 : t[i] = IF t = Tail(s) THEN s[i + 1] ELSE IF i = 1 THEN s[n] ELSE s[i]
  BY DEF SwapRemove
<1> HIDE DEF n
<1> DEFINE from(i) == IF t = Tail(s) THEN i + 1 ELSE IF i = 1 THEN n ELSE i
<1>4. \A i \in 1 .. n - 1 : from(i) \in 2 .. n /\ t[i] = s[from(i)]
  BY <1>1, <1>3
<1>5. \A i, j \in 1 .. n - 1 : from(i) = from(j) => i = j
  BY <1>1
<1>6. \A k \in 2 .. n : \E i \in 1 .. n - 1 : from(i) = k
  <2> SUFFICES ASSUME NEW k \in 2 .. n PROVE \E i \in 1 .. n - 1 : from(i) = k
    OBVIOUS
  <2>1. CASE t = Tail(s)
    <3>1. k - 1 \in 1 .. n - 1 /\ from(k - 1) = k
      BY <1>1, <2>1
    <3> QED  BY <3>1
  <2>2. CASE t # Tail(s) /\ k = n
    <3>1. 1 \in 1 .. n - 1 /\ from(1) = k
      BY <1>1, <2>2
    <3> QED  BY <3>1
  <2>3. CASE t # Tail(s) /\ k # n
    <3>1. k \in 1 .. n - 1 /\ from(k) = k
      BY <1>1, <2>3
    <3> QED  BY <3>1
  <2> QED  BY <2>1, <2>2, <2>3
<1> HIDE DEF from
<1>7. \A k \in 2 .. n : k \in 1 .. n /\ k # 1
  BY <1>1
<1>8. \A k \in 1 .. n : k = 1 \/ k \in 2 .. n
  BY <1>1
<1>9. 1 \in 1 .. n
  BY <1>1
<1>10. IsInjective(t)
  <2> SUFFICES ASSUME NEW i \in 1 .. n - 1, NEW j \in 1 .. n - 1, t[i] = t[j] PROVE i = j
    BY <1>2 DEF IsInjective
  <2> QED  BY <1>1, <1>4, <1>5, <1>7
<1>11. ToSet(t) \subseteq ToSet(s) \ {Head(s)}
  <2> SUFFICES ASSUME NEW i \in 1 .. n - 1 PROVE t[i] \in ToSet(s) \ {Head(s)}
    BY <1>2 DEF ToSet
  <2> QED  BY <1>1, <1>4, <1>7, <1>9 DEF ToSet
<1>12. ToSet(s) \ {Head(s)} \subseteq ToSet(t)
  <2> SUFFICES ASSUME NEW k \in 2 .. n PROVE s[k] \in ToSet(t)
    BY <1>1, <1>8 DEF ToSet
  <2>1. PICK i \in 1 .. n - 1 : from(i) = k
    BY <1>6
  <2> QED  BY <1>2, <1>4, <2>1 DEF ToSet
<1> QED  BY <1>1, <1>9, <1>10, <1>11, <1>12 DEF ToSet

\* An entry taken out and pushed again is visited again, in its new place.
LEMMA ScanAgain ==
  ASSUME NEW s \in Seq(Requests), s # <<>>, IsInjective(s),
         NEW t, t = Append(SwapRemove(s), Head(s))
  PROVE  Head(s) \in ToSet(s) /\ IsInjective(t) /\ ToSet(t) = ToSet(s)
<1> DEFINE u == SwapRemove(s)
<1>1. u \in Seq(Requests) /\ Head(s) \in ToSet(s) /\ IsInjective(u) /\ ToSet(u) = ToSet(s) \ {Head(s)}
  BY ScanTyped, ScanTurn
<1> HIDE DEF u
<1>2. /\ DOMAIN t = 1 .. Len(u) + 1 /\ DOMAIN u = 1 .. Len(u) /\ Len(u) \in Nat
      /\ t[Len(u) + 1] = Head(s) /\ \A i \in 1 .. Len(u) : t[i] = u[i]
  BY <1>1 DEF u
<1>3. \A i \in 1 .. Len(u) : u[i] # Head(s)
  BY <1>1, <1>2 DEF ToSet
<1>4. \A i \in DOMAIN t : i = Len(u) + 1 \/ i \in 1 .. Len(u)
  BY <1>2
<1>5. IsInjective(t)
  BY <1>1, <1>2, <1>3, <1>4 DEF IsInjective
<1>6. ToSet(t) = ToSet(u) \cup {Head(s)}
  BY <1>2, <1>4 DEF ToSet
<1> QED  BY <1>1, <1>5, <1>6

\* A scan begins with every member of its set, each of them once.
LEMMA ScanBegins ==
  ASSUME NEW S \in SUBSET Requests, NEW s \in Orders(S)
  PROVE  s \in Seq(Requests) /\ IsInjective(s) /\ ToSet(s) = S
<1>1. IsFiniteSet(S) /\ Cardinality(S) \in Nat
  BY FS_Subset, FS_CardinalityType, NetstackAssumption DEF NetstackAssumption
<1>2. /\ s \in [1 .. Cardinality(S) -> S] /\ IsInjective(s)
      /\ \A q \in S : \E i \in 1 .. Cardinality(S) : s[i] = q
  BY DEF Orders, Bijection, Injection, Surjection
<1>3. s \in Seq(S)
  BY <1>1, <1>2
<1>4. s \in Seq(Requests)
  BY <1>2, <1>1
<1>5. ToSet(s) = S
  BY <1>2 DEF ToSet
<1> QED  BY <1>2, <1>4, <1>5

-----------------------------------------------------------------------------
(* Type correctness. *)

\* The initial state is well typed.
LEMMA InitTyped == Init => TypeOK
<1> SUFFICES ASSUME Init PROVE TypeOK  OBVIOUS
<1>1. PortLo \in Ports
  BY NetstackAssumption DEF NetstackAssumption, Ports
<1>2. commands \in Seq(Commands) /\ packets \in Seq(Packets) /\ todo \in Seq(Requests)
  BY DEF Init
<1> QED
  BY <1>1, <1>2 DEF Init, TypeOK, Replies, TcpStates

\* Answering a request records an outcome callers know.
LEMMA AnswerTyped ==
  ASSUME reply \in [Requests -> Replies], NEW r, NEW outcome \in Replies, Answer(r, outcome)
  PROVE  reply' \in [Requests -> Replies]
  BY DEF Answer

\* connect_ip leaves well-typed replies, flows and port counter.
LEMMA ConnectIpTyped ==
  ASSUME TypeOK, NEW r \in Requests, NEW a \in Addresses, ConnectIp(r, a)
  PROVE  /\ reply' \in [Requests -> Replies] /\ tcp' \in [Requests -> TcpStates]
         /\ port' \in [Requests -> Ports \cup {0}] /\ next_port' \in Ports
<1>1. CASE Answer(r, "NetworkUnreachable") /\ UNCHANGED flowVars
  BY <1>1, AnswerTyped DEF TypeOK, Replies, Failures
<1>2. CASE Answer(r, "InvalidInput") /\ UNCHANGED flowVars
  BY <1>2, AnswerTyped DEF TypeOK, Replies, Failures
<1>3. ASSUME NEW p \in Ports, next_port' = Successor(p),
             \/ /\ tcp' = [tcp EXCEPT ![r] = "SynSent"] /\ port' = [port EXCEPT ![r] = p]
                /\ UNCHANGED reply
             \/ Answer(r, "Other") /\ UNCHANGED <<tcp, port>>
      PROVE  /\ reply' \in [Requests -> Replies] /\ tcp' \in [Requests -> TcpStates]
             /\ port' \in [Requests -> Ports \cup {0}] /\ next_port' \in Ports
  <2>1. next_port' \in Ports
    BY <1>3, NetstackAssumption DEF NetstackAssumption, Successor, Ports
  <2>2. CASE Answer(r, "Other") /\ UNCHANGED <<tcp, port>>
    BY <2>1, <2>2, AnswerTyped DEF TypeOK, Replies, Failures
  <2>3. CASE /\ tcp' = [tcp EXCEPT ![r] = "SynSent"] /\ port' = [port EXCEPT ![r] = p]
             /\ UNCHANGED reply
    BY <2>1, <2>3 DEF TypeOK, TcpStates
  <2> QED  BY <1>3, <2>2, <2>3
<1> QED  BY <1>1, <1>2, <1>3 DEF ConnectIp

\* Handing a packet to its socket keeps the socket's state among the known ones.
LEMMA DeliverTyped ==
  ASSUME TypeOK, NEW p \in Packets, Deliver(p)
  PROVE  /\ dns' \in [Slots -> {"free", "pending"} \cup Answers]
         /\ tcp' \in [Requests -> TcpStates]
  BY DEF TypeOK, Deliver, Packets, AfterSegment, TcpStates

\* Taking a packet off the channel keeps everything well typed.
LEMMA PacketArrivesTyped ==
  ASSUME TypeOK, packets # <<>>, PacketArrives
  PROVE  /\ packets' \in Seq(Packets)
         /\ dns' \in [Slots -> {"free", "pending"} \cup Answers]
         /\ tcp' \in [Requests -> TcpStates]
<1>1. Head(packets) \in Packets /\ Tail(packets) \in Seq(Packets)
  BY DEF TypeOK
<1>2. CASE Deliver(Head(packets))
  BY <1>1, <1>2, DeliverTyped DEF PacketArrives
<1> QED  BY <1>1, <1>2 DEF PacketArrives, TypeOK

\* A fresh DNS query takes a slot of the table.
LEMMA StartQueryTyped ==
  ASSUME TypeOK, NEW r \in Requests, NEW more \in BOOLEAN,
         NEW d \in [Slots -> {"free", "pending"} \cup Answers], StartQuery(r, d, more)
  PROVE  /\ slot' \in [Requests -> Slots \cup {0}] /\ fallback' \in [Requests -> BOOLEAN]
         /\ dns' \in [Slots -> {"free", "pending"} \cup Answers]
<1>1. PICK s \in Slots : /\ slot' = [slot EXCEPT ![r] = s]
                         /\ dns' = [d EXCEPT ![s] = "pending"]
                         /\ fallback' = [fallback EXCEPT ![r] = more]
  BY DEF StartQuery
<1> QED  BY <1>1 DEF TypeOK

\* Hanging up leaves callers with a known outcome.
LEMMA HangUpTyped ==
  ASSUME reply \in [Requests -> Replies], NEW who, HangUp(who)
  PROVE  reply' \in [Requests -> Replies]
  BY DEF HangUp, Replies, Failures

\* An engine that is dropped leaves an empty, well-typed one.
LEMMA DiscardEngineTyped ==
  ASSUME DiscardEngine
  PROVE  /\ failed' \in BOOLEAN /\ expired' = {} /\ late' = {} /\ drained' = 0
         /\ todo' = <<>> /\ todo' \in Seq(Requests)
         /\ slot' \in [Requests -> Slots \cup {0}] /\ fallback' \in [Requests -> BOOLEAN]
         /\ dns' \in [Slots -> {"free", "pending"} \cup Answers]
         /\ tcp' \in [Requests -> TcpStates] /\ port' \in [Requests -> Ports \cup {0}]
<1>1. todo' = <<>> /\ <<>> \in Seq(Requests)
  BY DEF DiscardEngine
<1> QED  BY <1>1 DEF DiscardEngine, TcpStates

\* EngineNone likewise, settings and port counter included.
LEMMA EngineNoneTyped ==
  ASSUME EngineNone
  PROVE  /\ engine' \in Nat /\ settings' \in OfferedSettings \cup {NoSettings}
         /\ next_port' \in Ports /\ DiscardEngine
  BY NetstackAssumption DEF NetstackAssumption, EngineNone, Ports

\* Every step of the callers and of the VPN adapter keeps the state well typed.
LEMMA OutsideTyped == TypeOK /\ (Callers \/ Adapter \/ DropWorker \/ Clock) => TypeOK'
<1> SUFFICES ASSUME TypeOK, Callers \/ Adapter \/ DropWorker \/ Clock PROVE TypeOK'
  OBVIOUS
<1>1. ASSUME NEW r \in Requests, NEW t \in Targets, TunnelConnect(r, t) PROVE TypeOK'
  <2>1. [op |-> "connect", req |-> r, target |-> t] \in Commands
    BY DEF Commands
  <2>2. commands' \in Seq(Commands)
    <3>1. CASE pc = "stopped"
      BY <1>1, <3>1 DEF TunnelConnect, TypeOK
    <3>2. CASE commands' = Append(commands, [op |-> "connect", req |-> r, target |-> t])
      BY <2>1, <3>2 DEF TypeOK
    <3> QED  BY <1>1, <3>1, <3>2 DEF TunnelConnect
  <2>3. reply' \in [Requests -> Replies]
    BY <1>1 DEF TunnelConnect, TypeOK, Replies, Failures
  <2> QED  BY <1>1, <2>2, <2>3 DEF TunnelConnect, TypeOK
<1>2. ASSUME NEW r \in Requests, Cancel(r) PROVE TypeOK'
  BY <1>2 DEF Cancel, TypeOK, Replies
<1>3. ASSUME NEW s \in OfferedSettings, TunnelOnline(s) PROVE TypeOK'
  <2>1. [op |-> "online", gen |-> generation + 1, settings |-> s] \in Commands
    BY DEF Commands, TypeOK
  <2> QED  BY <1>3, <2>1 DEF TunnelOnline, TypeOK
<1>4. ASSUME NEW g \in 0 .. generation, TunnelOffline(g) PROVE TypeOK'
  <2>1. [op |-> "offline", gen |-> g] \in Commands
    BY DEF Commands, TypeOK
  <2> QED  BY <1>4, <2>1 DEF TunnelOffline, TypeOK
<1>5. ASSUME NEW r \in Requests, NEW body \in Bodies, TunnelReceive(r, body) PROVE TypeOK'
  <2>1. [gen |-> generation, to |-> r, body |-> body] \in Packets
    BY DEF Packets, TypeOK
  <2>2. accepted' \subseteq Nat \X Requests
    BY <1>5 DEF TunnelReceive, TypeOK
  <2> QED  BY <1>5, <2>1, <2>2 DEF TunnelReceive, TypeOK
<1>6. CASE DropWorker
  <2>1. [op |-> "shutdown"] \in Commands
    BY DEF Commands
  <2> QED  BY <1>6, <2>1 DEF DropWorker, TypeOK
<1>7. ASSUME NEW r \in Requests, Expire(r) PROVE TypeOK'
  BY <1>7 DEF Expire, TypeOK
<1> QED
  BY <1>1, <1>2, <1>3, <1>4, <1>5, <1>6, <1>7 DEF Callers, Adapter, Clock

\* Every command keeps the state well typed.
LEMMA TakeCommandTyped == TypeOK /\ TakeCommand => TypeOK'
<1> SUFFICES ASSUME TypeOK, TakeCommand PROVE TypeOK'
  OBVIOUS
<1>0. Head(commands) \in Commands /\ Tail(commands) \in Seq(Commands)
  BY DEF TakeCommand, TypeOK
<1>1. CASE OnShutdown /\ UNCHANGED <<generation, history>>
  <2>1. reply' \in [Requests -> Replies]
    BY <1>1, HangUpTyped DEF OnShutdown, TypeOK
  <2> QED  BY <1>1, <2>1, EngineNoneTyped, DiscardEngineTyped DEF OnShutdown, TypeOK
<1>2. ASSUME NEW c \in Commands, c.op = "online", OnOnline(c.gen, c.settings),
             commands' = Tail(commands), UNCHANGED <<packets, generation, history>>
      PROVE  TypeOK'
  <2>1. c.gen \in Nat /\ c.settings \in OfferedSettings
    BY <1>2 DEF Commands
  <2>2. reply' \in [Requests -> Replies]
    BY <1>2, HangUpTyped DEF OnOnline, TypeOK
  <2>3. next_port' \in Ports
    BY <1>2, NetstackAssumption DEF NetstackAssumption, OnOnline, Ports
  <2> QED  BY <1>0, <1>2, <2>1, <2>2, <2>3, DiscardEngineTyped DEF OnOnline, TypeOK
<1>3. ASSUME NEW g, OnOffline(g), commands' = Tail(commands),
             UNCHANGED <<packets, generation, history>>
      PROVE  TypeOK'
  <2>1. CASE EngineNone /\ HangUp(lookups \cup pending) /\ pc' = "select"
    <3>1. reply' \in [Requests -> Replies]
      BY <2>1, HangUpTyped DEF TypeOK
    <3> QED  BY <1>0, <1>3, <2>1, <3>1, EngineNoneTyped, DiscardEngineTyped DEF TypeOK
  <2> QED  BY <1>0, <1>3, <2>1 DEF OnOffline, TypeOK
<1>4. ASSUME NEW c \in Commands, c.op = "connect", OnConnect(c.req, c.target),
             commands' = Tail(commands), UNCHANGED <<packets, generation, history>>
      PROVE  TypeOK'
  <2> DEFINE r == c.req
  <2>1. r \in Requests /\ c.target \in Targets
    BY <1>4 DEF Commands
  <2>2. CASE UNCHANGED <<lookupVars, flowVars>> /\ reply' \in [Requests -> Replies]
    BY <1>0, <1>4, <2>2 DEF OnConnect, TypeOK
  <2>3. CASE \E outcome \in Failures : Answer(r, outcome) /\ UNCHANGED <<lookupVars, flowVars>>
    BY <2>2, <2>3, AnswerTyped DEF TypeOK, Replies
  <2>4. CASE c.target # "domain" /\ ConnectIp(r, c.target) /\ UNCHANGED lookupVars
    <3>1. c.target \in Addresses
      BY <2>1, <2>4 DEF Targets
    <3> QED  BY <1>0, <1>4, <2>1, <2>4, <3>1, ConnectIpTyped DEF OnConnect, TypeOK
  <2>5. CASE /\ UNCHANGED <<reply, flowVars>>
             /\ StartQuery(r, dns, settings.v4 /\ settings.v6)
    <3>1. (settings.v4 /\ settings.v6) \in BOOLEAN
      BY NetstackAssumption DEF NetstackAssumption, TypeOK, AllSettings, NoSettings
    <3>2. dns \in [Slots -> {"free", "pending"} \cup Answers]
      BY DEF TypeOK
    <3>3. /\ slot' \in [Requests -> Slots \cup {0}] /\ fallback' \in [Requests -> BOOLEAN]
          /\ dns' \in [Slots -> {"free", "pending"} \cup Answers]
      BY <2>1, <2>5, <3>1, <3>2, StartQueryTyped
    <3> QED  BY <1>0, <1>4, <2>5, <3>3 DEF OnConnect, TypeOK
  <2>6. CASE UNCHANGED <<reply, lookupVars, flowVars>>
    BY <2>2, <2>6 DEF TypeOK
  <2>7. {"NotConnected", "LimitReached", "NotFound", "InvalidInput"} \subseteq Failures
    BY DEF Failures
  <2> QED
    BY <1>4, <2>3, <2>4, <2>5, <2>6, <2>7 DEF OnConnect, EngineConnect
<1> QED
  BY <1>0, <1>1, <1>2, <1>3, <1>4 DEF TakeCommand

\* Every other step of the worker keeps the state well typed.
LEMMA WorkerTyped == TypeOK /\ Worker => TypeOK'
<1> SUFFICES ASSUME TypeOK, Worker PROVE TypeOK'
  OBVIOUS
<1>1. CASE TakePacket
  BY <1>1, PacketArrivesTyped DEF TakePacket, TypeOK
<1>2. CASE WakeUp
  BY <1>2 DEF WakeUp, TypeOK
<1>3. CASE Drain
  BY <1>3, PacketArrivesTyped DEF Drain, TypeOK
<1>4. CASE Egress
  <2>1. dns' \in [Slots -> {"free", "pending"} \cup Answers]
    BY <1>4 DEF Egress, TypeOK, Answers
  <2>2. todo' \in Seq(Requests)
    <3>1. lookups \in SUBSET Requests /\ todo' \in Orders(lookups)
      BY <1>4 DEF Egress, lookups
    <3> QED  BY <3>1, ScanBegins
  <2>3. late' \subseteq Requests /\ failed' \in BOOLEAN
    BY <1>4 DEF Egress, TypeOK
  <2> QED  BY <1>4, <2>1, <2>2, <2>3 DEF Egress, TypeOK
<1>5. CASE LookupsDone
  <2>1. flows \in SUBSET Requests /\ todo' \in Orders(flows)
    BY <1>5 DEF LookupsDone, flows
  <2>2. todo' \in Seq(Requests)
    BY <2>1, ScanBegins
  <2> QED  BY <1>5, <2>2 DEF LookupsDone, TypeOK
<1>6. CASE FinishStep
  <2>1. CASE EngineNone /\ HangUp(lookups \cup pending)
    <3>1. reply' \in [Requests -> Replies]
      BY <2>1, HangUpTyped DEF TypeOK
    <3> QED  BY <1>6, <2>1, <3>1, EngineNoneTyped, DiscardEngineTyped DEF FinishStep, TypeOK
  <2> QED  BY <1>6, <2>1 DEF FinishStep, TypeOK
<1>7. ASSUME NEW r \in Requests, ServeLookup(r) PROVE TypeOK'
  <2> DEFINE Freed == [dns EXCEPT ![slot[r]] = "free"]
  <2>1. Freed \in [Slots -> {"free", "pending"} \cup Answers]
    BY DEF TypeOK
  <2>2. ASSUME FreeQuery(r), ForgetLookup(r)
        PROVE  /\ slot' \in [Requests -> Slots \cup {0}] /\ fallback' \in [Requests -> BOOLEAN]
               /\ dns' \in [Slots -> {"free", "pending"} \cup Answers]
    BY <2>1, <2>2 DEF TypeOK, FreeQuery, ForgetLookup
  <2>3. /\ SwapRemove(todo) \in Seq(Requests) /\ Tail(todo) \in Seq(Requests)
        /\ Append(SwapRemove(todo), r) \in Seq(Requests)
    BY <1>7, ScanTyped DEF ServeLookup, TypeOK
  <2>4. ASSUME FreeQuery(r), ForgetLookup(r), NEW outcome \in Failures, Answer(r, outcome),
               expired' = expired \ {r}, todo' = SwapRemove(todo), UNCHANGED flowVars
        PROVE  TypeOK'
    BY <1>7, <2>2, <2>3, <2>4, AnswerTyped DEF ServeLookup, TypeOK, Replies
  <2>5. CASE todo' = Tail(todo) /\ UNCHANGED <<clients, lookupVars, flowVars>>
    BY <1>7, <2>3, <2>5 DEF ServeLookup, TypeOK
  <2>6. CASE /\ dns[slot[r]] \in Addresses /\ ConnectIp(r, dns[slot[r]])
             /\ FreeQuery(r) /\ ForgetLookup(r) /\ KeepDeadline(r) /\ todo' = SwapRemove(todo)
    BY <1>7, <2>2, <2>3, <2>6, ConnectIpTyped DEF ServeLookup, KeepDeadline, TypeOK
  <2>7. CASE StartQuery(r, Freed, FALSE) /\ todo' = Append(SwapRemove(todo), r)
             /\ UNCHANGED <<clients, flowVars>>
    BY <1>7, <2>1, <2>3, <2>7, StartQueryTyped DEF ServeLookup, TypeOK
  <2>8. {"TimedOut", "NotFound"} \subseteq Failures
    BY DEF Failures
  <2> QED  BY <1>7, <2>4, <2>5, <2>6, <2>7, <2>8 DEF ServeLookup
<1>8. ASSUME NEW r \in Requests, RemoveFlow(r)
      PROVE  /\ tcp' \in [Requests -> TcpStates] /\ port' \in [Requests -> Ports \cup {0}]
             /\ next_port' \in Ports /\ expired' \subseteq Requests
  BY <1>8 DEF RemoveFlow, TypeOK, TcpStates
<1>9. ASSUME NEW r \in Requests, MoveOn(r), todo # <<>>
      PROVE  pc' = "flows" /\ todo' \in Seq(Requests)
  BY <1>9, ScanTyped DEF MoveOn, TypeOK
<1>10. ASSUME NEW r \in Requests, PollFlow(r) PROVE TypeOK'
  <2>1. ASSUME NEW outcome \in Replies, Answer(r, outcome) PROVE reply' \in [Requests -> Replies]
    BY <2>1, AnswerTyped DEF TypeOK
  <2>2. /\ tcp' \in [Requests -> TcpStates] /\ port' \in [Requests -> Ports \cup {0}]
        /\ next_port' \in Ports /\ expired' \subseteq Requests
    BY <1>8, <1>10 DEF PollFlow, PollPending, PollBridged, TypeOK
  <2>3. reply' \in [Requests -> Replies]
    BY <1>10, <2>1 DEF PollFlow, PollPending, PollBridged, TypeOK, Replies, Failures
  <2>4. pc' \in {"flows", "reply"} /\ todo' \in Seq(Requests)
    BY <1>9, <1>10 DEF PollFlow, PollPending, PollBridged, TypeOK
  <2> QED  BY <1>10, <2>2, <2>3, <2>4 DEF PollFlow, TypeOK
<1>11. ASSUME NEW r \in Requests, SendReply(r) PROVE TypeOK'
  <2>1. /\ tcp' \in [Requests -> TcpStates] /\ port' \in [Requests -> Ports \cup {0}]
        /\ next_port' \in Ports /\ expired' \subseteq Requests
    BY <1>8, <1>11 DEF SendReply, TypeOK, TcpStates
  <2>2. reply' \in [Requests -> Replies]
    BY <1>11, AnswerTyped DEF SendReply, TypeOK, Replies
  <2>3. home' \in [Requests -> Nat]
    BY <1>11 DEF SendReply, TypeOK
  <2>4. pc' = "flows" /\ todo' \in Seq(Requests)
    BY <1>9, <1>11 DEF SendReply
  <2> QED  BY <1>11, <2>1, <2>2, <2>3, <2>4 DEF SendReply, TypeOK
<1> QED
  BY <1>1, <1>2, <1>3, <1>4, <1>5, <1>6, <1>7, <1>10, <1>11, TakeCommandTyped DEF Worker

\* The state is well typed throughout.
THEOREM TypeCorrect == Spec => []TypeOK
<1>1. TypeOK /\ UNCHANGED vars => TypeOK'
  BY DEF TypeOK, vars
<1>2. TypeOK /\ [Next]_vars => TypeOK'
  BY <1>1, OutsideTyped, WorkerTyped DEF Next
<1> QED  BY InitTyped, <1>2, PTL DEF Spec

-----------------------------------------------------------------------------
(* The command channel. *)

\* A connect request in the channel names one of the requests.
LEMMA QueuedRequest ==
  ASSUME TypeOK, NEW i \in DOMAIN commands, commands[i].op = "connect"
  PROVE  commands[i].req \in Requests /\ commands[i].req \in Queued
<1>1. commands[i] \in Commands
  BY DEF TypeOK
<1> QED  BY <1>1 DEF Commands, Queued

\* A command that is no connect request adds nobody to the queue.
LEMMA AppendOther ==
  ASSUME TypeOK, NEW c \in Commands, c.op # "connect", commands' = Append(commands, c)
  PROVE  Queued' = Queued /\ (QueuedOnce => QueuedOnce')
<1>1. /\ DOMAIN commands' = 1 .. Len(commands) + 1 /\ DOMAIN commands = 1 .. Len(commands)
      /\ \A i \in 1 .. Len(commands) : commands'[i] = commands[i]
      /\ commands'[Len(commands) + 1] = c
  BY DEF TypeOK
<1>2. Len(commands) \in Nat
  BY DEF TypeOK
<1> QED  BY <1>1, <1>2 DEF Queued, QueuedOnce

\* A connect request of somebody who is not in the queue adds just him.
LEMMA AppendConnect ==
  ASSUME TypeOK, NEW c \in Commands, c.op = "connect", c.req \notin Queued,
         commands' = Append(commands, c)
  PROVE  Queued' = Queued \cup {c.req} /\ (QueuedOnce => QueuedOnce')
<1>1. /\ DOMAIN commands' = 1 .. Len(commands) + 1 /\ DOMAIN commands = 1 .. Len(commands)
      /\ \A i \in 1 .. Len(commands) : commands'[i] = commands[i]
      /\ commands'[Len(commands) + 1] = c
  BY DEF TypeOK
<1>2. Len(commands) \in Nat
  BY DEF TypeOK
<1>3. \A i \in DOMAIN commands : commands[i].op = "connect" => commands[i].req # c.req
  BY QueuedRequest
<1>4. c.req \in Requests
  BY DEF Commands
<1>5. ASSUME NEW r \in Requests PROVE r \in Queued' <=> r \in Queued \/ r = c.req
  BY <1>1, <1>2, <1>5 DEF Queued
<1>6. Queued \subseteq Requests /\ Queued' \subseteq Requests
  BY DEF Queued
<1>7. QueuedOnce => QueuedOnce'
  BY <1>1, <1>2, <1>3 DEF QueuedOnce
<1> QED  BY <1>4, <1>5, <1>6, <1>7

\* Taking the first command off the channel takes its caller out of the queue.
LEMMA TailQueue ==
  ASSUME TypeOK, QueuedOnce, commands # <<>>, commands' = Tail(commands)
  PROVE  /\ QueuedOnce'
         /\ Head(commands).op # "connect" => Queued' = Queued
         /\ Head(commands).op = "connect" =>
              /\ Head(commands).req \in Queued
              /\ Queued' = Queued \ {Head(commands).req}
<1>1. /\ DOMAIN commands' = 1 .. Len(commands) - 1 /\ DOMAIN commands = 1 .. Len(commands)
      /\ \A i \in 1 .. Len(commands) - 1 : commands'[i] = commands[i + 1]
      /\ Head(commands) = commands[1] /\ Len(commands) \in Nat \ {0}
  BY DEF TypeOK
<1>2. \A i \in 1 .. Len(commands) : i = 1 \/ (i - 1 \in 1 .. Len(commands) - 1 /\ i = (i - 1) + 1)
  BY <1>1
<1>3. QueuedOnce'
  BY <1>1 DEF QueuedOnce
<1>4. commands[1] \in Commands /\ (commands[1].op = "connect" => commands[1].req \in Requests)
  <2>1. commands[1] \in Commands
    BY <1>1 DEF TypeOK
  <2> QED  BY <2>1 DEF Commands
<1>5. \A i \in 1 .. Len(commands) :
        commands[1].op = "connect" /\ commands[i].op = "connect"
          /\ commands[i].req = commands[1].req => i = 1
  BY <1>1 DEF QueuedOnce
<1>6. ASSUME NEW r \in Requests
      PROVE  r \in Queued' <=> \E i \in 1 .. Len(commands) :
                                 i # 1 /\ commands[i].op = "connect" /\ commands[i].req = r
  <2>1. ASSUME NEW i \in DOMAIN commands', commands'[i].op = "connect", commands'[i].req = r
        PROVE  /\ i + 1 \in 1 .. Len(commands) /\ i + 1 # 1
               /\ commands[i + 1].op = "connect" /\ commands[i + 1].req = r
    BY <1>1, <2>1
  <2>2. ASSUME NEW i \in 1 .. Len(commands), i # 1, commands[i].op = "connect", commands[i].req = r
        PROVE  /\ i - 1 \in DOMAIN commands'
               /\ commands'[i - 1].op = "connect" /\ commands'[i - 1].req = r
    <3>1. i - 1 \in 1 .. Len(commands) - 1 /\ (i - 1) + 1 = i
      BY <1>1, <2>2
    <3>2. commands'[i - 1] = commands[i]
      BY <1>1, <3>1
    <3> QED  BY <1>1, <2>2, <3>1, <3>2
  <2> QED  BY <2>1, <2>2 DEF Queued
<1>7. ASSUME NEW r \in Requests
      PROVE  r \in Queued <=> \E i \in 1 .. Len(commands) :
                                 commands[i].op = "connect" /\ commands[i].req = r
  BY <1>1 DEF Queued
<1>8. Queued \subseteq Requests /\ Queued' \subseteq Requests /\ 1 \in 1 .. Len(commands)
  BY <1>1 DEF Queued
<1>9. ASSUME Head(commands).op # "connect" PROVE Queued' = Queued
  <2>1. ASSUME NEW r \in Requests PROVE r \in Queued' <=> r \in Queued
    BY <1>1, <1>6, <1>7, <1>9
  <2> QED  BY <1>8, <2>1
<1>10. ASSUME Head(commands).op = "connect"
       PROVE  Head(commands).req \in Queued /\ Queued' = Queued \ {Head(commands).req}
  <2>1. ASSUME NEW r \in Requests PROVE r \in Queued' <=> r \in Queued /\ r # commands[1].req
    BY <1>1, <1>5, <1>6, <1>7, <1>8, <1>10
  <2>2. commands[1].req \in Queued
    BY <1>1, <1>4, <1>7, <1>8, <1>10
  <2> QED  BY <1>1, <1>8, <2>1, <2>2
<1> QED  BY <1>3, <1>9, <1>10

\* Taking a command off the channel keeps the generations ascending.
LEMMA TailAscends ==
  ASSUME TypeOK, GenerationsAscend, commands # <<>>, commands' = Tail(commands),
         generation' = generation,
         \/ engine' = engine \/ engine' = 0
         \/ Head(commands).op = "online" /\ engine' = Head(commands).gen
  PROVE  GenerationsAscend' /\ (engine' = engine \/ engine' = 0 \/ engine < engine')
<1>1. /\ DOMAIN commands' = 1 .. Len(commands) - 1 /\ DOMAIN commands = 1 .. Len(commands)
      /\ \A i \in 1 .. Len(commands) - 1 : commands'[i] = commands[i + 1]
      /\ Head(commands) = commands[1] /\ Len(commands) \in Nat \ {0}
  BY DEF TypeOK
<1>2. engine \in Nat /\ generation \in Nat /\ 1 \in DOMAIN commands
  BY <1>1 DEF TypeOK
<1>3. ASSUME NEW i \in DOMAIN commands, commands[i].op = "online" PROVE commands[i].gen \in Nat
  <2>1. commands[i] \in Commands
    BY DEF TypeOK
  <2> QED  BY <1>3, <2>1 DEF Commands
<1>4. ASSUME NEW i \in DOMAIN commands' PROVE i + 1 \in DOMAIN commands /\ 1 < i + 1
  BY <1>1
<1>5. engine' <= generation'
  BY <1>1, <1>2, <1>3 DEF GenerationsAscend
<1>6. ASSUME NEW i \in DOMAIN commands', commands'[i].op = "online"
      PROVE  engine' < commands'[i].gen /\ commands'[i].gen <= generation'
  BY <1>1, <1>2, <1>3, <1>4, <1>6 DEF GenerationsAscend
<1>7. ASSUME NEW i \in DOMAIN commands', NEW j \in DOMAIN commands', commands'[i].op = "online",
             commands'[j].op = "online", i < j
      PROVE  commands'[i].gen < commands'[j].gen
  <2>1. i + 1 < j + 1
    BY <1>1, <1>7
  <2> QED  BY <1>1, <1>4, <1>7, <2>1 DEF GenerationsAscend
<1> QED  BY <1>2, <1>5, <1>6, <1>7 DEF GenerationsAscend

\* Sending a command that brings up no tunnel keeps the generations ascending.
LEMMA AppendAscends ==
  ASSUME TypeOK, GenerationsAscend, NEW c \in Commands, commands' = Append(commands, c),
         engine' = engine,
         \/ c.op # "online" /\ generation' = generation
         \/ c.op = "online" /\ c.gen = generation + 1 /\ generation' = generation + 1
  PROVE  GenerationsAscend'
<1>1. /\ DOMAIN commands' = 1 .. Len(commands) + 1 /\ DOMAIN commands = 1 .. Len(commands)
      /\ \A i \in 1 .. Len(commands) : commands'[i] = commands[i]
      /\ commands'[Len(commands) + 1] = c /\ Len(commands) \in Nat
  BY DEF TypeOK
<1>2. engine \in Nat /\ generation \in Nat /\ generation <= generation'
  BY DEF TypeOK
<1>3. ASSUME NEW i \in DOMAIN commands, commands[i].op = "online"
      PROVE  /\ commands[i].gen \in Nat /\ commands[i].gen <= generation
             /\ engine < commands[i].gen
  <2>1. commands[i] \in Commands
    BY DEF TypeOK
  <2> QED  BY <1>3, <2>1 DEF Commands, GenerationsAscend
<1>4. engine' <= generation'
  BY <1>2 DEF GenerationsAscend
<1>5. ASSUME NEW i \in DOMAIN commands', commands'[i].op = "online"
      PROVE  engine' < commands'[i].gen /\ commands'[i].gen <= generation'
  <2>1. CASE i \in DOMAIN commands
    BY <1>1, <1>2, <1>3, <1>5, <2>1
  <2>2. CASE i = Len(commands) + 1
    BY <1>1, <1>2, <1>5, <2>2 DEF GenerationsAscend
  <2> QED  BY <1>1, <2>1, <2>2
<1>6. ASSUME NEW i \in DOMAIN commands', NEW j \in DOMAIN commands', commands'[i].op = "online",
             commands'[j].op = "online", i < j
      PROVE  commands'[i].gen < commands'[j].gen
  <2>1. i \in DOMAIN commands
    BY <1>1, <1>6
  <2>2. CASE j \in DOMAIN commands
    BY <1>1, <1>6, <2>1, <2>2 DEF GenerationsAscend
  <2>3. CASE j = Len(commands) + 1
    BY <1>1, <1>2, <1>3, <1>6, <2>1, <2>3
  <2> QED  BY <1>1, <2>2, <2>3
<1> QED  BY <1>4, <1>5, <1>6 DEF GenerationsAscend

-----------------------------------------------------------------------------
(* The callers, the adapter and the clock. *)

\* What they do leaves the engine alone.
LEMMA OutsideFrame ==
  ASSUME Callers \/ Adapter \/ DropWorker \/ Clock
  PROVE  UNCHANGED <<loop, engine, device, lookupVars, flowVars, home>>
  BY DEF Callers, Adapter, Clock, DropWorker, TunnelConnect, Cancel, TunnelOnline,
         TunnelOffline, TunnelReceive, Expire

\* If besides the engine the replies and the channels stay, or a reply is only
\* withdrawn, the part of the invariant about the engine stays.
LEMMA EngineUntouched ==
  ASSUME TypeOK, EngineInvariant,
         UNCHANGED <<loop, engine, device, lookupVars, flowVars, home>>
  PROVE  /\ QueriesOwned' /\ UniqueLocalPorts' /\ WorkerPhase'
         /\ lookups' = lookups /\ flows' = flows /\ pending' = pending
  BY DEF EngineInvariant, QueriesOwned, UniqueLocalPorts, WorkerPhase, lookups, flows, pending

\* They keep the invariant.
LEMMA OutsideKeeps ==
  ASSUME TypeOK, EngineInvariant, Callers \/ Adapter \/ DropWorker \/ Clock
  PROVE  EngineInvariant'
<1> USE OutsideFrame, EngineUntouched
<1>0. /\ SenderHasOneOwner /\ StreamsFollowTunnel /\ SuccessIsGenuine
      /\ AttemptsAreGenuine /\ GenerationsAscend
  BY DEF EngineInvariant
<1>1. ASSUME UNCHANGED reply, UNCHANGED <<packets, accepted>>
      PROVE  StreamsFollowTunnel' /\ SuccessIsGenuine' /\ AttemptsAreGenuine'
  BY <1>0, <1>1 DEF StreamsFollowTunnel, SuccessIsGenuine, AttemptsAreGenuine
<1>2. ASSUME NEW c \in Commands, c.op # "connect", commands' = Append(commands, c),
             UNCHANGED reply
      PROVE  SenderHasOneOwner'
  BY <1>0, <1>2, AppendOther DEF SenderHasOneOwner
<1>3. ASSUME UNCHANGED <<reply, commands>>
      PROVE  SenderHasOneOwner'
  BY <1>0, <1>3 DEF SenderHasOneOwner, Queued, QueuedOnce
<1>4. ASSUME UNCHANGED <<commands, generation>>
      PROVE  GenerationsAscend'
  BY <1>0, <1>4 DEF GenerationsAscend
<1>5. ASSUME NEW r \in Requests, NEW t \in Targets, TunnelConnect(r, t) PROVE EngineInvariant'
  <2> DEFINE c == [op |-> "connect", req |-> r, target |-> t]
  <2>0. /\ \A q \in Requests : (reply'[q] = "Ok") = (reply[q] = "Ok")
        /\ UNCHANGED <<packets, accepted>>
    BY <1>5 DEF TunnelConnect, TypeOK
  <2>1. StreamsFollowTunnel' /\ SuccessIsGenuine' /\ AttemptsAreGenuine'
    <3>1. StreamsFollowTunnel'
      BY <1>0, <2>0 DEF StreamsFollowTunnel, flows
    <3>2. SuccessIsGenuine'
      BY <1>0, <2>0 DEF SuccessIsGenuine
    <3> QED  BY <1>0, <2>0, <3>1, <3>2 DEF AttemptsAreGenuine
  <2>2. c \in Commands /\ c.op = "connect" /\ c.req = r
    BY DEF Commands
  <2>3. r \notin Queued \cup lookups \cup pending
    BY <1>0, <1>5 DEF SenderHasOneOwner, TunnelConnect
  <2>4. r \notin flows
    BY <1>0, <1>5, <2>3 DEF StreamsFollowTunnel, TunnelConnect
  <2>5. CASE pc = "stopped"
    <3>1. reply' = [reply EXCEPT ![r] = "NotConnected"] /\ UNCHANGED <<commands, generation>>
      BY <1>5, <2>5 DEF TunnelConnect
    <3>2. Queued' = Queued /\ QueuedOnce' = QueuedOnce
      BY <3>1 DEF Queued, QueuedOnce
    <3>3. SenderHasOneOwner'
      BY <1>0, <2>3, <3>1, <3>2 DEF SenderHasOneOwner, TypeOK
    <3> QED  BY <1>4, <2>1, <3>1, <3>3 DEF EngineInvariant
  <2>6. CASE pc # "stopped"
    <3>1. /\ reply' = [reply EXCEPT ![r] = "waiting"] /\ commands' = Append(commands, c)
          /\ generation' = generation
      BY <1>5, <2>6 DEF TunnelConnect
    <3>2. Queued' = Queued \cup {r} /\ QueuedOnce'
      BY <1>0, <2>2, <2>3, <3>1, AppendConnect DEF SenderHasOneOwner
    <3>3. SenderHasOneOwner'
      BY <1>0, <2>3, <2>4, <3>1, <3>2 DEF SenderHasOneOwner, TypeOK
    <3>4. GenerationsAscend'
      BY <1>0, <2>2, <3>1, AppendAscends
    <3> QED  BY <2>1, <3>3, <3>4 DEF EngineInvariant
  <2> QED  BY <2>5, <2>6
<1>6. ASSUME NEW r \in Requests, Cancel(r) PROVE EngineInvariant'
  <2>1. StreamsFollowTunnel' /\ SuccessIsGenuine' /\ AttemptsAreGenuine'
    BY <1>0, <1>6 DEF Cancel, StreamsFollowTunnel, SuccessIsGenuine, AttemptsAreGenuine, TypeOK
  <2>2. Queued' = Queued /\ QueuedOnce' = QueuedOnce
    BY <1>6 DEF Cancel, Queued, QueuedOnce
  <2>3. SenderHasOneOwner'
    BY <1>0, <1>6, <2>2 DEF Cancel, SenderHasOneOwner, TypeOK
  <2> QED  BY <1>4, <1>6, <2>1, <2>3 DEF Cancel, EngineInvariant
<1>7. ASSUME NEW s \in OfferedSettings, TunnelOnline(s) PROVE EngineInvariant'
  <2> DEFINE c == [op |-> "online", gen |-> generation + 1, settings |-> s]
  <2>1. c \in Commands /\ c.op = "online" /\ c.gen = generation + 1
    BY DEF Commands, TypeOK
  <2>2. GenerationsAscend'
    BY <1>0, <1>7, <2>1, AppendAscends DEF TunnelOnline
  <2> QED  BY <1>1, <1>2, <1>7, <2>1, <2>2 DEF TunnelOnline, EngineInvariant
<1>8. ASSUME NEW g \in 0 .. generation, TunnelOffline(g) PROVE EngineInvariant'
  <2> DEFINE c == [op |-> "offline", gen |-> g]
  <2>1. c \in Commands /\ c.op = "offline"
    BY DEF Commands, TypeOK
  <2>2. GenerationsAscend'
    BY <1>0, <1>8, <2>1, AppendAscends DEF TunnelOffline
  <2> QED  BY <1>1, <1>2, <1>8, <2>1, <2>2 DEF TunnelOffline, EngineInvariant
<1>9. ASSUME NEW r \in Requests, NEW body \in Bodies, TunnelReceive(r, body) PROVE EngineInvariant'
  <2> DEFINE p == [gen |-> generation, to |-> r, body |-> body]
  <2>1. /\ DOMAIN packets' = 1 .. Len(packets) + 1 /\ DOMAIN packets = 1 .. Len(packets)
        /\ \A i \in 1 .. Len(packets) : packets'[i] = packets[i]
        /\ packets'[Len(packets) + 1] = p /\ Len(packets) \in Nat
    BY <1>9 DEF TypeOK, TunnelReceive
  <2>2. accepted \subseteq accepted' /\ (body = "synack" => <<generation, r>> \in accepted')
    BY <1>9 DEF TunnelReceive
  <2>3. AttemptsAreGenuine'
    <3>1. ASSUME NEW i \in DOMAIN packets', packets'[i].body = "synack"
          PROVE  <<packets'[i].gen, packets'[i].to>> \in accepted'
      <4>1. CASE i \in DOMAIN packets
        BY <1>0, <2>1, <2>2, <3>1, <4>1 DEF AttemptsAreGenuine
      <4>2. CASE i = Len(packets) + 1
        BY <2>1, <2>2, <3>1, <4>2
      <4> QED  BY <2>1, <4>1, <4>2
    <3> QED  BY <1>0, <2>2, <3>1 DEF AttemptsAreGenuine
  <2>4. StreamsFollowTunnel' /\ SuccessIsGenuine'
    BY <1>0, <1>9, <2>2 DEF TunnelReceive, StreamsFollowTunnel, SuccessIsGenuine
  <2> QED  BY <1>3, <1>4, <1>9, <2>3, <2>4 DEF TunnelReceive, EngineInvariant
<1>10. CASE DropWorker
  <2> DEFINE c == [op |-> "shutdown"]
  <2>1. c \in Commands /\ c.op = "shutdown"
    BY DEF Commands
  <2>2. GenerationsAscend'
    BY <1>0, <1>10, <2>1, AppendAscends DEF DropWorker
  <2> QED  BY <1>1, <1>2, <1>10, <2>1, <2>2 DEF DropWorker, EngineInvariant
<1>11. ASSUME NEW r \in Requests, Expire(r) PROVE EngineInvariant'
  BY <1>1, <1>3, <1>4, <1>11 DEF Expire, EngineInvariant
<1> QED
  BY <1>5, <1>6, <1>7, <1>8, <1>9, <1>10, <1>11 DEF Callers, Adapter, Clock

-----------------------------------------------------------------------------
(* The commands. *)

\* Dropping the engine leaves nothing that could break the invariant.
LEMMA DiscardKeeps ==
  ASSUME TypeOK, EngineInvariant, DiscardEngine, UNCHANGED history
  PROVE  /\ lookups' = {} /\ flows' = {} /\ pending' = {}
         /\ QueriesOwned' /\ UniqueLocalPorts' /\ StreamsFollowTunnel'
         /\ ToSet(todo') = {} /\ IsInjective(todo') /\ late' = {}
         /\ \A r \in Requests : r \notin pending'
<1>1. lookups' = {} /\ flows' = {}
  BY DEF DiscardEngine, lookups, flows
<1>2. pending' = {}
  BY <1>1 DEF pending
<1>3. \A s \in Slots : dns'[s] = "free"
  BY DEF DiscardEngine
<1>4. todo' = <<>> /\ DOMAIN todo' = {}
  BY DEF DiscardEngine
<1>5. ToSet(todo') = {} /\ IsInjective(todo')
  BY <1>4 DEF ToSet, IsInjective
<1> QED
  BY <1>1, <1>2, <1>3, <1>5 DEF DiscardEngine, QueriesOwned, UniqueLocalPorts, StreamsFollowTunnel

\* Hanging up on whoever the engine was working for leaves every other caller in
\* the queue, and tells nobody that he is connected.
LEMMA HangUpKeeps ==
  ASSUME TypeOK, EngineInvariant, NEW who,
         lookups \cup pending \subseteq who, HangUp(who),
         lookups' = {}, pending' = {}, flows' = {}, QueuedOnce',
         \/ Queued' = Queued /\ who = lookups \cup pending
         \/ Queued' = {} /\ who = lookups \cup pending \cup Queued,
         UNCHANGED history
  PROVE  SenderHasOneOwner' /\ SuccessIsGenuine'
<1>1. SenderHasOneOwner /\ SuccessIsGenuine
  BY DEF EngineInvariant
<1>2. ASSUME NEW r \in Requests
      PROVE  /\ r \notin who => reply'[r] = reply[r]
             /\ r \in who => reply'[r] # "waiting"
             /\ reply'[r] = "Ok" => reply[r] = "Ok"
  BY DEF HangUp, TypeOK
<1>3. SuccessIsGenuine'
  BY <1>1, <1>2 DEF SuccessIsGenuine
<1>4. ASSUME NEW r \in Requests
      PROVE  /\ reply'[r] = "waiting" => r \in Queued'
             /\ r \in Queued' => reply'[r] \in {"waiting", "cancelled"}
  <2>1. pending \subseteq flows
    BY DEF pending
  <2>2. reply'[r] = "waiting" => reply[r] = "waiting" /\ r \notin who
    BY <1>2 DEF HangUp, TypeOK
  <2>3. r \in Queued => r \notin lookups \cup pending /\ reply[r] \in {"waiting", "cancelled"}
    BY <1>1, <2>1 DEF SenderHasOneOwner
  <2>4. reply[r] = "waiting" => r \in Queued \cup lookups \cup pending
    BY <1>1 DEF SenderHasOneOwner
  <2> QED  BY <1>2, <2>2, <2>3, <2>4
<1> QED  BY <1>3, <1>4 DEF SenderHasOneOwner

\* Without attempts, and with no new packets, no attempt is unaccounted for.
LEMMA PacketsStayGenuine ==
  ASSUME EngineInvariant, accepted' = accepted, pending' = {},
         packets' = packets \/ packets' = <<>>
  PROVE  AttemptsAreGenuine'
  BY DEF EngineInvariant, AttemptsAreGenuine

\* What connect_ip makes of a request that is in no other place: it ends it, or
\* starts an attempt on a port that no other flow uses.
LEMMA ConnectIpKeeps ==
  ASSUME TypeOK, EngineInvariant, NEW r \in Requests, NEW a, ConnectIp(r, a),
         r \notin flows, reply[r] \in {"waiting", "cancelled"},
         UNCHANGED <<packets, engine, history>>
  PROVE  /\ UniqueLocalPorts' /\ StreamsFollowTunnel' /\ SuccessIsGenuine' /\ AttemptsAreGenuine'
         /\ \A q \in Requests : q # r => reply'[q] = reply[q]
         /\ reply'[r] # "Ok" /\ flows' \ pending' = flows \ pending
         /\ \/ flows' = flows /\ pending' = pending /\ reply'[r] # "waiting"
            \/ flows' = flows \cup {r} /\ pending' = pending \cup {r} /\ reply' = reply
<1>0. UniqueLocalPorts /\ StreamsFollowTunnel /\ SuccessIsGenuine /\ AttemptsAreGenuine
  BY DEF EngineInvariant
<1>1. ASSUME NEW outcome \in Failures, Answer(r, outcome), UNCHANGED <<tcp, port>>
      PROVE  /\ UniqueLocalPorts' /\ StreamsFollowTunnel' /\ SuccessIsGenuine' /\ AttemptsAreGenuine'
             /\ \A q \in Requests : q # r => reply'[q] = reply[q]
             /\ reply'[r] # "waiting" /\ reply'[r] # "Ok" /\ flows' = flows /\ pending' = pending
  <2>1. flows' = flows /\ pending' = pending
    BY <1>1 DEF flows, pending
  <2>2. /\ \A q \in Requests : q # r => reply'[q] = reply[q]
        /\ reply'[r] # "waiting" /\ reply'[r] # "Ok"
    BY <1>1 DEF Answer, TypeOK, Failures
  <2>3. SuccessIsGenuine'
    BY <1>0, <2>2 DEF SuccessIsGenuine
  <2>4. StreamsFollowTunnel'
    BY <1>0, <2>1, <2>2 DEF StreamsFollowTunnel, flows
  <2>5. UniqueLocalPorts' /\ AttemptsAreGenuine'
    BY <1>0, <1>1, <2>1 DEF UniqueLocalPorts, AttemptsAreGenuine
  <2> QED  BY <2>1, <2>2, <2>3, <2>4, <2>5
<1>2. ASSUME NEW p \in Ports, FirstFree(p), tcp' = [tcp EXCEPT ![r] = "SynSent"],
             port' = [port EXCEPT ![r] = p], UNCHANGED reply
      PROVE  /\ UniqueLocalPorts' /\ StreamsFollowTunnel' /\ SuccessIsGenuine' /\ AttemptsAreGenuine'
             /\ flows' = flows \cup {r} /\ pending' = pending \cup {r}
  <2>1. flows' = flows \cup {r} /\ pending' = pending \cup {r}
    BY <1>2 DEF flows, pending, TypeOK
  <2>2. \A q \in flows : port[q] # p /\ q # r /\ port'[q] = port[q] /\ tcp'[q] = tcp[q]
    BY <1>2 DEF FirstFree, PortFree, TypeOK, flows
  <2>3. UniqueLocalPorts'
    <3>1. port'[r] = p
      BY <1>2 DEF TypeOK
    <3> QED  BY <1>0, <2>1, <2>2, <3>1 DEF UniqueLocalPorts
  <2>4. StreamsFollowTunnel' /\ SuccessIsGenuine'
    BY <1>0, <1>2, <2>1, <2>2 DEF StreamsFollowTunnel, SuccessIsGenuine
  <2>5. AttemptsAreGenuine'
    <3>1. tcp'[r] = "SynSent" /\ pending \subseteq flows
      BY <1>2 DEF TypeOK, pending
    <3> QED  BY <1>0, <2>1, <2>2, <3>1 DEF AttemptsAreGenuine
  <2> QED  BY <2>1, <2>3, <2>4, <2>5
<1>3. {"NetworkUnreachable", "InvalidInput", "Other"} \subseteq Failures
  BY DEF Failures
<1>4. CASE \E outcome \in Failures : Answer(r, outcome) /\ UNCHANGED <<tcp, port>>
  BY <1>1, <1>4
<1>5. CASE \E p \in Ports : /\ FirstFree(p) /\ tcp' = [tcp EXCEPT ![r] = "SynSent"]
                           /\ port' = [port EXCEPT ![r] = p] /\ UNCHANGED reply
  <2>1. r \notin pending /\ pending \subseteq flows
    BY DEF pending
  <2> QED  BY <1>2, <1>5, <2>1
<1> QED
  BY <1>3, <1>4, <1>5 DEF ConnectIp

\* A query started in slot s, free or just vacated by r, belongs to r.
LEMMA StartQueryKeeps ==
  ASSUME TypeOK, QueriesOwned, NEW r \in Requests, NEW s \in Slots,
         dns[s] = "free" \/ s = slot[r],
         \A q \in Requests : slot'[q] = IF q = r THEN s ELSE slot[q],
         \A q \in Slots : dns'[q] = IF q = s THEN "pending"
                                    ELSE IF q = slot[r] THEN "free" ELSE dns[q]
  PROVE  QueriesOwned' /\ lookups' = lookups \cup {r}
<1>1. s # 0 /\ \A q \in lookups : slot[q] \in Slots
  BY DEF TypeOK, Slots, lookups
<1>2. lookups' = lookups \cup {r} /\ lookups \subseteq Requests
  BY <1>1 DEF lookups
<1>3. \A q \in lookups : q # r => slot[q] # s /\ slot[q] # slot[r]
  BY <1>1, <1>2 DEF QueriesOwned, lookups
<1>4. ASSUME NEW q \in lookups', NEW u \in lookups'
      PROVE  dns'[slot'[q]] # "free" /\ (slot'[q] = slot'[u] => q = u)
  BY <1>1, <1>2, <1>3 DEF QueriesOwned
<1>5. ASSUME NEW q \in Slots, dns'[q] # "free" PROVE \E u \in lookups' : slot'[u] = q
  BY <1>1, <1>2, <1>5 DEF QueriesOwned
<1> QED  BY <1>2, <1>4, <1>5 DEF QueriesOwned

\* Every command keeps the invariant.
LEMMA TakeCommandKeeps == TypeOK /\ EngineInvariant /\ TakeCommand => EngineInvariant'
<1> SUFFICES ASSUME TypeOK, EngineInvariant, TakeCommand PROVE EngineInvariant'
  OBVIOUS
<1>0. /\ SenderHasOneOwner /\ QueriesOwned /\ UniqueLocalPorts /\ StreamsFollowTunnel
      /\ SuccessIsGenuine /\ WorkerPhase /\ AttemptsAreGenuine /\ GenerationsAscend
  BY DEF EngineInvariant
<1> DEFINE c == Head(commands)
<1>a. /\ commands # <<>> /\ pc = "select" /\ c \in Commands
      /\ UNCHANGED <<generation, history>> /\ QueuedOnce
  BY <1>0 DEF TakeCommand, TypeOK, SenderHasOneOwner
<1>1. CASE OnShutdown
  <2>1. Queued' = {} /\ QueuedOnce'
    BY <1>1 DEF OnShutdown, Queued, QueuedOnce
  <2>2. DiscardEngine /\ engine' = 0 /\ pc' = "stopped" /\ packets' = <<>>
    BY <1>1 DEF OnShutdown, EngineNone
  <2>3. SenderHasOneOwner' /\ SuccessIsGenuine'
    BY <1>a, <1>1, <2>1, <2>2, DiscardKeeps, HangUpKeeps DEF OnShutdown
  <2>4. AttemptsAreGenuine' /\ WorkerPhase'
    BY <1>a, <2>2, DiscardKeeps, PacketsStayGenuine DEF WorkerPhase
  <2>5. GenerationsAscend'
    BY <1>0, <1>a, <1>1, <2>2 DEF OnShutdown, GenerationsAscend, TypeOK
  <2> QED  BY <1>a, <2>2, <2>3, <2>4, <2>5, DiscardKeeps DEF EngineInvariant
<1>2. CASE c.op = "online" /\ OnOnline(c.gen, c.settings) /\ commands' = Tail(commands) /\ UNCHANGED packets
  <2>1. DiscardEngine /\ engine' = c.gen /\ pc' = "drain"
    BY <1>2 DEF OnOnline
  <2>2. GenerationsAscend' /\ engine < engine'
    <3>1. engine' \in Nat /\ c.gen \in Nat /\ engine \in Nat
      BY <1>a, <1>2, <2>1 DEF Commands, TypeOK
    <3>2. engine < c.gen
      BY <1>0, <1>a, <1>2 DEF GenerationsAscend, TypeOK
    <3> QED  BY <1>0, <1>a, <1>2, <2>1, <3>1, <3>2, TailAscends
  <2>3. Queued' = Queued /\ QueuedOnce'
    BY <1>a, <1>2, TailQueue
  <2>4. SenderHasOneOwner' /\ SuccessIsGenuine'
    BY <1>a, <1>2, <2>1, <2>3, DiscardKeeps, HangUpKeeps DEF OnOnline
  <2>5. engine' # 0
    BY <2>2 DEF TypeOK
  <2>6. AttemptsAreGenuine' /\ WorkerPhase'
    BY <1>a, <1>2, <2>1, <2>5, DiscardKeeps, PacketsStayGenuine DEF WorkerPhase
  <2> QED  BY <1>a, <2>1, <2>2, <2>4, <2>6, DiscardKeeps DEF EngineInvariant
<1>3. CASE c.op = "offline" /\ OnOffline(c.gen) /\ commands' = Tail(commands) /\ UNCHANGED packets
  <2>1. Queued' = Queued /\ QueuedOnce'
    BY <1>a, <1>3, TailQueue
  <2>2. CASE EngineNone /\ HangUp(lookups \cup pending) /\ pc' = "select"
    <3>1. DiscardEngine /\ engine' = 0
      BY <2>2 DEF EngineNone
    <3>2. SenderHasOneOwner' /\ SuccessIsGenuine'
      BY <1>a, <2>1, <2>2, <3>1, DiscardKeeps, HangUpKeeps
    <3>3. AttemptsAreGenuine' /\ WorkerPhase'
      BY <1>a, <1>3, <2>2, <3>1, DiscardKeeps, PacketsStayGenuine DEF WorkerPhase
    <3>4. GenerationsAscend'
      BY <1>0, <1>a, <1>3, <3>1, TailAscends
    <3> QED  BY <1>a, <3>1, <3>2, <3>3, <3>4, DiscardKeeps DEF EngineInvariant
  <2>3. CASE /\ pc' = IF engine = 0 THEN "select" ELSE "drain"
             /\ UNCHANGED <<clients, todo, late, drained, engine, device, lookupVars, flowVars>>
    <3>1. lookups' = lookups /\ flows' = flows /\ pending' = pending
      BY <2>3 DEF lookups, flows, pending
    <3>2. QueriesOwned' /\ UniqueLocalPorts' /\ StreamsFollowTunnel' /\ SuccessIsGenuine'
      BY <1>0, <1>a, <2>3, <3>1
      DEF QueriesOwned, UniqueLocalPorts, StreamsFollowTunnel, SuccessIsGenuine
    <3>3. SenderHasOneOwner'
      BY <1>0, <2>1, <2>3, <3>1 DEF SenderHasOneOwner
    <3>4. AttemptsAreGenuine' /\ WorkerPhase'
      BY <1>0, <1>a, <1>3, <2>3, <3>1 DEF AttemptsAreGenuine, WorkerPhase
    <3>5. GenerationsAscend'
      BY <1>0, <1>a, <1>3, <2>3, TailAscends
    <3> QED  BY <3>2, <3>3, <3>4, <3>5 DEF EngineInvariant
  <2> QED  BY <1>3, <2>2, <2>3 DEF OnOffline
<1>4. CASE c.op = "connect" /\ OnConnect(c.req, c.target) /\ commands' = Tail(commands) /\ UNCHANGED packets
  <2> DEFINE r == c.req
  <2>1. r \in Requests /\ r \in Queued /\ Queued' = Queued \ {r} /\ QueuedOnce'
    BY <1>a, <1>4, TailQueue DEF Commands
  <2>2. r \notin lookups \cup flows /\ reply[r] \in {"waiting", "cancelled"}
    BY <1>0, <2>1 DEF SenderHasOneOwner
  <2>3. UNCHANGED <<expired, todo, late, drained, engine, device>> /\ pc' \in {"select", "drain"}
    BY <1>4 DEF OnConnect
  <2>4. GenerationsAscend'
    BY <1>0, <1>a, <1>4, <2>3, TailAscends
  <2>5. ASSUME UNCHANGED lookupVars PROVE QueriesOwned' /\ lookups' = lookups
    BY <1>0, <2>5 DEF QueriesOwned, lookups
  <2>6. ASSUME UNCHANGED flowVars, \A q \in Requests : (reply'[q] = "Ok") = (reply[q] = "Ok")
        PROVE  /\ UniqueLocalPorts' /\ StreamsFollowTunnel' /\ SuccessIsGenuine' /\ AttemptsAreGenuine'
               /\ flows' = flows /\ pending' = pending
    <3>1. flows' = flows /\ pending' = pending /\ flows \subseteq Requests
      BY <2>6 DEF flows, pending
    <3>2. StreamsFollowTunnel'
      BY <1>0, <1>a, <2>3, <2>6, <3>1 DEF StreamsFollowTunnel
    <3>3. SuccessIsGenuine'
      BY <1>0, <1>a, <2>6 DEF SuccessIsGenuine
    <3> QED  BY <1>0, <1>a, <1>4, <2>3, <2>6, <3>1, <3>2, <3>3 DEF UniqueLocalPorts, AttemptsAreGenuine
  <2>a. pending \subseteq flows /\ \A q \in Requests : q # r => (q \in Queued' <=> q \in Queued)
    BY <2>1 DEF pending
  <2>7. CASE UNCHANGED <<lookupVars, flowVars>> /\ pc' = (IF engine = 0 THEN "select" ELSE "drain")
             /\ ((reply[r] = "cancelled" /\ UNCHANGED reply) \/ \E outcome \in Failures : Answer(r, outcome))
    <3>1. /\ \A q \in Requests : q # r => reply'[q] = reply[q]
          /\ reply'[r] # "waiting" /\ reply'[r] # "Ok"
      <4>1. CASE reply[r] = "cancelled" /\ UNCHANGED reply
      BY <4>1
    <4>2. ASSUME NEW outcome \in Failures, Answer(r, outcome)
          PROVE  /\ \A q \in Requests : q # r => reply'[q] = reply[q]
                 /\ reply'[r] # "waiting" /\ reply'[r] # "Ok"
      BY <2>1, <2>2, <4>2 DEF Answer, TypeOK, Failures
    <4> QED  BY <2>7, <4>1, <4>2
    <3>2. \A q \in Requests : (reply'[q] = "Ok") = (reply[q] = "Ok")
      BY <2>2, <3>1
    <3>3. SenderHasOneOwner'
      <4>1. lookups' = lookups /\ flows' = flows /\ pending' = pending
        BY <2>5, <2>6, <2>7, <3>2
      <4> QED  BY <1>0, <2>1, <2>2, <2>a, <3>1, <4>1 DEF SenderHasOneOwner
    <3>4. WorkerPhase'
      BY <1>0, <2>3, <2>5, <2>6, <2>7, <3>2 DEF WorkerPhase
    <3> QED  BY <2>4, <2>5, <2>6, <2>7, <3>2, <3>3, <3>4 DEF EngineInvariant
  <2>8. CASE engine # 0 /\ pc' = "drain" /\ ConnectIp(r, c.target) /\ UNCHANGED lookupVars
    <3>1. /\ UniqueLocalPorts' /\ StreamsFollowTunnel' /\ SuccessIsGenuine' /\ AttemptsAreGenuine'
          /\ \A q \in Requests : q # r => reply'[q] = reply[q]
          /\ \/ flows' = flows /\ pending' = pending /\ reply'[r] # "waiting"
             \/ flows' = flows \cup {r} /\ pending' = pending \cup {r} /\ reply' = reply
      BY <1>a, <1>4, <2>1, <2>2, <2>3, <2>8, ConnectIpKeeps
    <3>2. SenderHasOneOwner'
      <4>1. lookups' = lookups
        BY <2>5, <2>8
      <4>2. CASE flows' = flows /\ pending' = pending /\ reply'[r] # "waiting"
        BY <1>0, <2>1, <2>2, <2>a, <3>1, <4>1, <4>2 DEF SenderHasOneOwner
      <4>3. CASE flows' = flows \cup {r} /\ pending' = pending \cup {r} /\ reply' = reply
        BY <1>0, <2>1, <2>2, <2>a, <4>1, <4>3 DEF SenderHasOneOwner
      <4> QED  BY <3>1, <4>2, <4>3
    <3>3. WorkerPhase'
      BY <1>0, <2>3, <2>8 DEF WorkerPhase
    <3> QED  BY <2>4, <2>5, <2>8, <3>1, <3>2, <3>3 DEF EngineInvariant
  <2>9. CASE engine # 0 /\ pc' = "drain" /\ UNCHANGED <<reply, flowVars>>
             /\ StartQuery(r, dns, settings.v4 /\ settings.v6)
    <3>1. QueriesOwned' /\ lookups' = lookups \cup {r}
      <4>1. PICK s \in Slots : /\ dns[s] = "free" /\ slot' = [slot EXCEPT ![r] = s]
                               /\ dns' = [dns EXCEPT ![s] = "pending"]
        BY <2>9 DEF StartQuery, FreeSlot
      <4>2. slot[r] = 0 /\ r \in Requests /\ \A q \in Slots : q # 0
        BY <2>1, <2>2 DEF lookups, Slots
      <4>3. /\ \A q \in Requests : slot'[q] = IF q = r THEN s ELSE slot[q]
            /\ \A q \in Slots : dns'[q] = IF q = s THEN "pending"
                                       ELSE IF q = slot[r] THEN "free" ELSE dns[q]
        BY <4>1, <4>2 DEF TypeOK
      <4> HIDE DEF r
      <4> QED  BY <1>0, <4>1, <4>2, <4>3, StartQueryKeeps
    <3>2. SenderHasOneOwner'
      BY <1>0, <2>1, <2>2, <2>6, <2>9, <3>1 DEF SenderHasOneOwner
    <3>3. WorkerPhase'
      BY <1>0, <2>3, <2>9 DEF WorkerPhase
    <3> QED  BY <2>4, <2>6, <2>9, <3>1, <3>2, <3>3 DEF EngineInvariant
  <2>10. {"NotConnected", "LimitReached", "NotFound", "InvalidInput"} \subseteq Failures
    BY DEF Failures
  <2> QED  BY <1>4, <2>7, <2>8, <2>9, <2>10 DEF OnConnect, EngineConnect
<1> QED  BY <1>1, <1>2, <1>3, <1>4 DEF TakeCommand

-----------------------------------------------------------------------------
(* The packets and Engine::step. *)

\* Handing a packet over changes no more than the progress of an attempt, which
\* is genuine if the packet is of the engine's generation.
LEMMA PacketKeeps ==
  ASSUME TypeOK, EngineInvariant, packets # <<>>, PacketArrives,
         UNCHANGED <<commands, generation, clients, engine, slot, fallback, port, history>>
  PROVE  /\ lookups' = lookups /\ flows' = flows /\ pending' = pending
         /\ SenderHasOneOwner' /\ QueriesOwned' /\ UniqueLocalPorts' /\ StreamsFollowTunnel'
         /\ SuccessIsGenuine' /\ AttemptsAreGenuine' /\ GenerationsAscend'
<1> DEFINE p == Head(packets)
<1>0. /\ SenderHasOneOwner /\ QueriesOwned /\ UniqueLocalPorts /\ StreamsFollowTunnel
      /\ SuccessIsGenuine /\ AttemptsAreGenuine /\ GenerationsAscend
  BY DEF EngineInvariant
<1>1. /\ DOMAIN packets' = 1 .. Len(packets) - 1 /\ DOMAIN packets = 1 .. Len(packets)
      /\ \A i \in 1 .. Len(packets) - 1 : packets'[i] = packets[i + 1]
      /\ p = packets[1] /\ Len(packets) \in Nat \ {0} /\ p \in Packets
  BY DEF PacketArrives, TypeOK
<1>2. \A i \in DOMAIN packets' : packets'[i].body = "synack" => <<packets'[i].gen, packets'[i].to>> \in accepted
  <2>1. ASSUME NEW i \in DOMAIN packets'
        PROVE  i + 1 \in DOMAIN packets /\ packets'[i] = packets[i + 1]
    BY <1>1
  <2> QED  BY <1>0, <2>1 DEF AttemptsAreGenuine
<1>3. /\ \A r \in Requests : \/ tcp'[r] = tcp[r]
                             \/ /\ tcp[r] \in {"SynSent", "Established", "CloseWait"}
                                /\ tcp'[r] \in {"SynSent", "Established", "CloseWait", "Closed"}
      /\ \A s \in Slots : (dns'[s] = "free") = (dns[s] = "free")
  <2>1. CASE FreshPacket(p) /\ Deliver(p)
    <3>1. \A r \in Requests : tcp'[r] = IF r = p.to THEN AfterSegment(tcp[r], p.body) ELSE tcp[r]
      BY <1>1, <2>1 DEF Deliver, TypeOK
    <3>2. \A s \in Slots : dns'[s] = dns[s] \/ (dns[s] = "pending" /\ dns'[s] \in Answers)
      BY <2>1 DEF Deliver
    <3> QED  BY <3>1, <3>2 DEF AfterSegment, Answers, Addresses
  <2> QED  BY <2>1 DEF PacketArrives
<1>4. lookups' = lookups /\ flows' = flows /\ pending' = pending
  BY <1>3 DEF lookups, flows, pending
<1>5. \A r \in pending' : tcp'[r] \in {"Established", "CloseWait"} => <<engine', r>> \in accepted'
  <2> SUFFICES ASSUME NEW r \in pending, tcp'[r] \in {"Established", "CloseWait"}
               PROVE  <<engine, r>> \in accepted
    BY <1>4
  <2>1. CASE tcp[r] \in {"Established", "CloseWait"}
    BY <1>0, <2>1 DEF AttemptsAreGenuine
  <2>2. CASE tcp[r] \notin {"Established", "CloseWait"}
    <3>1. r \in Requests
      BY DEF pending, flows
    <3>2. FreshPacket(p) /\ Deliver(p)
      BY <2>2 DEF PacketArrives
    <3>3. p.to = r /\ p.body = "synack" /\ p.gen = engine
      BY <1>1, <2>2, <3>1, <3>2 DEF Deliver, TypeOK, AfterSegment, FreshPacket
    <3>4. 1 \in DOMAIN packets /\ packets[1] = p
      BY <1>1
    <3> HIDE DEF p
    <3> QED  BY <1>0, <3>3, <3>4 DEF AttemptsAreGenuine
  <2> QED  BY <2>1, <2>2
<1>6. AttemptsAreGenuine'
  BY <1>2, <1>5 DEF AttemptsAreGenuine
<1>7. SenderHasOneOwner'
  BY <1>0, <1>4 DEF SenderHasOneOwner, Queued, QueuedOnce
<1>8. QueriesOwned'
  <2>1. \A r \in lookups : slot[r] \in Slots
    BY DEF lookups, TypeOK
  <2> QED  BY <1>0, <1>3, <1>4, <2>1 DEF QueriesOwned
<1>9. UniqueLocalPorts' /\ StreamsFollowTunnel' /\ SuccessIsGenuine' /\ GenerationsAscend'
  BY <1>0, <1>4 DEF UniqueLocalPorts, StreamsFollowTunnel, SuccessIsGenuine, GenerationsAscend
<1> QED  BY <1>4, <1>6, <1>7, <1>8, <1>9

\* Steps of the worker that only move it on, or give up a query.
LEMMA WorkerMovesOn ==
  ASSUME TypeOK, EngineInvariant, WakeUp \/ Egress \/ LookupsDone
  PROVE  EngineInvariant'
<1>0. /\ SenderHasOneOwner /\ QueriesOwned /\ UniqueLocalPorts /\ StreamsFollowTunnel
      /\ SuccessIsGenuine /\ WorkerPhase /\ AttemptsAreGenuine /\ GenerationsAscend
  BY DEF EngineInvariant
<1>1. UNCHANGED <<channels, clients, engine, slot, fallback, flowVars, history>>
  BY DEF WakeUp, Egress, LookupsDone
<1>2. lookups' = lookups /\ flows' = flows /\ pending' = pending
  BY <1>1 DEF lookups, flows, pending
<1>3. SenderHasOneOwner'
  BY <1>0, <1>1, <1>2 DEF SenderHasOneOwner, Queued, QueuedOnce
<1>4. /\ UniqueLocalPorts' /\ StreamsFollowTunnel' /\ SuccessIsGenuine'
      /\ AttemptsAreGenuine' /\ GenerationsAscend'
  BY <1>0, <1>1, <1>2
  DEF UniqueLocalPorts, StreamsFollowTunnel, SuccessIsGenuine, AttemptsAreGenuine, GenerationsAscend
<1>5. QueriesOwned'
  <2>1. \A s \in Slots : (dns'[s] = "free") = (dns[s] = "free")
    BY DEF WakeUp, Egress, LookupsDone
  <2>2. \A r \in lookups : slot[r] \in Slots
    BY DEF lookups, TypeOK
  <2> QED  BY <1>0, <1>1, <1>2, <2>1, <2>2 DEF QueriesOwned
<1>6. WorkerPhase'
  <2>1. CASE WakeUp
    BY <1>0, <1>1, <1>2, <2>1 DEF WakeUp, WorkerPhase
  <2>2. CASE Egress
    <3>1. lookups \in SUBSET Requests
      BY DEF lookups
    <3>2. IsInjective(todo') /\ ToSet(todo') = lookups
      BY <2>2, <3>1, ScanBegins DEF Egress
    <3> QED  BY <1>0, <1>1, <1>2, <2>2, <3>2 DEF Egress, WorkerPhase
  <2>3. CASE LookupsDone
    <3>1. flows \in SUBSET Requests /\ pending \subseteq flows
      BY DEF flows, pending
    <3>2. IsInjective(todo') /\ ToSet(todo') = flows
      BY <2>3, <3>1, ScanBegins DEF LookupsDone
    <3>3. ToSet(todo) = {}
      BY <2>3 DEF LookupsDone, ToSet
    <3> QED  BY <1>0, <1>1, <1>2, <2>3, <3>1, <3>2, <3>3 DEF LookupsDone, WorkerPhase
  <2> QED  BY <2>1, <2>2, <2>3
<1> QED  BY <1>3, <1>4, <1>5, <1>6 DEF EngineInvariant

\* The end of a step, with or without the engine.
LEMMA FinishStepKeeps ==
  ASSUME TypeOK, EngineInvariant, FinishStep
  PROVE  EngineInvariant'
<1>0. /\ SenderHasOneOwner /\ QueriesOwned /\ UniqueLocalPorts /\ StreamsFollowTunnel
      /\ SuccessIsGenuine /\ WorkerPhase /\ AttemptsAreGenuine /\ GenerationsAscend
  BY DEF EngineInvariant
<1>1. pc' = "select" /\ UNCHANGED <<channels, history>>
  BY DEF FinishStep
<1>2. Queued' = Queued /\ QueuedOnce'
  BY <1>0, <1>1 DEF Queued, QueuedOnce, SenderHasOneOwner
<1>3. CASE EngineNone /\ HangUp(lookups \cup pending)
  <2>1. DiscardEngine /\ engine' = 0
    BY <1>3 DEF EngineNone
  <2>2. SenderHasOneOwner' /\ SuccessIsGenuine'
    BY <1>1, <1>2, <1>3, <2>1, DiscardKeeps, HangUpKeeps
  <2>3. AttemptsAreGenuine' /\ WorkerPhase'
    BY <1>1, <2>1, DiscardKeeps, PacketsStayGenuine DEF WorkerPhase
  <2>4. GenerationsAscend'
    <3>1. \A i \in DOMAIN commands : commands[i].op = "online" => commands[i].gen \in Nat
      <4>1. \A i \in DOMAIN commands : commands[i] \in Commands
        BY DEF TypeOK
      <4> QED  BY <4>1 DEF Commands
    <3> QED  BY <1>0, <1>1, <2>1, <3>1 DEF GenerationsAscend, TypeOK
  <2> QED  BY <1>1, <2>1, <2>2, <2>3, <2>4, DiscardKeeps DEF EngineInvariant
<1>4. CASE UNCHANGED <<clients, todo, engine, device, lookupVars, flowVars>>
  <2>1. lookups' = lookups /\ flows' = flows /\ pending' = pending
    BY <1>4 DEF lookups, flows, pending
  <2>2. /\ SenderHasOneOwner' /\ QueriesOwned' /\ UniqueLocalPorts' /\ StreamsFollowTunnel'
        /\ SuccessIsGenuine' /\ AttemptsAreGenuine' /\ GenerationsAscend'
    BY <1>0, <1>1, <1>2, <1>4, <2>1
    DEF SenderHasOneOwner, QueriesOwned, UniqueLocalPorts, StreamsFollowTunnel,
        SuccessIsGenuine, AttemptsAreGenuine, GenerationsAscend
  <2>3. WorkerPhase'
    BY <1>0, <1>1, <1>4, <2>1 DEF WorkerPhase
  <2> QED  BY <2>2, <2>3 DEF EngineInvariant
<1> QED  BY <1>3, <1>4 DEF FinishStep

\* Serving a lookup.
LEMMA ServeLookupKeeps ==
  ASSUME TypeOK, EngineInvariant, NEW r \in Requests, ServeLookup(r)
  PROVE  EngineInvariant'
<1>0. /\ SenderHasOneOwner /\ QueriesOwned /\ UniqueLocalPorts /\ StreamsFollowTunnel
      /\ SuccessIsGenuine /\ WorkerPhase /\ AttemptsAreGenuine /\ GenerationsAscend
  BY DEF EngineInvariant
<1>1. /\ pc = "lookups" /\ engine # 0 /\ todo # <<>> /\ r = Head(todo)
      /\ todo \in Seq(Requests) /\ IsInjective(todo)
      /\ UNCHANGED <<channels, pc, late, drained, engine, device, history>>
  BY <1>0 DEF ServeLookup, WorkerPhase, TypeOK
<1>a. r \in ToSet(todo)
  BY <1>1, ScanTurn
<1>b. ASSUME todo' = SwapRemove(todo) \/ todo' = Tail(todo)
      PROVE  IsInjective(todo') /\ ToSet(todo') = ToSet(todo) \ {r}
  BY <1>1, <1>b, ScanTurn
<1>c. ASSUME todo' = Append(SwapRemove(todo), r)
      PROVE  IsInjective(todo') /\ ToSet(todo') = ToSet(todo)
  BY <1>1, <1>c, ScanAgain
<1>2. r \in lookups /\ r \notin flows /\ r \notin Queued /\ pending \subseteq flows
      /\ reply[r] \in {"waiting", "cancelled"}
  BY <1>0, <1>1, <1>a DEF WorkerPhase, SenderHasOneOwner, pending
<1>3. Queued' = Queued /\ QueuedOnce' /\ GenerationsAscend'
  BY <1>0, <1>1 DEF Queued, QueuedOnce, SenderHasOneOwner, GenerationsAscend
<1>4. ASSUME FreeQuery(r), ForgetLookup(r)
      PROVE  QueriesOwned' /\ lookups' = lookups \ {r}
  <2>1. /\ \A q \in Requests : slot'[q] = IF q = r THEN 0 ELSE slot[q]
        /\ \A s \in Slots : dns'[s] = IF s = slot[r] THEN "free" ELSE dns[s]
    BY <1>4 DEF FreeQuery, ForgetLookup, TypeOK
  <2>2. lookups \subseteq Requests /\ \A q \in lookups : slot[q] \in Slots
    BY DEF lookups, TypeOK
  <2>3. lookups' = lookups \ {r}
    BY <2>1 DEF lookups
  <2>4. \A q \in lookups' : q # r /\ slot'[q] = slot[q] /\ slot[q] # slot[r]
    BY <1>0, <1>2, <2>1, <2>2, <2>3 DEF QueriesOwned
  <2>5. \A q, u \in lookups' : dns'[slot'[q]] # "free" /\ (slot'[q] = slot'[u] => q = u)
    BY <1>0, <2>1, <2>2, <2>3, <2>4 DEF QueriesOwned
  <2>6. \A s \in Slots : dns'[s] # "free" => \E q \in lookups' : slot'[q] = s
    BY <1>0, <2>1, <2>2, <2>3 DEF QueriesOwned
  <2> QED  BY <2>3, <2>5, <2>6 DEF QueriesOwned
<1>5. ASSUME FreeQuery(r), ForgetLookup(r), NEW outcome \in Failures, Answer(r, outcome),
             todo' = SwapRemove(todo), UNCHANGED flowVars
      PROVE  EngineInvariant'
  <2>1. /\ \A q \in Requests : q # r => reply'[q] = reply[q]
        /\ reply'[r] # "waiting" /\ reply'[r] # "Ok"
    BY <1>2, <1>5 DEF Answer, TypeOK, Failures
  <2>2. flows' = flows /\ pending' = pending /\ flows \subseteq Requests
    BY <1>5 DEF flows, pending
  <2>3. SenderHasOneOwner'
    BY <1>0, <1>2, <1>3, <1>4, <1>5, <2>1, <2>2 DEF SenderHasOneOwner
  <2>4. StreamsFollowTunnel' /\ SuccessIsGenuine'
    BY <1>0, <1>1, <1>2, <2>1, <2>2 DEF StreamsFollowTunnel, SuccessIsGenuine
  <2>5. UniqueLocalPorts' /\ AttemptsAreGenuine'
    BY <1>0, <1>1, <1>5, <2>2 DEF UniqueLocalPorts, AttemptsAreGenuine
  <2>6. WorkerPhase'
    BY <1>0, <1>1, <1>b, <1>4, <1>5, <2>2 DEF WorkerPhase
  <2> QED  BY <1>3, <1>4, <1>5, <2>3, <2>4, <2>5, <2>6 DEF EngineInvariant
<1>6. CASE todo' = Tail(todo) /\ UNCHANGED <<clients, lookupVars, flowVars>> /\ ~Overdue(r)
  <2>1. lookups' = lookups /\ flows' = flows /\ pending' = pending
    BY <1>6 DEF lookups, flows, pending
  <2>2. /\ SenderHasOneOwner' /\ QueriesOwned' /\ UniqueLocalPorts' /\ StreamsFollowTunnel'
        /\ SuccessIsGenuine' /\ AttemptsAreGenuine'
    BY <1>0, <1>1, <1>3, <1>6, <2>1
    DEF SenderHasOneOwner, QueriesOwned, UniqueLocalPorts, StreamsFollowTunnel,
        SuccessIsGenuine, AttemptsAreGenuine
  <2>3. WorkerPhase'
    BY <1>0, <1>1, <1>b, <1>6, <2>1 DEF WorkerPhase, Overdue
  <2> QED  BY <1>3, <2>2, <2>3 DEF EngineInvariant
<1>7. CASE /\ ConnectIp(r, dns[slot[r]]) /\ FreeQuery(r) /\ ForgetLookup(r)
           /\ todo' = SwapRemove(todo)
  <2>1. /\ UniqueLocalPorts' /\ StreamsFollowTunnel' /\ SuccessIsGenuine' /\ AttemptsAreGenuine'
        /\ \A q \in Requests : q # r => reply'[q] = reply[q]
        /\ \/ flows' = flows /\ pending' = pending /\ reply'[r] # "waiting"
           \/ flows' = flows \cup {r} /\ pending' = pending \cup {r} /\ reply' = reply
    BY <1>1, <1>2, <1>7, ConnectIpKeeps
  <2>2. QueriesOwned' /\ lookups' = lookups \ {r}
    BY <1>4, <1>7
  <2>3. SenderHasOneOwner'
    <3>1. CASE flows' = flows /\ pending' = pending /\ reply'[r] # "waiting"
      BY <1>0, <1>2, <1>3, <2>1, <2>2, <3>1 DEF SenderHasOneOwner
    <3>2. CASE flows' = flows \cup {r} /\ pending' = pending \cup {r} /\ reply' = reply
      BY <1>0, <1>2, <1>3, <2>2, <3>2 DEF SenderHasOneOwner
    <3> QED  BY <2>1, <3>1, <3>2
  <2>4. WorkerPhase'
    BY <1>0, <1>1, <1>b, <1>7, <2>2 DEF WorkerPhase
  <2> QED  BY <1>3, <2>1, <2>2, <2>3, <2>4 DEF EngineInvariant
<1>8. CASE /\ StartQuery(r, [dns EXCEPT ![slot[r]] = "free"], FALSE)
           /\ todo' = Append(SwapRemove(todo), r) /\ UNCHANGED <<clients, flowVars>>
  <2>1. PICK s \in Slots : /\ [dns EXCEPT ![slot[r]] = "free"][s] = "free"
                           /\ slot' = [slot EXCEPT ![r] = s]
                           /\ dns' = [[dns EXCEPT ![slot[r]] = "free"] EXCEPT ![s] = "pending"]
    BY <1>8 DEF StartQuery, FreeSlot
  <2>2. dns[s] = "free" \/ s = slot[r]
    BY <2>1 DEF TypeOK
  <2>3. /\ \A q \in Requests : slot'[q] = IF q = r THEN s ELSE slot[q]
        /\ \A q \in Slots : dns'[q] = IF q = s THEN "pending"
                                   ELSE IF q = slot[r] THEN "free" ELSE dns[q]
    BY <2>1 DEF TypeOK
  <2>4. QueriesOwned' /\ lookups' = lookups
    BY <1>0, <1>2, <2>2, <2>3, StartQueryKeeps
  <2>5. flows' = flows /\ pending' = pending
    BY <1>8 DEF flows, pending
  <2>6. /\ SenderHasOneOwner' /\ UniqueLocalPorts' /\ StreamsFollowTunnel'
        /\ SuccessIsGenuine' /\ AttemptsAreGenuine'
    BY <1>0, <1>1, <1>3, <1>8, <2>4, <2>5
    DEF SenderHasOneOwner, UniqueLocalPorts, StreamsFollowTunnel, SuccessIsGenuine, AttemptsAreGenuine
  <2>7. WorkerPhase'
    BY <1>0, <1>1, <1>c, <1>8, <2>4, <2>5 DEF WorkerPhase
  <2> QED  BY <1>3, <2>4, <2>6, <2>7 DEF EngineInvariant
<1>9. {"TimedOut", "NotFound"} \subseteq Failures
  BY DEF Failures
<1> QED  BY <1>5, <1>6, <1>7, <1>8, <1>9 DEF ServeLookup

\* Where the scan of the flows is, and what a turn of it leaves.
LEMMA FlowTurn ==
  ASSUME TypeOK, EngineInvariant, NEW r \in Requests,
         pc \in {"flows", "reply"}, todo # <<>>, r = Head(todo),
         UNCHANGED <<channels, late, drained, engine, device, lookupVars, accepted>>
  PROVE  /\ r \in flows /\ r \notin lookups /\ r \notin Queued
         /\ pending \subseteq flows /\ flows \subseteq Requests /\ engine # 0
         /\ Queued' = Queued /\ QueuedOnce' /\ GenerationsAscend' /\ lookups' = lookups
         /\ QueriesOwned'
         /\ MoveOn(r) => /\ pc' = "flows" /\ IsInjective(todo')
                         /\ ToSet(todo') = ToSet(todo) \ {r}
<1>0. SenderHasOneOwner /\ QueriesOwned /\ WorkerPhase /\ GenerationsAscend
  BY DEF EngineInvariant
<1>1. todo \in Seq(Requests) /\ IsInjective(todo)
  BY <1>0 DEF WorkerPhase, TypeOK
<1>2. r \in ToSet(todo)
  BY <1>1, ScanTurn
<1>3. /\ r \in flows /\ r \notin lookups /\ r \notin Queued
      /\ pending \subseteq flows /\ flows \subseteq Requests /\ engine # 0
  BY <1>0, <1>2 DEF WorkerPhase, SenderHasOneOwner, pending, flows
<1>4. /\ Queued' = Queued /\ QueuedOnce' /\ GenerationsAscend' /\ lookups' = lookups
      /\ QueriesOwned'
  BY <1>0 DEF Queued, QueuedOnce, SenderHasOneOwner, GenerationsAscend, lookups, QueriesOwned
<1>5. ASSUME MoveOn(r)
      PROVE  pc' = "flows" /\ IsInjective(todo') /\ ToSet(todo') = ToSet(todo) \ {r}
  <2>1. todo' = SwapRemove(todo) \/ todo' = Tail(todo)
    BY <1>5 DEF MoveOn
  <2> QED  BY <1>1, <1>5, <2>1, ScanTurn DEF MoveOn
<1> QED  BY <1>3, <1>4, <1>5

\* A flow that the scan removes, its caller having been answered.
LEMMA FlowEnds ==
  ASSUME TypeOK, EngineInvariant, NEW r \in Requests,
         pc \in {"flows", "reply"}, todo # <<>>, r = Head(todo),
         UNCHANGED <<channels, late, drained, engine, device, lookupVars, accepted>>,
         RemoveFlow(r), MoveOn(r), reply'[r] # "waiting",
         \A q \in Requests : q # r => reply'[q] = reply[q] /\ home'[q] = home[q],
         reply'[r] = "Ok" => <<home'[r], r>> \in accepted
  PROVE  EngineInvariant'
<1>0. /\ SenderHasOneOwner /\ QueriesOwned /\ UniqueLocalPorts /\ StreamsFollowTunnel
      /\ SuccessIsGenuine /\ WorkerPhase /\ AttemptsAreGenuine /\ GenerationsAscend
  BY DEF EngineInvariant
<1>1. /\ r \in flows /\ r \notin lookups /\ r \notin Queued
      /\ pending \subseteq flows /\ flows \subseteq Requests /\ engine # 0
      /\ Queued' = Queued /\ QueuedOnce' /\ GenerationsAscend' /\ lookups' = lookups
      /\ QueriesOwned' /\ pc' = "flows" /\ IsInjective(todo')
      /\ ToSet(todo') = ToSet(todo) \ {r}
  BY FlowTurn
<1>2. \A q \in Requests : q # r => tcp'[q] = tcp[q] /\ port'[q] = port[q]
  BY DEF RemoveFlow, TypeOK
<1>3. flows' = flows \ {r} /\ pending' = pending \ {r}
  BY DEF RemoveFlow, flows, pending, TypeOK
<1>4. SenderHasOneOwner'
  BY <1>0, <1>1, <1>3 DEF SenderHasOneOwner
<1>5. UniqueLocalPorts' /\ AttemptsAreGenuine'
  BY <1>0, <1>1, <1>2, <1>3 DEF UniqueLocalPorts, AttemptsAreGenuine
<1>6. StreamsFollowTunnel' /\ SuccessIsGenuine'
  BY <1>0, <1>1, <1>2, <1>3 DEF StreamsFollowTunnel, SuccessIsGenuine
<1>7. WorkerPhase'
  BY <1>0, <1>1, <1>3 DEF WorkerPhase
<1> QED  BY <1>1, <1>4, <1>5, <1>6, <1>7 DEF EngineInvariant

\* The lookup that is served is one of the engine's.
LEMMA ServeLookupInEngine ==
  ASSUME TypeOK, EngineInvariant, NEW r \in Requests, ServeLookup(r)
  PROVE  r \in lookups
<1>1. todo \in Seq(Requests) /\ todo # <<>> /\ IsInjective(todo) /\ r = Head(todo)
  BY DEF ServeLookup, TypeOK, EngineInvariant, WorkerPhase
<1> QED  BY <1>1, ScanTurn DEF ServeLookup, EngineInvariant, WorkerPhase

\* Polling a flow.
LEMMA PollFlowKeeps ==
  ASSUME TypeOK, EngineInvariant, NEW r \in Requests, PollFlow(r)
  PROVE  EngineInvariant'
<1>0. /\ SenderHasOneOwner /\ QueriesOwned /\ UniqueLocalPorts /\ StreamsFollowTunnel
      /\ SuccessIsGenuine /\ WorkerPhase /\ AttemptsAreGenuine /\ GenerationsAscend
  BY DEF EngineInvariant
<1>1. /\ pc = "flows" /\ todo # <<>> /\ r = Head(todo)
      /\ UNCHANGED <<channels, late, drained, engine, device, lookupVars, history>>
  BY DEF PollFlow
<1>2. /\ r \in flows /\ r \notin lookups /\ r \notin Queued
      /\ pending \subseteq flows /\ flows \subseteq Requests /\ engine # 0
      /\ Queued' = Queued /\ QueuedOnce' /\ GenerationsAscend' /\ lookups' = lookups
      /\ QueriesOwned'
      /\ MoveOn(r) => /\ pc' = "flows" /\ IsInjective(todo')
                      /\ ToSet(todo') = ToSet(todo) \ {r}
  BY <1>1, FlowTurn
<1>3. ASSUME UNCHANGED <<reply, expired, flowVars>>, WorkerPhase' PROVE EngineInvariant'
  <2>1. flows' = flows /\ pending' = pending
    BY <1>3 DEF flows, pending
  <2>2. /\ SenderHasOneOwner' /\ UniqueLocalPorts' /\ StreamsFollowTunnel'
        /\ SuccessIsGenuine' /\ AttemptsAreGenuine'
    BY <1>0, <1>1, <1>2, <1>3, <2>1
    DEF SenderHasOneOwner, UniqueLocalPorts, StreamsFollowTunnel, SuccessIsGenuine, AttemptsAreGenuine
  <2> QED  BY <1>2, <1>3, <2>2 DEF EngineInvariant
<1>4. CASE UNCHANGED <<reply, expired, flowVars>> /\ MoveOn(r) /\ (r \notin pending \/ ~Overdue(r))
  <2>1. flows' = flows /\ pending' = pending
    BY <1>4 DEF flows, pending
  <2>2. WorkerPhase'
    BY <1>0, <1>1, <1>2, <1>4, <2>1 DEF WorkerPhase, Overdue
  <2> QED  BY <1>3, <1>4, <2>2
<1>5. CASE /\ pc' = "reply" /\ UNCHANGED <<clients, todo, flowVars>>
           /\ ~Overdue(r) /\ IsConnected(r)
  <2>1. flows' = flows /\ pending' = pending
    BY <1>5 DEF flows, pending
  <2>2. WorkerPhase'
    BY <1>0, <1>1, <1>2, <1>5, <2>1 DEF WorkerPhase, Overdue, IsConnected
  <2> QED  BY <1>3, <1>5, <2>2
<1>6. ASSUME r \in pending, NEW outcome \in {"TimedOut", "ConnectionRefused"}, Answer(r, outcome),
             RemoveFlow(r), MoveOn(r)
      PROVE  EngineInvariant'
  <2>1. reply'[r] # "waiting" /\ reply'[r] # "Ok" /\ \A q \in Requests : q # r => reply'[q] = reply[q]
    BY <1>0, <1>6 DEF Answer, TypeOK, SenderHasOneOwner
  <2> QED  BY <1>1, <1>6, <2>1, FlowEnds
<1>7. CASE r \in pending /\ reply[r] = "cancelled" /\ RemoveFlow(r) /\ MoveOn(r) /\ UNCHANGED reply
  BY <1>1, <1>7, FlowEnds
<1>8. CASE r \notin pending /\ RemoveFlow(r) /\ MoveOn(r) /\ UNCHANGED reply
  <2>1. reply[r] = "Ok"
    BY <1>0, <1>2, <1>8 DEF StreamsFollowTunnel
  <2>2. <<home[r], r>> \in accepted
    BY <1>0, <2>1 DEF SuccessIsGenuine
  <2> QED  BY <1>1, <1>8, <2>1, <2>2, FlowEnds
<1> QED  BY <1>4, <1>5, <1>6, <1>7, <1>8 DEF PollFlow, PollPending, PollBridged

\* Telling the caller, or finding him gone.
LEMMA SendReplyKeeps ==
  ASSUME TypeOK, EngineInvariant, NEW r \in Requests, SendReply(r)
  PROVE  EngineInvariant'
<1>0. /\ SenderHasOneOwner /\ QueriesOwned /\ UniqueLocalPorts /\ StreamsFollowTunnel
      /\ SuccessIsGenuine /\ WorkerPhase /\ AttemptsAreGenuine /\ GenerationsAscend
  BY DEF EngineInvariant
<1>1. /\ pc = "reply" /\ todo # <<>> /\ r = Head(todo) /\ MoveOn(r)
      /\ UNCHANGED <<channels, late, drained, engine, device, lookupVars, accepted>>
  BY DEF SendReply
<1>2. /\ r \in flows /\ r \notin lookups /\ r \notin Queued
      /\ pending \subseteq flows /\ flows \subseteq Requests /\ engine # 0
      /\ Queued' = Queued /\ QueuedOnce' /\ GenerationsAscend' /\ lookups' = lookups
      /\ QueriesOwned' /\ pc' = "flows" /\ IsInjective(todo')
      /\ ToSet(todo') = ToSet(todo) \ {r}
  BY <1>1, FlowTurn
<1>3. r \in pending /\ tcp[r] = "Established" /\ reply[r] \in {"waiting", "cancelled"}
      /\ <<engine, r>> \in accepted
  BY <1>0, <1>1, <1>2 DEF WorkerPhase, pending, SenderHasOneOwner, AttemptsAreGenuine
<1>4. CASE ~ReplyTaken(r) /\ RemoveFlow(r) /\ UNCHANGED <<reply, home>>
  BY <1>1, <1>4, FlowEnds DEF ReplyTaken
<1>5. CASE ReplyTaken(r) /\ Answer(r, "Ok") /\ home' = [home EXCEPT ![r] = engine]
  <2>1. /\ reply'[r] = "Ok" /\ home'[r] = engine
        /\ \A q \in Requests : q # r => reply'[q] = reply[q] /\ home'[q] = home[q]
    BY <1>3, <1>5 DEF ReplyTaken, Answer, TypeOK
  <2>2. CASE RemoveFlow(r)
    BY <1>1, <1>3, <2>1, <2>2, FlowEnds
  <2>3. CASE tcp' = [tcp EXCEPT ![r] = "Bridged"] /\ UNCHANGED port
    <3>1. flows' = flows /\ pending' = pending \ {r}
      BY <1>2, <2>3 DEF flows, pending, TypeOK
    <3>2. SenderHasOneOwner'
      BY <1>0, <1>2, <2>1, <3>1 DEF SenderHasOneOwner
    <3>3. UniqueLocalPorts'
      BY <1>0, <2>3, <3>1 DEF UniqueLocalPorts
    <3>4. AttemptsAreGenuine'
      <4>1. \A q \in pending' : tcp'[q] = tcp[q]
        BY <1>2, <2>3, <3>1 DEF TypeOK
      <4> QED  BY <1>0, <1>1, <3>1, <4>1 DEF AttemptsAreGenuine
    <3>5. StreamsFollowTunnel' /\ SuccessIsGenuine'
      BY <1>0, <1>1, <1>2, <1>3, <2>1, <3>1 DEF StreamsFollowTunnel, SuccessIsGenuine
    <3>6. WorkerPhase'
      BY <1>0, <1>1, <1>2, <3>1 DEF WorkerPhase
    <3> QED  BY <1>2, <3>2, <3>3, <3>4, <3>5, <3>6 DEF EngineInvariant
  <2> QED  BY <1>5, <2>2, <2>3 DEF SendReply, ReplyTaken
<1> QED  BY <1>4, <1>5 DEF SendReply

-----------------------------------------------------------------------------
(* The theorem and what follows from it. *)

\* Every step keeps the invariant.
LEMMA StepKeeps == TypeOK /\ EngineInvariant /\ [Next]_vars => EngineInvariant'
<1> SUFFICES ASSUME TypeOK, EngineInvariant, [Next]_vars PROVE EngineInvariant'
  OBVIOUS
<1>1. CASE UNCHANGED vars
  BY <1>1 DEF EngineInvariant, SenderHasOneOwner, QueriesOwned, UniqueLocalPorts, StreamsFollowTunnel,
              SuccessIsGenuine, WorkerPhase, AttemptsAreGenuine, GenerationsAscend, Queued, QueuedOnce,
              lookups, flows, pending, vars
<1>2. CASE TakePacket
  <2>1. WorkerPhase'
    BY <1>2, PacketKeeps DEF TakePacket, WorkerPhase, EngineInvariant
  <2> QED  BY <1>2, <2>1, PacketKeeps DEF TakePacket, EngineInvariant
<1>3. CASE Drain
  <2>1. WorkerPhase'
    BY <1>3, PacketKeeps DEF Drain, WorkerPhase, EngineInvariant
  <2> QED  BY <1>3, <2>1, PacketKeeps DEF Drain, EngineInvariant
<1> QED
  BY <1>1, <1>2, <1>3, OutsideKeeps, TakeCommandKeeps, WorkerMovesOn, FinishStepKeeps,
     ServeLookupKeeps, PollFlowKeeps, SendReplyKeeps DEF Next, Worker

\* The initial state satisfies it.
LEMMA InitKeeps == Init => EngineInvariant
<1> SUFFICES ASSUME Init PROVE EngineInvariant
  OBVIOUS
<1>1. lookups = {} /\ flows = {} /\ pending = {} /\ Queued = {} /\ QueuedOnce
  BY DEF Init, lookups, flows, pending, Queued, QueuedOnce
<1>2. IsInjective(todo)
  BY DEF Init, IsInjective
<1> QED
  BY <1>1, <1>2 DEF Init, EngineInvariant, SenderHasOneOwner, QueriesOwned, UniqueLocalPorts, StreamsFollowTunnel,
              SuccessIsGenuine, WorkerPhase, AttemptsAreGenuine, GenerationsAscend

\* Senders, queries, ports, streams, successes and generations stay consistent,
\* whatever the number of requests, connections, ports and packets.
THEOREM EngineConsistent == Spec => []EngineInvariant
  BY TypeCorrect, InitKeeps, StepKeeps, PTL DEF Spec

\* No step ends with a request unanswered that it had found overdue.
THEOREM DeadlineTheorem == Spec => []DeadlinesKept
<1>1. EngineInvariant => DeadlinesKept
  <2>1. todo = <<>> => ToSet(todo) = {}
    BY DEF ToSet
  <2> QED  BY <2>1 DEF EngineInvariant, WorkerPhase, DeadlinesKept
<1> QED  BY <1>1, EngineConsistent, PTL

\* Every caller that waits is answered from exactly one place.
THEOREM OwnerTheorem == Spec => []SenderHasOneOwner
<1>1. EngineInvariant => SenderHasOneOwner
  BY DEF EngineInvariant
<1> QED  BY <1>1, EngineConsistent, PTL

\* No two sockets share a local port, whatever the range and its wrap-around.
THEOREM PortsTheorem == Spec => []UniqueLocalPorts
<1>1. EngineInvariant => UniqueLocalPorts
  BY DEF EngineInvariant
<1> QED  BY <1>1, EngineConsistent, PTL

\* A timed-out or abandoned lookup leaves no query behind.
THEOREM QueriesTheorem == Spec => []QueriesOwned
<1>1. EngineInvariant => QueriesOwned
  BY DEF EngineInvariant
<1> QED  BY <1>1, EngineConsistent, PTL

\* No stream outlives the tunnel it was opened over.
THEOREM StreamsTheorem == Spec => []StreamsFollowTunnel
<1>1. EngineInvariant => StreamsFollowTunnel
  BY DEF EngineInvariant
<1> QED  BY <1>1, EngineConsistent, PTL

\* Nobody is told of a connection that the server did not accept over that tunnel.
THEOREM SuccessTheorem == Spec => []SuccessIsGenuine
<1>1. EngineInvariant => SuccessIsGenuine
  BY DEF EngineInvariant
<1> QED  BY <1>1, EngineConsistent, PTL

-----------------------------------------------------------------------------
(* The deadline a request keeps through its stages. *)

\* Only a request the engine still answers for has a deadline.
ExpiredOwned == expired \subseteq lookups \cup pending

\* What SharedDeadline says of a step.
DeadlineStays ==
    \A r \in expired :
      reply[r] = "waiting" =>
        /\ reply'[r] = "waiting" => r \in expired'
        /\ reply'[r] = "Ok" => r \notin late

\* A step that keeps every deadline and gives no good news.
LEMMA DeadlinesUntouched ==
  ASSUME ExpiredOwned, expired \subseteq expired', expired' \subseteq lookups' \cup pending',
         \A r \in expired : reply[r] = "waiting" => reply'[r] # "Ok"
  PROVE  ExpiredOwned' /\ DeadlineStays
  BY DEF ExpiredOwned, DeadlineStays

\* The engine goes: it answers everyone that had a deadline.
LEMMA DeadlinesDiscarded ==
  ASSUME TypeOK, ExpiredOwned, DiscardEngine, NEW who, lookups \cup pending \subseteq who, HangUp(who)
  PROVE  ExpiredOwned' /\ DeadlineStays
<1>1. expired' = {}
  BY DEF DiscardEngine
<1>2. \A r \in expired : reply[r] = "waiting" => reply'[r] = "NotConnected"
  BY DEF ExpiredOwned, HangUp, TypeOK
<1> QED  BY <1>1, <1>2 DEF ExpiredOwned, DeadlineStays

\* connect_ip, called for a request that is in use nowhere else: it is answered
\* with a failure, or becomes an attempt.
LEMMA ConnectIpDecides ==
  ASSUME TypeOK, NEW r \in Requests, tcp[r] = "None", NEW a, ConnectIp(r, a)
  PROVE  /\ \A q \in Requests : q # r => reply'[q] = reply[q] /\ tcp'[q] = tcp[q]
         /\ \/ tcp'[r] = "SynSent" /\ reply'[r] = reply[r]
            \/ tcp'[r] = "None" /\ reply'[r] \notin {"waiting", "Ok"}
            \/ tcp'[r] = "None" /\ reply'[r] = reply[r] /\ reply[r] # "waiting"
<1>1. ASSUME NEW outcome \in Failures, Answer(r, outcome)
      PROVE  /\ \A q \in Requests : q # r => reply'[q] = reply[q]
             /\ \/ reply'[r] \notin {"waiting", "Ok"}
                \/ reply'[r] = reply[r] /\ reply[r] # "waiting"
  BY <1>1 DEF Answer, TypeOK, Failures
<1>2. CASE UNCHANGED tcp /\ \E outcome \in Failures : Answer(r, outcome)
  BY <1>1, <1>2
<1>3. CASE tcp' = [tcp EXCEPT ![r] = "SynSent"] /\ UNCHANGED reply
  BY <1>3 DEF TypeOK
<1> QED  BY <1>2, <1>3 DEF ConnectIp, Failures

\* Every step of the callers, the adapter and the clock keeps the deadlines.
LEMMA OutsideDeadlines ==
  ASSUME TypeOK, ExpiredOwned, Callers \/ Adapter \/ DropWorker \/ Clock
  PROVE  ExpiredOwned' /\ DeadlineStays
<1>1. lookups' = lookups /\ pending' = pending
  BY OutsideFrame DEF lookups, pending, flows
<1>2. expired \subseteq expired' /\ expired' \subseteq lookups \cup pending
  BY DEF ExpiredOwned, Callers, Adapter, Clock, DropWorker, TunnelConnect, Cancel, TunnelOnline,
         TunnelOffline, TunnelReceive, Expire
<1>3. \A r \in Requests : reply[r] = "waiting" => reply'[r] # "Ok"
  BY DEF Callers, Adapter, Clock, DropWorker, TunnelConnect, Cancel, TunnelOnline,
         TunnelOffline, TunnelReceive, Expire, TypeOK
<1>4. expired \subseteq Requests
  BY DEF TypeOK
<1> QED  BY <1>1, <1>2, <1>3, <1>4, DeadlinesUntouched

\* A command leaves them alone, or takes the engine and everyone in it down.
LEMMA TakeCommandDeadlines ==
  ASSUME TypeOK, EngineInvariant, ExpiredOwned, TakeCommand
  PROVE  ExpiredOwned' /\ DeadlineStays
<1> DEFINE c == Head(commands)
<1>1. /\ c \in Commands /\ commands # <<>> /\ QueuedOnce /\ expired \subseteq Requests
      /\ lookups \cup pending \subseteq lookups \cup flows
      /\ Queued \cap (lookups \cup flows) = {}
  BY DEF TakeCommand, TypeOK, EngineInvariant, SenderHasOneOwner, pending
<1>2. CASE OnShutdown
  BY <1>2, DeadlinesDiscarded DEF OnShutdown, EngineNone
<1>3. CASE OnOnline(c.gen, c.settings)
  BY <1>3, DeadlinesDiscarded DEF OnOnline
<1>4. CASE OnOffline(c.gen)
  <2>1. CASE EngineNone /\ HangUp(lookups \cup pending)
    BY <2>1, DeadlinesDiscarded DEF EngineNone
  <2>2. CASE UNCHANGED <<clients, lookupVars, flowVars>>
    BY <2>2 DEF ExpiredOwned, DeadlineStays, lookups, pending, flows
  <2> QED  BY <1>4, <2>1, <2>2 DEF OnOffline
<1>5. CASE c.op = "connect" /\ OnConnect(c.req, c.target) /\ commands' = Tail(commands)
  <2> DEFINE r == c.req
  <2>1. r \in Requests /\ r \in Queued /\ tcp[r] = "None"
    BY <1>1, <1>5, TailQueue DEF Commands, flows
  <2>2. r \notin expired /\ expired' = expired
    BY <1>1, <1>5, <2>1 DEF ExpiredOwned, OnConnect
  <2>3. ASSUME \A q \in Requests : q # r => reply'[q] = reply[q] /\ slot'[q] = slot[q] /\ tcp'[q] = tcp[q]
        PROVE  ExpiredOwned' /\ DeadlineStays
    <3>1. \A q \in expired : q \in lookups' \cup pending' /\ reply'[q] = reply[q]
      BY <1>1, <2>2, <2>3 DEF ExpiredOwned, lookups, pending, flows
    <3> QED  BY <2>2, <3>1, DeadlinesUntouched
  <2>4. CASE UNCHANGED <<slot, tcp>> /\ (UNCHANGED reply \/ \E outcome \in Failures : Answer(r, outcome))
    BY <2>3, <2>4 DEF Answer, TypeOK
  <2>5. CASE ConnectIp(r, c.target) /\ UNCHANGED slot
    BY <2>1, <2>3, <2>5, ConnectIpDecides
  <2>6. CASE StartQuery(r, dns, settings.v4 /\ settings.v6) /\ UNCHANGED <<reply, tcp>>
    BY <2>3, <2>6 DEF StartQuery, TypeOK
  <2>7. {"NotConnected", "LimitReached", "NotFound", "InvalidInput"} \subseteq Failures
    BY DEF Failures
  <2> QED  BY <1>5, <2>4, <2>5, <2>6, <2>7 DEF OnConnect, EngineConnect
<1> QED  BY <1>2, <1>3, <1>4, <1>5 DEF TakeCommand

\* A lookup keeps its deadline until it is answered, also as it becomes an attempt.
LEMMA ServeLookupDeadlines ==
  ASSUME TypeOK, EngineInvariant, ExpiredOwned, NEW r \in Requests, ServeLookup(r)
  PROVE  ExpiredOwned' /\ DeadlineStays
<1>1. /\ r \in lookups /\ tcp[r] = "None" /\ reply[r] \in {"waiting", "cancelled"}
      /\ expired \subseteq Requests
  <2>1. r \in lookups
    BY ServeLookupInEngine
  <2> QED  BY <2>1 DEF EngineInvariant, SenderHasOneOwner, TypeOK, flows
<1>2. ASSUME \A q \in Requests : q # r => /\ reply'[q] = reply[q] /\ slot'[q] = slot[q]
                                          /\ tcp'[q] = tcp[q],
             expired \ {r} \subseteq expired', expired' \subseteq expired,
             r \in expired' => slot'[r] # 0 \/ tcp'[r] = "SynSent",
             reply[r] = "waiting" => /\ reply'[r] = "waiting" /\ r \in expired => r \in expired'
                                     /\ reply'[r] # "Ok"
      PROVE  ExpiredOwned' /\ DeadlineStays
  <2>1. \A q \in Requests : q # r /\ q \in lookups \cup pending => q \in lookups' \cup pending'
    BY <1>2 DEF lookups, pending, flows
  <2>2. r \in expired' => r \in lookups' \cup pending'
    BY <1>2 DEF lookups, pending, flows
  <2>3. ExpiredOwned'
    BY <1>1, <1>2, <2>1, <2>2 DEF ExpiredOwned
  <2> QED  BY <1>1, <1>2, <2>3 DEF DeadlineStays
<1>3. ASSUME NEW outcome \in Failures, Answer(r, outcome), ForgetLookup(r), UNCHANGED tcp,
             expired' = expired \ {r}
      PROVE  ExpiredOwned' /\ DeadlineStays
  <2>1. reply'[r] \notin {"waiting", "Ok"}
    BY <1>1, <1>3 DEF Answer, TypeOK, Failures
  <2>2. \A q \in Requests : q # r => reply'[q] = reply[q] /\ slot'[q] = slot[q] /\ tcp'[q] = tcp[q]
    BY <1>3 DEF Answer, ForgetLookup, TypeOK
  <2> QED  BY <1>2, <1>3, <2>1, <2>2
<1>4. CASE UNCHANGED <<clients, lookupVars, flowVars>>
  BY <1>4 DEF ExpiredOwned, DeadlineStays, lookups, pending, flows
<1>5. CASE ConnectIp(r, dns[slot[r]]) /\ ForgetLookup(r) /\ KeepDeadline(r)
  <2>1. /\ \A q \in Requests : q # r => reply'[q] = reply[q] /\ tcp'[q] = tcp[q]
        /\ \/ tcp'[r] = "SynSent" /\ reply'[r] = reply[r]
           \/ tcp'[r] = "None" /\ reply'[r] \notin {"waiting", "Ok"}
           \/ tcp'[r] = "None" /\ reply'[r] = reply[r] /\ reply[r] # "waiting"
    BY <1>1, <1>5, ConnectIpDecides
  <2>2. \A q \in Requests : q # r => slot'[q] = slot[q]
    BY <1>5 DEF ForgetLookup, TypeOK
  <2>3. expired' = IF tcp'[r] = "None" THEN expired \ {r} ELSE expired
    BY <1>5 DEF KeepDeadline
  <2> QED  BY <1>2, <2>1, <2>2, <2>3
<1>6. CASE StartQuery(r, [dns EXCEPT ![slot[r]] = "free"], FALSE) /\ UNCHANGED <<clients, flowVars>>
  <2>1. PICK s \in Slots : slot' = [slot EXCEPT ![r] = s]
    BY <1>6 DEF StartQuery
  <2>2. slot'[r] # 0 /\ \A q \in Requests : q # r => slot'[q] = slot[q]
    BY <2>1, NetstackAssumption DEF NetstackAssumption, TypeOK, Slots
  <2> QED  BY <1>2, <1>6, <2>2
<1>7. {"TimedOut", "NotFound"} \subseteq Failures
  BY DEF Failures
<1>8. CASE reply[r] = "cancelled" \/ Overdue(r)
  BY <1>3, <1>4, <1>5, <1>6, <1>7, <1>8 DEF ServeLookup
<1>9. CASE ~(reply[r] = "cancelled" \/ Overdue(r))
  BY <1>3, <1>4, <1>5, <1>6, <1>7, <1>9 DEF ServeLookup
<1> QED  BY <1>8, <1>9

\* An attempt keeps its own until it ends, and ends well only if it was in time.
LEMMA PollFlowDeadlines ==
  ASSUME TypeOK, EngineInvariant, ExpiredOwned, NEW r \in Requests, PollFlow(r) \/ SendReply(r)
  PROVE  ExpiredOwned' /\ DeadlineStays
<1>0. UNCHANGED <<channels, late, drained, engine, device, lookupVars, accepted>>
      /\ pc \in {"flows", "reply"} /\ todo # <<>> /\ r = Head(todo)
  BY DEF PollFlow, SendReply
<1>1. /\ slot' = slot /\ expired \subseteq Requests
      /\ r \in pending => reply[r] \in {"waiting", "cancelled"}
      /\ r \notin pending => reply[r] = "Ok"
  BY <1>0, FlowTurn DEF EngineInvariant, SenderHasOneOwner, StreamsFollowTunnel, TypeOK
<1>2. ASSUME \A q \in Requests : q # r => reply'[q] = reply[q] /\ tcp'[q] = tcp[q],
             expired' = expired \ {r},
             reply[r] = "waiting" => reply'[r] # "waiting" /\ (reply'[r] = "Ok" => r \notin late)
      PROVE  ExpiredOwned' /\ DeadlineStays
  <2>1. \A q \in Requests : q # r /\ q \in lookups \cup pending => q \in lookups' \cup pending'
    BY <1>1, <1>2 DEF lookups, pending, flows
  <2>2. ExpiredOwned'
    BY <1>1, <1>2, <2>1 DEF ExpiredOwned
  <2> QED  BY <1>1, <1>2, <2>2 DEF DeadlineStays
<1>3. ASSUME NEW outcome \in Failures \cup {"Ok"}, Answer(r, outcome)
      PROVE  /\ reply[r] = "waiting" => reply'[r] = outcome /\ outcome # "waiting"
             /\ \A q \in Requests : q # r => reply'[q] = reply[q]
  BY <1>3 DEF Answer, TypeOK, Failures
<1>4. ASSUME RemoveFlow(r)
      PROVE  expired' = expired \ {r} /\ \A q \in Requests : q # r => tcp'[q] = tcp[q]
  BY <1>4 DEF RemoveFlow, TypeOK
<1>5. CASE UNCHANGED <<clients, flowVars>>
  BY <1>1, <1>5 DEF ExpiredOwned, DeadlineStays, lookups, pending, flows
<1>6. CASE reply[r] # "waiting" /\ UNCHANGED reply /\ RemoveFlow(r)
  BY <1>2, <1>4, <1>6
<1>7. CASE RemoveFlow(r) /\ \E outcome \in Failures : Answer(r, outcome)
  <2>1. PICK outcome \in Failures : Answer(r, outcome)
    BY <1>7
  <2>2. outcome # "Ok"
    BY DEF Failures
  <2> QED  BY <1>2, <1>3, <1>4, <1>7, <2>1, <2>2
<1>8. CASE /\ pc = "reply" /\ Answer(r, "Ok")
           /\ \/ tcp' = [tcp EXCEPT ![r] = "Bridged"] /\ expired' = expired \ {r}
              \/ RemoveFlow(r)
  <2>1. expired' = expired \ {r} /\ \A q \in Requests : q # r => tcp'[q] = tcp[q]
    BY <1>4, <1>8 DEF TypeOK
  <2>2. r \notin late
    BY <1>0, <1>8 DEF EngineInvariant, WorkerPhase
  <2> QED  BY <1>2, <1>3, <2>1, <2>2, <1>8
<1>9. {"TimedOut", "ConnectionRefused"} \subseteq Failures
  BY DEF Failures
<1>10. CASE PollFlow(r) /\ r \in pending /\ PollPending(r)
  BY <1>5, <1>6, <1>7, <1>9, <1>10 DEF PollPending
<1>11. CASE r \notin pending /\ PollBridged(r)
  BY <1>1, <1>5, <1>6, <1>11 DEF PollBridged
<1>12. CASE SendReply(r)
  BY <1>6, <1>8, <1>12 DEF SendReply, ReplyTaken
<1> QED  BY <1>10, <1>11, <1>12 DEF PollFlow

\* Every step keeps the deadlines.
LEMMA DeadlinesKeptByNext ==
  ASSUME TypeOK, EngineInvariant, ExpiredOwned, [Next]_vars
  PROVE  ExpiredOwned' /\ DeadlineStays
<1>1. ASSUME UNCHANGED <<clients, slot>>, pending' = pending PROVE ExpiredOwned' /\ DeadlineStays
  BY <1>1 DEF ExpiredOwned, DeadlineStays, lookups
<1>2. CASE TakePacket \/ Drain
  <2>1. packets # <<>> /\ PacketArrives
        /\ UNCHANGED <<commands, generation, clients, engine, slot, fallback, port, history>>
    BY <1>2 DEF TakePacket, Drain
  <2> QED  BY <1>1, <2>1, PacketKeeps
<1>3. CASE WakeUp \/ Egress \/ LookupsDone \/ UNCHANGED vars
  BY <1>1, <1>3 DEF WakeUp, Egress, LookupsDone, vars, pending, flows
<1>4. CASE FinishStep
  <2>1. CASE EngineNone /\ HangUp(lookups \cup pending)
    BY <2>1, DeadlinesDiscarded DEF EngineNone
  <2>2. CASE UNCHANGED <<clients, lookupVars, flowVars>>
    BY <1>1, <2>2 DEF pending, flows
  <2> QED  BY <1>4, <2>1, <2>2 DEF FinishStep
<1> QED
  BY <1>2, <1>3, <1>4, OutsideDeadlines, TakeCommandDeadlines, ServeLookupDeadlines,
     PollFlowDeadlines DEF Next, Worker

\* DNS lookup and TCP setup share one deadline: a request whose deadline passed
\* has no other, and the step that saw it pass does not report it connected.
THEOREM SharedDeadlineTheorem == Spec => SharedDeadline
<1>1. Init => ExpiredOwned
  BY DEF Init, ExpiredOwned
<1>2. TypeOK /\ EngineInvariant /\ ExpiredOwned /\ [Next]_vars => ExpiredOwned' /\ DeadlineStays
  BY DeadlinesKeptByNext
<1>3. Spec => [][DeadlineStays]_vars
  BY <1>1, <1>2, TypeCorrect, EngineConsistent, PTL DEF Spec
<1> QED  BY <1>3 DEF SharedDeadline, DeadlineStays

-----------------------------------------------------------------------------
(* The connection limit. *)

InUse == lookups \cup flows

\* Counting two disjoint sets of requests separately is counting them together.
LEMMA CountDisjoint ==
  ASSUME NEW A \in SUBSET Requests, NEW B \in SUBSET Requests, A \cap B = {}
  PROVE  /\ IsFiniteSet(A \cup B) /\ Cardinality(A \cup B) \in Nat
         /\ Cardinality(A) + Cardinality(B) = Cardinality(A \cup B)
         /\ Cardinality(B) + Cardinality(A) = Cardinality(A \cup B)
<1>1. IsFiniteSet(A) /\ IsFiniteSet(B)
  BY FS_Subset, NetstackAssumption DEF NetstackAssumption
<1>2. /\ IsFiniteSet(A \cup B)
      /\ Cardinality(A \cup B) = Cardinality(A) + Cardinality(B) - Cardinality(A \cap B)
  BY <1>1, FS_Union
<1>3. Cardinality(A \cap B) = 0
  BY FS_EmptySet
<1>4. Cardinality(A) \in Nat /\ Cardinality(B) \in Nat
  BY <1>1, FS_CardinalityType
<1> QED  BY <1>2, <1>3, <1>4

\* Only a connect command below the limit puts a request to use, and only its own.
LEMMA InUseGrows ==
  ASSUME TypeOK, EngineInvariant, [Next]_vars
  PROVE  \/ InUse' \subseteq InUse
         \/ ~AtLimit /\ \E r \in Requests : InUse' \subseteq InUse \cup {r}
<1>1. ASSUME UNCHANGED <<slot, tcp>> PROVE InUse' = InUse
  BY <1>1 DEF InUse, lookups, flows
<1>2. CASE Callers \/ Adapter \/ DropWorker \/ Clock
  BY <1>1, <1>2, OutsideFrame
<1>3. ASSUME DiscardEngine PROVE InUse' = {}
  BY <1>3 DEF DiscardEngine, InUse, lookups, flows
<1>4. ASSUME NEW r \in Requests, NEW a, ConnectIp(r, a)
      PROVE  tcp' = tcp \/ tcp' = [tcp EXCEPT ![r] = "SynSent"]
  BY <1>4 DEF ConnectIp
<1>5. CASE TakeCommand
  <2> DEFINE c == Head(commands)
  <2>1. c \in Commands
    BY <1>5 DEF TakeCommand, TypeOK
  <2>2. CASE OnShutdown \/ OnOnline(c.gen, c.settings)
    BY <1>3, <2>2 DEF OnShutdown, OnOnline, EngineNone
  <2>3. CASE OnOffline(c.gen)
    BY <1>1, <1>3, <2>3 DEF OnOffline, EngineNone
  <2>4. CASE c.op = "connect" /\ OnConnect(c.req, c.target)
    <3> DEFINE r == c.req
    <3>1. r \in Requests
      BY <2>1, <2>4 DEF Commands
    <3>2. CASE UNCHANGED <<slot, tcp>>
      BY <1>1, <3>2
    <3>3. CASE ~AtLimit /\ ConnectIp(r, c.target) /\ UNCHANGED slot
      <4>1. \A q \in Requests : q # r => tcp'[q] = tcp[q]
        BY <1>4, <3>1, <3>3 DEF TypeOK
      <4>2. InUse' \subseteq InUse \cup {r}
        BY <3>3, <4>1 DEF InUse, lookups, flows
      <4> QED  BY <3>1, <3>3, <4>2
    <3>4. CASE ~AtLimit /\ UNCHANGED tcp /\ \E s \in Slots : slot' = [slot EXCEPT ![r] = s]
      BY <3>1, <3>4 DEF InUse, lookups, flows, TypeOK
    <3>5. CASE engine = 0
      BY <2>4, <3>2, <3>5 DEF OnConnect
    <3>6. CASE ~AtLimit /\ StartQuery(r, dns, settings.v4 /\ settings.v6) /\ UNCHANGED flowVars
      BY <3>4, <3>6 DEF StartQuery
    <3>7. CASE EngineConnect(r, c.target)
      BY <3>2, <3>3, <3>6, <3>7 DEF EngineConnect
    <3> QED  BY <2>4, <3>5, <3>7 DEF OnConnect
  <2> QED  BY <1>5, <2>2, <2>3, <2>4 DEF TakeCommand
<1>6. CASE TakePacket \/ Drain
  <2>1. packets # <<>> /\ PacketArrives
        /\ UNCHANGED <<commands, generation, clients, engine, slot, fallback, port, history>>
    BY <1>6 DEF TakePacket, Drain
  <2> QED  BY <2>1, PacketKeeps DEF InUse
<1>7. CASE WakeUp \/ Egress \/ LookupsDone
  BY <1>1, <1>7 DEF WakeUp, Egress, LookupsDone
<1>8. CASE FinishStep
  BY <1>1, <1>3, <1>8 DEF FinishStep, EngineNone
<1>9. ASSUME NEW r \in Requests, ServeLookup(r) PROVE InUse' \subseteq InUse
  <2>1. r \in lookups
    BY <1>9, ServeLookupInEngine
  <2>2. \A q \in Requests : q # r => slot'[q] = slot[q] /\ tcp'[q] = tcp[q]
    BY <1>4, <1>9 DEF ServeLookup, ForgetLookup, StartQuery, TypeOK
  <2> QED  BY <2>1, <2>2 DEF InUse, lookups, flows
<1>10. ASSUME NEW r \in Requests, PollFlow(r) \/ SendReply(r) PROVE InUse' \subseteq InUse
  <2>0. UNCHANGED <<channels, late, drained, engine, device, lookupVars, accepted>>
        /\ pc \in {"flows", "reply"} /\ todo # <<>> /\ r = Head(todo)
    BY <1>10 DEF PollFlow, SendReply
  <2>1. r \in flows
    BY <2>0, FlowTurn
  <2>2. slot' = slot /\ \A q \in Requests : q # r => tcp'[q] = tcp[q]
    BY <1>10, <2>0 DEF PollFlow, PollPending, PollBridged, SendReply, RemoveFlow, TypeOK
  <2> QED  BY <2>1, <2>2 DEF InUse, lookups, flows
<1> QED
  BY <1>1, <1>2, <1>5, <1>6, <1>7, <1>8, <1>9, <1>10 DEF Next, Worker, vars

\* The engine carries at most MaxConnections lookups, attempts and streams.
THEOREM LimitTheorem == Spec => []ConnectionLimit
<1>1. Init => ConnectionLimit
  <2> SUFFICES ASSUME Init PROVE ConnectionLimit
    OBVIOUS
  <2>1. lookups = {} /\ flows = {}
    BY DEF Init, lookups, flows
  <2> QED  BY <2>1, FS_EmptySet, NetstackAssumption DEF NetstackAssumption, ConnectionLimit
<1>2. TypeOK /\ EngineInvariant /\ EngineInvariant' /\ ConnectionLimit /\ [Next]_vars => ConnectionLimit'
  <2> SUFFICES ASSUME TypeOK, EngineInvariant, EngineInvariant', ConnectionLimit, [Next]_vars
               PROVE  ConnectionLimit'
    OBVIOUS
  <2>0. /\ lookups \in SUBSET Requests /\ flows \in SUBSET Requests /\ lookups \cap flows = {}
        /\ lookups' \in SUBSET Requests /\ flows' \in SUBSET Requests /\ lookups' \cap flows' = {}
    BY DEF lookups, flows, EngineInvariant, SenderHasOneOwner
  <2>1. /\ IsFiniteSet(InUse) /\ Cardinality(InUse) \in Nat
        /\ Cardinality(flows) + Cardinality(lookups) = Cardinality(InUse)
        /\ Cardinality(lookups) + Cardinality(flows) = Cardinality(InUse)
    BY <2>0, CountDisjoint DEF InUse
  <2>2. Cardinality(lookups') + Cardinality(flows') = Cardinality(InUse')
    BY <2>0, CountDisjoint DEF InUse
  <2>3. MaxConnections \in Nat
    BY NetstackAssumption DEF NetstackAssumption
  <2>4. CASE InUse' \subseteq InUse
    <3>1. Cardinality(InUse') <= Cardinality(InUse) /\ Cardinality(InUse') \in Nat
      BY <2>1, <2>4, FS_Subset, FS_CardinalityType
    <3> QED  BY <2>1, <2>2, <2>3, <3>1 DEF ConnectionLimit
  <2>5. ASSUME ~AtLimit, NEW r \in Requests, InUse' \subseteq InUse \cup {r} PROVE ConnectionLimit'
    <3>1. Cardinality(InUse) < MaxConnections
      BY <2>1, <2>3, <2>5 DEF AtLimit
    <3>2. IsFiniteSet(InUse \cup {r}) /\ Cardinality(InUse \cup {r}) \in Nat
          /\ Cardinality(InUse \cup {r}) <= Cardinality(InUse) + 1
      <4>1. /\ IsFiniteSet(InUse \cup {r})
            /\ Cardinality(InUse \cup {r}) = IF r \in InUse THEN Cardinality(InUse) ELSE Cardinality(InUse) + 1
        BY <2>1, FS_AddElement
      <4> QED  BY <2>1, <4>1
    <3>3. Cardinality(InUse') <= Cardinality(InUse \cup {r}) /\ Cardinality(InUse') \in Nat
      BY <2>5, <3>2, FS_Subset, FS_CardinalityType
    <3> QED  BY <2>1, <2>2, <2>3, <3>1, <3>2, <3>3 DEF ConnectionLimit
  <2> QED  BY <2>4, <2>5, InUseGrows
<1> QED  BY <1>1, <1>2, TypeCorrect, EngineConsistent, PTL DEF Spec

-----------------------------------------------------------------------------
(* What a new connection needs is there: a local port and a DNS query. *)

\* Fewer holders than things leave a thing unheld.
LEMMA SomeUnheld ==
  ASSUME NEW S, NEW R, IsFiniteSet(S), IsFiniteSet(R), Cardinality(R) < Cardinality(S), NEW h
  PROVE  \E x \in S : \A r \in R : h[r] # x
<1> SUFFICES ASSUME \A x \in S : \E r \in R : h[r] = x PROVE FALSE
  OBVIOUS
<1> DEFINE f == [x \in S |-> CHOOSE r \in R : h[r] = x]
<1>1. f \in [S -> R] /\ \A x \in S : h[f[x]] = x
  OBVIOUS
<1> HIDE DEF f
<1>2. \E x, y \in S : x # y /\ f[x] = f[y]
  BY <1>1, FS_PigeonHole
<1> QED  BY <1>1, <1>2

\* A port that no flow uses is found by the loop of connect_ip, which takes the
\* first of them from next_port on.
LEMMA LoopFindsPort ==
  ASSUME TypeOK, NEW free \in Ports, PortFree(free)
  PROVE  \E p \in Ports : FirstFree(p)
<1> DEFINE D == { Distance(q) : q \in { x \in Ports : PortFree(x) } }
<1>1. PortLo \in Nat /\ PortHi \in Nat /\ PortLo < PortHi /\ next_port \in PortLo .. PortHi
  BY NetstackAssumption DEF NetstackAssumption, TypeOK, Ports
<1>2. \A q \in Ports : Distance(q) \in Nat
  BY <1>1 DEF Ports, Distance
<1>3. D \in SUBSET Nat /\ D # {}
  BY <1>2
<1>4. Min(D) \in D /\ \A d \in D : Min(D) <= d
  <2> HIDE DEF D
  <2> QED  BY <1>3, MinOf
<1>5. PICK p \in Ports : PortFree(p) /\ Distance(p) = Min(D)
  BY <1>4
<1>6. \A q \in Ports : PortFree(q) => Distance(p) <= Distance(q)
  BY <1>4, <1>5
<1> QED  BY <1>5, <1>6 DEF FirstFree

\* Below the limit, and for a lookup that is already counted, the loop of
\* connect_ip ends: it has no exit but a free port.
PortAtHand == ~AtLimit \/ lookups # {} => \E p \in Ports : FirstFree(p)

\* Below the limit start_query finds one of as many queries as there may be
\* connections; the list the code gives the DNS socket need never be longer.
QueryAtHand == ~AtLimit => \E s \in Slots : FreeSlot(dns, s)

\* Neither Engine::connect nor a lookup that turns into a connection can run out
\* of ports or queries, let alone spin in the loop that has no other exit.
THEOREM AtHandTheorem == Spec => [](PortAtHand /\ QueryAtHand)
<1>1. TypeOK /\ EngineInvariant /\ ConnectionLimit => PortAtHand /\ QueryAtHand
  <2> SUFFICES ASSUME TypeOK, EngineInvariant, ConnectionLimit PROVE PortAtHand /\ QueryAtHand
    OBVIOUS
  <2>1. /\ MaxConnections \in Nat \ {0} /\ PortLo \in Nat /\ PortHi \in Nat /\ PortLo < PortHi
        /\ MaxConnections <= PortHi - PortLo + 1 /\ IsFiniteSet(Requests)
    BY NetstackAssumption DEF NetstackAssumption
  <2>2. IsFiniteSet(flows) /\ IsFiniteSet(lookups)
    <3>1. flows \in SUBSET Requests /\ lookups \in SUBSET Requests
      BY DEF flows, lookups
    <3> QED  BY <2>1, <3>1, FS_Subset
  <2>3. Cardinality(flows) \in Nat /\ Cardinality(lookups) \in Nat
        /\ (lookups # {} => Cardinality(lookups) # 0)
    BY <2>2, FS_CardinalityType, FS_EmptySet
  <2>4. IsFiniteSet(Ports) /\ Cardinality(Ports) = PortHi - PortLo + 1
    BY <2>1, FS_Interval DEF Ports
  <2>5. IsFiniteSet(Slots) /\ Cardinality(Slots) = MaxConnections
    BY <2>1, FS_Interval DEF Slots
  <2>6. ASSUME ~AtLimit \/ lookups # {} PROVE \E p \in Ports : FirstFree(p)
    <3>1. Cardinality(flows) < MaxConnections
      BY <2>1, <2>3, <2>6 DEF AtLimit, ConnectionLimit
    <3>2. Cardinality(flows) < Cardinality(Ports)
      BY <2>1, <2>3, <2>4, <3>1
    <3>3. PICK free \in Ports : \A r \in flows : port[r] # free
      BY <2>2, <2>4, <3>2, SomeUnheld
    <3> QED  BY <3>3, LoopFindsPort DEF PortFree
  <2>7. ASSUME ~AtLimit PROVE \E s \in Slots : FreeSlot(dns, s)
    <3> DEFINE F == { s \in Slots : dns[s] = "free" }
    <3>1. Cardinality(lookups) < Cardinality(Slots)
      BY <2>1, <2>3, <2>5, <2>7 DEF AtLimit
    <3>2. PICK s \in Slots : \A r \in lookups : slot[r] # s
      BY <2>2, <2>5, <3>1, SomeUnheld
    <3>3. dns[s] = "free"
      BY <3>2 DEF EngineInvariant, QueriesOwned
    <3>4. F \in SUBSET Nat /\ F # {}
      BY <2>1, <3>3 DEF Slots
    <3>5. Min(F) \in F /\ \A x \in F : Min(F) <= x
      <4> HIDE DEF F
      <4> QED  BY <3>4, MinOf
    <3>6. \A q \in 1 .. Min(F) - 1 : dns[q] # "free"
      <4> SUFFICES ASSUME NEW q \in 1 .. Min(F) - 1, dns[q] = "free" PROVE FALSE
        OBVIOUS
      <4>1. q \in Slots /\ q < Min(F) /\ Min(F) \in Nat
        BY <2>1, <3>5 DEF Slots
      <4> QED  BY <3>5, <4>1
    <3> QED  BY <3>5, <3>6 DEF FreeSlot
  <2> QED  BY <2>6, <2>7 DEF PortAtHand, QueryAtHand
<1> QED  BY <1>1, TypeCorrect, EngineConsistent, LimitTheorem, PTL

-----------------------------------------------------------------------------
(* Netstack implements TunnelService. *)

\* A step after which the caller sees the same of every request but r.
LEMMA OneStatus ==
  ASSUME NEW r \in Requests, engine' = engine,
         \A q \in Requests : q # r => Status(q)' = Status(q)
  PROVE  /\ Status(r)' = Status(r) => UNCHANGED Service!vars
         /\ Status(r) = "idle" /\ Status(r)' = "waiting" => Service!Next
         /\ Status(r) = "idle" /\ Status(r)' = "failed" => Service!Next
         /\ Status(r) = "waiting" /\ Status(r)' = "cancelled" => Service!Next
         /\ Status(r) = "waiting" /\ Status(r)' = "failed" => Service!Next
         /\ Status(r) = "open" /\ Status(r)' = "closed" => Service!Next
         /\ engine # 0 /\ Status(r) = "waiting" /\ Status(r)' \in {"open", "closed"} => Service!Next
<1> DEFINE st == [q \in Requests |-> Status(q)]
<1>1. ASSUME NEW from, NEW to, Status(r) = from, Status(r)' = to
      PROVE  Service!Becomes(r, from, to)
  <2>1. st' = [st EXCEPT ![r] = to]
    BY <1>1
  <2>2. st[r] = from
    BY <1>1
  <2> QED  BY <2>1, <2>2 DEF Service!Becomes
<1>2. Status(r)' = Status(r) => st' = st
  OBVIOUS
<1> HIDE DEF st
<1> QED
  BY <1>1, <1>2
  DEF st, Service!Next, Service!Request, Service!Reject, Service!Withdraw, Service!Fail,
      Service!Open, Service!Close, Service!vars

\* A step that touches neither the engine, nor a reply, nor whether a flow is
\* bridged is none for the service.
LEMMA SameStatus ==
  ASSUME engine' = engine, reply' = reply,
         \A r \in Requests : (tcp'[r] = "Bridged") = (tcp[r] = "Bridged")
  PROVE  UNCHANGED Service!vars
<1>1. \A r \in Requests : Status(r)' = Status(r)
  BY DEF Status
<1> QED  BY <1>1 DEF Service!vars

\* Dropping or replacing the engine is a Relink.
LEMMA RelinkStep ==
  ASSUME TypeOK, EngineInvariant, DiscardEngine, NEW who, HangUp(who),
         engine' \in Nat, engine' = 0 \/ engine' > engine
  PROVE  Service!Next
<1> DEFINE st == [q \in Requests |-> Status(q)]
           hungUp == { q \in Requests : q \in who /\ Status(q) = "waiting" }
<1>1. ASSUME NEW q \in Requests
      PROVE  Status(q)' = IF Status(q) = "open" THEN "closed"
                          ELSE IF q \in hungUp THEN "failed" ELSE Status(q)
  <2>1. tcp'[q] # "Bridged"
    BY DEF DiscardEngine
  <2>2. tcp[q] = "Bridged" => reply[q] = "Ok"
    BY DEF EngineInvariant, StreamsFollowTunnel, flows, pending
  <2>3. reply'[q] = IF q \in who /\ reply[q] = "waiting" THEN "NotConnected" ELSE reply[q]
    BY DEF HangUp
  <2>4. reply[q] \in Replies
    BY DEF TypeOK
  <2> QED  BY <2>1, <2>2, <2>3, <2>4 DEF Status, Replies, Failures
<1>2. hungUp \in SUBSET { q \in Requests : st[q] = "waiting" }
  OBVIOUS
<1>3. st' = [q \in Requests |-> IF st[q] = "open" THEN "closed"
                               ELSE IF q \in hungUp THEN "failed" ELSE st[q]]
  BY <1>1
<1> QED  BY <1>2, <1>3 DEF Service!Next, Service!Relink

\* Answering a request with a failure is Fail, or nothing if its caller has gone.
LEMMA FailStep ==
  ASSUME TypeOK, EngineInvariant, NEW r \in Requests, engine' = engine,
         NEW outcome \in Failures, Answer(r, outcome),
         reply[r] \in {"waiting", "cancelled"}, r \notin flows \/ r \in pending,
         \A q \in Requests : q # r => tcp'[q] = tcp[q],
         tcp'[r] # "Bridged"
  PROVE  Service!Next \/ UNCHANGED Service!vars
<1>1. /\ reply'[r] = (IF reply[r] = "waiting" THEN outcome ELSE reply[r])
      /\ \A q \in Requests : q # r => reply'[q] = reply[q]
  BY DEF Answer, TypeOK
<1>2. tcp[r] # "Bridged"
  BY DEF flows, pending
<1>3. \A q \in Requests : q # r => Status(q)' = Status(q)
  BY <1>1 DEF Status
<1>4. \/ Status(r) = "waiting" /\ Status(r)' = "failed"
      \/ Status(r)' = Status(r)
  BY <1>1, <1>2 DEF Status, Failures
<1> QED  BY <1>3, <1>4, OneStatus

\* What connect_ip does is Fail, or nothing the service knows of.
LEMMA ConnectIpStep ==
  ASSUME TypeOK, EngineInvariant, NEW r \in Requests, NEW a, ConnectIp(r, a), engine' = engine,
         r \notin flows, reply[r] \in {"waiting", "cancelled"}
  PROVE  Service!Next \/ UNCHANGED Service!vars
<1>1. {"NetworkUnreachable", "InvalidInput", "Other"} \subseteq Failures
  BY DEF Failures
<1>2. tcp[r] # "Bridged"
  BY DEF flows
<1>3. CASE UNCHANGED tcp /\ \E outcome \in Failures : Answer(r, outcome)
  BY <1>2, <1>3, FailStep
<1>4. CASE tcp' = [tcp EXCEPT ![r] = "SynSent"] /\ UNCHANGED reply
  <2>1. \A q \in Requests : (tcp'[q] = "Bridged") = (tcp[q] = "Bridged")
    BY <1>2, <1>4 DEF TypeOK
  <2> QED  BY <1>4, <2>1, SameStatus
<1> QED  BY <1>1, <1>3, <1>4 DEF ConnectIp

\* Every command is a step of the service, or none.
LEMMA TakeCommandServes ==
  ASSUME TypeOK, EngineInvariant, TakeCommand
  PROVE  Service!Next \/ UNCHANGED Service!vars
<1> DEFINE c == Head(commands)
<1>1. /\ c \in Commands /\ commands # <<>> /\ GenerationsAscend /\ QueuedOnce
  BY DEF TakeCommand, TypeOK, EngineInvariant, SenderHasOneOwner
<1>2. CASE OnShutdown
  BY <1>2, RelinkStep DEF OnShutdown, EngineNone
<1>3. CASE c.op = "online" /\ OnOnline(c.gen, c.settings)
  <2>1. engine' \in Nat /\ engine' > engine
    <3>1. c.gen \in Nat /\ engine \in Nat /\ 1 \in DOMAIN commands /\ c = commands[1]
      BY <1>1, <1>3 DEF Commands, TypeOK
    <3> QED  BY <1>1, <1>3, <3>1 DEF OnOnline, GenerationsAscend
  <2> QED  BY <1>3, <2>1, RelinkStep DEF OnOnline
<1>4. CASE OnOffline(c.gen)
  <2>1. CASE EngineNone /\ HangUp(lookups \cup pending)
    BY <2>1, RelinkStep DEF EngineNone
  <2> QED  BY <1>4, <2>1, SameStatus DEF OnOffline
<1>5. CASE c.op = "connect" /\ OnConnect(c.req, c.target) /\ commands' = Tail(commands)
  <2> DEFINE r == c.req
  <2>1. r \in Requests /\ r \in Queued
    BY <1>1, <1>5, TailQueue DEF Commands
  <2>2. r \notin flows /\ reply[r] \in {"waiting", "cancelled"} /\ engine' = engine
    BY <1>5, <2>1 DEF EngineInvariant, SenderHasOneOwner, OnConnect
  <2>3. {"NotConnected", "LimitReached", "NotFound", "InvalidInput"} \subseteq Failures
    BY DEF Failures
  <2>4. CASE UNCHANGED <<reply, tcp>>
    BY <2>2, <2>4, SameStatus
  <2>5. CASE UNCHANGED tcp /\ \E outcome \in Failures : Answer(r, outcome)
    <3>1. tcp[r] # "Bridged"
      BY <2>1, <2>2 DEF flows
    <3> QED  BY <2>1, <2>2, <2>5, <3>1, FailStep
  <2>6. CASE ConnectIp(r, c.target)
    BY <2>1, <2>2, <2>6, ConnectIpStep
  <2> QED  BY <1>5, <2>3, <2>4, <2>5, <2>6 DEF OnConnect, EngineConnect
<1> QED  BY <1>2, <1>3, <1>4, <1>5 DEF TakeCommand

\* So is every other step of the worker.
LEMMA WorkerServes ==
  ASSUME TypeOK, EngineInvariant, Worker
  PROVE  Service!Next \/ UNCHANGED Service!vars
<1>1. CASE TakePacket \/ Drain
  <2>1. engine' = engine /\ reply' = reply /\ packets # <<>> /\ PacketArrives /\ Head(packets) \in Packets
    BY <1>1 DEF TakePacket, Drain, TypeOK
  <2>2. \A r \in Requests : tcp'[r] = tcp[r] \/ tcp'[r] = AfterSegment(tcp[r], Head(packets).body)
    BY <2>1 DEF PacketArrives, Deliver, TypeOK
  <2>3. \A r \in Requests : (tcp'[r] = "Bridged") = (tcp[r] = "Bridged")
    BY <2>2 DEF AfterSegment
  <2> QED  BY <2>1, <2>3, SameStatus
<1>2. CASE WakeUp \/ Egress \/ LookupsDone
  BY <1>2, SameStatus DEF WakeUp, Egress, LookupsDone
<1>3. CASE FinishStep
  <2>1. CASE EngineNone /\ HangUp(lookups \cup pending)
    BY <2>1, RelinkStep DEF EngineNone
  <2> QED  BY <1>3, <2>1, SameStatus DEF FinishStep
<1>4. ASSUME NEW r \in Requests, ServeLookup(r) PROVE Service!Next \/ UNCHANGED Service!vars
  <2>1. r \in lookups /\ r \notin flows /\ reply[r] \in {"waiting", "cancelled"} /\ engine' = engine
    BY <1>4, ServeLookupInEngine DEF ServeLookup, EngineInvariant, SenderHasOneOwner
  <2>2. tcp[r] # "Bridged" /\ {"TimedOut", "NotFound"} \subseteq Failures
    BY <2>1 DEF flows, Failures
  <2>3. CASE UNCHANGED <<reply, tcp>>
    BY <2>1, <2>3, SameStatus
  <2>4. CASE UNCHANGED tcp /\ \E outcome \in Failures : Answer(r, outcome)
    BY <2>1, <2>2, <2>4, FailStep
  <2>5. CASE ConnectIp(r, dns[slot[r]])
    BY <2>1, <2>5, ConnectIpStep
  <2> QED  BY <1>4, <2>2, <2>3, <2>4, <2>5 DEF ServeLookup
<1>5. ASSUME NEW r \in Requests, PollFlow(r) \/ SendReply(r)
      PROVE  Service!Next \/ UNCHANGED Service!vars
  <2>0. UNCHANGED <<channels, late, drained, engine, device, lookupVars, accepted>>
        /\ pc \in {"flows", "reply"} /\ todo # <<>> /\ r = Head(todo)
    BY <1>5 DEF PollFlow, SendReply
  <2>1. r \in flows /\ engine' = engine /\ engine # 0
    BY <2>0, FlowTurn
  <2>a. pc = "reply" => r \in pending
    BY <2>0, <2>1 DEF EngineInvariant, WorkerPhase, pending
  <2>2. r \in pending => tcp[r] # "Bridged" /\ reply[r] \in {"waiting", "cancelled"}
    BY DEF pending, EngineInvariant, SenderHasOneOwner
  <2>3. r \notin pending => tcp[r] = "Bridged" /\ reply[r] = "Ok"
    BY <2>1 DEF pending, EngineInvariant, StreamsFollowTunnel
  <2>4. ASSUME RemoveFlow(r)
        PROVE  tcp'[r] # "Bridged" /\ \A q \in Requests : q # r => tcp'[q] = tcp[q]
    BY <2>4 DEF RemoveFlow, TypeOK
  <2>5. {"TimedOut", "ConnectionRefused"} \subseteq Failures
    BY DEF Failures
  <2>6. CASE UNCHANGED <<reply, tcp>>
    BY <2>1, <2>6, SameStatus
  <2>7. CASE r \in pending /\ UNCHANGED reply /\ RemoveFlow(r)
    <3>1. \A q \in Requests : (tcp'[q] = "Bridged") = (tcp[q] = "Bridged")
      BY <2>2, <2>4, <2>7
    <3> QED  BY <2>1, <2>7, <3>1, SameStatus
  <2>8. CASE r \in pending /\ RemoveFlow(r) /\ \E outcome \in Failures : Answer(r, outcome)
    BY <2>1, <2>2, <2>4, <2>8, FailStep
  <2>9. CASE r \in pending /\ reply[r] # "cancelled" /\ Answer(r, "Ok")
             /\ (tcp' = [tcp EXCEPT ![r] = "Bridged"] \/ RemoveFlow(r))
    <3>1. reply'[r] = "Ok" /\ \A q \in Requests : q # r => reply'[q] = reply[q] /\ tcp'[q] = tcp[q]
      BY <2>2, <2>4, <2>9 DEF Answer, TypeOK
    <3>2. Status(r) = "waiting" /\ Status(r)' \in {"open", "closed"}
      BY <2>2, <2>9, <3>1 DEF Status, Failures
    <3>3. \A q \in Requests : q # r => Status(q)' = Status(q)
      BY <3>1 DEF Status
    <3> QED  BY <2>1, <3>2, <3>3, OneStatus
  <2>10. CASE r \notin pending /\ RemoveFlow(r) /\ UNCHANGED reply
    <3>3. tcp[r] = "Bridged" /\ tcp'[r] # "Bridged" /\ reply'[r] = "Ok"
      BY <2>3, <2>4, <2>10
    <3>1. Status(r) = "open" /\ Status(r)' = "closed"
      BY <3>3 DEF Status, Failures
    <3>2. \A q \in Requests : q # r => Status(q)' = Status(q)
      BY <2>4, <2>10 DEF Status
    <3> QED  BY <2>1, <3>1, <3>2, OneStatus
  <2>11. CASE PollFlow(r)
    BY <2>5, <2>6, <2>7, <2>8, <2>10, <2>11 DEF PollFlow, PollPending, PollBridged
  <2>12. CASE SendReply(r)
    BY <2>a, <2>7, <2>9, <2>12 DEF SendReply, ReplyTaken
  <2> QED  BY <1>5, <2>11, <2>12
<1> QED
  BY <1>1, <1>2, <1>3, <1>4, <1>5, TakeCommandServes DEF Worker

\* And every step of the callers, the adapter and the clock.
LEMMA OutsideServes ==
  ASSUME TypeOK, EngineInvariant, Callers \/ Adapter \/ DropWorker \/ Clock
  PROVE  Service!Next \/ UNCHANGED Service!vars
<1>1. engine' = engine /\ tcp' = tcp
  BY OutsideFrame
<1>2. ASSUME UNCHANGED reply PROVE UNCHANGED Service!vars
  BY <1>1, <1>2, SameStatus
<1>3. ASSUME NEW r \in Requests, NEW to,
             /\ \/ reply[r] = "idle" /\ to \in {"waiting", "NotConnected"}
                \/ reply[r] = "waiting" /\ to = "cancelled"
             /\ reply' = [reply EXCEPT ![r] = to]
      PROVE  Service!Next
  <2>1. tcp[r] # "Bridged"
    BY <1>3 DEF EngineInvariant, StreamsFollowTunnel, flows, pending
  <2>2. reply'[r] = to /\ \A q \in Requests : q # r => reply'[q] = reply[q]
    BY <1>3 DEF TypeOK
  <2>3. \A q \in Requests : q # r => Status(q)' = Status(q)
    BY <1>1, <2>2 DEF Status
  <2>4. \/ Status(r) = "idle" /\ Status(r)' \in {"waiting", "failed"}
        \/ Status(r) = "waiting" /\ Status(r)' = "cancelled"
    BY <1>1, <1>3, <2>1, <2>2 DEF Status, Failures
  <2> QED  BY <1>1, <2>3, <2>4, OneStatus
<1>4. ASSUME NEW r \in Requests, NEW t, TunnelConnect(r, t) PROVE Service!Next
  <2>1. CASE pc = "stopped"
    BY <1>3, <1>4, <2>1 DEF TunnelConnect
  <2>2. CASE pc # "stopped"
    BY <1>3, <1>4, <2>2 DEF TunnelConnect
  <2> QED  BY <2>1, <2>2
<1>5. ASSUME NEW r \in Requests, Cancel(r) PROVE Service!Next
  BY <1>3, <1>5 DEF Cancel
<1> QED
  BY <1>2, <1>4, <1>5
  DEF Callers, Adapter, Clock, TunnelOnline, TunnelOffline, TunnelReceive, DropWorker, Expire

\* Netstack implements the abstract tunnel service: answered at most once, open
\* only over a tunnel that is up, closed when that tunnel goes.
THEOREM ServiceTheorem == Spec => ImplementsService
<1>1. Init => Service!Init
  <2> SUFFICES ASSUME Init PROVE Service!Init
    OBVIOUS
  <2>1. \A r \in Requests : Status(r) = "idle"
    BY DEF Init, Status, Failures
  <2> QED  BY <2>1 DEF Init, Service!Init
<1>2. TypeOK /\ EngineInvariant /\ [Next]_vars => [Service!Next]_Service!vars
  <2>1. CASE UNCHANGED vars
    BY <2>1, SameStatus DEF vars
  <2> QED  BY <2>1, OutsideServes, WorkerServes DEF Next
<1> QED  BY <1>1, <1>2, TypeCorrect, EngineConsistent, PTL DEF Spec, ImplementsService, Service!Spec
=============================================================================
