--------------------------- MODULE LifecycleProofs ---------------------------
(***************************************************************************)
(* Proofs of the safety properties of Lifecycle.  One lemma says that the  *)
(* invariant survives every step; it has a step per action, split by the   *)
(* parts of the invariant that the action can disturb.                     *)
(***************************************************************************)
EXTENDS Lifecycle, TLAPS

USE DEF Tried

\* The types hold initially and are kept by every action.
\* main, the tasks and the diagnostics of main.rs and vpn.rs keep their types.
THEOREM LifecycleTypes == Spec => []TypeOK
<1>1. Init => TypeOK
  BY DEF Init, TypeOK, Reasons, Errors
<1>2. TypeOK /\ [Next]_vars => TypeOK'
  <2> SUFFICES ASSUME TypeOK, [Next]_vars PROVE TypeOK'
    OBVIOUS
  <2> USE DEF TypeOK, Reasons, Errors, requests, tasks, diagnostics
  <2>1. CASE Select
    <3>1. SessionResult \subseteq Reasons \cup {"certificate", "status", "generic"}
      BY DEF SessionResult, SessionEnd
    <3>2. main' = "stop" /\ result' \in Reasons \cup {"ok", "connect_error", "proxy",
                                                     "certificate", "status", "generic"}
      BY <2>1, <3>1 DEF Select
    <3>3. UNCHANGED <<proxy, session, save, failure, lastError, signalled, shutdown, stop,
                      connected, received_reply, certificate_failed, permit>>
      BY <2>1 DEF Select
    <3> QED
      BY <3>2, <3>3
  <2>2. CASE SendStop \/ JoinProxy \/ JoinSession \/ JoinSave \/ SaveDone
    BY <2>2 DEF SendStop, StopClient, JoinProxy, JoinSession, JoinSave, SaveDone
  <2>3. CASE Save
    BY <2>3 DEF Save, CheckConnected, Notified, WritePassword
  <2>4. CASE Signal \/ SessionEnds \/ ProxyEnds \/ LogCertificateFailure
    BY <2>4 DEF Signal, SessionEnds, ProxyEnds, LogCertificateFailure
  <2>5. ASSUME NEW event \in Events, Record(event) PROVE TypeOK'
    <3>1. failure' \in Reasons
      BY <2>5 DEF Record, FailureAfter, Reason
    <3>2. lastError' \in Errors \cup {"none"}
      BY <2>5 DEF Record, Events
    <3>3. {received_reply', connected', certificate_failed', permit'} \subseteq BOOLEAN
      BY <2>5 DEF Record, NotifyOne
    <3> QED
      BY <2>5, <3>1, <3>2, <3>3 DEF Record
  <2>6. CASE UNCHANGED vars
    BY <2>6 DEF vars
  <2> QED
    BY <2>1, <2>2, <2>3, <2>4, <2>5, <2>6 DEF Next, Main
<1> QED
  BY <1>1, <1>2, PTL DEF Spec

-----------------------------------------------------------------------------
\* A core event changes the diagnostics only, and `connected` only to TRUE: what
\* is reported afterwards is the last error (vpn.rs:59-81, 97-111).
LEMMA RecordKeepsInvariant ==
    ASSUME TypeOK, LifecycleInvariant, NEW event \in Events, Record(event)
    PROVE  LifecycleInvariant'
<1> USE DEF LifecycleInvariant, TypeOK, requests, tasks, Record
<1>1. connected => connected'
  OBVIOUS
<1>2. SavedIfAccepted'
  BY <1>1 DEF SavedIfAccepted, WaitsKept
<1>3. SuccessMeansInterrupted'
  BY DEF SuccessMeansInterrupted
<1>4. LastErrorReported'
  <2>1. CASE event \in Errors
    BY <2>1 DEF LastErrorReported, SessionEnd, FailureAfter, Reason, Errors, Events
  <2>2. CASE event = "CONNECTED"
    BY <2>2 DEF LastErrorReported
  <2>3. CASE event \in {"OTHER", "CONNECTING"}
    <3>1. lastError' = lastError /\ failure' = failure
      BY <2>3 DEF FailureAfter, Errors
    <3>2. CASE failure = "none"
      BY <3>1, <3>2 DEF LastErrorReported, SessionEnd
    <3>3. CASE failure # "none"
      BY <3>1, <3>3 DEF LastErrorReported, SessionEnd
    <3> QED
      BY <3>2, <3>3
  <2> QED
    BY <2>1, <2>2, <2>3 DEF Events
<1>5. WaitsKept' /\ StopsInOrder'
  BY <1>1 DEF WaitsKept, StopsInOrder
<1> QED
  BY <1>2, <1>3, <1>4, <1>5

\* What is reported does not change with a step that records nothing.
LEMMA ReportKept ==
    ASSUME LastErrorReported, UNCHANGED <<failure, certificate_failed, lastError>>
    PROVE  LastErrorReported'
BY DEF LastErrorReported, SessionEnd

\* A logged certificate failure (vpn.rs:162-175) adds to the report only where no
\* failure is recorded.
LEMMA LogKeepsInvariant ==
    ASSUME TypeOK, LifecycleInvariant, LogCertificateFailure
    PROVE  LifecycleInvariant'
<1> USE DEF LifecycleInvariant, TypeOK, requests, tasks, LogCertificateFailure
<1>1. LastErrorReported'
  <2>1. CASE failure = "none"
    BY <2>1 DEF LastErrorReported, SessionEnd
  <2>2. CASE failure # "none"
    BY <2>2 DEF LastErrorReported, SessionEnd
  <2> QED
    BY <2>1, <2>2
<1>2. SavedIfAccepted' /\ SuccessMeansInterrupted' /\ WaitsKept' /\ StopsInOrder'
  BY DEF SavedIfAccepted, SuccessMeansInterrupted, WaitsKept, StopsInOrder
<1> QED
  BY <1>1, <1>2

-----------------------------------------------------------------------------
\* The shutdown sequence of main.rs keeps the invariant: waits in order, success
\* only after an interrupt, a password taken to the keychain exactly if accepted.
THEOREM LifecycleConsistent == Spec => []LifecycleInvariant
<1>1. Init => LifecycleInvariant
  BY DEF Init, LifecycleInvariant, SavedIfAccepted, SuccessMeansInterrupted,
         LastErrorReported, WaitsKept, StopsInOrder
<1>2. TypeOK /\ LifecycleInvariant /\ [Next]_vars => LifecycleInvariant'
  <2> SUFFICES ASSUME TypeOK, LifecycleInvariant, [Next]_vars
               PROVE  LifecycleInvariant'
    OBVIOUS
  <2> USE DEF LifecycleInvariant, requests, tasks, diagnostics
  <2>1. CASE Select
    <3>1. LastErrorReported'
      BY <2>1, ReportKept DEF Select
    <3>2. SuccessMeansInterrupted'
      <4>1. "ok" \notin SessionResult
        BY DEF TypeOK, Reasons, SessionResult, SessionEnd
      <4>2. proxy # "ended"
        BY <2>1 DEF Select, StopsInOrder
      <4> QED
        BY <2>1, <4>1, <4>2 DEF Select, SuccessMeansInterrupted
    <3>3. SavedIfAccepted' /\ WaitsKept' /\ StopsInOrder'
      BY <2>1 DEF Select, SavedIfAccepted, WaitsKept, StopsInOrder
    <3> QED
      BY <3>1, <3>2, <3>3
  <2>2. CASE SendStop \/ JoinProxy \/ JoinSession
    <3>1. LastErrorReported'
      BY <2>2, ReportKept DEF SendStop, JoinProxy, JoinSession
    <3>2. SavedIfAccepted' /\ SuccessMeansInterrupted' /\ WaitsKept' /\ StopsInOrder'
      BY <2>2 DEF SendStop, JoinProxy, JoinSession, SessionOver, SavedIfAccepted,
                  SuccessMeansInterrupted, WaitsKept, StopsInOrder
    <3> QED
      BY <3>1, <3>2
  <2>3. CASE JoinSave \/ SaveDone
    <3>1. LastErrorReported'
      BY <2>3, ReportKept DEF JoinSave, SaveDone
    <3>2. SavedIfAccepted' /\ WaitsKept'
      BY <2>3 DEF JoinSave, SaveDone, TypeOK, SavedIfAccepted, WaitsKept
    <3>3. SuccessMeansInterrupted' /\ StopsInOrder'
      BY <2>3 DEF JoinSave, SaveDone, SuccessMeansInterrupted, StopsInOrder
    <3> QED
      BY <3>1, <3>2, <3>3
  <2>4. CASE Save
    <3>1. LastErrorReported'
      BY <2>4, ReportKept DEF Save, CheckConnected, Notified, WritePassword
    <3>2. SavedIfAccepted' /\ WaitsKept'
      BY <2>4 DEF Save, CheckConnected, Notified, WritePassword, SavedIfAccepted, WaitsKept
    <3>3. SuccessMeansInterrupted' /\ StopsInOrder'
      BY <2>4 DEF Save, CheckConnected, Notified, WritePassword,
                  SuccessMeansInterrupted, StopsInOrder
    <3> QED
      BY <3>1, <3>2, <3>3
  <2>5. CASE Signal \/ SessionEnds \/ ProxyEnds
    <3>1. LastErrorReported'
      BY <2>5, ReportKept DEF Signal, SessionEnds, ProxyEnds
    <3>2. SavedIfAccepted' /\ SuccessMeansInterrupted' /\ WaitsKept' /\ StopsInOrder'
      BY <2>5 DEF Signal, SessionEnds, ProxyEnds, SavedIfAccepted,
                  SuccessMeansInterrupted, WaitsKept, StopsInOrder
    <3> QED
      BY <3>1, <3>2
  <2>6. CASE LogCertificateFailure
    BY <2>6, LogKeepsInvariant
  <2>7. ASSUME NEW event \in Events, Record(event) PROVE LifecycleInvariant'
    BY <2>7, RecordKeepsInvariant
  <2>8. CASE UNCHANGED vars
    <3>1. LastErrorReported'
      BY <2>8, ReportKept DEF vars
    <3> QED
      BY <2>8, <3>1 DEF vars, SavedIfAccepted, SuccessMeansInterrupted, WaitsKept, StopsInOrder
  <2> QED
    BY <2>1, <2>2, <2>3, <2>4, <2>5, <2>6, <2>7, <2>8 DEF Next, Main
<1> QED
  BY <1>1, <1>2, LifecycleTypes, PTL DEF Spec

\* A password is taken to the keychain exactly if the server accepted it (main.rs:329-335).
THEOREM SavedTheorem == Spec => []SavedIfAccepted
BY LifecycleConsistent, PTL DEF LifecycleInvariant

\* Neither server nor session runs when main drops what they use (main.rs:321-337).
THEOREM LeftBehindTheorem == Spec => []NothingLeftBehind
<1>1. LifecycleInvariant => NothingLeftBehind
  BY DEF LifecycleInvariant, WaitsKept, NothingLeftBehind
<1> QED
  BY <1>1, LifecycleConsistent, PTL

\* Only an interrupt makes the process report success (main.rs:310-320).
THEOREM SuccessTheorem == Spec => []SuccessMeansInterrupted
BY LifecycleConsistent, PTL DEF LifecycleInvariant

\* The reason reported is the last error since the tunnel was up (vpn.rs:97-111).
THEOREM ReportTheorem == Spec => []LastErrorReported
BY LifecycleConsistent, PTL DEF LifecycleInvariant
=============================================================================
