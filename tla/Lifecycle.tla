------------------------------ MODULE Lifecycle -----------------------------
(***************************************************************************)
(* The life of the process: the select! and the shutdown sequence of main  *)
(* (src/src/main.rs), the session it waits for, the Diagnostics (src/src/  *)
(* vpn.rs) that the session's callbacks record, and the task that saves    *)
(* the password once the server has accepted it.                           *)
(*                                                                         *)
(* `session` is the blocking thread inside Client::connect (the OpenVPN    *)
(* core is external: it emits any events, and returns after stop());       *)
(* `proxy` is socks::serve, which module Socks shows to return after the   *)
(* shutdown signal.                                                        *)
(***************************************************************************)
EXTENDS Naturals

VARIABLES
    main,          \* where main is
    result,        \* how its select! ended
    signalled,     \* SIGINT has come
    shutdown, stop, \* shutdown_tx.send(true), client.stop()
    proxy, session, \* the two tasks
    save,          \* the task that saves the password
    connected, received_reply, certificate_failed, failure, \* DiagnosticState
    permit,        \* of DiagnosticShared.connected, a Notify
    lastError      \* history: the last error event since CONNECTED

requests == <<signalled, shutdown, stop>>
tasks == <<proxy, session, save>>
diagnostics == <<connected, received_reply, certificate_failed, failure, permit>>
vars == <<main, result, requests, tasks, diagnostics, lastError>>

\* Events whose error or fatal flag is set; the others are informative.
Errors == {"AUTH_FAILED", "CONNECTION_TIMEOUT", "OTHER_ERROR"}
Events == {"CONNECTING", "CONNECTED", "OTHER"} \cup Errors
Reasons == {"none", "auth", "timeout_certificate", "timeout_silent", "timeout_setup", "other"}

Init ==
    /\ main = "select" /\ result = "none"
    /\ signalled = FALSE /\ shutdown = FALSE /\ stop = FALSE
    /\ proxy = "running" /\ session = "running"
    /\ save \in {"none", "checking"}        \* password_to_save
    /\ connected = FALSE /\ received_reply = FALSE /\ certificate_failed = FALSE
    /\ failure = "none" /\ permit = FALSE
    /\ lastError = "none"

-----------------------------------------------------------------------------
(* The session: events, log lines, and its end. *)

\* The reason recorded for an error event.
Reason(event) ==
    CASE event = "AUTH_FAILED" -> "auth"
      [] event = "CONNECTION_TIMEOUT" ->
           IF certificate_failed THEN "timeout_certificate"
           ELSE IF ~received_reply THEN "timeout_silent" ELSE "timeout_setup"
      [] OTHER -> "other"

\* Plausible bug: any later event clears the failure, not only CONNECTED.
FailureAfterClearing(event) == IF event \in Errors THEN Reason(event) ELSE "none"

FailureAfter(event) ==
    IF event \in Errors THEN Reason(event)
    ELSE IF event = "CONNECTED" THEN "none" ELSE failure

\* Plausible bug: nobody is notified of CONNECTED.
NotifyNobody == UNCHANGED permit

\* notify_one: kept for a waiter that comes later.
NotifyOne == permit' = TRUE

Record(event) ==
    /\ session = "running"
    /\ failure' = FailureAfter(event)
    /\ received_reply' = (received_reply \/ event \in {"CONNECTING", "CONNECTED"})
    /\ \/ /\ event = "CONNECTED"
          /\ connected' = TRUE /\ certificate_failed' = FALSE /\ NotifyOne
       \/ /\ event # "CONNECTED"
          /\ UNCHANGED <<connected, certificate_failed, permit>>
    /\ lastError' = IF event = "OTHER" \/ event = "CONNECTING" THEN lastError
                    ELSE IF event = "CONNECTED" THEN "none" ELSE event
    /\ UNCHANGED <<main, result, requests, tasks>>

LogCertificateFailure ==
    /\ session = "running"
    /\ certificate_failed' = TRUE
    /\ UNCHANGED <<main, result, requests, tasks, connected, received_reply, failure,
                   permit, lastError>>

\* Client::connect returns, by itself or because of stop().
SessionEnds ==
    /\ session = "running"
    /\ session' = "ended"
    /\ UNCHANGED <<main, result, requests, proxy, save, diagnostics, lastError>>

\* socks::serve returns: Ok after the shutdown signal, or a failed accept.
ProxyEnds ==
    /\ proxy = "running"
    /\ proxy' \in IF shutdown THEN {"ended", "failed"} ELSE {"failed"}
    /\ UNCHANGED <<main, result, requests, session, save, diagnostics, lastError>>

Signal ==
    /\ ~signalled
    /\ signalled' = TRUE
    /\ UNCHANGED <<main, result, shutdown, stop, tasks, diagnostics, lastError>>

-----------------------------------------------------------------------------
(* The save task. *)

\* wait_connected: was_connected, then the notification, then once more.
CheckConnected ==
    /\ save = "checking"
    /\ save' = IF connected THEN "writing" ELSE "waiting"
    /\ UNCHANGED <<main, result, requests, proxy, session, diagnostics, lastError>>

Notified ==
    /\ save = "waiting" /\ permit
    /\ permit' = FALSE /\ save' = "checking"
    /\ UNCHANGED <<main, result, requests, proxy, session, connected, received_reply,
                   certificate_failed, failure, lastError>>

\* What becomes of the password: a keychain that refuses it is only warned of.
Tried == {"written", "refused"}

WritePassword ==
    /\ save = "writing"
    /\ save' \in Tried
    /\ UNCHANGED <<main, result, requests, proxy, session, diagnostics, lastError>>

-----------------------------------------------------------------------------
(* main *)

\* Diagnostics::session_end, for an empty or a telling final status.
SessionEnd ==
    IF failure # "none" THEN {failure}
    ELSE IF certificate_failed THEN {"certificate"} ELSE {"status", "generic"}

\* Plausible bug: a session that ends without an error counts as success.
SessionResultOk == {"ok"}

SessionResult == SessionEnd

Select ==
    /\ main = "select"
    /\ main' = "stop"
    /\ \/ signalled /\ result' = "ok"
       \/ session = "ended" /\ result' \in SessionResult \cup {"connect_error"}
       \/ proxy = "ended" /\ result' = "ok"
       \/ proxy = "failed" /\ result' = "proxy"
    /\ UNCHANGED <<requests, tasks, diagnostics, lastError>>

\* Plausible bug: the client is not told to stop.
StopClientNot == UNCHANGED stop

StopClient == stop' = TRUE

SendStop ==
    /\ main = "stop"
    /\ shutdown' = TRUE /\ StopClient
    /\ main' = "join_proxy"
    /\ UNCHANGED <<result, signalled, tasks, diagnostics, lastError>>

JoinProxy ==
    /\ main = "join_proxy" /\ proxy # "running"
    /\ main' = "join_session"
    /\ UNCHANGED <<result, requests, tasks, diagnostics, lastError>>

\* Plausible bug: the session is not waited for.
SessionOverAtOnce == TRUE

SessionOver == session = "ended"

JoinSession ==
    /\ main = "join_session" /\ SessionOver
    /\ main' = "join_save"
    /\ UNCHANGED <<result, requests, tasks, diagnostics, lastError>>

\* The save task is waited for if the tunnel was ever up, else aborted.
JoinSave ==
    /\ main = "join_save"
    /\ \/ save = "none" /\ main' = "done" /\ UNCHANGED save
       \/ save # "none" /\ connected /\ main' = "wait_save" /\ UNCHANGED save
       \/ save # "none" /\ ~connected /\ main' = "done" /\ save' = "aborted"
    /\ UNCHANGED <<result, requests, proxy, session, diagnostics, lastError>>

\* Client and worker are dropped and main returns.
SaveDone ==
    /\ main = "wait_save" /\ save \in Tried
    /\ main' = "done"
    /\ UNCHANGED <<result, requests, tasks, diagnostics, lastError>>

-----------------------------------------------------------------------------
Main == Select \/ SendStop \/ JoinProxy \/ JoinSession \/ JoinSave \/ SaveDone
Save == CheckConnected \/ Notified \/ WritePassword

Next ==
    \/ Main \/ Save \/ Signal \/ SessionEnds \/ ProxyEnds
    \/ LogCertificateFailure \/ \E event \in Events : Record(event)

(* The runtime runs main and the save task, the keychain answers, serve returns
   after the shutdown signal (Socks, ServeReturns), and the OpenVPN core returns
   from connect after stop(). *)
Fairness ==
    /\ WF_vars(Main) /\ WF_vars(Save)
    /\ WF_vars(shutdown /\ ProxyEnds) /\ WF_vars(stop /\ SessionEnds)

Spec == Init /\ [][Next]_vars
FairSpec == Spec /\ Fairness

-----------------------------------------------------------------------------
(* Properties. *)

TypeOK ==
    /\ main \in {"select", "stop", "join_proxy", "join_session", "join_save",
                 "wait_save", "done"}
    /\ result \in {"none", "ok", "connect_error", "proxy", "certificate", "status",
                   "generic"} \cup Reasons
    /\ proxy \in {"running", "ended", "failed"} /\ session \in {"running", "ended"}
    /\ save \in {"none", "checking", "waiting", "writing", "aborted"} \cup Tried
    /\ failure \in Reasons /\ lastError \in Errors \cup {"none"}
    /\ {signalled, shutdown, stop, connected, received_reply, certificate_failed, permit}
         \subseteq BOOLEAN

\* A password to be saved reaches the keychain, which may refuse it, exactly if the
\* server accepted it, however the CONNECTED event and the end of the process race
\* ("Save the password ... after successful authentication", main.rs:49).
SavedIfAccepted ==
    /\ save \in {"writing"} \cup Tried => connected
    /\ main = "done" /\ save # "none" => save \in IF connected THEN Tried ELSE {"aborted"}

\* When main drops the client and the worker, nothing uses them any more.
NothingLeftBehind ==
    main = "done" => proxy # "running" /\ session = "ended"

\* The process reports success only if the user ended it; a session that ends by
\* itself is an error even if the core reports none (vpn.rs:44).
SuccessMeansInterrupted == result = "ok" => signalled

\* Once the session is over, the reason reported is the last error since the
\* tunnel was last up, whatever events followed it.
LastErrorReported ==
    /\ lastError = "AUTH_FAILED" => SessionEnd = {"auth"}
    /\ lastError = "CONNECTION_TIMEOUT" =>
         SessionEnd \subseteq {"timeout_certificate", "timeout_silent", "timeout_setup"}
    /\ lastError = "OTHER_ERROR" => SessionEnd = {"other"}

(* What makes the safety properties inductive. *)

\* What main has passed is over: each state after a wait implies what the wait
\* was for, although the tasks waited for end at any time and in any order.
WaitsKept ==
    /\ main \in {"join_session", "join_save", "wait_save", "done"} => proxy # "running"
    /\ main \in {"join_save", "wait_save", "done"} => session = "ended"
    /\ main = "wait_save" => connected /\ save \in {"checking", "waiting", "writing"} \cup Tried
    /\ save = "aborted" => main = "done"

\* The server ends by itself only in failure, so its good end cannot win the
\* select of main.
StopsInOrder ==
    /\ shutdown => main \notin {"select", "stop"}
    /\ proxy = "ended" => shutdown

\* The inductive invariant.
LifecycleInvariant ==
    SavedIfAccepted /\ SuccessMeansInterrupted /\ LastErrorReported /\ WaitsKept /\ StopsInOrder

\* The process ends after an interrupt, and after the end of its session.
ProcessEnds == signalled \/ session = "ended" ~> main = "done"

\* The notification of CONNECTED is never lost: the keychain gets the password.
SaveNotStuck == connected /\ save = "waiting" ~> save \in Tried
=============================================================================
