--------------------------- MODULE TunnelService ---------------------------
(***************************************************************************)
(* What the packet tunnel promises its callers, without threads, channels, *)
(* sockets or packets: a request made once is answered at most once, a     *)
(* stream opens only over a tunnel that is up, and a tunnel takes all its  *)
(* streams with it when it is lost or replaced.                            *)
(***************************************************************************)
EXTENDS Naturals

CONSTANT Requests

VARIABLES
    link,    \* the tunnel that is up, 0 for none
    status   \* what has become of each request

vars == <<link, status>>

Becomes(r, from, to) == status[r] = from /\ status' = [status EXCEPT ![r] = to]

Init == link = 0 /\ status = [r \in Requests |-> "idle"]

Request(r) == Becomes(r, "idle", "waiting") /\ UNCHANGED link

\* The stack is shut down: the request fails before anybody sees it.
Reject(r) == Becomes(r, "idle", "failed") /\ UNCHANGED link

Withdraw(r) == Becomes(r, "waiting", "cancelled") /\ UNCHANGED link

Fail(r) == Becomes(r, "waiting", "failed") /\ UNCHANGED link

\* The stream may already be over when the caller gets it.
Open(r) ==
    /\ link # 0
    /\ Becomes(r, "waiting", "open") \/ Becomes(r, "waiting", "closed")
    /\ UNCHANGED link

Close(r) == Becomes(r, "open", "closed") /\ UNCHANGED link

\* The tunnel is lost (0) or replaced by a later one: its streams end, and the
\* requests it was working on fail.
Relink ==
    /\ link' \in Nat
    /\ link' = 0 \/ link' > link
    /\ \E hungUp \in SUBSET { r \in Requests : status[r] = "waiting" } :
         status' = [r \in Requests |->
                      IF status[r] = "open" THEN "closed"
                      ELSE IF r \in hungUp THEN "failed" ELSE status[r]]

Next ==
    \/ Relink
    \/ \E r \in Requests : Request(r) \/ Reject(r) \/ Withdraw(r) \/ Fail(r)
                           \/ Open(r) \/ Close(r)

Spec == Init /\ [][Next]_vars
=============================================================================
