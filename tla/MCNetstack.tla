----------------------------- MODULE MCNetstack -----------------------------
(* Small instances of Netstack for TLC. *)
EXTENDS Netstack, TLC

MCDual == { [v4 |-> TRUE, v6 |-> TRUE, dns |-> TRUE] }
MCIPv4 == { [v4 |-> TRUE, v6 |-> FALSE, dns |-> FALSE] }

\* Requests are interchangeable: nothing orders or names them.
Symmetry == Permutations(Requests)

\* Bound of the run on ports: attempts end by cancellation or refusal, not by
\* their deadline, which makes no difference to the ports.
NoDeadlinePasses == expired = {}
=============================================================================
