----------------------------- MODULE OneService -----------------------------
(***************************************************************************)
(* What the callers of the service manager may rely on: of all the         *)
(* instances of a service ever made, at most one is up.                    *)
(***************************************************************************)
CONSTANT Instances

VARIABLE up      \* the instances that are up

Init == up = {}

Start(i) == up = {} /\ up' = {i}

\* By a stop, or by the end of the process.
Stop == up # {} /\ up' = {}

Next == Stop \/ \E i \in Instances : Start(i)

Spec == Init /\ [][Next]_up

=============================================================================
