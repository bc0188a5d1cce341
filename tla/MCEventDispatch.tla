-------------------------- MODULE MCEventDispatch --------------------------
(* Instances of EventDispatch for TLC. *)
EXTENDS EventDispatch

Kind(p, m, f) == [priority |-> p, main |-> m, framework |-> f]

\* A user's listener on the notifying thread and on the main thread, and the
\* framework's own, at another priority.
MixedKinds == {Kind(2, FALSE, FALSE), Kind(2, TRUE, FALSE), Kind(1, FALSE, TRUE)}
MainKinds == {Kind(2, TRUE, FALSE)}

=============================================================================
