------------------------------ MODULE MCBroker ------------------------------
(* Instances of Broker for TLC. *)
EXTENDS Broker, TLC

\* The handler on the connection itself. Under the wrappers of cmd/server/main.go,
\* <<"statusRecorder", "responseWriter">>, it refuses every stream.
NoWrappers == <<>>

\* Streams and publishers are interchangeable: no property names one of them.
Symmetry == Permutations(Streams) \cup Permutations(Publishers)
=============================================================================
