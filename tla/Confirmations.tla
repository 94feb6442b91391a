---------------------------- MODULE Confirmations ---------------------------
(***************************************************************************)
(* What postData may rely on when it sends a write to the replicas         *)
(* (src/nodes/main.go): replicas store the write one at a time, before and *)
(* after the answer; the answer comes once, with a number of confirmations *)
(* that does not exceed the replicas that have stored the write by then,   *)
(* and is never taken back.  Goroutines, channel, context and timeout are  *)
(* not part of the promise; Fanout has them and is shown to implement this *)
(* module, and Requests uses a fan-out as it is promised here.             *)
(***************************************************************************)
EXTENDS Naturals, FiniteSets

CONSTANT Nodes          \* the replicas the write is sent to

VARIABLES
  stored,               \* those that have stored it
  answered,             \* the client has its answer
  count                 \* the number of confirmations in it

vars == <<stored, answered, count>>

Init ==
  /\ stored = {}
  /\ answered = FALSE
  /\ count = 0

Store(n) ==
  /\ n \notin stored
  /\ stored' = stored \cup {n}
  /\ UNCHANGED <<answered, count>>

Answer ==
  /\ ~answered
  /\ answered' = TRUE
  /\ count' \in 0..Cardinality(stored)
  /\ UNCHANGED stored

Next == Answer \/ \E n \in Nodes : Store(n)

Spec == Init /\ [][Next]_vars
=============================================================================
