---------------------------- MODULE EventDelivery ----------------------------
(***************************************************************************)
(* What the event pipeline promises to the services that write events, and *)
(* nothing of how: an event that was written is delivered to all of its    *)
(* consumers in one step, each of them once, however often the event is    *)
(* opened again by an administrator.  Module EventOutbox implements it.    *)
(***************************************************************************)
EXTENDS Naturals

CONSTANTS
  Events, Consumers,
  ConsumersOf(_)    \* the consumers an event is for

VARIABLES
  stage,            \* "none", "open" (to deliver) or "delivered"
  applied           \* how often a consumer's effect took place for an event

vars == <<stage, applied>>

Init ==
  /\ stage = [e \in Events |-> "none"]
  /\ applied = [e \in Events |-> [c \in Consumers |-> 0]]

Write(e) ==
  /\ stage[e] = "none"
  /\ stage' = [stage EXCEPT ![e] = "open"]
  /\ UNCHANGED applied

\* Delivering an event again, open or not, has no effect on its consumers.
Deliver(e) ==
  /\ stage[e] # "none"
  /\ stage' = [stage EXCEPT ![e] = "delivered"]
  /\ applied' = [applied EXCEPT ![e] =
       [c \in Consumers |-> IF c \in ConsumersOf(e) THEN 1 ELSE 0]]

Reopen(e) ==
  /\ stage[e] = "delivered"
  /\ stage' = [stage EXCEPT ![e] = "open"]
  /\ UNCHANGED applied

Next == \E e \in Events : Write(e) \/ Deliver(e) \/ Reopen(e)

Spec == Init /\ [][Next]_vars
=============================================================================
