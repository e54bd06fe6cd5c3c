------------------------------ MODULE Delivery ------------------------------
(***************************************************************************)
(* What event delivery promises to the handlers, without streams, leases    *)
(* and crashes: an event is owed to all groups from the commit of the       *)
(* business write on; a group that was served stays served; a group's event *)
(* is given up only after MaxDeliveries failures, counted since it was      *)
(* written, served or sent again; what was given up may be sent again.      *)
(* EventDelivery implements this (DeliveryPromise).                         *)
(***************************************************************************)
EXTENDS Naturals

CONSTANTS Groups, Events, MaxDeliveries

VARIABLES
  state,      \* of <<group, event>>
  failures    \* of its handler, as far as they count

promise == <<state, failures>>
Keys == Groups \X Events

Init ==
  /\ state = [k \in Keys |-> "unsent"]
  /\ failures = [k \in Keys |-> 0]

Write(e) ==
  /\ \A g \in Groups : state[<<g, e>>] = "unsent"
  /\ state' = [k \in Keys |-> IF k[2] = e THEN "owed" ELSE state[k]]
  /\ UNCHANGED failures

Serve(k) ==
  /\ state[k] \in {"owed", "buried"}
  /\ state' = [state EXCEPT ![k] = "served"]
  /\ UNCHANGED failures

Fail(k) ==
  /\ state[k] # "unsent"
  /\ failures' = [failures EXCEPT ![k] = @ + 1]
  /\ UNCHANGED state

\* The success is acknowledged.
Forget(k) ==
  /\ state[k] = "served"
  /\ failures' = [failures EXCEPT ![k] = 0]
  /\ UNCHANGED state

GiveUp(k) ==
  /\ state[k] = "owed"
  /\ failures[k] >= MaxDeliveries
  /\ state' = [state EXCEPT ![k] = "buried"]
  /\ UNCHANGED failures

\* Another copy that was given up may be left.
SendAgain(k) ==
  /\ state[k] \in {"served", "buried"}
  /\ state' \in {state, [state EXCEPT ![k] = IF @ = "buried" THEN "owed" ELSE @]}
  /\ failures' = [failures EXCEPT ![k] = 0]

Next ==
  \/ \E e \in Events : Write(e)
  \/ \E k \in Keys : Serve(k) \/ Fail(k) \/ Forget(k) \/ GiveUp(k) \/ SendAgain(k)

Spec == Init /\ [][Next]_promise
=============================================================================
