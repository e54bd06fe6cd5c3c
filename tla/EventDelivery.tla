---------------------------- MODULE EventDelivery ----------------------------
(***************************************************************************)
(* Event delivery (internal/events): the transactional outbox, the relay   *)
(* into one Redis stream, the consumer groups with leases, retries,        *)
(* deferrals and dead letters, and the operator's redelivery.              *)
(*                                                                         *)
(* Every Lua script is one action, because Redis runs it atomically; what  *)
(* happens between two scripts of the same consumer is up to the others.   *)
(* Times are abstract: a pending message may be claimed at any time, a     *)
(* deferral ends at some time, a lease ends when its process is gone.      *)
(*                                                                         *)
(* Faults are a budget: a relay that stops between XADD and COMMIT, a      *)
(* consumer that stops or is refused by Redis anywhere, and a consumer so  *)
(* slow that its lease expires under it.  The stream is not trimmed: it    *)
(* keeps 100000 messages, and no bound here comes near that.               *)
(***************************************************************************)
EXTENDS Naturals, Sequences, FiniteSets

CONSTANTS
  Events,          \* outbox_event ids
  Groups,          \* consumer groups
  Workers,         \* consumer processes
  GroupOf,         \* GroupOf[w]: the group of w
  Free, Orphan,    \* no lease; a lease whose process is gone
  AnyGroup,        \* a message without target_group
  MaxDeliveries,   \* maxDeliveries
  MaxFaults,       \* bound on the faults
  MaxDefers,       \* bound on the deferrals
  MaxReplays       \* bound on the redeliveries

ASSUME DeliveryAssumption ==
  /\ GroupOf \in [Workers -> Groups]
  /\ Free \notin Workers /\ Orphan \notin Workers /\ Free # Orphan
  /\ AnyGroup \notin Groups
  /\ MaxDeliveries \in Nat \ {0}
  /\ {MaxFaults, MaxDefers, MaxReplays} \subseteq Nat

VARIABLES
  outbox,     \* "none", "ready" (published_at IS NULL) or "published"
  relaying,   \* events added to the stream by a relay that has not committed
  stream,     \* messages, the id of a message is its index
  cursor,     \* last message handed to the group by XREADGROUP
  pel,        \* messages delivered to the group and not acknowledged
  lease,      \* holder of the delivery lease of <<group, event>>
  attempts,   \* failed deliveries of <<group, event>>
  deferred,   \* the deferral of <<group, event>> has not ended yet
  dead,       \* dead letters, <<group, message>>
  handled,    \* <<group, event>> whose handler has committed
  work,       \* what each consumer is doing
  faults, defers, replays    \* spent budgets

vars == <<outbox, relaying, stream, cursor, pel, lease, attempts, deferred, dead,
          handled, work, faults, defers, replays>>

Keys == Groups \X Events
Message == [event : Events, target : Groups \cup {AnyGroup}]
Stage == {"idle", "got", "leased", "running", "ok", "failed", "deferring", "exhausted"}
Job == [stage : Stage, msg : Nat, stalled : BOOLEAN]

TypeOK ==
  /\ outbox \in [Events -> {"none", "ready", "published"}]
  /\ relaying \subseteq Events
  /\ stream \in Seq(Message)
  /\ cursor \in [Groups -> 0..Len(stream)]
  /\ pel \in [Groups -> SUBSET (1..Len(stream))]
  /\ lease \in [Keys -> Workers \cup {Free, Orphan}]
  /\ attempts \in [Keys -> Nat]
  /\ deferred \in [Keys -> BOOLEAN]
  /\ dead \subseteq Groups \X (1..Len(stream))
  /\ handled \subseteq Keys
  /\ work \in [Workers -> Job]
  /\ \A w \in Workers : work[w].stage # "idle" => work[w].msg \in 1..Len(stream)
  /\ {faults, defers, replays} \subseteq Nat

Idle == [stage |-> "idle", msg |-> 0, stalled |-> FALSE]

Init ==
  /\ outbox = [e \in Events |-> "none"]
  /\ relaying = {}
  /\ stream = <<>>
  /\ cursor = [g \in Groups |-> 0]
  /\ pel = [g \in Groups |-> {}]
  /\ lease = [k \in Keys |-> Free]
  /\ attempts = [k \in Keys |-> 0]
  /\ deferred = [k \in Keys |-> FALSE]
  /\ dead = {}
  /\ handled = {}
  /\ work = [w \in Workers |-> Idle]
  /\ faults = 0 /\ defers = 0 /\ replays = 0

relayVars == <<outbox, relaying>>
streamVars == <<stream, cursor>>
keyVars == <<attempts, deferred>>
budgets == <<faults, defers, replays>>

-----------------------------------------------------------------------------
(* The outbox and the relay.                                               *)

\* The row commits with the business write.
Enqueue(e) ==
  /\ outbox[e] = "none"
  /\ outbox' = [outbox EXCEPT ![e] = "ready"]
  /\ UNCHANGED <<relaying, streamVars, pel, lease, keyVars, dead, handled, work, budgets>>

\* relayOne up to XADD; SKIP LOCKED keeps other relays off the row.
RelayAdd(e) ==
  /\ outbox[e] = "ready"
  /\ e \notin relaying
  /\ stream' = Append(stream, [event |-> e, target |-> AnyGroup])
  /\ relaying' = relaying \cup {e}
  /\ UNCHANGED <<outbox, cursor, pel, lease, keyVars, dead, handled, work, budgets>>

RelayCommit(e) ==
  /\ e \in relaying
  /\ outbox' = [outbox EXCEPT ![e] = "published"]
  /\ relaying' = relaying \ {e}
  /\ UNCHANGED <<streamVars, pel, lease, keyVars, dead, handled, work, budgets>>

\* A crash, a failed COMMIT, or an XADD whose answer was lost.
RelayFails(e) ==
  /\ e \in relaying
  /\ faults < MaxFaults
  /\ faults' = faults + 1
  /\ relaying' = relaying \ {e}
  /\ UNCHANGED <<outbox, streamVars, pel, lease, keyVars, dead, handled, work, defers, replays>>

-----------------------------------------------------------------------------
(* The consumer loop.                                                      *)

Msg(w) == work[w].msg
Key(w) == <<GroupOf[w], stream[Msg(w)].event>>
Holds(w) == lease[Key(w)] = w
InStage(w, stage) == work[w].stage = stage

To(w, stage) == work' = [work EXCEPT ![w].stage = stage]
Done(w) == work' = [work EXCEPT ![w] = Idle]

\* The deferred release; the script compares the token.
Release(w) ==
  lease' = IF Holds(w) THEN [lease EXCEPT ![Key(w)] = Free] ELSE lease

\* XREADGROUP ">"; a batch is read one message after the other.
ReadNew(w) ==
  LET g == GroupOf[w]
  IN /\ InStage(w, "idle")
     /\ cursor[g] < Len(stream)
     /\ cursor' = [cursor EXCEPT ![g] = @ + 1]
     /\ pel' = [pel EXCEPT ![g] = @ \cup {cursor[g] + 1}]
     /\ work' = [work EXCEPT ![w] = [stage |-> "got", msg |-> cursor[g] + 1, stalled |-> FALSE]]
     /\ UNCHANGED <<relayVars, stream, lease, keyVars, dead, handled, budgets>>

\* XAUTOCLAIM takes a pending message over, from whoever has it.
AutoClaim(w, m) ==
  /\ InStage(w, "idle")
  /\ m \in pel[GroupOf[w]]
  /\ work' = [work EXCEPT ![w] = [stage |-> "got", msg |-> m, stalled |-> FALSE]]
  /\ UNCHANGED <<relayVars, streamVars, pel, lease, keyVars, dead, handled, budgets>>

\* A slip: a redelivery is taken for somebody else's in its own group.
AnyTarget(w) == stream[Msg(w)].target # AnyGroup

ForOther(w) == stream[Msg(w)].target \notin {AnyGroup, GroupOf[w]}

\* A redelivery meant for another group.
SkipTargeted(w) ==
  /\ InStage(w, "got")
  /\ ForOther(w)
  /\ pel' = [pel EXCEPT ![GroupOf[w]] = @ \ {Msg(w)}]
  /\ Done(w)
  /\ UNCHANGED <<relayVars, streamVars, lease, keyVars, dead, handled, budgets>>

\* A slip: the lease is taken without NX.
AcquireAlways(w) ==
  /\ InStage(w, "got")
  /\ ~ForOther(w)
  /\ Msg(w) \in pel[GroupOf[w]]
  /\ lease' = [lease EXCEPT ![Key(w)] = w]
  /\ To(w, "leased")
  /\ UNCHANGED <<relayVars, streamVars, pel, keyVars, dead, handled, budgets>>

\* acquireDeliveryScript
AcquireDelivery(w) ==
  /\ InStage(w, "got")
  /\ ~ForOther(w)
  /\ IF Msg(w) \in pel[GroupOf[w]] /\ lease[Key(w)] = Free
       THEN lease' = [lease EXCEPT ![Key(w)] = w] /\ To(w, "leased")
       ELSE UNCHANGED lease /\ Done(w)
  /\ UNCHANGED <<relayVars, streamVars, pel, keyVars, dead, handled, budgets>>

\* deferredUntil
CheckDeferred(w) ==
  /\ InStage(w, "leased")
  /\ IF deferred[Key(w)]
       THEN Release(w) /\ Done(w)
       ELSE UNCHANGED lease /\ To(w, "running")
  /\ UNCHANGED <<relayVars, streamVars, pel, keyVars, dead, handled, budgets>>

\* The handler commits its own transaction; events are idempotent by id.
HandlerSucceeds(w) ==
  /\ InStage(w, "running")
  /\ handled' = handled \cup {Key(w)}
  /\ To(w, "ok")
  /\ UNCHANGED <<relayVars, streamVars, pel, lease, keyVars, dead, budgets>>

HandlerFails(w) ==
  /\ InStage(w, "running")
  /\ To(w, "failed")
  /\ UNCHANGED <<relayVars, streamVars, pel, lease, keyVars, dead, handled, budgets>>

HandlerDefers(w) ==
  /\ InStage(w, "running")
  /\ defers < MaxDefers
  /\ defers' = defers + 1
  /\ To(w, "deferring")
  /\ UNCHANGED <<relayVars, streamVars, pel, lease, keyVars, dead, handled, faults, replays>>

-----------------------------------------------------------------------------
(* The scripts that settle a delivery.  Each starts by comparing the token *)
(* of the lease and otherwise fails with "delivery lease lost".            *)

Acked(w) == pel' = [pel EXCEPT ![GroupOf[w]] = @ \ {Msg(w)}]

\* finishDelivery, success
FinishDelivery(w) ==
  /\ InStage(w, "ok")
  /\ IF Holds(w) /\ Msg(w) \in pel[GroupOf[w]]
       THEN /\ Acked(w)
            /\ attempts' = [attempts EXCEPT ![Key(w)] = 0]
            /\ deferred' = [deferred EXCEPT ![Key(w)] = FALSE]
       ELSE UNCHANGED <<pel, keyVars>>
  /\ Release(w)
  /\ Done(w)
  /\ UNCHANGED <<relayVars, streamVars, dead, handled, budgets>>

\* A slip: the delivery before the last one is taken for the last.
IncrTooEarly(w) ==
  /\ InStage(w, "failed")
  /\ attempts' = IF Holds(w) THEN [attempts EXCEPT ![Key(w)] = @ + 1] ELSE attempts
  /\ IF Holds(w) /\ attempts[Key(w)] + 2 >= MaxDeliveries
       THEN UNCHANGED lease /\ To(w, "exhausted")
       ELSE Release(w) /\ Done(w)
  /\ UNCHANGED <<relayVars, streamVars, pel, deferred, dead, handled, budgets>>

\* incrDeliveryAttempt
IncrDeliveryAttempt(w) ==
  /\ InStage(w, "failed")
  /\ attempts' = IF Holds(w) THEN [attempts EXCEPT ![Key(w)] = @ + 1] ELSE attempts
  /\ IF Holds(w) /\ attempts[Key(w)] + 1 >= MaxDeliveries
       THEN UNCHANGED lease /\ To(w, "exhausted")
       ELSE Release(w) /\ Done(w)
  /\ UNCHANGED <<relayVars, streamVars, pel, deferred, dead, handled, budgets>>

\* finishDelivery, dead: the counter stays
BuryDelivery(w) ==
  /\ InStage(w, "exhausted")
  /\ IF Holds(w) /\ Msg(w) \in pel[GroupOf[w]]
       THEN /\ Acked(w)
            /\ dead' = dead \cup {<<GroupOf[w], Msg(w)>>}
            /\ deferred' = [deferred EXCEPT ![Key(w)] = FALSE]
       ELSE UNCHANGED <<pel, dead, deferred>>
  /\ Release(w)
  /\ Done(w)
  /\ UNCHANGED <<relayVars, streamVars, attempts, handled, budgets>>

\* markDeferredHeld, for a time or for no time
MarkDeferred(w) ==
  /\ InStage(w, "deferring")
  /\ \E later \in BOOLEAN :
       deferred' = IF Holds(w) THEN [deferred EXCEPT ![Key(w)] = later] ELSE deferred
  /\ Release(w)
  /\ Done(w)
  /\ UNCHANGED <<relayVars, streamVars, pel, attempts, dead, handled, budgets>>

-----------------------------------------------------------------------------
(* Faults and time.                                                        *)

\* The process stops, or a call to Redis fails, or its context is cancelled.
\* The lease it held is released or left to expire.
Interrupt(w) ==
  /\ ~InStage(w, "idle")
  /\ faults < MaxFaults
  /\ faults' = faults + 1
  /\ \/ Release(w)
     \/ Holds(w) /\ lease' = [lease EXCEPT ![Key(w)] = Orphan]
  /\ Done(w)
  /\ UNCHANGED <<relayVars, streamVars, pel, keyVars, dead, handled, defers, replays>>

\* The lease was not renewed in time although the consumer goes on.
LeaseLost(w) ==
  /\ ~InStage(w, "idle")
  /\ Holds(w)
  /\ faults < MaxFaults
  /\ faults' = faults + 1
  /\ lease' = [lease EXCEPT ![Key(w)] = Free]
  /\ work' = [work EXCEPT ![w].stalled = TRUE]
  /\ UNCHANGED <<relayVars, streamVars, pel, keyVars, dead, handled, defers, replays>>

\* A slip: the lease is set without PX.
NeverExpires(k) ==
  /\ FALSE
  /\ UNCHANGED vars

LeaseExpires(k) ==
  /\ lease[k] = Orphan
  /\ lease' = [lease EXCEPT ![k] = Free]
  /\ UNCHANGED <<relayVars, streamVars, pel, keyVars, dead, handled, work, budgets>>

DeferralEnds(k) ==
  /\ deferred[k]
  /\ deferred' = [deferred EXCEPT ![k] = FALSE]
  /\ UNCHANGED <<relayVars, streamVars, pel, lease, attempts, dead, handled, work, budgets>>

-----------------------------------------------------------------------------
\* A slip: the counters are reset under a running handler.
RedeliverRunning(g, m) ==
  /\ <<g, m>> \in dead
  /\ replays < MaxReplays
  /\ replays' = replays + 1
  /\ stream' = Append(stream, [event |-> stream[m].event, target |-> g])
  /\ attempts' = [attempts EXCEPT ![<<g, stream[m].event>>] = 0]
  /\ deferred' = [deferred EXCEPT ![<<g, stream[m].event>>] = FALSE]
  /\ dead' = dead \ {<<g, m>>}
  /\ UNCHANGED <<relayVars, cursor, pel, lease, handled, work, faults, defers>>

\* RedeliverDeadLetters, one letter; a batch is several of them or none.
RedeliverDeadLetter(g, m) ==
  /\ <<g, m>> \in dead
  /\ lease[<<g, stream[m].event>>] = Free
  /\ replays < MaxReplays
  /\ replays' = replays + 1
  /\ stream' = Append(stream, [event |-> stream[m].event, target |-> g])
  /\ attempts' = [attempts EXCEPT ![<<g, stream[m].event>>] = 0]
  /\ deferred' = [deferred EXCEPT ![<<g, stream[m].event>>] = FALSE]
  /\ dead' = dead \ {<<g, m>>}
  /\ UNCHANGED <<relayVars, cursor, pel, lease, handled, work, faults, defers>>

-----------------------------------------------------------------------------
\* What a consumer that has a message does next, whoever interferes.
Proceed(w) ==
  \/ SkipTargeted(w)
  \/ AcquireDelivery(w)
  \/ CheckDeferred(w)
  \/ HandlerSucceeds(w) \/ HandlerFails(w) \/ HandlerDefers(w)
  \/ FinishDelivery(w)
  \/ IncrDeliveryAttempt(w)
  \/ BuryDelivery(w)
  \/ MarkDeferred(w)

Next ==
  \/ \E e \in Events : Enqueue(e) \/ RelayAdd(e) \/ RelayCommit(e) \/ RelayFails(e)
  \/ \E w \in Workers :
       \/ ReadNew(w)
       \/ \E m \in pel[GroupOf[w]] : AutoClaim(w, m)
       \/ Proceed(w)
       \/ Interrupt(w)
       \/ LeaseLost(w)
  \/ \E k \in Keys : LeaseExpires(k) \/ DeferralEnds(k)
  \/ \E d \in dead : RedeliverDeadLetter(d[1], d[2])

Spec == Init /\ [][Next]_vars

\* The relay and every consumer go on as long as their process runs, and a
\* process that stops is started again.  Each round of RunConsumer claims with
\* a cursor that passes over every pending message and then reads new ones,
\* hence strong fairness for both.  Keys expire in Redis by themselves.  No
\* more messages than these can exist.
Messages == 1..(Cardinality(Events) + MaxFaults + MaxReplays)
Fairness ==
  /\ \A e \in Events : WF_vars(RelayAdd(e)) /\ WF_vars(RelayCommit(e))
  /\ \A w \in Workers : WF_vars(Proceed(w))
  /\ \A g \in Groups : SF_vars(\E w \in Workers : GroupOf[w] = g /\ ReadNew(w))
  /\ \A g \in Groups, m \in Messages :
       SF_vars(\E w \in Workers : GroupOf[w] = g /\ AutoClaim(w, m))
  /\ \A k \in Keys : WF_vars(LeaseExpires(k)) /\ WF_vars(DeferralEnds(k))

-----------------------------------------------------------------------------
(* Properties.                                                             *)

\* A message for group g that g has not acknowledged, delivered or not.
Outstanding(g, m) ==
  /\ stream[m].target \in {AnyGroup, g}
  /\ m > cursor[g] \/ m \in pel[g]

\* No event is lost: from the commit of the business write on, each group has
\* handled it, or it is still in the outbox, in the stream, being delivered,
\* or among the group's dead letters, whatever fails in between.
NothingLost ==
  \A g \in Groups, e \in Events :
    outbox[e] # "none" =>
      \/ outbox[e] = "ready"
      \/ <<g, e>> \in handled
      \/ \E m \in 1..Len(stream) :
           stream[m].event = e /\ (Outstanding(g, m) \/ <<g, m>> \in dead)

\* The lease keeps an autoclaimed message from running alongside its original
\* handler: two consumers of a group run the same event only if one of them
\* outlived its lease.
SingleRunner ==
  \A v, w \in Workers :
    v # w /\ InStage(v, "running") /\ InStage(w, "running") /\ Key(v) = Key(w) =>
      work[v].stalled \/ work[w].stalled

HolderStep(k) ==
  lease[k] \in Workers /\ attempts'[k] # attempts[k] => work'[lease[k]] # work[lease[k]]

\* While a delivery is leased, its retry counter is the holder's: neither a
\* consumer that lost the lease nor a redelivery changes it underneath.
LeaseGuardsAttempts == [][\A k \in Keys : HolderStep(k)]_vars

Buried(g, e) == \E m \in 1..Len(stream) : stream[m].event = e /\ <<g, m>> \in dead

\* What the promise of Delivery calls the state of an event in a group.
Standing(k) ==
  IF outbox[k[2]] = "none" THEN "unsent"
  ELSE IF k \in handled THEN "served"
  ELSE IF Buried(k[1], k[2]) THEN "buried"
  ELSE "owed"

Promised == INSTANCE Delivery WITH
  state <- [k \in Keys |-> Standing(k)], failures <- attempts

\* Event delivery implements Delivery: whatever a crash, a lost lease or a duplicate in
\* the stream does, no handled event is owed again, and none is given up before the full
\* number of failures that count for it.
DeliveryPromise == Promised!Spec

\* Every event is in the end handled by each group or given up as a dead
\* letter, through duplicates, crashes, orphaned leases and deferrals.
EventuallySettled ==
  \A g \in Groups, e \in Events :
    outbox[e] # "none" ~> (<<g, e>> \in handled \/ Buried(g, e))
=============================================================================
