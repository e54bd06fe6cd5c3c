------------------------- MODULE EventDeliveryProofs -------------------------
(***************************************************************************)
(* What the outbox, the pending lists and the leases guarantee, for every  *)
(* number of events, groups, consumers, faults, deferrals and redeliveries.*)
(***************************************************************************)
EXTENDS EventDelivery, TLAPS

\* What group g is still owed of event e, or has had.
Kept(g, m) == Outstanding(g, m) \/ <<g, m>> \in dead

Owed(g, e) ==
  \/ <<g, e>> \in handled
  \/ \E m \in 1..Len(stream) : stream[m].event = e /\ Kept(g, m)

\* An event that was added to the stream is owed to every group, although the
\* relay has not committed yet.
RelayedOwed ==
  /\ \A e \in relaying : outbox[e] = "ready"
  /\ \A e \in Events, g \in Groups :
       e \in relaying \/ outbox[e] = "published" => Owed(g, e)

\* A consumer acknowledges only what its handler has committed.
OkHandled == \A w \in Workers : InStage(w, "ok") => Key(w) \in handled

Working == Stage \ {"idle", "got"}

\* A consumer at work holds the lease unless it outlived it.
HoldsOrStalled ==
  \A w \in Workers : work[w].stage \in Working => work[w].stalled \/ Holds(w)

DeliveryInv == TypeOK /\ RelayedOwed /\ OkHandled /\ HoldsOrStalled

-----------------------------------------------------------------------------
\* The key of a consumer with a message.
LEMMA KeyType ==
  ASSUME TypeOK, NEW w \in Workers, ~InStage(w, "idle")
  PROVE  /\ Msg(w) \in 1..Len(stream)
         /\ GroupOf[w] \in Groups
         /\ stream[Msg(w)] \in Message
         /\ Key(w) \in Keys
<1>1. Msg(w) \in 1..Len(stream)
  BY DEF TypeOK, Msg, InStage
<1>2. GroupOf[w] \in Groups
  BY DeliveryAssumption
<1>3. stream[Msg(w)] \in Message
  BY <1>1 DEF TypeOK
<1> QED
  BY <1>1, <1>2, <1>3 DEF Key, Keys, Message

\* Appending a message keeps the ones there are.
LEMMA Appended ==
  ASSUME TypeOK, NEW x \in Message, stream' = Append(stream, x)
  PROVE  /\ stream' \in Seq(Message)
         /\ Len(stream) \in Nat
         /\ Len(stream') = Len(stream) + 1
         /\ \A m \in 1..Len(stream) : stream'[m] = stream[m]
         /\ stream'[Len(stream) + 1] = x
BY DEF TypeOK

-----------------------------------------------------------------------------
\* Every step keeps the state of the relay, the stream and the consumers well
\* typed; in particular indices into the stream stay within it as it grows.
LEMMA DeliveryType == TypeOK /\ [Next]_vars => TypeOK'
<1> SUFFICES ASSUME TypeOK, [Next]_vars PROVE TypeOK'
  OBVIOUS
<1> USE DeliveryAssumption DEF relayVars, streamVars, keyVars, budgets
<1>n. Len(stream) \in Nat /\ \A w \in Workers : work[w] \in Job /\ work[w].msg \in Nat
  BY DEF TypeOK, Job
<1>j. ASSUME NEW w \in Workers, NEW stage \in Stage, To(w, stage), ~InStage(w, "idle"),
             UNCHANGED stream
      PROVE  /\ work' \in [Workers -> Job]
             /\ \A v \in Workers : work'[v].stage # "idle" => work'[v].msg \in 1..Len(stream')
  <2>1. work' \in [Workers -> Job]
    BY <1>j DEF To, TypeOK, Job
  <2>2. \A v \in Workers : v # w => work'[v] = work[v]
    BY <1>j DEF To, TypeOK
  <2>3. work'[w].msg = work[w].msg
    BY <1>j DEF To, TypeOK, Job
  <2>4. work[w].msg \in 1..Len(stream)
    BY <1>j, KeyType DEF Msg
  <2> QED
    BY <1>j, <2>1, <2>2, <2>3, <2>4 DEF TypeOK
<1>d. ASSUME NEW w \in Workers, Done(w), UNCHANGED stream
      PROVE  /\ work' \in [Workers -> Job]
             /\ \A v \in Workers : work'[v].stage # "idle" => work'[v].msg \in 1..Len(stream')
  <2>1. Idle \in Job /\ Idle.stage = "idle"
    BY DEF Idle, Job, Stage
  <2>2. \A v \in Workers : v # w => work'[v] = work[v]
    BY <1>d DEF Done, TypeOK
  <2>3. work'[w] = Idle
    BY <1>d DEF Done, TypeOK
  <2>4. work' \in [Workers -> Job]
    BY <1>d, <2>1 DEF Done, TypeOK
  <2> QED
    BY <1>d, <2>1, <2>2, <2>3, <2>4 DEF TypeOK
<1>g. ASSUME NEW w \in Workers, NEW m \in 1..Len(stream), UNCHANGED stream,
             work' = [work EXCEPT ![w] = [stage |-> "got", msg |-> m, stalled |-> FALSE]]
      PROVE  /\ work' \in [Workers -> Job]
             /\ \A v \in Workers : work'[v].stage # "idle" => work'[v].msg \in 1..Len(stream')
  <2> DEFINE j == [stage |-> "got", msg |-> m, stalled |-> FALSE]
  <2>1. j \in Job /\ j.msg = m
    BY <1>n DEF Job, Stage
  <2>2. \A v \in Workers : work'[v] = IF v = w THEN j ELSE work[v]
    BY <1>g DEF TypeOK
  <2> HIDE DEF j
  <2>3. work' \in [Workers -> Job]
    BY <1>g, <2>1, <2>2 DEF TypeOK, j
  <2> QED
    BY <1>g, <2>1, <2>2, <2>3 DEF TypeOK
<1>r. ASSUME NEW w \in Workers, ~InStage(w, "idle"), Release(w)
      PROVE  lease' \in [Keys -> Workers \cup {Free, Orphan}]
  BY <1>r DEF Release, TypeOK
<1>p. ASSUME NEW w \in Workers, ~InStage(w, "idle"), Acked(w)
      PROVE  pel' \in [Groups -> SUBSET (1..Len(stream))]
  BY <1>p DEF Acked, TypeOK
<1>1. ASSUME NEW e \in Events, Enqueue(e) \/ RelayCommit(e) \/ RelayFails(e) PROVE TypeOK'
  <2>1. outbox' \in [Events -> {"none", "ready", "published"}]
    BY <1>1 DEF Enqueue, RelayCommit, RelayFails, TypeOK
  <2>2. relaying' \subseteq Events
    BY <1>1 DEF Enqueue, RelayCommit, RelayFails, TypeOK
  <2>3. {faults, defers, replays}' \subseteq Nat
    BY <1>1 DEF Enqueue, RelayCommit, RelayFails, TypeOK
  <2>4. UNCHANGED <<stream, cursor, pel, lease, attempts, deferred, dead, handled, work>>
    BY <1>1 DEF Enqueue, RelayCommit, RelayFails
  <2> QED
    BY <2>1, <2>2, <2>3, <2>4 DEF TypeOK
<1>2. ASSUME NEW x \in Message, stream' = Append(stream, x),
             UNCHANGED <<cursor, pel, work>>, dead' \subseteq dead
      PROVE  /\ stream' \in Seq(Message)
             /\ cursor' \in [Groups -> 0..Len(stream')]
             /\ pel' \in [Groups -> SUBSET (1..Len(stream'))]
             /\ dead' \subseteq Groups \X (1..Len(stream'))
             /\ work' \in [Workers -> Job]
             /\ \A w \in Workers : work'[w].stage # "idle" => work'[w].msg \in 1..Len(stream')
  <2>1. /\ stream' \in Seq(Message) /\ Len(stream') = Len(stream) + 1
    BY <1>2, Appended
  <2>2. 0..Len(stream) \subseteq 0..Len(stream') /\ 1..Len(stream) \subseteq 1..Len(stream')
    BY <1>n, <2>1
  <2>3. cursor \in [Groups -> 0..Len(stream')]
    BY <2>2 DEF TypeOK
  <2>4. pel \in [Groups -> SUBSET (1..Len(stream'))]
    BY <2>2 DEF TypeOK
  <2>5. dead \subseteq Groups \X (1..Len(stream'))
    BY <2>2 DEF TypeOK
  <2>6. \A w \in Workers : work[w].stage # "idle" => work[w].msg \in 1..Len(stream')
    BY <2>2 DEF TypeOK
  <2> QED
    BY <1>2, <2>1, <2>3, <2>4, <2>5, <2>6 DEF TypeOK
<1>3. ASSUME NEW e \in Events, RelayAdd(e) PROVE TypeOK'
  <2> DEFINE x == [event |-> e, target |-> AnyGroup]
  <2>1. x \in Message
    BY DEF Message
  <2>2. stream' = Append(stream, x) /\ UNCHANGED <<cursor, pel, work, dead>>
    BY <1>3 DEF RelayAdd
  <2> HIDE DEF x
  <2>3. TypeOK!3' /\ TypeOK!4' /\ TypeOK!5' /\ TypeOK!9' /\ TypeOK!11' /\ TypeOK!12'
    BY <1>2, <2>1, <2>2
  <2> QED
    BY <1>3, <2>3 DEF RelayAdd, TypeOK
<1>4. ASSUME NEW d \in dead, RedeliverDeadLetter(d[1], d[2]) PROVE TypeOK'
  <2> DEFINE g == d[1]
             m == d[2]
             x == [event |-> stream[m].event, target |-> g]
  <2>0. g \in Groups /\ m \in 1..Len(stream)
    BY DEF TypeOK
  <2>1. x \in Message
    <3>1. stream[m] \in Message
      BY <2>0 DEF TypeOK
    <3> QED
      BY <2>0, <3>1 DEF Message
  <2>2. stream' = Append(stream, x) /\ UNCHANGED <<cursor, pel, work>> /\ dead' \subseteq dead
    BY <1>4 DEF RedeliverDeadLetter
  <2>4. attempts' \in [Keys -> Nat] /\ deferred' \in [Keys -> BOOLEAN]
    BY <1>4 DEF RedeliverDeadLetter, TypeOK
  <2>5. replays' \in Nat
    BY <1>4 DEF RedeliverDeadLetter, TypeOK
  <2>6. UNCHANGED <<outbox, relaying, lease, handled, faults, defers>>
    BY <1>4 DEF RedeliverDeadLetter
  <2> HIDE DEF x, g, m
  <2>3. TypeOK!3' /\ TypeOK!4' /\ TypeOK!5' /\ TypeOK!9' /\ TypeOK!11' /\ TypeOK!12'
    BY <1>2, <2>1, <2>2
  <2> QED
    BY <2>3, <2>4, <2>5, <2>6 DEF TypeOK
<1>5. ASSUME NEW w \in Workers, ReadNew(w) PROVE TypeOK'
  <2>1. cursor[GroupOf[w]] \in 0..Len(stream) /\ cursor[GroupOf[w]] < Len(stream)
    BY <1>5 DEF ReadNew, TypeOK
  <2>2. cursor[GroupOf[w]] + 1 \in 1..Len(stream)
    BY <1>n, <2>1
  <2>3. TypeOK!11' /\ TypeOK!12'
    BY <1>5, <1>g, <2>2 DEF ReadNew
  <2>4. cursor' \in [Groups -> 0..Len(stream)] /\ pel' \in [Groups -> SUBSET (1..Len(stream))]
    BY <1>5, <1>n, <2>2 DEF ReadNew, TypeOK
  <2> QED
    BY <1>5, <2>3, <2>4 DEF ReadNew, TypeOK
<1>6. ASSUME NEW w \in Workers, NEW m \in pel[GroupOf[w]], AutoClaim(w, m) PROVE TypeOK'
  <2>1. m \in 1..Len(stream)
    BY DEF TypeOK
  <2>2. TypeOK!11' /\ TypeOK!12'
    BY <1>6, <1>g, <2>1 DEF AutoClaim
  <2> QED
    BY <1>6, <2>2 DEF AutoClaim, TypeOK
<1>7. ASSUME NEW w \in Workers, SkipTargeted(w) PROVE TypeOK'
  <2>1. TypeOK!11' /\ TypeOK!12' /\ pel' \in [Groups -> SUBSET (1..Len(stream))]
    BY <1>7, <1>d, <1>p DEF SkipTargeted, Acked, InStage
  <2> QED
    BY <1>7, <2>1 DEF SkipTargeted, TypeOK
<1>8. ASSUME NEW w \in Workers, AcquireDelivery(w) PROVE TypeOK'
  <2>1. ~InStage(w, "idle") /\ UNCHANGED stream /\ "leased" \in Stage
    BY <1>8 DEF AcquireDelivery, InStage, Stage
  <2>2. TypeOK!11' /\ TypeOK!12'
    BY <1>8, <2>1, <1>d, <1>j DEF AcquireDelivery
  <2>3. lease' \in [Keys -> Workers \cup {Free, Orphan}]
    BY <1>8 DEF AcquireDelivery, TypeOK
  <2> QED
    BY <1>8, <2>2, <2>3 DEF AcquireDelivery, TypeOK
<1>9. ASSUME NEW w \in Workers, CheckDeferred(w) PROVE TypeOK'
  <2>1. ~InStage(w, "idle") /\ UNCHANGED stream /\ "running" \in Stage
    BY <1>9 DEF CheckDeferred, InStage, Stage
  <2>2. TypeOK!11' /\ TypeOK!12'
    BY <1>9, <2>1, <1>d, <1>j DEF CheckDeferred
  <2>3. lease' \in [Keys -> Workers \cup {Free, Orphan}]
    BY <1>9, <2>1, <1>r DEF CheckDeferred, TypeOK
  <2> QED
    BY <1>9, <2>2, <2>3 DEF CheckDeferred, TypeOK
<1>10. ASSUME NEW w \in Workers, HandlerSucceeds(w) \/ HandlerFails(w) \/ HandlerDefers(w)
       PROVE  TypeOK'
  <2>1. ~InStage(w, "idle") /\ UNCHANGED stream /\ {"ok", "failed", "deferring"} \subseteq Stage
    BY <1>10 DEF HandlerSucceeds, HandlerFails, HandlerDefers, InStage, Stage
  <2>2. TypeOK!11' /\ TypeOK!12'
    BY <1>10, <2>1, <1>j DEF HandlerSucceeds, HandlerFails, HandlerDefers
  <2>3. Key(w) \in Keys
    BY <2>1, KeyType
  <2> QED
    BY <1>10, <2>2, <2>3 DEF HandlerSucceeds, HandlerFails, HandlerDefers, TypeOK
<1>11. ASSUME NEW w \in Workers, FinishDelivery(w) PROVE TypeOK'
  <2>1. ~InStage(w, "idle") /\ UNCHANGED stream
    BY <1>11 DEF FinishDelivery, InStage
  <2>2. TypeOK!11' /\ TypeOK!12' /\ lease' \in [Keys -> Workers \cup {Free, Orphan}]
    BY <1>11, <2>1, <1>d, <1>r DEF FinishDelivery
  <2>3. pel' \in [Groups -> SUBSET (1..Len(stream))]
    BY <1>11, <2>1, <1>p DEF FinishDelivery, TypeOK
  <2>a. \/ UNCHANGED <<attempts, deferred>>
        \/ /\ attempts' = [attempts EXCEPT ![Key(w)] = 0]
           /\ deferred' = [deferred EXCEPT ![Key(w)] = FALSE]
    BY <1>11 DEF FinishDelivery
  <2>b. attempts' = attempts \/ attempts' = [attempts EXCEPT ![Key(w)] = 0]
    BY <2>a
  <2>c. attempts \in [Keys -> Nat] /\ 0 \in Nat
    BY DEF TypeOK
  <2>4. attempts' \in [Keys -> Nat]
    BY <2>b, <2>c
  <2>5. deferred' \in [Keys -> BOOLEAN]
    BY <2>a DEF TypeOK
  <2> QED
    BY <1>11, <2>2, <2>3, <2>4, <2>5 DEF FinishDelivery, TypeOK
<1>12. ASSUME NEW w \in Workers, IncrDeliveryAttempt(w) PROVE TypeOK'
  <2>1. ~InStage(w, "idle") /\ UNCHANGED stream /\ "exhausted" \in Stage
    BY <1>12 DEF IncrDeliveryAttempt, InStage, Stage
  <2>2. TypeOK!11' /\ TypeOK!12'
    BY <1>12, <2>1, <1>d, <1>j DEF IncrDeliveryAttempt
  <2>3. lease' \in [Keys -> Workers \cup {Free, Orphan}]
    BY <1>12, <2>1, <1>r DEF IncrDeliveryAttempt, TypeOK
  <2>a. Key(w) \in Keys
    BY <2>1, KeyType
  <2>b. attempts[Key(w)] + 1 \in Nat
    BY <2>a DEF TypeOK
  <2>c. attempts' = attempts \/ attempts' = [attempts EXCEPT ![Key(w)] = attempts[Key(w)] + 1]
    BY <1>12 DEF IncrDeliveryAttempt
  <2>4. attempts' \in [Keys -> Nat]
    BY <2>b, <2>c DEF TypeOK
  <2> QED
    BY <1>12, <2>2, <2>3, <2>4 DEF IncrDeliveryAttempt, TypeOK
<1>13. ASSUME NEW w \in Workers, BuryDelivery(w) PROVE TypeOK'
  <2>1. ~InStage(w, "idle") /\ UNCHANGED stream
    BY <1>13 DEF BuryDelivery, InStage
  <2>2. TypeOK!11' /\ TypeOK!12' /\ lease' \in [Keys -> Workers \cup {Free, Orphan}]
    BY <1>13, <2>1, <1>d, <1>r DEF BuryDelivery
  <2>3. pel' \in [Groups -> SUBSET (1..Len(stream))]
    BY <1>13, <2>1, <1>p DEF BuryDelivery, TypeOK
  <2>4. deferred' \in [Keys -> BOOLEAN]
    BY <1>13 DEF BuryDelivery, TypeOK
  <2>5. <<GroupOf[w], Msg(w)>> \in Groups \X (1..Len(stream))
    BY <2>1, KeyType
  <2>6. dead' \subseteq Groups \X (1..Len(stream))
    BY <1>13, <2>5 DEF BuryDelivery, TypeOK
  <2> QED
    BY <1>13, <2>2, <2>3, <2>4, <2>6 DEF BuryDelivery, TypeOK
<1>14. ASSUME NEW w \in Workers, MarkDeferred(w) PROVE TypeOK'
  <2>1. ~InStage(w, "idle") /\ UNCHANGED stream
    BY <1>14 DEF MarkDeferred, InStage
  <2>2. TypeOK!11' /\ TypeOK!12' /\ lease' \in [Keys -> Workers \cup {Free, Orphan}]
    BY <1>14, <2>1, <1>d, <1>r DEF MarkDeferred
  <2>3. deferred' \in [Keys -> BOOLEAN]
    BY <1>14 DEF MarkDeferred, TypeOK
  <2> QED
    BY <1>14, <2>2, <2>3 DEF MarkDeferred, TypeOK
<1>15. ASSUME NEW w \in Workers, Interrupt(w) PROVE TypeOK'
  <2>1. ~InStage(w, "idle") /\ UNCHANGED stream
    BY <1>15 DEF Interrupt
  <2>2. TypeOK!11' /\ TypeOK!12'
    BY <1>15, <2>1, <1>d DEF Interrupt
  <2>3. lease' \in [Keys -> Workers \cup {Free, Orphan}]
    BY <1>15, <2>1, <1>r DEF Interrupt, TypeOK
  <2> QED
    BY <1>15, <2>2, <2>3 DEF Interrupt, TypeOK
<1>16. ASSUME NEW w \in Workers, LeaseLost(w) PROVE TypeOK'
  <2>1. work' \in [Workers -> Job]
    BY <1>16 DEF LeaseLost, TypeOK, Job
  <2>2. \A v \in Workers : work'[v].stage = work[v].stage /\ work'[v].msg = work[v].msg
    BY <1>16 DEF LeaseLost, TypeOK, Job
  <2>3. TypeOK!12'
    BY <1>16, <2>2 DEF LeaseLost, TypeOK
  <2>4. lease' \in [Keys -> Workers \cup {Free, Orphan}]
    BY <1>16 DEF LeaseLost, TypeOK
  <2> QED
    BY <1>16, <2>1, <2>3, <2>4 DEF LeaseLost, TypeOK
<1>17. ASSUME NEW k \in Keys, LeaseExpires(k) \/ DeferralEnds(k) PROVE TypeOK'
  <2>1. \/ UNCHANGED deferred /\ lease' = [lease EXCEPT ![k] = Free]
        \/ UNCHANGED lease /\ deferred' = [deferred EXCEPT ![k] = FALSE]
    BY <1>17 DEF LeaseExpires, DeferralEnds
  <2>2. /\ lease' \in [Keys -> Workers \cup {Free, Orphan}]
        /\ deferred' \in [Keys -> BOOLEAN]
    BY <2>1 DEF TypeOK
  <2>3. UNCHANGED <<outbox, relaying, stream, cursor, pel, attempts, dead, handled, work,
                    faults, defers, replays>>
    BY <1>17 DEF LeaseExpires, DeferralEnds
  <2> QED
    BY <2>2, <2>3 DEF TypeOK
<1>18. CASE UNCHANGED vars
  BY <1>18 DEF vars, TypeOK
<1> QED
  BY <1>1, <1>3, <1>4, <1>5, <1>6, <1>7, <1>8, <1>9, <1>10, <1>11, <1>12, <1>13, <1>14,
     <1>15, <1>16, <1>17, <1>18 DEF Next, Proceed

\* The empty outbox, stream and pending lists are well typed.
LEMMA DeliveryStart == Init => TypeOK
<1> SUFFICES ASSUME Init PROVE TypeOK
  OBVIOUS
<1>1. <<>> \in Seq(Message) /\ Len(<<>>) = 0
  OBVIOUS
<1>2. Idle \in Job /\ Idle.stage = "idle"
  BY DEF Idle, Job, Stage
<1>3. cursor \in [Groups -> 0..0] /\ pel \in [Groups -> SUBSET (1..0)]
  BY DEF Init
<1>4. /\ stream \in Seq(Message) /\ Len(stream) = 0
      /\ work \in [Workers -> Job] /\ \A w \in Workers : work[w].stage = "idle"
  BY <1>1, <1>2 DEF Init
<1>5. attempts \in [Keys -> Nat] /\ deferred \in [Keys -> BOOLEAN]
  BY DEF Init
<1>6. {faults, defers, replays} \subseteq Nat
  BY DEF Init
<1> QED
  BY <1>3, <1>4, <1>5, <1>6 DEF Init, TypeOK

\* The state of the delivery is well typed.
THEOREM DeliveryTyping == Spec => []TypeOK
  BY DeliveryStart, DeliveryType, PTL DEF Spec

-----------------------------------------------------------------------------
\* Consumers that a step leaves alone keep their key.
LEMMA SameKey ==
  ASSUME TypeOK, NEW w \in Workers, ~InStage(w, "idle"), work'[w].msg = work[w].msg,
         \A m \in 1..Len(stream) : stream'[m] = stream[m]
  PROVE  Key(w)' = Key(w)
<1>1. Msg(w) \in 1..Len(stream) /\ Msg(w)' = Msg(w)
  BY KeyType DEF Msg
<1> QED
  BY <1>1 DEF Key

\* Messages are never changed and no handled event is taken back.
LEMMA Monotone ==
  ASSUME TypeOK, [Next]_vars
  PROVE  /\ \A m \in 1..Len(stream) : stream'[m] = stream[m]
         /\ 1..Len(stream) \subseteq 1..Len(stream')
         /\ handled \subseteq handled'
<1> USE DEF relayVars, streamVars, keyVars, budgets
<1>1. \/ UNCHANGED stream
      \/ \E e \in Events : RelayAdd(e)
      \/ \E d \in dead : RedeliverDeadLetter(d[1], d[2])
  BY DEF Next, Proceed, vars, Enqueue, RelayCommit, RelayFails, ReadNew, AutoClaim, SkipTargeted,
         AcquireDelivery, CheckDeferred, HandlerSucceeds, HandlerFails, HandlerDefers,
         FinishDelivery, IncrDeliveryAttempt, BuryDelivery, MarkDeferred, Interrupt, LeaseLost,
         LeaseExpires, DeferralEnds
<1>2. ASSUME NEW e \in Events, RelayAdd(e)
      PROVE  \E x \in Message : stream' = Append(stream, x)
  BY <1>2 DEF RelayAdd, Message
<1>3. ASSUME NEW d \in dead, RedeliverDeadLetter(d[1], d[2])
      PROVE  \E x \in Message : stream' = Append(stream, x)
  <2>1. d[1] \in Groups /\ stream[d[2]] \in Message
    BY DEF TypeOK
  <2>2. [event |-> stream[d[2]].event, target |-> d[1]] \in Message
    BY <2>1 DEF Message
  <2> QED
    BY <1>3, <2>2 DEF RedeliverDeadLetter
<1>4. UNCHANGED stream \/ \E x \in Message : stream' = Append(stream, x)
  BY <1>1, <1>2, <1>3
<1>5. ASSUME NEW x \in Message, stream' = Append(stream, x)
      PROVE  /\ \A m \in 1..Len(stream) : stream'[m] = stream[m]
             /\ 1..Len(stream) \subseteq 1..Len(stream')
  <2>1. /\ Len(stream) \in Nat /\ Len(stream') = Len(stream) + 1
        /\ \A m \in 1..Len(stream) : stream'[m] = stream[m]
    BY <1>5, Appended
  <2> QED
    BY <2>1
<1>6. handled \subseteq handled'
  BY DEF Next, Proceed, vars, Enqueue, RelayAdd, RelayCommit, RelayFails, ReadNew, AutoClaim,
         SkipTargeted, AcquireDelivery, CheckDeferred, HandlerSucceeds, HandlerFails, HandlerDefers,
         FinishDelivery, IncrDeliveryAttempt, BuryDelivery, MarkDeferred, Interrupt, LeaseLost,
         LeaseExpires, DeferralEnds, RedeliverDeadLetter
<1> QED
  BY <1>4, <1>5, <1>6

\* Acknowledgements happen only for handled events, so that OkHandled is kept
\* by every step, which never takes a handled event back.
LEMMA OkStep == TypeOK /\ OkHandled /\ [Next]_vars => OkHandled'
<1> SUFFICES ASSUME TypeOK, OkHandled, [Next]_vars, NEW w \in Workers, InStage(w, "ok")'
             PROVE  (Key(w) \in handled)'
  BY DEF OkHandled
<1> USE DEF relayVars, streamVars, keyVars, budgets
<1>s. (\A m \in 1..Len(stream) : stream'[m] = stream[m]) /\ handled \subseteq handled'
  BY Monotone
<1>h. handled \subseteq handled'
  BY <1>s
<1>1. ASSUME InStage(w, "ok"), work'[w].msg = work[w].msg
      PROVE  (Key(w) \in handled)'
  BY <1>1, <1>s, <1>h, SameKey DEF OkHandled, InStage
<1>i. Idle.stage = "idle"
  BY DEF Idle
<1>2. ASSUME UNCHANGED work PROVE (Key(w) \in handled)'
  BY <1>1, <1>2 DEF InStage
<1>3. ASSUME NEW v \in Workers, Done(v) PROVE (Key(w) \in handled)'
  <2>1. v # w
    BY <1>3, <1>i DEF Done, InStage, TypeOK
  <2> QED
    BY <1>1, <1>3, <2>1 DEF Done, InStage, TypeOK
<1>4. ASSUME NEW v \in Workers, NEW stage, To(v, stage), stage # "ok" PROVE (Key(w) \in handled)'
  <2>1. v # w
    BY <1>4 DEF To, InStage, TypeOK, Job
  <2> QED
    BY <1>1, <1>4, <2>1 DEF To, InStage, TypeOK
<1>5. ASSUME NEW v \in Workers, HandlerSucceeds(v) PROVE (Key(w) \in handled)'
  <2>1. CASE v = w
    <3>1. work'[w].msg = work[w].msg /\ ~InStage(w, "idle")
      BY <1>5, <2>1 DEF HandlerSucceeds, To, InStage, TypeOK, Job
    <3>2. Key(w)' = Key(w)
      BY <1>s, <3>1, SameKey
    <3> QED
      BY <1>5, <2>1, <3>2 DEF HandlerSucceeds
  <2>2. CASE v # w
    BY <1>1, <1>5, <2>2 DEF HandlerSucceeds, To, InStage, TypeOK
  <2> QED
    BY <2>1, <2>2
<1>6. ASSUME NEW v \in Workers, NEW m,
             work' = [work EXCEPT ![v] = [stage |-> "got", msg |-> m, stalled |-> FALSE]]
      PROVE  (Key(w) \in handled)'
  <2>1. v # w
    BY <1>6 DEF InStage, TypeOK
  <2> QED
    BY <1>1, <1>6, <2>1 DEF InStage, TypeOK
<1>7. ASSUME NEW v \in Workers, LeaseLost(v) PROVE (Key(w) \in handled)'
  <2>1. work'[w].stage = work[w].stage /\ work'[w].msg = work[w].msg
    BY <1>7 DEF LeaseLost, TypeOK, Job
  <2> QED
    BY <1>1, <2>1 DEF InStage
<1>8. ASSUME NEW v \in Workers, Proceed(v) \/ Interrupt(v) PROVE (Key(w) \in handled)'
  BY <1>3, <1>4, <1>5, <1>8 DEF Proceed, Interrupt, SkipTargeted, AcquireDelivery, CheckDeferred,
     HandlerFails, HandlerDefers, FinishDelivery, IncrDeliveryAttempt, BuryDelivery, MarkDeferred
<1>9. ASSUME NEW v \in Workers, ReadNew(v) \/ \E m : AutoClaim(v, m) PROVE (Key(w) \in handled)'
  BY <1>6, <1>9 DEF ReadNew, AutoClaim
<1>10. ASSUME \/ \E e \in Events : Enqueue(e) \/ RelayAdd(e) \/ RelayCommit(e) \/ RelayFails(e)
              \/ \E k \in Keys : LeaseExpires(k) \/ DeferralEnds(k)
              \/ \E d \in dead : RedeliverDeadLetter(d[1], d[2])
              \/ UNCHANGED vars
       PROVE  (Key(w) \in handled)'
  BY <1>2, <1>10 DEF Enqueue, RelayAdd, RelayCommit, RelayFails, LeaseExpires, DeferralEnds,
                     RedeliverDeadLetter, vars
<1> QED
  BY <1>7, <1>8, <1>9, <1>10 DEF Next

-----------------------------------------------------------------------------
\* Only the holder of a lease, or time once it is gone, ends the lease.
LEMMA LeaseKept ==
  ASSUME TypeOK, NEW v \in Workers, NEW w \in Workers, v # w, NEW k \in Keys, lease[k] = w,
         \/ Release(v) \/ UNCHANGED lease
         \/ Holds(v) /\ \E x : lease' = [lease EXCEPT ![Key(v)] = x]
         \/ lease[Key(v)] = Free /\ lease' = [lease EXCEPT ![Key(v)] = v]
  PROVE  lease'[k] = w
<1>1. Free # w
  BY DeliveryAssumption
<1> QED
  BY <1>1 DEF Release, Holds, TypeOK

\* A consumer at work holds its lease unless it was slow enough to outlive it.
LEMMA HoldsStep == TypeOK /\ HoldsOrStalled /\ [Next]_vars => HoldsOrStalled'
<1> SUFFICES ASSUME TypeOK, HoldsOrStalled, [Next]_vars, NEW w \in Workers,
                    (work[w].stage \in Working)'
             PROVE  (work[w].stalled \/ Holds(w))'
  BY DEF HoldsOrStalled
<1> USE DEF relayVars, streamVars, keyVars, budgets
<1>s. \A m \in 1..Len(stream) : stream'[m] = stream[m]
  BY Monotone
<1>i. Idle.stage \notin Working /\ "got" \notin Working /\ "idle" \notin Working
  BY DEF Idle, Working
\* Whoever stays at work and keeps the lease is fine.
<1>1. ASSUME work[w].stage \in Working, work'[w].msg = work[w].msg,
             work'[w].stalled = work[w].stalled, Holds(w) => lease'[Key(w)] = w
      PROVE  (work[w].stalled \/ Holds(w))'
  <2>1. Key(w)' = Key(w)
    BY <1>1, <1>s, <1>i, SameKey DEF InStage
  <2> QED
    BY <1>1, <2>1 DEF HoldsOrStalled, Holds
<1>2. ASSUME work'[w] = work[w], Holds(w) /\ Key(w) \in Keys => lease'[Key(w)] = w
      PROVE  (work[w].stalled \/ Holds(w))'
  <2>1. Key(w) \in Keys
    BY <1>2, <1>i, KeyType DEF InStage
  <2> QED
    BY <1>1, <1>2, <2>1
<1>3. ASSUME NEW v \in Workers, v # w, work'[w] = work[w],
             \/ Release(v) \/ UNCHANGED lease
             \/ Holds(v) /\ \E x : lease' = [lease EXCEPT ![Key(v)] = x]
             \/ lease[Key(v)] = Free /\ lease' = [lease EXCEPT ![Key(v)] = v]
      PROVE  (work[w].stalled \/ Holds(w))'
  BY <1>2, <1>3, LeaseKept DEF Holds
<1>4. ASSUME NEW v \in Workers, Done(v), Release(v) \/ UNCHANGED lease
      PROVE  (work[w].stalled \/ Holds(w))'
  <2>1. v # w
    BY <1>4, <1>i DEF Done, TypeOK
  <2>2. work'[w] = work[w]
    BY <1>4, <2>1 DEF Done, TypeOK
  <2> QED
    BY <1>3, <1>4, <2>1, <2>2
<1>5. ASSUME NEW v \in Workers, NEW stage, To(v, stage), UNCHANGED lease, work[v].stage \in Working
      PROVE  (work[w].stalled \/ Holds(w))'
  <2>1. work'[w].msg = work[w].msg /\ work'[w].stalled = work[w].stalled
    BY <1>5 DEF To, TypeOK, Job
  <2>2. v # w => work'[w] = work[w]
    BY <1>5 DEF To, TypeOK
  <2>3. work[w].stage \in Working
    BY <1>5, <2>2
  <2> QED
    BY <1>1, <1>5, <2>1, <2>3 DEF Holds
<1>6. ASSUME NEW v \in Workers, AcquireDelivery(v) PROVE (work[w].stalled \/ Holds(w))'
  <2>1. CASE UNCHANGED lease /\ Done(v)
    BY <1>4, <2>1
  <2>2. CASE lease[Key(v)] = Free /\ lease' = [lease EXCEPT ![Key(v)] = v] /\ To(v, "leased")
    <3>1. CASE v # w
      BY <1>3, <2>2, <3>1 DEF To, TypeOK
    <3>2. CASE v = w
      <4>1. ~InStage(w, "idle") /\ work'[w].msg = work[w].msg
        BY <1>6, <2>2, <3>2 DEF AcquireDelivery, To, InStage, TypeOK, Job
      <4>2. Key(w) \in Keys /\ Key(w)' = Key(w)
        BY <4>1, <1>s, KeyType, SameKey
      <4> QED
        BY <2>2, <3>2, <4>2 DEF Holds, TypeOK
    <3> QED
      BY <3>1, <3>2
  <2> QED
    BY <1>6, <2>1, <2>2 DEF AcquireDelivery
<1>7. ASSUME NEW v \in Workers, LeaseLost(v) PROVE (work[w].stalled \/ Holds(w))'
  <2>1. CASE v = w
    BY <1>7, <2>1 DEF LeaseLost, TypeOK, Job
  <2>2. CASE v # w
    BY <1>3, <1>7, <2>2 DEF LeaseLost, TypeOK
  <2> QED
    BY <2>1, <2>2
<1>8. ASSUME NEW v \in Workers, Interrupt(v) PROVE (work[w].stalled \/ Holds(w))'
  <2>1. v # w
    BY <1>8, <1>i DEF Interrupt, Done, TypeOK
  <2>2. work'[w] = work[w]
    BY <1>8, <2>1 DEF Interrupt, Done, TypeOK
  <2> QED
    BY <1>3, <1>8, <2>1, <2>2 DEF Interrupt
<1>9. ASSUME NEW v \in Workers, NEW m, UNCHANGED lease,
             work' = [work EXCEPT ![v] = [stage |-> "got", msg |-> m, stalled |-> FALSE]]
      PROVE  (work[w].stalled \/ Holds(w))'
  <2>1. v # w
    BY <1>9, <1>i DEF TypeOK
  <2> QED
    BY <1>3, <1>9, <2>1 DEF TypeOK
<1>10. ASSUME NEW v \in Workers, ReadNew(v) \/ \E m : AutoClaim(v, m)
       PROVE  (work[w].stalled \/ Holds(w))'
  BY <1>9, <1>10 DEF ReadNew, AutoClaim
<1>w. {"leased", "running", "ok", "failed", "deferring", "exhausted"} \subseteq Working
  BY DEF Working, Stage
<1>11. ASSUME NEW v \in Workers, Proceed(v) PROVE (work[w].stalled \/ Holds(w))'
  <2>1. CASE SkipTargeted(v)
    BY <1>4, <2>1 DEF SkipTargeted
  <2>2. CASE CheckDeferred(v)
    BY <1>4, <1>5, <1>w, <2>2 DEF CheckDeferred, InStage
  <2>3. CASE HandlerSucceeds(v) \/ HandlerFails(v) \/ HandlerDefers(v)
    BY <1>5, <1>w, <2>3 DEF HandlerSucceeds, HandlerFails, HandlerDefers, InStage
  <2>4. CASE FinishDelivery(v) \/ BuryDelivery(v) \/ MarkDeferred(v)
    BY <1>4, <2>4 DEF FinishDelivery, BuryDelivery, MarkDeferred
  <2>5. CASE IncrDeliveryAttempt(v)
    BY <1>4, <1>5, <1>w, <2>5 DEF IncrDeliveryAttempt, InStage
  <2> QED
    BY <1>6, <1>11, <2>1, <2>2, <2>3, <2>4, <2>5 DEF Proceed
<1>12. ASSUME NEW k \in Keys, LeaseExpires(k) PROVE (work[w].stalled \/ Holds(w))'
  <2>1. Orphan # w
    BY DeliveryAssumption
  <2> QED
    BY <1>2, <1>12, <2>1 DEF LeaseExpires, Holds, TypeOK
<1>13. ASSUME \/ \E e \in Events : Enqueue(e) \/ RelayAdd(e) \/ RelayCommit(e) \/ RelayFails(e)
              \/ \E k \in Keys : DeferralEnds(k)
              \/ \E d \in dead : RedeliverDeadLetter(d[1], d[2])
              \/ UNCHANGED vars
       PROVE  (work[w].stalled \/ Holds(w))'
  <2>1. UNCHANGED <<work, lease>>
    BY <1>13 DEF Enqueue, RelayAdd, RelayCommit, RelayFails, DeferralEnds, RedeliverDeadLetter, vars
  <2> QED
    BY <1>2, <2>1 DEF Holds
<1> QED
  BY <1>7, <1>8, <1>10, <1>11, <1>12, <1>13 DEF Next

-----------------------------------------------------------------------------
\* What a group is owed, it stays owed until it has handled it.
LEMMA OwedKept ==
  ASSUME TypeOK, OkHandled, [Next]_vars, NEW g \in Groups, NEW e \in Events, Owed(g, e)
  PROVE  Owed(g, e)'
<1> USE DeliveryAssumption DEF relayVars, streamVars, keyVars, budgets
<1>s. /\ \A m \in 1..Len(stream) : stream'[m] = stream[m]
      /\ 1..Len(stream) \subseteq 1..Len(stream')
      /\ handled \subseteq handled'
  BY Monotone
<1>h. CASE <<g, e>> \in handled
  BY <1>s, <1>h DEF Owed
<1>k. CASE \E m \in 1..Len(stream) : stream[m].event = e /\ Kept(g, m)
  <2> PICK m \in 1..Len(stream) : stream[m].event = e /\ Kept(g, m)
    BY <1>k
  <2>m. m \in 1..Len(stream') /\ stream'[m] = stream[m]
    BY <1>s
  <2>k. ASSUME Kept(g, m)' PROVE Owed(g, e)'
    BY <2>m, <2>k DEF Owed
  <2>n. Len(stream) \in Nat /\ cursor[g] \in 0..Len(stream)
    BY DEF TypeOK
  <2>1. ASSUME UNCHANGED <<cursor, pel>>, dead \subseteq dead' PROVE Owed(g, e)'
    BY <2>1, <2>k, <2>m DEF Kept, Outstanding
  <2>2. ASSUME NEW v \in Workers, ReadNew(v) PROVE Owed(g, e)'
    <3>1. m > cursor[g] => m > cursor'[g] \/ m \in pel'[g]
      BY <2>2, <2>n DEF ReadNew, TypeOK
    <3>2. m \in pel[g] => m \in pel'[g]
      BY <2>2 DEF ReadNew, TypeOK
    <3> QED
      BY <2>2, <2>k, <2>m, <3>1, <3>2 DEF Kept, Outstanding, ReadNew
  \* An acknowledgement leaves everything but the message acknowledged.
  <2>a. ASSUME NEW v \in Workers, Acked(v), UNCHANGED cursor, dead \subseteq dead',
               g # GroupOf[v] \/ m # Msg(v)
        PROVE  Owed(g, e)'
    <3>1. m \in pel[g] => m \in pel'[g]
      BY <2>a DEF Acked, TypeOK
    <3> QED
      BY <2>a, <2>k, <2>m, <3>1 DEF Kept, Outstanding
  <2>3. ASSUME NEW v \in Workers, SkipTargeted(v) PROVE Owed(g, e)'
    <3>1. CASE g # GroupOf[v] \/ m # Msg(v)
      BY <2>3, <2>a, <3>1 DEF SkipTargeted, Acked
    <3>2. CASE g = GroupOf[v] /\ m = Msg(v)
      <4>1. <<g, m>> \in dead /\ UNCHANGED dead
        BY <2>3, <3>2 DEF SkipTargeted, ForOther, Kept, Outstanding
      <4> QED
        BY <2>k, <4>1 DEF Kept
    <3> QED
      BY <3>1, <3>2
  <2>4. ASSUME NEW v \in Workers, FinishDelivery(v) PROVE Owed(g, e)'
    <3>1. CASE UNCHANGED pel
      BY <2>1, <2>4, <3>1 DEF FinishDelivery
    <3>2. CASE Acked(v) /\ (g # GroupOf[v] \/ m # Msg(v))
      BY <2>4, <2>a, <3>2 DEF FinishDelivery
    <3>3. CASE g = GroupOf[v] /\ m = Msg(v)
      BY <2>4, <3>3, <1>h, <1>s DEF FinishDelivery, OkHandled, Key, Owed
    <3> QED
      BY <2>4, <3>1, <3>2, <3>3 DEF FinishDelivery
  <2>5. ASSUME NEW v \in Workers, BuryDelivery(v) PROVE Owed(g, e)'
    <3>1. CASE UNCHANGED <<pel, dead>>
      BY <2>1, <2>5, <3>1 DEF BuryDelivery
    <3>2. CASE Acked(v) /\ dead' = dead \cup {<<GroupOf[v], Msg(v)>>}
      <4>1. CASE g # GroupOf[v] \/ m # Msg(v)
        BY <2>5, <2>a, <3>2, <4>1 DEF BuryDelivery
      <4>2. CASE g = GroupOf[v] /\ m = Msg(v)
        BY <2>k, <3>2, <4>2 DEF Kept
      <4> QED
        BY <4>1, <4>2
    <3> QED
      BY <2>5, <3>1, <3>2 DEF BuryDelivery
  <2>6. ASSUME NEW d \in dead, RedeliverDeadLetter(d[1], d[2]) PROVE Owed(g, e)'
    <3>1. d = <<d[1], d[2]>> /\ d[1] \in Groups /\ stream[d[2]] \in Message
      BY DEF TypeOK
    <3>2. CASE d # <<g, m>>
      <4>1. UNCHANGED <<cursor, pel>> /\ (<<g, m>> \in dead => <<g, m>> \in dead')
        BY <2>6, <3>1, <3>2 DEF RedeliverDeadLetter
      <4> QED
        BY <2>k, <2>m, <4>1 DEF Kept, Outstanding
    <3>3. CASE d = <<g, m>>
      <4> DEFINE x == [event |-> e, target |-> g]
      <4>1. stream' = Append(stream, x) /\ UNCHANGED cursor
        BY <2>6, <3>3 DEF RedeliverDeadLetter
      <4>2. x \in Message /\ x.event = e /\ x.target = g
        BY DEF Message
      <4> HIDE DEF x
      <4>3. stream'[Len(stream) + 1] = x /\ Len(stream') = Len(stream) + 1
        BY <4>1, <4>2, Appended
      <4>4. Len(stream) + 1 \in 1..Len(stream') /\ Len(stream) + 1 > cursor'[g]
        BY <2>n, <4>1, <4>3
      <4> QED
        BY <4>2, <4>3, <4>4 DEF Owed, Kept, Outstanding
    <3> QED
      BY <3>2, <3>3
  <2>7. ASSUME NEW v \in Workers,
               \/ Interrupt(v) \/ LeaseLost(v) \/ AcquireDelivery(v) \/ CheckDeferred(v)
               \/ HandlerSucceeds(v) \/ HandlerFails(v) \/ HandlerDefers(v)
               \/ IncrDeliveryAttempt(v) \/ MarkDeferred(v) \/ \E n : AutoClaim(v, n)
        PROVE  Owed(g, e)'
    <3>1. UNCHANGED <<cursor, pel, dead>>
      BY <2>7 DEF Interrupt, LeaseLost, AcquireDelivery, CheckDeferred, HandlerSucceeds,
                  HandlerFails, HandlerDefers, IncrDeliveryAttempt, MarkDeferred, AutoClaim
    <3> QED
      BY <2>1, <3>1
  <2>8. ASSUME \/ \E f \in Events : Enqueue(f) \/ RelayAdd(f) \/ RelayCommit(f) \/ RelayFails(f)
               \/ \E k \in Keys : LeaseExpires(k) \/ DeferralEnds(k)
               \/ UNCHANGED vars
        PROVE  Owed(g, e)'
    <3>1. UNCHANGED <<cursor, pel, dead>>
      BY <2>8 DEF Enqueue, RelayAdd, RelayCommit, RelayFails, LeaseExpires, DeferralEnds, vars
    <3> QED
      BY <2>1, <3>1
  <2> QED
    BY <2>2, <2>3, <2>4, <2>5, <2>6, <2>7, <2>8 DEF Next, Proceed
<1> QED
  BY <1>h, <1>k DEF Owed

\* The relay owes every group what it adds, and commits only what it added.
LEMMA OwedStep == TypeOK /\ OkHandled /\ RelayedOwed /\ [Next]_vars => RelayedOwed'
<1> SUFFICES ASSUME TypeOK, OkHandled, RelayedOwed, [Next]_vars PROVE RelayedOwed'
  OBVIOUS
<1> USE DEF relayVars, streamVars, keyVars, budgets
<1>1. \/ UNCHANGED <<outbox, relaying>>
      \/ \E e \in Events : Enqueue(e) \/ RelayAdd(e) \/ RelayCommit(e) \/ RelayFails(e)
  BY DEF Next, Proceed, vars, ReadNew, AutoClaim, SkipTargeted, AcquireDelivery, CheckDeferred,
         HandlerSucceeds, HandlerFails, HandlerDefers, FinishDelivery, IncrDeliveryAttempt,
         BuryDelivery, MarkDeferred, Interrupt, LeaseLost, LeaseExpires, DeferralEnds,
         RedeliverDeadLetter
<1>2. \A e \in relaying' : outbox'[e] = "ready"
  BY <1>1 DEF Enqueue, RelayAdd, RelayCommit, RelayFails, RelayedOwed, TypeOK
<1>3. ASSUME NEW e \in Events, NEW g \in Groups, RelayAdd(e) PROVE Owed(g, e)'
  <2> DEFINE x == [event |-> e, target |-> AnyGroup]
  <2>1. stream' = Append(stream, x) /\ UNCHANGED cursor
    BY <1>3 DEF RelayAdd
  <2>2. x \in Message /\ x.event = e /\ x.target = AnyGroup
    BY DEF Message
  <2> HIDE DEF x
  <2>3. /\ stream'[Len(stream) + 1] = x /\ Len(stream') = Len(stream) + 1
        /\ Len(stream) \in Nat
    BY <2>1, <2>2, Appended
  <2>4. cursor[g] \in 0..Len(stream)
    BY DEF TypeOK
  <2>5. Len(stream) + 1 \in 1..Len(stream') /\ Len(stream) + 1 > cursor'[g]
    BY <2>1, <2>3, <2>4
  <2> QED
    BY <2>2, <2>3, <2>5 DEF Owed, Kept, Outstanding
<1>4. ASSUME NEW e \in Events, NEW g \in Groups, e \in relaying' \/ outbox'[e] = "published"
      PROVE  Owed(g, e)'
  <2>1. RelayAdd(e) \/ e \in relaying \/ outbox[e] = "published"
    BY <1>1, <1>4 DEF Enqueue, RelayAdd, RelayCommit, RelayFails, TypeOK
  <2> QED
    BY <1>3, <2>1, OwedKept DEF RelayedOwed
<1> QED
  BY <1>2, <1>4 DEF RelayedOwed

-----------------------------------------------------------------------------
\* The inductive invariant of the relay and the consumers.
LEMMA DeliveryInvariant == Spec => []DeliveryInv
<1>1. Init => DeliveryInv
  <2> SUFFICES ASSUME Init PROVE RelayedOwed /\ OkHandled /\ HoldsOrStalled
    BY DeliveryStart DEF DeliveryInv
  <2>1. \A w \in Workers : work[w].stage = "idle"
    BY DEF Init, Idle
  <2>2. OkHandled /\ HoldsOrStalled
    BY <2>1 DEF OkHandled, HoldsOrStalled, InStage, Working
  <2>3. RelayedOwed
    BY DEF Init, RelayedOwed
  <2> QED
    BY <2>2, <2>3
<1>2. DeliveryInv /\ [Next]_vars => DeliveryInv'
  BY DeliveryType, OkStep, HoldsStep, OwedStep DEF DeliveryInv
<1> QED
  BY <1>1, <1>2, PTL DEF Spec

\* No event is lost between the outbox and the groups: whatever fails, it is
\* in the outbox, in the stream, being delivered, dead-lettered or handled.
THEOREM EventsAreNotLost == Spec => []NothingLost
<1>1. DeliveryInv => NothingLost
  <2> SUFFICES ASSUME DeliveryInv, NEW g \in Groups, NEW e \in Events,
                      outbox[e] # "none", outbox[e] # "ready"
               PROVE  Owed(g, e)
    BY DEF NothingLost, Owed, Kept
  <2>1. outbox[e] = "published"
    BY DEF DeliveryInv, TypeOK
  <2> QED
    BY <2>1 DEF DeliveryInv, RelayedOwed
<1> QED
  BY <1>1, DeliveryInvariant, PTL

\* Two consumers run the same event of a group only if one outlived its lease.
THEOREM OneRunnerPerLease == Spec => []SingleRunner
<1>1. DeliveryInv => SingleRunner
  <2> SUFFICES ASSUME DeliveryInv, NEW v \in Workers, NEW w \in Workers, v # w,
                      InStage(v, "running"), InStage(w, "running"), Key(v) = Key(w),
                      ~work[v].stalled, ~work[w].stalled
               PROVE  FALSE
    BY DEF SingleRunner
  <2>1. work[v].stage \in Working /\ work[w].stage \in Working
    BY DEF InStage, Working, Stage
  <2>2. Holds(v) /\ Holds(w)
    BY <2>1 DEF DeliveryInv, HoldsOrStalled
  <2> QED
    BY <2>2 DEF Holds
<1> QED
  BY <1>1, DeliveryInvariant, PTL

\* A step changes the retry counter of a leased delivery only if it is the holder's.
LEMMA CounterStep == TypeOK /\ [Next]_vars => [\A k \in Keys : HolderStep(k)]_vars
<1> SUFFICES ASSUME TypeOK, Next, NEW k \in Keys, lease[k] \in Workers, attempts'[k] # attempts[k]
             PROVE  work'[lease[k]] # work[lease[k]]
  BY DEF HolderStep
<1> USE DeliveryAssumption DEF relayVars, streamVars, keyVars, budgets
<1>1. \/ \E v \in Workers : FinishDelivery(v) \/ IncrDeliveryAttempt(v)
      \/ \E d \in dead : RedeliverDeadLetter(d[1], d[2])
  BY DEF Next, Proceed, Enqueue, RelayAdd, RelayCommit, RelayFails, ReadNew, AutoClaim,
         SkipTargeted, AcquireDelivery, CheckDeferred, HandlerSucceeds, HandlerFails,
         HandlerDefers, BuryDelivery, MarkDeferred, Interrupt, LeaseLost, LeaseExpires,
         DeferralEnds
<1>2. ASSUME NEW v \in Workers, FinishDelivery(v) \/ IncrDeliveryAttempt(v)
      PROVE  work'[lease[k]] # work[lease[k]]
  <2>1. Holds(v) /\ \E x : attempts' = [attempts EXCEPT ![Key(v)] = x]
    BY <1>2 DEF FinishDelivery, IncrDeliveryAttempt
  <2>2. lease[k] = v
    BY <2>1 DEF Holds, TypeOK
  <2>3. work[v].stage \in {"ok", "failed"} /\ (Done(v) \/ To(v, "exhausted"))
    BY <1>2 DEF FinishDelivery, IncrDeliveryAttempt, InStage
  <2>4. work'[v].stage \in {"idle", "exhausted"}
    BY <2>3 DEF Done, To, Idle, TypeOK, Job
  <2> QED
    BY <2>2, <2>3, <2>4
<1>3. ASSUME NEW d \in dead, RedeliverDeadLetter(d[1], d[2]) PROVE FALSE
  <2>1. lease[<<d[1], stream[d[2]].event>>] = Free
    BY <1>3 DEF RedeliverDeadLetter
  <2>2. k = <<d[1], stream[d[2]].event>>
    BY <1>3 DEF RedeliverDeadLetter, TypeOK
  <2> QED
    BY <2>1, <2>2
<1> QED
  BY <1>1, <1>2, <1>3

\* The retry counter of a leased delivery moves only in a step of its holder.
THEOREM AttemptsAreTheHolders == Spec => LeaseGuardsAttempts
BY CounterStep, DeliveryTyping, PTL DEF Spec, LeaseGuardsAttempts

-----------------------------------------------------------------------------
(* Event delivery implements what Delivery promises. *)

\* Only events whose business write has committed get into the stream or to a handler.
Committed ==
  /\ \A m \in 1..Len(stream) : outbox[stream[m].event] # "none"
  /\ \A k \in handled : outbox[k[2]] # "none"

\* A consumer that is about to bury its message, and may, has counted all its failures.
AllCounted ==
  \A w \in Workers : InStage(w, "exhausted") /\ Holds(w) => attempts[Key(w)] >= MaxDeliveries

RefinementInv == DeliveryInv /\ Committed /\ AllCounted

-----------------------------------------------------------------------------
\* A committed write stays one, and only Enqueue makes one.
LEMMA OutboxStep ==
  ASSUME DeliveryInv, [Next]_vars, NEW e \in Events
  PROVE  \/ (outbox'[e] = "none") <=> (outbox[e] = "none")
         \/ Enqueue(e) /\ outbox'[e] # "none"
<1> USE DEF relayVars, streamVars, keyVars, budgets
<1>1. ASSUME NEW f \in Events, Enqueue(f)
      PROVE  (f = e /\ outbox'[e] # "none") \/ outbox'[e] = outbox[e]
  BY <1>1 DEF Enqueue, DeliveryInv, TypeOK
<1>2. ASSUME NEW f \in Events, RelayCommit(f) PROVE (outbox'[e] = "none") <=> (outbox[e] = "none")
  <2>1. outbox[f] = "ready"
    BY <1>2 DEF RelayCommit, DeliveryInv, RelayedOwed
  <2> QED
    BY <1>2, <2>1 DEF RelayCommit, DeliveryInv, TypeOK
<1> QED
  BY <1>1, <1>2 DEF Next, Proceed, vars, RelayAdd, RelayFails, ReadNew, AutoClaim,
     SkipTargeted, AcquireDelivery, CheckDeferred, HandlerSucceeds, HandlerFails, HandlerDefers,
     FinishDelivery, IncrDeliveryAttempt, BuryDelivery, MarkDeferred, Interrupt, LeaseLost,
     LeaseExpires, DeferralEnds, RedeliverDeadLetter

\* A step that adds to the stream adds an event that has committed.
LEMMA CommittedStep == DeliveryInv /\ Committed /\ [Next]_vars => Committed'
<1> SUFFICES ASSUME DeliveryInv, Committed, [Next]_vars PROVE Committed'
  OBVIOUS
<1> USE DEF relayVars, streamVars, keyVars, budgets
<1>t. TypeOK /\ TypeOK'
  BY DeliveryType DEF DeliveryInv
<1>o. \A e \in Events : outbox[e] # "none" => outbox'[e] # "none"
  BY OutboxStep
<1>s. \/ UNCHANGED stream
      \/ \E e \in Events : RelayAdd(e)
      \/ \E d \in dead : RedeliverDeadLetter(d[1], d[2])
  BY DEF Next, Proceed, vars, Enqueue, RelayCommit, RelayFails, ReadNew, AutoClaim,
     SkipTargeted, AcquireDelivery, CheckDeferred, HandlerSucceeds, HandlerFails, HandlerDefers,
     FinishDelivery, IncrDeliveryAttempt, BuryDelivery, MarkDeferred, Interrupt, LeaseLost,
     LeaseExpires, DeferralEnds
<1>h. \/ UNCHANGED handled
      \/ \E w \in Workers : HandlerSucceeds(w)
  BY DEF Next, Proceed, vars, Enqueue, RelayAdd, RelayCommit, RelayFails, ReadNew, AutoClaim,
     SkipTargeted, AcquireDelivery, CheckDeferred, HandlerFails, HandlerDefers,
     FinishDelivery, IncrDeliveryAttempt, BuryDelivery, MarkDeferred, Interrupt, LeaseLost,
     LeaseExpires, DeferralEnds, RedeliverDeadLetter
<1>1. \A m \in 1..Len(stream') : outbox'[stream'[m].event] # "none"
  <2>1. CASE UNCHANGED stream
    <3>0. \A m \in 1..Len(stream) : stream[m] \in Message
      BY <1>t DEF TypeOK
    <3>1. \A m \in 1..Len(stream) : stream[m].event \in Events
      BY <3>0 DEF Message
    <3>2. SUFFICES ASSUME NEW m \in 1..Len(stream) PROVE outbox'[stream[m].event] # "none"
      BY <2>1
    <3>3. outbox[stream[m].event] # "none"
      BY DEF Committed
    <3> QED
      BY <3>1, <3>3, <1>o
  <2>2. ASSUME NEW x \in Message, stream' = Append(stream, x), outbox[x.event] # "none"
        PROVE  \A m \in 1..Len(stream') : outbox'[stream'[m].event] # "none"
    <3>1. \A m \in 1..Len(stream) : stream'[m] = stream[m] /\ stream[m] \in Message
      BY <2>2, <1>t, Appended DEF TypeOK
    <3>2. stream'[Len(stream) + 1] = x /\ Len(stream') = Len(stream) + 1 /\ Len(stream) \in Nat
      BY <2>2, <1>t, Appended
    <3>3. x.event \in Events /\ \A m \in 1..Len(stream) : stream[m].event \in Events
      BY <2>2, <3>1 DEF Message
    <3>4. ASSUME NEW m \in 1..Len(stream') PROVE m \in 1..Len(stream) \/ m = Len(stream) + 1
      BY <3>2
    <3> QED
      BY <3>1, <3>2, <3>3, <3>4, <2>2, <1>o DEF Committed
  <2>3. ASSUME NEW e \in Events, RelayAdd(e)
        PROVE  \A m \in 1..Len(stream') : outbox'[stream'[m].event] # "none"
    <3>1. [event |-> e, target |-> AnyGroup] \in Message
      BY DEF Message
    <3> QED
      BY <2>2, <2>3, <3>1 DEF RelayAdd
  <2>4. ASSUME NEW d \in dead, RedeliverDeadLetter(d[1], d[2])
        PROVE  \A m \in 1..Len(stream') : outbox'[stream'[m].event] # "none"
    <3>1. d[1] \in Groups /\ d[2] \in 1..Len(stream) /\ stream[d[2]] \in Message
      BY <1>t DEF TypeOK
    <3>2. [event |-> stream[d[2]].event, target |-> d[1]] \in Message
      BY <3>1 DEF Message
    <3> QED
      BY <2>2, <2>4, <3>1, <3>2 DEF RedeliverDeadLetter, Committed
  <2> QED
    BY <1>s, <2>1, <2>3, <2>4
<1>2. \A k \in handled' : outbox'[k[2]] # "none"
  <2>1. \A k \in handled : k[2] \in Events
    BY <1>t DEF TypeOK, Keys
  <2>2. ASSUME NEW w \in Workers, HandlerSucceeds(w)
        PROVE  Key(w)[2] \in Events /\ outbox[Key(w)[2]] # "none" /\ handled' = handled \cup {Key(w)}
    <3>1. ~InStage(w, "idle")
      BY <2>2 DEF HandlerSucceeds, InStage
    <3> QED
      BY <2>2, <3>1, <1>t, KeyType DEF HandlerSucceeds, Key, Committed, Message
  <2> QED
    BY <1>h, <1>o, <2>1, <2>2 DEF Committed
<1> QED
  BY <1>1, <1>2 DEF Committed

\* Nobody but its holder counts for a leased message, and the lease is taken before the
\* first of the failures is counted.
LEMMA CountedStep == DeliveryInv /\ AllCounted /\ [Next]_vars => AllCounted'
<1> SUFFICES ASSUME DeliveryInv, AllCounted, [Next]_vars, NEW w \in Workers,
                    InStage(w, "exhausted")', Holds(w)'
             PROVE  attempts'[Key(w)'] >= MaxDeliveries
  BY DEF AllCounted
<1> USE DeliveryAssumption DEF relayVars, streamVars, keyVars, budgets
<1>t. TypeOK /\ TypeOK'
  BY DeliveryType DEF DeliveryInv
<1>1. CASE \E v \in Workers : IncrDeliveryAttempt(v) /\ v = w
  <2>1. IncrDeliveryAttempt(w) /\ InStage(w, "failed")
    BY <1>1 DEF IncrDeliveryAttempt
  <2>2. ~InStage(w, "idle") /\ Key(w) \in Keys
    BY <2>1, <1>t, KeyType DEF InStage
  <2>3. Holds(w) /\ attempts[Key(w)] + 1 >= MaxDeliveries /\ To(w, "exhausted")
    BY <2>1, <1>t DEF IncrDeliveryAttempt, InStage, Done, Idle, TypeOK
  <2>4. Key(w)' = Key(w)
    BY <2>1, <2>3, <1>t DEF IncrDeliveryAttempt, Key, Msg, To, TypeOK, Job
  <2>5. attempts'[Key(w)] = attempts[Key(w)] + 1
    BY <2>1, <2>2, <2>3, <1>t DEF IncrDeliveryAttempt, TypeOK
  <2> QED
    BY <2>3, <2>4, <2>5
<1>2. CASE ~\E v \in Workers : IncrDeliveryAttempt(v) /\ v = w
  <2>s. \A m \in 1..Len(stream) : stream'[m] = stream[m]
    BY <1>t, Monotone
  \* A step of w that does not count ends elsewhere or without the lease.
  <2>1. ASSUME NEW v \in Workers, LeaseLost(v) PROVE v # w
    <3>1. SUFFICES ASSUME v = w PROVE FALSE
      OBVIOUS
    <3>2. ~InStage(w, "idle") /\ work'[w].msg = work[w].msg
      BY <2>1, <3>1, <1>t DEF LeaseLost, TypeOK, Job
    <3>3. Key(w)' = Key(w) /\ Key(w) \in Keys
      BY <3>2, <2>s, <1>t, SameKey, KeyType
    <3>4. lease'[Key(w)] = Free
      BY <2>1, <3>1, <3>3, <1>t DEF LeaseLost, TypeOK
    <3> QED
      BY <3>3, <3>4 DEF Holds
  <2>2. ASSUME NEW v \in Workers,
               \/ Done(v)
               \/ \E stage \in Stage \ {"exhausted"} : To(v, stage)
               \/ \E m : work' = [work EXCEPT ![v] = [stage |-> "got", msg |-> m, stalled |-> FALSE]]
        PROVE  work'[w] = work[w]
    <3>1. v # w
      BY <2>2, <1>t DEF Done, To, Idle, InStage, TypeOK, Job
    <3> QED
      BY <2>2, <3>1, <1>t DEF Done, To, TypeOK
  <2>3. ASSUME NEW v \in Workers, Proceed(v) PROVE work'[w] = work[w]
    <3>1. CASE IncrDeliveryAttempt(v)
      <4>1. v # w
        BY <1>2, <3>1
      <4> QED
        BY <3>1, <4>1, <1>t DEF IncrDeliveryAttempt, Done, To, TypeOK
    <3>2. CASE ~IncrDeliveryAttempt(v)
      <4>1. Done(v) \/ \E stage \in {"leased", "running", "ok", "failed", "deferring"} : To(v, stage)
        BY <2>3, <3>2 DEF Proceed, SkipTargeted, AcquireDelivery, CheckDeferred, HandlerSucceeds,
           HandlerFails, HandlerDefers, FinishDelivery, BuryDelivery, MarkDeferred
      <4> QED
        BY <4>1, <2>2 DEF Stage
    <3> QED
      BY <3>1, <3>2
  <2>4. work'[w] = work[w]
    <3>1. ASSUME NEW v \in Workers, LeaseLost(v) PROVE work'[w] = work[w]
      BY <3>1, <2>1, <1>t DEF LeaseLost, TypeOK
    <3>2. ASSUME NEW v \in Workers, Interrupt(v) \/ ReadNew(v) \/ \E m \in pel[GroupOf[v]] : AutoClaim(v, m)
          PROVE  work'[w] = work[w]
      BY <3>2, <2>2 DEF Interrupt, ReadNew, AutoClaim
    <3> QED
      BY <2>3, <3>1, <3>2 DEF Next, vars, Enqueue, RelayAdd, RelayCommit, RelayFails, LeaseExpires,
         DeferralEnds, RedeliverDeadLetter
  <2>5. InStage(w, "exhausted") /\ ~InStage(w, "idle")
    BY <2>4 DEF InStage
  <2>6. Key(w)' = Key(w) /\ Key(w) \in Keys
    BY <2>4, <2>5, <2>s, <1>t, SameKey, KeyType
  \* The lease that w holds now it had before, as it takes one only on the way to "leased".
  <2>7. Holds(w)
    <3>1. lease'[Key(w)] = w /\ w # Free /\ w # Orphan
      BY <2>6 DEF Holds
    <3>2. ASSUME NEW v \in Workers, AcquireDelivery(v) PROVE lease[Key(w)] = w
      <4>1. v # w \/ UNCHANGED lease
        BY <3>2, <2>4, <2>5, <1>t DEF AcquireDelivery, To, InStage, TypeOK, Job
      <4> QED
        BY <3>1, <3>2, <4>1, <2>6, <1>t DEF AcquireDelivery, TypeOK
    <3>3. ASSUME NEW v \in Workers, Release(v) \/ UNCHANGED lease PROVE lease[Key(w)] = w
      BY <3>1, <3>3, <2>6, <1>t DEF Release, TypeOK
    <3>4. ASSUME NEW v \in Workers, Interrupt(v) \/ LeaseLost(v) PROVE lease[Key(w)] = w
      BY <3>1, <3>3, <3>4, <2>6, <1>t DEF Interrupt, LeaseLost, TypeOK
    <3>5. ASSUME NEW v \in Workers, Proceed(v) PROVE lease[Key(w)] = w
      BY <3>2, <3>3, <3>5 DEF Proceed, SkipTargeted, CheckDeferred, HandlerSucceeds, HandlerFails,
         HandlerDefers, FinishDelivery, IncrDeliveryAttempt, BuryDelivery, MarkDeferred
    <3>6. ASSUME NEW k \in Keys, LeaseExpires(k) PROVE lease[Key(w)] = w
      BY <3>1, <3>6, <2>6, <1>t DEF LeaseExpires, TypeOK
    <3> QED
      BY <3>1, <3>4, <3>5, <3>6 DEF Holds, Next, vars, Enqueue, RelayAdd, RelayCommit, RelayFails,
         ReadNew, AutoClaim, DeferralEnds, RedeliverDeadLetter
  <2>8. attempts'[Key(w)] = attempts[Key(w)]
    <3>1. UNCHANGED vars \/ HolderStep(Key(w))
      BY <1>t, <2>6, CounterStep
    <3> QED
      BY <3>1, <2>4, <2>7 DEF HolderStep, Holds, vars
  <2> QED
    BY <2>5, <2>6, <2>7, <2>8 DEF AllCounted
<1> QED
  BY <1>1, <1>2

LEMMA RefinementInvariant == Spec => []RefinementInv
<1>1. Init => Committed /\ AllCounted
  BY DEF Init, Committed, AllCounted, InStage, Idle
<1>2. DeliveryInv /\ Committed /\ AllCounted /\ [Next]_vars => (Committed /\ AllCounted)'
  BY CommittedStep, CountedStep
<1> QED
  BY <1>1, <1>2, DeliveryInvariant, PTL DEF Spec, RefinementInv

-----------------------------------------------------------------------------
(* Each step is one of Delivery or changes nothing of what it speaks of.   *)

Standings == [k \in Keys |-> Standing(k)]

\* What decides how an event stands.
LEMMA StandingKept ==
  ASSUME NEW k \in Keys,
         (outbox'[k[2]] = "none") <=> (outbox[k[2]] = "none"),
         k \in handled' <=> k \in handled,
         Buried(k[1], k[2])' <=> Buried(k[1], k[2])
  PROVE  Standing(k)' = Standing(k)
BY DEF Standing

\* Letters of messages there were stay letters of the same events.
LEMMA BuriedKept ==
  ASSUME TypeOK, [Next]_vars, UNCHANGED dead, NEW g \in Groups, NEW e \in Events
  PROVE  Buried(g, e)' <=> Buried(g, e)
<1>1. /\ \A m \in 1..Len(stream) : stream'[m] = stream[m]
      /\ 1..Len(stream) \subseteq 1..Len(stream')
  BY Monotone
<1>2. \A d \in dead : d[2] \in 1..Len(stream)
  BY DEF TypeOK
<1>3. \A m : <<g, m>> \in dead => m \in 1..Len(stream)
  BY <1>2
<1> QED
  BY <1>1, <1>3 DEF Buried

\* An event that no step of Enqueue makes, no handler serves and no letter concerns.
LEMMA StandingsKept ==
  ASSUME RefinementInv, [Next]_vars, UNCHANGED <<dead, handled>>, ~\E e \in Events : Enqueue(e)
  PROVE  UNCHANGED Standings
<1> SUFFICES ASSUME NEW k \in Keys PROVE Standing(k)' = Standing(k)
  BY DEF Standings
<1>1. k[1] \in Groups /\ k[2] \in Events
  BY DEF Keys
<1>2. DeliveryInv /\ TypeOK
  BY DEF RefinementInv, DeliveryInv
<1>3. (outbox'[k[2]] = "none") <=> (outbox[k[2]] = "none")
  BY <1>1, <1>2, OutboxStep
<1>4. Buried(k[1], k[2])' <=> Buried(k[1], k[2])
  BY <1>1, <1>2, BuriedKept
<1> QED
  BY <1>3, <1>4, StandingKept

\* The consumer's event has been written, so that it stands somewhere.
LEMMA KeyStands ==
  ASSUME RefinementInv, NEW w \in Workers, ~InStage(w, "idle")
  PROVE  Key(w) \in Keys /\ Standings[Key(w)] = Standing(Key(w)) /\ Standing(Key(w)) # "unsent"
<1>1. Key(w) \in Keys /\ Msg(w) \in 1..Len(stream)
  BY KeyType DEF RefinementInv, DeliveryInv
<1>2. outbox[Key(w)[2]] # "none"
  BY <1>1 DEF RefinementInv, Committed, Key
<1> QED
  BY <1>1, <1>2 DEF Standing, Standings

\* Event delivery implements Delivery, whatever the constants are.
THEOREM DeliveryRefines == Spec => DeliveryPromise
<1> USE DEF Promised!Keys, Promised!promise
<1>1. Init => Promised!Init
  BY DEF Init, Promised!Init, Standing, Keys
<1>2. RefinementInv /\ [Next]_vars => [Promised!Next]_(Promised!promise)
  <2> SUFFICES ASSUME RefinementInv, [Next]_vars
               PROVE  Promised!Next \/ UNCHANGED <<Standings, attempts>>
    BY DEF Standings
  <2> USE DEF relayVars, streamVars, keyVars, budgets
  <2>t. TypeOK /\ DeliveryInv /\ TypeOK'
    BY DeliveryType DEF RefinementInv, DeliveryInv
  <2>k. ASSUME UNCHANGED <<outbox, stream, handled, dead>> PROVE UNCHANGED Standings
    BY <2>k DEF Standings, Standing, Buried
  <2>m. \A k \in Keys : Standings[k] = Standing(k)
    BY DEF Standings
  <2>1. ASSUME NEW e \in Events, Enqueue(e) PROVE Promised!Next
    <3>1. \A g \in Groups : Standing(<<g, e>>) = "unsent"
      BY <2>1 DEF Enqueue, Standing
    <3>2. UNCHANGED <<handled, dead, stream, attempts>>
      BY <2>1 DEF Enqueue
    <3>3. \A k \in Keys : Standing(k)' = IF k[2] = e THEN "owed" ELSE Standing(k)
      <4> SUFFICES ASSUME NEW k \in Keys
                   PROVE  Standing(k)' = IF k[2] = e THEN "owed" ELSE Standing(k)
        OBVIOUS
      <4>1. CASE k[2] # e
        BY <2>1, <2>t, <3>2, <4>1 DEF Enqueue, Standing, Buried, TypeOK, Keys
      <4>2. CASE k[2] = e
        <5>1. outbox[e] = "none" /\ outbox'[e] = "ready"
          BY <2>1, <2>t DEF Enqueue, TypeOK
        <5>2. k \notin handled /\ ~Buried(k[1], e)
          BY <4>2, <5>1 DEF RefinementInv, Committed, Buried
        <5> QED
          BY <3>2, <4>2, <5>1, <5>2 DEF Standing, Buried
      <4> QED
        BY <4>1, <4>2
    <3>4. Promised!Write(e)
      BY <3>1, <3>2, <3>3 DEF Promised!Write, Keys
    <3> QED
      BY <3>4 DEF Promised!Next
  <2>2. ASSUME NEW w \in Workers, HandlerSucceeds(w)
        PROVE  Promised!Next \/ UNCHANGED <<Standings, attempts>>
    <3> DEFINE k == Key(w)
    <3>1. k \in Keys /\ Standing(k) # "unsent"
      BY <2>2, KeyStands DEF HandlerSucceeds, InStage
    <3>2. UNCHANGED <<outbox, stream, dead, attempts>> /\ handled' = handled \cup {k}
      BY <2>2 DEF HandlerSucceeds
    <3> HIDE DEF k
    <3>3. CASE k \in handled
      BY <2>k, <3>2, <3>3
    <3>4. CASE k \notin handled
      <4>1. Standing(k) \in {"owed", "buried"}
        BY <3>1, <3>4 DEF Standing
      <4>2. Standings' = [Standings EXCEPT ![k] = "served"]
        BY <3>1, <3>2 DEF Standings, Standing, Buried
      <4>3. Promised!Serve(k)
        BY <3>1, <3>2, <4>1, <4>2, <2>m DEF Promised!Serve, Standings
      <4> QED
        BY <3>1, <4>3 DEF Promised!Next, Keys
    <3> QED
      BY <3>3, <3>4
  <2>3. ASSUME NEW w \in Workers, FinishDelivery(w)
        PROVE  Promised!Next \/ UNCHANGED <<Standings, attempts>>
    <3> DEFINE k == Key(w)
    <3>1. k \in Keys /\ Standing(k) # "unsent" /\ k \in handled
      BY <2>3, <2>t, KeyStands DEF FinishDelivery, InStage, DeliveryInv, OkHandled
    <3>2. /\ UNCHANGED <<outbox, stream, dead, handled>>
          /\ UNCHANGED attempts \/ attempts' = [attempts EXCEPT ![k] = 0]
      BY <2>3 DEF FinishDelivery
    <3> HIDE DEF k
    <3>3. Standing(k) = "served"
      BY <3>1 DEF Standing
    <3>4. UNCHANGED Standings
      BY <2>k, <3>2
    <3>5. ASSUME attempts' = [attempts EXCEPT ![k] = 0] PROVE Promised!Forget(k)
      BY <3>1, <3>3, <3>4, <3>5, <2>m DEF Promised!Forget, Standings
    <3> QED
      BY <3>1, <3>2, <3>4, <3>5 DEF Promised!Next, Keys
  <2>4. ASSUME NEW w \in Workers, IncrDeliveryAttempt(w)
        PROVE  Promised!Next \/ UNCHANGED <<Standings, attempts>>
    <3> DEFINE k == Key(w)
    <3>1. k \in Keys /\ Standing(k) # "unsent"
      BY <2>4, KeyStands DEF IncrDeliveryAttempt, InStage
    <3>2. /\ UNCHANGED <<outbox, stream, dead, handled>>
          /\ UNCHANGED attempts \/ attempts' = [attempts EXCEPT ![k] = @ + 1]
      BY <2>4 DEF IncrDeliveryAttempt
    <3> HIDE DEF k
    <3>3. UNCHANGED Standings
      BY <2>k, <3>2
    <3>4. ASSUME attempts' = [attempts EXCEPT ![k] = @ + 1] PROVE Promised!Fail(k)
      BY <3>1, <3>3, <3>4, <2>m DEF Promised!Fail, Standings
    <3> QED
      BY <3>1, <3>2, <3>3, <3>4 DEF Promised!Next, Keys
  <2>5. ASSUME NEW w \in Workers, BuryDelivery(w)
        PROVE  Promised!Next \/ UNCHANGED <<Standings, attempts>>
    <3> DEFINE k == Key(w)
    <3>1. k \in Keys /\ Standing(k) # "unsent" /\ Msg(w) \in 1..Len(stream)
      BY <2>5, <2>t, KeyStands, KeyType DEF BuryDelivery, InStage
    <3>2. UNCHANGED <<outbox, stream, handled, attempts>>
      BY <2>5 DEF BuryDelivery
    <3>3. k = <<GroupOf[w], stream[Msg(w)].event>>
      BY DEF Key
    <3>4. \/ UNCHANGED dead
          \/ dead' = dead \cup {<<GroupOf[w], Msg(w)>>} /\ attempts[k] >= MaxDeliveries
      BY <2>5 DEF BuryDelivery, RefinementInv, AllCounted
    <3> HIDE DEF k
    <3>5. CASE UNCHANGED dead
      BY <2>k, <3>2, <3>5
    <3>6. CASE dead' = dead \cup {<<GroupOf[w], Msg(w)>>} /\ attempts[k] >= MaxDeliveries
      <4>1. \A j \in Keys : Buried(j[1], j[2])' <=> (j = k \/ Buried(j[1], j[2]))
        <5> SUFFICES ASSUME NEW j \in Keys
                     PROVE  Buried(j[1], j[2])' <=> (j = k \/ Buried(j[1], j[2]))
          OBVIOUS
        <5>1. CASE j = k
          <6>1. <<j[1], Msg(w)>> \in dead' /\ stream[Msg(w)].event = j[2]
            BY <3>3, <3>6, <5>1
          <6>2. Msg(w) \in 1..Len(stream') /\ stream'[Msg(w)] = stream[Msg(w)]
            BY <3>1, <3>2
          <6> QED
            BY <5>1, <6>1, <6>2 DEF Buried
        <5>2. CASE j # k
          <6>1. j = <<j[1], j[2]>>
            BY DEF Keys
          <6>2. \A m : stream[m].event = j[2] => (<<j[1], m>> \in dead' <=> <<j[1], m>> \in dead)
            BY <3>3, <3>6, <5>2, <6>1
          <6> QED
            BY <3>2, <5>2, <6>2 DEF Buried
        <5> QED
          BY <5>1, <5>2
      <4>2. \A j \in Keys : Standing(j)' = IF j = k /\ Standing(k) = "owed" THEN "buried" ELSE Standing(j)
        BY <3>1, <3>2, <4>1 DEF Standing
      <4>3. CASE Standing(k) # "owed"
        BY <3>2, <4>2, <4>3 DEF Standings
      <4>4. CASE Standing(k) = "owed"
        <5>1. Standings' = [Standings EXCEPT ![k] = "buried"]
          BY <4>2, <4>4 DEF Standings
        <5>2. Promised!GiveUp(k)
          BY <3>1, <3>2, <3>6, <4>4, <5>1, <2>m DEF Promised!GiveUp, Standings
        <5> QED
          BY <3>1, <5>2 DEF Promised!Next, Keys
      <4> QED
        BY <4>3, <4>4
    <3> QED
      BY <3>4, <3>5, <3>6
  <2>6. ASSUME NEW d \in dead, RedeliverDeadLetter(d[1], d[2])
        PROVE  Promised!Next \/ UNCHANGED <<Standings, attempts>>
    <3>1. /\ d[1] \in Groups /\ d[2] \in 1..Len(stream) /\ stream[d[2]] \in Message
          /\ d = <<d[1], d[2]>>
      BY <2>t DEF TypeOK
    <3>k. PICK k \in Keys : k = <<d[1], stream[d[2]].event>>
      BY <3>1 DEF Keys, Message
    <3>2. outbox[k[2]] # "none" /\ Buried(k[1], k[2])
      BY <3>1, <3>k DEF RefinementInv, Committed, Buried
    <3>3. /\ UNCHANGED <<outbox, handled>> /\ dead' = dead \ {d}
          /\ attempts' = [attempts EXCEPT ![k] = 0]
      BY <2>6, <3>1, <3>k DEF RedeliverDeadLetter
    <3>4. /\ \A m \in 1..Len(stream) : stream'[m] = stream[m]
          /\ 1..Len(stream) \subseteq 1..Len(stream')
      BY <2>t, Monotone
    <3>5. \A j \in Keys : j # k => (Buried(j[1], j[2])' <=> Buried(j[1], j[2]))
      <4> SUFFICES ASSUME NEW j \in Keys, j # k PROVE Buried(j[1], j[2])' <=> Buried(j[1], j[2])
        OBVIOUS
      <4>1. \A m : <<j[1], m>> \in dead => m \in 1..Len(stream)
        BY <2>t DEF TypeOK
      <4>2. \A m \in 1..Len(stream) : stream[m].event = j[2] => <<j[1], m>> # d
        BY <3>1, <3>k DEF Keys
      <4> QED
        BY <3>3, <3>4, <4>1, <4>2 DEF Buried
    <3>6. \A j \in Keys : j # k => Standing(j)' = Standing(j)
      BY <3>3, <3>5 DEF Standing
    <3>7. Standing(k) \in {"served", "buried"}
      BY <3>2 DEF Standing
    <3>8. Standing(k)' \in {Standing(k), IF Standing(k) = "buried" THEN "owed" ELSE Standing(k)}
      BY <3>2, <3>3 DEF Standing
    <3>9. Standings' \in {Standings, [Standings EXCEPT ![k] = IF @ = "buried" THEN "owed" ELSE @]}
      BY <3>2, <3>6, <3>8 DEF Standings
    <3>10. Promised!SendAgain(k)
      BY <3>2, <3>3, <3>7, <3>9, <2>m DEF Promised!SendAgain, Standings
    <3> QED
      BY <3>2, <3>10 DEF Promised!Next, Keys
  <2>7. \/ \E e \in Events : Enqueue(e)
        \/ \E w \in Workers : \/ HandlerSucceeds(w) \/ FinishDelivery(w)
                               \/ IncrDeliveryAttempt(w) \/ BuryDelivery(w)
        \/ \E d \in dead : RedeliverDeadLetter(d[1], d[2])
        \/ UNCHANGED <<dead, handled, attempts>>
    BY DEF Next, Proceed, vars, RelayAdd, RelayCommit, RelayFails, ReadNew, AutoClaim, SkipTargeted,
       AcquireDelivery, CheckDeferred, HandlerFails, HandlerDefers, MarkDeferred, Interrupt,
       LeaseLost, LeaseExpires, DeferralEnds
  <2> QED
    BY <2>1, <2>2, <2>3, <2>4, <2>5, <2>6, <2>7, StandingsKept
<1> QED
  BY <1>1, <1>2, RefinementInvariant, PTL DEF Spec, DeliveryPromise, Promised!Spec
=============================================================================
