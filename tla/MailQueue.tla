------------------------------ MODULE MailQueue ------------------------------
(***************************************************************************)
(* Notification mail of one recipient: internal/notify, from the event to   *)
(* the provider, with several worker replicas.  Everything the queue keeps  *)
(* is per recipient, so that one recipient is the whole story.              *)
(*                                                                          *)
(* Time is not modelled: a notification may be due, quiet hours may end and *)
(* a rate limit may free at any moment; a step that only postpones changes  *)
(* nothing here.                                                            *)
(***************************************************************************)
EXTENDS Naturals, FiniteSets

CONSTANTS
  Events,          \* events about the recipient, numbered as they are created
  Type, Item,      \* an event's type; the appeal, material or assignment it names
  Role,            \* the recipient's role in the class
  Channels,        \* mail channels an operator may have configured
  BatchIds,        \* ids of mail_batch rows (bound)
  Mailers,         \* worker replicas
  Modes,           \* reception modes of the category other than "off"
  DailyLimit,      \* mails per day the recipient allows
  MaxAttempts,     \* refusals before a batch fails (5 in the code)
  MaxChanges       \* bound on changes of settings and on new days

ASSUME MailAssumption ==
  /\ Events \subseteq Nat /\ IsFiniteSet(Events)
  /\ BatchIds \subseteq Nat \ {0}
  /\ Channels \subseteq {"smtp", "resend", "aliyun", "ses"}
  /\ "off" \notin Modes
  /\ DailyLimit \in Nat /\ MaxAttempts \in Nat /\ MaxChanges \in Nat

VARIABLES
  created,         \* events in the outbox
  note,            \* mail_notification
  batch,           \* mail_batch
  ledger,          \* status of the latest mail_delivery of a batch
  accepted,        \* mails of a batch the provider accepted
  mailed,          \* how many accepted mails an event is in
  on, fence,       \* NotificationsEnabled; what was created before the last switch
  wants, mode,     \* mail_preference: enabled (by an active account), the category's mode
  blocked,         \* mail_suppression has the address
  sentToday,
  channel,         \* the configured provider
  mtx,             \* the transaction of each mailer
  changes

mailVars == <<created, note, batch, ledger, accepted, mailed, on, fence, wants, mode,
              blocked, sentToday, channel, mtx, changes>>

queueVars == <<note, batch>>
providerVars == <<ledger, accepted, mailed>>
settingVars == <<on, fence, wants, mode, channel, changes>>

AllModes == Modes \cup {"off"}

NoBatch == 0
Note == [st : {"none", "pending", "batched", "sent", "suppressed"}, mode : AllModes,
         batch : BatchIds \cup {NoBatch}]

Batch == [st : {"none", "pending", "sent", "suppressed", "failed"}, tries : Nat]

\* What a provider call came to: Rejected says that it was certainly not submitted.
Outcome == {"none", "sent", "rejected", "suppressed", "unclear"}

\* at: where the transaction is; items: events it carries; back: events it requeues.
MailTx == [at : {"idle", "enqueue", "prepare", "flush", "reserved", "called", "recorded", "lost"},
           batch : BatchIds \cup {NoBatch}, items : SUBSET Events, back : SUBSET Events,
           out : Outcome]

Idle == [at |-> "idle", batch |-> NoBatch, items |-> {}, back |-> {}, out |-> "none"]

MailTypeOK ==
  /\ created \in SUBSET Events
  /\ note \in [Events -> Note]
  /\ batch \in [BatchIds -> Batch]
  /\ ledger \in [BatchIds -> {"none", "queued", "sent", "failed", "suppressed"}]
  /\ accepted \in [BatchIds -> Nat]
  /\ mailed \in [Events -> Nat]
  /\ on \in BOOLEAN /\ wants \in BOOLEAN /\ blocked \in BOOLEAN
  /\ fence \in [events : SUBSET Events, batches : SUBSET BatchIds]
  /\ mode \in AllModes
  /\ sentToday \in Nat /\ changes \in Nat
  /\ channel \in Channels
  /\ mtx \in [Mailers -> MailTx]

MailInit ==
  /\ created = {}
  /\ note = [e \in Events |-> [st |-> "none", mode |-> "off", batch |-> NoBatch]]
  /\ batch = [b \in BatchIds |-> [st |-> "none", tries |-> 0]]
  /\ ledger = [b \in BatchIds |-> "none"]
  /\ accepted = [b \in BatchIds |-> 0]
  /\ mailed = [e \in Events |-> 0]
  /\ on = TRUE /\ fence = [events |-> {}, batches |-> {}]
  /\ wants = TRUE /\ mode \in Modes
  /\ blocked = FALSE /\ sentToday = 0 /\ channel \in Channels
  /\ mtx = [w \in Mailers |-> Idle]
  /\ changes = 0

Is(st) == {e \in Events : note[e].st = st}
PendingBatches == {b \in BatchIds : batch[b].st = "pending"}
ItemsOf(b) == {e \in Is("batched") : note[e].batch = b}
Begin(w, tx) == mtx[w].at = "idle" /\ mtx' = [mtx EXCEPT ![w] = tx]
End(w) == mtx' = [mtx EXCEPT ![w] = Idle]

-----------------------------------------------------------------------------
(* From the event to a notification *)

\* Some handler commits an event (external: any of the API's handlers).
OutboxCreate(e) ==
  /\ e \notin created
  /\ \A d \in Events : d < e => d \in created
  /\ created' = created \cup {e}
  /\ UNCHANGED <<queueVars, providerVars, settingVars, blocked, sentToday, mtx>>

\* Worker.recipients: whom an event is about.
Targets(type) ==
  CASE type \in {"dispatch.done", "dispatch.reassigned", "appeal.assigned"} -> {"reviewer"}
    [] type = "review.sla_overdue" -> {"reviewer", "admin"}
    [] type \in {"classification.suggested", "objection.submitted"} -> {"admin"}
    [] type = "scorecard_audit.completed" -> {"admin", "student"}
    [] type \in {"gate.forced", "settlement.done"} -> {"student", "reviewer", "admin"}
    [] OTHER -> {"student"}

\* notificationCategory: the events that are mail at all.
Mailable(type) ==
  type \in {"dispatch.done", "dispatch.reassigned", "appeal.assigned", "appeal.filed",
            "appeal.resolved", "arbitration.resolved", "review.decided", "conflict.raised",
            "review.sla_overdue", "window.reminder", "seal.confirmed", "result.confirmed",
            "scorecard_audit.completed", "settlement.done", "submission.force_rejected",
            "submission.force_scored"}

\* notificationEntity: the material or workflow whose newest state matters.
Entity(e) ==
  CASE Type[e] \in {"dispatch.done", "dispatch.reassigned"} -> "review-inbox"
    [] Type[e] \in {"window.reminder", "review.sla_overdue", "settlement.done"} -> Type[e]
    [] OTHER -> Item[e]

\* Another event of the same entity is newer, or this one is already known.
Superseded(e) ==
  \E d \in Events : /\ note[d].st # "none"
                    /\ Entity(d) = Entity(e)
                    /\ d >= e

\* Worker.enqueue up to the check for newer events.  An event may be delivered
\* again and out of order.
EnqueueRead(w, e) ==
  /\ e \in created
  /\ on /\ e \notin fence.events
  /\ Role \in Targets(Type[e]) /\ Mailable(Type[e])
  /\ wants /\ mode # "off"
  /\ ~Superseded(e)
  /\ Begin(w, [Idle EXCEPT !.at = "enqueue", !.items = {e}])
  /\ UNCHANGED <<created, queueVars, providerVars, settingVars, blocked, sentToday>>

\* The rest: drop what is pending of the entity, insert unless (event, user) is taken.
EnqueueWrite(w) ==
  /\ mtx[w].at = "enqueue"
  /\ LET e == CHOOSE x \in mtx[w].items : TRUE
         dropped == {d \in Is("pending") : Entity(d) = Entity(e)}
     IN note' = [d \in Events |->
                   IF d \in dropped THEN [note[d] EXCEPT !.st = "suppressed"]
                   ELSE IF d = e /\ note[e].st = "none"
                        THEN [st |-> "pending", mode |-> mode, batch |-> NoBatch]
                        ELSE note[d]]
  /\ End(w)
  /\ UNCHANGED <<created, batch, providerVars, settingVars, blocked, sentToday>>

-----------------------------------------------------------------------------
(* prepareBatch: reserve due notifications for one mail *)

\* A slip: no advisory lock.
NoRecipientLock == TRUE

\* pg_advisory_xact_lock(7151, user)
RecipientFree == \A w \in Mailers : mtx[w].at # "prepare"

\* The items that go into one mail: those that still matter and whose mode is the
\* present one; frequent reminders go one by one.
Reservable(items) ==
  /\ items # {}
  /\ \A e \in items : note[e].mode = mode
  /\ mode = "frequent" => Cardinality(items) = 1

PrepareRead(w) ==
  /\ on
  /\ RecipientFree
  /\ PendingBatches = {}
  /\ wants /\ mode # "off"
  /\ sentToday < DailyLimit
  /\ \E items \in SUBSET (Is("pending") \ fence.events) :
       /\ Reservable(items)
       /\ Begin(w, [Idle EXCEPT !.at = "prepare", !.items = items])
  /\ UNCHANGED <<created, queueVars, providerVars, settingVars, blocked, sentToday>>

\* INSERT mail_batch, and the reservation, whatever became of the rows since.
PrepareWrite(w) ==
  /\ mtx[w].at = "prepare"
  /\ \E b \in BatchIds :
       /\ batch[b].st = "none"
       /\ \A c \in BatchIds : c < b => batch[c].st # "none"
       /\ batch' = [batch EXCEPT ![b] = [st |-> "pending", tries |-> 0]]
       /\ note' = [e \in Events |->
                     IF e \in mtx[w].items
                     THEN [note[e] EXCEPT !.st = "batched", !.batch = b] ELSE note[e]]
  /\ End(w)
  /\ UNCHANGED <<created, providerVars, settingVars, blocked, sentToday>>

\* What prepareBatch drops: expired, created before the fence, switched off, no
\* longer relevant; or everything, if the recipient wants no mail.
PrepareSuppress ==
  /\ on /\ RecipientFree /\ PendingBatches = {}
  /\ \E items \in SUBSET Is("pending") :
       /\ items # {}
       /\ ~wants => items = Is("pending")
       /\ note' = [e \in Events |->
                     IF e \in items THEN [note[e] EXCEPT !.st = "suppressed"] ELSE note[e]]
  /\ UNCHANGED <<created, batch, providerVars, settingVars, blocked, sentToday, mtx>>

\* An item reserved for another mode than the present one gets the present one.
PrepareReschedule ==
  /\ on /\ RecipientFree /\ PendingBatches = {}
  /\ wants /\ mode # "off"
  /\ \E e \in Is("pending") :
       /\ note[e].mode # mode
       /\ note' = [note EXCEPT ![e].mode = mode]
  /\ UNCHANGED <<created, batch, providerVars, settingVars, blocked, sentToday, mtx>>

-----------------------------------------------------------------------------
(* sendBatch, AuditedMailer and the provider *)

Sending(b) == \E w \in Mailers : mtx[w].at \in {"reserved", "called", "recorded", "lost"}
                                 /\ mtx[w].batch = b

\* A slip: the row is read without FOR UPDATE.
ClaimWithoutLock(b) == batch[b].st = "pending"

\* SELECT ... FOR UPDATE of the batch, and what it must still be.
Claimable(b) == batch[b].st = "pending" /\ ~Sending(b)

\* finish(state): the batch, and the items it still holds.
Finished(b, st, rows) ==
  /\ batch' = [batch EXCEPT ![b].st = st]
  /\ note' = [e \in Events |->
                IF rows[e].st = "batched" /\ rows[e].batch = b
                THEN [rows[e] EXCEPT !.st = IF st = "sent" THEN "sent" ELSE "suppressed"]
                ELSE rows[e]]
  /\ sentToday' = IF st = "sent" THEN sentToday + 1 ELSE sentToday

\* Items of the batch whose category changed its mode go back to the queue.
Requeued(back) ==
  [e \in Events |-> IF e \in back THEN [st |-> "pending", mode |-> mode, batch |-> NoBatch]
                                  ELSE note[e]]

\* An accepted send is repaired before any other check.
SendRepair(b) ==
  /\ Claimable(b)
  /\ ledger[b] = "sent"
  /\ Finished(b, "sent", note)
  /\ UNCHANGED <<created, providerVars, settingVars, blocked, mtx>>

\* Business mail is paused or was since the batch was made, the recipient wants none,
\* or nothing of the batch is left to tell.
SendSuppress(b) ==
  /\ Claimable(b)
  /\ ledger[b] \notin {"sent", "queued"}
  /\ LET back == {e \in ItemsOf(b) : note[e].mode # mode /\ mode # "off"}
     IN \/ /\ ~on \/ b \in fence.batches \/ ~wants
           /\ Finished(b, "suppressed", note)
        \/ /\ on /\ wants
           /\ \E live \in SUBSET back : Finished(b, "suppressed", Requeued(live))
  /\ UNCHANGED <<created, providerVars, settingVars, blocked, mtx>>

\* A slip: an unresolved attempt is taken for a failed one.
StartUnlessSent(b) == ledger[b] # "sent"

\* ops_start_mail_delivery: under its lock, refuse what is sent or unresolved,
\* else record the attempt as queued and commit it, before the provider is called.
StartDelivery(b) == ledger[b] \notin {"sent", "queued"}

SendReserve(w, b) ==
  /\ Claimable(b)
  /\ StartDelivery(b)
  /\ on /\ b \notin fence.batches /\ wants /\ mode # "off"
  /\ sentToday < DailyLimit
  /\ \E live \in SUBSET ItemsOf(b) :
       LET told == {e \in live : note[e].mode = mode}
       IN /\ told # {}
          /\ Begin(w, [at |-> "reserved", batch |-> b, items |-> told,
                       back |-> live \ told, out |-> "none"])
  /\ ledger' = [ledger EXCEPT ![b] = "queued"]
  /\ UNCHANGED <<created, queueVars, accepted, mailed, settingVars, blocked, sentToday>>

Answer(out, ok) == [out |-> out, ok |-> ok]
Refused == Answer("rejected", FALSE)
Lost(oks) == {Answer("unclear", ok) : ok \in oks}

\* Every stage before DATA is certain; the acknowledgement of DATA may get lost, and a
\* reply of 4xx or 5xx to it is a refusal.
SMTPSend == {Refused, Answer("sent", TRUE)} \cup Lost(BOOLEAN)

\* 4xx is a refusal; a lost or unreadable reply, 5xx and a missing receipt are not.
ResendSend == {Refused, Answer("sent", TRUE)} \cup Lost(BOOLEAN)

AliyunSend == {Refused, Answer("sent", TRUE)} \cup Lost(BOOLEAN)

\* Known error codes are refusals, some of them for good (permanentSESFailure).
SESSend == {Refused, Answer("suppressed", FALSE), Answer("sent", TRUE)} \cup Lost(BOOLEAN)

ProviderAnswers ==
  CASE channel = "smtp" -> SMTPSend [] channel = "resend" -> ResendSend
    [] channel = "aliyun" -> AliyunSend [] channel = "ses" -> SESSend

\* SuppressionMailer: a blocked address is never handed on; a permanent refusal blocks it.
SuppressionAnswers == IF blocked THEN {Answer("suppressed", FALSE)} ELSE ProviderAnswers

ProviderSend(w) ==
  /\ mtx[w].at = "reserved"
  /\ \E ans \in SuppressionAnswers :
       /\ mtx' = [mtx EXCEPT ![w].at = "called", ![w].out = ans.out]
       /\ IF ans.ok THEN /\ accepted' = [accepted EXCEPT ![mtx[w].batch] = @ + 1]
                         /\ mailed' = [e \in Events |->
                              IF e \in mtx[w].items THEN mailed[e] + 1 ELSE mailed[e]]
                    ELSE UNCHANGED <<accepted, mailed>>
       /\ blocked' = (blocked \/ ans.out = "suppressed")
  /\ UNCHANGED <<created, queueVars, ledger, settingVars, sentToday>>

\* A slip: every error is recorded as a failure.
ErrorMeansFailed(out) ==
  CASE out = "sent" -> "sent" [] out = "suppressed" -> "suppressed" [] OTHER -> "failed"

\* recorder.Finish: only a certain refusal is recorded as one.
DeliveryStatus(out) ==
  CASE out = "sent" -> "sent" [] out = "rejected" -> "failed"
    [] out = "suppressed" -> "suppressed" [] out = "unclear" -> "queued"

FinishDelivery(w) ==
  /\ mtx[w].at = "called"
  /\ \/ /\ ledger' = [ledger EXCEPT ![mtx[w].batch] = DeliveryStatus(mtx[w].out)]
        /\ mtx' = [mtx EXCEPT ![w].at = "recorded"]
     \/ /\ mtx' = [mtx EXCEPT ![w].at = "lost"]      \* the ledger could not be written
        /\ UNCHANGED ledger
  /\ UNCHANGED <<created, queueVars, accepted, mailed, settingVars, blocked, sentToday>>

\* A refusal counts; an unresolved outcome is deferred without counting, unless
\* neither the answer nor the record of it is there.
Counts(tx) == \/ tx.at = "recorded" /\ tx.out = "rejected"
              \/ tx.at = "lost" /\ tx.out \notin {"sent", "suppressed"}

\* The end of sendBatch: the transaction commits what Send returned.
SendCommit(w) ==
  /\ mtx[w].at \in {"recorded", "lost"}
  /\ LET b == mtx[w].batch
         rows == Requeued(mtx[w].back)
         tries == batch[b].tries + 1
     IN \/ /\ mtx[w].at = "recorded" /\ mtx[w].out = "sent"
           /\ Finished(b, "sent", rows)
        \/ /\ mtx[w].out = "suppressed"
           /\ Finished(b, "suppressed", rows)
        \/ /\ Counts(mtx[w]) /\ tries >= MaxAttempts
           /\ Finished(b, "failed", rows)
        \/ /\ Counts(mtx[w]) /\ tries < MaxAttempts
           /\ batch' = [batch EXCEPT ![b].tries = tries]
           /\ note' = rows /\ UNCHANGED sentToday
        \/ /\ ~Counts(mtx[w]) /\ mtx[w].out # "suppressed"
           /\ ~(mtx[w].at = "recorded" /\ mtx[w].out = "sent")
           /\ note' = rows /\ UNCHANGED <<batch, sentToday>>
  /\ End(w)
  /\ UNCHANGED <<created, providerVars, settingVars, blocked>>

\* A worker dies or its transaction cannot commit: what it did to the queue is
\* rolled back, what the ledger and the provider have stays.
MailerCrash(w) ==
  /\ mtx[w].at # "idle"
  /\ End(w)
  /\ UNCHANGED <<created, queueVars, providerVars, settingVars, blocked, sentToday>>

-----------------------------------------------------------------------------
(* Operators, recipients and the provider's feedback *)

\* reconcileOpsMail: an unresolved attempt of more than two minutes, longer than any
\* call lasts, is settled by what the provider's console says.
Reconcile(b) ==
  /\ ledger[b] = "queued"
  /\ ~\E w \in Mailers : mtx[w].batch = b /\ mtx[w].at \in {"reserved", "called"}
  /\ ledger' = [ledger EXCEPT ![b] = IF accepted[b] > 0 THEN "sent" ELSE "failed"]
  /\ UNCHANGED <<created, queueVars, accepted, mailed, settingVars, blocked, sentToday, mtx>>

Change == changes < MaxChanges /\ changes' = changes + 1

\* putOpsConfig: switching moves NotificationsSince, either way.
SwitchMail ==
  /\ Change
  /\ on' = ~on
  /\ fence' = [events |-> created, batches |-> {b \in BatchIds : batch[b].st # "none"}]
  /\ UNCHANGED <<created, queueVars, providerVars, wants, mode, channel, blocked, sentToday, mtx>>

\* Flush while business mail is paused: two statements, each on its own.
FlushNotes(w) ==
  /\ ~on
  /\ Begin(w, [Idle EXCEPT !.at = "flush"])
  /\ note' = [e \in Events |-> IF note[e].st \in {"pending", "batched"}
                               THEN [note[e] EXCEPT !.st = "suppressed"] ELSE note[e]]
  /\ UNCHANGED <<created, batch, providerVars, settingVars, blocked, sentToday>>

FlushBatches(w) ==
  /\ mtx[w].at = "flush"
  /\ ~\E b \in BatchIds : Sending(b)
  /\ batch' = [b \in BatchIds |-> IF batch[b].st = "pending"
                                  THEN [batch[b] EXCEPT !.st = "suppressed"] ELSE batch[b]]
  /\ End(w)
  /\ UNCHANGED <<created, note, providerVars, settingVars, blocked, sentToday>>

\* SavePreferences, and mail_opt_out, which only takes consent away.
SavePreferences(wish, m) ==
  /\ Change
  /\ wants' = wish /\ mode' = m
  /\ note' = [e \in Events |->
                IF note[e].st # "pending" THEN note[e]
                ELSE IF ~wish \/ m = "off" THEN [note[e] EXCEPT !.st = "suppressed"]
                     ELSE [note[e] EXCEPT !.mode = m]]
  /\ UNCHANGED <<created, batch, providerVars, on, fence, channel, blocked, sentToday, mtx>>

MailOptOut == \/ SavePreferences(FALSE, mode)
              \/ SavePreferences(wants, "off")

\* SyncFeedback: a complaint or a bounce of a mail that was sent blocks the address.
SyncFeedback(b) ==
  /\ channel = "ses" /\ ledger[b] = "sent"
  /\ ~blocked /\ blocked' = TRUE
  /\ UNCHANGED <<created, queueVars, providerVars, settingVars, sentToday, mtx>>

NewDay ==
  /\ Change
  /\ sentToday' = 0
  /\ UNCHANGED <<created, queueVars, providerVars, on, fence, wants, mode, channel, blocked, mtx>>

MailNext ==
  \/ \E e \in Events : OutboxCreate(e)
  \/ \E w \in Mailers : \/ \E e \in Events : EnqueueRead(w, e)
                        \/ EnqueueWrite(w)
                        \/ PrepareRead(w) \/ PrepareWrite(w)
                        \/ \E b \in BatchIds : SendReserve(w, b)
                        \/ ProviderSend(w) \/ FinishDelivery(w) \/ SendCommit(w)
                        \/ MailerCrash(w)
                        \/ FlushNotes(w) \/ FlushBatches(w)
  \/ PrepareSuppress \/ PrepareReschedule
  \/ \E b \in BatchIds : SendRepair(b) \/ SendSuppress(b) \/ Reconcile(b) \/ SyncFeedback(b)
  \/ SwitchMail \/ MailOptOut \/ NewDay
  \/ \E wish \in BOOLEAN, m \in AllModes : SavePreferences(wish, m)

MailSpec == MailInit /\ [][MailNext]_mailVars

-----------------------------------------------------------------------------
(* Properties *)

\* No event reaches the recipient's mailbox twice, whatever crashes, retries, requeues and
\* unclear answers of the provider come in between (AuditedMailer.Send, sendBatch).
MailedOnce == \A e \in Events : mailed[e] <= 1

\* Replicas reserve at most one mail per recipient at a time (prepareBatch).
OnePendingBatch == Cardinality(PendingBatches) <= 1

\* The daily limit holds although it is read long before the mail counts.
SentWithinLimit == sentToday <= DailyLimit

\* The ledger never calls an accepted mail unsent, so that no retry resends it; a batch
\* is sent only if its mail was accepted (recorder.Finish, reconcileOpsMail, finish).
LedgerTells ==
  \A b \in BatchIds : /\ ledger[b] \in {"none", "failed", "suppressed"} => accepted[b] = 0
                      /\ batch[b].st = "sent" \/ ledger[b] = "sent" => accepted[b] = 1

\* Queue and ledger (queue.go, audited_mailer.go): one mail to a recipient at a time, no more in a
\* day than allowed, and none that was accepted is taken for unsent.
MailQueueInv == MailTypeOK /\ OnePendingBatch /\ SentWithinLimit /\ LedgerTells
=============================================================================
