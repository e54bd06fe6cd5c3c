------------------------------ MODULE Assistant ------------------------------
(***************************************************************************)
(* The assistant: a question is answered by a worker under an advisory lock *)
(* of the message (internal/agentjob/message.go), the user may cancel it or *)
(* delete the conversation meanwhile, and an answer may propose a draft     *)
(* that the user has shown to him, confirms and applies                     *)
(* (agent_handlers.go, agent_action_handlers.go).                           *)
(*                                                                          *)
(* Events are delivered at least once.  The advisory lock belongs to a      *)
(* database connection: when that is lost the lock is, and the run goes on. *)
(* A request answered with an error is rolled back (tenantTransaction), the *)
(* marks "stale" and "expired" it had set on a draft included.              *)
(***************************************************************************)
EXTENDS Naturals, FiniteSets

CONSTANTS
  Questions,       \* messages of one conversation
  AgentWorkers,
  DraftTxs,        \* requests that apply a draft
  MaxDeliveries,   \* bound on deliveries of one event
  MaxPrepares,     \* bound on confirmations asked for
  MaxWorld         \* versions of what validateAgentAction reads

\* The bounds are numbers.
ASSUME AssistantAssumption ==
  MaxDeliveries \in Nat /\ MaxPrepares \in Nat /\ MaxWorld \in Nat

VARIABLES
  conversation,
  gate,            \* the platform's flags and the class's consent
  msg,             \* agent_message of the assistant
  picture,         \* agent_attachment of the question and its object
  swept,           \* questions whose picture the maintenance run has listed
  run,             \* processMessage
  msgLock,         \* pg_advisory_lock
  action,          \* agent_action
  world,
  draftTx,
  answers, executed   \* how often completeMessage and executeAgentDraft took effect

assistVars == <<conversation, gate, msg, picture, swept, run, msgLock, action, world, draftTx,
                answers, executed>>
messageVars == <<conversation, gate, msg, picture, swept, run, msgLock, answers>>
actionVars == <<action, world, draftTx, executed>>

NoRun == [at |-> "idle", on |-> {}, approved |-> FALSE]
NoAction == [st |-> "none", token |-> 0, live |-> FALSE, shown |-> 0, past |-> FALSE]
NoDraftTx == [at |-> "idle", on |-> {}, token |-> 0, saw |-> 0]
Settled == {"complete", "canceled"}

AssistTypeOK ==
  /\ conversation \in {"open", "deleted"} /\ gate \in [flags : BOOLEAN, consent : BOOLEAN]
  /\ msg \in [Questions -> [st : {"none", "asked", "queued", "running", "failed"} \cup Settled,
                            text : {"none", "part", "whole"}, deliveries : 0 .. MaxDeliveries]]
  /\ picture \in [Questions -> [st : {"none", "uploading", "ready", "sent"}, stored : BOOLEAN]]
  /\ swept \in SUBSET Questions
  /\ run \in [AgentWorkers -> [at : {"idle", "loaded", "step", "model", "answer"},
                               on : SUBSET Questions, approved : BOOLEAN]]
  /\ msgLock \in [Questions -> SUBSET AgentWorkers]
  /\ action \in [Questions -> [st : {"none", "proposed", "prepared", "applied", "rejected"},
                               token : 0 .. MaxPrepares, live : BOOLEAN, shown : 0 .. MaxWorld,
                               past : BOOLEAN]]
  /\ world \in 0 .. MaxWorld
  /\ draftTx \in [DraftTxs -> [at : {"idle", "applying"}, on : SUBSET Questions,
                               token : 0 .. MaxPrepares, saw : 0 .. MaxWorld]]
  /\ answers \in [Questions -> Nat] /\ executed \in [Questions -> Nat]

AssistInit ==
  /\ conversation = "open" /\ gate = [flags |-> TRUE, consent |-> TRUE]
  /\ msg = [m \in Questions |-> [st |-> "none", text |-> "none", deliveries |-> 0]]
  /\ picture = [m \in Questions |-> [st |-> "none", stored |-> FALSE]]
  /\ swept = {}
  /\ run = [w \in AgentWorkers |-> NoRun]
  /\ msgLock = [m \in Questions |-> {}]
  /\ action = [m \in Questions |-> NoAction]
  /\ world = 0
  /\ draftTx = [x \in DraftTxs |-> NoDraftTx]
  /\ answers = [m \in Questions |-> 0] /\ executed = [m \in Questions |-> 0]

-----------------------------------------------------------------------------
(* The user *)

\* agentGateReason
GateOpen(flags, approved) == flags /\ approved

\* presignAgentAttachment, then the upload and completeAgentAttachment, which reads the
\* object and keeps its digest.
AttachPicture(m) ==
  /\ msg[m].st = "none"
  /\ \/ /\ picture[m].st = "none" /\ GateOpen(gate.flags, gate.consent)
        /\ picture' = [picture EXCEPT ![m] = [st |-> "uploading", stored |-> TRUE]]
     \/ /\ picture[m].st = "uploading" /\ picture[m].stored
        /\ picture' = [picture EXCEPT ![m].st = "ready"]
  /\ UNCHANGED <<conversation, gate, msg, swept, run, msgLock, answers, actionVars>>

\* deleteAgentAttachment of a picture that is not sent; the object goes after the commit.
DetachPicture(m) ==
  /\ picture[m].st \in {"uploading", "ready"}
  /\ picture' = [picture EXCEPT ![m] = [st |-> "none", stored |-> FALSE]]
  /\ swept' = swept \ {m}
  /\ UNCHANGED <<conversation, gate, msg, run, msgLock, answers, actionVars>>

\* createAgentMessage up to its check of the conversation, which holds no lock on it ...
AskBegin(m) ==
  /\ msg[m].st = "none" /\ conversation = "open"
  /\ GateOpen(gate.flags, gate.consent)
  /\ picture[m].st # "uploading"
  /\ msg' = [msg EXCEPT ![m].st = "asked"]
  /\ UNCHANGED <<conversation, gate, picture, swept, run, msgLock, answers, actionVars>>

\* ... and its writes: the picture is the message's, the event is in the outbox.
AskCommit(m) ==
  /\ msg[m].st = "asked"
  /\ msg' = [msg EXCEPT ![m].st = "queued"]
  /\ picture' = [picture EXCEPT ![m].st = IF @ = "ready" THEN "sent" ELSE @]
  /\ UNCHANGED <<conversation, gate, swept, run, msgLock, answers, actionVars>>

\* cancelAgentMessage
CancelMessage(m) ==
  /\ msg[m].st \in {"queued", "running"}
  /\ msg' = [msg EXCEPT ![m].st = "canceled"]
  /\ UNCHANGED <<conversation, gate, picture, swept, run, msgLock, answers, actionVars>>

\* deleteAgentConversation
DeleteConversation ==
  /\ conversation = "open"
  /\ conversation' = "deleted"
  /\ msg' = [m \in Questions |-> IF msg[m].st \in {"queued", "running"}
                                   THEN [msg[m] EXCEPT !.st = "canceled"] ELSE msg[m]]
  /\ UNCHANGED <<gate, picture, swept, run, msgLock, answers, actionVars>>

\* An operator's flag, or the class's consent (updateKnowledgePolicy).
SwitchGate ==
  /\ \/ gate' = [gate EXCEPT !.flags = ~@]
     \/ gate' = [gate EXCEPT !.consent = ~@]
  /\ UNCHANGED <<conversation, msg, picture, swept, run, msgLock, answers, actionVars>>

\* expireAgentAttachments lists pictures not sent for a day ...
SweepList(m) ==
  /\ picture[m].st \in {"uploading", "ready"}
  /\ swept' = swept \cup {m}
  /\ UNCHANGED <<conversation, gate, msg, picture, run, msgLock, answers, actionVars>>

\* ... removes the object, and then the row if it still is not sent.
SweepPicture(m) ==
  /\ m \in swept
  /\ \/ /\ picture[m].stored
        /\ picture' = [picture EXCEPT ![m].stored = FALSE]
        /\ UNCHANGED swept
     \/ /\ ~picture[m].stored
        /\ picture' = [picture EXCEPT ![m].st = IF @ = "sent" THEN @ ELSE "none"]
        /\ swept' = swept \ {m}
  /\ UNCHANGED <<conversation, gate, msg, run, msgLock, answers, actionVars>>

-----------------------------------------------------------------------------
(* The worker *)

RunTo(w, at) == run' = [run EXCEPT ![w].at = at]
Unlock(w) == msgLock' = [m \in Questions |-> msgLock[m] \ {w}]
RunEnd(w) == run' = [run EXCEPT ![w] = NoRun] /\ Unlock(w)
At(w, at, m) == run[w].at = at /\ m \in run[w].on

\* Handle, withLock, loadMessage: a settled message, or one of a deleted conversation, is
\* not processed again.  The consent is read here, once for the whole run.
TakeMessage(w, m) ==
  /\ run[w].at = "idle" /\ msgLock[m] = {}
  /\ msg[m].st \notin {"none", "asked"} /\ msg[m].deliveries < MaxDeliveries
  /\ msg' = [msg EXCEPT ![m].deliveries = @ + 1]
  /\ IF conversation = "open" /\ msg[m].st \notin Settled
       THEN /\ run' = [run EXCEPT ![w] = [at |-> "loaded", on |-> {m},
                                              approved |-> gate.consent]]
            /\ msgLock' = [msgLock EXCEPT ![m] = {w}]
       ELSE UNCHANGED <<run, msgLock>>
  /\ UNCHANGED <<conversation, gate, picture, swept, answers, actionVars>>

\* A slip: the text streamed so far stays.
FailsWithText(x) == IF x.st \in Settled THEN x ELSE [x EXCEPT !.st = "failed"]

\* failMessage
FailedMessage(x) ==
  IF x.st \in Settled THEN x ELSE [x EXCEPT !.st = "failed", !.text = "none"]

\* Any of the ways processMessage gives up for good: the gate is closed, a picture cannot
\* be read, the model refuses, the answers cannot be parsed, the steps are used up.
FailMessage(w, m) ==
  /\ run[w].at # "idle" /\ m \in run[w].on
  /\ msg' = [msg EXCEPT ![m] = FailedMessage(@)]
  /\ RunEnd(w)
  /\ UNCHANGED <<conversation, gate, picture, swept, answers, actionVars>>

\* startMessage
Started(x) ==
  IF x.st \in {"queued", "running", "failed"} THEN [x EXCEPT !.st = "running", !.text = "none"]
  ELSE x

StartMessage(w, m) ==
  /\ At(w, "loaded", m) /\ GateOpen(gate.flags, run[w].approved)
  /\ picture[m].st = "sent" => picture[m].stored
  /\ msg' = [msg EXCEPT ![m] = Started(@)]
  /\ RunTo(w, "step")
  /\ UNCHANGED <<conversation, gate, picture, swept, msgLock, answers, actionVars>>

\* The head of the loop: messageCanceled, then the flags as they now are and the consent
\* as it was read.
NextStep(w, m) ==
  /\ At(w, "step", m)
  /\ IF msg[m].st = "canceled" THEN RunEnd(w)
     ELSE /\ GateOpen(gate.flags, run[w].approved)
          /\ RunTo(w, "model") /\ UNCHANGED msgLock
  /\ UNCHANGED <<conversation, gate, msg, picture, swept, answers, actionVars>>

\* writePartial
Written(x, text) == IF x.st = "running" THEN [x EXCEPT !.text = text] ELSE x

\* callModel streams; a message that is no longer running ends the run.
StreamPartial(w, m) ==
  /\ At(w, "model", m)
  /\ msg' = [msg EXCEPT ![m] = Written(@, "part")]
  /\ IF msg[m].st = "running" THEN UNCHANGED <<run, msgLock>> ELSE RunEnd(w)
  /\ UNCHANGED <<conversation, gate, picture, swept, answers, actionVars>>

\* A turn that calls a tool, cannot be parsed or lacks a source: once more.
ToolTurn(w, m) ==
  /\ At(w, "model", m)
  /\ msg' = [msg EXCEPT ![m] = Written(@, "none")]
  /\ RunTo(w, "step")
  /\ UNCHANGED <<conversation, gate, picture, swept, msgLock, answers, actionVars>>

FinalTurn(w, m) ==
  /\ At(w, "model", m)
  /\ RunTo(w, "answer")
  /\ UNCHANGED <<conversation, gate, msg, picture, swept, msgLock, answers, actionVars>>

\* deferMessage: the model is not available, the event will be delivered again.
Deferred(x) == IF x.st = "running" THEN [x EXCEPT !.st = "queued"] ELSE x

DeferMessage(w, m) ==
  /\ At(w, "model", m)
  /\ msg' = [msg EXCEPT ![m] = Deferred(@)]
  /\ RunEnd(w)
  /\ UNCHANGED <<conversation, gate, picture, swept, answers, actionVars>>

\* A slip: the UPDATE does not ask for the status.
AnyStatus(m) == TRUE

StillRunning(m) == msg[m].st = "running"

\* completeMessage: the answer and the drafts it proposes, in one transaction.
CompleteMessage(w, m, proposes) ==
  /\ At(w, "answer", m)
  /\ IF StillRunning(m)
       THEN /\ msg' = [msg EXCEPT ![m].st = "complete", ![m].text = "whole"]
            /\ answers' = [answers EXCEPT ![m] = @ + 1]
            /\ action' = IF proposes THEN [action EXCEPT ![m].st = "proposed"] ELSE action
       ELSE UNCHANGED <<msg, answers, action>>
  /\ RunEnd(w)
  /\ UNCHANGED <<conversation, gate, picture, swept, world, draftTx, executed>>

\* The process dies, or a statement fails: the event will be delivered again.
AgentCrash(w) ==
  /\ run[w].at # "idle"
  /\ RunEnd(w)
  /\ UNCHANGED <<conversation, gate, msg, picture, swept, answers, actionVars>>

\* The connection that holds the lock is lost; the run does not notice.
LockLost(m) ==
  /\ msgLock[m] # {}
  /\ msgLock' = [msgLock EXCEPT ![m] = {}]
  /\ UNCHANGED <<conversation, gate, msg, picture, swept, run, answers, actionVars>>

-----------------------------------------------------------------------------
(* Drafts *)

\* loadAgentAction ... FOR UPDATE
ActionFree(m) == \A x \in DraftTxs : m \notin draftTx[x].on

\* prepareAgentAction: what the draft would do is shown, with a new token.
PrepareAction(m) ==
  /\ action[m].st \in {"proposed", "prepared"} /\ ~action[m].past /\ ActionFree(m)
  /\ action[m].token < MaxPrepares
  /\ action' = [action EXCEPT ![m].st = "prepared", ![m].token = @ + 1, ![m].live = TRUE,
                              ![m].shown = world]
  /\ UNCHANGED <<messageVars, world, draftTx, executed>>

\* Five minutes, or the week of the proposal, pass.
ConfirmationExpires(m) ==
  /\ \/ action[m].live /\ action' = [action EXCEPT ![m].live = FALSE]
     \/ action[m].st # "none" /\ ~action[m].past /\ action' = [action EXCEPT ![m].past = TRUE]
  /\ UNCHANGED <<messageVars, world, draftTx, executed>>

\* A slip: the token alone is compared.
AnyState(m) == TRUE

\* samePreparedState
SamePreparedState(m) == action[m].shown = world

\* applyAgentAction up to its checks
ApplyBegin(x, m, token) ==
  /\ draftTx[x].at = "idle" /\ ActionFree(m)
  /\ action[m].st = "prepared" /\ action[m].live
  /\ token = action[m].token /\ SamePreparedState(m)
  /\ draftTx' = [draftTx EXCEPT ![x] = [at |-> "applying", on |-> {m}, token |-> token,
                                        saw |-> world]]
  /\ UNCHANGED <<messageVars, action, world, executed>>

\* executeAgentDraft and the commit; a refusal undoes everything.
ApplyEnd(x, ok) ==
  /\ draftTx[x].at = "applying"
  /\ IF ok
       THEN /\ executed' = [m \in Questions |-> IF m \in draftTx[x].on THEN executed[m] + 1
                                                                       ELSE executed[m]]
            /\ action' = [m \in Questions |-> IF m \in draftTx[x].on
                 THEN [action[m] EXCEPT !.st = "applied", !.live = FALSE] ELSE action[m]]
       ELSE UNCHANGED <<executed, action>>
  /\ draftTx' = [draftTx EXCEPT ![x] = NoDraftTx]
  /\ UNCHANGED <<messageVars, world>>

\* rejectAgentAction
RejectAction(m) ==
  /\ action[m].st \in {"proposed", "prepared"} /\ ActionFree(m)
  /\ action' = [action EXCEPT ![m].st = "rejected", ![m].live = FALSE]
  /\ UNCHANGED <<messageVars, world, draftTx, executed>>

\* Role, scheme or target change otherwise.
WorldChange ==
  /\ world' \in (0 .. MaxWorld) \ {world}
  /\ UNCHANGED <<messageVars, action, draftTx, executed>>

AssistNext ==
  \/ \E m \in Questions :
       \/ AttachPicture(m) \/ DetachPicture(m) \/ SweepList(m) \/ SweepPicture(m)
       \/ AskBegin(m) \/ AskCommit(m) \/ CancelMessage(m) \/ LockLost(m)
       \/ PrepareAction(m) \/ ConfirmationExpires(m) \/ RejectAction(m)
       \/ \E x \in DraftTxs, k \in 1 .. MaxPrepares : ApplyBegin(x, m, k)
       \/ \E w \in AgentWorkers :
            \/ TakeMessage(w, m) \/ FailMessage(w, m) \/ StartMessage(w, m) \/ NextStep(w, m)
            \/ StreamPartial(w, m) \/ ToolTurn(w, m) \/ FinalTurn(w, m) \/ DeferMessage(w, m)
            \/ \E b \in BOOLEAN : CompleteMessage(w, m, b)
  \/ \E w \in AgentWorkers : AgentCrash(w)
  \/ \E x \in DraftTxs, b \in BOOLEAN : ApplyEnd(x, b)
  \/ DeleteConversation \/ SwitchGate \/ WorldChange

AssistSpec == AssistInit /\ [][AssistNext]_assistVars

-----------------------------------------------------------------------------
(* Properties *)

\* A question is answered once and whole: even if the event is delivered again, or the
\* lock is lost and two runs write into the same message, its drafts are proposed once,
\* and a failed message shows no part of an answer (completeMessage, failMessage).
AnsweredOnce ==
  \A m \in Questions :
    /\ answers[m] = IF msg[m].st = "complete" THEN 1 ELSE 0
    /\ msg[m].text = "whole" <=> msg[m].st = "complete"
    /\ msg[m].st = "failed" => msg[m].text = "none"

\* What was answered or canceled stays so: neither a late turn of the model nor another
\* delivery writes into it (writePartial, failMessage, startMessage).
SettledMessageStays ==
  [][\A m \in Questions : msg[m].st \in Settled =>
       msg'[m].st = msg[m].st /\ msg'[m].text = msg[m].text]_assistVars

\* A draft is executed at most once, and only what the user was shown last and confirmed,
\* on the state it was shown for (prepareAgentAction, applyAgentAction).
ExecutedAsConfirmed ==
  /\ \A m \in Questions : executed[m] = IF action[m].st = "applied" THEN 1 ELSE 0
  /\ \A x \in DraftTxs : \A m \in draftTx[x].on :
       /\ action[m].st = "prepared" /\ action[m].token = draftTx[x].token
       /\ action[m].shown = draftTx[x].saw

\* Runs that lose their lock, cancellations and confirmations (agentjob/message.go,
\* agent_action_handlers.go): one whole answer to a question, and a draft is executed as confirmed.
AssistantInv == AssistTypeOK /\ AnsweredOnce /\ ExecutedAsConfirmed
=============================================================================
