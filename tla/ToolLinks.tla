------------------------------ MODULE ToolLinks ------------------------------
(***************************************************************************)
(* Links by which an external tool acts for one account (internal/api/      *)
(* mcp_*.go): the account's owner opens and revokes links, a call names an  *)
(* operation by an idempotency key, and an operation that needs approval is *)
(* prepared, decided by the owner on the web and then committed.  A call    *)
(* authenticates outside its transaction and holds the link's row, and the  *)
(* account's and the class's rows shared, from its validation to its end.   *)
(* It runs REPEATABLE READ, or SERIALIZABLE where approval is needed: a call *)
(* that locks or updates a row which changed after its snapshot fails and   *)
(* is answered with an error (AnswerCall).                                  *)
(***************************************************************************)
EXTENDS Naturals, FiniteSets

CONSTANTS
  Links, Keys,     \* links; idempotency keys
  ToolTxs,         \* requests in progress
  Requests,        \* contents of a call
  MaxOwnerEdits,   \* bound on changes of the account and of the class
  MaxData          \* bound on changes of the class's data

ASSUME ToolLinksAssumption == Requests # {} /\ MaxOwnerEdits \in Nat /\ MaxData \in Nat

VARIABLES
  owner,           \* app_user: password, token_version, status; class: archived
  link,            \* agent_connection
  operation,       \* agent_operation, by link and key
  data,            \* what mcpState fingerprints
  applied,         \* how often the handler of an operation took effect
  ttx,
  ownerEdits

toolVars == <<owner, link, operation, data, applied, ttx, ownerEdits>>

Tools == {"direct", "approval"}        \* mcpToolSpec.Approval
CallModes == {"execute", "prepare", "commit"}

NoLink == [st |-> "none", tv |-> 0, pw |-> 0, epoch |-> 0]
NoOperation == [st |-> "none", tool |-> "direct", args |-> CHOOSE r \in Requests : TRUE,
                seen |-> 0, fresh |-> TRUE, decided |-> FALSE]
IdleToolTx == [at |-> "idle", link |-> {}, key |-> {}, tool |-> "direct", mode |-> "execute",
               args |-> CHOOSE r \in Requests : TRUE, tv |-> 0, pw |-> 0]

ToolTypeOK ==
  /\ owner \in [pw : Nat, tv : Nat, active : BOOLEAN, archived : BOOLEAN, epoch : Nat]
  /\ link \in [Links -> [st : {"none", "live", "revoked"}, tv : Nat, pw : Nat, epoch : Nat]]
  /\ operation \in [Links \X Keys ->
       [st : {"none", "pending", "approved", "rejected", "applied"}, tool : Tools,
        args : Requests, seen : 0 .. MaxData, fresh : BOOLEAN, decided : BOOLEAN]]
  /\ data \in 0 .. MaxData
  /\ applied \in [Links \X Keys -> Nat]
  /\ ttx \in [ToolTxs -> [at : {"idle", "create", "auth", "locked", "checked"},
                          link : SUBSET Links, key : SUBSET Keys, tool : Tools, mode : CallModes,
                          args : Requests, tv : Nat, pw : Nat]]
  /\ ownerEdits \in 0 .. MaxOwnerEdits

ToolInit ==
  /\ owner = [pw |-> 0, tv |-> 0, active |-> TRUE, archived |-> FALSE, epoch |-> 0]
  /\ link = [l \in Links |-> NoLink]
  /\ operation = [o \in Links \X Keys |-> NoOperation]
  /\ data = 0
  /\ applied = [o \in Links \X Keys |-> 0]
  /\ ttx = [x \in ToolTxs |-> IdleToolTx]
  /\ ownerEdits = 0

InCall(x) == ttx[x].at \in {"locked", "checked"}
LinkFree(l) == \A x \in ToolTxs : InCall(x) => l \notin ttx[x].link
\* A slip: validateMCPConnection takes no FOR SHARE.
OwnerUnlocked == TRUE

OwnerFree == \A x \in ToolTxs : ~InCall(x)
ToolTo(x, rec) == ttx' = [ttx EXCEPT ![x] = rec]
ToolEnd(x) == ToolTo(x, IdleToolTx)

\* WHERE clause of mcp_authenticate
Permitted(l) ==
  /\ link[l].st = "live"
  /\ owner.active /\ ~owner.archived /\ owner.tv = link[l].tv

-----------------------------------------------------------------------------
(* The owner *)

\* createAgentConnection, authenticated; the password typed may be an old one.
CreateBegin(x) ==
  /\ ttx[x].at = "idle"
  /\ owner.active /\ ~owner.archived
  /\ \E p \in 0 .. owner.pw :
       ToolTo(x, [IdleToolTx EXCEPT !.at = "create", !.tv = owner.tv, !.pw = p])
  /\ UNCHANGED <<owner, link, operation, data, applied, ownerEdits>>

\* Under FOR UPDATE of the account's row.
PasswordMatches(x) == ttx[x].pw = owner.pw

CreateLink(x, l) ==
  /\ ttx[x].at = "create"
  /\ link[l] = NoLink
  /\ OwnerFree /\ PasswordMatches(x)
  /\ link' = [link EXCEPT ![l] = [st |-> "live", tv |-> ttx[x].tv, pw |-> ttx[x].pw,
                                  epoch |-> owner.epoch]]
  /\ ToolEnd(x)
  /\ UNCHANGED <<owner, operation, data, applied, ownerEdits>>

\* revokeAgentConnection, and the end of a link's time.
RevokeLink(l) ==
  /\ link[l].st = "live" /\ LinkFree(l)
  /\ link' = [link EXCEPT ![l].st = "revoked"]
  /\ UNCHANGED <<owner, operation, data, applied, ttx, ownerEdits>>

\* A slip: no trigger.
KeepLinks == link

\* revoke_changed_agent_connections
RevokedLinks == [l \in Links |-> IF link[l].st = "live" THEN [link[l] EXCEPT !.st = "revoked"]
                                                        ELSE link[l]]

OwnerEdit ==
  /\ ownerEdits < MaxOwnerEdits
  /\ ownerEdits' = ownerEdits + 1
  /\ OwnerFree
  /\ UNCHANGED <<operation, data, applied, ttx>>

\* A new password; only changePassword leaves the version alone.
OwnerPassword ==
  /\ OwnerEdit
  /\ \E bump \in {0, 1} : owner' = [owner EXCEPT !.pw = @ + 1, !.tv = @ + bump, !.epoch = @ + 1]
  /\ link' = RevokedLinks

\* A change of role or status, both of which move the version.
OwnerStatus ==
  /\ OwnerEdit
  /\ \E s \in BOOLEAN : owner' = [owner EXCEPT !.active = s, !.tv = @ + 1, !.epoch = @ + 1]
  /\ link' = RevokedLinks

\* The class is archived, which revokes, or opened again, which restores nothing.
ClassArchive ==
  /\ OwnerEdit
  /\ owner' = [owner EXCEPT !.archived = ~@, !.epoch = IF owner.archived THEN @ ELSE @ + 1]
  /\ link' = IF owner.archived THEN link ELSE RevokedLinks

\* decideAgentOperation locks the link and the operation.
DecideOperation(l, k, approve) ==
  /\ link[l].st = "live" /\ LinkFree(l)
  /\ operation[<<l, k>>].st = "pending" /\ operation[<<l, k>>].fresh
  /\ operation' = [operation EXCEPT ![<<l, k>>].st = IF approve THEN "approved" ELSE "rejected",
                                    ![<<l, k>>].decided = approve]
  /\ UNCHANGED <<owner, link, data, applied, ttx, ownerEdits>>

\* A prepared operation is good for ten minutes.
OperationExpires(l, k) ==
  /\ operation[<<l, k>>].st \in {"pending", "approved", "rejected"} /\ operation[<<l, k>>].fresh
  /\ operation' = [operation EXCEPT ![<<l, k>>].fresh = FALSE]
  /\ UNCHANGED <<owner, link, data, applied, ttx, ownerEdits>>

\* Any other request that changes what mcpState reads.
OtherChange ==
  /\ data < MaxData
  /\ data' = data + 1
  /\ UNCHANGED <<owner, link, operation, applied, ttx, ownerEdits>>

-----------------------------------------------------------------------------
(* Calls *)

\* authenticateMCP; a retry repeats the key and the content, a careless client only the
\* key.  operations.commit takes its tool and content from the stored operation.
Authenticate(x, l, k) ==
  /\ ttx[x].at = "idle"
  /\ Permitted(l)
  /\ \E a \in Requests, t \in Tools, m \in CallModes :
       /\ m = "execute" <=> t = "direct"
       /\ m = "commit" => /\ operation[<<l, k>>].st # "none"
                          /\ t = operation[<<l, k>>].tool /\ a = operation[<<l, k>>].args
       /\ ToolTo(x, [IdleToolTx EXCEPT !.at = "auth", !.link = {l}, !.key = {k}, !.tool = t,
                                       !.mode = m, !.args = a, !.tv = link[l].tv])
  /\ UNCHANGED <<owner, link, operation, data, applied, ownerEdits>>

\* A slip: the connection is read again without locks.
ValidateUnlocked(x, l) == Permitted(l)

\* validateMCPConnection: FOR UPDATE of the link, FOR SHARE of account and class.
Validated(x, l) == Permitted(l) /\ LinkFree(l) /\ link[l].tv = ttx[x].tv

ValidateCall(x) ==
  /\ ttx[x].at = "auth"
  /\ \E l \in ttx[x].link : Validated(x, l)
  /\ ToolTo(x, [ttx[x] EXCEPT !.at = "locked"])
  /\ UNCHANGED <<owner, link, operation, data, applied, ownerEdits>>

Named(x, o) == o \in ttx[x].link \X ttx[x].key
SameRequest(x, o) == operation[o].tool = ttx[x].tool /\ operation[o].args = ttx[x].args

Prepared(x) == [NoOperation EXCEPT !.st = "pending", !.tool = ttx[x].tool,
                                   !.args = ttx[x].args, !.seen = data]

\* Prepare: the first call with this key records what it would do.
PrepareOperation(x) ==
  /\ ttx[x].at = "locked" /\ ttx[x].mode = "prepare"
  /\ \E o \in Links \X Keys :
       /\ Named(x, o) /\ operation[o].st = "none"
       /\ operation' = [operation EXCEPT ![o] = Prepared(x)]
  /\ ToolEnd(x)
  /\ UNCHANGED <<owner, link, data, applied, ownerEdits>>

\* Commit: approved, not expired, and nothing has changed since it was prepared.
Committable(x, o) ==
  /\ operation[o].st = "approved" /\ SameRequest(x, o)
  /\ operation[o].fresh /\ operation[o].seen = data

CheckOperation(x) ==
  /\ ttx[x].at = "locked"
  /\ \/ /\ ttx[x].mode = "commit"
        /\ \E o \in Links \X Keys : Named(x, o) /\ Committable(x, o)
     \/ /\ ttx[x].mode = "execute"
        /\ \E o \in Links \X Keys : Named(x, o) /\ operation[o].st = "none"
  /\ ToolTo(x, [ttx[x] EXCEPT !.at = "checked"])
  /\ UNCHANGED <<owner, link, operation, data, applied, ownerEdits>>

\* The business handler, the row "applied" and the commit.
ApplyOperation(x) ==
  /\ ttx[x].at = "checked" /\ data < MaxData
  /\ \E o \in Links \X Keys :
       /\ Named(x, o)
       /\ operation' = [operation EXCEPT ![o].st = "applied", ![o].tool = ttx[x].tool,
                                         ![o].args = ttx[x].args]
       /\ applied' = [applied EXCEPT ![o] = @ + 1]
  /\ data' = data + 1
  /\ ToolEnd(x)
  /\ UNCHANGED <<owner, link, ownerEdits>>

\* Every other answer changes nothing: a replayed result, a conflict, an expired or
\* undecided operation, a handler that fails, a link that no longer stands.
AnswerCall(x) ==
  /\ ttx[x].at # "idle"
  /\ ToolEnd(x)
  /\ UNCHANGED <<owner, link, operation, data, applied, ownerEdits>>

ToolNext ==
  \/ \E x \in ToolTxs : \/ CreateBegin(x) \/ (\E l \in Links : CreateLink(x, l))
                        \/ (\E l \in Links, k \in Keys : Authenticate(x, l, k))
                        \/ ValidateCall(x) \/ PrepareOperation(x) \/ CheckOperation(x)
                        \/ ApplyOperation(x) \/ AnswerCall(x)
  \/ \E l \in Links : RevokeLink(l)
  \/ \E l \in Links, k \in Keys : \/ \E b \in BOOLEAN : DecideOperation(l, k, b)
                                  \/ OperationExpires(l, k)
  \/ OwnerPassword \/ OwnerStatus \/ ClassArchive \/ OtherChange

ToolSpec == ToolInit /\ [][ToolNext]_toolVars

-----------------------------------------------------------------------------
(* Properties *)

\* However often a client repeats a key, the operation takes effect at most once, and one
\* that needs approval only after the owner approved it (executeMCPOperation).
AppliedOnce ==
  \A o \in Links \X Keys :
    /\ applied[o] = IF operation[o].st = "applied" THEN 1 ELSE 0
    /\ operation[o].st = "applied" /\ operation[o].tool = "approval" => operation[o].decided

\* "Keep revocation, password reset and class archival ordered with the write": while a
\* call runs, its link stands (validateMCPConnection).
CallHasLink == \A x \in ToolTxs : InCall(x) => \A l \in ttx[x].link : Permitted(l)

\* A link that still works was opened with today's password, and neither the account nor
\* the class changed since: "Revocation persists even if an account/class is later enabled
\* again" (migration 000063).
LinkFollowsOwner ==
  \A l \in Links : Permitted(l) => link[l].pw = owner.pw /\ link[l].epoch = owner.epoch

\* Calls of a tool link (mcp_operations.go, mcp_transport.go): a key takes effect once and with the
\* approval it needs, under a link that stands and is as old as the account's last change at most.
ToolLinkInv == ToolTypeOK /\ AppliedOnce /\ CallHasLink /\ LinkFollowsOwner
=============================================================================
