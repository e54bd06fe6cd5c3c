------------------------------ MODULE Sessions ------------------------------
(***************************************************************************)
(* The credentials of one account: registration, login, refresh tokens and  *)
(* their families in Redis (internal/auth), and the changes of the account  *)
(* that must end its sessions.                                              *)
(*                                                                          *)
(* A Lua script or a pipeline of Redis is one step; a database transaction  *)
(* is one step; everything between them interleaves.  Expiry only removes   *)
(* what a client would otherwise use, and is not modelled.                  *)
(***************************************************************************)
EXTENDS Naturals, FiniteSets

CONSTANTS
  Tokens,          \* refresh tokens, numbered as they are issued (bound)
  Families,        \* session ids, numbered as they are created (bound)
  Calls,           \* calls in progress
  Tickets,         \* registration tickets
  Roles,           \* roles the account may have
  MaxAccountChanges       \* bound on changes of the account

ASSUME SessionsAssumption ==
  /\ Tokens \subseteq Nat \ {0} /\ Families \subseteq Nat \ {0}
  /\ {"student", "class_admin"} \subseteq Roles
  /\ MaxAccountChanges \in Nat

VARIABLES
  acct,            \* the app_user row and its roster entry
  refresh,         \* auth:refresh:<hash>, the identity a token stands for
  famOf,           \* the family a token names, 0 before it is issued
  family,          \* auth:family:<id>, the current token; 0 if the key is gone
  index,           \* auth:user:<id>:sessions
  claims,          \* access tokens handed out
  ticket, reset,   \* auth:register; the account version in auth:reset, 0 if gone
  call,
  ended,           \* families that were logged out, revoked or seen replayed
  edits

sessVars == <<acct, refresh, famOf, family, index, claims, ticket, reset, call,
              ended, edits>>
redisVars == <<refresh, famOf, family, index, ended>>

Versions == 1 .. (MaxAccountChanges + 1)
NoFamily == 0
NoToken == 0

Account == [role : Roles, active : BOOLEAN, pw : 0 .. (MaxAccountChanges + 1), tv : Versions,
            registered : BOOLEAN]

NoIdentity == [role |-> "student", tv |-> 0]
Identity == [role : Roles, tv : {0} \cup Versions]

\* at: where the call is; except: the session a change spares; todo: sessions still to
\* be revoked; hash: the current token as it was read.
Call == [at : {"idle", "issue", "rotated", "hook", "list", "delete"}, id : Identity,
         token : {NoToken} \cup Tokens, except : {NoFamily} \cup Families,
         todo : SUBSET Families, sid : {NoFamily} \cup Families]

IdleCall == [at |-> "idle", id |-> NoIdentity, token |-> NoToken, except |-> NoFamily,
             todo |-> {}, sid |-> NoFamily]

SessTypeOK ==
  /\ acct \in Account
  /\ refresh \in [Tokens -> Identity]
  /\ famOf \in [Tokens -> {NoFamily} \cup Families]
  /\ family \in [Families -> {NoToken} \cup Tokens]
  /\ index \in SUBSET Families
  /\ claims \in SUBSET [sid : Families, id : Identity]
  /\ ticket \in [Tickets -> Roles \cup {"none"}]
  /\ reset \in {0} \cup Versions
  /\ call \in [Calls -> Call]
  /\ ended \in SUBSET Families
  /\ edits \in 0 .. MaxAccountChanges

SessInit ==
  /\ acct = [role |-> "student", active |-> TRUE, pw |-> 1, tv |-> 1, registered |-> TRUE]
  /\ refresh = [t \in Tokens |-> NoIdentity]
  /\ famOf = [t \in Tokens |-> NoFamily]
  /\ family = [f \in Families |-> NoToken]
  /\ index = {} /\ claims = {}
  /\ ticket = [k \in Tickets |-> "none"]
  /\ reset = 0
  /\ call = [c \in Calls |-> IdleCall]
  /\ ended = {} /\ edits = 0

Current == [role |-> acct.role, tv |-> acct.tv]
CallBegin(c, rec) == call[c].at = "idle" /\ call' = [call EXCEPT ![c] = rec]
CallTo(c, rec) == call' = [call EXCEPT ![c] = rec]
NextToken == {t \in Tokens : famOf[t] = NoFamily /\ \A u \in Tokens : u < t => famOf[u] # NoFamily}
NextFamily == {f \in Families : \A g \in Families :
                 (\E t \in Tokens : famOf[t] = g) <=> g < f}
Usable(f) == family[f] # NoToken /\ refresh[family[f]] # NoIdentity

-----------------------------------------------------------------------------
(* Opening a session *)

\* Login up to the UPDATE of last_login_at: the password is right, the account active.
LoginVerify(c) ==
  /\ acct.pw # 0 /\ acct.active
  /\ CallBegin(c, [IdleCall EXCEPT !.at = "issue", !.id = Current])
  /\ UNCHANGED <<acct, redisVars, claims, ticket, reset, edits>>

\* issueSession: SessionStore.Create and an access token of the same session.
IssueSession(c) ==
  /\ call[c].at = "issue"
  /\ \E t \in NextToken, f \in NextFamily :
       /\ refresh' = [refresh EXCEPT ![t] = call[c].id]
       /\ famOf' = [famOf EXCEPT ![t] = f]
       /\ family' = [family EXCEPT ![f] = t]
       /\ index' = index \cup {f}
       /\ claims' = claims \cup {[sid |-> f, id |-> call[c].id]}
  /\ CallTo(c, IdleCall)
  /\ UNCHANGED <<acct, ticket, reset, ended, edits>>

\* RegisterCheck: a ticket remembers the role of the roster entry.
RegisterCheck(k) ==
  /\ ~acct.registered
  /\ ticket' = [ticket EXCEPT ![k] = acct.role]
  /\ UNCHANGED <<acct, redisVars, claims, reset, call, edits>>

Edit == edits < MaxAccountChanges /\ edits' = edits + 1

\* RegisterComplete: activate locks the roster entry and sets a password only where
\* there is none.  Deleting the ticket afterwards may fail.
RegisterComplete(c, k) ==
  /\ ticket[k] # "none" /\ ticket[k] = acct.role
  /\ ~acct.registered /\ acct.active /\ acct.pw = 0
  /\ Edit
  /\ acct' = [acct EXCEPT !.pw = edits + 2, !.tv = @ + 1, !.registered = TRUE]
  /\ CallBegin(c, [IdleCall EXCEPT !.at = "issue",
                                   !.id = [role |-> acct.role, tv |-> acct.tv + 1]])
  /\ \/ ticket' = [ticket EXCEPT ![k] = "none"]
     \/ UNCHANGED ticket
  /\ UNCHANGED <<redisVars, claims, reset>>

-----------------------------------------------------------------------------
(* Refresh tokens *)

\* What both scripts delete: the family's current token, the one supplied, the family.
Dropped(t) ==
  /\ refresh' = [u \in Tokens |-> IF u = t \/ u = family[famOf[t]] THEN NoIdentity
                                                                   ELSE refresh[u]]
  /\ family' = [family EXCEPT ![famOf[t]] = NoToken]
  /\ ended' = ended \cup {famOf[t]}

\* A slip: the script does not compare the token with the family's current one.
TrustToken(t) == refresh[t] # NoIdentity

\* rotateScript: the token is stored and the family's current one.
IsCurrentToken(t) == refresh[t] # NoIdentity /\ family[famOf[t]] = t

\* rotateScript for a token that is: one new token takes its place.
Rotate(c, t) ==
  /\ famOf[t] # NoFamily /\ IsCurrentToken(t)
  /\ \E n \in NextToken :
       /\ refresh' = [refresh EXCEPT ![t] = NoIdentity, ![n] = refresh[t]]
       /\ famOf' = [famOf EXCEPT ![n] = famOf[t]]
       /\ family' = [family EXCEPT ![famOf[t]] = n]
       /\ CallBegin(c, [IdleCall EXCEPT !.at = "rotated", !.token = n, !.id = refresh[t]])
  /\ index' = index \cup {famOf[t]}
  /\ UNCHANGED <<acct, claims, ticket, reset, ended, edits>>

\* rotateScript for one that is not: the signature proves a replay, which ends the family.
RotateReplay(t) ==
  /\ famOf[t] # NoFamily /\ ~IsCurrentToken(t)
  /\ Dropped(t)
  /\ UNCHANGED <<acct, famOf, index, claims, ticket, reset, call, edits>>

\* A slip: the version of the account is not compared.
SameRole(id) == acct.active /\ id.role = acct.role

\* identityIsCurrent
IdentityIsCurrent(id) == acct.active /\ id = Current

\* Refresh after the rotation: look the account up, hand out an access token or revoke
\* what was just rotated.
RefreshCheck(c) ==
  /\ call[c].at = "rotated"
  /\ LET t == call[c].token
     IN \/ /\ IdentityIsCurrent(call[c].id)
           /\ claims' = claims \cup {[sid |-> famOf[t], id |-> Current]}
           /\ UNCHANGED redisVars
        \/ /\ ~IdentityIsCurrent(call[c].id)
           /\ Dropped(t)
           /\ index' = index \ {famOf[t]}
           /\ UNCHANGED <<famOf, claims>>
  /\ CallTo(c, IdleCall)
  /\ UNCHANGED <<acct, ticket, reset, edits>>

\* Logout with any token of the family that was ever issued (Revoke).
Logout(t) ==
  /\ famOf[t] # NoFamily
  /\ Dropped(t)
  /\ index' = index \ {famOf[t]}
  /\ UNCHANGED <<acct, famOf, claims, ticket, reset, call, edits>>

-----------------------------------------------------------------------------
(* RevokeUser, run after the commit of a change; the hook may not run to its end *)

RevokeList(c) ==
  /\ call[c].at = "hook"
  /\ CallTo(c, [call[c] EXCEPT !.at = "list", !.todo = index \ {call[c].except}])
  /\ UNCHANGED <<acct, redisVars, claims, ticket, reset, edits>>

\* A slip: the entry of the index goes before the session does.
UnindexFirst(c) ==
  /\ call[c].at = "list"
  /\ \E f \in call[c].todo :
       /\ CallTo(c, [call[c] EXCEPT !.at = "delete", !.sid = f, !.token = family[f],
                                    !.todo = @ \ {f}])
       /\ index' = index \ {f}
  /\ UNCHANGED <<acct, refresh, famOf, family, ended, claims, ticket, reset, edits>>

\* GET of the family's current token.
RevokeRead(c) ==
  /\ call[c].at = "list"
  /\ \E f \in call[c].todo :
       CallTo(c, [call[c] EXCEPT !.at = "delete", !.sid = f, !.token = family[f],
                                 !.todo = @ \ {f}])
  /\ UNCHANGED <<acct, redisVars, claims, ticket, reset, edits>>

\* The pipeline: that token, the family and its entry in the index.
RevokeDelete(c) ==
  /\ call[c].at = "delete"
  /\ refresh' = [t \in Tokens |-> IF t = call[c].token THEN NoIdentity ELSE refresh[t]]
  /\ family' = [family EXCEPT ![call[c].sid] = NoToken]
  /\ index' = index \ {call[c].sid}
  /\ ended' = ended \cup {call[c].sid}
  /\ CallTo(c, [call[c] EXCEPT !.at = "list", !.sid = NoFamily, !.token = NoToken])
  /\ UNCHANGED <<acct, famOf, claims, ticket, reset, edits>>

\* Done, or Redis failed: the hook's error is only logged; a call may also just die.
CallEnd(c) ==
  /\ call[c].at # "idle"
  /\ CallTo(c, IdleCall)
  /\ UNCHANGED <<acct, redisVars, claims, ticket, reset, edits>>

-----------------------------------------------------------------------------
(* Changes of the account *)

\* authenticate and validateActorState
Admitted(cl) == cl \in claims /\ acct.active /\ cl.id = Current

Hook(c, f) == CallBegin(c, [IdleCall EXCEPT !.at = "hook", !.except = f])

\* changePassword keeps the version, so that the session it comes from lives on.
ChangePassword(c) ==
  /\ \E cl \in claims : Admitted(cl) /\ Hook(c, cl.sid)
  /\ acct.pw # 0
  /\ Edit
  /\ acct' = [acct EXCEPT !.pw = edits + 2]
  /\ UNCHANGED <<redisVars, claims, ticket, reset>>

\* One link is out at a time; an earlier one that is not used changes nothing.
ForgotPassword ==
  /\ acct.active /\ acct.pw # 0
  /\ reset' = acct.tv
  /\ UNCHANGED <<acct, redisVars, claims, ticket, call, edits>>

\* ResetPassword: GETDEL, then an UPDATE of the version the link was made for.
ResetPassword(c) ==
  /\ reset # 0
  /\ reset' = 0
  /\ \/ /\ reset = acct.tv /\ acct.pw # 0
        /\ Edit
        /\ acct' = [acct EXCEPT !.pw = edits + 2, !.tv = @ + 1]
        /\ Hook(c, NoFamily)
     \/ /\ reset # acct.tv \/ acct.pw = 0
        /\ UNCHANGED <<acct, call, edits>>
  /\ UNCHANGED <<redisVars, claims, ticket>>

\* A change by an administrator: every one moves the version and ends every session.
Changed(c, new) ==
  /\ Edit
  /\ acct' = new
  /\ Hook(c, NoFamily)
  /\ UNCHANGED <<redisVars, claims, ticket, reset>>

ResetUserPassword(c) ==
  /\ acct.role \in {"student", "group"} /\ acct.active /\ acct.pw # 0
  /\ Changed(c, [acct EXCEPT !.pw = 0, !.tv = @ + 1, !.registered = FALSE])

UpdateUserRole(c, r) == Changed(c, [acct EXCEPT !.role = r, !.tv = @ + 1])

UpdateUserStatus(c, s) == Changed(c, [acct EXCEPT !.active = s, !.tv = @ + 1])

\* ops_appoint_class_admin does not touch the sessions: only the version ends them.
AppointTenantAdmin ==
  /\ acct.role # "class_admin" \/ ~acct.active
  /\ Edit
  /\ acct' = [acct EXCEPT !.role = "class_admin", !.active = TRUE, !.tv = @ + 1]
  /\ UNCHANGED <<redisVars, claims, ticket, reset, call>>

SessNext ==
  \/ \E c \in Calls : \/ LoginVerify(c) \/ IssueSession(c)
                      \/ RefreshCheck(c)
                      \/ RevokeList(c) \/ RevokeRead(c) \/ RevokeDelete(c) \/ CallEnd(c)
                      \/ ChangePassword(c) \/ ResetPassword(c) \/ ResetUserPassword(c)
                      \/ \E r \in Roles : UpdateUserRole(c, r)
                      \/ \E s \in BOOLEAN : UpdateUserStatus(c, s)
                      \/ \E k \in Tickets : RegisterComplete(c, k)
                      \/ \E t \in Tokens : Rotate(c, t)
  \/ \E t \in Tokens : RotateReplay(t) \/ Logout(t)
  \/ \E k \in Tickets : RegisterCheck(k)
  \/ ForgotPassword \/ AppointTenantAdmin

SessSpec == SessInit /\ [][SessNext]_sessVars

-----------------------------------------------------------------------------
(* Properties *)

\* A family that was logged out, revoked or seen replayed never has a usable token again,
\* although a rotation may be under way while it ends (rotateScript, RevokeUser).
EndedStaysEnded == \A f \in ended : ~Usable(f)

\* The user's index lists every usable session, so that a revocation misses none.
IndexCovers == \A f \in Families : Usable(f) => f \in index

\* A session never outlives a change of the account's version: whatever access tokens
\* its rotations yield carry the version and role it was opened with (Refresh).
SessionKeepsIdentity ==
  \A a, b \in claims : a.sid = b.sid => a.id = b.id

\* Refresh, logout, revocation and changes of the account (auth/session.go, auth/service.go):
\* what was ended stays ended, a revocation misses no session, and no session changes its identity.
SessionInv == SessTypeOK /\ EndedStaysEnded /\ IndexCovers /\ SessionKeepsIdentity
=============================================================================
