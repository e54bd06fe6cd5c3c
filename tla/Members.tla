------------------------------- MODULE Members -------------------------------
(***************************************************************************)
(* The members of a class: roster, roles, account status and the deputy who *)
(* rules where an administrator is a party.  Requests run as transactions   *)
(* at READ COMMITTED that lock the rows they name; a ruling holds its share *)
(* locks from the check of the ruler's authority to the commit.             *)
(***************************************************************************)
EXTENDS Naturals, FiniteSets

CONSTANTS
  Users,           \* people of the class
  MemberTxs,       \* requests in progress
  ImportRoles      \* roles in the files that are imported

VARIABLES
  member,          \* whitelist and app_user of each person
  mreq             \* what each request does

memberVars == <<member, mreq>>

MemberRoles == {"student", "group", "class_admin"}
ASSUME MembersAssumption == ImportRoles \subseteq MemberRoles
MemberRow == [listed : MemberRoles \cup {"none"},   \* role in the roster
              role : MemberRoles \cup {"none"},     \* role of the account, none before it exists
              active : BOOLEAN, password : BOOLEAN, deputy : BOOLEAN]

NewRow == [listed |-> "none", role |-> "none", active |-> TRUE, password |-> FALSE,
           deputy |-> FALSE]

\* A request holds the row of "who" exclusively, the rows of "reads" shared.
MemberReq == [at : {"idle", "role", "status", "ruling"}, who : SUBSET Users,
              reads : SUBSET Users, role : MemberRoles, active : BOOLEAN,
              by : SUBSET Users, on : SUBSET Users]
IdleReq == [at |-> "idle", who |-> {}, reads |-> {}, role |-> "student", active |-> TRUE,
            by |-> {}, on |-> {}]

MemberTypeOK ==
  /\ member \in [Users -> MemberRow]
  /\ mreq \in [MemberTxs -> MemberReq]

\* Two administrators are appointed and registered; others are in the group or not listed.
MemberInit ==
  /\ \E admins, others \in SUBSET Users :
       /\ Cardinality(admins) = 2 /\ admins \cap others = {}
       /\ member = [u \in Users |->
            IF u \in others THEN NewRow
            ELSE LET r == IF u \in admins THEN "class_admin" ELSE "group"
                 IN [listed |-> r, role |-> r, active |-> TRUE, password |-> TRUE,
                     deputy |-> FALSE]]
  /\ mreq = [x \in MemberTxs |-> IdleReq]

ActiveAdmins == {u \in Users : member[u].role = "class_admin" /\ member[u].active}
HeldBy(x, u) == u \in mreq[x].who \cup mreq[x].reads
RowFree(u) == \A x \in MemberTxs : ~HeldBy(x, u)
ReqBegin(x, rec) == mreq[x].at = "idle" /\ mreq' = [mreq EXCEPT ![x] = rec]
ReqEnd(x) == mreq' = [mreq EXCEPT ![x] = IdleReq]

\* A slip: the trigger is missing, and so is the CHECK.
KeepDeputy(row) == row

\* clear_ineligible_class_deputy
ClearDeputy(row) ==
  IF row.role # "group" \/ ~row.active THEN [row EXCEPT !.deputy = FALSE] ELSE row

-----------------------------------------------------------------------------
(* The roster *)

AddWhitelist(u) ==
  /\ member[u].listed = "none"
  /\ member' = [member EXCEPT ![u].listed = "student"]
  /\ UNCHANGED mreq

\* importWhitelist: entries of people who are not registered may change.
ImportWhitelist(u, r) ==
  /\ ~member[u].password
  /\ RowFree(u)
  /\ member' = [member EXCEPT ![u].listed = r]
  /\ UNCHANGED mreq

\* deleteWhitelist: not of a registered person, nor of one who has an account.
DeleteWhitelist(u) ==
  /\ member[u].listed # "none" /\ ~member[u].password
  /\ member[u].role = "none"
  /\ member' = [member EXCEPT ![u].listed = "none"]
  /\ UNCHANGED mreq

\* activate: an existing account keeps its role.
Activate(u) ==
  /\ member[u].listed # "none" /\ ~member[u].password
  /\ RowFree(u)
  /\ member[u].role # "none" => member[u].active
  /\ LET role == IF member[u].role = "none" THEN member[u].listed ELSE member[u].role
     IN member' = [member EXCEPT ![u] = [member[u] EXCEPT !.password = TRUE, !.role = role]]
  /\ UNCHANGED mreq

\* resetUserPasswords of every account that has one, or of one of them.
ResetPasswords(us) ==
  /\ us # {}
  /\ \A u \in us : /\ member[u].role \in {"student", "group"}
                   /\ member[u].active /\ member[u].password /\ RowFree(u)
  /\ member' = [u \in Users |-> IF u \in us THEN [member[u] EXCEPT !.password = FALSE]
                                            ELSE member[u]]
  /\ UNCHANGED mreq

-----------------------------------------------------------------------------
(* Roles and status *)

\* updateUserRole: the row is locked, the administrators are only counted.
RoleBegin(x, u, r) ==
  /\ member[u].role # "none" /\ RowFree(u)
  /\ member[u].role = "class_admin" /\ r # "class_admin" => Cardinality(ActiveAdmins) > 1
  /\ ReqBegin(x, [IdleReq EXCEPT !.at = "role", !.who = {u}, !.role = r])
  /\ UNCHANGED member

RoleCommit(x) ==
  /\ mreq[x].at = "role"
  /\ member' = [u \in Users |-> IF u \in mreq[x].who
                  THEN ClearDeputy([member[u] EXCEPT !.role = mreq[x].role,
                                                     !.listed = mreq[x].role])
                  ELSE member[u]]
  /\ ReqEnd(x)

\* updateUserStatus, by an administrator other than the member.
StatusBegin(x, u, a) ==
  /\ member[u].role # "none" /\ RowFree(u)
  /\ ActiveAdmins \ {u} # {}
  /\ member[u].role = "class_admin" /\ ~a => Cardinality(ActiveAdmins) > 1
  /\ ReqBegin(x, [IdleReq EXCEPT !.at = "status", !.who = {u}, !.active = a])
  /\ UNCHANGED member

StatusCommit(x) ==
  /\ mreq[x].at = "status"
  /\ member' = [u \in Users |-> IF u \in mreq[x].who
                  THEN ClearDeputy([member[u] EXCEPT !.active = mreq[x].active])
                  ELSE member[u]]
  /\ ReqEnd(x)

\* appointTenantAdmin
AppointAdmin(u) ==
  /\ RowFree(u)
  /\ LET role == IF member[u].role = "none" THEN "none" ELSE "class_admin"
     IN member' = [member EXCEPT ![u] =
          ClearDeputy([member[u] EXCEPT !.listed = "class_admin", !.active = TRUE, !.role = role])]
  /\ UNCHANGED mreq

-----------------------------------------------------------------------------
(* The deputy *)

Deputies == {u \in Users : member[u].deputy}

\* updateClassDeputy: appointments are serialized by the class row.
AppointDeputy(u) ==
  /\ member[u].role = "group" /\ member[u].active /\ member[u].password
  /\ RowFree(u) /\ \A v \in Deputies : RowFree(v)
  /\ member' = [v \in Users |-> [member[v] EXCEPT !.deputy = (v = u)]]
  /\ UNCHANGED mreq

DismissDeputy ==
  /\ Deputies # {} /\ \A v \in Deputies : RowFree(v)
  /\ member' = [v \in Users |-> [member[v] EXCEPT !.deputy = FALSE]]
  /\ UNCHANGED mreq

\* A slip: the rows are read and not locked.
ReadUnlocked(d, s) == {}

\* requireDeputy and authorizeAdjudication: FOR SHARE on the ruler and on the subject.
ShareLocks(d, s) == {d, s}

RulingBegin(x, d, s) ==
  /\ d # s
  /\ member[d].deputy /\ member[s].role = "class_admin"
  /\ \A y \in MemberTxs : {d, s} \cap mreq[y].who = {}
  /\ ReqBegin(x, [IdleReq EXCEPT !.at = "ruling", !.reads = ShareLocks(d, s),
                                 !.by = {d}, !.on = {s}])
  /\ UNCHANGED member

RulingCommit(x) ==
  /\ mreq[x].at = "ruling"
  /\ ReqEnd(x)
  /\ UNCHANGED member

MemberNext ==
  \/ \E u \in Users : \/ AddWhitelist(u) \/ DeleteWhitelist(u) \/ Activate(u)
                      \/ AppointAdmin(u) \/ AppointDeputy(u)
                      \/ \E r \in ImportRoles : ImportWhitelist(u, r)
  \/ \E us \in SUBSET Users : ResetPasswords(us)
  \/ DismissDeputy
  \/ \E x \in MemberTxs : \/ \E u \in Users, r \in MemberRoles : RoleBegin(x, u, r)
                          \/ \E u \in Users, a \in BOOLEAN : StatusBegin(x, u, a)
                          \/ \E d, s \in Users : RulingBegin(x, d, s)
                          \/ RoleCommit(x) \/ StatusCommit(x) \/ RulingCommit(x)

MemberSpec == MemberInit /\ [][MemberNext]_memberVars

-----------------------------------------------------------------------------
(* Properties *)

\* A class has at most one deputy, and only an active member of the group is one, whatever
\* role or status change comes in between (trigger and CHECK of migration 000047).
DeputyEligible ==
  /\ Cardinality(Deputies) <= 1
  /\ \A u \in Deputies : member[u].role = "group" /\ member[u].active

\* "A concurrent role change must not widen the deputy's authority halfway through a
\* transaction": until a ruling commits, its ruler is the deputy and its subject an
\* administrator (requireDeputy, authorizeAdjudication).
RulingKeepsScope ==
  \A x \in MemberTxs : /\ mreq[x].by \subseteq Deputies
                       /\ \A s \in mreq[x].on : member[s].role = "class_admin"

\* Role changes, appointments and rulings at once (roster_handlers.go, deputy_handlers.go,
\* deputy_adjudication.go): the deputy is one who may be, and a ruling keeps its authority to its end.
MemberInv == MemberTypeOK /\ DeputyEligible /\ RulingKeepsScope
=============================================================================
