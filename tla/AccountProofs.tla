---------------------------- MODULE AccountProofs ----------------------------
(***************************************************************************)
(* One account, for every number of addresses, requests, links, tokens,     *)
(* sessions, events and workers: one primary address, calls of a tool link  *)
(* under a link that stands, sessions that end for good, mail sent once.    *)
(***************************************************************************)
EXTENDS Sessions, ToolLinks, Emails, MailQueue, FiniteSetTheorems, TLAPS

-----------------------------------------------------------------------------
(* Addresses                                                               *)

\* A request to change the primary address holds the row of one address, which stays
\* verified as long as it does.
RowHeld ==
  \A x \in EmailTxs : etx[x].at # "idle" =>
    \E a \in Addresses : etx[x].row = {a} /\ addr[a] # "none"

OnePrimary ==
  /\ \A a, b \in Primaries : a = b
  /\ (\E a \in Addresses : addr[a] # "none") => Primaries # {}

EmailSound == EmailTypeOK /\ RowHeld /\ OnePrimary

-----------------------------------------------------------------------------
(* Tool links                                                              *)

\* A call is about one operation of one link, and has the link for itself.
CallAlone ==
  /\ \A x \in ToolTxs : ttx[x].at \in {"auth", "locked", "checked"} =>
       /\ \E l \in Links, k \in Keys : ttx[x].link = {l} /\ ttx[x].key = {k}
       /\ ttx[x].mode = "execute" <=> ttx[x].tool = "direct"
  /\ \A x, y \in ToolTxs, l \in Links :
       InCall(x) /\ InCall(y) /\ l \in ttx[x].link /\ l \in ttx[y].link => x = y

\* What a call found is what it writes over.
CheckStands ==
  \A x \in ToolTxs : ttx[x].at = "checked" =>
    \A o \in Links \X Keys : Named(x, o) =>
      \/ ttx[x].mode = "execute" /\ operation[o].st = "none"
      \/ ttx[x].mode = "commit" /\ operation[o].st = "approved"

OperationsSound ==
  \A o \in Links \X Keys :
    operation[o].st = "approved" => operation[o].decided

\* Every change of the account ends every link, so that one that lives is as old.
LiveLinks ==
  \A l \in Links : link[l].st = "live" => link[l].pw = owner.pw /\ link[l].epoch = owner.epoch

ToolSound ==
  /\ ToolTypeOK
  /\ CallAlone
  /\ CheckStands
  /\ OperationsSound
  /\ AppliedOnce
  /\ CallHasLink
  /\ LiveLinks

-----------------------------------------------------------------------------
(* Sessions                                                                *)

Opened(f) == \E t \in Tokens : famOf[t] = f

\* The current token of a family is one of its tokens, and the index lists the family.
FamiliesSound ==
  \A f \in Families : family[f] # NoToken =>
    /\ famOf[family[f]] = f
    /\ f \in index
    /\ f \notin ended

\* A family is never opened twice.
OpenedOnce ==
  /\ index \cup ended \subseteq {f \in Families : Opened(f)}
  /\ \A cl \in claims : Opened(cl.sid)
  /\ \A c \in Calls : /\ call[c].at \in {"list", "delete"} => \A f \in call[c].todo : Opened(f)
                      /\ call[c].at = "delete" => call[c].sid \in Families /\ Opened(call[c].sid)

\* What a session was opened with is what its tokens, and a rotation under way, stand for.
IdentityKept ==
  /\ \A a, b \in claims : a.sid = b.sid => a.id = b.id
  /\ \A t \in Tokens : refresh[t] # NoIdentity => [sid |-> famOf[t], id |-> refresh[t]] \in claims
  /\ \A c \in Calls : call[c].at = "rotated" =>
       /\ call[c].token \in Tokens
       /\ [sid |-> famOf[call[c].token], id |-> call[c].id] \in claims

\* Every change of the account moves its version by one at most.
VersionCounted == acct.tv <= edits + 1

SessionSound ==
  /\ SessTypeOK
  /\ FamiliesSound
  /\ OpenedOnce
  /\ IdentityKept
  /\ VersionCounted

LEMMA EmailStarts == EmailInit => EmailSound
BY EmailsAssumption DEF EmailInit, EmailSound, EmailTypeOK, RowHeld, OnePrimary, Primaries,
                        NoChallenge, IdleEmailTx

\* A step that leaves the addresses and the requests alone.
LEMMA ChallengeOnly ==
  ASSUME EmailSound, UNCHANGED <<addr, etx>>,
         challenge' \in [Codes -> [addr : Addresses \cup {"none"}, tries : 0 .. (MaxTries - 1)]]
  PROVE  EmailSound'
BY DEF EmailSound, EmailTypeOK, RowHeld, OnePrimary, Primaries

LEMMA WrongCodeKept ==
  ASSUME EmailSound, NEW k \in Codes, WrongCode(k)
  PROVE  EmailSound'
<1> DEFINE Challenge == [addr : Addresses \cup {"none"}, tries : 0 .. (MaxTries - 1)]
<1>1. NoChallenge \in Challenge
  BY EmailsAssumption DEF NoChallenge
<1>2. challenge \in [Codes -> Challenge] /\ challenge[k] \in Challenge
  BY DEF EmailSound, EmailTypeOK
<1>3. PICK c \in Challenge : c = challenge[k]
  BY <1>2
<1>4. challenge' = [challenge EXCEPT ![k] = IF c.tries + 1 >= MaxTries THEN NoChallenge
                                            ELSE [c EXCEPT !.tries = c.tries + 1]]
  BY <1>3 DEF WrongCode
<1>5. ASSUME c.tries + 1 < MaxTries
      PROVE  [c EXCEPT !.tries = c.tries + 1] \in Challenge
  <2>1. c.tries + 1 \in 0 .. (MaxTries - 1)
    BY <1>5, EmailsAssumption
  <2>2. \A n \in 0 .. (MaxTries - 1) : [c EXCEPT !.tries = n] \in Challenge
    OBVIOUS
  <2> QED
    BY <2>1, <2>2
<1>6. c.tries \in Nat
  BY EmailsAssumption
<1>7. challenge' \in [Codes -> Challenge]
  <2>1. CASE c.tries + 1 >= MaxTries
    BY <1>1, <1>2, <1>4, <2>1
  <2>2. CASE ~(c.tries + 1 >= MaxTries)
    <3>1. c.tries + 1 < MaxTries
      BY <1>6, <2>2, EmailsAssumption
    <3> QED
      BY <1>2, <1>4, <1>5, <2>2, <3>1
  <2> QED
    BY <2>1, <2>2
<1> QED
  BY <1>7, ChallengeOnly DEF WrongCode

LEMMA VerifyKept ==
  ASSUME EmailSound, NEW k \in Codes, VerifyAddedEmail(k)
  PROVE  EmailSound'
<1> USE DEF EmailSound, EmailTypeOK
<1>1. PICK a : /\ a = challenge[k].addr
               /\ addr[a] = "none"
               /\ addr' = [addr EXCEPT ![a] = IF Primaries = {} THEN "primary" ELSE "bound"]
  BY DEF VerifyAddedEmail
<1>t. NoChallenge \in [addr : Addresses \cup {"none"}, tries : 0 .. (MaxTries - 1)]
  BY EmailsAssumption DEF NoChallenge
<1>2. EmailTypeOK'
  <2>1. addr' \in [Addresses -> {"none", "bound", "primary"}]
    BY <1>1
  <2>2. challenge' \in [Codes -> [addr : Addresses \cup {"none"}, tries : 0 .. (MaxTries - 1)]]
    BY <1>t DEF VerifyAddedEmail
  <2> QED
    BY <2>1, <2>2 DEF VerifyAddedEmail
<1>3. RowHeld'
  BY <1>1 DEF RowHeld, VerifyAddedEmail
<1>4. Primaries' = IF a \in Addresses /\ Primaries = {} THEN {a} ELSE Primaries
  BY <1>1 DEF Primaries
<1>5. OnePrimary'
  BY <1>1, <1>4 DEF OnePrimary
<1> QED
  BY <1>2, <1>3, <1>5

\* A step that changes no address.
LEMMA AddressesKept ==
  ASSUME EmailSound, UNCHANGED <<addr, challenge>>, NEW x \in EmailTxs,
         NEW rec \in [at : {"idle", "locked", "reading", "cleared"},
                      row : SUBSET Addresses, seen : SUBSET Addresses],
         EmailTo(x, rec),
         rec.at # "idle" => \E a \in Addresses : rec.row = {a} /\ addr[a] # "none"
  PROVE  EmailSound'
BY DEF EmailSound, EmailTypeOK, RowHeld, OnePrimary, Primaries, EmailTo

\* The index refuses every other primary address, so that the new one is alone.
LEMMA CommitKept ==
  ASSUME EmailSound, NEW x \in EmailTxs, SetPrimaryCommit(x)
  PROVE  EmailSound'
<1> USE DEF EmailSound, EmailTypeOK
<1>1. PICK a \in Addresses : etx[x].row = {a} /\ addr[a] # "none"
  BY DEF RowHeld, SetPrimaryCommit
<1>2. /\ addr' \in [Addresses -> {"none", "bound", "primary"}]
      /\ \A b \in Addresses : addr[b] # "none" => addr'[b] # "none"
  BY DEF SetPrimaryCommit
<1>3. EmailTypeOK'
  BY <1>2 DEF SetPrimaryCommit, EmailTo, IdleEmailTx
<1>4. RowHeld'
  BY <1>2 DEF RowHeld, SetPrimaryCommit, EmailTo, IdleEmailTx
<1>5. Primaries' = {a}
  BY <1>1 DEF SetPrimaryCommit, IndexConflicts, Primaries
<1>6. OnePrimary'
  BY <1>5 DEF OnePrimary
<1> QED
  BY <1>3, <1>4, <1>6

LEMMA DeleteKept ==
  ASSUME EmailSound, NEW a \in Addresses, DeleteEmail(a)
  PROVE  EmailSound'
<1> USE DEF EmailSound, EmailTypeOK
<1>1. EmailTypeOK'
  BY DEF DeleteEmail
<1>2. RowHeld'
  BY DEF RowHeld, DeleteEmail, LockedBy
<1>3. Primaries' = Primaries
  BY DEF Primaries, DeleteEmail
<1>4. OnePrimary'
  BY <1>3 DEF OnePrimary, DeleteEmail
<1> QED
  BY <1>1, <1>2, <1>4

LEMMA EmailStep == EmailSound /\ [EmailNext]_emailVars => EmailSound'
<1> SUFFICES ASSUME EmailSound, [EmailNext]_emailVars PROVE EmailSound'
  OBVIOUS
<1>1. ASSUME NEW k \in Codes, NEW a \in Addresses, AddEmail(k, a) PROVE EmailSound'
  BY <1>1, ChallengeOnly, EmailsAssumption DEF AddEmail, EmailSound, EmailTypeOK
<1>2. ASSUME NEW x \in EmailTxs, NEW a \in Addresses, SetPrimaryLock(x, a) PROVE EmailSound'
  BY <1>2, AddressesKept DEF SetPrimaryLock
<1>3. ASSUME NEW x \in EmailTxs, SetPrimaryScan(x) PROVE EmailSound'
  BY <1>3, AddressesKept DEF SetPrimaryScan, EmailSound, EmailTypeOK, RowHeld, Primaries
<1>4. ASSUME NEW x \in EmailTxs, SetPrimaryClear(x) PROVE EmailSound'
  BY <1>4, AddressesKept DEF SetPrimaryClear, EmailSound, EmailTypeOK, RowHeld, Primaries
<1>5. ASSUME NEW x \in EmailTxs, SetPrimaryAbort(x) PROVE EmailSound'
  BY <1>5, AddressesKept DEF SetPrimaryAbort, IdleEmailTx
<1>6. CASE UNCHANGED emailVars
  BY <1>6, ChallengeOnly DEF emailVars, EmailSound, EmailTypeOK
<1> QED
  BY <1>1, <1>2, <1>3, <1>4, <1>5, <1>6, WrongCodeKept, VerifyKept, CommitKept, DeleteKept
     DEF EmailNext

LEMMA OneOfThem ==
  ASSUME OnePrimary, NEW a \in Addresses, addr[a] # "none"
  PROVE  Cardinality(Primaries) = 1
<1>1. PICK p \in Primaries : TRUE
  BY DEF OnePrimary
<1>2. Primaries = {p}
  BY <1>1 DEF OnePrimary
<1> QED
  BY <1>2, FS_Singleton

\* However the requests to verify, choose and delete addresses interleave, and although none
\* of them holds more than its own row, an account with a verified address has one primary
\* address (setPrimaryEmail, deleteEmail).
THEOREM PrimaryAddressIsOne == EmailSpec => []EmailInv
<1>1. EmailSpec => []EmailSound
  BY EmailStarts, EmailStep, PTL DEF EmailSpec
<1>2. EmailSound => EmailInv
  BY OneOfThem DEF EmailSound, EmailInv, OnePrimaryAddress
<1> QED
  BY <1>1, <1>2, PTL

-----------------------------------------------------------------------------
(* What the rows of tool links hold                                        *)

Owner == [pw : Nat, tv : Nat, active : BOOLEAN, archived : BOOLEAN, epoch : Nat]
LinkRow == [st : {"none", "live", "revoked"}, tv : Nat, pw : Nat, epoch : Nat]
Operation ==
  [st : {"none", "pending", "approved", "rejected", "applied"}, tool : Tools,
   args : Requests, seen : 0 .. MaxData, fresh : BOOLEAN, decided : BOOLEAN]
ToolTx == [at : {"idle", "create", "auth", "locked", "checked"}, link : SUBSET Links,
           key : SUBSET Keys, tool : Tools, mode : CallModes, args : Requests, tv : Nat, pw : Nat]

LEMMA ToolRowsTyped ==
  /\ NoLink \in LinkRow
  /\ NoOperation \in Operation
  /\ IdleToolTx \in ToolTx
  /\ IdleToolTx.at = "idle"
BY ToolLinksAssumption DEF NoLink, NoOperation, IdleToolTx, LinkRow, Operation, ToolTx, Tools, CallModes

LEMMA ToolStarts == ToolInit => ToolSound
<1> SUFFICES ASSUME ToolInit PROVE ToolSound
  OBVIOUS
<1> USE DEF ToolInit
<1>1. ToolTypeOK
  BY ToolRowsTyped, ToolLinksAssumption DEF ToolTypeOK, LinkRow, Operation, ToolTx, Owner
<1>2. \A x \in ToolTxs : ttx[x].at = "idle"
  BY DEF IdleToolTx
<1>3. CallAlone /\ CheckStands /\ CallHasLink
  BY <1>2 DEF CallAlone, CheckStands, CallHasLink, InCall
<1>4. \A o \in Links \X Keys : operation[o].st = "none"
  BY DEF NoOperation
<1>5. OperationsSound /\ AppliedOnce
  BY <1>4 DEF OperationsSound, AppliedOnce
<1>6. LiveLinks
  BY DEF LiveLinks, NoLink
<1> QED
  BY <1>1, <1>3, <1>5, <1>6 DEF ToolSound

\* What a change of one field leaves of a row.
LEMMA ToolRowEdits ==
  /\ \A r \in LinkRow : [r EXCEPT !.st = "revoked"] \in LinkRow
  /\ \A r \in Operation :
       /\ \A st \in {"approved", "rejected"}, d \in BOOLEAN :
            [r EXCEPT !.st = st, !.decided = d] \in Operation
       /\ [r EXCEPT !.fresh = FALSE] \in Operation
       /\ \A t \in Tools, a \in Requests :
            /\ [r EXCEPT !.st = "applied", !.tool = t, !.args = a] \in Operation
            /\ \A s \in 0 .. MaxData :
                 [r EXCEPT !.st = "pending", !.tool = t, !.args = a, !.seen = s] \in Operation
  /\ \A r \in ToolTx : \A at \in {"locked", "checked"} : [r EXCEPT !.at = at] \in ToolTx
  /\ \A tv, pw, ep \in Nat, s \in BOOLEAN : \A r \in Owner :
       /\ [r EXCEPT !.pw = pw, !.tv = tv, !.epoch = ep] \in Owner
       /\ [r EXCEPT !.active = s, !.tv = tv, !.epoch = ep] \in Owner
       /\ [r EXCEPT !.archived = s, !.epoch = ep] \in Owner
<1>1. \A r \in LinkRow : [r EXCEPT !.st = "revoked"] \in LinkRow
  BY DEF LinkRow
<1>2. ASSUME NEW r \in Operation
      PROVE  /\ \A st \in {"approved", "rejected"}, d \in BOOLEAN :
                  [r EXCEPT !.st = st, !.decided = d] \in Operation
             /\ [r EXCEPT !.fresh = FALSE] \in Operation
  BY DEF Operation
<1>3. ASSUME NEW r \in Operation, NEW t \in Tools, NEW a \in Requests
      PROVE  /\ [r EXCEPT !.st = "applied", !.tool = t, !.args = a] \in Operation
             /\ \A s \in 0 .. MaxData :
                  [r EXCEPT !.st = "pending", !.tool = t, !.args = a, !.seen = s] \in Operation
  BY DEF Operation
<1>4. \A r \in ToolTx : \A at \in {"locked", "checked"} : [r EXCEPT !.at = at] \in ToolTx
  BY DEF ToolTx
<1>5. \A tv, pw, ep \in Nat, s \in BOOLEAN : \A r \in Owner :
        /\ [r EXCEPT !.pw = pw, !.tv = tv, !.epoch = ep] \in Owner
        /\ [r EXCEPT !.active = s, !.tv = tv, !.epoch = ep] \in Owner
        /\ [r EXCEPT !.archived = s, !.epoch = ep] \in Owner
  BY ZenonT(60) DEF Owner
<1> QED
  BY <1>1, <1>2, <1>3, <1>4, <1>5

\* Three changes of one row are one change of it.
LEMMA ThreeEdits ==
  ASSUME NEW S, NEW f \in [S -> Operation], NEW o \in S, NEW t, NEW a
  PROVE  [f EXCEPT ![o].st = "applied", ![o].tool = t, ![o].args = a]
           = [f EXCEPT ![o] = [f[o] EXCEPT !.st = "applied", !.tool = t, !.args = a]]
OBVIOUS

LEMMA ToolsTyped ==
  ASSUME ToolTypeOK
  PROVE  /\ link \in [Links -> LinkRow]
         /\ operation \in [Links \X Keys -> Operation]
         /\ ttx \in [ToolTxs -> ToolTx]
         /\ owner \in Owner
         /\ data \in 0 .. MaxData /\ ownerEdits \in 0 .. MaxOwnerEdits
         /\ applied \in [Links \X Keys -> Nat]
BY DEF ToolTypeOK, LinkRow, Operation, ToolTx, Owner

LEMMA ToolTypesBack ==
  ASSUME /\ link' \in [Links -> LinkRow]
         /\ operation' \in [Links \X Keys -> Operation]
         /\ ttx' \in [ToolTxs -> ToolTx]
         /\ owner' \in Owner
         /\ data' \in 0 .. MaxData /\ ownerEdits' \in 0 .. MaxOwnerEdits
         /\ applied' \in [Links \X Keys -> Nat]
  PROVE  ToolTypeOK'
BY DEF ToolTypeOK, LinkRow, Operation, ToolTx, Owner

\* A request that is in no call afterwards leaves the other calls as they are.
LEMMA OutOfCall ==
  ASSUME CallAlone, ttx \in [ToolTxs -> ToolTx], NEW x \in ToolTxs, NEW rec,
         ttx' = [ttx EXCEPT ![x] = rec], rec.at \in {"idle", "create", "auth"},
         rec.at = "auth" => /\ \E l \in Links, k \in Keys : rec.link = {l} /\ rec.key = {k}
                            /\ rec.mode = "execute" <=> rec.tool = "direct"
  PROVE  /\ CallAlone'
         /\ CheckStands /\ UNCHANGED operation => CheckStands'
         /\ CallHasLink /\ UNCHANGED <<owner, link>> => CallHasLink'
<1>1. /\ ttx'[x] = rec
      /\ \A y \in ToolTxs : y # x => ttx'[y] = ttx[y]
  OBVIOUS
<1>2. CallAlone'
  BY <1>1 DEF CallAlone, InCall
<1>3. CheckStands /\ UNCHANGED operation => CheckStands'
  BY <1>1 DEF CheckStands, Named
<1>4. CallHasLink /\ UNCHANGED <<owner, link>> => CallHasLink'
  BY <1>1 DEF CallHasLink, InCall, Permitted
<1> QED
  BY <1>2, <1>3, <1>4

LEMMA EndOfCall ==
  ASSUME ToolSound, NEW x \in ToolTxs, ToolEnd(x)
  PROVE  /\ CallAlone'
         /\ UNCHANGED operation => CheckStands'
         /\ UNCHANGED <<owner, link>> => CallHasLink'
<1>1. ttx \in [ToolTxs -> ToolTx] /\ IdleToolTx.at = "idle"
  BY ToolsTyped, ToolRowsTyped DEF ToolSound
<1> QED
  BY <1>1, OutOfCall DEF ToolEnd, ToolTo, ToolSound

LEMMA CreateBeginKept ==
  ASSUME ToolSound, ToolTypeOK', NEW x \in ToolTxs, CreateBegin(x)
  PROVE  ToolSound'
<1>1. PICK p : ttx' = [ttx EXCEPT ![x] = [IdleToolTx EXCEPT !.at = "create", !.tv = owner.tv,
                                                            !.pw = p]]
  BY DEF CreateBegin, ToolTo
<1>2. [IdleToolTx EXCEPT !.at = "create", !.tv = owner.tv, !.pw = p].at = "create"
  BY DEF IdleToolTx
<1>3. CallAlone' /\ CheckStands' /\ CallHasLink'
  BY <1>1, <1>2, OutOfCall, ToolsTyped DEF CreateBegin, ToolSound
<1> QED
  BY <1>3 DEF ToolSound, CreateBegin, OperationsSound, AppliedOnce, LiveLinks

\* Nobody is in a call when a link is opened, with today's password.
LEMMA CreateLinkKept ==
  ASSUME ToolSound, ToolTypeOK', NEW x \in ToolTxs, NEW l \in Links, CreateLink(x, l)
  PROVE  ToolSound'
<1>1. CallAlone' /\ CheckStands'
  BY EndOfCall DEF CreateLink
<1>2. CallHasLink'
  <2>1. ttx \in [ToolTxs -> ToolTx] /\ IdleToolTx.at = "idle"
    BY ToolsTyped, ToolRowsTyped DEF ToolSound
  <2> QED
    BY <2>1 DEF CreateLink, OwnerFree, ToolEnd, ToolTo, CallHasLink, InCall
<1>3. link \in [Links -> LinkRow]
  BY ToolsTyped DEF ToolSound
<1>4. LiveLinks'
  BY <1>3 DEF ToolSound, CreateLink, PasswordMatches, LiveLinks
<1> QED
  BY <1>1, <1>2, <1>4 DEF ToolSound, CreateLink, OperationsSound, AppliedOnce

\* A step of the owner that leaves the calls and the operations alone.
LEMMA LinksOnly ==
  ASSUME ToolSound, ToolTypeOK', UNCHANGED <<operation, applied, ttx>>, CallHasLink', LiveLinks'
  PROVE  ToolSound'
BY DEF ToolSound, CallAlone, CheckStands, OperationsSound, AppliedOnce, InCall, Named

\* A link with a call under way is not revoked.
LEMMA RevokeLinkKept ==
  ASSUME ToolSound, ToolTypeOK', NEW l \in Links, RevokeLink(l)
  PROVE  ToolSound'
<1>1. link \in [Links -> LinkRow]
  BY ToolsTyped DEF ToolSound
<1>2. /\ link' = [link EXCEPT ![l] = [link[l] EXCEPT !.st = "revoked"]]
      /\ [link[l] EXCEPT !.st = "revoked"].st = "revoked"
  BY <1>1 DEF RevokeLink, LinkRow
<1>3. \A j \in Links : j # l => link'[j] = link[j]
  BY <1>1, <1>2
<1>4. CallHasLink'
  BY <1>1, <1>3 DEF CallHasLink, Permitted, InCall, RevokeLink, LinkFree, ToolSound, ToolTypeOK
<1>5. LiveLinks'
  BY <1>1, <1>2, <1>3 DEF LiveLinks, RevokeLink, ToolSound
<1> QED
  BY <1>4, <1>5, LinksOnly DEF RevokeLink

LEMMA NoneLives ==
  ASSUME ToolSound
  PROVE  \A l \in Links : RevokedLinks[l].st # "live"
<1>1. link \in [Links -> LinkRow]
  BY ToolsTyped DEF ToolSound
<1> QED
  BY <1>1 DEF RevokedLinks, LinkRow

\* A change of the account or of the class waits for the calls and revokes every link.
LEMMA OwnerEditKept ==
  ASSUME ToolSound, ToolTypeOK', OwnerEdit,
         \/ link' = RevokedLinks
         \/ link' = link /\ owner'.pw = owner.pw /\ owner'.epoch = owner.epoch
  PROVE  ToolSound'
<1>1. CallHasLink'
  BY DEF OwnerEdit, OwnerFree, CallHasLink, InCall
<1>2. LiveLinks'
  BY NoneLives DEF LiveLinks, ToolSound
<1> QED
  BY <1>1, <1>2, LinksOnly DEF OwnerEdit

\* A step that decides a pending operation, or changes nothing of one that a call reads: what
\* a call checked is not pending, so that it stands.
LEMMA OperationKept ==
  ASSUME ToolSound, ToolTypeOK', UNCHANGED <<owner, link, applied, ttx>>,
         \A o \in Links \X Keys :
           \/ /\ operation'[o].st = operation[o].st /\ operation'[o].tool = operation[o].tool
              /\ operation'[o].decided = operation[o].decided
           \/ /\ operation[o].st = "pending" /\ operation'[o].st \in {"approved", "rejected"}
              /\ operation'[o].st = "approved" => operation'[o].decided
  PROVE  ToolSound'
<1>1. CheckStands'
  BY DEF CheckStands, Named, ToolSound
<1>2. OperationsSound' /\ AppliedOnce'
  BY DEF OperationsSound, AppliedOnce, ToolSound
<1>3. CallAlone' /\ CallHasLink' /\ LiveLinks'
  BY DEF CallAlone, CallHasLink, LiveLinks, InCall, Permitted, ToolSound
<1> QED
  BY <1>1, <1>2, <1>3 DEF ToolSound

LEMMA DecideKept ==
  ASSUME ToolSound, ToolTypeOK', NEW l \in Links, NEW k \in Keys, NEW b \in BOOLEAN,
         DecideOperation(l, k, b)
  PROVE  ToolSound'
<1> DEFINE o == <<l, k>>
<1>1. operation \in [Links \X Keys -> Operation] /\ o \in Links \X Keys
  BY ToolsTyped DEF ToolSound
<1>2. operation' = [operation EXCEPT ![o] = [operation[o] EXCEPT
                      !.st = IF b THEN "approved" ELSE "rejected", !.decided = b]]
  BY DEF DecideOperation
<1>3. /\ operation'[o].st = IF b THEN "approved" ELSE "rejected"
      /\ operation'[o].decided = b
  BY <1>1, <1>2 DEF Operation
<1>4. \A p \in Links \X Keys : p # o => operation'[p] = operation[p]
  BY <1>1, <1>2
<1>5. operation[o].st = "pending"
  BY DEF DecideOperation
<1> HIDE DEF o
<1> QED
  BY <1>1, <1>3, <1>4, <1>5, OperationKept DEF DecideOperation

LEMMA ExpiresKept ==
  ASSUME ToolSound, ToolTypeOK', NEW l \in Links, NEW k \in Keys, OperationExpires(l, k)
  PROVE  ToolSound'
<1> DEFINE o == <<l, k>>
<1>1. operation \in [Links \X Keys -> Operation] /\ o \in Links \X Keys
  BY ToolsTyped DEF ToolSound
<1>2. operation' = [operation EXCEPT ![o] = [operation[o] EXCEPT !.fresh = FALSE]]
  BY DEF OperationExpires
<1>3. /\ operation'[o].st = operation[o].st /\ operation'[o].tool = operation[o].tool
      /\ operation'[o].decided = operation[o].decided
  BY <1>1, <1>2 DEF Operation
<1>4. \A p \in Links \X Keys : p # o => operation'[p] = operation[p]
  BY <1>1, <1>2
<1> HIDE DEF o
<1> QED
  BY <1>1, <1>3, <1>4, OperationKept DEF OperationExpires

LEMMA AuthenticateKept ==
  ASSUME ToolSound, ToolTypeOK', NEW x \in ToolTxs, NEW l \in Links, NEW k \in Keys,
         Authenticate(x, l, k)
  PROVE  ToolSound'
<1>1. PICK a \in Requests, t \in Tools, m \in CallModes :
        /\ m = "execute" <=> t = "direct"
        /\ ttx' = [ttx EXCEPT ![x] = [IdleToolTx EXCEPT !.at = "auth", !.link = {l}, !.key = {k},
                                        !.tool = t, !.mode = m, !.args = a, !.tv = link[l].tv]]
  BY DEF Authenticate, ToolTo
<1>2. PICK rec : rec = [IdleToolTx EXCEPT !.at = "auth", !.link = {l}, !.key = {k},
                                          !.tool = t, !.mode = m, !.args = a, !.tv = link[l].tv]
  OBVIOUS
<1>3. rec.at = "auth" /\ rec.link = {l} /\ rec.key = {k} /\ rec.tool = t /\ rec.mode = m
  BY <1>2 DEF IdleToolTx
<1>4. CallAlone' /\ CheckStands' /\ CallHasLink'
  BY <1>1, <1>2, <1>3, OutOfCall, ToolsTyped, ZenonT(60) DEF Authenticate, ToolSound
<1> QED
  BY <1>4 DEF ToolSound, Authenticate, OperationsSound, AppliedOnce, LiveLinks

\* A call takes a link that stands and that no other call has.
LEMMA ValidateKept ==
  ASSUME ToolSound, ToolTypeOK', NEW x \in ToolTxs, ValidateCall(x)
  PROVE  ToolSound'
<1>1. ttx \in [ToolTxs -> ToolTx]
  BY ToolsTyped DEF ToolSound
<1>2. PICK l \in Links, k \in Keys : ttx[x].link = {l} /\ ttx[x].key = {k}
  BY DEF ToolSound, CallAlone, ValidateCall
<1>3. Permitted(l) /\ LinkFree(l)
  BY <1>2 DEF ValidateCall, Validated
<1>4. /\ \A y \in ToolTxs : y # x => ttx'[y] = ttx[y]
      /\ ttx'[x].at = "locked" /\ ttx'[x].link = {l} /\ ttx'[x].key = {k}
      /\ ttx'[x].mode = ttx[x].mode /\ ttx'[x].tool = ttx[x].tool
  BY <1>1, <1>2 DEF ValidateCall, ToolTo, ToolTx
<1>5. CallAlone'
  BY <1>2, <1>3, <1>4 DEF CallAlone, InCall, LinkFree, ToolSound, ValidateCall
<1>6. CheckStands'
  BY <1>4 DEF CheckStands, Named, ToolSound, ValidateCall
<1>7. CallHasLink'
  BY <1>3, <1>4 DEF CallHasLink, InCall, Permitted, ToolSound, ValidateCall
<1> QED
  BY <1>5, <1>6, <1>7 DEF ToolSound, ValidateCall, OperationsSound, AppliedOnce, LiveLinks

LEMMA CheckKept ==
  ASSUME ToolSound, ToolTypeOK', NEW x \in ToolTxs, CheckOperation(x)
  PROVE  ToolSound'
<1>1. ttx \in [ToolTxs -> ToolTx]
  BY ToolsTyped DEF ToolSound
<1>2. PICK l \in Links, k \in Keys : ttx[x].link = {l} /\ ttx[x].key = {k}
  BY DEF ToolSound, CallAlone, CheckOperation
<1>3. /\ \A y \in ToolTxs : y # x => ttx'[y] = ttx[y]
      /\ ttx'[x].at = "checked" /\ ttx'[x].link = {l} /\ ttx'[x].key = {k}
      /\ ttx'[x].mode = ttx[x].mode /\ ttx'[x].tool = ttx[x].tool
  BY <1>1, <1>2 DEF CheckOperation, ToolTo, ToolTx
<1>4. CallAlone'
  BY <1>2, <1>3 DEF CallAlone, InCall, ToolSound, CheckOperation
<1>5. CheckStands'
  <2>1. \A o \in Links \X Keys : Named(x, o) <=> o = <<l, k>>
    BY <1>2 DEF Named
  <2>2. \/ ttx[x].mode = "execute" /\ operation[<<l, k>>].st = "none"
        \/ ttx[x].mode = "commit" /\ operation[<<l, k>>].st = "approved"
    BY <2>1 DEF CheckOperation, Committable
  <2>3. Named(x, <<l, k>>)' /\ \A o \in Links \X Keys : Named(x, o)' => o = <<l, k>>
    BY <1>3 DEF Named
  <2> QED
    BY <1>3, <2>2, <2>3 DEF CheckStands, Named, ToolSound, CheckOperation
<1>6. CallHasLink'
  BY <1>2, <1>3 DEF CallHasLink, InCall, Permitted, ToolSound, CheckOperation
<1> QED
  BY <1>4, <1>5, <1>6 DEF ToolSound, CheckOperation, OperationsSound, AppliedOnce, LiveLinks

\* A call that writes is about an operation that no other call names.
LEMMA OnlyNamed ==
  ASSUME ToolSound, NEW x \in ToolTxs, InCall(x), NEW o \in Links \X Keys, Named(x, o)
  PROVE  /\ \A y \in ToolTxs : InCall(y) /\ Named(y, o) => y = x
         /\ \A p \in Links \X Keys : Named(x, p) => p = o
<1>1. PICK l \in Links, k \in Keys : ttx[x].link = {l} /\ ttx[x].key = {k}
  BY DEF ToolSound, CallAlone, InCall
<1>2. o = <<l, k>>
  BY <1>1 DEF Named
<1>3. ASSUME NEW y \in ToolTxs, InCall(y), Named(y, o) PROVE y = x
  <2>1. l \in ttx[y].link
    BY <1>2, <1>3 DEF Named
  <2> QED
    BY <1>1, <1>3, <2>1 DEF ToolSound, CallAlone
<1> QED
  BY <1>1, <1>2, <1>3 DEF Named

LEMMA PrepareKept ==
  ASSUME ToolSound, ToolTypeOK', NEW x \in ToolTxs, PrepareOperation(x)
  PROVE  ToolSound'
<1>1. CallAlone' /\ CallHasLink'
  BY EndOfCall DEF PrepareOperation
<1>2. PICK o \in Links \X Keys : /\ Named(x, o) /\ operation[o].st = "none"
                                 /\ operation' = [operation EXCEPT ![o] = Prepared(x)]
  BY DEF PrepareOperation
<1>3. operation \in [Links \X Keys -> Operation] /\ ttx \in [ToolTxs -> ToolTx]
  BY ToolsTyped DEF ToolSound
<1>4. /\ operation'[o] = Prepared(x) /\ Prepared(x).st = "pending"
      /\ \A p \in Links \X Keys : p # o => operation'[p] = operation[p]
  BY <1>2, <1>3 DEF Prepared, NoOperation
<1>5. \A y \in ToolTxs : y # x => ttx'[y] = ttx[y]
  BY <1>3 DEF PrepareOperation, ToolEnd, ToolTo
<1>6. ttx'[x].at = "idle"
  BY <1>3, ToolRowsTyped DEF PrepareOperation, ToolEnd, ToolTo
<1>7. \A y \in ToolTxs : InCall(y) /\ Named(y, o) => y = x
  BY <1>2, OnlyNamed DEF InCall, PrepareOperation
<1>8. CheckStands'
  BY <1>4, <1>5, <1>6, <1>7 DEF CheckStands, Named, InCall, ToolSound
<1>9. OperationsSound' /\ AppliedOnce' /\ LiveLinks'
  BY <1>2, <1>4 DEF OperationsSound, AppliedOnce, LiveLinks, ToolSound, PrepareOperation
<1> QED
  BY <1>1, <1>8, <1>9 DEF ToolSound

\* What takes effect was not applied before, since it was checked under the same lock.
LEMMA ApplyKept ==
  ASSUME ToolSound, ToolTypeOK', NEW x \in ToolTxs, ApplyOperation(x)
  PROVE  ToolSound'
<1>1. CallAlone' /\ CallHasLink'
  BY EndOfCall DEF ApplyOperation
<1>3. /\ operation \in [Links \X Keys -> Operation] /\ ttx \in [ToolTxs -> ToolTx]
      /\ applied \in [Links \X Keys -> Nat]
  BY ToolsTyped DEF ToolSound
<1>2. PICK o \in Links \X Keys :
        /\ Named(x, o)
        /\ operation' = [operation EXCEPT ![o].st = "applied", ![o].tool = ttx[x].tool,
                                          ![o].args = ttx[x].args]
        /\ applied' = [applied EXCEPT ![o] = applied[o] + 1]
  BY DEF ApplyOperation
<1>e. operation' = [operation EXCEPT ![o] = [operation[o] EXCEPT !.st = "applied",
                                               !.tool = ttx[x].tool, !.args = ttx[x].args]]
  BY <1>2, <1>3, ThreeEdits
<1>4. /\ operation'[o].st = "applied" /\ operation'[o].tool = ttx[x].tool
      /\ operation'[o].decided = operation[o].decided
      /\ \A p \in Links \X Keys : p # o => operation'[p] = operation[p]
  BY <1>e, <1>3 DEF Operation
<1>a. /\ applied'[o] = applied[o] + 1
      /\ \A p \in Links \X Keys : p # o => applied'[p] = applied[p]
  BY <1>2, <1>3
<1>5. \A y \in ToolTxs : y # x => ttx'[y] = ttx[y]
  BY <1>3 DEF ApplyOperation, ToolEnd, ToolTo
<1>6. ttx'[x].at = "idle"
  BY <1>3, ToolRowsTyped DEF ApplyOperation, ToolEnd, ToolTo
<1>7. \A y \in ToolTxs : InCall(y) /\ Named(y, o) => y = x
  BY <1>2, OnlyNamed DEF InCall, ApplyOperation
<1>8. CheckStands'
  BY <1>4, <1>5, <1>6, <1>7 DEF CheckStands, Named, InCall, ToolSound
<1>9. \/ ttx[x].mode = "execute" /\ operation[o].st = "none"
      \/ ttx[x].mode = "commit" /\ operation[o].st = "approved"
  BY <1>2 DEF ToolSound, CheckStands, ApplyOperation
<1>10. operation[o].st # "applied" /\ (ttx[x].tool = "approval" => operation[o].decided)
  BY <1>9 DEF ToolSound, OperationsSound, CallAlone, ApplyOperation
<1>11. applied[o] = 0
  BY <1>10 DEF ToolSound, AppliedOnce
<1>12. AppliedOnce'
  BY <1>4, <1>a, <1>10, <1>11 DEF AppliedOnce, ToolSound
<1>13. OperationsSound' /\ LiveLinks'
  BY <1>4 DEF OperationsSound, LiveLinks, ToolSound, ApplyOperation
<1> QED
  BY <1>1, <1>8, <1>12, <1>13 DEF ToolSound

LEMMA AnswerKept ==
  ASSUME ToolSound, ToolTypeOK', NEW x \in ToolTxs, AnswerCall(x)
  PROVE  ToolSound'
<1>1. CallAlone' /\ CheckStands' /\ CallHasLink'
  BY EndOfCall DEF AnswerCall
<1> QED
  BY <1>1 DEF ToolSound, AnswerCall, OperationsSound, AppliedOnce, LiveLinks

LEMMA ToolsStayTyped ==
  ASSUME ToolSound, [ToolNext]_toolVars
  PROVE  ToolTypeOK'
<1>t. /\ link \in [Links -> LinkRow]
      /\ operation \in [Links \X Keys -> Operation]
      /\ ttx \in [ToolTxs -> ToolTx]
      /\ owner \in Owner
      /\ data \in 0 .. MaxData /\ ownerEdits \in 0 .. MaxOwnerEdits
      /\ applied \in [Links \X Keys -> Nat]
  BY ToolsTyped DEF ToolSound
<1> USE <1>t
<1>1. ASSUME NEW x \in ToolTxs, CreateBegin(x) PROVE ToolTypeOK'
  <2>1. PICK p \in 0 .. owner.pw :
          ttx' = [ttx EXCEPT ![x] = [IdleToolTx EXCEPT !.at = "create", !.tv = owner.tv, !.pw = p]]
    BY <1>1 DEF CreateBegin, ToolTo
  <2>2. p \in Nat /\ owner.tv \in Nat
    BY DEF Owner
  <2>4. [IdleToolTx EXCEPT !.at = "create", !.tv = owner.tv, !.pw = p] \in ToolTx
    BY <2>2, ToolLinksAssumption DEF IdleToolTx, ToolTx, Tools, CallModes
  <2>3. ttx' \in [ToolTxs -> ToolTx]
    BY <2>1, <2>4
  <2> QED
    BY <1>1, <2>3, ToolTypesBack DEF CreateBegin
<1>2. ASSUME NEW x \in ToolTxs, NEW l \in Links, CreateLink(x, l) PROVE ToolTypeOK'
  <2>1. link' \in [Links -> LinkRow]
    <3>1. [st |-> "live", tv |-> ttx[x].tv, pw |-> ttx[x].pw, epoch |-> owner.epoch] \in LinkRow
      BY DEF LinkRow, ToolTx, Owner
    <3> QED
      BY <1>2, <3>1 DEF CreateLink
  <2>2. ttx' \in [ToolTxs -> ToolTx]
    BY <1>2, ToolRowsTyped DEF CreateLink, ToolEnd, ToolTo
  <2> QED
    BY <1>2, <2>1, <2>2, ToolTypesBack DEF CreateLink
<1>3. ASSUME NEW l \in Links, RevokeLink(l) PROVE ToolTypeOK'
  <2>1. link' = [link EXCEPT ![l] = [link[l] EXCEPT !.st = "revoked"]]
    BY <1>3 DEF RevokeLink
  <2>2. link' \in [Links -> LinkRow]
    BY <2>1, ToolRowEdits, ZenonT(60)
  <2> QED
    BY <1>3, <2>2, ToolTypesBack DEF RevokeLink
<1>r. RevokedLinks \in [Links -> LinkRow]
  BY ToolRowEdits DEF RevokedLinks
<1>n. owner.pw + 1 \in Nat /\ owner.tv + 1 \in Nat /\ owner.epoch + 1 \in Nat /\ owner.tv \in Nat
      /\ owner.epoch \in Nat /\ owner.archived \in BOOLEAN
  BY DEF Owner
<1>4. CASE OwnerPassword
  <2>1. PICK n \in Nat :
          owner' = [owner EXCEPT !.pw = owner.pw + 1, !.tv = n, !.epoch = owner.epoch + 1]
    <3>1. PICK bump \in {0, 1} :
            owner' = [owner EXCEPT !.pw = owner.pw + 1, !.tv = owner.tv + bump,
                                   !.epoch = owner.epoch + 1]
      BY <1>4 DEF OwnerPassword
    <3>2. owner.tv + bump \in Nat
      BY <1>n
    <3> QED
      BY <3>1, <3>2
  <2>2. owner' \in Owner
    BY <2>1, <1>n, ToolRowEdits
  <2>3. ownerEdits' \in 0 .. MaxOwnerEdits
    BY <1>4, ToolLinksAssumption DEF OwnerPassword, OwnerEdit
  <2> QED
    BY <1>4, <1>r, <2>2, <2>3, ToolTypesBack DEF OwnerPassword, OwnerEdit
<1>5. CASE OwnerStatus
  <2>1. PICK s \in BOOLEAN :
          owner' = [owner EXCEPT !.active = s, !.tv = owner.tv + 1, !.epoch = owner.epoch + 1]
    BY <1>5, ZenonT(60) DEF OwnerStatus
  <2>2. owner' \in Owner
    BY <2>1, <1>n, ToolRowEdits
  <2>3. ownerEdits' \in 0 .. MaxOwnerEdits
    BY <1>5, ToolLinksAssumption DEF OwnerStatus, OwnerEdit
  <2> QED
    BY <1>5, <1>r, <2>2, <2>3, ToolTypesBack DEF OwnerStatus, OwnerEdit
<1>6. CASE ClassArchive
  <2>0. PICK e \in Nat, s \in BOOLEAN : owner' = [owner EXCEPT !.archived = s, !.epoch = e]
    BY <1>6, <1>n, ZenonT(60) DEF ClassArchive
  <2>1. owner' \in Owner
    BY <2>0, ToolRowEdits
  <2>2. ownerEdits' \in 0 .. MaxOwnerEdits
    BY <1>6, ToolLinksAssumption DEF ClassArchive, OwnerEdit
  <2> QED
    BY <1>6, <1>r, <2>1, <2>2, ToolTypesBack DEF ClassArchive, OwnerEdit
<1>7. ASSUME NEW l \in Links, NEW k \in Keys, NEW b \in BOOLEAN, DecideOperation(l, k, b)
      PROVE  ToolTypeOK'
  <2>1. PICK st \in {"approved", "rejected"} :
          operation' = [operation EXCEPT ![<<l, k>>] =
                          [operation[<<l, k>>] EXCEPT !.st = st, !.decided = b]]
    BY <1>7 DEF DecideOperation
  <2>2. operation' \in [Links \X Keys -> Operation]
    BY <2>1, ToolRowEdits
  <2> QED
    BY <1>7, <2>2, ToolTypesBack DEF DecideOperation
<1>8. ASSUME NEW l \in Links, NEW k \in Keys, OperationExpires(l, k) PROVE ToolTypeOK'
  <2>1. operation' = [operation EXCEPT ![<<l, k>>] = [operation[<<l, k>>] EXCEPT !.fresh = FALSE]]
    BY <1>8 DEF OperationExpires
  <2>2. operation' \in [Links \X Keys -> Operation]
    BY <2>1, ToolRowEdits
  <2> QED
    BY <1>8, <2>2, ToolTypesBack DEF OperationExpires
<1>9. CASE OtherChange
  BY <1>9, ToolTypesBack, ToolLinksAssumption DEF OtherChange
<1>10. ASSUME NEW x \in ToolTxs, NEW l \in Links, NEW k \in Keys, Authenticate(x, l, k)
       PROVE  ToolTypeOK'
  <2> HIDE <1>t
  <2>1. PICK a \in Requests, t \in Tools, m \in CallModes :
          ttx' = [ttx EXCEPT ![x] = [IdleToolTx EXCEPT !.at = "auth", !.link = {l}, !.key = {k},
                                       !.tool = t, !.mode = m, !.args = a, !.tv = link[l].tv]]
    BY <1>10 DEF Authenticate, ToolTo
  <2>2. {l} \in SUBSET Links /\ {k} \in SUBSET Keys /\ link[l].tv \in Nat
    BY <1>t DEF LinkRow
  <2>4. [IdleToolTx EXCEPT !.at = "auth", !.link = {l}, !.key = {k}, !.tool = t, !.mode = m,
                           !.args = a, !.tv = link[l].tv] \in ToolTx
    BY <2>2 DEF IdleToolTx, ToolTx
  <2>3. ttx' \in [ToolTxs -> ToolTx]
    BY <1>t, <2>1, <2>4
  <2> QED
    BY <1>t, <1>10, <2>3, ToolTypesBack DEF Authenticate
<1>11. ASSUME NEW x \in ToolTxs, ValidateCall(x) PROVE ToolTypeOK'
  <2>1. ttx' \in [ToolTxs -> ToolTx]
    BY <1>11, ToolRowEdits DEF ValidateCall, ToolTo
  <2> QED
    BY <1>11, <2>1, ToolTypesBack DEF ValidateCall
<1>12. ASSUME NEW x \in ToolTxs, PrepareOperation(x) PROVE ToolTypeOK'
  <2>1. Prepared(x) \in Operation
    <3>1. ttx[x].tool \in Tools /\ ttx[x].args \in Requests
      BY DEF ToolTx
    <3> QED
      BY <3>1, ToolRowEdits, ToolRowsTyped DEF Prepared
  <2>2. operation' \in [Links \X Keys -> Operation]
    BY <1>12, <2>1 DEF PrepareOperation
  <2>3. ttx' \in [ToolTxs -> ToolTx]
    BY <1>12, ToolRowsTyped DEF PrepareOperation, ToolEnd, ToolTo
  <2> QED
    BY <1>12, <2>2, <2>3, ToolTypesBack DEF PrepareOperation
<1>13. ASSUME NEW x \in ToolTxs, CheckOperation(x) PROVE ToolTypeOK'
  <2>1. ttx' \in [ToolTxs -> ToolTx]
    BY <1>13, ToolRowEdits DEF CheckOperation, ToolTo
  <2> QED
    BY <1>13, <2>1, ToolTypesBack DEF CheckOperation
<1>14. ASSUME NEW x \in ToolTxs, ApplyOperation(x) PROVE ToolTypeOK'
  <2> HIDE <1>t
  <2>1. PICK o \in Links \X Keys :
          /\ operation' = [operation EXCEPT ![o].st = "applied", ![o].tool = ttx[x].tool,
                                            ![o].args = ttx[x].args]
          /\ applied' = [applied EXCEPT ![o] = applied[o] + 1]
    BY <1>14 DEF ApplyOperation
  <2>e. operation' = [operation EXCEPT ![o] = [operation[o] EXCEPT !.st = "applied",
                                                 !.tool = ttx[x].tool, !.args = ttx[x].args]]
    BY <1>t, <2>1, ThreeEdits
  <2> USE <1>t
  <2>2. ttx[x].tool \in Tools /\ ttx[x].args \in Requests
    BY DEF ToolTx
  <2>3. operation' \in [Links \X Keys -> Operation]
    BY <2>e, <2>2, ToolRowEdits
  <2>4. applied' \in [Links \X Keys -> Nat]
    BY <2>1
  <2>5. data' \in 0 .. MaxData
    BY <1>14, ToolLinksAssumption DEF ApplyOperation
  <2>6. ttx' \in [ToolTxs -> ToolTx]
    BY <1>14, ToolRowsTyped DEF ApplyOperation, ToolEnd, ToolTo
  <2> QED
    BY <1>14, <2>3, <2>4, <2>5, <2>6, ToolTypesBack DEF ApplyOperation
<1>15. ASSUME NEW x \in ToolTxs, AnswerCall(x) PROVE ToolTypeOK'
  <2>1. ttx' \in [ToolTxs -> ToolTx]
    BY <1>15, ToolRowsTyped DEF AnswerCall, ToolEnd, ToolTo
  <2> QED
    BY <1>15, <2>1, ToolTypesBack DEF AnswerCall
<1>16. CASE UNCHANGED toolVars
  BY <1>16, ToolTypesBack DEF toolVars
<1> HIDE <1>t
<1> QED
  BY <1>1, <1>2, <1>3, <1>4, <1>5, <1>6, <1>7, <1>8, <1>9, <1>10, <1>11, <1>12, <1>13, <1>14,
     <1>15, <1>16 DEF ToolNext

LEMMA ToolStep == ToolSound /\ [ToolNext]_toolVars => ToolSound'
<1> SUFFICES ASSUME ToolSound, [ToolNext]_toolVars PROVE ToolSound'
  OBVIOUS
<1>t. ToolTypeOK'
  BY ToolsStayTyped
<1>1. CASE OwnerPassword \/ OwnerStatus
  BY <1>1, <1>t, OwnerEditKept DEF OwnerPassword, OwnerStatus
<1>3. CASE ClassArchive
  BY <1>3, <1>t, OwnerEditKept, ToolsTyped DEF ClassArchive, ToolSound
<1>2. CASE OtherChange \/ UNCHANGED toolVars
  BY <1>2, <1>t DEF OtherChange, toolVars, ToolSound, CallAlone, CheckStands, OperationsSound,
                    AppliedOnce, CallHasLink, LiveLinks, InCall, Named, Permitted
<1> QED
  BY <1>1, <1>2, <1>3, <1>t, CreateBeginKept, CreateLinkKept, RevokeLinkKept, DecideKept,
      ExpiresKept, AuthenticateKept, ValidateKept, PrepareKept, CheckKept, ApplyKept,
     AnswerKept
     DEF ToolNext

\* Whatever calls, approvals, revocations and changes of the account interleave, an operation
\* takes effect once and with the approval it needs, under a link that stands throughout the
\* call and was opened with today's password (executeMCPOperation, validateMCPConnection,
\* migration 000063).
THEOREM LinksFollowTheAccount == ToolSpec => []ToolLinkInv
<1>1. ToolSpec => []ToolSound
  BY ToolStarts, ToolStep, PTL DEF ToolSpec
<1>2. ToolSound => ToolLinkInv
  BY DEF ToolSound, ToolLinkInv, LinkFollowsOwner, LiveLinks, Permitted
<1> QED
  BY <1>1, <1>2, PTL

-----------------------------------------------------------------------------
(* What sessions hold                                                      *)

LEMMA SessionRowsTyped ==
  /\ NoIdentity \in Identity
  /\ IdleCall \in Call
  /\ IdleCall.at = "idle"
BY SessionsAssumption DEF NoIdentity, Identity, IdleCall, Call

LEMMA SessionStarts == SessInit => SessionSound
<1> SUFFICES ASSUME SessInit PROVE SessionSound
  OBVIOUS
<1> USE DEF SessInit
<1>1. acct \in Account
  BY SessionsAssumption DEF Account, Versions
<1>2. SessTypeOK
  BY <1>1, SessionRowsTyped, SessionsAssumption DEF SessTypeOK
<1>3. FamiliesSound
  BY DEF FamiliesSound
<1>4. \A c \in Calls : call[c].at = "idle"
  BY SessionRowsTyped
<1>5. OpenedOnce /\ IdentityKept
  BY <1>4 DEF OpenedOnce, IdentityKept
<1>6. VersionCounted
  BY <1>1 DEF VersionCounted
<1> QED
  BY <1>2, <1>3, <1>5, <1>6 DEF SessionSound

\* A step of one call, or of none, that leaves the sessions alone.
LEMMA CallOnlyKept ==
  ASSUME SessionSound, SessTypeOK', VersionCounted', UNCHANGED <<redisVars, claims>>,
         \A c \in Calls : \/ call'[c] = call[c]
                          \/ call'[c].at \in {"idle", "issue", "hook"}
                          \/ /\ call'[c].at \in {"list", "delete"}
                             /\ \A f \in call'[c].todo : Opened(f)
                             /\ call'[c].at = "delete" =>
                                  call'[c].sid \in Families /\ Opened(call'[c].sid)
  PROVE  SessionSound'
<1> USE DEF redisVars
<1>1. \A f : Opened(f)' = Opened(f)
  BY DEF Opened
<1>2. FamiliesSound'
  BY DEF FamiliesSound, SessionSound
<1>3. OpenedOnce'
  BY <1>1 DEF OpenedOnce, SessionSound
<1>4. IdentityKept'
  BY DEF IdentityKept, SessionSound
<1> QED
  BY <1>2, <1>3, <1>4 DEF SessionSound

\* One call that begins or moves on without a session.
LEMMA BeginKept ==
  ASSUME SessionSound, SessTypeOK', VersionCounted', UNCHANGED <<redisVars, claims>>,
         NEW c \in Calls, NEW rec, CallTo(c, rec), rec.at \in {"idle", "issue", "hook"}
  PROVE  SessionSound'
<1>1. call \in [Calls -> Call]
  BY DEF SessionSound, SessTypeOK
<1>2. \A d \in Calls : call'[d] = IF d = c THEN rec ELSE call[d]
  BY <1>1 DEF CallTo
<1> QED
  BY <1>2, CallOnlyKept

LEMMA ListKept ==
  ASSUME SessionSound, SessTypeOK', NEW c \in Calls, RevokeList(c)
  PROVE  SessionSound'
<1>1. call \in [Calls -> Call]
  BY DEF SessionSound, SessTypeOK
<1>2. /\ \A d \in Calls : d # c => call'[d] = call[d]
      /\ call'[c].at = "list" /\ call'[c].todo = index \ {call[c].except}
  BY <1>1 DEF RevokeList, CallTo, Call
<1>3. \A f \in call'[c].todo : Opened(f)
  BY <1>2 DEF SessionSound, OpenedOnce
<1>4. VersionCounted'
  BY DEF VersionCounted, SessionSound, RevokeList
<1> QED
  BY <1>2, <1>3, <1>4, CallOnlyKept DEF RevokeList

LEMMA ReadKept ==
  ASSUME SessionSound, SessTypeOK', NEW c \in Calls, RevokeRead(c)
  PROVE  SessionSound'
<1>1. call \in [Calls -> Call] /\ call[c].todo \subseteq Families
  BY DEF SessionSound, SessTypeOK, Call
<1>2. PICK f \in call[c].todo :
        call' = [call EXCEPT ![c] = [call[c] EXCEPT !.at = "delete", !.sid = f, !.token = family[f],
                                                    !.todo = call[c].todo \ {f}]]
  BY DEF RevokeRead, CallTo
<1>3. /\ \A d \in Calls : d # c => call'[d] = call[d]
      /\ call'[c].at = "delete" /\ call'[c].sid = f /\ call'[c].todo = call[c].todo \ {f}
  BY <1>1, <1>2 DEF Call
<1>4. \A g \in call[c].todo : Opened(g)
  BY DEF SessionSound, OpenedOnce, RevokeRead
<1>5. VersionCounted'
  BY DEF VersionCounted, SessionSound, RevokeRead
<1> QED
  BY <1>1, <1>3, <1>4, <1>5, CallOnlyKept DEF RevokeRead

\* A new session gets a family that no token names.
LEMMA IssueKept ==
  ASSUME SessionSound, SessTypeOK', NEW c \in Calls, IssueSession(c)
  PROVE  SessionSound'
<1>1. PICK t \in NextToken, f \in NextFamily :
        /\ refresh' = [refresh EXCEPT ![t] = call[c].id]
        /\ famOf' = [famOf EXCEPT ![t] = f]
        /\ family' = [family EXCEPT ![f] = t]
        /\ index' = index \cup {f}
        /\ claims' = claims \cup {[sid |-> f, id |-> call[c].id]}
  BY DEF IssueSession
<1>2. /\ refresh \in [Tokens -> Identity] /\ famOf \in [Tokens -> {NoFamily} \cup Families]
      /\ family \in [Families -> {NoToken} \cup Tokens] /\ call \in [Calls -> Call]
  BY DEF SessionSound, SessTypeOK
<1>3. /\ t \in Tokens /\ famOf[t] = NoFamily
      /\ f \in Families /\ ~Opened(f) /\ f # NoFamily
  <2>1. t \in Tokens /\ famOf[t] = NoFamily /\ f \in Families
    BY DEF NextToken, NextFamily
  <2>2. f \in Nat \ {0} /\ ~(f < f)
    BY <2>1, SessionsAssumption
  <2>3. (\E u \in Tokens : famOf[u] = f) <=> f < f
    BY <2>1 DEF NextFamily
  <2> QED
    BY <2>1, <2>2, <2>3 DEF Opened, NoFamily
<1>4. /\ famOf'[t] = f /\ refresh'[t] = call[c].id /\ family'[f] = t
      /\ \A u \in Tokens : u # t => famOf'[u] = famOf[u] /\ refresh'[u] = refresh[u]
      /\ \A g \in Families : g # f => family'[g] = family[g]
  BY <1>1, <1>2, <1>3
<1>5. /\ \A d \in Calls : d # c => call'[d] = call[d]
      /\ call'[c].at = "idle"
  BY <1>2, SessionRowsTyped DEF IssueSession, CallTo
<1>6. /\ \A g \in Families : Opened(g) => Opened(g)'
      /\ Opened(f)'
  BY <1>3, <1>4, SessionsAssumption DEF Opened, NoFamily
<1>7. FamiliesSound'
  <2>1. ASSUME NEW g \in Families, g # f, family[g] # NoToken
        PROVE  family[g] \in Tokens /\ family[g] # t
    BY <1>2, <1>3, <2>1, SessionsAssumption DEF SessionSound, FamiliesSound, NoFamily, NoToken
  <2>2. f \notin ended
    BY <1>3 DEF SessionSound, OpenedOnce
  <2> QED
    BY <1>1, <1>4, <2>1, <2>2 DEF FamiliesSound, SessionSound, IssueSession
<1>8. OpenedOnce'
  <2>1. \A cl \in claims : cl.sid \in Families
    BY DEF SessionSound, SessTypeOK
  <2>2. \A d \in Calls : call[d].todo \subseteq Families
    BY <1>2 DEF Call
  <2> QED
    BY <1>1, <1>3, <1>5, <1>6, <2>1, <2>2 DEF OpenedOnce, SessionSound, IssueSession
<1>9. IdentityKept'
  <2>1. \A cl \in claims : cl.sid # f
    BY <1>3 DEF SessionSound, OpenedOnce
  <2>2. \A a, b \in claims' : a.sid = b.sid => a.id = b.id
    BY <1>1, <2>1 DEF SessionSound, IdentityKept
  <2>3. \A u \in Tokens : refresh'[u] # NoIdentity =>
          [sid |-> famOf'[u], id |-> refresh'[u]] \in claims'
    BY <1>1, <1>4 DEF SessionSound, IdentityKept
  <2>4. ASSUME NEW d \in Calls, call'[d].at = "rotated"
        PROVE  /\ call'[d].token \in Tokens
               /\ [sid |-> famOf'[call'[d].token], id |-> call'[d].id] \in claims'
    <3>1. call'[d] = call[d] /\ call[d].token \in Tokens
      BY <1>5, <2>4 DEF SessionSound, IdentityKept
    <3>2. [sid |-> famOf[call[d].token], id |-> call[d].id] \in claims
      BY <2>4, <3>1 DEF SessionSound, IdentityKept
    <3>3. famOf[call[d].token] \in Families
      BY <3>2 DEF SessionSound, SessTypeOK
    <3>4. call[d].token # t
      BY <1>3, <3>3, SessionsAssumption DEF NoFamily
    <3> QED
      BY <1>1, <1>4, <3>1, <3>2, <3>4
  <2> QED
    BY <2>2, <2>3, <2>4 DEF IdentityKept
<1>10. VersionCounted'
  BY DEF VersionCounted, SessionSound, IssueSession
<1> QED
  BY <1>7, <1>8, <1>9, <1>10 DEF SessionSound

\* A rotation goes on with the family, the identity and the claims of the token it takes.
LEMMA RotateKept ==
  ASSUME SessionSound, SessTypeOK', NEW c \in Calls, NEW t \in Tokens, Rotate(c, t)
  PROVE  SessionSound'
<1>1. PICK n \in NextToken :
        /\ refresh' = [refresh EXCEPT ![t] = NoIdentity, ![n] = refresh[t]]
        /\ famOf' = [famOf EXCEPT ![n] = famOf[t]]
        /\ family' = [family EXCEPT ![famOf[t]] = n]
        /\ call' = [call EXCEPT ![c] = [IdleCall EXCEPT !.at = "rotated", !.token = n,
                                                        !.id = refresh[t]]]
  BY DEF Rotate, CallBegin
<1>2. /\ refresh \in [Tokens -> Identity] /\ famOf \in [Tokens -> {NoFamily} \cup Families]
      /\ family \in [Families -> {NoToken} \cup Tokens] /\ call \in [Calls -> Call]
  BY DEF SessionSound, SessTypeOK
<1>3. PICK f \in Families : f = famOf[t]
  BY <1>2 DEF Rotate
<1>4. /\ n \in Tokens /\ famOf[n] = NoFamily /\ n # t
      /\ refresh[t] # NoIdentity /\ family[f] = t
  BY <1>3 DEF NextToken, Rotate, IsCurrentToken
<1>5. /\ famOf'[n] = f /\ refresh'[n] = refresh[t] /\ family'[f] = n
      /\ refresh'[t] = NoIdentity /\ famOf'[t] = f
      /\ \A u \in Tokens : u # n => famOf'[u] = famOf[u]
      /\ \A u \in Tokens : u # n /\ u # t => refresh'[u] = refresh[u]
      /\ \A g \in Families : g # f => family'[g] = family[g]
  BY <1>1, <1>2, <1>3, <1>4
<1>6. /\ \A d \in Calls : d # c => call'[d] = call[d]
      /\ call'[c].at = "rotated" /\ call'[c].token = n /\ call'[c].id = refresh[t]
  BY <1>1, <1>2 DEF IdleCall
<1>7. \A g \in Families : Opened(g) => Opened(g)'
  BY <1>4, <1>5, SessionsAssumption DEF Opened, NoFamily
<1>8. t # NoToken /\ n # NoToken
  BY <1>4, SessionsAssumption DEF NoToken
<1>9. FamiliesSound'
  <2>1. ASSUME NEW g \in Families, g # f, family[g] # NoToken
        PROVE  family[g] \in Tokens /\ family[g] # n
    BY <1>2, <1>4, <2>1, SessionsAssumption DEF SessionSound, FamiliesSound, NoFamily
  <2>2. f \notin ended
    BY <1>4, <1>8 DEF SessionSound, FamiliesSound
  <2> QED
    BY <1>3, <1>5, <2>1, <2>2 DEF FamiliesSound, SessionSound, Rotate
<1>10. OpenedOnce'
  <2>1. \A cl \in claims : cl.sid \in Families
    BY DEF SessionSound, SessTypeOK
  <2>2. \A d \in Calls : call[d].todo \subseteq Families
    BY <1>2 DEF Call
  <2>3. Opened(f)
    BY <1>3 DEF Opened
  <2> QED
    BY <1>3, <1>6, <1>7, <2>1, <2>2, <2>3 DEF OpenedOnce, SessionSound, Rotate
<1>11. IdentityKept'
  <2>1. [sid |-> f, id |-> refresh[t]] \in claims /\ claims' = claims
    BY <1>3, <1>4 DEF SessionSound, IdentityKept, Rotate
  <2>2. \A a, b \in claims' : a.sid = b.sid => a.id = b.id
    BY <2>1 DEF SessionSound, IdentityKept
  <2>3. \A u \in Tokens : refresh'[u] # NoIdentity =>
          [sid |-> famOf'[u], id |-> refresh'[u]] \in claims'
    BY <1>5, <2>1 DEF SessionSound, IdentityKept
  <2>4. ASSUME NEW d \in Calls, call'[d].at = "rotated"
        PROVE  /\ call'[d].token \in Tokens
               /\ [sid |-> famOf'[call'[d].token], id |-> call'[d].id] \in claims'
    <3>1. CASE d = c
      BY <1>4, <1>5, <1>6, <2>1, <3>1
    <3>2. CASE d # c
      <4>1. call'[d] = call[d] /\ call[d].token \in Tokens
        BY <1>6, <2>4, <3>2 DEF SessionSound, IdentityKept
      <4>2. [sid |-> famOf[call[d].token], id |-> call[d].id] \in claims
        BY <2>4, <4>1 DEF SessionSound, IdentityKept
      <4>3. famOf[call[d].token] \in Families
        BY <4>2 DEF SessionSound, SessTypeOK
      <4>4. call[d].token # n
        BY <1>4, <4>3, SessionsAssumption DEF NoFamily
      <4> QED
        BY <1>5, <2>1, <4>1, <4>2, <4>4
    <3> QED
      BY <3>1, <3>2
  <2> QED
    BY <2>2, <2>3, <2>4 DEF IdentityKept
<1>12. VersionCounted'
  BY DEF VersionCounted, SessionSound, Rotate
<1> QED
  BY <1>9, <1>10, <1>11, <1>12 DEF SessionSound

\* A step that takes tokens away, closes one family for good and begins nothing.
LEMMA ClosedKept ==
  ASSUME SessionSound, SessTypeOK', UNCHANGED <<acct, famOf, claims, edits>>,
         NEW f \in Families, Opened(f),
         family' = [family EXCEPT ![f] = NoToken],
         ended' = ended \cup {f},
         index' = index \/ index' = index \ {f},
         \A t \in Tokens : refresh'[t] \in {refresh[t], NoIdentity},
         \A c \in Calls : \/ call'[c] = call[c]
                          \/ call'[c].at = "idle"
                          \/ /\ call[c].at = "delete" /\ call'[c].at = "list"
                             /\ call'[c].todo = call[c].todo
  PROVE  SessionSound'
<1>1. family \in [Families -> {NoToken} \cup Tokens]
  BY DEF SessionSound, SessTypeOK
<1>2. family'[f] = NoToken /\ \A g \in Families : g # f => family'[g] = family[g]
  BY <1>1
<1>3. \A g : Opened(g)' = Opened(g)
  BY DEF Opened
<1>4. FamiliesSound'
  BY <1>2 DEF FamiliesSound, SessionSound
<1>5. OpenedOnce'
  BY <1>3 DEF OpenedOnce, SessionSound
<1>6. IdentityKept'
  BY DEF IdentityKept, SessionSound
<1>7. VersionCounted'
  BY DEF VersionCounted, SessionSound
<1> QED
  BY <1>4, <1>5, <1>6, <1>7 DEF SessionSound

LEMMA DroppedKept ==
  ASSUME SessionSound, SessTypeOK', UNCHANGED <<acct, famOf, claims, edits>>,
         NEW t \in Tokens, famOf[t] # NoFamily, Dropped(t),
         index' = index \/ index' = index \ {famOf[t]},
         \A c \in Calls : call'[c] = call[c] \/ call'[c].at = "idle"
  PROVE  SessionSound'
<1>1. famOf[t] \in Families /\ Opened(famOf[t])
  BY DEF SessionSound, SessTypeOK, Opened
<1>2. \A u \in Tokens : refresh'[u] \in {refresh[u], NoIdentity}
  BY DEF Dropped
<1> QED
  BY <1>1, <1>2, ClosedKept DEF Dropped

LEMMA RevokeDeleteKept ==
  ASSUME SessionSound, SessTypeOK', NEW c \in Calls, RevokeDelete(c)
  PROVE  SessionSound'
<1>1. call \in [Calls -> Call]
  BY DEF SessionSound, SessTypeOK
<1>2. PICK f \in Families : f = call[c].sid /\ Opened(f)
  BY DEF SessionSound, OpenedOnce, RevokeDelete
<1>3. /\ \A d \in Calls : d # c => call'[d] = call[d]
      /\ call'[c].at = "list" /\ call'[c].todo = call[c].todo
  BY <1>1 DEF RevokeDelete, CallTo, Call
<1>4. \A t \in Tokens : refresh'[t] \in {refresh[t], NoIdentity}
  BY DEF RevokeDelete
<1> QED
  BY <1>2, <1>3, <1>4, ClosedKept DEF RevokeDelete

\* After the rotation the session goes on as what it was, or ends.
LEMMA RefreshCheckKept ==
  ASSUME SessionSound, SessTypeOK', NEW c \in Calls, RefreshCheck(c)
  PROVE  SessionSound'
<1>1. call \in [Calls -> Call]
  BY DEF SessionSound, SessTypeOK
<1>2. PICK t \in Tokens : t = call[c].token /\ [sid |-> famOf[t], id |-> call[c].id] \in claims
  BY DEF SessionSound, IdentityKept, RefreshCheck
<1>3. famOf[t] \in Families /\ famOf[t] # NoFamily
  BY <1>2, SessionsAssumption DEF SessionSound, SessTypeOK, NoFamily
<1>4. /\ \A d \in Calls : d # c => call'[d] = call[d]
      /\ call'[c].at = "idle"
  BY <1>1, SessionRowsTyped DEF RefreshCheck, CallTo
<1>5. CASE IdentityIsCurrent(call[c].id)
  <2>1. claims' = claims /\ UNCHANGED redisVars
    BY <1>2, <1>5 DEF RefreshCheck, IdentityIsCurrent
  <2>2. VersionCounted'
    BY DEF VersionCounted, SessionSound, RefreshCheck
  <2> QED
    BY <1>4, <2>1, <2>2, CallOnlyKept
<1>6. CASE ~IdentityIsCurrent(call[c].id)
  <2>1. Dropped(t) /\ index' = index \ {famOf[t]} /\ UNCHANGED <<famOf, claims>>
    BY <1>2, <1>6 DEF RefreshCheck
  <2> QED
    BY <1>3, <1>4, <2>1, DroppedKept DEF RefreshCheck
<1> QED
  BY <1>5, <1>6

\* What a change of the account leaves of its row.
LEMMA AccountEdits ==
  ASSUME NEW r \in Account
  PROVE  /\ \A pw \in 0 .. (MaxAccountChanges + 1) : [r EXCEPT !.pw = pw] \in Account
         /\ \A pw \in 0 .. (MaxAccountChanges + 1), tv \in Versions :
              [r EXCEPT !.pw = pw, !.tv = tv] \in Account
         /\ \A pw \in 0 .. (MaxAccountChanges + 1), tv \in Versions, b \in BOOLEAN :
              [r EXCEPT !.pw = pw, !.tv = tv, !.registered = b] \in Account
         /\ \A role \in Roles, tv \in Versions : [r EXCEPT !.role = role, !.tv = tv] \in Account
         /\ \A b \in BOOLEAN, tv \in Versions : [r EXCEPT !.active = b, !.tv = tv] \in Account
         /\ \A role \in Roles, b \in BOOLEAN, tv \in Versions :
              [r EXCEPT !.role = role, !.active = b, !.tv = tv] \in Account
<1> USE DEF Account
<1>1. ASSUME NEW pw \in 0 .. (MaxAccountChanges + 1), NEW tv \in Versions, NEW b \in BOOLEAN
      PROVE  /\ [r EXCEPT !.pw = pw] \in Account
             /\ [r EXCEPT !.pw = pw, !.tv = tv] \in Account
             /\ [r EXCEPT !.pw = pw, !.tv = tv, !.registered = b] \in Account
  OBVIOUS
<1>2. ASSUME NEW role \in Roles, NEW tv \in Versions, NEW b \in BOOLEAN
      PROVE  /\ [r EXCEPT !.role = role, !.tv = tv] \in Account
             /\ [r EXCEPT !.active = b, !.tv = tv] \in Account
             /\ [r EXCEPT !.role = role, !.active = b, !.tv = tv] \in Account
  OBVIOUS
<1>3. 1 \in Versions /\ 0 \in 0 .. (MaxAccountChanges + 1) /\ Roles # {}
  BY SessionsAssumption DEF Versions
<1> HIDE DEF Account
<1> QED
  BY <1>1, <1>2, <1>3

\* What a call is when it begins or moves on.
LEMMA CallEdits ==
  /\ \A id \in Identity, t \in {NoToken} \cup Tokens, f \in {NoFamily} \cup Families :
       /\ [IdleCall EXCEPT !.at = "issue", !.id = id] \in Call
       /\ [IdleCall EXCEPT !.at = "rotated", !.token = t, !.id = id] \in Call
       /\ [IdleCall EXCEPT !.at = "hook", !.except = f] \in Call
  /\ \A r \in Call, t \in {NoToken} \cup Tokens, f \in {NoFamily} \cup Families,
        fs \in SUBSET Families :
       /\ [r EXCEPT !.at = "list", !.todo = fs] \in Call
       /\ [r EXCEPT !.at = "delete", !.sid = f, !.token = t, !.todo = fs] \in Call
       /\ [r EXCEPT !.at = "list", !.sid = f, !.token = t] \in Call
BY SessionRowsTyped, ZenonT(60) DEF IdleCall, Call

LEMMA SessionsTyped ==
  ASSUME SessionSound
  PROVE  /\ acct \in Account
         /\ refresh \in [Tokens -> Identity]
         /\ famOf \in [Tokens -> {NoFamily} \cup Families]
         /\ family \in [Families -> {NoToken} \cup Tokens]
         /\ index \in SUBSET Families /\ ended \in SUBSET Families
         /\ claims \in SUBSET [sid : Families, id : Identity]
         /\ ticket \in [Tickets -> Roles \cup {"none"}]
         /\ reset \in {0} \cup Versions
         /\ call \in [Calls -> Call]
         /\ edits \in 0 .. MaxAccountChanges
         /\ Current \in Identity
         /\ edits < MaxAccountChanges => /\ acct.tv + 1 \in Versions
                                         /\ edits + 2 \in 0 .. (MaxAccountChanges + 1)
                                         /\ edits + 1 \in 0 .. MaxAccountChanges
<1>1. SessTypeOK /\ acct.tv <= edits + 1
  BY DEF SessionSound, VersionCounted
<1>2. acct.tv \in Versions /\ acct.role \in Roles
  BY <1>1 DEF SessTypeOK, Account
<1>3. Current \in Identity
  BY <1>2 DEF Current, Identity
<1>4. edits \in 0 .. MaxAccountChanges
  BY <1>1 DEF SessTypeOK
<1>5. ASSUME edits < MaxAccountChanges
      PROVE  /\ acct.tv + 1 \in Versions
             /\ edits + 2 \in 0 .. (MaxAccountChanges + 1)
             /\ edits + 1 \in 0 .. MaxAccountChanges
  BY <1>1, <1>2, <1>4, <1>5, SessionsAssumption DEF Versions
<1> QED
  BY <1>1, <1>3, <1>5 DEF SessTypeOK

\* A step of a call that leaves the sessions alone keeps every type.
LEMMA CallTyped ==
  ASSUME SessionSound, UNCHANGED <<redisVars, claims>>,
         call' \in [Calls -> Call], acct' \in Account,
         ticket' \in [Tickets -> Roles \cup {"none"}], reset' \in {0} \cup Versions,
         edits' \in 0 .. MaxAccountChanges
  PROVE  SessTypeOK'
BY DEF SessionSound, SessTypeOK, redisVars

LEMMA HookTyped ==
  ASSUME SessionSound, NEW c \in Calls, NEW f \in {NoFamily} \cup Families, Hook(c, f)
  PROVE  call' \in [Calls -> Call] /\ CallTo(c, [IdleCall EXCEPT !.at = "hook", !.except = f])
BY SessionsTyped, CallEdits DEF Hook, CallBegin, CallTo

\* What every change of the account keeps.
LEMMA ChangeKept ==
  ASSUME SessionSound, NEW c \in Calls, Edit, UNCHANGED <<redisVars, claims>>,
         NEW f \in {NoFamily} \cup Families, Hook(c, f),
         ticket' = ticket, reset' \in {0, reset},
         acct' \in Account, acct'.tv <= acct.tv + 1
  PROVE  SessionSound'
<1>1. SessTypeOK'
  BY SessionsTyped, HookTyped, CallTyped DEF Edit
<1>2. acct.tv \in Nat /\ acct'.tv \in Nat /\ edits \in Nat
  BY SessionsTyped DEF Account, Versions
<1>3. VersionCounted'
  BY <1>2 DEF VersionCounted, Edit, SessionSound
<1>4. [IdleCall EXCEPT !.at = "hook", !.except = f].at = "hook"
  BY DEF IdleCall
<1> QED
  BY <1>1, <1>3, <1>4, HookTyped, BeginKept

LEMMA AccountChangesKept ==
  ASSUME SessionSound, NEW c \in Calls,
         \/ ChangePassword(c) \/ ResetPassword(c) \/ ResetUserPassword(c)
         \/ \E r \in Roles : UpdateUserRole(c, r)
         \/ \E s \in BOOLEAN : UpdateUserStatus(c, s)
  PROVE  SessionSound'
<1>t. acct \in Account /\ acct.tv \in Nat
  BY SessionsTyped DEF Account, Versions
<1>e. Edit => /\ acct.tv + 1 \in Versions /\ edits + 2 \in 0 .. (MaxAccountChanges + 1)
  BY SessionsTyped DEF Edit
<1>0. 0 \in 0 .. (MaxAccountChanges + 1)
  BY SessionsAssumption
<1>1. CASE ChangePassword(c)
  <2>1. PICK cl \in claims : Hook(c, cl.sid)
    BY <1>1 DEF ChangePassword
  <2>2. cl.sid \in Families
    BY SessionsTyped
  <2>3. acct' = [acct EXCEPT !.pw = edits + 2] /\ Edit
    BY <1>1 DEF ChangePassword
  <2>4. acct' \in Account
    BY <1>t, <1>e, <2>3, AccountEdits DEF Account
  <2>5. acct'.tv = acct.tv
    BY <1>t, <2>3 DEF Account
  <2> QED
    BY <1>1, <1>t, <2>1, <2>2, <2>3, <2>4, <2>5, ChangeKept DEF ChangePassword
<1>2. CASE ResetPassword(c)
  <2>1. CASE UNCHANGED <<acct, call, edits>>
    <3>1. SessTypeOK' /\ VersionCounted'
      BY <1>2, <2>1, SessionsTyped, CallTyped DEF ResetPassword, VersionCounted, SessionSound
    <3> QED
      BY <1>2, <2>1, <3>1, CallOnlyKept DEF ResetPassword
  <2>2. CASE /\ Edit /\ Hook(c, NoFamily)
             /\ acct' = [acct EXCEPT !.pw = edits + 2, !.tv = acct.tv + 1]
    <3>1. acct' \in Account
      BY <1>t, <1>e, <2>2, AccountEdits
    <3>2. acct'.tv = acct.tv + 1
      BY <1>t, <2>2 DEF Account
    <3> QED
      BY <1>2, <1>t, <2>2, <3>1, <3>2, ChangeKept DEF ResetPassword
  <2> QED
    BY <1>2, <2>1, <2>2 DEF ResetPassword
<1>3. ASSUME NEW new, Changed(c, new), new \in Account, new.tv = acct.tv + 1
      PROVE  SessionSound'
  BY <1>t, <1>3, ChangeKept DEF Changed
<1>4. CASE ResetUserPassword(c)
  <2>1. PICK new : new = [acct EXCEPT !.pw = 0, !.tv = acct.tv + 1, !.registered = FALSE]
    OBVIOUS
  <2>2. Changed(c, new) /\ Edit
    BY <1>4, <2>1 DEF ResetUserPassword, Changed
  <2>3. new \in Account
    BY <1>t, <1>e, <1>0, <2>1, <2>2, AccountEdits
  <2>4. new.tv = acct.tv + 1
    BY <1>t, <2>1 DEF Account
  <2> QED
    BY <1>3, <2>2, <2>3, <2>4
<1>5. ASSUME NEW r \in Roles, UpdateUserRole(c, r) PROVE SessionSound'
  <2>1. PICK new : new = [acct EXCEPT !.role = r, !.tv = acct.tv + 1]
    OBVIOUS
  <2>2. Changed(c, new) /\ Edit
    BY <1>5, <2>1 DEF UpdateUserRole, Changed
  <2>3. new \in Account /\ new.tv = acct.tv + 1
    BY <1>t, <1>e, <2>1, <2>2, AccountEdits DEF Account
  <2> QED
    BY <1>3, <2>2, <2>3
<1>6. ASSUME NEW s \in BOOLEAN, UpdateUserStatus(c, s) PROVE SessionSound'
  <2>1. PICK new : new = [acct EXCEPT !.active = s, !.tv = acct.tv + 1]
    OBVIOUS
  <2>2. Changed(c, new) /\ Edit
    BY <1>6, <2>1 DEF UpdateUserStatus, Changed
  <2>3. new \in Account /\ new.tv = acct.tv + 1
    BY <1>t, <1>e, <2>1, <2>2, AccountEdits DEF Account
  <2> QED
    BY <1>3, <2>2, <2>3
<1> QED
  BY <1>1, <1>2, <1>4, <1>5, <1>6

\* Registration opens a session of the version that it makes.
LEMMA RegisterKept ==
  ASSUME SessionSound, NEW c \in Calls, NEW k \in Tickets, RegisterComplete(c, k)
  PROVE  SessionSound'
<1>t. acct \in Account /\ acct.tv \in Nat /\ acct.role \in Roles /\ edits \in Nat
  BY SessionsTyped DEF Account, Versions
<1>1. /\ acct.tv + 1 \in Versions /\ edits + 2 \in 0 .. (MaxAccountChanges + 1)
      /\ edits + 1 \in 0 .. MaxAccountChanges
  BY SessionsTyped DEF RegisterComplete, Edit
<1>2. acct' = [acct EXCEPT !.pw = edits + 2, !.tv = acct.tv + 1, !.registered = TRUE]
  BY DEF RegisterComplete
<1>3. acct' \in Account /\ acct'.tv = acct.tv + 1
  BY <1>t, <1>1, <1>2, AccountEdits, ZenonT(60) DEF Account
<1>4. PICK id \in Identity : CallTo(c, [IdleCall EXCEPT !.at = "issue", !.id = id])
  BY <1>t, <1>1 DEF RegisterComplete, CallBegin, CallTo, Identity
<1>5. call' \in [Calls -> Call]
  BY <1>4, SessionsTyped, CallEdits DEF CallTo
<1>6. ticket' \in [Tickets -> Roles \cup {"none"}] /\ edits' \in 0 .. MaxAccountChanges
  BY <1>1, SessionsTyped DEF RegisterComplete, Edit
<1>7. SessTypeOK'
  BY <1>3, <1>5, <1>6, SessionsTyped, CallTyped DEF RegisterComplete
<1>8. VersionCounted'
  BY <1>t, <1>3 DEF RegisterComplete, Edit, VersionCounted, SessionSound
<1>9. [IdleCall EXCEPT !.at = "issue", !.id = id].at = "issue"
  BY DEF IdleCall
<1> QED
  BY <1>4, <1>7, <1>8, <1>9, BeginKept DEF RegisterComplete

LEMMA SessionsStayTyped ==
  ASSUME SessionSound,
         \/ \E c \in Calls : \/ LoginVerify(c) \/ IssueSession(c) \/ RefreshCheck(c)
                             \/ RevokeList(c) \/ RevokeRead(c) \/ RevokeDelete(c) \/ CallEnd(c)
                             \/ \E t \in Tokens : Rotate(c, t)
         \/ \E t \in Tokens : RotateReplay(t) \/ Logout(t)
         \/ \E k \in Tickets : RegisterCheck(k)
         \/ ForgotPassword \/ AppointTenantAdmin
         \/ UNCHANGED sessVars
  PROVE  SessTypeOK'
<1>t. /\ acct \in Account
      /\ refresh \in [Tokens -> Identity]
      /\ famOf \in [Tokens -> {NoFamily} \cup Families]
      /\ family \in [Families -> {NoToken} \cup Tokens]
      /\ index \in SUBSET Families /\ ended \in SUBSET Families
      /\ claims \in SUBSET [sid : Families, id : Identity]
      /\ ticket \in [Tickets -> Roles \cup {"none"}]
      /\ reset \in {0} \cup Versions
      /\ call \in [Calls -> Call]
      /\ edits \in 0 .. MaxAccountChanges
      /\ Current \in Identity
  BY SessionsTyped
<1>i. \A c : CallTo(c, IdleCall) => call' \in [Calls -> Call]
  BY <1>t, SessionRowsTyped DEF CallTo
<1>d. ASSUME NEW t \in Tokens, famOf[t] # NoFamily, Dropped(t)
      PROVE  /\ refresh' \in [Tokens -> Identity]
             /\ family' \in [Families -> {NoToken} \cup Tokens]
             /\ ended' \in SUBSET Families
  <2>1. famOf[t] \in Families
    BY <1>t, <1>d
  <2>2. \A u \in Tokens : refresh'[u] \in {refresh[u], NoIdentity}
    BY <1>d DEF Dropped
  <2>3. refresh' \in [Tokens -> Identity]
    BY <1>t, <1>d, SessionRowsTyped DEF Dropped
  <2> QED
    BY <1>t, <1>d, <2>1, <2>3 DEF Dropped
<1>1. ASSUME NEW c \in Calls, LoginVerify(c) PROVE SessTypeOK'
  <2>1. call' \in [Calls -> Call]
    BY <1>t, <1>1, CallEdits DEF LoginVerify, CallBegin
  <2> QED
    BY <1>t, <1>1, <2>1, CallTyped DEF LoginVerify
<1>2. ASSUME NEW c \in Calls, IssueSession(c) PROVE SessTypeOK'
  <2>1. PICK t \in Tokens, f \in Families :
        /\ refresh' = [refresh EXCEPT ![t] = call[c].id]
        /\ famOf' = [famOf EXCEPT ![t] = f]
        /\ family' = [family EXCEPT ![f] = t]
        /\ index' = index \cup {f}
        /\ claims' = claims \cup {[sid |-> f, id |-> call[c].id]}
    BY <1>2 DEF IssueSession, NextToken, NextFamily
  <2>2. call[c].id \in Identity
    BY <1>t DEF Call
  <2>3. /\ refresh' \in [Tokens -> Identity] /\ famOf' \in [Tokens -> {NoFamily} \cup Families]
        /\ family' \in [Families -> {NoToken} \cup Tokens]
    BY <1>t, <2>1, <2>2
  <2>4. index' \in SUBSET Families /\ claims' \in SUBSET [sid : Families, id : Identity]
    BY <1>t, <2>1, <2>2
  <2> QED
    BY <1>t, <1>i, <1>2, <2>3, <2>4 DEF IssueSession, SessTypeOK
<1>3. ASSUME NEW c \in Calls, RefreshCheck(c) PROVE SessTypeOK'
  <2>1. PICK t \in Tokens : t = call[c].token /\ famOf[t] \in Families /\ famOf[t] # NoFamily
    <3>1. /\ call[c].token \in Tokens
          /\ [sid |-> famOf[call[c].token], id |-> call[c].id] \in claims
      BY <1>3 DEF SessionSound, IdentityKept, RefreshCheck
    <3>2. famOf[call[c].token] \in Families
      BY <1>t, <3>1
    <3> QED
      BY <3>1, <3>2, SessionsAssumption DEF NoFamily
  <2>2. CASE claims' = claims \cup {[sid |-> famOf[t], id |-> Current]} /\ UNCHANGED redisVars
    <3>1. claims' \in SUBSET [sid : Families, id : Identity]
      BY <1>t, <2>1, <2>2
    <3> QED
      BY <1>t, <1>i, <1>3, <2>2, <3>1 DEF RefreshCheck, SessTypeOK, redisVars
  <2>3. CASE Dropped(t) /\ index' = index \ {famOf[t]} /\ UNCHANGED <<famOf, claims>>
    BY <1>t, <1>i, <1>d, <1>3, <2>1, <2>3 DEF RefreshCheck, SessTypeOK
  <2> QED
    BY <1>3, <2>1, <2>2, <2>3 DEF RefreshCheck
<1>4. ASSUME NEW c \in Calls, RevokeList(c) PROVE SessTypeOK'
  <2>1. call' \in [Calls -> Call]
    BY <1>t, <1>4, CallEdits DEF RevokeList, CallTo
  <2> QED
    BY <1>t, <1>4, <2>1, CallTyped DEF RevokeList
<1>5. ASSUME NEW c \in Calls, RevokeRead(c) PROVE SessTypeOK'
  <2>1. PICK f \in call[c].todo :
          call' = [call EXCEPT ![c] = [call[c] EXCEPT !.at = "delete", !.sid = f,
                                         !.token = family[f], !.todo = call[c].todo \ {f}]]
    BY <1>5 DEF RevokeRead, CallTo
  <2>2. call[c].todo \subseteq Families
    BY <1>t DEF Call
  <2>3. call' \in [Calls -> Call]
    BY <1>t, <2>1, <2>2, CallEdits
  <2> QED
    BY <1>t, <1>5, <2>3, CallTyped DEF RevokeRead
<1>6. ASSUME NEW c \in Calls, RevokeDelete(c) PROVE SessTypeOK'
  <2>1. call' \in [Calls -> Call]
    BY <1>t, <1>6, CallEdits DEF RevokeDelete, CallTo
  <2>2. call[c].sid \in Families
    BY <1>6 DEF SessionSound, OpenedOnce, RevokeDelete
  <2>3. refresh' \in [Tokens -> Identity]
    BY <1>t, <1>6, SessionRowsTyped DEF RevokeDelete
  <2>4. family' \in [Families -> {NoToken} \cup Tokens]
    BY <1>t, <1>6 DEF RevokeDelete
  <2> QED
    BY <1>t, <1>6, <2>1, <2>2, <2>3, <2>4 DEF RevokeDelete, SessTypeOK
<1>7. ASSUME NEW c \in Calls, CallEnd(c) PROVE SessTypeOK'
  BY <1>t, <1>i, <1>7, CallTyped DEF CallEnd
<1>8. ASSUME NEW c \in Calls, NEW t \in Tokens, Rotate(c, t) PROVE SessTypeOK'
  <2>1. PICK n \in Tokens :
          /\ refresh' = [refresh EXCEPT ![t] = NoIdentity, ![n] = refresh[t]]
          /\ famOf' = [famOf EXCEPT ![n] = famOf[t]]
          /\ family' = [family EXCEPT ![famOf[t]] = n]
          /\ call' = [call EXCEPT ![c] = [IdleCall EXCEPT !.at = "rotated", !.token = n,
                                                          !.id = refresh[t]]]
    BY <1>8 DEF Rotate, CallBegin, NextToken
  <2>2. famOf[t] \in Families
    BY <1>t, <1>8 DEF Rotate
  <2>3. /\ refresh' \in [Tokens -> Identity] /\ famOf' \in [Tokens -> {NoFamily} \cup Families]
        /\ family' \in [Families -> {NoToken} \cup Tokens]
    BY <1>t, <2>1, <2>2, SessionRowsTyped
  <2>4. call' \in [Calls -> Call]
    BY <1>t, <2>1, CallEdits
  <2> QED
    <3>1. index' \in SUBSET Families
      BY <1>t, <1>8, <2>2 DEF Rotate
    <3>2. UNCHANGED <<acct, claims, ticket, reset, ended, edits>>
      BY <1>8 DEF Rotate
    <3> QED
      BY <1>t, <2>3, <2>4, <3>1, <3>2 DEF SessTypeOK
<1>9. ASSUME NEW t \in Tokens, RotateReplay(t) \/ Logout(t) PROVE SessTypeOK'
  BY <1>t, <1>d, <1>9 DEF RotateReplay, Logout, SessTypeOK
<1>10. ASSUME NEW k \in Tickets, RegisterCheck(k) PROVE SessTypeOK'
  <2>1. acct.role \in Roles
    BY <1>t DEF Account
  <2>2. ticket' \in [Tickets -> Roles \cup {"none"}]
    BY <1>t, <1>10, <2>1 DEF RegisterCheck
  <2> QED
    BY <1>t, <1>10, <2>2, CallTyped DEF RegisterCheck
<1>11. CASE ForgotPassword
  <2>1. acct.tv \in Versions
    BY <1>t DEF Account
  <2> QED
    BY <1>t, <1>11, <2>1, CallTyped DEF ForgotPassword
<1>12. CASE AppointTenantAdmin
  <2>1. /\ acct.tv + 1 \in Versions /\ edits' \in 0 .. MaxAccountChanges
        /\ "class_admin" \in Roles
    BY <1>12, SessionsTyped, SessionsAssumption DEF AppointTenantAdmin, Edit
  <2>2. acct' = [acct EXCEPT !.role = "class_admin", !.active = TRUE, !.tv = acct.tv + 1]
    BY <1>12 DEF AppointTenantAdmin
  <2>3. \A pw \in 0 .. (MaxAccountChanges + 1) : acct' \in Account
    BY <1>t, <2>1, <2>2, AccountEdits
  <2>4. 0 \in 0 .. (MaxAccountChanges + 1)
    BY SessionsAssumption
  <2>5. acct' \in Account
    BY <2>3, <2>4
  <2> QED
    BY <1>t, <1>12, <2>1, <2>5, CallTyped DEF AppointTenantAdmin
<1>13. CASE UNCHANGED sessVars
  BY <1>t, <1>13 DEF sessVars, SessTypeOK
<1> QED
  BY <1>1, <1>2, <1>3, <1>4, <1>5, <1>6, <1>7, <1>8, <1>9, <1>10, <1>11, <1>12, <1>13

LEMMA SessionStep == SessionSound /\ [SessNext]_sessVars => SessionSound'
<1> SUFFICES ASSUME SessionSound, [SessNext]_sessVars PROVE SessionSound'
  OBVIOUS
<1>v. UNCHANGED <<acct, edits>> => VersionCounted'
  BY DEF SessionSound, VersionCounted
<1>1. ASSUME NEW c \in Calls, LoginVerify(c) PROVE SessionSound'
  <2>1. CallTo(c, [IdleCall EXCEPT !.at = "issue", !.id = Current])
    BY <1>1 DEF LoginVerify, CallBegin, CallTo
  <2>2. [IdleCall EXCEPT !.at = "issue", !.id = Current].at = "issue"
    BY DEF IdleCall
  <2> QED
    BY <1>v, <1>1, <2>1, <2>2, SessionsStayTyped, BeginKept DEF LoginVerify
<1>2. ASSUME NEW c \in Calls, CallEnd(c) PROVE SessionSound'
  BY <1>v, <1>2, SessionsStayTyped, BeginKept, SessionRowsTyped DEF CallEnd
<1>3. ASSUME NEW c \in Calls,
             \/ IssueSession(c) \/ RefreshCheck(c) \/ RevokeList(c) \/ RevokeRead(c)
             \/ RevokeDelete(c) \/ \E t \in Tokens : Rotate(c, t)
      PROVE  SessionSound'
  <2>1. SessTypeOK'
    BY <1>3, SessionsStayTyped
  <2> QED
    BY <1>3, <2>1, IssueKept, RefreshCheckKept, ListKept, ReadKept, RevokeDeleteKept, RotateKept
<1>4. ASSUME NEW t \in Tokens, RotateReplay(t) \/ Logout(t) PROVE SessionSound'
  <2>1. SessTypeOK'
    BY <1>4, SessionsStayTyped
  <2> QED
    BY <1>4, <2>1, DroppedKept DEF RotateReplay, Logout
<1>5. CASE (\E k \in Tickets : RegisterCheck(k)) \/ ForgotPassword
  <2>1. SessTypeOK'
    BY <1>5, SessionsStayTyped
  <2> QED
    BY <1>v, <1>5, <2>1, CallOnlyKept DEF RegisterCheck, ForgotPassword
<1>6. CASE AppointTenantAdmin
  <2>1. SessTypeOK'
    BY <1>6, SessionsStayTyped
  <2>2. acct \in Account /\ edits \in Nat /\ acct.tv \in Nat
    BY SessionsTyped DEF Account, Versions
  <2>3. acct'.tv = acct.tv + 1 /\ edits' = edits + 1
    BY <1>6, <2>2 DEF AppointTenantAdmin, Edit, Account
  <2>4. VersionCounted'
    BY <2>2, <2>3 DEF VersionCounted, SessionSound
  <2> QED
    BY <1>6, <2>1, <2>4, CallOnlyKept DEF AppointTenantAdmin
<1>7. CASE UNCHANGED sessVars
  <2>1. SessTypeOK'
    BY <1>7, SessionsStayTyped
  <2> QED
    BY <1>v, <1>7, <2>1, CallOnlyKept DEF sessVars, redisVars
<1> QED
  BY <1>1, <1>2, <1>3, <1>4, <1>5, <1>6, <1>7, AccountChangesKept, RegisterKept DEF SessNext

\* However logins, rotations, replays, logouts, revocations and changes of the account
\* interleave, and wherever a call dies: a family that ended has no usable token again, the
\* index lists every usable session, and every access token of a session carries the
\* identity it was opened with (auth/session.go, auth/service.go).
THEOREM SessionsEndForGood == SessSpec => []SessionInv
<1>1. SessSpec => []SessionSound
  BY SessionStarts, SessionStep, PTL DEF SessSpec
<1>2. SessionSound => SessionInv
  BY DEF SessionSound, FamiliesSound, OpenedOnce, IdentityKept, SessionInv, EndedStaysEnded,
         IndexCovers, SessionKeepsIdentity, Usable
<1> QED
  BY <1>1, <1>2, PTL

-----------------------------------------------------------------------------
(* Mail to the verified address                                            *)

InSend(w) == mtx[w].at \in {"reserved", "called", "recorded", "lost"}

\* Who reserves is alone, and what it reserves is in no mail yet.
PrepareAlone ==
  \A w \in Mailers : mtx[w].at = "prepare" =>
    /\ PendingBatches = {}
    /\ \A v \in Mailers : mtx[v].at = "prepare" => v = w
    /\ \A e \in mtx[w].items : note[e].batch = NoBatch

OnePending == \A b, c \in PendingBatches : b = c

\* Who sends holds the row of a pending batch, and the events it carries are of it.
SendersHold ==
  \A w \in Mailers : InSend(w) =>
    /\ mtx[w].batch \in PendingBatches
    /\ \A v \in Mailers : InSend(v) => v = w
    /\ mtx[w].items \cap mtx[w].back = {}
    /\ \A e \in mtx[w].items \cup mtx[w].back : note[e].batch = mtx[w].batch
    /\ \A e \in mtx[w].back : mailed[e] = 0

\* An event that was mailed stays in its batch, whose mail was accepted.
NotesSound ==
  \A e \in Events :
    /\ note[e].st \in {"none", "pending"} => note[e].batch = NoBatch
    /\ mailed[e] <= 1
    /\ mailed[e] # 0 => note[e].batch \in BatchIds /\ accepted[note[e].batch] = 1

\* What the provider accepted is sent or unresolved in the ledger.
LedgerSound ==
  \A b \in BatchIds :
    /\ accepted[b] <= 1
    /\ accepted[b] # 0 => ledger[b] \in {"queued", "sent"}
    /\ ledger[b] = "sent" \/ batch[b].st = "sent" => accepted[b] = 1
    /\ batch[b].st = "none" => ledger[b] = "none"

\* What an attempt knows of its outcome.
AttemptKnown ==
  \A w \in Mailers :
    LET tx == mtx[w] IN
    /\ tx.at = "reserved" => accepted[tx.batch] = 0
    /\ tx.at \in {"reserved", "called"} => ledger[tx.batch] = "queued"
    /\ tx.at \in {"called", "recorded", "lost"} /\ tx.out = "sent" => accepted[tx.batch] = 1
    /\ tx.at = "called" /\ tx.out \in {"rejected", "suppressed"} => accepted[tx.batch] = 0
    /\ tx.at = "called" => tx.out # "none"
    /\ tx.at = "recorded" /\ tx.out = "sent" => ledger[tx.batch] = "sent"

\* An attempt that may still count finds room in the day, since nothing else is pending.
RoomKept ==
  /\ sentToday <= DailyLimit
  /\ \A b \in PendingBatches : ledger[b] \in {"queued", "sent"} => sentToday < DailyLimit

MailSound ==
  /\ MailTypeOK
  /\ PrepareAlone
  /\ OnePending
  /\ SendersHold
  /\ NotesSound
  /\ LedgerSound
  /\ AttemptKnown
  /\ RoomKept

-----------------------------------------------------------------------------
(* Types and the initial state                                             *)

\* Whatever the channel, the outcome of a call says no more than the provider did.
LEMMA AnswersKnown ==
  ASSUME MailTypeOK
  PROVE  \A ans \in SuppressionAnswers :
           /\ ans.out \in {"sent", "rejected", "suppressed", "unclear"}
           /\ ans.ok \in BOOLEAN
           /\ ans.out = "sent" => ans.ok
           /\ ans.out \in {"rejected", "suppressed"} => ~ans.ok
<1>1. channel \in {"smtp", "resend", "aliyun", "ses"}
  BY MailAssumption DEF MailTypeOK
<1> DEFINE Known(ans) == /\ ans.out \in {"sent", "rejected", "suppressed", "unclear"}
                         /\ ans.ok \in BOOLEAN
                         /\ ans.out = "sent" => ans.ok
                         /\ ans.out \in {"rejected", "suppressed"} => ~ans.ok
<1>2. Known(Refused) /\ Known(Answer("suppressed", FALSE)) /\ Known(Answer("sent", TRUE))
  BY DEF Refused, Answer
<1>3. \A ans \in Lost(BOOLEAN) : Known(ans)
  BY DEF Lost, Answer
<1> HIDE DEF Known
<1>4. \A ans \in SMTPSend \cup ResendSend \cup AliyunSend \cup SESSend : Known(ans)
  BY <1>2, <1>3 DEF SMTPSend, ResendSend, AliyunSend, SESSend
<1>5. ProviderAnswers \in {SMTPSend, ResendSend, AliyunSend, SESSend}
  BY <1>1 DEF ProviderAnswers
<1>6. \A ans \in SuppressionAnswers : Known(ans)
  BY <1>2, <1>4, <1>5 DEF SuppressionAnswers
<1> QED
  BY <1>6 DEF Known

LEMMA MailStarts == MailInit => MailSound
<1> SUFFICES ASSUME MailInit PROVE MailSound
  OBVIOUS
<1> USE DEF MailInit
<1>1. MailTypeOK
  BY MailAssumption DEF MailTypeOK, Note, Batch, MailTx, Idle, Outcome, AllModes
<1>2. PendingBatches = {} /\ \A w \in Mailers : mtx[w].at = "idle"
  BY DEF PendingBatches, Idle
<1>3. PrepareAlone /\ OnePending /\ SendersHold
  BY <1>2 DEF PrepareAlone, OnePending, SendersHold, InSend
<1>4. NotesSound /\ LedgerSound
  BY DEF NotesSound, LedgerSound
<1>5. AttemptKnown
  BY <1>2 DEF AttemptKnown
<1>6. RoomKept
  BY <1>2, MailAssumption DEF RoomKept
<1> QED
  BY <1>1, <1>3, <1>4, <1>5, <1>6 DEF MailSound

\* What a change of one field leaves of a row.
LEMMA RowEdits ==
  /\ \A n \in Note :
       /\ \A st \in {"none", "pending", "batched", "sent", "suppressed"} :
            /\ [n EXCEPT !.st = st] \in Note
            /\ \A b \in BatchIds : [n EXCEPT !.st = st, !.batch = b] \in Note
       /\ \A m \in AllModes : [n EXCEPT !.mode = m] \in Note
  /\ \A r \in Batch :
       /\ \A st \in {"none", "pending", "sent", "suppressed", "failed"} :
            [r EXCEPT !.st = st] \in Batch
       /\ [r EXCEPT !.tries = r.tries + 1] \in Batch
  /\ \A tx \in MailTx :
       \A at \in {"idle", "enqueue", "prepare", "flush", "reserved", "called", "recorded", "lost"} :
         /\ [tx EXCEPT !.at = at] \in MailTx
         /\ \A out \in Outcome : [tx EXCEPT !.at = at, !.out = out] \in MailTx
<1>1. ASSUME NEW r \in Batch PROVE [r EXCEPT !.tries = r.tries + 1] \in Batch
  <2>1. r.tries \in Nat
    BY DEF Batch
  <2>2. r.tries + 1 \in Nat
    BY <2>1
  <2>3. \A n \in Nat : [r EXCEPT !.tries = n] \in Batch
    BY DEF Batch
  <2> QED
    BY <2>2, <2>3
<1> QED
  BY <1>1 DEF Note, Batch, MailTx

LEMMA QueueTyped ==
  ASSUME MailSound, MailNext
  PROVE  MailTypeOK'
<1> USE MailAssumption DEF MailSound, MailTypeOK, queueVars, providerVars, settingVars
<1>i. Idle \in MailTx
  BY DEF Idle, MailTx, Outcome
<1>e. \A w : End(w) => mtx' \in [Mailers -> MailTx]
  BY <1>i DEF End
<1>r. \A back \in SUBSET Events : mode \in AllModes => Requeued(back) \in [Events -> Note]
  BY DEF Requeued, Note
<1>f. ASSUME NEW b, NEW st \in {"sent", "suppressed", "failed"}, NEW rows \in [Events -> Note],
             Finished(b, st, rows)
      PROVE  /\ batch' \in [BatchIds -> Batch] /\ note' \in [Events -> Note]
             /\ sentToday' \in Nat
  <2>1. batch' \in [BatchIds -> Batch]
    <3>1. b \in BatchIds => [batch[b] EXCEPT !.st = st] \in Batch
      BY RowEdits
    <3>2. batch' = [batch EXCEPT ![b] = [batch[b] EXCEPT !.st = st]]
      BY <1>f DEF Finished
    <3> QED
      BY <3>1, <3>2
  <2>2. \A e \in Events : [rows[e] EXCEPT !.st = IF st = "sent" THEN "sent" ELSE "suppressed"]
                            \in Note
    BY RowEdits
  <2> QED
    BY <1>f, <2>1, <2>2 DEF Finished
<1>1. ASSUME NEW e \in Events, OutboxCreate(e) PROVE MailTypeOK'
  BY <1>1 DEF OutboxCreate
<1>2. ASSUME NEW w \in Mailers, NEW e \in Events, EnqueueRead(w, e) PROVE MailTypeOK'
  BY <1>2 DEF EnqueueRead, Begin, Idle, MailTx, Outcome
<1>3. ASSUME NEW w \in Mailers, EnqueueWrite(w) PROVE MailTypeOK'
  BY <1>3, <1>e DEF EnqueueWrite, Note
<1>4. ASSUME NEW w \in Mailers, PrepareRead(w) PROVE MailTypeOK'
  <2>1. PICK items \in SUBSET Events :
          mtx' = [mtx EXCEPT ![w] = [Idle EXCEPT !.at = "prepare", !.items = items]]
    BY <1>4 DEF PrepareRead, Begin, Is
  <2>2. [Idle EXCEPT !.at = "prepare", !.items = items] \in MailTx
    BY DEF Idle, MailTx, Outcome
  <2> QED
    BY <1>4, <2>1, <2>2 DEF PrepareRead
<1>5. ASSUME NEW w \in Mailers, PrepareWrite(w) PROVE MailTypeOK'
  <2>1. PICK b \in BatchIds :
          /\ batch' = [batch EXCEPT ![b] = [st |-> "pending", tries |-> 0]]
          /\ note' = [e \in Events |->
                        IF e \in mtx[w].items
                        THEN [note[e] EXCEPT !.st = "batched", !.batch = b] ELSE note[e]]
    BY <1>5 DEF PrepareWrite
  <2>2. [st |-> "pending", tries |-> 0] \in Batch
    BY DEF Batch
  <2>3. batch' \in [BatchIds -> Batch]
    BY <2>1, <2>2, ZenonT(60)
  <2>4. note' \in [Events -> Note]
    BY <2>1, RowEdits
  <2> QED
    BY <1>5, <1>e, <2>3, <2>4 DEF PrepareWrite
<1>6. ASSUME NEW w \in Mailers, NEW b \in BatchIds, SendReserve(w, b) PROVE MailTypeOK'
  <2>1. PICK told \in SUBSET Events, back \in SUBSET Events :
          mtx' = [mtx EXCEPT ![w] = [at |-> "reserved", batch |-> b, items |-> told,
                                     back |-> back, out |-> "none"]]
    <3>1. PICK live \in SUBSET ItemsOf(b) :
            LET told == {e \in live : note[e].mode = mode}
            IN Begin(w, [at |-> "reserved", batch |-> b, items |-> told,
                         back |-> live \ told, out |-> "none"])
      BY <1>6 DEF SendReserve
    <3> QED
      BY <3>1 DEF Begin, ItemsOf, Is
  <2>2. [at |-> "reserved", batch |-> b, items |-> told, back |-> back, out |-> "none"] \in MailTx
    BY DEF MailTx, Outcome
  <2> QED
    BY <1>6, <2>1, <2>2 DEF SendReserve
<1>7. ASSUME NEW w \in Mailers, ProviderSend(w) PROVE MailTypeOK'
  <2>1. PICK ans \in SuppressionAnswers :
          /\ mtx' = [mtx EXCEPT ![w].at = "called", ![w].out = ans.out]
          /\ \/ /\ accepted' = [accepted EXCEPT ![mtx[w].batch] = @ + 1]
                /\ mailed' = [e \in Events |->
                                IF e \in mtx[w].items THEN mailed[e] + 1 ELSE mailed[e]]
             \/ UNCHANGED <<accepted, mailed>>
          /\ blocked' = (blocked \/ ans.out = "suppressed")
    BY <1>7 DEF ProviderSend
  <2>2. ans.out \in Outcome
    BY AnswersKnown DEF Outcome
  <2>3. mtx' = [mtx EXCEPT ![w] = [mtx[w] EXCEPT !.at = "called", !.out = ans.out]]
    BY <2>1
  <2>4. [mtx[w] EXCEPT !.at = "called", !.out = ans.out] \in MailTx
    BY <2>2, RowEdits
  <2>5. mtx' \in [Mailers -> MailTx]
    BY <2>3, <2>4
  <2>6. accepted' \in [BatchIds -> Nat] /\ mailed' \in [Events -> Nat]
    BY <2>1
  <2>7. blocked' \in BOOLEAN
    BY <2>1
  <2> QED
    BY <1>7, <2>5, <2>6, <2>7 DEF ProviderSend
<1>8. ASSUME NEW w \in Mailers, FinishDelivery(w) PROVE MailTypeOK'
  <2>1. mtx[w].out \in {"sent", "rejected", "suppressed", "unclear"}
    BY <1>8 DEF FinishDelivery, AttemptKnown, MailTx, Outcome
  <2>2. DeliveryStatus(mtx[w].out) \in {"queued", "sent", "failed", "suppressed"}
    BY <2>1 DEF DeliveryStatus
  <2>3. ledger' \in [BatchIds -> {"none", "queued", "sent", "failed", "suppressed"}]
    BY <1>8, <2>2 DEF FinishDelivery
  <2>4. PICK at \in {"recorded", "lost"} : mtx' = [mtx EXCEPT ![w] = [mtx[w] EXCEPT !.at = at]]
    BY <1>8 DEF FinishDelivery
  <2>5. mtx' \in [Mailers -> MailTx]
    BY <2>4, RowEdits
  <2> QED
    BY <1>8, <2>3, <2>5 DEF FinishDelivery
<1>9. ASSUME NEW w \in Mailers, SendCommit(w) PROVE MailTypeOK'
  <2>1. Requeued(mtx[w].back) \in [Events -> Note] /\ mtx' \in [Mailers -> MailTx]
    BY <1>9, <1>e, <1>r DEF SendCommit, MailTx
  <2>b. PICK b : b = mtx[w].batch
    OBVIOUS
  <2>r. PICK rows \in [Events -> Note] : rows = Requeued(mtx[w].back)
    BY <2>1
  <2>2. ASSUME batch' = [batch EXCEPT ![b].tries = batch[b].tries + 1]
        PROVE  batch' \in [BatchIds -> Batch]
    <3>1. b \in BatchIds => [batch[b] EXCEPT !.tries = batch[b].tries + 1] \in Batch
      BY RowEdits
    <3>2. batch' = [batch EXCEPT ![b] = [batch[b] EXCEPT !.tries = batch[b].tries + 1]]
      BY <2>2
    <3> QED
      BY <3>1, <3>2
  <2>3. \/ \E st \in {"sent", "suppressed", "failed"} : Finished(b, st, rows)
        \/ /\ \/ batch' = [batch EXCEPT ![b].tries = batch[b].tries + 1]
              \/ UNCHANGED batch
           /\ note' = rows /\ UNCHANGED sentToday
    BY <1>9, <2>b, <2>r DEF SendCommit
  <2>4. /\ batch' \in [BatchIds -> Batch] /\ note' \in [Events -> Note]
        /\ sentToday' \in Nat
    <3>1. CASE \E st \in {"sent", "suppressed", "failed"} : Finished(b, st, rows)
      <4> HIDE DEF MailSound, MailTypeOK
      <4> QED
        BY <3>1, <1>f, Zenon
    <3>2. CASE ~\E st \in {"sent", "suppressed", "failed"} : Finished(b, st, rows)
      BY <2>2, <2>3, <3>2
    <3> QED
      BY <3>1, <3>2
  <2> QED
    BY <1>9, <2>1, <2>4 DEF SendCommit
<1>10. ASSUME NEW w \in Mailers, MailerCrash(w) PROVE MailTypeOK'
  BY <1>10, <1>e DEF MailerCrash
<1>11. ASSUME NEW w \in Mailers, FlushNotes(w) PROVE MailTypeOK'
  <2>1. [Idle EXCEPT !.at = "flush"] \in MailTx
    BY <1>i, RowEdits
  <2>2. mtx' \in [Mailers -> MailTx]
    BY <1>11, <2>1 DEF FlushNotes, Begin
  <2>3. note' \in [Events -> Note]
    BY <1>11, RowEdits DEF FlushNotes
  <2> QED
    BY <1>11, <2>2, <2>3 DEF FlushNotes
<1>12. ASSUME NEW w \in Mailers, FlushBatches(w) PROVE MailTypeOK'
  BY <1>12, <1>e DEF FlushBatches, Batch
<1>13. CASE PrepareSuppress
  BY <1>13 DEF PrepareSuppress, Note
<1>14. CASE PrepareReschedule
  <2>1. PICK e \in Events : note' = [note EXCEPT ![e] = [note[e] EXCEPT !.mode = mode]]
    BY <1>14 DEF PrepareReschedule, Is
  <2>2. note' \in [Events -> Note]
    BY <2>1, RowEdits
  <2> QED
    BY <1>14, <2>2 DEF PrepareReschedule
<1>15. ASSUME NEW b \in BatchIds, SendRepair(b) PROVE MailTypeOK'
  BY <1>15, <1>f DEF SendRepair
<1>16. ASSUME NEW b \in BatchIds, SendSuppress(b) PROVE MailTypeOK'
  <2>1. CASE Finished(b, "suppressed", note)
    BY <1>16, <2>1, <1>f DEF SendSuppress
  <2>2. ASSUME NEW live \in SUBSET ItemsOf(b), Finished(b, "suppressed", Requeued(live))
        PROVE  MailTypeOK'
    <3>1. live \in SUBSET Events
      BY DEF ItemsOf, Is
    <3> QED
      BY <1>16, <2>2, <3>1, <1>f, <1>r DEF SendSuppress
  <2> QED
    BY <1>16, <2>1, <2>2 DEF SendSuppress
<1>17. ASSUME NEW b \in BatchIds, Reconcile(b) PROVE MailTypeOK'
  BY <1>17 DEF Reconcile
<1>18. ASSUME NEW b \in BatchIds, SyncFeedback(b) PROVE MailTypeOK'
  BY <1>18 DEF SyncFeedback
<1>19. CASE SwitchMail
  BY <1>19 DEF SwitchMail, Change
<1>20. ASSUME NEW wish \in BOOLEAN, NEW m \in AllModes, SavePreferences(wish, m) PROVE MailTypeOK'
  BY <1>20 DEF SavePreferences, Change, Note
<1>21. CASE MailOptOut
  <2>1. mode \in AllModes /\ "off" \in AllModes
    BY DEF AllModes
  <2> QED
    BY <1>21, <1>20, <2>1 DEF MailOptOut
<1>22. CASE NewDay
  BY <1>22 DEF NewDay, Change
<1> QED
  BY <1>1, <1>2, <1>3, <1>4, <1>5, <1>6, <1>7, <1>8, <1>9, <1>10, <1>11, <1>12, <1>13, <1>14,
     <1>15, <1>16, <1>17, <1>18, <1>19, <1>20, <1>21, <1>22 DEF MailNext

-----------------------------------------------------------------------------
(* One action at a time                                                    *)

\* While somebody sends, its batch is all there is.
LEMMA SenderAlone ==
  ASSUME MailSound, NEW w \in Mailers, InSend(w)
  PROVE  /\ mtx[w].batch \in BatchIds
         /\ PendingBatches = {mtx[w].batch}
         /\ \A v \in Mailers : mtx[v].at # "prepare"
         /\ \A v \in Mailers : InSend(v) => v = w
<1>1. mtx[w].batch \in PendingBatches /\ \A v \in Mailers : InSend(v) => v = w
  BY DEF MailSound, SendersHold
<1>2. PendingBatches = {mtx[w].batch}
  BY <1>1 DEF MailSound, OnePending
<1>3. mtx[w].batch \in BatchIds
  BY <1>1 DEF PendingBatches
<1> QED
  BY <1>1, <1>2, <1>3 DEF MailSound, PrepareAlone

LEMMA OutboxCreateKept ==
  ASSUME MailSound, MailTypeOK', NEW e \in Events, OutboxCreate(e)
  PROVE  MailSound'
<1> USE MailAssumption DEF MailSound, MailTypeOK, Note, Batch, MailTx, NoBatch
<1> USE DEF OutboxCreate, queueVars, providerVars, settingVars
<1>1. PrepareAlone'
  BY DEF PrepareAlone, PendingBatches
<1>2. OnePending'
  BY DEF OnePending, PendingBatches
<1>3. SendersHold'
  BY DEF SendersHold, InSend, PendingBatches
<1>4. NotesSound'
  BY DEF NotesSound
<1>5. LedgerSound'
  BY DEF LedgerSound
<1>6. AttemptKnown'
  BY DEF AttemptKnown
<1>7. RoomKept'
  BY DEF RoomKept, PendingBatches
<1> QED
  BY <1>1, <1>2, <1>3, <1>4, <1>5, <1>6, <1>7 DEF MailSound

LEMMA EnqueueReadKept ==
  ASSUME MailSound, MailTypeOK', NEW w \in Mailers, NEW e \in Events, EnqueueRead(w, e)
  PROVE  MailSound'
<1> USE MailAssumption DEF MailSound, MailTypeOK, Note, Batch, MailTx, NoBatch
<1> USE DEF EnqueueRead, Begin, Idle, queueVars, providerVars, settingVars
<1>1. PrepareAlone'
  BY DEF PrepareAlone, PendingBatches
<1>2. OnePending'
  BY DEF OnePending, PendingBatches
<1>3. SendersHold'
  BY DEF SendersHold, InSend, PendingBatches
<1>4. NotesSound'
  BY DEF NotesSound
<1>5. LedgerSound'
  BY DEF LedgerSound
<1>6. AttemptKnown'
  BY DEF AttemptKnown
<1>7. RoomKept'
  BY DEF RoomKept, PendingBatches
<1> QED
  BY <1>1, <1>2, <1>3, <1>4, <1>5, <1>6, <1>7 DEF MailSound

\* A row is dropped where it is, or it is new and in no batch.
LEMMA EnqueueWriteKept ==
  ASSUME MailSound, MailTypeOK', NEW w \in Mailers, EnqueueWrite(w)
  PROVE  MailSound'
<1> USE MailAssumption DEF MailSound, MailTypeOK, Note, Batch, MailTx, NoBatch
<1> USE DEF EnqueueWrite, End, Idle, Is, queueVars, providerVars, settingVars
<1>e. PICK e, dropped :
        note' = [d \in Events |->
                   IF d \in dropped THEN [note[d] EXCEPT !.st = "suppressed"]
                   ELSE IF d = e /\ note[e].st = "none"
                        THEN [st |-> "pending", mode |-> mode, batch |-> NoBatch]
                        ELSE note[d]]
  <2> DEFINE x == CHOOSE y \in mtx[w].items : TRUE
             gone == {d \in Is("pending") : Entity(d) = Entity(x)}
  <2>1. note' = [d \in Events |->
                   IF d \in gone THEN [note[d] EXCEPT !.st = "suppressed"]
                   ELSE IF d = x /\ note[x].st = "none"
                        THEN [st |-> "pending", mode |-> mode, batch |-> NoBatch]
                        ELSE note[d]]
    BY Zenon
  <2> HIDE DEF x, gone, EnqueueWrite, MailTypeOK
  <2> QED
    BY <2>1, Zenon
<1>c. mtx' = [mtx EXCEPT ![w] = Idle] /\ UNCHANGED <<batch, ledger, accepted, mailed, sentToday>>
  OBVIOUS
<1> HIDE DEF EnqueueWrite, End
<1>a. \A d \in Events : \/ note'[d] = note[d]
                        \/ note'[d].st = "suppressed" /\ note'[d].batch = note[d].batch
                        \/ /\ note[d].st = "none"
                           /\ note'[d].st = "pending" /\ note'[d].batch = NoBatch
  BY <1>e
<1>b. \A d \in Events : /\ note'[d].batch = note[d].batch
                        /\ note'[d].st \in {"none", "pending"} => note'[d].batch = NoBatch
  <2> HIDE DEF MailTypeOK
  <2> QED
    BY <1>a DEF NotesSound
<1>1. PrepareAlone'
  BY <1>b, <1>c DEF PrepareAlone, PendingBatches
<1>2. OnePending'
  BY <1>b, <1>c DEF OnePending, PendingBatches
<1>3. SendersHold'
  BY <1>b, <1>c DEF SendersHold, InSend, PendingBatches
<1>4. NotesSound'
  BY <1>b, <1>c DEF NotesSound
<1>5. LedgerSound'
  BY <1>b, <1>c DEF LedgerSound
<1>6. AttemptKnown'
  BY <1>b, <1>c DEF AttemptKnown
<1>7. RoomKept'
  BY <1>b, <1>c DEF RoomKept, PendingBatches
<1> QED
  BY <1>1, <1>2, <1>3, <1>4, <1>5, <1>6, <1>7 DEF MailSound

LEMMA PrepareReadKept ==
  ASSUME MailSound, MailTypeOK', NEW w \in Mailers, PrepareRead(w)
  PROVE  MailSound'
<1> USE MailAssumption DEF MailSound, MailTypeOK, Note, Batch, MailTx, NoBatch
<1> USE DEF PrepareRead, Begin, Idle, RecipientFree, Is, queueVars, providerVars, settingVars
<1>1. PrepareAlone'
  BY DEF PrepareAlone, PendingBatches, NotesSound
<1>2. OnePending'
  BY DEF OnePending, PendingBatches
<1>3. SendersHold'
  BY DEF SendersHold, InSend, PendingBatches
<1>4. NotesSound'
  BY DEF NotesSound
<1>5. LedgerSound'
  BY DEF LedgerSound
<1>6. AttemptKnown'
  BY DEF AttemptKnown
<1>7. RoomKept'
  BY DEF RoomKept, PendingBatches
<1> QED
  BY <1>1, <1>2, <1>3, <1>4, <1>5, <1>6, <1>7 DEF MailSound

\* The batch is the only pending one, and what it takes was in no mail.
LEMMA PrepareWriteKept ==
  ASSUME MailSound, MailTypeOK', NEW w \in Mailers, PrepareWrite(w)
  PROVE  MailSound'
<1> USE MailAssumption DEF MailSound, MailTypeOK, Note, Batch, MailTx, NoBatch
<1> USE DEF PrepareWrite, End, Idle, queueVars, providerVars, settingVars
<1>a. PICK b \in BatchIds :
        /\ batch[b].st = "none"
        /\ batch' = [batch EXCEPT ![b] = [st |-> "pending", tries |-> 0]]
        /\ note' = [e \in Events |->
                      IF e \in mtx[w].items
                      THEN [note[e] EXCEPT !.st = "batched", !.batch = b] ELSE note[e]]
  OBVIOUS
<1>d. /\ mtx' = [mtx EXCEPT ![w] = Idle] /\ mtx[w].at = "prepare"
      /\ UNCHANGED <<ledger, accepted, mailed, sentToday>>
  OBVIOUS
<1>b. /\ PendingBatches = {}
      /\ \A v \in Mailers : ~InSend(v)
      /\ \A v \in Mailers : mtx[v].at = "prepare" => v = w
  BY DEF PrepareAlone, SendersHold
<1> HIDE DEF PrepareWrite, End
<1>c. /\ \A c \in BatchIds : batch'[c].st = IF c = b THEN "pending" ELSE batch[c].st
      /\ PendingBatches' = {b}
  <2>1. batch'[b].st = "pending" /\ \A c \in BatchIds : c # b => batch'[c] = batch[c]
    BY <1>a
  <2>2. \A c \in BatchIds : batch[c].st # "pending"
    BY <1>b DEF PendingBatches
  <2>3. \A c \in BatchIds : batch'[c].st = IF c = b THEN "pending" ELSE batch[c].st
    BY <2>1
  <2>4. \A c \in BatchIds : batch'[c].st = "pending" <=> c = b
    BY <2>2, <2>3
  <2>5. PendingBatches' = {b}
    BY <2>4, Zenon DEF PendingBatches
  <2> QED
    BY <2>3, <2>5
<1>e. \A e \in Events :
        \/ note'[e] = note[e]
        \/ note'[e].st = "batched" /\ note[e].batch = NoBatch
  <2>1. \A e \in mtx[w].items : note[e].batch = NoBatch
    BY <1>d DEF PrepareAlone
  <2>2. \A e \in Events : e \in mtx[w].items => note'[e].st = "batched"
    <3> SUFFICES ASSUME NEW e \in Events, e \in mtx[w].items
                 PROVE  note'[e].st = "batched"
      OBVIOUS
    <3>1. PICK n \in Note : n = note[e]
      OBVIOUS
    <3>2. [n EXCEPT !.st = "batched", !.batch = b].st = "batched"
      OBVIOUS
    <3>3. note'[e] = [n EXCEPT !.st = "batched", !.batch = b]
      BY <1>a, <3>1
    <3> QED
      BY <3>2, <3>3
  <2> QED
    BY <1>a, <2>1, <2>2
<1>f. \A v \in Mailers : ~InSend(v)' /\ mtx'[v].at # "prepare"
  <2>1. mtx'[w].at = "idle" /\ \A v \in Mailers : v # w => mtx'[v] = mtx[v]
    BY <1>d
  <2> QED
    BY <1>b, <2>1 DEF InSend
<1>1. PrepareAlone'
  BY <1>f DEF PrepareAlone
<1>2. OnePending'
  BY <1>c DEF OnePending
<1>3. SendersHold'
  BY <1>f DEF SendersHold
<1>4. NotesSound'
  BY <1>d, <1>e DEF NotesSound
<1>5. LedgerSound'
  <2>1. ledger[b] = "none" /\ accepted[b] = 0
    BY <1>a DEF LedgerSound
  <2> QED
    BY <1>c, <1>d, <2>1 DEF LedgerSound
<1>6. AttemptKnown'
  BY <1>d, <1>f DEF AttemptKnown, InSend
<1>7. RoomKept'
  BY <1>a, <1>c, <1>d DEF RoomKept, LedgerSound
<1> QED
  BY <1>1, <1>2, <1>3, <1>4, <1>5, <1>6, <1>7 DEF MailSound

\* What is claimed was not accepted, so nothing in it was mailed.
LEMMA SendReserveKept ==
  ASSUME MailSound, MailTypeOK', NEW w \in Mailers, NEW b \in BatchIds, SendReserve(w, b)
  PROVE  MailSound'
<1> USE MailAssumption DEF MailSound, MailTypeOK, Note, Batch, MailTx, NoBatch
<1> USE DEF SendReserve, Begin, Claimable, Sending, StartDelivery, ItemsOf, Is, queueVars,
        providerVars, settingVars
<1>a. PICK told \in SUBSET Events, back \in SUBSET Events :
        /\ mtx' = [mtx EXCEPT ![w] = [at |-> "reserved", batch |-> b, items |-> told,
                                     back |-> back, out |-> "none"]]
        /\ told \cap back = {}
        /\ \A e \in told \cup back : note[e].batch = b
  <2>1. PICK live \in SUBSET ItemsOf(b) :
          LET told == {e \in live : note[e].mode = mode}
          IN Begin(w, [at |-> "reserved", batch |-> b, items |-> told,
                       back |-> live \ told, out |-> "none"])
    OBVIOUS
  <2> DEFINE told == {e \in live : note[e].mode = mode}
             back == live \ told
  <2>2. mtx' = [mtx EXCEPT ![w] = [at |-> "reserved", batch |-> b, items |-> told,
                                   back |-> back, out |-> "none"]]
    BY <2>1
  <2>3. /\ told \in SUBSET Events /\ back \in SUBSET Events /\ told \cap back = {}
        /\ \A e \in told \cup back : note[e].batch = b
    <3> HIDE DEF SendReserve
    <3> QED
      OBVIOUS
  <2> HIDE DEF told, back, SendReserve, Begin, MailTypeOK
  <2> QED
    BY <2>2, <2>3, Zenon
<1>b. /\ b \in PendingBatches /\ accepted[b] = 0 /\ mtx[w].at = "idle"
      /\ \A v \in Mailers : ~InSend(v)
  <2>1. b \in PendingBatches /\ mtx[w].at = "idle" /\ ledger[b] \notin {"sent", "queued"}
    BY DEF PendingBatches
  <2>2. accepted[b] = 0
    BY <2>1 DEF LedgerSound
  <2>3. \A v \in Mailers : InSend(v) => mtx[v].batch = b
    <3> HIDE DEF SendReserve, MailTypeOK
    <3> QED
      BY <2>1 DEF SendersHold, OnePending
  <2>4. \A v \in Mailers : ~InSend(v)
    BY <2>3 DEF InSend
  <2> QED
    BY <2>1, <2>2, <2>4
<1>1. PrepareAlone'
  BY DEF PrepareAlone, PendingBatches
<1>2. OnePending'
  BY DEF OnePending, PendingBatches
<1>3. SendersHold'
  <2>1. \A e \in Events : note[e].batch = b => mailed[e] = 0
    BY <1>b DEF NotesSound
  <2>2. PendingBatches' = PendingBatches
    BY DEF PendingBatches
  <2>3. \A v \in Mailers : InSend(v)' => v = w
    BY <1>a, <1>b DEF InSend
  <2> QED
    BY <1>a, <1>b, <2>1, <2>2, <2>3 DEF SendersHold
<1>4. NotesSound'
  BY DEF NotesSound
<1>5. LedgerSound'
  BY DEF LedgerSound
<1>6. AttemptKnown'
  BY DEF AttemptKnown, SendersHold, InSend, LedgerSound
<1>7. RoomKept'
  BY DEF RoomKept, PendingBatches
<1> QED
  BY <1>1, <1>2, <1>3, <1>4, <1>5, <1>6, <1>7 DEF MailSound

\* The one step that mails: its batch was not accepted before.
LEMMA ProviderSendKept ==
  ASSUME MailSound, MailTypeOK', NEW w \in Mailers, ProviderSend(w)
  PROVE  MailSound'
<1> USE MailAssumption DEF MailSound, MailTypeOK, Note, Batch, MailTx, NoBatch
<1> USE DEF ProviderSend, queueVars, providerVars, settingVars
<1>a. PICK ans \in SuppressionAnswers :
        /\ mtx' = [mtx EXCEPT ![w].at = "called", ![w].out = ans.out]
        /\ IF ans.ok THEN /\ accepted' = [accepted EXCEPT ![mtx[w].batch] = @ + 1]
                          /\ mailed' = [e \in Events |->
                               IF e \in mtx[w].items THEN mailed[e] + 1 ELSE mailed[e]]
                     ELSE UNCHANGED <<accepted, mailed>>
  OBVIOUS
<1>b. /\ ans.out \in {"sent", "rejected", "suppressed", "unclear"}
      /\ ans.ok \in BOOLEAN
      /\ ans.out = "sent" => ans.ok
      /\ ans.out \in {"rejected", "suppressed"} => ~ans.ok
  BY AnswersKnown
<1>c. mtx[w].batch \in BatchIds /\ \A v \in Mailers : InSend(v) => v = w
  BY SenderAlone DEF InSend
<1>1. PrepareAlone'
  BY DEF PrepareAlone, PendingBatches
<1>2. OnePending'
  BY DEF OnePending, PendingBatches
<1>3. SendersHold'
  BY DEF SendersHold, InSend, PendingBatches
<1>4. NotesSound'
  BY DEF NotesSound, SendersHold, PrepareAlone, AttemptKnown, InSend, PendingBatches
<1>5. LedgerSound'
  BY DEF LedgerSound, AttemptKnown
<1>6. AttemptKnown'
  <2>1. accepted[mtx[w].batch] = 0 /\ ledger[mtx[w].batch] = "queued"
    BY DEF AttemptKnown
  <2>2. accepted'[mtx[w].batch] = IF ans.ok THEN 1 ELSE 0
    BY <1>a, <1>b, <1>c, <2>1
  <2>3. /\ mtx'[w].at = "called" /\ mtx'[w].out = ans.out /\ mtx'[w].batch = mtx[w].batch
        /\ \A v \in Mailers : v # w => mtx'[v] = mtx[v] /\ ~InSend(v)
    BY <1>a, <1>c
  <2>4. ASSUME NEW v \in Mailers, v # w, mtx[v].at \notin {"reserved", "called", "recorded", "lost"}
        PROVE  AttemptKnown!(v)'
    BY <2>3, <2>4
  <2> QED
    BY <1>b, <2>1, <2>2, <2>3 DEF AttemptKnown, InSend
<1>7. RoomKept'
  BY DEF RoomKept, PendingBatches
<1> QED
  BY <1>1, <1>2, <1>3, <1>4, <1>5, <1>6, <1>7 DEF MailSound

LEMMA FinishDeliveryKept ==
  ASSUME MailSound, MailTypeOK', NEW w \in Mailers, FinishDelivery(w)
  PROVE  MailSound'
<1> USE MailAssumption DEF MailSound, MailTypeOK, Note, Batch, MailTx, NoBatch
<1> USE DEF FinishDelivery, queueVars, providerVars, settingVars
<1>a. PICK at \in {"recorded", "lost"} :
        /\ mtx' = [mtx EXCEPT ![w] = [mtx[w] EXCEPT !.at = at]]
        /\ IF at = "recorded"
           THEN ledger' = [ledger EXCEPT ![mtx[w].batch] = DeliveryStatus(mtx[w].out)]
           ELSE UNCHANGED ledger
  OBVIOUS
<1>b. /\ mtx[w].batch \in BatchIds
      /\ \A v \in Mailers : InSend(v) => v = w
      /\ \A v \in Mailers : mtx[v].at # "prepare"
  BY SenderAlone DEF InSend
<1>c. /\ mtx'[w].at = at /\ mtx'[w].out = mtx[w].out /\ mtx'[w].batch = mtx[w].batch
      /\ mtx'[w].items = mtx[w].items /\ mtx'[w].back = mtx[w].back
      /\ \A v \in Mailers : v # w => mtx'[v] = mtx[v]
      /\ \A v \in Mailers : InSend(v)' => v = w
  BY <1>a, <1>b DEF InSend
<1>d. mtx[w].out \in {"sent", "rejected", "suppressed", "unclear"}
  BY DEF AttemptKnown, Outcome
<1>e. /\ DeliveryStatus("sent") = "sent" /\ DeliveryStatus("rejected") = "failed"
      /\ DeliveryStatus("suppressed") = "suppressed" /\ DeliveryStatus("unclear") = "queued"
  BY DEF DeliveryStatus
<1>f. UNCHANGED <<note, batch, accepted, mailed, sentToday, PendingBatches>>
  BY DEF PendingBatches
<1>g. /\ ledger[mtx[w].batch] = "queued"
      /\ mtx[w].out = "sent" => accepted[mtx[w].batch] = 1
      /\ mtx[w].out \in {"rejected", "suppressed"} => accepted[mtx[w].batch] = 0
      /\ mtx[w].at = "called"
  BY DEF AttemptKnown
<1>h. /\ \A b \in BatchIds : b # mtx[w].batch => ledger'[b] = ledger[b]
      /\ ledger'[mtx[w].batch] =
           IF at = "recorded" THEN DeliveryStatus(mtx[w].out) ELSE ledger[mtx[w].batch]
  BY <1>a, <1>b
<1> HIDE DEF FinishDelivery
<1>1. PrepareAlone'
  BY <1>b, <1>c DEF PrepareAlone
<1>2. OnePending'
  BY <1>f DEF OnePending
<1>3. SendersHold'
  BY <1>c, <1>f, <1>g DEF SendersHold, InSend
<1>4. NotesSound'
  BY <1>f DEF NotesSound
<1>5. LedgerSound'
  <2>1. batch[mtx[w].batch].st = "pending"
    BY SenderAlone, <1>g DEF InSend, PendingBatches
  <2> QED
    BY <1>b, <1>d, <1>e, <1>f, <1>g, <1>h, <2>1 DEF LedgerSound
<1>6. AttemptKnown'
  <2>1. \A v \in Mailers : v # w => mtx'[v].at \notin {"reserved", "called", "recorded", "lost"}
    BY <1>c DEF InSend
  <2> QED
    BY <1>a, <1>b, <1>c, <1>e, <1>f, <1>g, <1>h, <2>1 DEF AttemptKnown
<1>7. RoomKept'
  <2>1. \A b \in BatchIds : ledger'[b] \in {"queued", "sent"} => ledger[b] \in {"queued", "sent"}
    BY <1>g, <1>h
  <2> QED
    BY <1>f, <2>1 DEF RoomKept, PendingBatches
<1> QED
  BY <1>1, <1>2, <1>3, <1>4, <1>5, <1>6, <1>7 DEF MailSound

\* A mail that counts was accepted, and found room in the day.
LEMMA SendCommitKept ==
  ASSUME MailSound, MailTypeOK', NEW w \in Mailers, SendCommit(w)
  PROVE  MailSound'
<1> USE MailAssumption DEF MailSound, MailTypeOK, Note, Batch, MailTx, NoBatch
<1> USE DEF SendCommit, End, Idle, Finished, Requeued, Counts, queueVars, providerVars, settingVars
<1>a. /\ mtx[w].batch \in BatchIds
      /\ PendingBatches = {mtx[w].batch}
      /\ \A v \in Mailers : mtx[v].at # "prepare" /\ (InSend(v) => v = w)
  BY SenderAlone DEF InSend
<1>b. mtx' = [mtx EXCEPT ![w] = Idle] /\ UNCHANGED <<ledger, accepted, mailed>>
  OBVIOUS
<1>c. /\ \A b \in BatchIds : b # mtx[w].batch => batch'[b] = batch[b]
      /\ PendingBatches' \subseteq PendingBatches
  BY DEF PendingBatches
<1>1. PrepareAlone'
  <2>1. \A v \in Mailers : mtx'[v].at # "prepare"
    BY <1>a, <1>b
  <2> QED
    BY <2>1 DEF PrepareAlone
<1>2. OnePending'
  BY DEF OnePending, PendingBatches
<1>3. SendersHold'
  BY DEF SendersHold, InSend, PendingBatches
<1>4. NotesSound'
  BY DEF NotesSound, SendersHold, PrepareAlone, AttemptKnown, InSend, PendingBatches
<1>5. LedgerSound'
  BY DEF LedgerSound, AttemptKnown
<1>6. AttemptKnown'
  BY DEF AttemptKnown
<1>7. RoomKept'
  <2>1. CASE mtx[w].at = "recorded" /\ mtx[w].out = "sent" /\ sentToday' = sentToday + 1
                           /\ PendingBatches' = {}
    <3>1. sentToday < DailyLimit
      BY <1>a, <2>1 DEF RoomKept, AttemptKnown
    <3> QED
      BY <2>1, <3>1 DEF RoomKept
  <2>2. CASE UNCHANGED sentToday
    <3> HIDE DEF SendCommit
    <3> QED
      BY <1>b, <1>c, <2>2 DEF RoomKept
  <2>3. \/ UNCHANGED sentToday
        \/ /\ mtx[w].at = "recorded" /\ mtx[w].out = "sent" /\ sentToday' = sentToday + 1
           /\ batch' = [batch EXCEPT ![mtx[w].batch].st = "sent"]
    OBVIOUS
  <2>4. batch' = [batch EXCEPT ![mtx[w].batch].st = "sent"] => PendingBatches' = {}
    BY <1>a DEF PendingBatches
  <2> QED
    BY <2>1, <2>2, <2>3, <2>4
<1> QED
  BY <1>1, <1>2, <1>3, <1>4, <1>5, <1>6, <1>7 DEF MailSound

LEMMA MailerCrashKept ==
  ASSUME MailSound, MailTypeOK', NEW w \in Mailers, MailerCrash(w)
  PROVE  MailSound'
<1> USE MailAssumption DEF MailSound, MailTypeOK, Note, Batch, MailTx, NoBatch
<1> USE DEF MailerCrash, End, Idle, queueVars, providerVars, settingVars
<1>1. PrepareAlone'
  BY DEF PrepareAlone, PendingBatches
<1>2. OnePending'
  BY DEF OnePending, PendingBatches
<1>3. SendersHold'
  BY DEF SendersHold, InSend, PendingBatches
<1>4. NotesSound'
  BY DEF NotesSound
<1>5. LedgerSound'
  BY DEF LedgerSound
<1>6. AttemptKnown'
  BY DEF AttemptKnown
<1>7. RoomKept'
  BY DEF RoomKept, PendingBatches
<1> QED
  BY <1>1, <1>2, <1>3, <1>4, <1>5, <1>6, <1>7 DEF MailSound

LEMMA FlushNotesKept ==
  ASSUME MailSound, MailTypeOK', NEW w \in Mailers, FlushNotes(w)
  PROVE  MailSound'
<1> USE MailAssumption DEF MailSound, MailTypeOK, Note, Batch, MailTx, NoBatch
<1> USE DEF FlushNotes, Begin, Idle, queueVars, providerVars, settingVars
<1>1. PrepareAlone'
  BY DEF PrepareAlone, PendingBatches
<1>2. OnePending'
  BY DEF OnePending, PendingBatches
<1>3. SendersHold'
  BY DEF SendersHold, InSend, PendingBatches
<1>4. NotesSound'
  BY DEF NotesSound
<1>5. LedgerSound'
  BY DEF LedgerSound
<1>6. AttemptKnown'
  BY DEF AttemptKnown
<1>7. RoomKept'
  BY DEF RoomKept, PendingBatches
<1> QED
  BY <1>1, <1>2, <1>3, <1>4, <1>5, <1>6, <1>7 DEF MailSound

LEMMA FlushBatchesKept ==
  ASSUME MailSound, MailTypeOK', NEW w \in Mailers, FlushBatches(w)
  PROVE  MailSound'
<1> USE MailAssumption DEF MailSound, MailTypeOK, Note, Batch, MailTx, NoBatch
<1> USE DEF FlushBatches, End, Idle, Sending, queueVars, providerVars, settingVars
<1>1. PrepareAlone'
  BY DEF PrepareAlone, PendingBatches
<1>2. OnePending'
  BY DEF OnePending, PendingBatches
<1>3. SendersHold'
  BY DEF SendersHold, InSend, PendingBatches
<1>4. NotesSound'
  BY DEF NotesSound
<1>5. LedgerSound'
  BY DEF LedgerSound
<1>6. AttemptKnown'
  BY DEF AttemptKnown
<1>7. RoomKept'
  BY DEF RoomKept, PendingBatches
<1> QED
  BY <1>1, <1>2, <1>3, <1>4, <1>5, <1>6, <1>7 DEF MailSound

LEMMA PrepareSuppressKept ==
  ASSUME MailSound, MailTypeOK', PrepareSuppress
  PROVE  MailSound'
<1> USE MailAssumption DEF MailSound, MailTypeOK, Note, Batch, MailTx, NoBatch
<1> USE DEF PrepareSuppress, Is, queueVars, providerVars, settingVars
<1>1. PrepareAlone'
  BY DEF PrepareAlone, PendingBatches
<1>2. OnePending'
  BY DEF OnePending, PendingBatches
<1>3. SendersHold'
  BY DEF SendersHold, InSend, PendingBatches
<1>4. NotesSound'
  BY DEF NotesSound
<1>5. LedgerSound'
  BY DEF LedgerSound
<1>6. AttemptKnown'
  BY DEF AttemptKnown
<1>7. RoomKept'
  BY DEF RoomKept, PendingBatches
<1> QED
  BY <1>1, <1>2, <1>3, <1>4, <1>5, <1>6, <1>7 DEF MailSound

LEMMA PrepareRescheduleKept ==
  ASSUME MailSound, MailTypeOK', PrepareReschedule
  PROVE  MailSound'
<1> USE MailAssumption DEF MailSound, MailTypeOK, Note, Batch, MailTx, NoBatch
<1> USE DEF PrepareReschedule, Is, queueVars, providerVars, settingVars
<1>1. PrepareAlone'
  BY DEF PrepareAlone, PendingBatches
<1>2. OnePending'
  BY DEF OnePending, PendingBatches
<1>3. SendersHold'
  BY DEF SendersHold, InSend, PendingBatches
<1>4. NotesSound'
  BY DEF NotesSound
<1>5. LedgerSound'
  BY DEF LedgerSound
<1>6. AttemptKnown'
  BY DEF AttemptKnown
<1>7. RoomKept'
  BY DEF RoomKept, PendingBatches
<1> QED
  BY <1>1, <1>2, <1>3, <1>4, <1>5, <1>6, <1>7 DEF MailSound

LEMMA SendRepairKept ==
  ASSUME MailSound, MailTypeOK', NEW b \in BatchIds, SendRepair(b)
  PROVE  MailSound'
<1> USE MailAssumption DEF MailSound, MailTypeOK, Note, Batch, MailTx, NoBatch
<1> USE DEF SendRepair, Claimable, Sending, Finished, queueVars, providerVars, settingVars
<1>1. PrepareAlone'
  BY DEF PrepareAlone, PendingBatches
<1>2. OnePending'
  BY DEF OnePending, PendingBatches
<1>3. SendersHold'
  BY DEF SendersHold, InSend, PendingBatches
<1>4. NotesSound'
  BY DEF NotesSound
<1>5. LedgerSound'
  BY DEF LedgerSound
<1>6. AttemptKnown'
  BY DEF AttemptKnown
<1>7. RoomKept'
  BY DEF RoomKept, PendingBatches, AttemptKnown, SendersHold, LedgerSound, InSend, OnePending
<1> QED
  BY <1>1, <1>2, <1>3, <1>4, <1>5, <1>6, <1>7 DEF MailSound

LEMMA SendSuppressKept ==
  ASSUME MailSound, MailTypeOK', NEW b \in BatchIds, SendSuppress(b)
  PROVE  MailSound'
<1> USE MailAssumption DEF MailSound, MailTypeOK, Note, Batch, MailTx, NoBatch
<1> USE DEF SendSuppress, Claimable, Sending, Finished, Requeued, ItemsOf, Is, queueVars,
        providerVars, settingVars
<1>a. /\ batch' = [batch EXCEPT ![b].st = "suppressed"]
      /\ UNCHANGED <<ledger, accepted, mailed, mtx, sentToday>>
  OBVIOUS
<1>b. \A e \in Events :
        \/ note'[e] = note[e]
        \/ note'[e].st = "suppressed" /\ note'[e].batch = note[e].batch
        \/ note[e].batch = b /\ note'[e].batch = NoBatch /\ note'[e].st = "pending"
  OBVIOUS
<1>c. /\ \A v \in Mailers : ~InSend(v)
      /\ b \in PendingBatches /\ PendingBatches' = {}
      /\ accepted[b] = 0
  <2>1. b \in PendingBatches /\ ledger[b] \notin {"sent", "queued"}
    BY DEF PendingBatches
  <2>2. accepted[b] = 0
    BY <2>1 DEF LedgerSound
  <2>3. \A v \in Mailers : InSend(v) => mtx[v].batch = b
    <3> HIDE DEF SendSuppress, MailTypeOK
    <3> QED
      BY <2>1 DEF SendersHold, OnePending
  <2>4. \A v \in Mailers : ~InSend(v)
    BY <2>3 DEF InSend
  <2>5. \A c \in BatchIds : c # b => batch[c].st # "pending"
    BY <2>1 DEF OnePending, PendingBatches
  <2>6. PendingBatches' = {}
    <3> HIDE DEF SendSuppress
    <3> QED
      BY <1>a, <2>5 DEF PendingBatches
  <2> QED
    BY <2>1, <2>2, <2>4, <2>6
<1>1. PrepareAlone'
  BY DEF PrepareAlone, PendingBatches
<1>2. OnePending'
  BY DEF OnePending, PendingBatches
<1>3. SendersHold'
  BY DEF SendersHold, InSend, PendingBatches
<1>4. NotesSound'
  <2> HIDE DEF SendSuppress
  <2> QED
    BY <1>a, <1>b, <1>c DEF NotesSound
<1>5. LedgerSound'
  BY DEF LedgerSound
<1>6. AttemptKnown'
  BY DEF AttemptKnown
<1>7. RoomKept'
  <2> HIDE DEF SendSuppress
  <2> QED
    BY <1>a, <1>c DEF RoomKept
<1> QED
  BY <1>1, <1>2, <1>3, <1>4, <1>5, <1>6, <1>7 DEF MailSound

LEMMA ReconcileKept ==
  ASSUME MailSound, MailTypeOK', NEW b \in BatchIds, Reconcile(b)
  PROVE  MailSound'
<1> USE MailAssumption DEF MailSound, MailTypeOK, Note, Batch, MailTx, NoBatch
<1> USE DEF Reconcile, queueVars, providerVars, settingVars
<1>1. PrepareAlone'
  BY DEF PrepareAlone, PendingBatches
<1>2. OnePending'
  BY DEF OnePending, PendingBatches
<1>3. SendersHold'
  BY DEF SendersHold, InSend, PendingBatches
<1>4. NotesSound'
  BY DEF NotesSound
<1>5. LedgerSound'
  BY DEF LedgerSound
<1>6. AttemptKnown'
  BY DEF AttemptKnown
<1>7. RoomKept'
  BY DEF RoomKept, PendingBatches
<1> QED
  BY <1>1, <1>2, <1>3, <1>4, <1>5, <1>6, <1>7 DEF MailSound

LEMMA SyncFeedbackKept ==
  ASSUME MailSound, MailTypeOK', NEW b \in BatchIds, SyncFeedback(b)
  PROVE  MailSound'
<1> USE MailAssumption DEF MailSound, MailTypeOK, Note, Batch, MailTx, NoBatch
<1> USE DEF SyncFeedback, queueVars, providerVars, settingVars
<1>1. PrepareAlone'
  BY DEF PrepareAlone, PendingBatches
<1>2. OnePending'
  BY DEF OnePending, PendingBatches
<1>3. SendersHold'
  BY DEF SendersHold, InSend, PendingBatches
<1>4. NotesSound'
  BY DEF NotesSound
<1>5. LedgerSound'
  BY DEF LedgerSound
<1>6. AttemptKnown'
  BY DEF AttemptKnown
<1>7. RoomKept'
  BY DEF RoomKept, PendingBatches
<1> QED
  BY <1>1, <1>2, <1>3, <1>4, <1>5, <1>6, <1>7 DEF MailSound

LEMMA SwitchMailKept ==
  ASSUME MailSound, MailTypeOK', SwitchMail
  PROVE  MailSound'
<1> USE MailAssumption DEF MailSound, MailTypeOK, Note, Batch, MailTx, NoBatch
<1> USE DEF SwitchMail, Change, queueVars, providerVars, settingVars
<1>1. PrepareAlone'
  BY DEF PrepareAlone, PendingBatches
<1>2. OnePending'
  BY DEF OnePending, PendingBatches
<1>3. SendersHold'
  BY DEF SendersHold, InSend, PendingBatches
<1>4. NotesSound'
  BY DEF NotesSound
<1>5. LedgerSound'
  BY DEF LedgerSound
<1>6. AttemptKnown'
  BY DEF AttemptKnown
<1>7. RoomKept'
  BY DEF RoomKept, PendingBatches
<1> QED
  BY <1>1, <1>2, <1>3, <1>4, <1>5, <1>6, <1>7 DEF MailSound

LEMMA SavePreferencesKept ==
  ASSUME MailSound, MailTypeOK', NEW wish, NEW m, SavePreferences(wish, m)
  PROVE  MailSound'
<1> USE MailAssumption DEF MailSound, MailTypeOK, Note, Batch, MailTx, NoBatch
<1> USE DEF SavePreferences, Change, queueVars, providerVars, settingVars
<1>1. PrepareAlone'
  BY DEF PrepareAlone, PendingBatches
<1>2. OnePending'
  BY DEF OnePending, PendingBatches
<1>3. SendersHold'
  BY DEF SendersHold, InSend, PendingBatches
<1>4. NotesSound'
  BY DEF NotesSound
<1>5. LedgerSound'
  BY DEF LedgerSound
<1>6. AttemptKnown'
  BY DEF AttemptKnown
<1>7. RoomKept'
  BY DEF RoomKept, PendingBatches
<1> QED
  BY <1>1, <1>2, <1>3, <1>4, <1>5, <1>6, <1>7 DEF MailSound

LEMMA NewDayKept ==
  ASSUME MailSound, MailTypeOK', NewDay
  PROVE  MailSound'
<1> USE MailAssumption DEF MailSound, MailTypeOK, Note, Batch, MailTx, NoBatch
<1> USE DEF NewDay, Change, queueVars, providerVars, settingVars
<1>1. PrepareAlone'
  BY DEF PrepareAlone, PendingBatches
<1>2. OnePending'
  BY DEF OnePending, PendingBatches
<1>3. SendersHold'
  BY DEF SendersHold, InSend, PendingBatches
<1>4. NotesSound'
  BY DEF NotesSound
<1>5. LedgerSound'
  BY DEF LedgerSound
<1>6. AttemptKnown'
  BY DEF AttemptKnown
<1>7. RoomKept'
  BY DEF RoomKept, PendingBatches
<1> QED
  BY <1>1, <1>2, <1>3, <1>4, <1>5, <1>6, <1>7 DEF MailSound

-----------------------------------------------------------------------------
(* Theorems                                                                *)

LEMMA MailStep == MailSound /\ [MailNext]_mailVars => MailSound'
<1> SUFFICES ASSUME MailSound, [MailNext]_mailVars PROVE MailSound'
  OBVIOUS
<1>1. CASE UNCHANGED mailVars
  BY <1>1 DEF mailVars, MailSound, MailTypeOK, PrepareAlone, OnePending, SendersHold, NotesSound,
              LedgerSound, AttemptKnown, RoomKept, InSend, PendingBatches
<1>2. CASE MailNext
  <2>1. MailTypeOK'
    BY <1>2, QueueTyped
  <2>2. CASE \E e \in Events : OutboxCreate(e)
    BY <2>1, <2>2, OutboxCreateKept
  <2>3. ASSUME NEW w \in Mailers,
               \/ \E e \in Events : EnqueueRead(w, e)
               \/ EnqueueWrite(w) \/ PrepareRead(w) \/ PrepareWrite(w)
               \/ FlushNotes(w) \/ FlushBatches(w)
        PROVE  MailSound'
    BY <2>1, <2>3, EnqueueReadKept, EnqueueWriteKept, PrepareReadKept, PrepareWriteKept,
       FlushNotesKept, FlushBatchesKept
  <2>4. ASSUME NEW w \in Mailers,
               \/ \E b \in BatchIds : SendReserve(w, b)
               \/ ProviderSend(w) \/ FinishDelivery(w) \/ SendCommit(w) \/ MailerCrash(w)
        PROVE  MailSound'
    BY <2>1, <2>4, SendReserveKept, ProviderSendKept, FinishDeliveryKept, SendCommitKept,
       MailerCrashKept
  <2>5. CASE PrepareSuppress \/ PrepareReschedule \/ SwitchMail \/ NewDay
    BY <2>1, <2>5, PrepareSuppressKept, PrepareRescheduleKept, SwitchMailKept, NewDayKept
  <2>6. ASSUME NEW b \in BatchIds,
               SendRepair(b) \/ SendSuppress(b) \/ Reconcile(b) \/ SyncFeedback(b)
        PROVE  MailSound'
    BY <2>1, <2>6, SendRepairKept, SendSuppressKept, ReconcileKept, SyncFeedbackKept
  <2>7. ASSUME NEW wish, NEW m, SavePreferences(wish, m) PROVE MailSound'
    BY <2>1, <2>7, SavePreferencesKept
  <2>8. CASE MailOptOut
    BY <2>7, <2>8 DEF MailOptOut
  <2> QED
    BY <1>2, <2>2, <2>3, <2>4, <2>5, <2>6, <2>7, <2>8 DEF MailNext
<1> QED
  BY <1>1, <1>2

LEMMA MailAlwaysSound == MailSpec => []MailSound
  BY MailStarts, MailStep, PTL DEF MailSpec

\* No event reaches the mailbox twice, for every number of events, batches, workers and
\* attempts, on every channel (sendBatch, AuditedMailer.Send, ops_start_mail_delivery).
THEOREM MailedOnceAlways == MailSpec => []MailedOnce
<1>1. MailSound => MailedOnce
  BY DEF MailSound, NotesSound, MailedOnce
<1> QED
  BY <1>1, MailAlwaysSound, PTL

\* Queue and ledger agree: one mail at a time, within the day's limit, and what was accepted
\* is never called unsent (prepareBatch, recorder.Finish, reconcileOpsMail).
THEOREM QueueAndLedgerAgree == MailSpec => []MailQueueInv
<1>1. ASSUME MailSound PROVE OnePendingBatch
  <2>1. PendingBatches = {} \/ \E b : PendingBatches = {b}
    <3>1. ASSUME NEW b \in PendingBatches PROVE PendingBatches = {b}
      BY <1>1 DEF MailSound, OnePending
    <3> QED
      BY <3>1
  <2>2. Cardinality({}) = 0 /\ \A b : Cardinality({b}) = 1
    BY FS_EmptySet, FS_Singleton
  <2>3. PICK n \in {0, 1} : Cardinality(PendingBatches) = n
    BY <2>1, <2>2
  <2> QED
    BY <2>3 DEF OnePendingBatch
<1>2. MailSound => SentWithinLimit
  BY DEF MailSound, RoomKept, SentWithinLimit
<1>3. MailSound => LedgerTells
  BY DEF MailSound, MailTypeOK, LedgerSound, LedgerTells
<1>4. MailSound => MailQueueInv
  BY <1>1, <1>2, <1>3 DEF MailSound, MailQueueInv
<1> QED
  BY <1>4, MailAlwaysSound, PTL
=============================================================================
