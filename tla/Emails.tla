------------------------------- MODULE Emails -------------------------------
(***************************************************************************)
(* The mail addresses of one account (me_handlers.go): a code proves an     *)
(* address, one verified address is the primary one that mail goes to.      *)
(* Statements of READ COMMITTED transactions interleave; the partial unique *)
(* index user_email_one_primary refuses a second primary address.           *)
(***************************************************************************)
EXTENDS Naturals, FiniteSets

CONSTANTS
  Addresses,
  Codes,           \* challenges in Redis
  EmailTxs,        \* requests in progress
  MaxTries         \* wrong codes before a challenge is void (5 in the code)

ASSUME EmailsAssumption == MaxTries \in Nat \ {0}

VARIABLES
  addr,            \* user_email
  challenge,       \* pendingEmail
  etx              \* setPrimaryEmail in progress

emailVars == <<addr, challenge, etx>>

NoChallenge == [addr |-> "none", tries |-> 0]
IdleEmailTx == [at |-> "idle", row |-> {}, seen |-> {}]

EmailTypeOK ==
  /\ addr \in [Addresses -> {"none", "bound", "primary"}]
  /\ challenge \in [Codes -> [addr : Addresses \cup {"none"}, tries : 0 .. (MaxTries - 1)]]
  /\ etx \in [EmailTxs -> [at : {"idle", "locked", "reading", "cleared"},
                           row : SUBSET Addresses, seen : SUBSET Addresses]]

EmailInit ==
  /\ addr = [a \in Addresses |-> "none"]
  /\ challenge = [k \in Codes |-> NoChallenge]
  /\ etx = [x \in EmailTxs |-> IdleEmailTx]

Primaries == {a \in Addresses : addr[a] = "primary"}
LockedBy(x) == etx[x].row \cup (IF etx[x].at = "cleared" THEN etx[x].seen ELSE {})
AddressFree(a, x) == \A y \in EmailTxs \ {x} : a \notin LockedBy(y)
EmailTo(x, rec) == etx' = [etx EXCEPT ![x] = rec]

\* addEmail: the challenge is kept only if the mail could be sent.
AddEmail(k, a) ==
  /\ addr[a] = "none"
  /\ challenge' = [challenge EXCEPT ![k] = [addr |-> a, tries |-> 0]]
  /\ UNCHANGED <<addr, etx>>

\* verifyAddedEmail with a wrong code.
WrongCode(k) ==
  /\ challenge[k] # NoChallenge
  /\ LET seen == challenge[k]
     IN challenge' = [challenge EXCEPT ![k] =
          IF seen.tries + 1 >= MaxTries THEN NoChallenge
                                        ELSE [seen EXCEPT !.tries = seen.tries + 1]]
  /\ UNCHANGED <<addr, etx>>

\* verifyAddedEmail with the right one: the first verified address becomes primary.  An
\* address that is taken is refused; the hook that deletes the challenge may fail.
VerifyAddedEmail(k) ==
  /\ challenge[k] # NoChallenge
  /\ LET a == challenge[k].addr
     IN /\ addr[a] = "none"
        /\ addr' = [addr EXCEPT ![a] = IF Primaries = {} THEN "primary" ELSE "bound"]
  /\ \/ challenge' = [challenge EXCEPT ![k] = NoChallenge]
     \/ UNCHANGED challenge
  /\ UNCHANGED etx

\* setPrimaryEmail locks the address that is to be primary ...
SetPrimaryLock(x, a) ==
  /\ etx[x].at = "idle"
  /\ addr[a] # "none" /\ AddressFree(a, x)
  /\ EmailTo(x, [at |-> "locked", row |-> {a}, seen |-> {}])
  /\ UNCHANGED <<addr, challenge>>

\* ... finds the primary ones in the snapshot of its UPDATE ...
SetPrimaryScan(x) ==
  /\ etx[x].at = "locked"
  /\ EmailTo(x, [etx[x] EXCEPT !.at = "reading", !.seen = Primaries])
  /\ UNCHANGED <<addr, challenge>>

\* ... waits for those rows, and clears the ones that still are ...
SetPrimaryClear(x) ==
  /\ etx[x].at = "reading"
  /\ \A a \in etx[x].seen : AddressFree(a, x)
  /\ EmailTo(x, [etx[x] EXCEPT !.at = "cleared", !.seen = @ \cap Primaries])
  /\ UNCHANGED <<addr, challenge>>

\* A slip: no unique index.
NoIndex(x) == {}

\* user_email_one_primary: what is primary and not cleared by this transaction.
IndexConflicts(x) == Primaries \ (etx[x].seen \cup etx[x].row)

\* ... and sets its own, unless the index refuses it.
SetPrimaryCommit(x) ==
  /\ etx[x].at = "cleared"
  /\ IndexConflicts(x) = {}
  /\ addr' = [a \in Addresses |-> IF a \in etx[x].row THEN "primary"
                                  ELSE IF a \in etx[x].seen THEN "bound" ELSE addr[a]]
  /\ EmailTo(x, IdleEmailTx)
  /\ UNCHANGED challenge

SetPrimaryAbort(x) ==
  /\ etx[x].at # "idle"
  /\ EmailTo(x, IdleEmailTx)
  /\ UNCHANGED <<addr, challenge>>

\* deleteEmail: under the lock of its row, and not of the primary one.
DeleteEmail(a) ==
  /\ addr[a] = "bound"
  /\ \A x \in EmailTxs : a \notin LockedBy(x)
  /\ addr' = [addr EXCEPT ![a] = "none"]
  /\ UNCHANGED <<challenge, etx>>

EmailNext ==
  \/ \E k \in Codes : \/ \E a \in Addresses : AddEmail(k, a)
                      \/ WrongCode(k) \/ VerifyAddedEmail(k)
  \/ \E x \in EmailTxs : \/ \E a \in Addresses : SetPrimaryLock(x, a)
                         \/ SetPrimaryScan(x) \/ SetPrimaryClear(x)
                         \/ SetPrimaryCommit(x) \/ SetPrimaryAbort(x)
  \/ \E a \in Addresses : DeleteEmail(a)

EmailSpec == EmailInit /\ [][EmailNext]_emailVars

-----------------------------------------------------------------------------
(* Properties *)

\* An account with verified addresses has exactly one that mail goes to, whatever requests
\* to verify, choose and delete addresses interleave.
OnePrimaryAddress ==
  (\E a \in Addresses : addr[a] # "none") => Cardinality(Primaries) = 1

\* The requests of me_handlers.go leave one primary address, however their statements interleave.
EmailInv == EmailTypeOK /\ OnePrimaryAddress
=============================================================================
