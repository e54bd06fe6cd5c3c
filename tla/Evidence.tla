------------------------------ MODULE Evidence ------------------------------
(***************************************************************************)
(* The files behind a claim (evidence_handlers.go, note_evidence_handlers,  *)
(* bonus_grant_evidence.go, mcp_files.go): rows of one person in the        *)
(* database, objects in the store, and what keeps the two in step.  The     *)
(* person files an item and, being an administrator, grants a bonus.        *)
(* Requests are transactions that hold row and advisory locks to their end; *)
(* the object store takes part in none of them.  All files have one size.   *)
(***************************************************************************)
EXTENDS Naturals, FiniteSets

CONSTANTS
  Uploads,         \* evidence ids, each used once
  Grantees,        \* students of the bonus grant
  FileTxs,         \* requests in progress
  DailyFiles,      \* EvidenceDailyMB, in files
  MaxFileDays

ASSUME EvidenceAssumption == DailyFiles \in Nat /\ MaxFileDays \in Nat \ {0} /\ IsFiniteSet(Grantees)

VARIABLES
  row,             \* evidence: its state, what it belongs to, when and how it was made
  obj,             \* the object under the key of a row
  copied,          \* objects copied for the members of the grant
  granted,         \* their rows
  item,            \* status of the claim's submission
  bonus,           \* bonus_grant_upload: the day it was used on, 0 while open
  ftx,
  removing,        \* hooks that run after a commit and remove an object
  fday

evVars == <<row, obj, copied, granted, item, bonus, ftx, removing, fday>>

Channels == {"claim", "bonus", "other"}      \* other: appeals and notes
\* fits: the header bears the name out, or tells one format that replaces it.
Contents == {"fits", "foreign"}
NoRow == [st |-> "none", ch |-> "other", born |-> 0, via |-> "web"]
NoFile == "none"
IdleFileTx == [op |-> "idle", f |-> NoFile, ch |-> "other", via |-> "web", day |-> 0, seen |-> 0]

EvidenceTypeOK ==
  /\ row \in [Uploads -> [st : {"none", "pending", "ready", "gone"}, ch : Channels,
                          born : 0 .. MaxFileDays, via : {"web", "link"}]]
  /\ obj \in [Uploads -> Contents \cup {"none"}]
  /\ copied \subseteq Uploads \X Grantees /\ granted \subseteq Uploads \X Grantees
  /\ item \in {"draft", "pending", "consensus", "deleted"}
  /\ bonus \in 0 .. MaxFileDays
  /\ ftx \in [FileTxs -> [op : {"idle", "begun", "presign", "complete", "passed", "delete", "grant"},
                          f : Uploads \cup {NoFile}, ch : Channels, via : {"web", "link"},
                          day : 0 .. MaxFileDays, seen : Nat]]
  /\ removing \subseteq Uploads
  /\ fday \in 1 .. MaxFileDays

EvidenceInit ==
  /\ row = [f \in Uploads |-> NoRow] /\ obj = [f \in Uploads |-> "none"]
  /\ copied = {} /\ granted = {}
  /\ item = "draft" /\ bonus = 0
  /\ ftx = [x \in FileTxs |-> IdleFileTx]
  /\ removing = {} /\ fday = 1

-----------------------------------------------------------------------------
(* Locks and counts *)

Live(f) == row[f].st \in {"pending", "ready"}
FilesOf(ch) == {f \in Uploads : Live(f) /\ row[f].ch = ch}
Required == {f \in FilesOf("claim") : row[f].st = "ready"}

\* A slip: deleting a file does not lock its submission.
HeldByPresign(x) == ftx[x].ch = "claim" /\ ftx[x].op = "presign"

\* loadOwnedSubmission(.., true) and FOR UPDATE OF e,s.
HoldsItem(x) == ftx[x].ch = "claim" /\ ftx[x].op \in {"presign", "delete"}

\* authorizeNoteOwner locks the upload of a bonus for whoever touches its files.
HoldsUpload(x) == ftx[x].op = "grant" \/ (ftx[x].ch = "bonus" /\ ftx[x].op # "idle")

\* A slip: completion reads the row without locking it.
HeldUnlessCompleting(x) == CASE ftx[x].op = "delete" -> {ftx[x].f}
                             [] ftx[x].op = "grant" -> FilesOf("bonus")
                             [] OTHER -> {}

\* FOR UPDATE on the rows.
HoldsFiles(x) == CASE ftx[x].op \in {"complete", "passed", "delete"} -> {ftx[x].f}
                   [] ftx[x].op = "grant" -> FilesOf("bonus")
                   [] OTHER -> {}

ItemFree == \A x \in FileTxs : ~HoldsItem(x)
UploadFree == \A x \in FileTxs : ~HoldsUpload(x)
FileFree(f) == \A x \in FileTxs : f \notin HoldsFiles(x)
QuotaFree == \A x \in FileTxs : ftx[x].op \notin {"presign", "grant"}
OwnerFree(ch) == /\ ch = "claim" => ItemFree
                 /\ ch = "bonus" => UploadFree

\* Bytes of the rows created since the day d began.
UsedSince(d) == Cardinality({f \in Uploads : Live(f) /\ row[f].born >= d})
                + (IF bonus >= d THEN Cardinality(granted) ELSE 0)

Editable == item \in {"draft", "pending"}
TxTo(x, rec) == ftx' = [ftx EXCEPT ![x] = rec]
TxEnd(x) == TxTo(x, IdleFileTx)

-----------------------------------------------------------------------------
(* Presigning *)

\* A call by a link (ToolLinks) runs REPEATABLE READ: what it will count is fixed here.
BeginLink(x) ==
  /\ ftx[x].op = "idle"
  /\ TxTo(x, [IdleFileTx EXCEPT !.op = "begun", !.via = "link", !.day = fday, !.seen = UsedSince(fday)])
  /\ UNCHANGED <<row, obj, copied, granted, item, bonus, removing, fday>>

\* A slip: the day's bytes are counted without lockUserQuota.
ReserveUnlocked(used, n) == used + n <= DailyFiles

\* reserveEvidenceQuota.
ReserveEvidenceQuota(used, n) == QuotaFree /\ used + n <= DailyFiles

\* presignSubmissionEvidence, its appeal and note forms, and mcpPrepareUpload, up to the
\* policy: the owner and the quota are locked to the end.  Notes of reports, which name no
\* uploader and count for nobody, are left out.
Presign(x, f, ch) ==
  /\ row[f].st = "none" /\ \A y \in FileTxs : ftx[y].f # f
  /\ \/ ftx[x].op = "idle"
     \/ ftx[x].op = "begun" /\ ch = "claim"
  /\ OwnerFree(ch)
  /\ ch = "claim" => Editable
  /\ ch = "bonus" => bonus = 0
  /\ LET day == IF ftx[x].op = "begun" THEN ftx[x].day ELSE fday
         used == IF ftx[x].op = "begun" THEN ftx[x].seen ELSE UsedSince(fday)
     IN /\ ReserveEvidenceQuota(used, 1)
        /\ TxTo(x, [ftx[x] EXCEPT !.op = "presign", !.f = f, !.ch = ch, !.day = day, !.seen = 0])
  /\ UNCHANGED <<row, obj, copied, granted, item, bonus, removing, fday>>

PresignCommit(x) ==
  /\ ftx[x].op = "presign"
  /\ row' = [row EXCEPT ![ftx[x].f] = [st |-> "pending", ch |-> ftx[x].ch, born |-> ftx[x].day,
                                       via |-> ftx[x].via]]
  /\ TxEnd(x)
  /\ UNCHANGED <<obj, copied, granted, item, bonus, removing, fday>>

\* The client posts to the store under the policy, as often as it likes while that is
\* valid, whatever has become of the row.
ClientUpload(f, c) ==
  /\ row[f].st # "none"
  /\ obj' = [obj EXCEPT ![f] = c]
  /\ UNCHANGED <<row, copied, granted, item, bonus, ftx, removing, fday>>

\* mcpUpload: the bytes come through the server, under the locks of row and item; the
\* commit that follows changes no evidence.
MCPUpload(f, c) ==
  /\ Live(f) /\ row[f].via = "link" /\ FileFree(f) /\ ItemFree /\ Editable
  /\ obj' = [obj EXCEPT ![f] = c]
  /\ UNCHANGED <<row, copied, granted, item, bonus, ftx, removing, fday>>

-----------------------------------------------------------------------------
(* Completing and deleting *)

\* completeSubmissionEvidence and its forms lock the row (a bonus: the upload first).  A
\* ready row is answered at once.  The submission's status is not looked at.
Complete(x, f) ==
  /\ ftx[x].op = "idle" /\ row[f].st = "pending"
  /\ FileFree(f) /\ (row[f].ch = "bonus" => UploadFree)
  /\ TxTo(x, [IdleFileTx EXCEPT !.op = "complete", !.f = f, !.ch = row[f].ch])
  /\ UNCHANGED <<row, obj, copied, granted, item, bonus, removing, fday>>

\* Size, media type and resolveEvidenceContent: with its name or a corrected one.
Acceptable(c) == c = "fits"

\* settleEvidenceUpload: no object, an object that is refused and removed (or not, if the
\* store fails) while the row is rolled back to pending, or one that will do.
SettleEvidenceUpload(x) ==
  LET f == ftx[x].f
  IN /\ ftx[x].op = "complete"
     /\ \/ obj[f] = "none" /\ TxEnd(x) /\ UNCHANGED obj
        \/ /\ obj[f] # "none" /\ ~Acceptable(obj[f])
           /\ obj' \in {obj, [obj EXCEPT ![f] = "none"]}
           /\ TxEnd(x)
        \/ /\ Acceptable(obj[f])
           /\ TxTo(x, [ftx[x] EXCEPT !.op = "passed"])
           /\ UNCHANGED obj
     /\ UNCHANGED <<row, copied, granted, item, bonus, removing, fday>>

CompleteCommit(x) ==
  /\ ftx[x].op = "passed"
  /\ row' = [row EXCEPT ![ftx[x].f].st = "ready"]
  /\ TxEnd(x)
  /\ UNCHANGED <<obj, copied, granted, item, bonus, removing, fday>>

\* deleteSubmissionEvidence, deleteNoteEvidence, deleteAppealEvidence up to the commit:
\* appeals and notes give up unfinished files only.
Delete(x, f) ==
  /\ ftx[x].op = "idle" /\ Live(f)
  /\ FileFree(f) /\ OwnerFree(row[f].ch)
  /\ row[f].ch = "claim" => Editable
  /\ row[f].ch = "other" => row[f].st # "ready"
  /\ TxTo(x, [IdleFileTx EXCEPT !.op = "delete", !.f = f, !.ch = row[f].ch])
  /\ UNCHANGED <<row, obj, copied, granted, item, bonus, removing, fday>>

\* removeObjectAfterCommit.
DeleteCommit(x) ==
  /\ ftx[x].op = "delete"
  /\ row' = [row EXCEPT ![ftx[x].f].st = "gone"]
  /\ removing' = removing \cup {ftx[x].f}
  /\ TxEnd(x)
  /\ UNCHANGED <<obj, copied, granted, item, bonus, fday>>

\* The hook runs, or is lost with the process or on the store's error.
RemoveObject(f) ==
  /\ f \in removing
  /\ obj' \in {obj, [obj EXCEPT ![f] = "none"]}
  /\ removing' = removing \ {f}
  /\ UNCHANGED <<row, copied, granted, item, bonus, ftx, fday>>

\* Errors, refused commits, crashes and serialization failures: the locks go, nothing is written.
Rollback(x) ==
  /\ ftx[x].op # "idle"
  /\ TxEnd(x)
  /\ UNCHANGED <<row, obj, copied, granted, item, bonus, removing, fday>>

-----------------------------------------------------------------------------
(* The submission *)

\* submitSubmission of an item that requires evidence.
SubmitItem ==
  /\ item = "draft" /\ ItemFree /\ Required # {}
  /\ item' = "pending"
  /\ UNCHANGED <<row, obj, copied, granted, bonus, ftx, removing, fday>>

WithdrawItem ==
  /\ item = "pending" /\ ItemFree
  /\ item' = "draft"
  /\ UNCHANGED <<row, obj, copied, granted, bonus, ftx, removing, fday>>

\* The first conclusion (ReviewDesk): under the lock of the submission.
ConcludeItem ==
  /\ item = "pending" /\ ItemFree
  /\ item' = "consensus"
  /\ UNCHANGED <<row, obj, copied, granted, bonus, ftx, removing, fday>>

\* deleteSubmission, whose rows of evidence go by cascade.
DeleteItem ==
  /\ Editable /\ ItemFree
  /\ \A f \in FilesOf("claim") : FileFree(f)
  /\ item' = "deleted"
  /\ row' = [f \in Uploads |-> IF f \in FilesOf("claim") THEN [row[f] EXCEPT !.st = "gone"] ELSE row[f]]
  /\ removing' = removing \cup FilesOf("claim")
  /\ UNCHANGED <<obj, copied, granted, bonus, ftx, fday>>

-----------------------------------------------------------------------------
(* The evidence of a direct bonus *)

\* prepareBonusEvidence: every file is ready, and the copies fit into the day.
PrepareBonusEvidence(x) ==
  /\ ftx[x].op = "idle" /\ bonus = 0 /\ UploadFree
  /\ FilesOf("bonus") # {}
  /\ \A f \in FilesOf("bonus") : FileFree(f) /\ row[f].st = "ready"
  /\ ReserveEvidenceQuota(UsedSince(fday), Cardinality(FilesOf("bonus")) * Cardinality(Grantees))
  /\ TxTo(x, [IdleFileTx EXCEPT !.op = "grant", !.day = fday])
  /\ UNCHANGED <<row, obj, copied, granted, item, bonus, removing, fday>>

\* copyBonusEvidence: one object for each member.
CopyBonusEvidence(x, f, s) ==
  /\ ftx[x].op = "grant" /\ f \in FilesOf("bonus") /\ obj[f] # "none"
  /\ <<f, s>> \notin copied
  /\ copied' = copied \cup {<<f, s>>}
  /\ UNCHANGED <<row, obj, granted, item, bonus, ftx, removing, fday>>

\* consumeBonusEvidence and the commit.
ConsumeBonusEvidence(x) ==
  /\ ftx[x].op = "grant" /\ FilesOf("bonus") \X Grantees \subseteq copied
  /\ granted' = FilesOf("bonus") \X Grantees
  /\ bonus' = ftx[x].day
  /\ row' = [f \in Uploads |-> IF f \in FilesOf("bonus") THEN [row[f] EXCEPT !.st = "gone"] ELSE row[f]]
  /\ removing' = removing \cup FilesOf("bonus")
  /\ TxEnd(x)
  /\ UNCHANGED <<obj, copied, item, fday>>

\* discardBonusCopies, before the handler's error rolls the grant back.
DiscardBonusCopies(x) ==
  /\ ftx[x].op = "grant"
  /\ copied' \in {granted, copied}
  /\ TxEnd(x)
  /\ UNCHANGED <<row, obj, granted, item, bonus, removing, fday>>

NextFileDay ==
  /\ fday < MaxFileDays
  /\ fday' = fday + 1
  /\ UNCHANGED <<row, obj, copied, granted, item, bonus, ftx, removing>>

EvidenceNext ==
  \/ \E x \in FileTxs :
       \/ BeginLink(x)
       \/ \E f \in Uploads : \/ \E ch \in Channels : Presign(x, f, ch)
                            \/ Complete(x, f) \/ Delete(x, f)
                            \/ \E s \in Grantees : CopyBonusEvidence(x, f, s)
       \/ PresignCommit(x) \/ SettleEvidenceUpload(x) \/ CompleteCommit(x) \/ DeleteCommit(x)
       \/ Rollback(x)
       \/ PrepareBonusEvidence(x) \/ ConsumeBonusEvidence(x) \/ DiscardBonusCopies(x)
  \/ \E f \in Uploads : \/ \E c \in Contents : ClientUpload(f, c) \/ MCPUpload(f, c)
                       \/ RemoveObject(f)
  \/ SubmitItem \/ WithdrawItem \/ ConcludeItem \/ DeleteItem
  \/ NextFileDay

EvidenceSpec == EvidenceInit /\ [][EvidenceNext]_evVars

-----------------------------------------------------------------------------
(* Properties *)

\* What the database shows as ready can be opened: neither a refused upload that is
\* discarded while another request completes the row (settleEvidenceUpload), nor a delete,
\* nor a grant that fails half-way takes the object of a ready row away.
ReadyHasObject ==
  /\ \A f \in Uploads : row[f].st = "ready" => obj[f] # "none"
  /\ granted \subseteq copied

\* The files made on one day, with those that requests in progress have reserved, stay
\* within the quota when presigns and a grant's copies race each other, unless a link made
\* one of them: its snapshot is older than the lock.
WithinDailyBytes ==
  \A d \in 1 .. MaxFileDays :
    LET made == {f \in Uploads : Live(f) /\ row[f].born = d}
        reserving == {x \in FileTxs : ftx[x].op = "presign" /\ ftx[x].day = d}
        copying == {x \in FileTxs : ftx[x].op = "grant" /\ ftx[x].day = d}
        copies == IF bonus = d THEN Cardinality(granted)
                  ELSE Cardinality(copying) * Cardinality(FilesOf("bonus")) * Cardinality(Grantees)
    IN \/ \E f \in made : row[f].via = "link"
       \/ \E x \in reserving : ftx[x].via = "link"
       \/ Cardinality(made) + Cardinality(reserving) + copies <= DailyFiles

\* Once a reviewer has concluded on an item, no file of it disappears, also not by a
\* deletion that was begun before (deleteSubmissionEvidence locks the submission too).
ConcludedKeepsFiles == [][item = "consensus" => Required \subseteq Required']_evVars

\* Rows, objects and the quota (evidence_handlers.go, quota.go): no row is ready without its
\* object, and the rows of a day stay within its bytes.
EvidenceInv == EvidenceTypeOK /\ ReadyHasObject /\ WithinDailyBytes
=============================================================================
