----------------------------- MODULE RecordProofs ----------------------------
(***************************************************************************)
(* What is kept of a class: the files behind a claim (Evidence), its people *)
(* (Members), its backups (Backups) and the reports about scores (Reports). *)
(* Each part states its inductive invariant, shows that every action keeps  *)
(* it, and derives the properties that the runs check, for any number of    *)
(* files, people, requests, reports and days.                               *)
(***************************************************************************)
EXTENDS Evidence, Members, Backups, Reports, SumProofs

-----------------------------------------------------------------------------
(* Evidence: what a request in progress may rely on                         *)

\* Rows are made one at a time, so that those of live files can be counted.
LiveRows == {f \in Uploads : Live(f)}

\* What a request has read, under the locks that it holds, is still so.
Stands(t) ==
  /\ t.op = "begun" => t.via = "link"
  /\ t.op \in {"presign", "complete", "passed", "delete"} => t.f \in Uploads
  /\ t.op = "presign" => row[t.f].st = "none"
  /\ t.op \in {"complete", "passed"} => row[t.f].st = "pending"
  /\ t.op = "passed" => obj[t.f] # "none"
  /\ t.op = "delete" => Live(t.f) /\ t.ch = row[t.f].ch /\ (t.ch = "claim" => Editable)
  /\ t.op = "grant" => bonus = 0 /\ t.day \in 1 .. MaxFileDays

\* The row locks keep requests apart, the advisory lock on the quota those that reserve.
FilesApart == \A x, y \in FileTxs : x # y => HoldsFiles(x) \cap HoldsFiles(y) = {}
Reserves(x) == ftx[x].op \in {"presign", "grant"}
QuotaAlone == \A x, y \in FileTxs : Reserves(x) /\ Reserves(y) => x = y

\* Rows that the web made on a day, presigns of the web, and the copies of a grant.
WebMade(d) == {f \in Uploads : Live(f) /\ row[f].born = d /\ row[f].via = "web"}
WebReserving(d) == {x \in FileTxs : ftx[x].op = "presign" /\ ftx[x].day = d /\ ftx[x].via = "web"}
Copying(d) == {x \in FileTxs : ftx[x].op = "grant" /\ ftx[x].day = d}
Copies(d) == IF bonus = d THEN Cardinality(granted)
             ELSE Cardinality(Copying(d)) * Cardinality(FilesOf("bonus")) * Cardinality(Grantees)
WebKept(d) == Cardinality(WebMade(d)) + Cardinality(WebReserving(d)) + Copies(d) <= DailyFiles

\* A hook removes the object of a row that is gone.
RemovesGone == \A f \in removing : row[f].st = "gone"

\* All but the quota.
EvidenceHeld ==
  /\ EvidenceTypeOK
  /\ IsFiniteSet(LiveRows) /\ IsFiniteSet(granted)
  /\ \A x \in FileTxs : Stands(ftx[x])
  /\ FilesApart /\ QuotaAlone
  /\ RemovesGone /\ ReadyHasObject

EvidenceSound == EvidenceHeld /\ \A d \in 1 .. MaxFileDays : WebKept(d)

FileRows == [st : {"none", "pending", "ready", "gone"}, ch : Channels,
             born : 0 .. MaxFileDays, via : {"web", "link"}]
FileRequests == [op : {"idle", "begun", "presign", "complete", "passed", "delete", "grant"},
                 f : Uploads \cup {NoFile}, ch : Channels, via : {"web", "link"},
                 day : 0 .. MaxFileDays, seen : Nat]

LEMMA EvidenceTyped ==
  ASSUME EvidenceTypeOK
  PROVE  /\ row \in [Uploads -> FileRows] /\ ftx \in [FileTxs -> FileRequests]
         /\ obj \in [Uploads -> Contents \cup {"none"}]
         /\ copied \subseteq Uploads \X Grantees /\ granted \subseteq Uploads \X Grantees
         /\ item \in {"draft", "pending", "consensus", "deleted"}
         /\ bonus \in 0 .. MaxFileDays /\ removing \subseteq Uploads
         /\ fday \in 1 .. MaxFileDays
BY DEF EvidenceTypeOK, FileRows, FileRequests

LEMMA IdleIsARequest ==
  ASSUME EvidenceAssumption
  PROVE  IdleFileTx \in FileRequests /\ IdleFileTx.op = "idle"
BY DEF EvidenceAssumption, IdleFileTx, FileRequests, Channels

\* The rows and the copies that a request holds.
Held(t) == IF t.op \in {"complete", "passed", "delete"} THEN {t.f}
           ELSE IF t.op = "grant" THEN FilesOf("bonus") ELSE {}

LEMMA HeldIsHolds == \A x \in FileTxs : HoldsFiles(x) = Held(ftx[x])
BY DEF HoldsFiles, Held

-----------------------------------------------------------------------------
(* Counting against the quota *)

\* No more copies than before, if neither the grants nor its files are more.
LEMMA CopiesShrink ==
  ASSUME NEW C, NEW D \in SUBSET C, NEW F, NEW H \in SUBSET F, NEW G,
         IsFiniteSet(C), IsFiniteSet(F), IsFiniteSet(G), Cardinality(C) <= 1
  PROVE  /\ Cardinality(D) * Cardinality(H) * Cardinality(G)
              <= Cardinality(C) * Cardinality(F) * Cardinality(G)
         /\ Cardinality(D) * Cardinality(H) * Cardinality(G) \in Nat
         /\ Cardinality(C) * Cardinality(F) * Cardinality(G) \in Nat
<1>1. /\ IsFiniteSet(D) /\ IsFiniteSet(H)
      /\ Cardinality(D) <= Cardinality(C) BY FS_Subset
<1>2. /\ Cardinality(C) \in Nat /\ Cardinality(D) \in Nat /\ Cardinality(F) \in Nat
      /\ Cardinality(G) \in Nat /\ Cardinality(H) \in Nat
  BY <1>1, FS_CardinalityType
<1>3. /\ IsFiniteSet(F \X G) /\ Cardinality(F \X G) = Cardinality(F) * Cardinality(G)
      /\ IsFiniteSet(H \X G) /\ Cardinality(H \X G) = Cardinality(H) * Cardinality(G)
  BY <1>1, FS_Product
<1>4. Cardinality(H \X G) <= Cardinality(F \X G)
  <2>1. H \X G \in SUBSET (F \X G) OBVIOUS
  <2> QED BY <2>1, <1>3, FS_Subset
<1>5. Cardinality(H \X G) \in Nat /\ Cardinality(F \X G) \in Nat
  BY <1>3, FS_CardinalityType
<1>6. PICK c \in Nat, d \in Nat, f \in Nat, g \in Nat, h \in Nat :
        /\ c = Cardinality(C) /\ d = Cardinality(D) /\ f = Cardinality(F)
        /\ g = Cardinality(G) /\ h = Cardinality(H)
  BY <1>2
<1>7. c \in {0, 1} /\ d \in {0, 1} /\ d <= c BY <1>1, <1>6
<1>8. PICK p \in Nat, q \in Nat : p = f * g /\ q = h * g /\ q <= p BY <1>3, <1>4, <1>5, <1>6
<1>9. d * h * g = d * q /\ c * f * g = c * p
  BY <1>7, <1>8
<1>10. d * q <= c * p /\ d * q \in Nat /\ c * p \in Nat BY <1>7, <1>8
<1> QED BY <1>6, <1>9, <1>10

LEMMA AtMostOne ==
  ASSUME NEW S, \A x, y \in S : x = y
  PROVE  IsFiniteSet(S) /\ Cardinality(S) <= 1
<1>1. CASE S = {} BY <1>1, FS_EmptySet
<1>2. CASE \E x \in S : TRUE
  <2>1. PICK x \in S : TRUE BY <1>2
  <2>2. S = {x} BY <2>1
  <2>3. IsFiniteSet({x}) /\ Cardinality({x}) = 1 BY FS_Singleton
  <2> QED BY <2>2, <2>3
<1> QED BY <1>1, <1>2

\* At most one request reserves, and so the counts exist.
LEMMA OneReserves ==
  ASSUME EvidenceHeld, EvidenceAssumption, NEW d
  PROVE  /\ IsFiniteSet(WebMade(d)) /\ Cardinality(WebMade(d)) \in Nat
         /\ IsFiniteSet(WebReserving(d)) /\ Cardinality(WebReserving(d)) \in Nat
         /\ IsFiniteSet(Copying(d)) /\ Cardinality(Copying(d)) <= 1
         /\ IsFiniteSet(FilesOf("bonus"))
         /\ Cardinality(granted) \in Nat
         /\ Copies(d) \in Nat
<1>1. IsFiniteSet(WebMade(d)) /\ IsFiniteSet(FilesOf("bonus"))
  <2>1. WebMade(d) \in SUBSET LiveRows /\ FilesOf("bonus") \in SUBSET LiveRows
    BY DEF WebMade, FilesOf, LiveRows
  <2> QED BY <2>1, FS_Subset DEF EvidenceHeld
<1>2. IsFiniteSet(WebReserving(d)) /\ IsFiniteSet(Copying(d)) /\ Cardinality(Copying(d)) <= 1
  <2>1. /\ WebReserving(d) \in SUBSET FileTxs /\ Copying(d) \in SUBSET FileTxs
        /\ \A x, y \in WebReserving(d) : x = y
        /\ \A x, y \in Copying(d) : x = y
    BY DEF WebReserving, Copying, EvidenceHeld, QuotaAlone, Reserves
  <2> QED BY <2>1, AtMostOne
<1>3. Cardinality(granted) \in Nat BY FS_CardinalityType DEF EvidenceHeld
<1>4. Cardinality(Copying(d)) * Cardinality(FilesOf("bonus")) * Cardinality(Grantees) \in Nat
  BY <1>1, <1>2, CopiesShrink DEF EvidenceAssumption
<1> QED BY <1>1, <1>2, <1>3, <1>4, FS_CardinalityType DEF Copies

\* What only frees files, reservations and copies keeps the quota.
LEMMA QuotaShrinks ==
  ASSUME EvidenceHeld, EvidenceAssumption, NEW d \in 1 .. MaxFileDays, WebKept(d),
         WebMade(d)' \subseteq WebMade(d), WebReserving(d)' \subseteq WebReserving(d),
         Copying(d)' \subseteq Copying(d), FilesOf("bonus")' \subseteq FilesOf("bonus"),
         bonus' = bonus, granted' = granted
  PROVE  WebKept(d)'
<1>1. /\ IsFiniteSet(WebMade(d)) /\ Cardinality(WebMade(d)) \in Nat
      /\ IsFiniteSet(WebReserving(d)) /\ Cardinality(WebReserving(d)) \in Nat
      /\ IsFiniteSet(Copying(d)) /\ Cardinality(Copying(d)) <= 1
      /\ IsFiniteSet(FilesOf("bonus")) /\ Cardinality(granted) \in Nat /\ Copies(d) \in Nat
  BY OneReserves
<1>2. PICK m, r, c, f : m = WebMade(d)' /\ r = WebReserving(d)' /\ c = Copying(d)'
                        /\ f = FilesOf("bonus")'
  OBVIOUS
<1>3. /\ m \in SUBSET WebMade(d) /\ r \in SUBSET WebReserving(d)
      /\ c \in SUBSET Copying(d) /\ f \in SUBSET FilesOf("bonus")
  BY <1>2
<1>4. /\ IsFiniteSet(m) /\ Cardinality(m) <= Cardinality(WebMade(d))
      /\ IsFiniteSet(r) /\ Cardinality(r) <= Cardinality(WebReserving(d))
  BY <1>1, <1>3, FS_Subset
<1>5. Cardinality(m) \in Nat /\ Cardinality(r) \in Nat BY <1>4, FS_CardinalityType
<1>6. /\ Cardinality(c) * Cardinality(f) * Cardinality(Grantees)
           <= Cardinality(Copying(d)) * Cardinality(FilesOf("bonus")) * Cardinality(Grantees)
      /\ Cardinality(c) * Cardinality(f) * Cardinality(Grantees) \in Nat
  BY <1>1, <1>3, CopiesShrink DEF EvidenceAssumption
<1>7. Copies(d)' = IF bonus = d THEN Cardinality(granted)
                   ELSE Cardinality(c) * Cardinality(f) * Cardinality(Grantees)
  BY <1>2 DEF Copies
<1>8. Copies(d)' <= Copies(d) /\ Copies(d)' \in Nat BY <1>1, <1>6, <1>7 DEF Copies
<1>9. Cardinality(m) + Cardinality(r) + Copies(d)' <= DailyFiles
  BY <1>1, <1>4, <1>5, <1>8 DEF WebKept, EvidenceAssumption
<1> QED BY <1>2, <1>9 DEF WebKept

-----------------------------------------------------------------------------
(* Steps that change one request                                            *)

RestUnchanged == UNCHANGED <<row, obj, item, bonus, removing, fday>>

\* A request goes on to "d", which stands and takes nothing that another one holds.
LEMMA RequestMoves ==
  ASSUME EvidenceHeld, NEW x \in FileTxs, NEW d \in FileRequests,
         ftx' = [ftx EXCEPT ![x] = d], RestUnchanged, granted' = granted,
         copied' \subseteq Uploads \X Grantees, granted \subseteq copied',
         Stands(d), \A y \in FileTxs \ {x} : Held(d) \cap Held(ftx[y]) = {},
         d.op \in {"presign", "grant"} => \A y \in FileTxs \ {x} : ~Reserves(y)
  PROVE  EvidenceHeld'
<1>0. /\ row' = row /\ obj' = obj /\ item' = item /\ bonus' = bonus
      /\ removing' = removing /\ fday' = fday
  BY DEF RestUnchanged
<1>1. /\ ftx \in [FileTxs -> FileRequests] /\ ftx' \in [FileTxs -> FileRequests]
      /\ ftx'[x] = d /\ \A y \in FileTxs \ {x} : ftx'[y] = ftx[y]
  BY EvidenceTyped DEF EvidenceHeld
<1>2. EvidenceTypeOK'
  BY <1>0, <1>1 DEF EvidenceHeld, EvidenceTypeOK, FileRequests
<1>3. IsFiniteSet(LiveRows)' /\ IsFiniteSet(granted)'
  BY <1>0 DEF EvidenceHeld, LiveRows, Live
<1>5. \A y \in FileTxs : Stands(ftx[y])'
  <2> SUFFICES ASSUME NEW y \in FileTxs PROVE Stands(ftx[y])' OBVIOUS
  <2>1. PICK t : t = ftx'[y] OBVIOUS
  <2>2. Stands(t) BY <2>1, <1>1 DEF EvidenceHeld
  <2>3. Stands(t)' BY <2>2, <1>0 DEF Stands, Live, Editable
  <2>4. Stands(ftx[y])' = Stands(t)' BY <2>1 DEF Stands, Live, Editable
  <2> QED BY <2>3, <2>4
<1>6. FilesApart'
  <2>1. FilesOf("bonus")' = FilesOf("bonus") BY <1>0 DEF FilesOf, Live
  <2>2. \A y \in FileTxs : HoldsFiles(y)' = Held(ftx'[y])
    BY <2>1 DEF HoldsFiles, Held
  <2>3. \A y, z \in FileTxs : y # z => Held(ftx[y]) \cap Held(ftx[z]) = {}
    BY HeldIsHolds DEF EvidenceHeld, FilesApart
  <2> HIDE DEF Held
  <2>4. \A y, z \in FileTxs : y # z => Held(ftx'[y]) \cap Held(ftx'[z]) = {}
    BY <2>3, <1>1
  <2> QED BY <2>2, <2>4 DEF FilesApart
<1>7. QuotaAlone'
  BY <1>1 DEF EvidenceHeld, QuotaAlone, Reserves
<1>8. RemovesGone' BY <1>0 DEF EvidenceHeld, RemovesGone
<1>9. ReadyHasObject' BY <1>0 DEF EvidenceHeld, ReadyHasObject
<1> QED BY <1>2, <1>3, <1>5, <1>6, <1>7, <1>8, <1>9 DEF EvidenceHeld

\* If it reserves nothing, the quota is kept as well.
LEMMA RequestSpendsNothing ==
  ASSUME EvidenceSound, EvidenceAssumption, NEW x \in FileTxs, NEW d \in FileRequests,
         ftx' = [ftx EXCEPT ![x] = d], RestUnchanged, granted' = granted,
         copied' \subseteq Uploads \X Grantees, granted \subseteq copied',
         Stands(d), \A y \in FileTxs \ {x} : Held(d) \cap Held(ftx[y]) = {},
         d.op \notin {"presign", "grant"}
  PROVE  EvidenceSound'
<1>1. EvidenceHeld' BY RequestMoves DEF EvidenceSound
<1>2. ASSUME NEW e \in 1 .. MaxFileDays PROVE WebKept(e)'
  <2>1. /\ ftx'[x] = d /\ \A y \in FileTxs \ {x} : ftx'[y] = ftx[y]
    BY EvidenceTyped DEF EvidenceSound, EvidenceHeld
  <2>2. WebReserving(e)' \subseteq WebReserving(e) /\ Copying(e)' \subseteq Copying(e)
    BY <2>1 DEF WebReserving, Copying
  <2>3. /\ WebMade(e)' \subseteq WebMade(e) /\ FilesOf("bonus")' \subseteq FilesOf("bonus")
        /\ bonus' = bonus
    BY DEF WebMade, FilesOf, Live, RestUnchanged
  <2> QED BY <2>2, <2>3, QuotaShrinks DEF EvidenceSound
<1> QED BY <1>1, <1>2 DEF EvidenceSound

\* Errors, crashes and a grant whose copies are discarded.
LEMMA RequestGivesUp ==
  ASSUME EvidenceSound, EvidenceAssumption, NEW x \in FileTxs, TxEnd(x), RestUnchanged,
         granted' = granted, copied' \in {granted, copied}
  PROVE  EvidenceSound'
<1>1. IdleFileTx \in FileRequests /\ IdleFileTx.op = "idle" BY IdleIsARequest
<1>2. ftx' = [ftx EXCEPT ![x] = IdleFileTx] BY DEF TxEnd, TxTo
<1>3. PICK d \in FileRequests : d = IdleFileTx /\ d.op = "idle" BY <1>1
<1>4. Stands(d) /\ Held(d) = {} BY <1>3 DEF Stands, Held
<1>5. copied' \subseteq Uploads \X Grantees /\ granted \subseteq copied'
  BY EvidenceTyped DEF EvidenceSound, EvidenceHeld, ReadyHasObject
<1>6. d.op \notin {"presign", "grant"} /\ ftx' = [ftx EXCEPT ![x] = d] BY <1>2, <1>3
<1>7. \A y \in FileTxs \ {x} : Held(d) \cap Held(ftx[y]) = {} BY <1>4
<1> HIDE DEF Held, Stands
<1> QED BY <1>4, <1>5, <1>6, <1>7, RequestSpendsNothing

LEMMA GiveUpKept ==
  ASSUME EvidenceSound, EvidenceAssumption, NEW x \in FileTxs,
         Rollback(x) \/ DiscardBonusCopies(x)
  PROVE  EvidenceSound'
<1>1. TxEnd(x) /\ RestUnchanged /\ granted' = granted /\ copied' \in {granted, copied}
  BY DEF Rollback, DiscardBonusCopies, RestUnchanged
<1> QED BY <1>1, RequestGivesUp

LEMMA BeginLinkKept ==
  ASSUME EvidenceSound, EvidenceAssumption, NEW x \in FileTxs, BeginLink(x)
  PROVE  EvidenceSound'
<1>1. UsedSince(fday) \in Nat
  <2>1. {f \in Uploads : Live(f) /\ row[f].born >= fday} \in SUBSET LiveRows BY DEF LiveRows
  <2>2. IsFiniteSet({f \in Uploads : Live(f) /\ row[f].born >= fday})
    BY <2>1, FS_Subset DEF EvidenceSound, EvidenceHeld
  <2>3. Cardinality(granted) \in Nat /\ Cardinality({f \in Uploads : Live(f) /\ row[f].born >= fday}) \in Nat
    BY <2>2, FS_CardinalityType DEF EvidenceSound, EvidenceHeld
  <2> QED BY <2>3 DEF UsedSince
<1>2. PICK n \in Nat : n = UsedSince(fday) BY <1>1
<1>3. fday \in 0 .. MaxFileDays
  BY EvidenceTyped DEF EvidenceSound, EvidenceHeld, EvidenceAssumption
<1>4. PICK d : d = [IdleFileTx EXCEPT !.op = "begun", !.via = "link", !.day = fday, !.seen = n]
  OBVIOUS
<1>5. d \in FileRequests /\ d.op = "begun" /\ d.via = "link"
  BY <1>3, <1>4 DEF FileRequests, Channels, IdleFileTx
<1>6. ftx' = [ftx EXCEPT ![x] = d] BY <1>2, <1>4 DEF BeginLink, TxTo
<1>7. Stands(d) /\ Held(d) = {} BY <1>5 DEF Stands, Held
<1>8. RestUnchanged /\ granted' = granted /\ copied' = copied BY DEF BeginLink, RestUnchanged
<1>9. copied' \subseteq Uploads \X Grantees /\ granted \subseteq copied'
  BY <1>8, EvidenceTyped DEF EvidenceSound, EvidenceHeld, ReadyHasObject
<1>10. \A y \in FileTxs \ {x} : Held(d) \cap Held(ftx[y]) = {} BY <1>7
<1>11. d.op \notin {"presign", "grant"} BY <1>5
<1> HIDE DEF Held, Stands
<1> QED BY <1>5, <1>6, <1>7, <1>8, <1>9, <1>10, <1>11, RequestSpendsNothing

\* Completing and deleting take the row that nobody else holds.
LEMMA TakeFile ==
  ASSUME EvidenceSound, EvidenceAssumption, NEW x \in FileTxs, NEW f \in Uploads,
         NEW o \in {"complete", "delete"},
         ftx' = [ftx EXCEPT ![x] = [IdleFileTx EXCEPT !.op = o, !.f = f, !.ch = row[f].ch]],
         UNCHANGED <<row, obj, copied, granted, item, bonus, removing, fday>>,
         FileFree(f), o = "complete" => row[f].st = "pending",
         o = "delete" => Live(f) /\ (row[f].ch = "claim" => Editable)
  PROVE  EvidenceSound'
<1>1. row[f].ch \in Channels BY EvidenceTyped DEF EvidenceSound, EvidenceHeld, FileRows
<1>2. PICK d : d = [IdleFileTx EXCEPT !.op = o, !.f = f, !.ch = row[f].ch]
  OBVIOUS
<1>3. d \in FileRequests
  <2>1. PICK c \in Channels : c = row[f].ch BY <1>1
  <2>2. d = [op |-> o, f |-> f, ch |-> c, via |-> "web", day |-> 0, seen |-> 0]
    BY <1>2, <2>1 DEF IdleFileTx
  <2> QED BY <2>2 DEF FileRequests, EvidenceAssumption
<1>4. d.op = o /\ d.f = f /\ d.ch = row[f].ch BY <1>2 DEF IdleFileTx
<1>5. ftx' = [ftx EXCEPT ![x] = d] BY <1>2
<1>6. Stands(d) BY <1>4 DEF Stands
<1>7. Held(d) = {f} BY <1>4 DEF Held
<1>8. RestUnchanged /\ granted' = granted /\ copied' = copied BY DEF RestUnchanged
<1>9. copied' \subseteq Uploads \X Grantees /\ granted \subseteq copied'
  BY <1>8, EvidenceTyped DEF EvidenceSound, EvidenceHeld, ReadyHasObject
<1>10. \A y \in FileTxs : f \notin Held(ftx[y]) BY HeldIsHolds DEF FileFree
<1> HIDE DEF Held, Stands
<1>11. \A y \in FileTxs \ {x} : Held(d) \cap Held(ftx[y]) = {} BY <1>7, <1>10
<1>12. d.op \notin {"presign", "grant"} BY <1>4
<1> QED BY <1>3, <1>5, <1>6, <1>8, <1>9, <1>11, <1>12, RequestSpendsNothing

LEMMA TakeFileKept ==
  ASSUME EvidenceSound, EvidenceAssumption, NEW x \in FileTxs, NEW f \in Uploads,
         Complete(x, f) \/ Delete(x, f)
  PROVE  EvidenceSound'
<1>1. CASE Complete(x, f)
  BY <1>1, TakeFile DEF Complete, TxTo
<1>2. CASE Delete(x, f)
  BY <1>2, TakeFile DEF Delete, TxTo
<1> QED BY <1>1, <1>2

-----------------------------------------------------------------------------
(* Steps that reserve a part of the day's quota                             *)

\* What is counted when the quota is taken covers what the web has made since.
LEMMA UsedCoversTheDay ==
  ASSUME EvidenceHeld, EvidenceAssumption, QuotaFree, NEW d \in 1 .. MaxFileDays
  PROVE  /\ UsedSince(d) \in Nat
         /\ Cardinality(WebMade(d)) + Copies(d) <= UsedSince(d)
         /\ WebReserving(d) = {} /\ Copying(d) = {}
<1>1. WebReserving(d) = {} /\ Copying(d) = {} BY DEF WebReserving, Copying, QuotaFree
<1>2. /\ IsFiniteSet(WebMade(d)) /\ Cardinality(WebMade(d)) \in Nat
      /\ IsFiniteSet(FilesOf("bonus")) /\ Cardinality(granted) \in Nat
  BY OneReserves
<1>3. Copies(d) = IF bonus = d THEN Cardinality(granted) ELSE 0
  <2>1. /\ Cardinality(FilesOf("bonus")) \in Nat /\ Cardinality(Grantees) \in Nat
        /\ Cardinality(Copying(d)) = 0
    BY <1>1, <1>2, FS_CardinalityType, FS_EmptySet DEF EvidenceAssumption
  <2>2. \A m, n \in Nat : 0 * m * n = 0 OBVIOUS
  <2> QED BY <2>1, <2>2 DEF Copies
<1>4. PICK U : U = {f \in Uploads : Live(f) /\ row[f].born >= d} OBVIOUS
<1>5. U \in SUBSET LiveRows BY <1>4 DEF LiveRows
<1>6. IsFiniteSet(U) BY <1>5, FS_Subset DEF EvidenceHeld
<1>7. WebMade(d) \in SUBSET U
  BY <1>4, EvidenceTyped DEF EvidenceHeld, WebMade, FileRows
<1>8. Cardinality(WebMade(d)) <= Cardinality(U) /\ Cardinality(U) \in Nat
  BY <1>6, <1>7, FS_Subset, FS_CardinalityType
<1>9. UsedSince(d) = Cardinality(U) + (IF bonus >= d THEN Cardinality(granted) ELSE 0)
  BY <1>4 DEF UsedSince
<1>10. bonus \in Nat BY EvidenceTyped DEF EvidenceHeld, EvidenceAssumption
<1> HIDE DEF UsedSince, Copies, WebMade
<1>11. PICK m \in Nat, u \in Nat, g \in Nat :
         m = Cardinality(WebMade(d)) /\ u = Cardinality(U) /\ g = Cardinality(granted)
  BY <1>2, <1>8
<1>12. UsedSince(d) \in Nat /\ m + Copies(d) <= UsedSince(d)
  BY <1>3, <1>8, <1>9, <1>10, <1>11
<1> QED BY <1>1, <1>11, <1>12

\* A presign by a link keeps the reading of its snapshot, one by the web counts again.
LEMMA PresignKept ==
  ASSUME EvidenceSound, EvidenceAssumption, NEW x \in FileTxs, NEW f \in Uploads,
         NEW ch \in Channels, Presign(x, f, ch)
  PROVE  EvidenceSound'
<1>0. /\ ftx \in [FileTxs -> FileRequests] /\ fday \in 1 .. MaxFileDays
      /\ copied \subseteq Uploads \X Grantees /\ granted \subseteq copied
  BY EvidenceTyped DEF EvidenceSound, EvidenceHeld, ReadyHasObject
<1>1. PICK day, used :
        /\ day = (IF ftx[x].op = "begun" THEN ftx[x].day ELSE fday)
        /\ used = (IF ftx[x].op = "begun" THEN ftx[x].seen ELSE UsedSince(fday))
  OBVIOUS
<1>2. /\ ReserveEvidenceQuota(used, 1) /\ row[f].st = "none"
      /\ \A y \in FileTxs : ftx[y].f # f
      /\ ftx[x].op \in {"idle", "begun"}
  BY <1>1 DEF Presign
<1>3. day \in 0 .. MaxFileDays
  <2>1. ftx[x].day \in 0 .. MaxFileDays BY <1>0 DEF FileRequests
  <2> QED BY <1>0, <1>1, <2>1 DEF EvidenceAssumption
<1>4. PICK d : d = [ftx[x] EXCEPT !.op = "presign", !.f = f, !.ch = ch, !.day = day, !.seen = 0]
  OBVIOUS
<1>5. /\ d \in FileRequests /\ d.op = "presign" /\ d.f = f /\ d.day = day /\ d.via = ftx[x].via
  BY <1>0, <1>3, <1>4 DEF FileRequests
<1>6. ftx' = [ftx EXCEPT ![x] = d] BY <1>1, <1>4 DEF Presign, TxTo
<1>7. RestUnchanged /\ granted' = granted /\ copied' = copied BY DEF Presign, RestUnchanged
<1>8. Stands(d) BY <1>2, <1>5 DEF Stands
<1>9. \A y \in FileTxs \ {x} : Held(d) \cap Held(ftx[y]) = {} BY <1>5 DEF Held
<1>10. QuotaFree BY <1>2 DEF ReserveEvidenceQuota
<1>11. \A y \in FileTxs \ {x} : ~Reserves(y) BY <1>10 DEF QuotaFree, Reserves
<1>12. EvidenceHeld'
  <2> HIDE DEF Stands, Held, Reserves, RestUnchanged
  <2> QED BY <1>0, <1>5, <1>6, <1>7, <1>8, <1>9, <1>11, RequestMoves DEF EvidenceSound
<1>13. ASSUME NEW e \in 1 .. MaxFileDays PROVE WebKept(e)'
  <2>1. /\ ftx'[x] = d /\ \A y \in FileTxs \ {x} : ftx'[y] = ftx[y] BY <1>0, <1>6
  <2>2. Copying(e)' \subseteq Copying(e) BY <2>1, <1>5 DEF Copying
  <2>3. /\ WebMade(e)' = WebMade(e) /\ FilesOf("bonus")' = FilesOf("bonus") /\ bonus' = bonus
    BY <1>7 DEF WebMade, FilesOf, Live, RestUnchanged
  <2>4. CASE d.via = "web" /\ day = e
    <3>1. ftx[x].op = "idle" /\ day = fday /\ used = UsedSince(fday)
      BY <1>1, <1>2, <1>5, <2>4 DEF EvidenceSound, EvidenceHeld, Stands
    <3>2. /\ UsedSince(e) \in Nat /\ Cardinality(WebMade(e)) + Copies(e) <= UsedSince(e)
          /\ WebReserving(e) = {} /\ Copying(e) = {}
      BY <1>10, UsedCoversTheDay DEF EvidenceSound
    <3>3. UsedSince(e) + 1 <= DailyFiles
      BY <1>2, <2>4, <3>1 DEF ReserveEvidenceQuota
    <3>4. WebReserving(e)' = {x}
      BY <2>1, <1>5, <2>4, <3>2 DEF WebReserving
    <3>5. Cardinality(WebReserving(e)') = 1 BY <3>4, FS_Singleton
    <3>6. Copying(e)' = Copying(e) BY <2>2, <3>2
    <3>7. Copies(e)' = Copies(e) BY <3>6, <2>3, <1>7 DEF Copies
    <3>8. Cardinality(WebMade(e)) \in Nat /\ Copies(e) \in Nat BY OneReserves DEF EvidenceSound
    <3>9. Cardinality(WebMade(e)) + 1 + Copies(e) <= DailyFiles
      BY <3>2, <3>3, <3>8 DEF EvidenceAssumption
    <3>10. PICK m, r, c : m = WebMade(e)' /\ r = WebReserving(e)' /\ c = Copies(e)' OBVIOUS
    <3>11. Cardinality(m) + Cardinality(r) + c <= DailyFiles
      BY <3>5, <3>7, <3>8, <3>9, <3>10, <2>3
    <3> QED BY <3>10, <3>11 DEF WebKept
  <2>5. CASE ~(d.via = "web" /\ day = e)
    <3>1. WebReserving(e)' \subseteq WebReserving(e) BY <2>1, <2>5, <1>5 DEF WebReserving
    <3> QED BY <3>1, <2>2, <2>3, <1>7, QuotaShrinks DEF EvidenceSound
  <2> QED BY <2>4, <2>5
<1> QED BY <1>12, <1>13 DEF EvidenceSound

\* A grant reserves the copies of every file, one for each member.
LEMMA PrepareKept ==
  ASSUME EvidenceSound, EvidenceAssumption, NEW x \in FileTxs, PrepareBonusEvidence(x)
  PROVE  EvidenceSound'
<1>0. /\ ftx \in [FileTxs -> FileRequests] /\ fday \in 1 .. MaxFileDays
      /\ copied \subseteq Uploads \X Grantees /\ granted \subseteq copied
  BY EvidenceTyped DEF EvidenceSound, EvidenceHeld, ReadyHasObject
<1>1. PICK n : n = Cardinality(FilesOf("bonus")) * Cardinality(Grantees) OBVIOUS
<1>2. /\ ReserveEvidenceQuota(UsedSince(fday), n) /\ bonus = 0
      /\ \A f \in FilesOf("bonus") : FileFree(f)
  BY <1>1 DEF PrepareBonusEvidence
<1>3. PICK d : d = [IdleFileTx EXCEPT !.op = "grant", !.day = fday] OBVIOUS
<1>4. d \in FileRequests /\ d.op = "grant" /\ d.day = fday
  <2>1. fday \in 0 .. MaxFileDays BY <1>0 DEF EvidenceAssumption
  <2> QED BY <1>3, <2>1 DEF FileRequests, Channels, IdleFileTx
<1>5. ftx' = [ftx EXCEPT ![x] = d] BY <1>3 DEF PrepareBonusEvidence, TxTo
<1>6. RestUnchanged /\ granted' = granted /\ copied' = copied
  BY DEF PrepareBonusEvidence, RestUnchanged
<1>7. Stands(d) BY <1>0, <1>2, <1>4 DEF Stands
<1>8. \A y \in FileTxs \ {x} : Held(d) \cap Held(ftx[y]) = {}
  <2>1. Held(d) = FilesOf("bonus") BY <1>4 DEF Held
  <2>2. \A f \in FilesOf("bonus"), y \in FileTxs : f \notin Held(ftx[y])
    BY <1>2, HeldIsHolds DEF FileFree
  <2> QED BY <2>1, <2>2
<1>9. QuotaFree BY <1>2 DEF ReserveEvidenceQuota
<1>10. \A y \in FileTxs \ {x} : ~Reserves(y) BY <1>9 DEF QuotaFree, Reserves
<1>11. EvidenceHeld'
  <2> HIDE DEF Stands, Held, Reserves, RestUnchanged
  <2> QED BY <1>0, <1>4, <1>5, <1>6, <1>7, <1>8, <1>10, RequestMoves DEF EvidenceSound
<1>12. ASSUME NEW e \in 1 .. MaxFileDays PROVE WebKept(e)'
  <2>1. /\ ftx'[x] = d /\ \A y \in FileTxs \ {x} : ftx'[y] = ftx[y] BY <1>0, <1>5
  <2>2. WebReserving(e)' \subseteq WebReserving(e) BY <2>1, <1>4 DEF WebReserving
  <2>3. /\ WebMade(e)' = WebMade(e) /\ FilesOf("bonus")' = FilesOf("bonus") /\ bonus' = bonus
    BY <1>6 DEF WebMade, FilesOf, Live, RestUnchanged
  <2>4. CASE fday = e
    <3>1. /\ UsedSince(e) \in Nat /\ Cardinality(WebMade(e)) + Copies(e) <= UsedSince(e)
          /\ WebReserving(e) = {} /\ Copying(e) = {}
      BY <1>9, UsedCoversTheDay DEF EvidenceSound
    <3>2. UsedSince(e) + n <= DailyFiles BY <1>2, <2>4 DEF ReserveEvidenceQuota
    <3>3. /\ Cardinality(WebMade(e)) \in Nat /\ Copies(e) \in Nat /\ IsFiniteSet(FilesOf("bonus"))
      BY OneReserves DEF EvidenceSound
    <3>4. Cardinality(FilesOf("bonus")) \in Nat /\ Cardinality(Grantees) \in Nat
      BY <3>3, FS_CardinalityType DEF EvidenceAssumption
    <3>5. Copying(e)' = {x} BY <2>1, <1>4, <2>4, <3>1 DEF Copying
    <3>6. Cardinality(Copying(e)') = 1 BY <3>5, FS_Singleton
    <3>7. bonus # e BY <1>2
    <3>8. Copies(e)' = n
      <4>1. Copies(e)' = Cardinality(Copying(e)') * Cardinality(FilesOf("bonus")) * Cardinality(Grantees)
        BY <2>3, <3>7 DEF Copies
      <4>2. \A p, q \in Nat : 1 * p * q = p * q OBVIOUS
      <4> QED BY <4>1, <4>2, <3>4, <3>6, <1>1
    <3>9. n \in Nat
      BY <3>3, <1>1, FS_Product, FS_CardinalityType DEF EvidenceAssumption
    <3>10. Cardinality(WebReserving(e)') = 0
      BY <2>2, <3>1, FS_EmptySet
    <3>11. Cardinality(WebMade(e)) + n <= DailyFiles
      BY <3>1, <3>2, <3>3, <3>9 DEF EvidenceAssumption
    <3>12. PICK m, r, c : m = WebMade(e)' /\ r = WebReserving(e)' /\ c = Copies(e)' OBVIOUS
    <3>13. Cardinality(m) + Cardinality(r) + c <= DailyFiles
      BY <3>3, <3>8, <3>9, <3>10, <3>11, <3>12, <2>3
    <3> QED BY <3>12, <3>13 DEF WebKept
  <2>5. CASE fday # e
    <3>1. Copying(e)' \subseteq Copying(e) BY <2>1, <2>5, <1>4 DEF Copying
    <3> QED BY <3>1, <2>2, <2>3, <1>6, QuotaShrinks DEF EvidenceSound
  <2> QED BY <2>4, <2>5
<1> QED BY <1>11, <1>12 DEF EvidenceSound

-----------------------------------------------------------------------------
(* Steps that write rows                                                    *)

\* A request ends with a new row for a file that only it works on.
LEMMA RowWritten ==
  ASSUME EvidenceHeld, EvidenceAssumption, NEW x \in FileTxs, NEW f \in Uploads,
         NEW r \in FileRows,
         row' = [row EXCEPT ![f] = r], TxEnd(x),
         UNCHANGED <<obj, copied, granted, item, bonus, fday>>,
         removing' \in {removing, removing \cup {f}},
         r.st = "ready" => obj[f] # "none", f \in removing' => r.st = "gone",
         \A y \in FileTxs \ {x} :
           ftx[y].op \in {"presign", "complete", "passed", "delete"} => ftx[y].f # f,
         FilesOf("bonus")' \subseteq FilesOf("bonus") \/ \A y \in FileTxs : ftx[y].op # "grant"
  PROVE  EvidenceHeld'
<1>0. /\ row \in [Uploads -> FileRows] /\ ftx \in [FileTxs -> FileRequests]
      /\ removing \subseteq Uploads
  BY EvidenceTyped DEF EvidenceHeld
<1>1. PICK d \in FileRequests : d = IdleFileTx /\ d.op = "idle" BY IdleIsARequest
<1>2. /\ ftx' \in [FileTxs -> FileRequests]
      /\ ftx'[x] = d /\ \A y \in FileTxs \ {x} : ftx'[y] = ftx[y]
  BY <1>0, <1>1 DEF TxEnd, TxTo
<1>3. /\ row' \in [Uploads -> FileRows] /\ row'[f] = r
      /\ \A g \in Uploads \ {f} : row'[g] = row[g]
  BY <1>0
<1>4. EvidenceTypeOK'
  BY <1>0, <1>2, <1>3 DEF EvidenceHeld, EvidenceTypeOK, FileRequests, FileRows
<1>5. IsFiniteSet(LiveRows)' /\ IsFiniteSet(granted)'
  <2>1. IsFiniteSet(LiveRows \cup {f}) BY FS_AddElement DEF EvidenceHeld
  <2>2. LiveRows' \in SUBSET (LiveRows \cup {f}) BY <1>3 DEF LiveRows, Live
  <2>3. PICK L : L = LiveRows' OBVIOUS
  <2>4. IsFiniteSet(L) BY <2>1, <2>2, <2>3, FS_Subset
  <2> QED BY <2>3, <2>4 DEF EvidenceHeld
<1>6. ASSUME NEW y \in FileTxs PROVE Stands(ftx[y])'
  <2>1. CASE y = x
    <3>1. ftx'[y].op = "idle" BY <1>1, <1>2, <2>1
    <3> QED BY <3>1 DEF Stands
  <2>2. CASE y # x
    <3>1. PICK t \in FileRequests : t = ftx[y] /\ t = ftx'[y] BY <1>0, <1>2, <2>2
    <3>2. Stands(t) BY <3>1 DEF EvidenceHeld
    <3>3. t.op \in {"presign", "complete", "passed", "delete"} => t.f \in Uploads \ {f}
      BY <2>2, <3>1, <3>2 DEF Stands
    <3>4. t.op \in {"presign", "complete", "passed", "delete"} => row'[t.f] = row[t.f]
      BY <3>3, <1>3
    <3>5. Stands(t)' BY <3>2, <3>3, <3>4 DEF Stands, Live, Editable
    <3> QED BY <3>1, <3>5 DEF Stands, Live, Editable
  <2> QED BY <2>1, <2>2
<1>7. FilesApart'
  <2>1. \A y \in FileTxs : HoldsFiles(y)' \subseteq Held(ftx[y])
    <3>1. PICK B : B = FilesOf("bonus")' OBVIOUS
    <3>2. \A y \in FileTxs : HoldsFiles(y)' =
            IF ftx'[y].op \in {"complete", "passed", "delete"} THEN {ftx'[y].f}
            ELSE IF ftx'[y].op = "grant" THEN B ELSE {}
      BY <3>1 DEF HoldsFiles
    <3>3. B \subseteq FilesOf("bonus") \/ \A y \in FileTxs : ftx[y].op # "grant" BY <3>1
    <3>4. ftx'[x].op = "idle" BY <1>1, <1>2
    <3> QED BY <3>2, <3>3, <3>4, <1>2 DEF Held
  <2>2. \A y, z \in FileTxs : y # z => Held(ftx[y]) \cap Held(ftx[z]) = {}
    BY HeldIsHolds DEF EvidenceHeld, FilesApart
  <2> HIDE DEF Held, HoldsFiles
  <2> QED BY <2>1, <2>2 DEF FilesApart
<1>8. QuotaAlone' BY <1>1, <1>2 DEF EvidenceHeld, QuotaAlone, Reserves
<1>9. RemovesGone' BY <1>0, <1>3 DEF EvidenceHeld, RemovesGone
<1>10. ReadyHasObject' BY <1>3 DEF EvidenceHeld, ReadyHasObject
<1> QED BY <1>4, <1>5, <1>6, <1>7, <1>8, <1>9, <1>10 DEF EvidenceHeld

\* Nobody else works on the file that is completed or deleted ...
LEMMA OwnFile ==
  ASSUME EvidenceHeld, NEW x \in FileTxs, ftx[x].op \in {"passed", "delete"},
         NEW y \in FileTxs \ {x}, ftx[y].op \in {"presign", "complete", "passed", "delete"}
  PROVE  ftx[y].f # ftx[x].f
<1>1. Held(ftx[x]) = {ftx[x].f} BY DEF Held
<1>2. Stands(ftx[x]) /\ Stands(ftx[y]) BY DEF EvidenceHeld
<1>3. CASE ftx[y].op = "presign"
  BY <1>2, <1>3 DEF Stands, Live
<1>4. CASE ftx[y].op # "presign"
  <2>1. Held(ftx[y]) = {ftx[y].f} BY <1>4 DEF Held
  <2>2. Held(ftx[x]) \cap Held(ftx[y]) = {} BY HeldIsHolds DEF EvidenceHeld, FilesApart
  <2> QED BY <1>1, <2>1, <2>2
<1> QED BY <1>3, <1>4

\* ... and a row that stays what it belongs to takes no more of the quota.
LEMMA RowStays ==
  ASSUME EvidenceSound, EvidenceAssumption, NEW x \in FileTxs, NEW f \in Uploads,
         NEW s \in {"ready", "gone"}, ftx[x].op \in {"passed", "delete"}, f = ftx[x].f,
         Live(f), row' = [row EXCEPT ![f].st = s], TxEnd(x),
         UNCHANGED <<obj, copied, granted, item, bonus, fday>>,
         removing' = IF s = "gone" THEN removing \cup {f} ELSE removing,
         s = "ready" => obj[f] # "none" /\ row[f].st = "pending"
  PROVE  EvidenceSound'
<1>0. /\ row \in [Uploads -> FileRows] /\ ftx \in [FileTxs -> FileRequests]
      /\ removing \subseteq Uploads
  BY EvidenceTyped DEF EvidenceSound, EvidenceHeld
<1>1. PICK r : r = [row[f] EXCEPT !.st = s] OBVIOUS
<1>2. /\ r \in FileRows /\ r.st = s
      /\ r.ch = row[f].ch /\ r.born = row[f].born /\ r.via = row[f].via
  BY <1>0, <1>1 DEF FileRows
<1>3. row' = [row EXCEPT ![f] = r] BY <1>1
<1>4. row'[f] = r /\ \A g \in Uploads \ {f} : row'[g] = row[g] BY <1>0, <1>3
<1>5. FilesOf("bonus")' \subseteq FilesOf("bonus")
  BY <1>2, <1>4 DEF FilesOf, Live
<1>6. \A y \in FileTxs \ {x} :
        ftx[y].op \in {"presign", "complete", "passed", "delete"} => ftx[y].f # f
  BY OwnFile DEF EvidenceSound
<1>7. f \in removing' => r.st = "gone"
  BY <1>2 DEF EvidenceSound, EvidenceHeld, RemovesGone
<1>8. removing' \in {removing, removing \cup {f}} BY <1>2
<1>9. EvidenceHeld' BY <1>2, <1>3, <1>5, <1>6, <1>7, <1>8, RowWritten, ZenonT(60) DEF EvidenceSound
<1>10. \A y \in FileTxs : ftx'[y].op \in {"presign", "grant"} => ftx'[y] = ftx[y]
  <2>1. IdleFileTx.op = "idle" BY DEF IdleFileTx
  <2> QED BY <1>0, <2>1 DEF TxEnd, TxTo
<1>11. ASSUME NEW e \in 1 .. MaxFileDays PROVE WebKept(e)'
  <2>1. WebReserving(e)' \subseteq WebReserving(e) /\ Copying(e)' \subseteq Copying(e)
    BY <1>10 DEF WebReserving, Copying
  <2>2. WebMade(e)' \subseteq WebMade(e)
    BY <1>2, <1>4 DEF WebMade, Live
  <2> QED BY <2>1, <2>2, <1>5, QuotaShrinks DEF EvidenceSound
<1> QED BY <1>9, <1>11 DEF EvidenceSound

LEMMA RowStaysKept ==
  ASSUME EvidenceSound, EvidenceAssumption, NEW x \in FileTxs, CompleteCommit(x) \/ DeleteCommit(x)
  PROVE  EvidenceSound'
<1>1. PICK f : f = ftx[x].f OBVIOUS
<1>2. Stands(ftx[x]) BY DEF EvidenceSound, EvidenceHeld
<1>3. CASE CompleteCommit(x)
  <2>1. /\ ftx[x].op = "passed" /\ row' = [row EXCEPT ![f].st = "ready"] /\ TxEnd(x)
        /\ UNCHANGED <<obj, copied, granted, item, bonus, fday>> /\ removing' = removing
    BY <1>1, <1>3 DEF CompleteCommit
  <2>2. f \in Uploads /\ row[f].st = "pending" /\ obj[f] # "none" /\ Live(f)
    BY <1>1, <1>2, <2>1 DEF Stands, Live
  <2> QED BY <1>1, <2>1, <2>2, RowStays
<1>4. CASE DeleteCommit(x)
  <2>1. /\ ftx[x].op = "delete" /\ row' = [row EXCEPT ![f].st = "gone"] /\ TxEnd(x)
        /\ UNCHANGED <<obj, copied, granted, item, bonus, fday>>
        /\ removing' = removing \cup {f}
    BY <1>1, <1>4 DEF DeleteCommit
  <2>2. f \in Uploads /\ Live(f) BY <1>1, <1>2, <2>1 DEF Stands
  <2> QED BY <1>1, <2>1, <2>2, RowStays
<1> QED BY <1>3, <1>4

\* The row takes the place of its reservation.
LEMMA PresignCommitKept ==
  ASSUME EvidenceSound, EvidenceAssumption, NEW x \in FileTxs, PresignCommit(x)
  PROVE  EvidenceSound'
<1>0. /\ row \in [Uploads -> FileRows] /\ ftx \in [FileTxs -> FileRequests]
      /\ removing \subseteq Uploads
  BY EvidenceTyped DEF EvidenceSound, EvidenceHeld
<1>1. PICK t \in FileRequests : t = ftx[x] BY <1>0
<1>2. PICK f : f = t.f OBVIOUS
<1>3. Stands(t) /\ t.op = "presign" BY <1>1 DEF EvidenceSound, EvidenceHeld, PresignCommit
<1>4. f \in Uploads /\ row[f].st = "none" BY <1>2, <1>3 DEF Stands
<1>5. PICK r : r = [st |-> "pending", ch |-> t.ch, born |-> t.day, via |-> t.via] OBVIOUS
<1>6. r \in FileRows /\ r.st = "pending" /\ r.born = t.day /\ r.via = t.via
  BY <1>5 DEF FileRows, FileRequests
<1>7. /\ row' = [row EXCEPT ![f] = r] /\ TxEnd(x) /\ removing' = removing
      /\ UNCHANGED <<obj, copied, granted, item, bonus, fday>>
  BY <1>1, <1>2, <1>5 DEF PresignCommit
<1>8. row'[f] = r /\ \A g \in Uploads \ {f} : row'[g] = row[g] BY <1>0, <1>4, <1>7
<1>9. \A y \in FileTxs \ {x} : ~Reserves(y)
  BY <1>1, <1>3 DEF EvidenceSound, EvidenceHeld, QuotaAlone, Reserves
<1>10. \A y \in FileTxs : ftx[y].op # "grant" BY <1>1, <1>3, <1>9 DEF Reserves
<1>11. \A y \in FileTxs \ {x} :
         ftx[y].op \in {"presign", "complete", "passed", "delete"} => ftx[y].f # f
  <2> SUFFICES ASSUME NEW y \in FileTxs \ {x},
                      ftx[y].op \in {"presign", "complete", "passed", "delete"}
               PROVE  ftx[y].f # f
    OBVIOUS
  <2>1. Stands(ftx[y]) /\ ftx[y].op # "presign"
    BY <1>9 DEF EvidenceSound, EvidenceHeld, Reserves
  <2> QED BY <2>1, <1>4 DEF Stands, Live
<1>12. f \notin removing BY <1>4 DEF EvidenceSound, EvidenceHeld, RemovesGone
<1>13. EvidenceHeld'
  BY <1>4, <1>6, <1>7, <1>10, <1>11, <1>12, RowWritten DEF EvidenceSound
<1>14. ftx'[x].op = "idle" /\ \A y \in FileTxs \ {x} : ftx'[y] = ftx[y]
  <2>1. IdleFileTx.op = "idle" BY DEF IdleFileTx
  <2> QED BY <1>0, <1>7, <2>1 DEF TxEnd, TxTo
<1>15. ASSUME NEW e \in 1 .. MaxFileDays PROVE WebKept(e)'
  <2>0. WebKept(e) BY DEF EvidenceSound
  <2>1. /\ IsFiniteSet(WebMade(e)) /\ Cardinality(WebMade(e)) \in Nat
        /\ Cardinality(WebReserving(e)) \in Nat /\ Copies(e) \in Nat /\ Cardinality(granted) \in Nat
        /\ IsFiniteSet(FilesOf("bonus"))
    BY OneReserves DEF EvidenceSound
  <2>2. Copying(e) = {} /\ Copying(e)' = {} BY <1>10, <1>14 DEF Copying
  <2>3. IsFiniteSet(FilesOf("bonus")')
    <3>1. LiveRows' \subseteq LiveRows' /\ IsFiniteSet(LiveRows') BY <1>13 DEF EvidenceHeld
    <3>2. FilesOf("bonus")' \in SUBSET LiveRows' BY DEF FilesOf, LiveRows
    <3>3. PICK L, F : L = LiveRows' /\ F = FilesOf("bonus")' OBVIOUS
    <3> QED BY <3>1, <3>2, <3>3, FS_Subset
  <2>4. Copies(e)' = Copies(e)
    <3>1. \A m, n \in Nat : 0 * m * n = 0 OBVIOUS
    <3>2. PICK F : F = FilesOf("bonus")' OBVIOUS
    <3>3. /\ Cardinality(FilesOf("bonus")) \in Nat /\ Cardinality(F) \in Nat
          /\ Cardinality(Grantees) \in Nat
      BY <2>1, <2>3, <3>2, FS_CardinalityType DEF EvidenceAssumption
    <3>4. Cardinality({}) = 0 BY FS_EmptySet
    <3>5. Copies(e) = IF bonus = e THEN Cardinality(granted) ELSE 0
      BY <3>1, <3>3, <3>4, <2>2 DEF Copies
    <3>6. Copies(e)' = IF bonus = e THEN Cardinality(granted)
                       ELSE Cardinality({}) * Cardinality(F) * Cardinality(Grantees)
      BY <2>2, <1>7, <3>2 DEF Copies
    <3> HIDE DEF Copies
    <3> QED BY <3>1, <3>3, <3>4, <3>5, <3>6
  <2>5. WebReserving(e)' = {} BY <1>9, <1>14 DEF WebReserving, Reserves
  <2>6. Cardinality(WebReserving(e)') = 0 BY <2>5, FS_EmptySet
  <2>7. CASE t.via = "web" /\ t.day = e
    <3>1. WebReserving(e) = {x} BY <1>1, <1>3, <1>9, <2>7 DEF WebReserving, Reserves
    <3>2. Cardinality(WebReserving(e)) = 1 BY <3>1, FS_Singleton
    <3>3. WebMade(e)' = WebMade(e) \cup {f}
      BY <1>4, <1>6, <1>8, <2>7 DEF WebMade, Live
    <3>4. /\ Cardinality(WebMade(e)') <= Cardinality(WebMade(e)) + 1
          /\ Cardinality(WebMade(e)') \in Nat
      <4>1. PICK m : m = WebMade(e) OBVIOUS
      <4>0. IsFiniteSet(m) /\ Cardinality(m) \in Nat BY <4>1, <2>1
      <4>5. /\ IsFiniteSet(m \cup {f})
            /\ Cardinality(m \cup {f}) = IF f \in m THEN Cardinality(m) ELSE Cardinality(m) + 1
        BY <4>0, FS_AddElement
      <4>2. IsFiniteSet(m \cup {f}) /\ Cardinality(m \cup {f}) <= Cardinality(m) + 1
        BY <4>0, <4>5
      <4>3. Cardinality(m \cup {f}) \in Nat BY <4>2, FS_CardinalityType
      <4> QED BY <4>1, <4>2, <4>3, <3>3
    <3>5. PICK m, k, c : m = WebMade(e)' /\ k = WebReserving(e)' /\ c = Copies(e)' OBVIOUS
    <3>6. Cardinality(m) + Cardinality(k) + c <= DailyFiles
      BY <2>0, <2>1, <2>4, <2>6, <3>2, <3>4, <3>5 DEF EvidenceAssumption, WebKept
    <3> QED BY <3>5, <3>6 DEF WebKept
  <2>8. CASE ~(t.via = "web" /\ t.day = e)
    <3>1. WebMade(e)' = WebMade(e) BY <1>4, <1>6, <1>8, <2>8 DEF WebMade, Live
    <3>2. PICK m, k, c : m = WebMade(e)' /\ k = WebReserving(e)' /\ c = Copies(e)' OBVIOUS
    <3>3. Cardinality(m) + Cardinality(k) + c <= DailyFiles
      BY <2>0, <2>1, <2>4, <2>6, <3>1, <3>2 DEF EvidenceAssumption, WebKept
    <3> QED BY <3>2, <3>3 DEF WebKept
  <2> QED BY <2>7, <2>8
<1> QED BY <1>13, <1>15 DEF EvidenceSound

\* The grant: its files go, the copies stay, and they were reserved.
LEMMA ConsumeKept ==
  ASSUME EvidenceSound, EvidenceAssumption, NEW x \in FileTxs, ConsumeBonusEvidence(x)
  PROVE  EvidenceSound'
<1>0. /\ row \in [Uploads -> FileRows] /\ ftx \in [FileTxs -> FileRequests]
      /\ removing \subseteq Uploads /\ copied \subseteq Uploads \X Grantees
      /\ bonus \in 0 .. MaxFileDays
  BY EvidenceTyped DEF EvidenceSound, EvidenceHeld
<1>1. PICK d \in FileRequests : d = IdleFileTx /\ d.op = "idle" BY IdleIsARequest
<1>2. PICK B : B = FilesOf("bonus") OBVIOUS
<1>3. /\ ftx[x].op = "grant" /\ B \X Grantees \subseteq copied
      /\ granted' = B \X Grantees /\ bonus' = ftx[x].day
      /\ row' = [f \in Uploads |-> IF f \in B THEN [row[f] EXCEPT !.st = "gone"] ELSE row[f]]
      /\ removing' = removing \cup B /\ ftx' = [ftx EXCEPT ![x] = d]
      /\ UNCHANGED <<obj, copied, item, fday>>
  BY <1>1, <1>2 DEF ConsumeBonusEvidence, TxEnd, TxTo
<1>4. /\ ftx' \in [FileTxs -> FileRequests] /\ ftx'[x].op = "idle"
      /\ \A y \in FileTxs \ {x} : ftx'[y] = ftx[y]
  BY <1>0, <1>1, <1>3
<1>5. B \subseteq Uploads /\ \A f \in B : Live(f) /\ row[f].ch = "bonus"
  BY <1>2 DEF FilesOf
<1>6. /\ row' \in [Uploads -> FileRows] /\ \A f \in B : row'[f].st = "gone"
      /\ \A f \in Uploads \ B : row'[f] = row[f]
  <2>1. \A f \in Uploads : [row[f] EXCEPT !.st = "gone"] \in FileRows
    BY <1>0 DEF FileRows
  <2>2. \A f \in Uploads : [row[f] EXCEPT !.st = "gone"].st = "gone"
    BY <1>0 DEF FileRows
  <2> QED BY <1>0, <1>3, <1>5, <2>1, <2>2
<1>7. bonus = 0 /\ ftx[x].day \in 1 .. MaxFileDays
  BY <1>3 DEF EvidenceSound, EvidenceHeld, Stands
<1>8. EvidenceTypeOK'
  <2>1. ftx[x].day \in 0 .. MaxFileDays BY <1>0 DEF FileRequests
  <2>2. granted' \subseteq Uploads \X Grantees BY <1>3, <1>5
  <2>3. removing' \subseteq Uploads BY <1>0, <1>3, <1>5
  <2> QED BY <1>3, <1>4, <1>6, <2>1, <2>2, <2>3
       DEF EvidenceSound, EvidenceHeld, EvidenceTypeOK, FileRequests, FileRows
<1>9. IsFiniteSet(B) /\ Cardinality(Copying(ftx[x].day)) <= 1
  BY <1>2, OneReserves DEF EvidenceSound
<1>10. /\ IsFiniteSet(B \X Grantees)
       /\ Cardinality(B \X Grantees) = Cardinality(B) * Cardinality(Grantees)
  BY <1>9, FS_Product DEF EvidenceAssumption
<1>11. IsFiniteSet(LiveRows)' /\ IsFiniteSet(granted)'
  <2>1. LiveRows' \in SUBSET LiveRows BY <1>5, <1>6 DEF LiveRows, Live
  <2>2. PICK L : L = LiveRows' OBVIOUS
  <2>3. IsFiniteSet(L) BY <2>1, <2>2, FS_Subset DEF EvidenceSound, EvidenceHeld
  <2> QED BY <2>2, <2>3, <1>3, <1>10
<1>12. \A y \in FileTxs \ {x} : Held(ftx[y]) \cap B = {}
  <2>1. Held(ftx[x]) = B BY <1>2, <1>3 DEF Held
  <2>2. \A y \in FileTxs \ {x} : Held(ftx[x]) \cap Held(ftx[y]) = {}
    BY HeldIsHolds DEF EvidenceSound, EvidenceHeld, FilesApart
  <2> HIDE DEF Held
  <2> QED BY <2>1, <2>2
<1>13. \A y \in FileTxs \ {x} : ~Reserves(y)
  BY <1>3 DEF EvidenceSound, EvidenceHeld, QuotaAlone, Reserves
<1>14. ASSUME NEW y \in FileTxs PROVE Stands(ftx[y])'
  <2>1. CASE y = x
    <3>1. ftx'[y].op = "idle" BY <1>4, <2>1
    <3> QED BY <3>1 DEF Stands
  <2>2. CASE y # x
    <3>1. PICK t \in FileRequests : t = ftx[y] /\ t = ftx'[y] BY <1>0, <1>4, <2>2
    <3>2. Stands(t) /\ t.op \notin {"presign", "grant"}
      BY <3>1, <1>13, <2>2 DEF EvidenceSound, EvidenceHeld, Reserves
    <3>3. t.op \in {"complete", "passed", "delete"} => t.f \in Uploads \ B
      <4>1. Held(t) \cap B = {} BY <1>12, <2>2, <3>1
      <4> QED BY <4>1, <3>2 DEF Held, Stands
    <3>4. t.op \in {"complete", "passed", "delete"} => row'[t.f] = row[t.f] BY <3>3, <1>6
    <3>5. Stands(t)' BY <3>2, <3>3, <3>4, <1>3 DEF Stands, Live, Editable
    <3> QED BY <3>1, <3>5 DEF Stands, Live, Editable
  <2> QED BY <2>1, <2>2
<1>15. FilesApart'
  <2>1. \A y \in FileTxs : HoldsFiles(y)' \subseteq Held(ftx[y])
    BY <1>4, <1>13 DEF HoldsFiles, Held, Reserves
  <2>2. \A y, z \in FileTxs : y # z => Held(ftx[y]) \cap Held(ftx[z]) = {}
    BY HeldIsHolds DEF EvidenceSound, EvidenceHeld, FilesApart
  <2> HIDE DEF Held, HoldsFiles
  <2> QED BY <2>1, <2>2 DEF FilesApart
<1>16. QuotaAlone' BY <1>4, <1>13 DEF QuotaAlone, Reserves
<1>17. RemovesGone'
  BY <1>0, <1>3, <1>6 DEF EvidenceSound, EvidenceHeld, RemovesGone
<1>18. ReadyHasObject'
  BY <1>3, <1>6 DEF EvidenceSound, EvidenceHeld, ReadyHasObject
<1>19. EvidenceHeld'
  BY <1>8, <1>11, <1>14, <1>15, <1>16, <1>17, <1>18 DEF EvidenceHeld
<1>20. ASSUME NEW e \in 1 .. MaxFileDays PROVE WebKept(e)'
  <2>0. WebKept(e) BY DEF EvidenceSound
  <2>1. /\ IsFiniteSet(WebMade(e)) /\ Cardinality(WebMade(e)) \in Nat
        /\ Cardinality(WebReserving(e)) \in Nat /\ Copies(e) \in Nat
    BY OneReserves DEF EvidenceSound
  <2>2. WebReserving(e)' = {} /\ Copying(e)' = {}
    BY <1>4, <1>13 DEF WebReserving, Copying, Reserves
  <2>3. WebMade(e)' \in SUBSET WebMade(e) BY <1>5, <1>6 DEF WebMade, Live
  <2>4. PICK m, k, c : m = WebMade(e)' /\ k = WebReserving(e)' /\ c = Copies(e)' OBVIOUS
  <2>5. IsFiniteSet(m) /\ Cardinality(m) <= Cardinality(WebMade(e))
    BY <2>1, <2>3, <2>4, FS_Subset
  <2>6. Cardinality(m) \in Nat /\ Cardinality(k) = 0
    BY <2>2, <2>4, <2>5, FS_CardinalityType, FS_EmptySet
  <2>7. Cardinality(B) \in Nat /\ Cardinality(Grantees) \in Nat
    BY <1>9, FS_CardinalityType DEF EvidenceAssumption
  <2>8. c = Copies(e) \/ c = 0
    <3>1. CASE ftx[x].day = e
      <4>1. Copying(e) = {x} BY <3>1, <1>3, <1>13 DEF Copying, Reserves
      <4>2. Cardinality(Copying(e)) = 1 BY <4>1, FS_Singleton
      <4>3. Copies(e) = 1 * Cardinality(B) * Cardinality(Grantees)
        BY <4>2, <1>2, <1>7, <3>1 DEF Copies
      <4>4. Copies(e)' = Cardinality(B \X Grantees) BY <1>3, <3>1 DEF Copies
      <4>5. \A p, q \in Nat : 1 * p * q = p * q OBVIOUS
      <4> QED BY <4>3, <4>4, <4>5, <1>10, <2>4, <2>7
    <3>2. CASE ftx[x].day # e
      <4>1. PICK F : F = FilesOf("bonus")' OBVIOUS
      <4>2. FilesOf("bonus")' \in SUBSET B BY <1>2, <1>5, <1>6 DEF FilesOf, Live
      <4>3. Cardinality(F) \in Nat BY <4>1, <4>2, <1>9, FS_Subset, FS_CardinalityType
      <4>4. Copies(e)' = Cardinality({}) * Cardinality(F) * Cardinality(Grantees)
        BY <2>2, <3>2, <1>3, <4>1 DEF Copies
      <4>5. Cardinality({}) = 0 BY FS_EmptySet
      <4>6. \A p, q \in Nat : 0 * p * q = 0 OBVIOUS
      <4> QED BY <4>3, <4>4, <4>5, <4>6, <2>4, <2>7
    <3> QED BY <3>1, <3>2
  <2>9. Cardinality(m) + Cardinality(k) + c <= DailyFiles
    BY <2>0, <2>1, <2>5, <2>6, <2>8 DEF WebKept, EvidenceAssumption
  <2> QED BY <2>4, <2>9 DEF WebKept
<1> QED BY <1>19, <1>20 DEF EvidenceSound

-----------------------------------------------------------------------------
(* The object store, the submission and the day                             *)

\* Where no row, no request and no copy changes, the quota stays as it is.
LEMMA QuotaUntouched ==
  ASSUME EvidenceHeld, EvidenceAssumption, NEW d \in 1 .. MaxFileDays, WebKept(d),
         UNCHANGED <<row, ftx, granted, bonus>>
  PROVE  WebKept(d)'
<1>1. /\ WebMade(d)' = WebMade(d) /\ WebReserving(d)' = WebReserving(d)
      /\ Copying(d)' = Copying(d) /\ FilesOf("bonus")' = FilesOf("bonus")
  BY DEF WebMade, WebReserving, Copying, FilesOf, Live
<1> QED BY <1>1, QuotaShrinks

\* An object comes, or goes where no row and no request in progress rests on it.
LEMMA ObjectChanges ==
  ASSUME EvidenceSound, EvidenceAssumption, NEW f \in Uploads, NEW c \in Contents \cup {"none"},
         obj' = [obj EXCEPT ![f] = c],
         removing' \subseteq removing, UNCHANGED <<row, copied, granted, item, bonus, ftx, fday>>,
         c # "none" \/ (row[f].st # "ready" /\ row[f].st # "pending")
  PROVE  EvidenceSound'
<1>0. obj \in [Uploads -> Contents \cup {"none"}] /\ removing \subseteq Uploads
  BY EvidenceTyped DEF EvidenceSound, EvidenceHeld
<1>1. /\ obj' \in [Uploads -> Contents \cup {"none"}] /\ obj'[f] = c
      /\ \A g \in Uploads \ {f} : obj'[g] = obj[g]
  BY <1>0
<1>2. EvidenceTypeOK' BY <1>0, <1>1 DEF EvidenceSound, EvidenceHeld, EvidenceTypeOK
<1>3. IsFiniteSet(LiveRows)' /\ IsFiniteSet(granted)'
  BY DEF EvidenceSound, EvidenceHeld, LiveRows, Live
<1>4. ASSUME NEW y \in FileTxs PROVE Stands(ftx[y])'
  <2>1. Stands(ftx[y]) BY DEF EvidenceSound, EvidenceHeld
  <2> QED BY <2>1, <1>1 DEF Stands, Live, Editable
<1>5. FilesApart' BY DEF EvidenceSound, EvidenceHeld, FilesApart, HoldsFiles, FilesOf, Live
<1>6. QuotaAlone' BY DEF EvidenceSound, EvidenceHeld, QuotaAlone, Reserves
<1>7. RemovesGone' BY DEF EvidenceSound, EvidenceHeld, RemovesGone
<1>8. ReadyHasObject' BY <1>1 DEF EvidenceSound, EvidenceHeld, ReadyHasObject
<1>9. \A e \in 1 .. MaxFileDays : WebKept(e)' BY QuotaUntouched DEF EvidenceSound
<1> QED BY <1>2, <1>3, <1>4, <1>5, <1>6, <1>7, <1>8, <1>9 DEF EvidenceSound, EvidenceHeld

LEMMA ObjectKept ==
  ASSUME EvidenceSound, EvidenceAssumption, NEW f \in Uploads,
         \/ \E c \in Contents : ClientUpload(f, c) \/ MCPUpload(f, c)
         \/ RemoveObject(f)
  PROVE  EvidenceSound'
<1>0. obj \in [Uploads -> Contents \cup {"none"}]
  BY EvidenceTyped DEF EvidenceSound, EvidenceHeld
<1>1. ASSUME NEW c \in Contents, ClientUpload(f, c) \/ MCPUpload(f, c) PROVE EvidenceSound'
  <2>1. obj' = [obj EXCEPT ![f] = c] /\ UNCHANGED <<row, copied, granted, item, bonus, ftx, removing, fday>>
    BY <1>1 DEF ClientUpload, MCPUpload
  <2>2. c # "none" /\ c \in Contents \cup {"none"} BY DEF Contents
  <2> QED BY <2>1, <2>2, ObjectChanges
<1>2. CASE RemoveObject(f)
  <2>1. /\ row[f].st = "gone" /\ removing' \subseteq removing
        /\ UNCHANGED <<row, copied, granted, item, bonus, ftx, fday>>
    BY <1>2 DEF RemoveObject, EvidenceSound, EvidenceHeld, RemovesGone
  <2>2. CASE obj' = obj
    <3>1. obj' = [obj EXCEPT ![f] = obj[f]] /\ obj[f] \in Contents \cup {"none"} BY <1>0, <2>2
    <3> QED BY <2>1, <3>1, ObjectChanges
  <2>3. CASE obj' = [obj EXCEPT ![f] = "none"]
    BY <2>1, <2>3, ObjectChanges
  <2> QED BY <1>2, <2>2, <2>3 DEF RemoveObject
<1> QED BY <1>1, <1>2

\* One copy for a member more.
LEMMA CopyKept ==
  ASSUME EvidenceSound, EvidenceAssumption, NEW x \in FileTxs, NEW f \in Uploads,
         NEW s \in Grantees, CopyBonusEvidence(x, f, s)
  PROVE  EvidenceSound'
<1>1. UNCHANGED <<row, obj, granted, item, bonus, ftx, removing, fday>>
      /\ copied' = copied \cup {<<f, s>>}
  BY DEF CopyBonusEvidence
<1>2. EvidenceTypeOK'
  BY <1>1 DEF EvidenceSound, EvidenceHeld, EvidenceTypeOK
<1>3. IsFiniteSet(LiveRows)' /\ IsFiniteSet(granted)'
  BY <1>1 DEF EvidenceSound, EvidenceHeld, LiveRows, Live
<1>4. ASSUME NEW y \in FileTxs PROVE Stands(ftx[y])'
  <2>1. Stands(ftx[y]) BY DEF EvidenceSound, EvidenceHeld
  <2> QED BY <2>1, <1>1 DEF Stands, Live, Editable
<1>5. FilesApart' BY <1>1 DEF EvidenceSound, EvidenceHeld, FilesApart, HoldsFiles, FilesOf, Live
<1>6. QuotaAlone' BY <1>1 DEF EvidenceSound, EvidenceHeld, QuotaAlone, Reserves
<1>7. RemovesGone' /\ ReadyHasObject'
  BY <1>1 DEF EvidenceSound, EvidenceHeld, RemovesGone, ReadyHasObject
<1>8. \A e \in 1 .. MaxFileDays : WebKept(e)' BY <1>1, QuotaUntouched DEF EvidenceSound
<1> QED BY <1>2, <1>3, <1>4, <1>5, <1>6, <1>7, <1>8 DEF EvidenceSound, EvidenceHeld

\* The submission moves on while nobody holds it; a deletion of its files would.
LEMMA ItemKept ==
  ASSUME EvidenceSound, EvidenceAssumption,
         SubmitItem \/ WithdrawItem \/ ConcludeItem \/ NextFileDay
  PROVE  EvidenceSound'
<1>1. UNCHANGED <<row, obj, copied, granted, bonus, ftx, removing>>
  BY DEF SubmitItem, WithdrawItem, ConcludeItem, NextFileDay
<1>2. EvidenceTypeOK'
  <2>1. item' \in {"draft", "pending", "consensus", "deleted"} /\ fday' \in 1 .. MaxFileDays
    BY EvidenceTyped DEF EvidenceSound, EvidenceHeld, EvidenceAssumption,
                         SubmitItem, WithdrawItem, ConcludeItem, NextFileDay
  <2> QED BY <1>1, <2>1 DEF EvidenceSound, EvidenceHeld, EvidenceTypeOK
<1>3. IsFiniteSet(LiveRows)' /\ IsFiniteSet(granted)'
  BY <1>1 DEF EvidenceSound, EvidenceHeld, LiveRows, Live
<1>4. item' = item \/ ItemFree BY DEF SubmitItem, WithdrawItem, ConcludeItem, NextFileDay
<1>5. ASSUME NEW y \in FileTxs PROVE Stands(ftx[y])'
  <2>1. Stands(ftx[y]) BY DEF EvidenceSound, EvidenceHeld
  <2> QED BY <2>1, <1>1, <1>4 DEF Stands, Live, Editable, ItemFree, HoldsItem
<1>6. FilesApart' BY <1>1 DEF EvidenceSound, EvidenceHeld, FilesApart, HoldsFiles, FilesOf, Live
<1>7. QuotaAlone' BY <1>1 DEF EvidenceSound, EvidenceHeld, QuotaAlone, Reserves
<1>8. RemovesGone' /\ ReadyHasObject'
  BY <1>1 DEF EvidenceSound, EvidenceHeld, RemovesGone, ReadyHasObject
<1>9. \A e \in 1 .. MaxFileDays : WebKept(e)' BY <1>1, QuotaUntouched DEF EvidenceSound
<1> QED BY <1>2, <1>3, <1>5, <1>6, <1>7, <1>8, <1>9 DEF EvidenceSound, EvidenceHeld

\* Its rows go together, none of them in the hands of a request.
LEMMA DeleteItemKept ==
  ASSUME EvidenceSound, EvidenceAssumption, DeleteItem
  PROVE  EvidenceSound'
<1>0. /\ row \in [Uploads -> FileRows] /\ ftx \in [FileTxs -> FileRequests]
      /\ removing \subseteq Uploads
  BY EvidenceTyped DEF EvidenceSound, EvidenceHeld
<1>1. PICK B : B = FilesOf("claim") OBVIOUS
<1>2. /\ ItemFree /\ \A f \in B : FileFree(f)
      /\ row' = [f \in Uploads |-> IF f \in B THEN [row[f] EXCEPT !.st = "gone"] ELSE row[f]]
      /\ removing' = removing \cup B /\ item' = "deleted"
      /\ UNCHANGED <<obj, copied, granted, bonus, ftx, fday>>
  BY <1>1 DEF DeleteItem
<1>3. B \subseteq Uploads /\ \A f \in B : Live(f) /\ row[f].ch = "claim" BY <1>1 DEF FilesOf
<1>4. /\ row' \in [Uploads -> FileRows] /\ \A f \in B : row'[f].st = "gone"
      /\ \A f \in Uploads \ B : row'[f] = row[f]
  <2>1. \A f \in Uploads : [row[f] EXCEPT !.st = "gone"] \in FileRows
    BY <1>0 DEF FileRows
  <2>2. \A f \in Uploads : [row[f] EXCEPT !.st = "gone"].st = "gone"
    BY <1>0 DEF FileRows
  <2> QED BY <1>0, <1>2, <1>3, <2>1, <2>2
<1>5. EvidenceTypeOK'
  <2>1. removing' \subseteq Uploads BY <1>0, <1>2, <1>3
  <2> QED BY <1>2, <1>4, <2>1 DEF EvidenceSound, EvidenceHeld, EvidenceTypeOK, FileRows
<1>6. IsFiniteSet(LiveRows)' /\ IsFiniteSet(granted)'
  <2>1. LiveRows' \in SUBSET LiveRows BY <1>3, <1>4 DEF LiveRows, Live
  <2>2. PICK L : L = LiveRows' OBVIOUS
  <2>3. IsFiniteSet(L) BY <2>1, <2>2, FS_Subset DEF EvidenceSound, EvidenceHeld
  <2> QED BY <2>2, <2>3, <1>2 DEF EvidenceSound, EvidenceHeld
<1>7. \A y \in FileTxs : Held(ftx[y]) \cap B = {}
  BY <1>2, HeldIsHolds DEF FileFree
<1>8. FilesOf("bonus")' = FilesOf("bonus") BY <1>3, <1>4 DEF FilesOf, Live
<1>9. ASSUME NEW y \in FileTxs PROVE Stands(ftx[y])'
  <2>1. PICK t \in FileRequests : t = ftx[y] /\ t = ftx'[y] BY <1>0, <1>2
  <2>2. Stands(t) /\ (t.op = "delete" => t.ch # "claim")
    BY <2>1, <1>2 DEF EvidenceSound, EvidenceHeld, ItemFree, HoldsItem
  <2>3. t.op \in {"complete", "passed", "delete"} => t.f \in Uploads \ B
    <3>1. Held(t) \cap B = {} BY <1>7, <2>1
    <3> QED BY <3>1, <2>2 DEF Held, Stands
  <2>4. t.op = "presign" => t.f \in Uploads \ B
    BY <2>2, <1>3 DEF Stands, Live
  <2>5. t.op \in {"presign", "complete", "passed", "delete"} => row'[t.f] = row[t.f]
    BY <2>3, <2>4, <1>4
  <2>6. Stands(t)' BY <2>2, <2>3, <2>4, <2>5, <1>2 DEF Stands, Live, Editable
  <2> QED BY <2>1, <2>6 DEF Stands, Live, Editable
<1>10. FilesApart'
  <2>1. \A y \in FileTxs : HoldsFiles(y)' = HoldsFiles(y) BY <1>2, <1>8 DEF HoldsFiles
  <2> QED BY <2>1 DEF EvidenceSound, EvidenceHeld, FilesApart
<1>11. QuotaAlone' BY <1>2 DEF EvidenceSound, EvidenceHeld, QuotaAlone, Reserves
<1>12. RemovesGone'
  BY <1>0, <1>2, <1>4 DEF EvidenceSound, EvidenceHeld, RemovesGone
<1>13. ReadyHasObject'
  BY <1>2, <1>4 DEF EvidenceSound, EvidenceHeld, ReadyHasObject
<1>14. ASSUME NEW e \in 1 .. MaxFileDays PROVE WebKept(e)'
  <2>1. WebMade(e)' \subseteq WebMade(e) BY <1>3, <1>4 DEF WebMade, Live
  <2>2. WebReserving(e)' = WebReserving(e) /\ Copying(e)' = Copying(e)
    BY <1>2 DEF WebReserving, Copying
  <2> QED BY <2>1, <2>2, <1>2, <1>8, QuotaShrinks DEF EvidenceSound
<1> QED BY <1>5, <1>6, <1>9, <1>10, <1>11, <1>12, <1>13, <1>14 DEF EvidenceSound, EvidenceHeld

\* A refused upload is discarded: only this request works on the row, which is not ready.
LEMMA RefusedKept ==
  ASSUME EvidenceSound, EvidenceAssumption, NEW x \in FileTxs, ftx[x].op = "complete", TxEnd(x),
         obj' = [obj EXCEPT ![ftx[x].f] = "none"],
         UNCHANGED <<row, copied, granted, item, bonus, removing, fday>>
  PROVE  EvidenceSound'
<1>0. /\ ftx \in [FileTxs -> FileRequests] /\ obj \in [Uploads -> Contents \cup {"none"}]
  BY EvidenceTyped DEF EvidenceSound, EvidenceHeld
<1>1. PICK d \in FileRequests : d = IdleFileTx /\ d.op = "idle" BY IdleIsARequest
<1>2. /\ ftx' \in [FileTxs -> FileRequests] /\ ftx'[x] = d
      /\ \A y \in FileTxs \ {x} : ftx'[y] = ftx[y]
  BY <1>0, <1>1 DEF TxEnd, TxTo
<1>3. PICK f : f = ftx[x].f OBVIOUS
<1>4. f \in Uploads /\ row[f].st = "pending"
  BY <1>3 DEF EvidenceSound, EvidenceHeld, Stands
<1>5. /\ obj' \in [Uploads -> Contents \cup {"none"}]
      /\ \A g \in Uploads \ {f} : obj'[g] = obj[g]
  BY <1>0, <1>3
<1>6. EvidenceTypeOK'
  BY <1>2, <1>5 DEF EvidenceSound, EvidenceHeld, EvidenceTypeOK, FileRequests
<1>7. IsFiniteSet(LiveRows)' /\ IsFiniteSet(granted)'
  BY DEF EvidenceSound, EvidenceHeld, LiveRows, Live
<1>8. \A y, z \in FileTxs : y # z => Held(ftx[y]) \cap Held(ftx[z]) = {}
  BY HeldIsHolds DEF EvidenceSound, EvidenceHeld, FilesApart
<1>9. ASSUME NEW y \in FileTxs PROVE Stands(ftx[y])'
  <2>1. CASE y = x
    <3>1. ftx'[y].op = "idle" BY <1>1, <1>2, <2>1
    <3> QED BY <3>1 DEF Stands
  <2>2. CASE y # x
    <3>1. PICK t \in FileRequests : t = ftx[y] /\ t = ftx'[y] BY <1>0, <1>2, <2>2
    <3>2. Stands(t) BY <3>1 DEF EvidenceSound, EvidenceHeld
    <3>3. t.op = "passed" => t.f # f
      <4>1. Held(ftx[x]) = {f} BY <1>3 DEF Held
      <4>2. Held(t) \cap Held(ftx[x]) = {} BY <1>8, <2>2, <3>1
      <4>3. t.op = "passed" => t.f \in Held(t) BY DEF Held
      <4> QED BY <4>1, <4>2, <4>3
    <3>4. t.op = "passed" => obj'[t.f] = obj[t.f] BY <3>2, <3>3, <1>5 DEF Stands
    <3>5. Stands(t)' BY <3>2, <3>4 DEF Stands, Live, Editable
    <3> QED BY <3>1, <3>5 DEF Stands, Live, Editable
  <2> QED BY <2>1, <2>2
<1>10. FilesApart'
  <2>1. \A y \in FileTxs : HoldsFiles(y)' \subseteq Held(ftx[y])
    BY <1>1, <1>2 DEF HoldsFiles, Held, FilesOf, Live
  <2> HIDE DEF Held, HoldsFiles
  <2> QED BY <2>1, <1>8 DEF FilesApart
<1>11. QuotaAlone' BY <1>1, <1>2 DEF EvidenceSound, EvidenceHeld, QuotaAlone, Reserves
<1>12. RemovesGone' BY DEF EvidenceSound, EvidenceHeld, RemovesGone
<1>13. ReadyHasObject' BY <1>4, <1>5 DEF EvidenceSound, EvidenceHeld, ReadyHasObject
<1>14. ASSUME NEW e \in 1 .. MaxFileDays PROVE WebKept(e)'
  <2>1. WebReserving(e)' \subseteq WebReserving(e) /\ Copying(e)' \subseteq Copying(e)
    BY <1>1, <1>2 DEF WebReserving, Copying
  <2>2. WebMade(e)' = WebMade(e) /\ FilesOf("bonus")' = FilesOf("bonus")
    BY DEF WebMade, FilesOf, Live
  <2> QED BY <2>1, <2>2, QuotaShrinks DEF EvidenceSound
<1> QED BY <1>6, <1>7, <1>9, <1>10, <1>11, <1>12, <1>13, <1>14 DEF EvidenceSound, EvidenceHeld

LEMMA SettleKept ==
  ASSUME EvidenceSound, EvidenceAssumption, NEW x \in FileTxs, SettleEvidenceUpload(x)
  PROVE  EvidenceSound'
<1>0. ftx \in [FileTxs -> FileRequests] BY EvidenceTyped DEF EvidenceSound, EvidenceHeld
<1>1. PICK f : f = ftx[x].f OBVIOUS
<1>2. /\ ftx[x].op = "complete" /\ UNCHANGED <<row, copied, granted, item, bonus, removing, fday>>
      /\ \/ TxEnd(x) /\ (obj' = obj \/ obj' = [obj EXCEPT ![f] = "none"])
         \/ Acceptable(obj[f]) /\ TxTo(x, [ftx[x] EXCEPT !.op = "passed"]) /\ obj' = obj
  BY <1>1 DEF SettleEvidenceUpload
<1>3. CASE TxEnd(x) /\ obj' = obj
  BY <1>2, <1>3, RequestGivesUp DEF RestUnchanged
<1>4. CASE TxEnd(x) /\ obj' = [obj EXCEPT ![f] = "none"]
  BY <1>1, <1>2, <1>4, RefusedKept
<1>5. CASE Acceptable(obj[f]) /\ TxTo(x, [ftx[x] EXCEPT !.op = "passed"]) /\ obj' = obj
  <2>1. PICK d : d = [ftx[x] EXCEPT !.op = "passed"] OBVIOUS
  <2>2. d \in FileRequests /\ d.op = "passed" /\ d.f = f
    BY <1>0, <1>1, <2>1 DEF FileRequests
  <2>3. ftx' = [ftx EXCEPT ![x] = d] BY <1>5, <2>1 DEF TxTo
  <2>4. f \in Uploads /\ row[f].st = "pending"
    BY <1>1, <1>2 DEF EvidenceSound, EvidenceHeld, Stands
  <2>5. Stands(d) BY <1>5, <2>2, <2>4 DEF Stands, Acceptable
  <2>6. \A y \in FileTxs \ {x} : Held(d) \cap Held(ftx[y]) = {}
    <3>1. Held(d) = Held(ftx[x]) BY <1>1, <1>2, <2>2 DEF Held
    <3>2. \A y \in FileTxs \ {x} : Held(ftx[x]) \cap Held(ftx[y]) = {}
      BY HeldIsHolds DEF EvidenceSound, EvidenceHeld, FilesApart
    <3> HIDE DEF Held
    <3> QED BY <3>1, <3>2
  <2>7. RestUnchanged /\ granted' = granted /\ copied' = copied BY <1>2, <1>5 DEF RestUnchanged
  <2>8. copied' \subseteq Uploads \X Grantees /\ granted \subseteq copied'
    BY <2>7, EvidenceTyped DEF EvidenceSound, EvidenceHeld, ReadyHasObject
  <2>9. d.op \notin {"presign", "grant"} BY <2>2
  <2> HIDE DEF Held, Stands
  <2> QED BY <2>2, <2>3, <2>5, <2>6, <2>7, <2>8, <2>9, RequestSpendsNothing
<1> QED BY <1>2, <1>3, <1>4, <1>5

-----------------------------------------------------------------------------
(* The theorems about evidence                                              *)

LEMMA EvidenceStarts ==
  ASSUME EvidenceInit, EvidenceAssumption
  PROVE  EvidenceSound
<1>1. IdleFileTx \in FileRequests /\ IdleFileTx.op = "idle" BY IdleIsARequest
<1>2. \A x \in FileTxs : ftx[x] = IdleFileTx /\ ftx[x].op = "idle" BY <1>1 DEF EvidenceInit
<1>3. EvidenceTypeOK
  <2>1. NoRow \in FileRows BY DEF NoRow, FileRows, Channels, EvidenceAssumption
  <2> QED BY <1>1, <2>1 DEF EvidenceInit, EvidenceTypeOK, FileRows, FileRequests, Contents
<1>4. \A f \in Uploads : row[f].st = "none" BY DEF EvidenceInit, NoRow
<1>5. LiveRows = {} /\ granted = {} BY <1>4 DEF LiveRows, Live, EvidenceInit
<1>6. \A x \in FileTxs : Stands(ftx[x]) BY <1>2 DEF Stands
<1>7. FilesApart /\ QuotaAlone BY <1>2 DEF FilesApart, HoldsFiles, QuotaAlone, Reserves
<1>8. RemovesGone /\ ReadyHasObject BY <1>4 DEF EvidenceInit, RemovesGone, ReadyHasObject
<1>9. EvidenceHeld BY <1>3, <1>5, <1>6, <1>7, <1>8, FS_EmptySet DEF EvidenceHeld
<1>10. ASSUME NEW e \in 1 .. MaxFileDays PROVE WebKept(e)
  <2>1. /\ WebMade(e) = {} /\ WebReserving(e) = {} /\ Copying(e) = {} /\ FilesOf("bonus") = {}
    BY <1>2, <1>4 DEF WebMade, WebReserving, Copying, FilesOf, Live
  <2>2. Cardinality({}) = 0 /\ Cardinality(Grantees) \in Nat
    BY FS_EmptySet, FS_CardinalityType DEF EvidenceAssumption
  <2>3. bonus # e BY DEF EvidenceInit
  <2>4. Copies(e) = 0 * 0 * Cardinality(Grantees) BY <2>1, <2>2, <2>3 DEF Copies
  <2>5. Copies(e) = 0 BY <2>2, <2>4
  <2> QED BY <2>1, <2>2, <2>5 DEF WebKept, EvidenceAssumption
<1> QED BY <1>9, <1>10 DEF EvidenceSound

LEMMA EvidenceStep ==
  ASSUME EvidenceSound, EvidenceAssumption, EvidenceNext
  PROVE  EvidenceSound'
<1>1. ASSUME NEW x \in FileTxs,
             \/ BeginLink(x) \/ PresignCommit(x) \/ SettleEvidenceUpload(x) \/ CompleteCommit(x)
             \/ DeleteCommit(x) \/ Rollback(x) \/ PrepareBonusEvidence(x)
             \/ ConsumeBonusEvidence(x) \/ DiscardBonusCopies(x)
      PROVE  EvidenceSound'
  BY <1>1, BeginLinkKept, PresignCommitKept, SettleKept, RowStaysKept, GiveUpKept, PrepareKept,
     ConsumeKept
<1>2. ASSUME NEW x \in FileTxs, NEW f \in Uploads,
             \/ \E ch \in Channels : Presign(x, f, ch)
             \/ Complete(x, f) \/ Delete(x, f)
             \/ \E s \in Grantees : CopyBonusEvidence(x, f, s)
      PROVE  EvidenceSound'
  BY <1>2, PresignKept, TakeFileKept, CopyKept
<1>3. ASSUME NEW f \in Uploads,
             (\E c \in Contents : ClientUpload(f, c) \/ MCPUpload(f, c)) \/ RemoveObject(f)
      PROVE  EvidenceSound'
  BY <1>3, ObjectKept
<1>4. CASE SubmitItem \/ WithdrawItem \/ ConcludeItem \/ NextFileDay BY <1>4, ItemKept
<1>5. CASE DeleteItem BY <1>5, DeleteItemKept
<1> QED BY <1>1, <1>2, <1>3, <1>4, <1>5 DEF EvidenceNext

LEMMA EvidenceStutter ==
  ASSUME EvidenceSound, UNCHANGED evVars
  PROVE  EvidenceSound'
<1>1. EvidenceHeld'
  BY DEF EvidenceSound, EvidenceHeld, evVars, EvidenceTypeOK, LiveRows, Live, Stands, Editable,
         FilesApart, HoldsFiles, FilesOf, QuotaAlone, Reserves, RemovesGone, ReadyHasObject
<1>2. \A e \in 1 .. MaxFileDays : WebKept(e)'
  BY DEF EvidenceSound, evVars, WebKept, WebMade, WebReserving, Copying, Copies, FilesOf, Live
<1> QED BY <1>1, <1>2 DEF EvidenceSound

LEMMA EvidenceAlways == EvidenceSpec => []EvidenceSound
<1>1. EvidenceInit => EvidenceSound BY EvidenceAssumption, EvidenceStarts
<1>2. EvidenceSound /\ [EvidenceNext]_evVars => EvidenceSound'
  BY EvidenceAssumption, EvidenceStep, EvidenceStutter
<1> QED BY <1>1, <1>2, PTL DEF EvidenceSpec

\* What the web makes and reserves is all there is on a day without links.
LEMMA QuotaIsKept ==
  ASSUME EvidenceSound, EvidenceAssumption
  PROVE  WithinDailyBytes
<1> SUFFICES ASSUME NEW d \in 1 .. MaxFileDays,
                    ~ \E f \in {f \in Uploads : Live(f) /\ row[f].born = d} : row[f].via = "link",
                    ~ \E x \in {x \in FileTxs : ftx[x].op = "presign" /\ ftx[x].day = d} :
                         ftx[x].via = "link"
             PROVE  Cardinality({f \in Uploads : Live(f) /\ row[f].born = d})
                      + Cardinality({x \in FileTxs : ftx[x].op = "presign" /\ ftx[x].day = d})
                      + Copies(d) <= DailyFiles
  BY DEF WithinDailyBytes, Copies, Copying
<1>1. /\ \A f \in Uploads : row[f].via \in {"web", "link"}
      /\ \A x \in FileTxs : ftx[x].via \in {"web", "link"}
  BY EvidenceTyped DEF EvidenceSound, EvidenceHeld, FileRows, FileRequests
<1>2. {f \in Uploads : Live(f) /\ row[f].born = d} = WebMade(d) BY <1>1 DEF WebMade
<1>3. {x \in FileTxs : ftx[x].op = "presign" /\ ftx[x].day = d} = WebReserving(d)
  BY <1>1 DEF WebReserving
<1>4. WebKept(d) BY DEF EvidenceSound
<1> HIDE DEF Copies
<1> QED BY <1>2, <1>3, <1>4 DEF WebKept

\* A row that is ready has its object, and a day's uploads stay within their quota, for any
\* number of files, requests and days (evidence_handlers.go, bonus_grant_evidence.go, quota.go).
THEOREM FilesAreKept == EvidenceSpec => []EvidenceInv
<1>1. EvidenceSound => EvidenceInv
  BY EvidenceAssumption, QuotaIsKept DEF EvidenceSound, EvidenceHeld, EvidenceInv
<1> QED BY <1>1, EvidenceAlways, PTL

\* No step takes a file of a concluded item away: a deletion under way holds the lock of the
\* submission, and so the item was still editable (deleteSubmissionEvidence).
LEMMA ConcludedStep ==
  ASSUME EvidenceSound, EvidenceNext, item = "consensus"
  PROVE  Required \subseteq Required'
<1>0. /\ row \in [Uploads -> FileRows] /\ ftx \in [FileTxs -> FileRequests]
  BY EvidenceTyped DEF EvidenceSound, EvidenceHeld
<1>1. CASE row' = row
  BY <1>1 DEF Required, FilesOf, Live
<1>2. ASSUME NEW x \in FileTxs, PresignCommit(x) PROVE Required \subseteq Required'
  <2>1. PICK f : f = ftx[x].f OBVIOUS
  <2>2. f \in Uploads /\ row[f].st = "none"
    BY <1>2, <2>1 DEF EvidenceSound, EvidenceHeld, Stands, PresignCommit
  <2>3. \A g \in Uploads \ {f} : row'[g] = row[g] BY <1>0, <1>2, <2>1 DEF PresignCommit
  <2> QED BY <2>2, <2>3 DEF Required, FilesOf, Live
<1>3. ASSUME NEW x \in FileTxs, NEW s \in {"ready", "gone"}, ftx[x].op \in {"passed", "delete"},
             row' = [row EXCEPT ![ftx[x].f].st = s],
             s = "gone" => ftx[x].op = "delete"
      PROVE  Required \subseteq Required'
  <2>1. PICK f : f = ftx[x].f OBVIOUS
  <2>2. /\ f \in Uploads
        /\ s = "gone" => row[f].ch # "claim"
    BY <1>3, <2>1 DEF EvidenceSound, EvidenceHeld, Stands, Editable
  <2>3. PICK r : r = [row[f] EXCEPT !.st = s] OBVIOUS
  <2>4. r.st = s /\ r.ch = row[f].ch BY <1>0, <2>2, <2>3 DEF FileRows
  <2>5. row'[f] = r /\ \A g \in Uploads \ {f} : row'[g] = row[g]
    BY <1>0, <1>3, <2>1, <2>2, <2>3
  <2> QED BY <2>2, <2>4, <2>5 DEF Required, FilesOf, Live
<1>4. ASSUME NEW x \in FileTxs, ConsumeBonusEvidence(x) PROVE Required \subseteq Required'
  <2>1. \A f \in Uploads : f \notin FilesOf("bonus") => row'[f] = row[f]
    BY <1>4 DEF ConsumeBonusEvidence
  <2>2. \A f \in Required : f \in Uploads /\ f \notin FilesOf("bonus") BY DEF Required, FilesOf
  <2> QED BY <2>1, <2>2 DEF Required, FilesOf, Live
<1>5. ASSUME NEW x \in FileTxs, CompleteCommit(x) \/ DeleteCommit(x) PROVE Required \subseteq Required'
  BY <1>3, <1>5 DEF CompleteCommit, DeleteCommit
<1>6. ~DeleteItem BY DEF DeleteItem, Editable
<1>7. \/ row' = row
      \/ \E x \in FileTxs : \/ PresignCommit(x) \/ ConsumeBonusEvidence(x)
                            \/ CompleteCommit(x) \/ DeleteCommit(x)
  BY <1>6, ZenonT(60) DEF EvidenceNext, BeginLink, Presign, Complete, Delete, CopyBonusEvidence,
              SettleEvidenceUpload, Rollback, PrepareBonusEvidence, DiscardBonusCopies,
              ClientUpload, MCPUpload, RemoveObject, SubmitItem, WithdrawItem, ConcludeItem,
              NextFileDay
<1> QED BY <1>1, <1>2, <1>4, <1>5, <1>7

\* Once a reviewer has concluded, no file of the item disappears, also not by a deletion that
\* was begun before (deleteSubmissionEvidence, FOR UPDATE OF e,s).
THEOREM ConcludedFilesStay == EvidenceSpec => ConcludedKeepsFiles
<1>1. EvidenceSound /\ [EvidenceNext]_evVars
        => [item = "consensus" => Required \subseteq Required']_evVars
  BY ConcludedStep
<1> QED BY <1>1, EvidenceAlways, PTL DEF EvidenceSpec, ConcludedKeepsFiles

-----------------------------------------------------------------------------
(* Members: the deputy, and the rows that a ruling has locked               *)

OneDeputy == \A u, v \in Deputies : u = v
DeputyMay == \A u \in Deputies : member[u].role = "group" /\ member[u].active

\* No request is about to write a row that a ruling holds, its ruler's and its subject's.
RulingsLock ==
  /\ \A x, y \in MemberTxs : mreq[x].who \cap mreq[y].reads = {}
  /\ \A x \in MemberTxs : mreq[x].by \cup mreq[x].on \subseteq mreq[x].reads

MemberSound == MemberTypeOK /\ OneDeputy /\ DeputyMay /\ RulingKeepsScope /\ RulingsLock

LEMMA MemberTyped ==
  ASSUME MemberSound
  PROVE  member \in [Users -> MemberRow] /\ mreq \in [MemberTxs -> MemberReq]
BY DEF MemberSound, MemberTypeOK

LEMMA RowTyped ==
  ASSUME NEW r \in MemberRow
  PROVE  /\ r.listed \in MemberRoles \cup {"none"} /\ r.role \in MemberRoles \cup {"none"}
         /\ r.active \in BOOLEAN /\ r.password \in BOOLEAN /\ r.deputy \in BOOLEAN
BY DEF MemberRow

\* clear_ineligible_class_deputy: who may not be deputy is not, the rest of the row stays.
LEMMA TriggerClears ==
  ASSUME NEW r \in MemberRow
  PROVE  /\ ClearDeputy(r) \in MemberRow
         /\ ClearDeputy(r).role = r.role /\ ClearDeputy(r).active = r.active
         /\ ClearDeputy(r).deputy => r.deputy /\ r.role = "group" /\ r.active
<1>1. CASE r.role # "group" \/ ~r.active
  <2>1. PICK c : c = [r EXCEPT !.deputy = FALSE] OBVIOUS
  <2>2. c \in MemberRow /\ c.role = r.role /\ c.active = r.active /\ c.deputy = FALSE
    BY <2>1 DEF MemberRow
  <2> QED BY <1>1, <2>1, <2>2 DEF ClearDeputy
<1>2. CASE ~(r.role # "group" \/ ~r.active)
  <2>1. r.role = "group" /\ r.active BY <1>2
  <2> QED BY <1>2, <2>1 DEF ClearDeputy
<1> QED BY <1>1, <1>2

\* Rows may change if nobody but one eligible member becomes deputy, and no row that a ruling
\* holds changes in what the ruling rests on.
LEMMA RowsChange ==
  ASSUME MemberSound, NEW m \in [Users -> MemberRow], member' = m,
         \A u \in Users : m[u].deputy => m[u].role = "group" /\ m[u].active,
         \A u, v \in Users : m[u].deputy /\ m[v].deputy => u = v,
         \A x \in MemberTxs : \A u \in mreq[x].reads :
            m[u].role = member[u].role /\ (member[u].deputy => m[u].deputy),
         \/ mreq' = mreq
         \/ \E x \in MemberTxs : mreq' = [mreq EXCEPT ![x] = IdleReq]
  PROVE  MemberSound'
<1>0. member \in [Users -> MemberRow] /\ mreq \in [MemberTxs -> MemberReq] BY MemberTyped
<1>1. PICK i : i = IdleReq OBVIOUS
<1>2. i \in MemberReq /\ i.who = {} /\ i.reads = {} /\ i.by = {} /\ i.on = {}
  BY <1>1 DEF IdleReq, MemberReq, MemberRoles
<1>3. /\ mreq' \in [MemberTxs -> MemberReq]
      /\ \A x \in MemberTxs : mreq'[x] = mreq[x] \/ mreq'[x] = i
  BY <1>0, <1>1, <1>2
<1>4. MemberTypeOK' BY <1>3 DEF MemberTypeOK
<1>5. OneDeputy' /\ DeputyMay' BY DEF OneDeputy, DeputyMay, Deputies
<1>6. RulingsLock' BY <1>2, <1>3 DEF MemberSound, RulingsLock
<1>7. RulingKeepsScope'
  <2> SUFFICES ASSUME NEW x \in MemberTxs
               PROVE  /\ mreq'[x].by \subseteq Deputies'
                      /\ \A s \in mreq'[x].on : m[s].role = "class_admin"
    BY DEF RulingKeepsScope
  <2>1. CASE mreq'[x] = i BY <2>1, <1>2
  <2>2. CASE mreq'[x] = mreq[x]
    <3>1. mreq[x].by \cup mreq[x].on \subseteq mreq[x].reads BY DEF MemberSound, RulingsLock
    <3>2. mreq[x].by \subseteq Deputies /\ \A s \in mreq[x].on : member[s].role = "class_admin"
      BY DEF MemberSound, RulingKeepsScope
    <3> QED BY <2>2, <3>1, <3>2 DEF Deputies
  <2> QED BY <1>3, <2>1, <2>2
<1> QED BY <1>4, <1>5, <1>6, <1>7 DEF MemberSound

\* One row changes, but neither its role nor its deputy, or nobody holds it.
LEMMA RowChanges ==
  ASSUME MemberSound, NEW u \in Users, NEW r \in MemberRow,
         member' = [member EXCEPT ![u] = r], mreq' = mreq,
         r.deputy => member[u].deputy /\ r.role = "group" /\ r.active,
         RowFree(u) \/ (r.role = member[u].role /\ r.deputy = member[u].deputy)
  PROVE  MemberSound'
<1>0. member \in [Users -> MemberRow] BY MemberTyped
<1>1. PICK m \in [Users -> MemberRow] : m = [member EXCEPT ![u] = r] BY <1>0
<1>2. m[u] = r /\ \A v \in Users \ {u} : m[v] = member[v] BY <1>0, <1>1
<1>3. /\ \A v \in Users : m[v].deputy => m[v].role = "group" /\ m[v].active
      /\ \A v, w \in Users : m[v].deputy /\ m[w].deputy => v = w
  BY <1>2 DEF MemberSound, OneDeputy, DeputyMay, Deputies
<1>4. \A x \in MemberTxs : \A v \in mreq[x].reads :
         m[v].role = member[v].role /\ (member[v].deputy => m[v].deputy)
  <2>1. \A x \in MemberTxs : mreq[x].reads \subseteq Users BY MemberTyped DEF MemberReq
  <2>2. CASE RowFree(u) BY <1>2, <2>1, <2>2 DEF RowFree, HeldBy
  <2>3. CASE r.role = member[u].role /\ r.deputy = member[u].deputy BY <1>2, <2>1, <2>3
  <2> QED BY <2>2, <2>3
<1> QED BY <1>1, <1>3, <1>4, RowsChange

\* The roster and the passwords.
LEMMA RosterKept ==
  ASSUME MemberSound, MembersAssumption, NEW u \in Users,
         \/ AddWhitelist(u) \/ DeleteWhitelist(u) \/ Activate(u) \/ AppointAdmin(u)
         \/ \E r \in ImportRoles : ImportWhitelist(u, r)
  PROVE  MemberSound'
<1>0. member \in [Users -> MemberRow] BY MemberTyped
<1>1. PICK w \in MemberRow : w = member[u] BY <1>0
<1>2. /\ w.listed \in MemberRoles \cup {"none"} /\ w.role \in MemberRoles \cup {"none"}
      /\ w.deputy => w.role = "group" /\ w.active
  BY <1>1, RowTyped DEF MemberSound, DeputyMay, Deputies
<1>3. ASSUME NEW l \in MemberRoles \cup {"none"}, member' = [member EXCEPT ![u].listed = l],
             mreq' = mreq
      PROVE  MemberSound'
  <2>1. PICK r : r = [w EXCEPT !.listed = l] OBVIOUS
  <2>2. r \in MemberRow /\ r.role = w.role /\ r.active = w.active /\ r.deputy = w.deputy
    BY <2>1 DEF MemberRow
  <2>3. member' = [member EXCEPT ![u] = r] BY <1>1, <1>3, <2>1
  <2> QED BY <1>1, <1>2, <1>3, <2>2, <2>3, RowChanges, ZenonT(60)
<1>4. CASE AddWhitelist(u) BY <1>3, <1>4 DEF AddWhitelist, MemberRoles
<1>5. CASE DeleteWhitelist(u) BY <1>3, <1>5 DEF DeleteWhitelist, MemberRoles
<1>6. ASSUME NEW r \in ImportRoles, ImportWhitelist(u, r) PROVE MemberSound'
  BY <1>3, <1>6 DEF ImportWhitelist, MembersAssumption
<1>7. CASE Activate(u)
  <2>1. PICK role : role = IF w.role = "none" THEN w.listed ELSE w.role OBVIOUS
  <2>2. role \in MemberRoles \cup {"none"} /\ (w.role # "none" => role = w.role) BY <1>2, <2>1
  <2>3. PICK r : r = [w EXCEPT !.password = TRUE, !.role = role] OBVIOUS
  <2>4. r \in MemberRow /\ r.role = role /\ r.active = w.active /\ r.deputy = w.deputy
    BY <2>2, <2>3 DEF MemberRow
  <2>5. member' = [member EXCEPT ![u] = r] /\ mreq' = mreq /\ RowFree(u)
    BY <1>1, <1>7, <2>1, <2>3 DEF Activate
  <2>6. r.deputy => w.deputy /\ r.role = "group" /\ r.active BY <1>2, <2>2, <2>4
  <2> QED BY <1>1, <2>4, <2>5, <2>6, RowChanges
<1>8. CASE AppointAdmin(u)
  <2>1. PICK role : role = IF w.role = "none" THEN "none" ELSE "class_admin" OBVIOUS
  <2>2. role \in MemberRoles \cup {"none"} BY <2>1 DEF MemberRoles
  <2>3. PICK r : r = [w EXCEPT !.listed = "class_admin", !.active = TRUE, !.role = role] OBVIOUS
  <2>4. r \in MemberRow /\ r.deputy = w.deputy
    BY <2>2, <2>3 DEF MemberRow, MemberRoles
  <2>5. PICK c : c = ClearDeputy(r) OBVIOUS
  <2>6. c \in MemberRow /\ c.role = r.role /\ c.active = r.active
        /\ (c.deputy => r.deputy /\ r.role = "group" /\ r.active)
    BY <2>4, <2>5, TriggerClears
  <2>7. member' = [member EXCEPT ![u] = c] /\ mreq' = mreq /\ RowFree(u)
    BY <1>1, <1>8, <2>1, <2>3, <2>5 DEF AppointAdmin
  <2> QED BY <1>1, <2>4, <2>6, <2>7, RowChanges
<1> QED BY <1>4, <1>5, <1>6, <1>7, <1>8

LEMMA ResetKept ==
  ASSUME MemberSound, NEW us \in SUBSET Users, ResetPasswords(us)
  PROVE  MemberSound'
<1>0. member \in [Users -> MemberRow] /\ mreq' = mreq BY MemberTyped DEF ResetPasswords
<1>1. \A w \in MemberRow : LET r == [w EXCEPT !.password = FALSE] IN
        /\ r \in MemberRow /\ r.role = w.role /\ r.active = w.active /\ r.deputy = w.deputy
  BY DEF MemberRow
<1>2. PICK m : m = [u \in Users |-> IF u \in us THEN [member[u] EXCEPT !.password = FALSE]
                                               ELSE member[u]]
  OBVIOUS
<1>3. m \in [Users -> MemberRow] BY <1>0, <1>1, <1>2
<1>4. \A u \in Users : /\ m[u].role = member[u].role /\ m[u].active = member[u].active
                      /\ m[u].deputy = member[u].deputy
  BY <1>0, <1>1, <1>2
<1>5. member' = m BY <1>2 DEF ResetPasswords
<1>6. /\ \A u \in Users : m[u].deputy => m[u].role = "group" /\ m[u].active
      /\ \A u, v \in Users : m[u].deputy /\ m[v].deputy => u = v
  BY <1>4 DEF MemberSound, OneDeputy, DeputyMay, Deputies
<1>7. \A x \in MemberTxs : mreq[x].reads \subseteq Users BY MemberTyped DEF MemberReq
<1>8. \A x \in MemberTxs : \A u \in mreq[x].reads :
        m[u].role = member[u].role /\ (member[u].deputy => m[u].deputy)
  BY <1>4, <1>7
<1> QED BY <1>0, <1>3, <1>5, <1>6, <1>8, RowsChange

\* updateUserRole and updateUserStatus write a row that no ruling holds.
LEMMA WriteKept ==
  ASSUME MemberSound, NEW x \in MemberTxs, RoleCommit(x) \/ StatusCommit(x)
  PROVE  MemberSound'
<1>0. member \in [Users -> MemberRow] /\ mreq \in [MemberTxs -> MemberReq] BY MemberTyped
<1>1. PICK q \in MemberReq : q = mreq[x] BY <1>0
<1>2. q.role \in MemberRoles /\ q.active \in BOOLEAN /\ q.who \subseteq Users
  BY DEF MemberReq
<1>3. PICK f \in [Users -> MemberRow] :
        /\ member' = [u \in Users |-> IF u \in q.who THEN ClearDeputy(f[u]) ELSE member[u]]
        /\ \A u \in Users : f[u].deputy = member[u].deputy
  <2>1. CASE RoleCommit(x)
    <3>1. PICK f : f = [u \in Users |-> [member[u] EXCEPT !.role = q.role, !.listed = q.role]]
      OBVIOUS
    <3>2. \A w \in MemberRow : LET r == [w EXCEPT !.role = q.role, !.listed = q.role] IN
            r \in MemberRow /\ r.deputy = w.deputy
      BY <1>2 DEF MemberRow
    <3>3. f \in [Users -> MemberRow] /\ \A u \in Users : f[u].deputy = member[u].deputy
      BY <1>0, <3>1, <3>2
    <3>4. \A u \in Users : f[u] = [member[u] EXCEPT !.role = q.role, !.listed = q.role]
      BY <3>1
    <3>5. member' = [u \in Users |-> IF u \in q.who THEN ClearDeputy(f[u]) ELSE member[u]]
      BY <1>1, <2>1, <3>4 DEF RoleCommit
    <3> QED BY <3>3, <3>5
  <2>2. CASE StatusCommit(x)
    <3>1. PICK f : f = [u \in Users |-> [member[u] EXCEPT !.active = q.active]]
      OBVIOUS
    <3>2. \A w \in MemberRow : LET r == [w EXCEPT !.active = q.active] IN
            r \in MemberRow /\ r.deputy = w.deputy
      BY <1>2 DEF MemberRow
    <3>3. f \in [Users -> MemberRow] /\ \A u \in Users : f[u].deputy = member[u].deputy
      BY <1>0, <3>1, <3>2
    <3>4. \A u \in Users : f[u] = [member[u] EXCEPT !.active = q.active]
      BY <3>1
    <3>5. member' = [u \in Users |-> IF u \in q.who THEN ClearDeputy(f[u]) ELSE member[u]]
      BY <1>1, <2>2, <3>4 DEF StatusCommit
    <3> QED BY <3>3, <3>5
  <2> QED BY <2>1, <2>2
<1>4. PICK m : m = [u \in Users |-> IF u \in q.who THEN ClearDeputy(f[u]) ELSE member[u]]
  OBVIOUS
<1>5. \A u \in Users : m[u] = IF u \in q.who THEN ClearDeputy(f[u]) ELSE member[u] BY <1>4
<1>6. member' = m BY <1>3, <1>4
<1>7. ASSUME NEW u \in Users
      PROVE  /\ m[u] \in MemberRow
             /\ m[u].deputy => member[u].deputy /\ m[u].role = "group" /\ m[u].active
  <2>1. CASE u \in q.who
    <3>1. PICK r \in MemberRow : r = f[u] BY <1>3
    <3>2. PICK c : c = ClearDeputy(r) OBVIOUS
    <3>3. c \in MemberRow /\ (c.deputy => r.deputy /\ r.role = "group" /\ r.active)
          /\ c.role = r.role /\ c.active = r.active
      BY <3>2, TriggerClears
    <3>4. m[u] = c BY <1>5, <2>1, <3>1, <3>2
    <3>5. r.deputy = member[u].deputy BY <1>3, <3>1
    <3> QED BY <3>3, <3>4, <3>5
  <2>2. CASE u \notin q.who
    <3>1. m[u] = member[u] BY <1>5, <2>2
    <3>2. member[u].deputy => member[u].role = "group" /\ member[u].active
      BY DEF MemberSound, DeputyMay, Deputies
    <3> QED BY <1>0, <3>1, <3>2
  <2> QED BY <2>1, <2>2
<1>8. m \in [Users -> MemberRow] BY <1>4, <1>7
<1>9. /\ \A u \in Users : m[u].deputy => m[u].role = "group" /\ m[u].active
      /\ \A u, v \in Users : m[u].deputy /\ m[v].deputy => u = v
  <2>1. \A u, v \in Users : member[u].deputy /\ member[v].deputy => u = v
    BY DEF MemberSound, OneDeputy, Deputies
  <2> QED BY <1>7, <2>1
<1>10. \A y \in MemberTxs : \A u \in mreq[y].reads : u \in Users /\ u \notin q.who
  BY <1>0, <1>1 DEF MemberReq, MemberSound, RulingsLock
<1>11. \A y \in MemberTxs : \A u \in mreq[y].reads :
         m[u].role = member[u].role /\ (member[u].deputy => m[u].deputy)
  BY <1>5, <1>10
<1>12. \E y \in MemberTxs : mreq' = [mreq EXCEPT ![y] = IdleReq]
  BY DEF RoleCommit, StatusCommit, ReqEnd
<1> QED BY <1>6, <1>8, <1>9, <1>11, <1>12, RowsChange

\* updateClassDeputy: the rows of the old and of the new deputy are free.
LEMMA DeputyKept ==
  ASSUME MemberSound, DismissDeputy \/ \E u \in Users : AppointDeputy(u)
  PROVE  MemberSound'
<1>0. member \in [Users -> MemberRow] BY MemberTyped
<1>1. PICK S \in SUBSET Users :
        /\ member' = [v \in Users |-> [member[v] EXCEPT !.deputy = (v \in S)]]
        /\ \A u \in S : member[u].role = "group" /\ member[u].active
        /\ \A u, v \in S : u = v
        /\ \A v \in Deputies : RowFree(v)
        /\ mreq' = mreq
  <2>1. CASE DismissDeputy
    <3>1. \A v \in Users : FALSE = (v \in {}) OBVIOUS
    <3>2. member' = [v \in Users |-> [member[v] EXCEPT !.deputy = (v \in {})]]
      BY <2>1, <3>1 DEF DismissDeputy
    <3> QED BY <2>1, <3>2 DEF DismissDeputy
  <2>2. ASSUME NEW u \in Users, AppointDeputy(u)
        PROVE  \E S \in SUBSET Users :
                 /\ member' = [v \in Users |-> [member[v] EXCEPT !.deputy = (v \in S)]]
                 /\ \A w \in S : member[w].role = "group" /\ member[w].active
                 /\ \A w, v \in S : w = v
                 /\ \A v \in Deputies : RowFree(v)
                 /\ mreq' = mreq
    <3>1. \A v \in Users : (v = u) = (v \in {u}) OBVIOUS
    <3>2. member' = [v \in Users |-> [member[v] EXCEPT !.deputy = (v \in {u})]]
      BY <2>2, <3>1 DEF AppointDeputy
    <3>3. {u} \in SUBSET Users OBVIOUS
    <3>4. /\ member[u].role = "group" /\ member[u].active
          /\ \A v \in Deputies : RowFree(v)
          /\ mreq' = mreq
      BY <2>2 DEF AppointDeputy
    <3> QED BY <3>2, <3>3, <3>4
  <2> QED BY <2>1, <2>2
<1>2. PICK m : m = [v \in Users |-> [member[v] EXCEPT !.deputy = (v \in S)]] OBVIOUS
<1>3. \A w \in MemberRow, b \in BOOLEAN : LET r == [w EXCEPT !.deputy = b] IN
        /\ r \in MemberRow /\ r.role = w.role /\ r.active = w.active /\ r.deputy = b
  BY DEF MemberRow
<1>4. ASSUME NEW v \in Users
      PROVE  /\ m[v] \in MemberRow /\ m[v].role = member[v].role /\ m[v].active = member[v].active
             /\ m[v].deputy = (v \in S)
  <2>1. PICK w \in MemberRow : w = member[v] BY <1>0
  <2>2. m[v] = [w EXCEPT !.deputy = (v \in S)] BY <1>2, <2>1
  <2>3. CASE v \in S
    <3>1. m[v] = [w EXCEPT !.deputy = TRUE] BY <2>2, <2>3
    <3>2. /\ m[v] \in MemberRow /\ m[v].role = w.role /\ m[v].active = w.active
          /\ m[v].deputy = TRUE
      BY <1>3, <3>1
    <3> QED BY <2>1, <2>3, <3>2
  <2>4. CASE ~(v \in S)
    <3>0. (v \in S) = FALSE BY <2>4
    <3>1. m[v] = [w EXCEPT !.deputy = FALSE] BY <2>2, <3>0
    <3>2. /\ m[v] \in MemberRow /\ m[v].role = w.role /\ m[v].active = w.active
          /\ m[v].deputy = FALSE
      BY <1>3, <3>1
    <3>3. m[v].deputy = (v \in S) BY <3>0, <3>2
    <3> QED BY <2>1, <3>2, <3>3
  <2> QED BY <2>3, <2>4
<1>5. m \in [Users -> MemberRow] BY <1>2, <1>4
<1>6. /\ \A u \in Users : m[u].deputy => m[u].role = "group" /\ m[u].active
      /\ \A u, v \in Users : m[u].deputy /\ m[v].deputy => u = v
  BY <1>1, <1>4
<1>7. \A x \in MemberTxs : \A u \in mreq[x].reads : u \in Users /\ ~member[u].deputy
  <2>1. \A x \in MemberTxs : mreq[x].reads \subseteq Users BY MemberTyped DEF MemberReq
  <2> QED BY <1>1, <2>1 DEF RowFree, HeldBy, Deputies
<1>8. \A x \in MemberTxs : \A u \in mreq[x].reads :
        m[u].role = member[u].role /\ (member[u].deputy => m[u].deputy)
  BY <1>4, <1>7
<1>9. member' = m BY <1>1, <1>2
<1> QED BY <1>1, <1>5, <1>6, <1>8, <1>9, RowsChange

\* A request begins: a ruling where nobody is about to write, a write where nobody rules.
LEMMA BeginKept ==
  ASSUME MemberSound, NEW x \in MemberTxs,
         \/ \E u \in Users, r \in MemberRoles : RoleBegin(x, u, r)
         \/ \E u \in Users, a \in BOOLEAN : StatusBegin(x, u, a)
         \/ \E d, s \in Users : RulingBegin(x, d, s)
  PROVE  MemberSound'
<1>0. mreq \in [MemberTxs -> MemberReq] BY MemberTyped
<1>1. member' = member BY DEF RoleBegin, StatusBegin, RulingBegin
<1>2. PICK q \in MemberReq :
        /\ mreq' = [mreq EXCEPT ![x] = q]
        /\ q.by \cup q.on \subseteq q.reads
        /\ q.by \subseteq Deputies /\ \A s \in q.on : member[s].role = "class_admin"
        /\ q.who = {} \/ q.reads = {}
        /\ \A y \in MemberTxs : q.reads \cap mreq[y].who = {} /\ q.who \cap mreq[y].reads = {}
  <2>1. ASSUME NEW u \in Users, NEW q \in MemberReq,
               q.who = {u}, q.reads = {}, q.by = {}, q.on = {}, RowFree(u)
        PROVE  /\ q.by \cup q.on \subseteq q.reads
               /\ q.by \subseteq Deputies /\ \A s \in q.on : member[s].role = "class_admin"
               /\ q.who = {} \/ q.reads = {}
               /\ \A y \in MemberTxs : q.reads \cap mreq[y].who = {} /\ q.who \cap mreq[y].reads = {}
    BY <2>1 DEF RowFree, HeldBy
  <2>2. CASE \E u \in Users, r \in MemberRoles : RoleBegin(x, u, r)
    <3>1. PICK u \in Users, r \in MemberRoles : RoleBegin(x, u, r) BY <2>2
    <3>2. PICK q : q = [IdleReq EXCEPT !.at = "role", !.who = {u}, !.role = r] OBVIOUS
    <3>3. q \in MemberReq /\ q.who = {u} /\ q.reads = {} /\ q.by = {} /\ q.on = {}
      BY <3>2 DEF IdleReq, MemberReq
    <3>4. mreq' = [mreq EXCEPT ![x] = q] /\ RowFree(u) BY <3>1, <3>2 DEF RoleBegin, ReqBegin
    <3> HIDE DEF RowFree
    <3> QED BY <2>1, <3>3, <3>4
  <2>3. CASE \E u \in Users, a \in BOOLEAN : StatusBegin(x, u, a)
    <3>1. PICK u \in Users, a \in BOOLEAN : StatusBegin(x, u, a) BY <2>3
    <3>2. PICK q : q = [IdleReq EXCEPT !.at = "status", !.who = {u}, !.active = a] OBVIOUS
    <3>3. q \in MemberReq /\ q.who = {u} /\ q.reads = {} /\ q.by = {} /\ q.on = {}
      BY <3>2 DEF IdleReq, MemberReq, MemberRoles
    <3>4. mreq' = [mreq EXCEPT ![x] = q] /\ RowFree(u) BY <3>1, <3>2 DEF StatusBegin, ReqBegin
    <3> HIDE DEF RowFree
    <3> QED BY <2>1, <3>3, <3>4
  <2>4. CASE \E d, s \in Users : RulingBegin(x, d, s)
    <3>1. PICK d \in Users, s \in Users : RulingBegin(x, d, s) BY <2>4
    <3>2. PICK q : q = [IdleReq EXCEPT !.at = "ruling", !.reads = {d, s}, !.by = {d}, !.on = {s}]
      OBVIOUS
    <3>3. q \in MemberReq /\ q.who = {} /\ q.reads = {d, s} /\ q.by = {d} /\ q.on = {s}
      BY <3>2 DEF IdleReq, MemberReq, MemberRoles
    <3>4. /\ mreq' = [mreq EXCEPT ![x] = q]
          /\ member[d].deputy /\ member[s].role = "class_admin"
          /\ \A y \in MemberTxs : {d, s} \cap mreq[y].who = {}
      BY <3>1, <3>2 DEF RulingBegin, ReqBegin, ShareLocks
    <3>5. d \in Deputies BY <3>4 DEF Deputies
    <3>6. /\ q.by \cup q.on \subseteq q.reads
          /\ q.by \subseteq Deputies /\ \A t \in q.on : member[t].role = "class_admin"
          /\ q.who = {} \/ q.reads = {}
          /\ \A y \in MemberTxs : q.reads \cap mreq[y].who = {} /\ q.who \cap mreq[y].reads = {}
      BY <3>3, <3>4, <3>5
    <3> QED BY <3>3, <3>4, <3>6
  <2> QED BY <2>2, <2>3, <2>4
<1>3. /\ mreq' \in [MemberTxs -> MemberReq] /\ mreq'[x] = q
      /\ \A y \in MemberTxs \ {x} : mreq'[y] = mreq[y]
  BY <1>0, <1>2
<1>4. MemberTypeOK' BY <1>1, <1>3 DEF MemberSound, MemberTypeOK
<1>5. OneDeputy' /\ DeputyMay' BY <1>1 DEF MemberSound, OneDeputy, DeputyMay, Deputies
<1>6. RulingKeepsScope'
  BY <1>1, <1>2, <1>3 DEF MemberSound, RulingKeepsScope, Deputies
<1>7. RulingsLock'
  <2>1. \A y \in MemberTxs : mreq'[y].by \cup mreq'[y].on \subseteq mreq'[y].reads
    BY <1>2, <1>3 DEF MemberSound, RulingsLock
  <2>2. \A y, z \in MemberTxs \ {x} : mreq[y].who \cap mreq[z].reads = {}
    BY DEF MemberSound, RulingsLock
  <2>3. \A y, z \in MemberTxs : mreq'[y].who \cap mreq'[z].reads = {}
    <3>1. \A y \in MemberTxs : y = x \/ y \in MemberTxs \ {x} OBVIOUS
    <3>2. q.who \cap q.reads = {} BY <1>2
    <3> QED BY <1>2, <1>3, <2>2, <3>1, <3>2
  <2> QED BY <2>1, <2>3 DEF RulingsLock
<1> QED BY <1>4, <1>5, <1>6, <1>7 DEF MemberSound

LEMMA RulingEnds ==
  ASSUME MemberSound, NEW x \in MemberTxs, RulingCommit(x)
  PROVE  MemberSound'
<1>1. /\ member' = member /\ mreq' = [mreq EXCEPT ![x] = IdleReq]
      /\ member \in [Users -> MemberRow]
  BY MemberTyped DEF RulingCommit, ReqEnd
<1>2. \A u \in Users : member[u].deputy => member[u].role = "group" /\ member[u].active
  BY DEF MemberSound, DeputyMay, Deputies
<1>3. \A u, v \in Users : member[u].deputy /\ member[v].deputy => u = v
  BY DEF MemberSound, OneDeputy, Deputies
<1> QED BY <1>1, <1>2, <1>3, RowsChange

LEMMA MemberStarts ==
  ASSUME MemberInit
  PROVE  MemberSound
<1>1. member \in [Users -> MemberRow] /\ \A u \in Users : ~member[u].deputy
  <2>1. PICK admins \in SUBSET Users, others \in SUBSET Users :
          member = [u \in Users |->
            IF u \in others THEN NewRow
            ELSE LET r == IF u \in admins THEN "class_admin" ELSE "group"
                 IN [listed |-> r, role |-> r, active |-> TRUE, password |-> TRUE,
                     deputy |-> FALSE]]
    BY DEF MemberInit
  <2>2. NewRow \in MemberRow /\ NewRow.deputy = FALSE BY DEF NewRow, MemberRow
  <2>3. ASSUME NEW u \in Users PROVE member[u] \in MemberRow /\ ~member[u].deputy
    <3>1. CASE u \in others BY <2>1, <2>2, <3>1
    <3>2. CASE u \notin others
      <4>1. PICK r \in {"class_admin", "group"} : r = IF u \in admins THEN "class_admin" ELSE "group"
        OBVIOUS
      <4>2. member[u] = [listed |-> r, role |-> r, active |-> TRUE, password |-> TRUE,
                         deputy |-> FALSE]
        BY <2>1, <3>2, <4>1
      <4> QED BY <4>2 DEF MemberRow, MemberRoles
    <3> QED BY <3>1, <3>2
  <2>4. member = [u \in Users |-> member[u]] BY <2>1
  <2> QED BY <2>3, <2>4
<1>2. IdleReq \in MemberReq /\ IdleReq.who = {} /\ IdleReq.by = {} /\ IdleReq.on = {}
  BY DEF IdleReq, MemberReq, MemberRoles
<1>3. mreq \in [MemberTxs -> MemberReq] /\ \A x \in MemberTxs : mreq[x] = IdleReq
  BY <1>2 DEF MemberInit
<1> QED BY <1>1, <1>2, <1>3 DEF MemberSound, MemberTypeOK, OneDeputy, DeputyMay, Deputies,
                                RulingKeepsScope, RulingsLock

LEMMA MemberAlways == MemberSpec => []MemberSound
<1>1. MemberInit => MemberSound BY MemberStarts
<1>2. MemberSound /\ MemberNext => MemberSound'
  <2> SUFFICES ASSUME MemberSound, MemberNext PROVE MemberSound' OBVIOUS
  <2>1. ASSUME NEW u \in Users,
               \/ AddWhitelist(u) \/ DeleteWhitelist(u) \/ Activate(u) \/ AppointAdmin(u)
               \/ \E r \in ImportRoles : ImportWhitelist(u, r)
        PROVE  MemberSound'
    BY <2>1, RosterKept, MembersAssumption
  <2>2. ASSUME NEW u \in Users, AppointDeputy(u) PROVE MemberSound' BY <2>2, DeputyKept
  <2>3. CASE DismissDeputy BY <2>3, DeputyKept
  <2>4. ASSUME NEW us \in SUBSET Users, ResetPasswords(us) PROVE MemberSound' BY <2>4, ResetKept
  <2>5. ASSUME NEW x \in MemberTxs,
               \/ \E u \in Users, r \in MemberRoles : RoleBegin(x, u, r)
               \/ \E u \in Users, a \in BOOLEAN : StatusBegin(x, u, a)
               \/ \E d, s \in Users : RulingBegin(x, d, s)
        PROVE  MemberSound'
    BY <2>5, BeginKept
  <2>6. ASSUME NEW x \in MemberTxs, RoleCommit(x) \/ StatusCommit(x) PROVE MemberSound'
    BY <2>6, WriteKept
  <2>7. ASSUME NEW x \in MemberTxs, RulingCommit(x) PROVE MemberSound' BY <2>7, RulingEnds
  <2> QED BY <2>1, <2>2, <2>3, <2>4, <2>5, <2>6, <2>7 DEF MemberNext
<1>3. MemberSound /\ UNCHANGED memberVars => MemberSound'
  BY DEF memberVars, MemberSound, MemberTypeOK, OneDeputy, DeputyMay, Deputies,
         RulingKeepsScope, RulingsLock
<1> QED BY <1>1, <1>2, <1>3, PTL DEF MemberSpec

\* Whatever role, status and deputy changes come in between, the deputy is one who may be, and a
\* ruling keeps its ruler's authority and its subject's role to its commit (deputy_handlers.go,
\* requireDeputy, authorizeAdjudication, clear_ineligible_class_deputy).
THEOREM RulingsKeepAuthority == MemberSpec => []MemberInv
<1>1. MemberSound => MemberInv
  <2> SUFFICES ASSUME MemberSound PROVE MemberInv OBVIOUS
  <2>1. Cardinality(Deputies) <= 1 BY AtMostOne DEF MemberSound, OneDeputy
  <2> QED BY <2>1 DEF MemberSound, MemberInv, DeputyEligible, DeputyMay
<1> QED BY <1>1, MemberAlways, PTL

-----------------------------------------------------------------------------
(* Backups: what the runner's step is about                                 *)

\* Rows of the job table are made one at a time, so that those of a day can be counted.
Made == {b \in BackupIds : backup[b].st # "none"}
Dated(d, sts) == {b \in BackupIds : backup[b].date = d /\ backup[b].st \in sts}
Standing == Waiting \cup {"complete"}
Budget(d) == /\ Cardinality(Dated(d, Standing)) <= 1
             /\ Cardinality(Dated(d, Standing \cup {"failed"})) <= MaxAttempts

\* The job that the runner works on is the one that it claimed; no other step touches it.
RunnerHolds ==
  /\ runner.kind = "none" => runner.at \notin {"run", "writing", "copied", "finish"}
  /\ runner.kind = "backup" => /\ runner.at \in {"run", "writing", "finish"}
                               /\ runner.id \in BackupIds /\ backup[runner.id].st = "running"
  /\ runner.kind = "push" => /\ runner.at \in {"run", "copied", "finish"}
                             /\ runner.id \in BackupIds /\ push[runner.id].st = "running"
  /\ runner.kind = "drill" => runner.at \in {"run", "finish"} /\ runner.id \in BackupIds

\* A directory is at least as young as the day its backup was done, also in the moment before.
WholeThrough ==
  /\ \A b \in BackupIds : backup[b].st = "complete" =>
       /\ backup[b].done <= today
       /\ dir[b].is = "whole" => backup[b].done <= dir[b].day
       /\ dir[b].is = "ruined" => backup[b].done + Retention <= today
  /\ runner.at = "finish" /\ runner.kind = "backup" =>
       /\ dir[runner.id].is = "whole" => today <= dir[runner.id].day
       /\ dir[runner.id].is = "ruined" => today + Retention <= today

\* A copy that is about to be reported is whole; a push that waits may still fail.
CopiesWhole ==
  /\ RemoteComplete
  /\ runner.at = "finish" /\ runner.kind = "push" => copy[runner.id].is = "whole"
  /\ \A b \in BackupIds : push[b].st \in Waiting => push[b].fails < MaxAttempts

BackupSound ==
  /\ BackupTypeOK
  /\ IsFiniteSet(Made) /\ \A d \in 1 .. MaxDays : Budget(d)
  /\ RunnerHolds /\ WholeThrough /\ CopiesWhole

BackupStates == {"none", "complete", "failed", "expired"} \cup Waiting
BackupRows == [st : BackupStates, date : 0 .. MaxDays, done : 0 .. MaxDays]
Directories == [is : {"none", "whole", "ruined"}, day : 0 .. MaxDays]
Pushes == [st : {"none", "complete", "failed"} \cup Waiting, fails : 0 .. MaxAttempts]
RemoteCopies == [is : {"none", "archive", "whole"}, day : 0 .. MaxDays]
Drills == [st : {"none"} \cup Waiting, of : BackupIds \cup {0}]
RunnerSteps == {"down", "starting", "cleaning", "cleaned", "enqueue", "push", "claim",
                "run", "writing", "copied", "finish"}
Runners == [at : RunnerSteps, kind : {"none", "backup", "push", "drill"},
            id : BackupIds \cup {0}, victim : BackupIds \cup {0}]

\* The variables that a step leaves alone but for the ones it names.
BackupTypes(b, d, p, c, l, r) ==
  /\ b \in [BackupIds -> BackupRows] /\ d \in [BackupIds -> Directories]
  /\ p \in [BackupIds -> Pushes] /\ c \in [BackupIds -> RemoteCopies]
  /\ l \in Drills /\ r \in Runners

LEMMA BackupTyped ==
  /\ BackupTypeOK <=> /\ BackupTypes(backup, dir, push, copy, drill, runner)
                      /\ today \in 1 .. MaxDays /\ crashes \in 0 .. MaxCrashes
  /\ BackupTypeOK' <=> /\ BackupTypes(backup', dir', push', copy', drill', runner')
                       /\ today' \in 1 .. MaxDays /\ crashes' \in 0 .. MaxCrashes
BY DEF BackupTypeOK, BackupTypes, BackupStates, BackupRows, Directories, Pushes, RemoteCopies, Drills,
       RunnerSteps, Runners

LEMMA SoundlyTyped ==
  ASSUME BackupSound
  PROVE  /\ backup \in [BackupIds -> BackupRows] /\ dir \in [BackupIds -> Directories]
         /\ push \in [BackupIds -> Pushes] /\ copy \in [BackupIds -> RemoteCopies]
         /\ drill \in Drills /\ runner \in Runners
         /\ today \in 1 .. MaxDays /\ crashes \in 0 .. MaxCrashes
BY BackupTyped DEF BackupSound, BackupTypes

-----------------------------------------------------------------------------
(* Rows with one field changed                                              *)

LEMMA StateRow ==
  ASSUME NEW r \in BackupRows, NEW s \in BackupStates
  PROVE  LET q == [r EXCEPT !.st = s] IN
         q \in BackupRows /\ q.st = s /\ q.date = r.date /\ q.done = r.done
BY DEF BackupRows

LEMMA PushRow ==
  ASSUME NEW r \in Pushes, NEW s \in {"none", "complete", "failed"} \cup Waiting
  PROVE  LET q == [r EXCEPT !.st = s] IN q \in Pushes /\ q.st = s /\ q.fails = r.fails
BY DEF Pushes

LEMMA CopyRow ==
  ASSUME NEW r \in RemoteCopies, NEW s \in {"none", "archive", "whole"}
  PROVE  LET q == [r EXCEPT !.is = s] IN q \in RemoteCopies /\ q.is = s /\ q.day = r.day
BY DEF RemoteCopies

LEMMA RunnerGoes ==
  ASSUME BackupSound, NEW a \in RunnerSteps, runner' = [runner EXCEPT !.at = a]
  PROVE  /\ runner' \in Runners /\ runner'.at = a
         /\ runner'.kind = runner.kind /\ runner'.id = runner.id
BY SoundlyTyped DEF Runners

LEMMA VictimGoes ==
  ASSUME BackupSound, NEW v \in BackupIds \cup {0}, runner' = [runner EXCEPT !.victim = v]
  PROVE  /\ runner' \in Runners /\ runner'.at = runner.at
         /\ runner'.kind = runner.kind /\ runner'.id = runner.id
BY SoundlyTyped DEF Runners

-----------------------------------------------------------------------------
(* A day's backups                                                          *)

\* What leaves the rows their dates, and brings none back, adds to no day.
LEMMA BudgetShrinks ==
  ASSUME BackupSound, BackupsAssumption, NEW p, backup' = p,
         \A b \in BackupIds :
           /\ p[b].date = backup[b].date /\ (p[b].st # "none" => backup[b].st # "none")
           /\ p[b].st \in Standing => backup[b].st \in Standing
           /\ p[b].st \in Standing \cup {"failed"} => backup[b].st \in Standing \cup {"failed"}
  PROVE  IsFiniteSet(Made') /\ \A d \in 1 .. MaxDays : Budget(d)'
<1>1. Made' \in SUBSET Made BY DEF Made
<1>2. PICK M : M = Made' OBVIOUS
<1>3. IsFiniteSet(Made) BY DEF BackupSound
<1>4. IsFiniteSet(M) BY <1>1, <1>2, <1>3, FS_Subset
<1>5. ASSUME NEW d \in 1 .. MaxDays PROVE Budget(d)'
  <2>1. /\ Dated(d, Standing) \in SUBSET Made
        /\ Dated(d, Standing \cup {"failed"}) \in SUBSET Made
    BY DEF Dated, Made, Standing, Waiting
  <2>2. /\ IsFiniteSet(Dated(d, Standing)) /\ IsFiniteSet(Dated(d, Standing \cup {"failed"}))
    BY <1>3, <2>1, FS_Subset
  <2>3. PICK S, F : S = Dated(d, Standing)' /\ F = Dated(d, Standing \cup {"failed"})' OBVIOUS
  <2>4. S \in SUBSET Dated(d, Standing) /\ F \in SUBSET Dated(d, Standing \cup {"failed"})
    BY <2>3 DEF Dated
  <2>5. /\ Cardinality(S) <= Cardinality(Dated(d, Standing)) /\ IsFiniteSet(S)
        /\ Cardinality(F) <= Cardinality(Dated(d, Standing \cup {"failed"})) /\ IsFiniteSet(F)
    BY <2>2, <2>4, FS_Subset
  <2>6. /\ Cardinality(S) \in Nat /\ Cardinality(Dated(d, Standing)) \in Nat
        /\ Cardinality(F) \in Nat /\ Cardinality(Dated(d, Standing \cup {"failed"})) \in Nat
    BY <2>2, <2>5, FS_CardinalityType
  <2>7. Cardinality(S) <= 1 /\ Cardinality(F) <= MaxAttempts
    BY <2>5, <2>6 DEF BackupSound, Budget, BackupsAssumption
  <2> QED BY <2>3, <2>7 DEF Budget
<1> QED BY <1>2, <1>4, <1>5

\* A new row is of no day, or of a day on which nothing stands and too few have failed.
LEMMA BudgetGrows ==
  ASSUME BackupSound, BackupsAssumption, NEW b \in BackupIds, NEW e \in 0 .. MaxDays,
         backup' = [backup EXCEPT ![b] = [st |-> "queued", date |-> e, done |-> 0]],
         e = 0 \/ (e = today /\ DailyDue)
  PROVE  IsFiniteSet(Made') /\ \A d \in 1 .. MaxDays : Budget(d)'
<1>0. backup \in [BackupIds -> BackupRows] BY SoundlyTyped
<1>1. PICK r : r = [st |-> "queued", date |-> e, done |-> 0] OBVIOUS
<1>2. r.st = "queued" /\ r.date = e BY <1>1
<1>3. backup'[b] = r /\ \A a \in BackupIds \ {b} : backup'[a] = backup[a] BY <1>0, <1>1
<1>4. IsFiniteSet(Made) BY DEF BackupSound
<1>5. IsFiniteSet(Made')
  <2>1. Made' \in SUBSET (Made \cup {b}) BY <1>3 DEF Made
  <2>2. PICK M : M = Made' OBVIOUS
  <2>3. IsFiniteSet(Made \cup {b}) BY <1>4, FS_AddElement
  <2> QED BY <2>1, <2>2, <2>3, FS_Subset
<1>6. ASSUME NEW d \in 1 .. MaxDays PROVE Budget(d)'
  <2>1. /\ Dated(d, Standing) \in SUBSET Made
        /\ Dated(d, Standing \cup {"failed"}) \in SUBSET Made
        /\ Dated(d, {"failed"}) \in SUBSET Made
    BY DEF Dated, Made, Standing, Waiting
  <2>2. /\ IsFiniteSet(Dated(d, Standing)) /\ IsFiniteSet(Dated(d, Standing \cup {"failed"}))
        /\ IsFiniteSet(Dated(d, {"failed"}))
    BY <1>4, <2>1, FS_Subset
  <2>3. PICK S, F : S = Dated(d, Standing)' /\ F = Dated(d, Standing \cup {"failed"})' OBVIOUS
  <2>4. CASE e # d
    <3>1. S \in SUBSET Dated(d, Standing) /\ F \in SUBSET Dated(d, Standing \cup {"failed"})
      BY <1>2, <1>3, <2>3, <2>4 DEF Dated
    <3>2. /\ Cardinality(S) <= Cardinality(Dated(d, Standing)) /\ IsFiniteSet(S)
          /\ Cardinality(F) <= Cardinality(Dated(d, Standing \cup {"failed"})) /\ IsFiniteSet(F)
      BY <2>2, <3>1, FS_Subset
    <3>3. /\ Cardinality(S) \in Nat /\ Cardinality(Dated(d, Standing)) \in Nat
          /\ Cardinality(F) \in Nat /\ Cardinality(Dated(d, Standing \cup {"failed"})) \in Nat
      BY <2>2, <3>2, FS_CardinalityType
    <3>4. Cardinality(S) <= 1 /\ Cardinality(F) <= MaxAttempts
      BY <3>2, <3>3 DEF BackupSound, Budget, BackupsAssumption
    <3> QED BY <2>3, <3>4 DEF Budget
  <2>5. CASE e = d
    <3>1. d = today /\ DailyDue BY <2>5 DEF BackupsAssumption
    <3>2. /\ Dated(d, Standing) = {}
          /\ Cardinality(Dated(d, {"failed"})) < MaxAttempts
      BY <3>1 DEF DailyDue, OfToday, Dated, Standing
    <3>3. Dated(d, Standing \cup {"failed"}) = Dated(d, {"failed"}) BY <3>2 DEF Dated
    <3>4. S \in SUBSET {b} /\ F \in SUBSET (Dated(d, {"failed"}) \cup {b})
      <4>1. \A a \in BackupIds \ {b} : a \notin S BY <1>3, <2>3, <3>2 DEF Dated
      <4>2. \A a \in BackupIds \ {b} : a \in F => a \in Dated(d, {"failed"})
        BY <1>3, <2>3, <3>3 DEF Dated
      <4>3. S \subseteq BackupIds /\ F \subseteq BackupIds BY <2>3 DEF Dated
      <4> QED BY <4>1, <4>2, <4>3
    <3>5. PICK D : D = Dated(d, {"failed"}) OBVIOUS
    <3>6. IsFiniteSet(D) /\ Cardinality(D) \in Nat BY <2>2, <3>5, FS_CardinalityType
    <3>7. /\ IsFiniteSet(D \cup {b})
          /\ Cardinality(D \cup {b}) = IF b \in D THEN Cardinality(D) ELSE Cardinality(D) + 1
      BY <3>6, FS_AddElement
    <3>8. IsFiniteSet({b}) /\ Cardinality({b}) = 1 BY FS_Singleton
    <3>9. IsFiniteSet(S) /\ Cardinality(S) <= Cardinality({b}) BY <3>4, <3>8, FS_Subset
    <3>10. IsFiniteSet(F) /\ Cardinality(F) <= Cardinality(D \cup {b})
      BY <3>4, <3>5, <3>7, FS_Subset
    <3>11. Cardinality(F) \in Nat BY <3>10, FS_CardinalityType
    <3>12. Cardinality(D) + 1 <= MaxAttempts BY <3>2, <3>5, <3>6 DEF BackupsAssumption
    <3>13. Cardinality(D \cup {b}) <= Cardinality(D) + 1 /\ Cardinality(D \cup {b}) \in Nat
      BY <3>6, <3>7
    <3>14. Cardinality(S) <= 1 BY <3>8, <3>9
    <3>15. Cardinality(F) <= MaxAttempts
      BY <3>6, <3>10, <3>11, <3>12, <3>13 DEF BackupsAssumption
    <3> QED BY <2>3, <3>14, <3>15 DEF Budget
  <2> QED BY <2>4, <2>5
<1> QED BY <1>5, <1>6

LEMMA BudgetSame ==
  ASSUME BackupSound, BackupsAssumption, backup' = backup
  PROVE  IsFiniteSet(Made') /\ \A d \in 1 .. MaxDays : Budget(d)'
BY BudgetShrinks

LEMMA Days ==
  ASSUME BackupSound, BackupsAssumption
  PROVE  /\ today \in Nat /\ today \in 0 .. MaxDays
         /\ \A b \in BackupIds : /\ backup[b].done \in Nat /\ dir[b].day \in Nat
                                 /\ copy[b].day \in Nat /\ push[b].fails \in Nat
BY SoundlyTyped DEF BackupsAssumption, BackupRows, Directories, RemoteCopies, Pushes

-----------------------------------------------------------------------------
(* Operators and time                                                       *)

LEMMA RequestBackupKept ==
  ASSUME BackupSound, BackupsAssumption, NEW b \in BackupIds, RequestBackup(b)
  PROVE  BackupSound'
<1>0. /\ backup \in [BackupIds -> BackupRows] /\ UNCHANGED <<dir, push, copy, drill, runner, today, crashes>>
      /\ backup[b].st = "none"
  BY SoundlyTyped DEF RequestBackup
<1>1. backup' = [backup EXCEPT ![b] = [st |-> "queued", date |-> 0, done |-> 0]]
  BY DEF RequestBackup
<1>2. PICK r : r = [st |-> "queued", date |-> 0, done |-> 0] OBVIOUS
<1>3. r \in BackupRows /\ r.st = "queued"
  BY <1>2 DEF BackupRows, BackupStates, Waiting, BackupsAssumption
<1>4. /\ backup' \in [BackupIds -> BackupRows]
      /\ backup'[b] = r /\ \A a \in BackupIds \ {b} : backup'[a] = backup[a]
  BY <1>0, <1>1, <1>2, <1>3
<1>5. BackupTypeOK' BY <1>0, <1>4, BackupTyped, SoundlyTyped DEF BackupTypes
<1>6. IsFiniteSet(Made') /\ \A d \in 1 .. MaxDays : Budget(d)'
  <2>1. 0 \in 0 .. MaxDays BY DEF BackupsAssumption
  <2> QED BY <1>1, <2>1, BudgetGrows
<1>7. RunnerHolds' BY <1>0, <1>4 DEF BackupSound, RunnerHolds
<1>8. WholeThrough' BY <1>0, <1>3, <1>4 DEF BackupSound, WholeThrough
<1>9. CopiesWhole' BY <1>0 DEF BackupSound, CopiesWhole, RemoteComplete
<1> QED BY <1>5, <1>6, <1>7, <1>8, <1>9 DEF BackupSound

LEMMA RequestDrillKept ==
  ASSUME BackupSound, BackupsAssumption, NEW b \in BackupIds, RequestDrill(b)
  PROVE  BackupSound'
<1>0. UNCHANGED <<backup, dir, push, copy, runner, today, crashes>>
      /\ drill' = [st |-> "queued", of |-> b]
  BY DEF RequestDrill
<1>1. drill' \in Drills BY <1>0 DEF Drills, Waiting
<1>2. BackupTypeOK' BY <1>0, <1>1, BackupTyped, SoundlyTyped DEF BackupTypes
<1>3. IsFiniteSet(Made') /\ \A d \in 1 .. MaxDays : Budget(d)' BY <1>0, BudgetSame
<1>4. RunnerHolds' /\ WholeThrough' /\ CopiesWhole'
  BY <1>0 DEF BackupSound, RunnerHolds, WholeThrough, CopiesWhole, RemoteComplete
<1> QED BY <1>2, <1>3, <1>4 DEF BackupSound

\* A directory that is gone was never left in part.
LEMMA DirectoryGoes ==
  ASSUME BackupSound, BackupsAssumption, NEW b, b \in BackupIds,
         dir' = [dir EXCEPT ![b] = NoDirectory],
         UNCHANGED <<backup, push, copy, drill, today, crashes>>,
         \/ runner' = runner
         \/ runner' = [runner EXCEPT !.at = "writing"] /\ runner.at = "run" /\ runner.kind = "backup"
  PROVE  BackupSound'
<1>0. /\ dir \in [BackupIds -> Directories] /\ runner \in Runners BY SoundlyTyped
<1>1. NoDirectory \in Directories /\ NoDirectory.is = "none"
  BY DEF NoDirectory, Directories, BackupsAssumption
<1>2. /\ dir' \in [BackupIds -> Directories] /\ dir'[b].is = "none"
      /\ \A a \in BackupIds \ {b} : dir'[a] = dir[a]
  BY <1>0, <1>1
<1>3. /\ runner' \in Runners /\ runner'.kind = runner.kind /\ runner'.id = runner.id
      /\ runner'.at = runner.at
         \/ (runner.at = "run" /\ runner'.at = "writing" /\ runner.kind = "backup")
  BY <1>0, RunnerGoes DEF RunnerSteps
<1>4. BackupTypeOK' BY <1>2, <1>3, BackupTyped, SoundlyTyped DEF BackupTypes
<1>5. IsFiniteSet(Made') /\ \A d \in 1 .. MaxDays : Budget(d)' BY BudgetSame
<1>6. RunnerHolds' BY <1>3 DEF BackupSound, RunnerHolds
<1>7. WholeThrough' BY <1>2, <1>3 DEF BackupSound, WholeThrough, RunnerHolds
<1>8. CopiesWhole' BY <1>3 DEF BackupSound, CopiesWhole, RemoteComplete
<1> QED BY <1>4, <1>5, <1>6, <1>7, <1>8 DEF BackupSound

LEMMA DirectoryGoesKept ==
  ASSUME BackupSound, BackupsAssumption,
         (\E b \in BackupIds : LoseDirectory(b)) \/ RemoveEnd \/ WriteBackup
  PROVE  BackupSound'
<1>1. ASSUME NEW b \in BackupIds, LoseDirectory(b) PROVE BackupSound'
  BY <1>1, DirectoryGoes DEF LoseDirectory
<1>2. CASE RemoveEnd
  <2>1. runner.victim \in BackupIds BY <1>2, SoundlyTyped DEF RemoveEnd, Runners
  <2>2. PICK b \in BackupIds : b = runner.victim BY <2>1
  <2> QED BY <1>2, <2>2, DirectoryGoes DEF RemoveEnd
<1>3. CASE WriteBackup
  <2>1. runner.id \in BackupIds BY <1>3 DEF WriteBackup, BackupSound, RunnerHolds
  <2>2. PICK b \in BackupIds : b = runner.id BY <2>1
  <2> QED BY <1>3, <2>2, DirectoryGoes DEF WriteBackup, RunnerAt
<1> QED BY <1>1, <1>2, <1>3

LEMMA TimePassesKept ==
  ASSUME BackupSound, BackupsAssumption, TimePasses
  PROVE  BackupSound'
<1>0. /\ UNCHANGED <<backup, dir, push, copy, drill, runner, crashes>>
      /\ today' = today + 1 /\ today < MaxDays /\ runner.at # "finish"
  BY DEF TimePasses
<1>1. /\ today \in Nat /\ today \in 1 .. MaxDays
      /\ \A b \in BackupIds : /\ backup[b].done \in Nat /\ dir[b].day \in Nat
                              /\ copy[b].day \in Nat
  BY Days, SoundlyTyped
<1>2. today' \in 1 .. MaxDays BY <1>0, <1>1 DEF BackupsAssumption
<1>3. BackupTypeOK' BY <1>0, <1>2, BackupTyped, SoundlyTyped DEF BackupTypes
<1>4. IsFiniteSet(Made') /\ \A d \in 1 .. MaxDays : Budget(d)' BY <1>0, BudgetSame
<1>5. RunnerHolds' BY <1>0 DEF BackupSound, RunnerHolds
<1>6. WholeThrough' BY <1>0, <1>1 DEF BackupSound, WholeThrough, BackupsAssumption
<1>7. CopiesWhole' BY <1>0, <1>1 DEF BackupSound, CopiesWhole, RemoteComplete, BackupsAssumption
<1> QED BY <1>3, <1>4, <1>5, <1>6, <1>7 DEF BackupSound

-----------------------------------------------------------------------------
(* The runner                                                               *)

\* The runner moves on between jobs, or dies: what it held is held no more.
LEMMA RunnerIdles ==
  ASSUME BackupSound, BackupsAssumption, NEW r \in Runners, runner' = r,
         crashes' \in 0 .. MaxCrashes, UNCHANGED <<backup, dir, push, copy, drill, today>>,
         r.kind = "none", r.at \notin {"run", "writing", "copied", "finish"}
  PROVE  BackupSound'
<1>1. BackupTypeOK' BY BackupTyped, SoundlyTyped DEF BackupTypes
<1>2. IsFiniteSet(Made') /\ \A d \in 1 .. MaxDays : Budget(d)' BY BudgetSame
<1>3. RunnerHolds' BY DEF RunnerHolds
<1>4. WholeThrough' BY DEF BackupSound, WholeThrough
<1>5. CopiesWhole' BY DEF BackupSound, CopiesWhole, RemoteComplete
<1> QED BY <1>1, <1>2, <1>3, <1>4, <1>5 DEF BackupSound

LEMMA RunnerIdlesKept ==
  ASSUME BackupSound, BackupsAssumption, CleanupDone \/ NextTick \/ RunnerCrash
  PROVE  BackupSound'
<1>1. CASE CleanupDone
  <2>1. runner.kind = "none"
    BY <1>1 DEF CleanupDone, BackupSound, RunnerHolds, BackupTypeOK
  <2>2. runner' \in Runners /\ runner'.at = "cleaned" /\ runner'.kind = "none"
    BY <1>1, <2>1, RunnerGoes DEF CleanupDone, RunnerAt, RunnerSteps
  <2>3. crashes' \in 0 .. MaxCrashes /\ UNCHANGED <<backup, dir, push, copy, drill, today>>
    BY <1>1, SoundlyTyped DEF CleanupDone
  <2> QED BY <2>2, <2>3, RunnerIdles
<1>2. CASE NextTick
  <2>1. PICK r : r = [NoStep EXCEPT !.at = "cleaning"] OBVIOUS
  <2>2. r \in Runners /\ r.at = "cleaning" /\ r.kind = "none"
    BY <2>1 DEF NoStep, Runners, RunnerSteps
  <2>3. /\ crashes' \in 0 .. MaxCrashes /\ UNCHANGED <<backup, dir, push, copy, drill, today>>
        /\ runner' = r
    BY <1>2, <2>1, SoundlyTyped DEF NextTick
  <2> QED BY <2>2, <2>3, RunnerIdles
<1>3. CASE RunnerCrash
  <2>1. NoStep \in Runners /\ NoStep.at = "down" /\ NoStep.kind = "none"
    BY DEF NoStep, Runners, RunnerSteps
  <2>2. crashes' \in 0 .. MaxCrashes
    BY <1>3, SoundlyTyped DEF RunnerCrash, BackupsAssumption
  <2>3. runner' = NoStep /\ UNCHANGED <<backup, dir, push, copy, drill, today>>
    BY <1>3 DEF RunnerCrash
  <2> QED BY <2>1, <2>2, <2>3, RunnerIdles
<1> QED BY <1>1, <1>2, <1>3

\* The victim of a clean-up says nothing about the job.
LEMMA CleanupFailsKept ==
  ASSUME BackupSound, BackupsAssumption, CleanupFails
  PROVE  BackupSound'
<1>0. /\ UNCHANGED <<backup, dir, push, copy, drill, today, crashes>>
      /\ runner' = [runner EXCEPT !.victim = 0]
  BY DEF CleanupFails
<1>1. /\ runner' \in Runners /\ runner'.at = runner.at
      /\ runner'.kind = runner.kind /\ runner'.id = runner.id
  BY <1>0, VictimGoes
<1>2. BackupTypeOK' BY <1>0, <1>1, BackupTyped, SoundlyTyped DEF BackupTypes
<1>3. IsFiniteSet(Made') /\ \A d \in 1 .. MaxDays : Budget(d)' BY <1>0, BudgetSame
<1>4. RunnerHolds' BY <1>0, <1>1 DEF BackupSound, RunnerHolds
<1>5. WholeThrough' BY <1>0, <1>1 DEF BackupSound, WholeThrough
<1>6. CopiesWhole' BY <1>0, <1>1 DEF BackupSound, CopiesWhole, RemoteComplete
<1> QED BY <1>2, <1>3, <1>4, <1>5, <1>6 DEF BackupSound

\* Only a directory past its retention is taken apart.
LEMMA RemoveBeginKept ==
  ASSUME BackupSound, BackupsAssumption, NEW b \in BackupIds, RemoveBegin(b)
  PROVE  BackupSound'
<1>0. /\ UNCHANGED <<backup, push, copy, drill, today, crashes>>
      /\ runner' = [runner EXCEPT !.victim = b] /\ dir \in [BackupIds -> Directories]
      /\ dir[b].is # "none" /\ dir[b].day + Retention <= today
  BY SoundlyTyped DEF RemoveBegin, Aged
<1>1. /\ today \in Nat /\ today \in 0 .. MaxDays
      /\ \A a \in BackupIds : backup[a].done \in Nat /\ dir[a].day \in Nat
  BY Days
<1>2. PICK day \in {dir[b].day, today} : dir' = [dir EXCEPT ![b] = [is |-> "ruined", day |-> day]]
  BY DEF RemoveBegin
<1>3. day \in 0 .. MaxDays BY <1>0, <1>1, <1>2 DEF Directories
<1>4. PICK r : r = [is |-> "ruined", day |-> day] OBVIOUS
<1>5. r \in Directories /\ r.is = "ruined" BY <1>3, <1>4 DEF Directories
<1>6. /\ dir' \in [BackupIds -> Directories] /\ dir'[b] = r
      /\ \A a \in BackupIds \ {b} : dir'[a] = dir[a]
  BY <1>0, <1>2, <1>4, <1>5
<1>7. /\ runner' \in Runners /\ runner'.at = runner.at
      /\ runner'.kind = runner.kind /\ runner'.id = runner.id
  BY <1>0, VictimGoes
<1>8. BackupTypeOK' BY <1>0, <1>6, <1>7, BackupTyped, SoundlyTyped DEF BackupTypes
<1>9. IsFiniteSet(Made') /\ \A d \in 1 .. MaxDays : Budget(d)' BY <1>0, BudgetSame
<1>10. RunnerHolds' BY <1>0, <1>7 DEF BackupSound, RunnerHolds
<1>11. WholeThrough'
  <2>0. dir[b].is \in {"whole", "ruined"} BY <1>0 DEF Directories
  <2>1. ASSUME NEW a \in BackupIds, backup[a].st = "complete"
        PROVE  /\ backup[a].done <= today
               /\ dir'[a].is = "whole" => backup[a].done <= dir'[a].day
               /\ dir'[a].is = "ruined" => backup[a].done + Retention <= today
    <3>1. /\ backup[a].done <= today
          /\ dir[a].is = "whole" => backup[a].done <= dir[a].day
          /\ dir[a].is = "ruined" => backup[a].done + Retention <= today
      BY <2>1 DEF BackupSound, WholeThrough
    <3>2. CASE a # b BY <3>1, <3>2, <1>6
    <3>3. CASE a = b
      <4>1. backup[b].done + Retention <= today
        BY <3>1, <3>3, <2>0, <1>0, <1>1 DEF BackupsAssumption
      <4> QED BY <3>1, <3>3, <4>1, <1>5, <1>6
    <3> QED BY <3>2, <3>3
  <2>2. ASSUME runner.at = "finish", runner.kind = "backup"
        PROVE  /\ dir'[runner.id].is = "whole" => today <= dir'[runner.id].day
               /\ dir'[runner.id].is = "ruined" => today + Retention <= today
    <3>1. /\ dir[runner.id].is = "whole" => today <= dir[runner.id].day
          /\ dir[runner.id].is = "ruined" => today + Retention <= today
          /\ runner.id \in BackupIds
      BY <2>2 DEF BackupSound, WholeThrough, RunnerHolds
    <3>2. CASE runner.id # b BY <3>1, <3>2, <1>6
    <3>3. CASE runner.id = b
      <4>1. today + Retention <= today
        BY <3>1, <3>3, <2>0, <1>0, <1>1 DEF BackupsAssumption
      <4> QED BY <3>3, <4>1, <1>5, <1>6
    <3> QED BY <3>2, <3>3
  <2> QED BY <2>1, <2>2, <1>0, <1>7 DEF WholeThrough
<1>12. CopiesWhole' BY <1>0, <1>7 DEF BackupSound, CopiesWhole, RemoteComplete
<1> QED BY <1>8, <1>9, <1>10, <1>11, <1>12 DEF BackupSound

\* A step that moves states of backups between jobs, and may requeue the other jobs.
LEMMA RowsMove ==
  ASSUME BackupSound, BackupsAssumption, runner.kind = "none",
         NEW r \in Runners, runner' = r, r.kind = "none",
         r.at \notin {"run", "writing", "copied", "finish"},
         NEW p \in [BackupIds -> BackupRows], backup' = p,
         NEW q \in [BackupIds -> Pushes], push' = q, drill' \in Drills,
         UNCHANGED <<dir, copy, today, crashes>>,
         \A b \in BackupIds :
           /\ p[b].date = backup[b].date /\ p[b].done = backup[b].done
           /\ \/ p[b].st = backup[b].st
              \/ backup[b].st = "running" /\ p[b].st = "queued"
              \/ backup[b].st = "complete" /\ p[b].st \in {"failed", "expired"}
           /\ q[b].st = "complete" => push[b].st = "complete"
           /\ q[b].st \in Waiting => q[b].fails < MaxAttempts
  PROVE  BackupSound'
<1>1. BackupTypeOK' BY BackupTyped, SoundlyTyped DEF BackupTypes
<1>2. IsFiniteSet(Made') /\ \A d \in 1 .. MaxDays : Budget(d)'
  <2>1. \A b \in BackupIds :
           /\ p[b].date = backup[b].date /\ (p[b].st # "none" => backup[b].st # "none")
           /\ p[b].st \in Standing => backup[b].st \in Standing
           /\ p[b].st \in Standing \cup {"failed"} => backup[b].st \in Standing \cup {"failed"}
    BY DEF Standing, Waiting
  <2> QED BY <2>1, BudgetShrinks
<1>3. RunnerHolds' BY DEF RunnerHolds
<1>4. WholeThrough' BY DEF BackupSound, WholeThrough
<1>5. CopiesWhole' BY DEF BackupSound, CopiesWhole, RemoteComplete
<1> QED BY <1>1, <1>2, <1>3, <1>4, <1>5 DEF BackupSound

\* Run: the jobs of a runner that died are queued again.
LEMMA StartRunnerKept ==
  ASSUME BackupSound, BackupsAssumption, StartRunner
  PROVE  BackupSound'
<1>0. /\ backup \in [BackupIds -> BackupRows] /\ push \in [BackupIds -> Pushes]
      /\ drill \in Drills /\ runner \in Runners
  BY SoundlyTyped
<1>1. runner.kind = "none"
  <2>1. runner.kind \in {"none", "backup", "push", "drill"} BY <1>0 DEF Runners
  <2> QED BY <2>1 DEF StartRunner, BackupSound, RunnerHolds
<1>2. runner' \in Runners /\ runner'.at = "starting" /\ runner'.kind = "none"
  BY <1>1, RunnerGoes DEF StartRunner, RunnerAt, RunnerSteps
<1>3. UNCHANGED <<dir, copy, today, crashes>> BY DEF StartRunner
<1>4. PICK p : p = [b \in BackupIds |->
                      [backup[b] EXCEPT !.st = IF @ = "running" THEN "queued" ELSE @]]
  OBVIOUS
<1>5. PICK q : q = [b \in BackupIds |->
                      [push[b] EXCEPT !.st = IF @ = "running" THEN "queued" ELSE @]]
  OBVIOUS
<1>6. backup' = p /\ push' = q BY <1>4, <1>5 DEF StartRunner
<1>7. ASSUME NEW b \in BackupIds
      PROVE  /\ p[b] \in BackupRows /\ p[b].date = backup[b].date /\ p[b].done = backup[b].done
             /\ p[b].st = backup[b].st \/ (backup[b].st = "running" /\ p[b].st = "queued")
  <2>1. PICK w \in BackupRows : w = backup[b] BY <1>0
  <2>2. PICK s : s = IF w.st = "running" THEN "queued" ELSE w.st OBVIOUS
  <2>3. s \in BackupStates BY <2>2 DEF BackupRows, BackupStates, Waiting
  <2>4. p[b] = [w EXCEPT !.st = s] BY <1>4, <2>1, <2>2
  <2>5. p[b] \in BackupRows /\ p[b].st = s /\ p[b].date = w.date /\ p[b].done = w.done
    BY <2>3, <2>4, StateRow
  <2> QED BY <2>1, <2>2, <2>5
<1>8. ASSUME NEW b \in BackupIds
      PROVE  /\ q[b] \in Pushes /\ q[b].fails = push[b].fails
             /\ q[b].st = push[b].st \/ (push[b].st = "running" /\ q[b].st = "queued")
  <2>1. PICK w \in Pushes : w = push[b] BY <1>0
  <2>2. PICK s : s = IF w.st = "running" THEN "queued" ELSE w.st OBVIOUS
  <2>3. s \in {"none", "complete", "failed"} \cup Waiting BY <2>2 DEF Pushes, Waiting
  <2>4. q[b] = [w EXCEPT !.st = s] BY <1>5, <2>1, <2>2
  <2>5. q[b] \in Pushes /\ q[b].st = s /\ q[b].fails = w.fails BY <2>3, <2>4, PushRow
  <2> QED BY <2>1, <2>2, <2>5
<1>9. drill' \in Drills
  <2>1. PICK s : s = IF drill.st = "running" THEN "queued" ELSE drill.st OBVIOUS
  <2>2. s \in {"none"} \cup Waiting BY <1>0, <2>1 DEF Drills, Waiting
  <2>3. drill' = [drill EXCEPT !.st = s] BY <2>1 DEF StartRunner
  <2> QED BY <1>0, <2>2, <2>3 DEF Drills
<1>10. p \in [BackupIds -> BackupRows] /\ q \in [BackupIds -> Pushes] BY <1>4, <1>5, <1>7, <1>8
<1>11. \A b \in BackupIds :
         /\ q[b].st = "complete" => push[b].st = "complete"
         /\ q[b].st \in Waiting => q[b].fails < MaxAttempts
  BY <1>8 DEF BackupSound, CopiesWhole, Waiting
<1> QED BY <1>1, <1>2, <1>3, <1>6, <1>7, <1>9, <1>10, <1>11, RowsMove

LEMMA ReconcileKept ==
  ASSUME BackupSound, BackupsAssumption, Reconcile
  PROVE  BackupSound'
<1>0. /\ backup \in [BackupIds -> BackupRows] /\ push \in [BackupIds -> Pushes]
      /\ drill \in Drills /\ runner \in Runners
  BY SoundlyTyped
<1>1. runner.kind = "none"
  <2>1. runner.kind \in {"none", "backup", "push", "drill"} BY <1>0 DEF Runners
  <2> QED BY <2>1 DEF Reconcile, BackupSound, RunnerHolds
<1>2. PICK a \in {"cleaning", "enqueue"} : a = IF runner.at = "starting" THEN "cleaning" ELSE "enqueue"
  OBVIOUS
<1>3. runner' \in Runners /\ runner'.at = a /\ runner'.kind = "none"
  BY <1>1, <1>2, RunnerGoes DEF Reconcile, RunnerAt, RunnerSteps
<1>4. UNCHANGED <<backup, dir, push, copy, drill, today, crashes>> BY DEF Reconcile
<1>5. /\ \A b \in BackupIds : backup[b] \in BackupRows
      /\ \A b \in BackupIds : push[b].st \in Waiting => push[b].fails < MaxAttempts
  BY <1>0 DEF BackupSound, CopiesWhole
<1> QED BY <1>0, <1>1, <1>2, <1>3, <1>4, <1>5, RowsMove

\* The row of a directory that is gone is marked, whatever job is under way.
LEMMA MarkExpiredKept ==
  ASSUME BackupSound, BackupsAssumption, MarkExpired
  PROVE  BackupSound'
<1>0. /\ UNCHANGED <<dir, push, copy, drill, today, crashes>>
      /\ backup \in [BackupIds -> BackupRows] /\ runner \in Runners
  BY SoundlyTyped DEF MarkExpired
<1>1. PICK b \in BackupIds : b = runner.victim BY <1>0 DEF MarkExpired, Runners
<1>2. PICK w \in BackupRows : w = backup[b] BY <1>0
<1>3. PICK s : s = IF w.st = "complete" THEN "expired" ELSE w.st OBVIOUS
<1>4. PICK r : r = [w EXCEPT !.st = s] OBVIOUS
<1>5. s \in BackupStates BY <1>3 DEF BackupRows, BackupStates
<1>6. r \in BackupRows /\ r.st = s /\ r.date = w.date /\ r.done = w.done BY <1>4, <1>5, StateRow
<1>7. backup' = [backup EXCEPT ![b] = r] BY <1>1, <1>2, <1>3, <1>4 DEF MarkExpired
<1>8. PICK p \in [BackupIds -> BackupRows] : p = backup' BY <1>0, <1>6, <1>7
<1>9. p[b] = r /\ \A a \in BackupIds \ {b} : p[a] = backup[a] BY <1>0, <1>6, <1>7, <1>8
<1>10. \A a \in BackupIds :
         /\ p[a].date = backup[a].date /\ p[a].done = backup[a].done
         /\ p[a].st = backup[a].st \/ (backup[a].st = "complete" /\ p[a].st = "expired")
  BY <1>2, <1>3, <1>6, <1>9
<1>11. /\ runner' \in Runners /\ runner'.at = runner.at
       /\ runner'.kind = runner.kind /\ runner'.id = runner.id
  BY VictimGoes DEF MarkExpired
<1>12. BackupTypeOK' BY <1>0, <1>8, <1>11, BackupTyped, SoundlyTyped DEF BackupTypes
<1>13. IsFiniteSet(Made') /\ \A d \in 1 .. MaxDays : Budget(d)'
  <2>1. \A a \in BackupIds :
          /\ p[a].date = backup[a].date /\ (p[a].st # "none" => backup[a].st # "none")
          /\ p[a].st \in Standing => backup[a].st \in Standing
          /\ p[a].st \in Standing \cup {"failed"} => backup[a].st \in Standing \cup {"failed"}
    BY <1>10 DEF Standing, Waiting
  <2> QED BY <1>8, <2>1, BudgetShrinks
<1>14. RunnerHolds' BY <1>0, <1>8, <1>10, <1>11, ZenonT(60) DEF BackupSound, RunnerHolds
<1>15. WholeThrough' BY <1>0, <1>8, <1>10, <1>11 DEF BackupSound, WholeThrough
<1>16. CopiesWhole' BY <1>0, <1>11 DEF BackupSound, CopiesWhole, RemoteComplete
<1> QED BY <1>12, <1>13, <1>14, <1>15, <1>16 DEF BackupSound

LEMMA EnqueueDailyKept ==
  ASSUME BackupSound, BackupsAssumption, NEW on \in BOOLEAN, EnqueueDaily(on)
  PROVE  BackupSound'
<1>0. /\ UNCHANGED <<dir, push, copy, drill, today, crashes>>
      /\ backup \in [BackupIds -> BackupRows] /\ runner \in Runners /\ runner.at = "enqueue"
  BY SoundlyTyped DEF EnqueueDaily
<1>1. runner.kind = "none"
  <2>1. runner.kind \in {"none", "backup", "push", "drill"} BY <1>0 DEF Runners
  <2> QED BY <1>0, <2>1 DEF BackupSound, RunnerHolds
<1>2. runner' \in Runners /\ runner'.at = "push" /\ runner'.kind = "none"
  BY <1>1, RunnerGoes DEF EnqueueDaily, RunnerAt, RunnerSteps
<1>3. CASE backup' = backup
  BY <1>0, <1>2, <1>3, RunnerIdles, SoundlyTyped
<1>4. CASE DailyDue /\ \E b \in BackupIds :
             /\ backup[b].st = "none"
             /\ backup' = [backup EXCEPT ![b] = [st |-> "queued", date |-> today, done |-> 0]]
  <2>1. PICK b \in BackupIds :
             /\ backup[b].st = "none"
             /\ backup' = [backup EXCEPT ![b] = [st |-> "queued", date |-> today, done |-> 0]]
    BY <1>4
  <2>2. PICK r : r = [st |-> "queued", date |-> today, done |-> 0] OBVIOUS
  <2>3. today \in 0 .. MaxDays BY Days
  <2>4. r \in BackupRows /\ r.st = "queued"
    BY <2>2, <2>3 DEF BackupRows, BackupStates, Waiting, BackupsAssumption
  <2>5. /\ backup' \in [BackupIds -> BackupRows]
        /\ backup'[b] = r /\ \A a \in BackupIds \ {b} : backup'[a] = backup[a]
    BY <1>0, <2>1, <2>2, <2>4
  <2>6. BackupTypeOK' BY <1>0, <1>2, <2>5, BackupTyped, SoundlyTyped DEF BackupTypes
  <2>7. IsFiniteSet(Made') /\ \A d \in 1 .. MaxDays : Budget(d)'
    BY <1>4, <2>1, <2>3, BudgetGrows
  <2>8. RunnerHolds' BY <1>2 DEF RunnerHolds
  <2>9. WholeThrough' BY <1>0, <1>2, <2>4, <2>5 DEF BackupSound, WholeThrough
  <2>10. CopiesWhole' BY <1>0, <1>2 DEF BackupSound, CopiesWhole, RemoteComplete
  <2> QED BY <2>6, <2>7, <2>8, <2>9, <2>10 DEF BackupSound
<1> QED BY <1>3, <1>4 DEF EnqueueDaily

LEMMA EnqueuePushKept ==
  ASSUME BackupSound, BackupsAssumption, NEW on \in BOOLEAN, EnqueuePush(on)
  PROVE  BackupSound'
<1>0. /\ UNCHANGED <<backup, dir, copy, drill, today, crashes>>
      /\ push \in [BackupIds -> Pushes] /\ runner \in Runners /\ runner.at = "push"
      /\ backup \in [BackupIds -> BackupRows] /\ drill \in Drills
  BY SoundlyTyped DEF EnqueuePush
<1>1. runner.kind = "none"
  <2>1. runner.kind \in {"none", "backup", "push", "drill"} BY <1>0 DEF Runners
  <2> QED BY <1>0, <2>1 DEF BackupSound, RunnerHolds
<1>2. runner' \in Runners /\ runner'.at = "claim" /\ runner'.kind = "none"
  BY <1>1, RunnerGoes DEF EnqueuePush, RunnerAt, RunnerSteps
<1>3. PICK q : q = [b \in BackupIds |->
         IF on /\ backup[b].st = "complete" /\ backup[b].done = today /\ MayPush(b)
           THEN [push[b] EXCEPT !.st = "queued"] ELSE push[b]]
  OBVIOUS
<1>4. push' = q BY <1>3 DEF EnqueuePush
<1>5. ASSUME NEW b \in BackupIds
      PROVE  /\ q[b] \in Pushes
             /\ q[b].st = "complete" => push[b].st = "complete"
             /\ q[b].st \in Waiting => q[b].fails < MaxAttempts
  <2>1. PICK w \in Pushes : w = push[b] BY <1>0
  <2>2. w.st \in Waiting => w.fails < MaxAttempts BY <2>1 DEF BackupSound, CopiesWhole
  <2>3. q[b] = w \/ (q[b] = [w EXCEPT !.st = "queued"] /\ w.fails < MaxAttempts)
    BY <1>3, <2>1 DEF MayPush
  <2>4. CASE q[b] = w BY <2>1, <2>2, <2>4
  <2>5. CASE q[b] = [w EXCEPT !.st = "queued"] /\ w.fails < MaxAttempts
    <3>1. "queued" \in {"none", "complete", "failed"} \cup Waiting BY DEF Waiting
    <3>2. q[b] \in Pushes /\ q[b].st = "queued" /\ q[b].fails = w.fails BY <2>5, <3>1, PushRow
    <3> QED BY <2>5, <3>2
  <2> QED BY <2>3, <2>4, <2>5
<1>6. q \in [BackupIds -> Pushes] BY <1>3, <1>5
<1>7. drill' \in Drills /\ backup' = backup BY <1>0
<1> QED BY <1>0, <1>1, <1>2, <1>4, <1>5, <1>6, <1>7, RowsMove

-----------------------------------------------------------------------------
(* A job, from its claim to its end                                         *)

\* A job that waited is the runner's now; what it has failed before, it has failed too few times.
LEMMA ClaimBackupKept ==
  ASSUME BackupSound, BackupsAssumption, NEW b \in BackupIds,
         NEW kind \in {"backup", "push", "drill"}, ClaimBackup(kind, b)
  PROVE  BackupSound'
<1>0. /\ UNCHANGED <<dir, copy, today, crashes>> /\ runner.at = "claim"
      /\ backup \in [BackupIds -> BackupRows] /\ push \in [BackupIds -> Pushes]
      /\ drill \in Drills /\ runner \in Runners
      /\ runner' = [runner EXCEPT !.at = "run", !.kind = kind, !.id = b]
  BY SoundlyTyped DEF ClaimBackup
<1>1. runner' \in Runners /\ runner'.at = "run" /\ runner'.kind = kind /\ runner'.id = b
  BY <1>0 DEF Runners, RunnerSteps
<1>2. CASE kind = "backup"
  <2>1. backup[b].st = "queued" BY <1>2 DEF ClaimBackup, Backlog
  <2>2. PICK r : r = [backup[b] EXCEPT !.st = "running"] OBVIOUS
  <2>3. /\ r \in BackupRows /\ r.st = "running"
        /\ r.date = backup[b].date /\ r.done = backup[b].done
    BY <1>0, <2>2, StateRow, ZenonT(60) DEF BackupStates, Waiting
  <2>4. backup' = [backup EXCEPT ![b] = r] /\ push' = push /\ drill' = drill
    BY <1>2, <2>2 DEF ClaimBackup
  <2>5. PICK p \in [BackupIds -> BackupRows] : p = backup' BY <1>0, <2>3, <2>4
  <2>6. p[b] = r /\ \A a \in BackupIds \ {b} : p[a] = backup[a] BY <1>0, <2>3, <2>4, <2>5
  <2>7. BackupTypeOK' BY <1>0, <1>1, <2>4, <2>5, BackupTyped, SoundlyTyped DEF BackupTypes
  <2>8. IsFiniteSet(Made') /\ \A d \in 1 .. MaxDays : Budget(d)'
    <3>1. \A a \in BackupIds :
            /\ p[a].date = backup[a].date /\ (p[a].st # "none" => backup[a].st # "none")
            /\ p[a].st \in Standing => backup[a].st \in Standing
            /\ p[a].st \in Standing \cup {"failed"} => backup[a].st \in Standing \cup {"failed"}
      BY <2>1, <2>3, <2>6 DEF Standing, Waiting
    <3> QED BY <2>5, <3>1, BudgetShrinks
  <2>9. RunnerHolds' BY <1>1, <1>2, <2>3, <2>5, <2>6 DEF RunnerHolds
  <2>10. WholeThrough' BY <1>0, <1>1, <2>3, <2>5, <2>6 DEF BackupSound, WholeThrough
  <2>11. CopiesWhole' BY <1>0, <1>1, <2>4 DEF BackupSound, CopiesWhole, RemoteComplete
  <2> QED BY <2>7, <2>8, <2>9, <2>10, <2>11 DEF BackupSound
<1>3. CASE kind = "push"
  <2>1. push[b].st = "queued" BY <1>3 DEF ClaimBackup, Backlog
  <2>2. PICK r : r = [push[b] EXCEPT !.st = "running"] OBVIOUS
  <2>3. r \in Pushes /\ r.st = "running" /\ r.fails = push[b].fails
    BY <1>0, <2>2, PushRow DEF Waiting
  <2>4. push' = [push EXCEPT ![b] = r] /\ backup' = backup /\ drill' = drill
    BY <1>3, <2>2 DEF ClaimBackup
  <2>5. PICK q \in [BackupIds -> Pushes] : q = push' BY <1>0, <2>3, <2>4
  <2>6. q[b] = r /\ \A a \in BackupIds \ {b} : q[a] = push[a] BY <1>0, <2>3, <2>4, <2>5
  <2>7. BackupTypeOK' BY <1>0, <1>1, <2>4, <2>5, BackupTyped, SoundlyTyped DEF BackupTypes
  <2>8. IsFiniteSet(Made') /\ \A d \in 1 .. MaxDays : Budget(d)' BY <2>4, BudgetSame
  <2>9. RunnerHolds' BY <1>1, <1>3, <2>3, <2>5, <2>6 DEF RunnerHolds
  <2>10. WholeThrough' BY <1>0, <1>1, <2>4 DEF BackupSound, WholeThrough
  <2>11. CopiesWhole'
    <3>1. r.fails < MaxAttempts BY <2>1, <2>3 DEF BackupSound, CopiesWhole, Waiting
    <3> QED BY <1>0, <1>1, <2>3, <2>5, <2>6, <3>1 DEF BackupSound, CopiesWhole, RemoteComplete
  <2> QED BY <2>7, <2>8, <2>9, <2>10, <2>11 DEF BackupSound
<1>4. CASE kind = "drill"
  <2>1. drill' = [drill EXCEPT !.st = "running"] /\ UNCHANGED <<backup, push>>
    BY <1>4 DEF ClaimBackup
  <2>2. drill' \in Drills BY <1>0, <2>1 DEF Drills, Waiting
  <2>3. BackupTypeOK' BY <1>0, <1>1, <2>1, <2>2, BackupTyped, SoundlyTyped DEF BackupTypes
  <2>4. IsFiniteSet(Made') /\ \A d \in 1 .. MaxDays : Budget(d)' BY <2>1, BudgetSame
  <2>5. RunnerHolds' BY <1>1, <1>4 DEF RunnerHolds
  <2>6. WholeThrough' BY <1>0, <1>1, <2>1 DEF BackupSound, WholeThrough
  <2>7. CopiesWhole' BY <1>0, <1>1, <2>1 DEF BackupSound, CopiesWhole, RemoteComplete
  <2> QED BY <2>3, <2>4, <2>5, <2>6, <2>7 DEF BackupSound
<1> QED BY <1>2, <1>3, <1>4

\* The backup's row still runs, so that the new directory is nobody's complete backup yet.
LEMMA RenameBackupKept ==
  ASSUME BackupSound, BackupsAssumption, RenameBackup
  PROVE  BackupSound'
<1>0. /\ UNCHANGED <<backup, push, copy, drill, today, crashes>> /\ runner.at = "writing"
      /\ dir \in [BackupIds -> Directories] /\ runner \in Runners
      /\ today \in Nat /\ today \in 0 .. MaxDays
  BY SoundlyTyped, Days DEF RenameBackup
<1>1. runner.kind = "backup" /\ runner.id \in BackupIds /\ backup[runner.id].st = "running"
  <2>1. runner.kind \in {"none", "backup", "push", "drill"} BY <1>0 DEF Runners
  <2> QED BY <1>0, <2>1 DEF BackupSound, RunnerHolds
<1>2. PICK b \in BackupIds : b = runner.id BY <1>1
<1>3. PICK r : r = [is |-> "whole", day |-> today] OBVIOUS
<1>4. r \in Directories /\ r.is = "whole" /\ r.day = today BY <1>0, <1>3 DEF Directories
<1>5. dir' = [dir EXCEPT ![b] = r] BY <1>2, <1>3 DEF RenameBackup
<1>6. PICK p \in [BackupIds -> Directories] : p = dir' BY <1>0, <1>4, <1>5
<1>7. p[b] = r /\ \A a \in BackupIds \ {b} : p[a] = dir[a] BY <1>0, <1>4, <1>5, <1>6
<1>8. /\ runner' \in Runners /\ runner'.at = "finish"
      /\ runner'.kind = runner.kind /\ runner'.id = runner.id
  BY RunnerGoes DEF RenameBackup, RunnerAt, RunnerSteps
<1>9. BackupTypeOK' BY <1>0, <1>6, <1>8, BackupTyped, SoundlyTyped DEF BackupTypes
<1>10. IsFiniteSet(Made') /\ \A d \in 1 .. MaxDays : Budget(d)' BY <1>0, BudgetSame
<1>11. RunnerHolds' BY <1>0, <1>1, <1>8 DEF RunnerHolds
<1>12. WholeThrough'
  <2>1. \A a \in BackupIds : backup[a].st = "complete" => p[a] = dir[a] BY <1>1, <1>2, <1>7
  <2>2. \A a \in BackupIds : backup[a].st = "complete" =>
          /\ backup[a].done <= today
          /\ p[a].is = "whole" => backup[a].done <= p[a].day
          /\ p[a].is = "ruined" => backup[a].done + Retention <= today
    BY <2>1 DEF BackupSound, WholeThrough
  <2>3. p[runner.id].is = "whole" /\ today <= p[runner.id].day BY <1>0, <1>2, <1>4, <1>7
  <2> QED BY <1>0, <1>6, <1>8, <2>2, <2>3 DEF WholeThrough
<1>13. CopiesWhole' BY <1>0, <1>1, <1>8 DEF BackupSound, CopiesWhole, RemoteComplete
<1> QED BY <1>9, <1>10, <1>11, <1>12, <1>13 DEF BackupSound

\* A copy that was whole is not in parts while its archive is replaced.
LEMMA CopyArchiveKept ==
  ASSUME BackupSound, BackupsAssumption, CopyArchive
  PROVE  BackupSound'
<1>0. /\ UNCHANGED <<backup, dir, push, drill, today, crashes>>
      /\ runner.at = "run" /\ runner.kind = "push"
      /\ copy \in [BackupIds -> RemoteCopies] /\ runner \in Runners
      /\ today \in Nat /\ today \in 0 .. MaxDays
  BY SoundlyTyped, Days DEF CopyArchive
<1>1. runner.id \in BackupIds /\ push[runner.id].st = "running"
  BY <1>0 DEF BackupSound, RunnerHolds
<1>2. PICK b \in BackupIds : b = runner.id BY <1>1
<1>3. PICK s \in {"archive", "whole"} : s = IF copy[b].is = "whole" THEN "whole" ELSE "archive"
  OBVIOUS
<1>4. PICK r : r = [is |-> s, day |-> today] OBVIOUS
<1>5. r \in RemoteCopies BY <1>0, <1>4 DEF RemoteCopies
<1>6. copy' = [copy EXCEPT ![b] = r] BY <1>2, <1>3, <1>4 DEF CopyArchive
<1>7. PICK q \in [BackupIds -> RemoteCopies] : q = copy' BY <1>0, <1>5, <1>6
<1>8. \A a \in BackupIds \ {b} : q[a] = copy[a] BY <1>0, <1>5, <1>6, <1>7
<1>9. /\ runner' \in Runners /\ runner'.at = "copied"
      /\ runner'.kind = runner.kind /\ runner'.id = runner.id
  BY RunnerGoes DEF CopyArchive, RunnerAt, RunnerSteps
<1>10. BackupTypeOK' BY <1>0, <1>7, <1>9, BackupTyped, SoundlyTyped DEF BackupTypes
<1>11. IsFiniteSet(Made') /\ \A d \in 1 .. MaxDays : Budget(d)' BY <1>0, BudgetSame
<1>12. RunnerHolds' BY <1>0, <1>1, <1>9 DEF RunnerHolds
<1>13. WholeThrough' BY <1>0, <1>9 DEF BackupSound, WholeThrough
<1>14. CopiesWhole'
  <2>1. \A a \in BackupIds : push[a].st = "complete" => q[a] = copy[a] BY <1>1, <1>2, <1>8
  <2>2. \A a \in BackupIds :
          push[a].st = "complete" /\ q[a].day + RemoteRetention > today => q[a].is = "whole"
    BY <2>1 DEF BackupSound, CopiesWhole, RemoteComplete
  <2> QED BY <1>0, <1>7, <1>9, <2>2 DEF BackupSound, CopiesWhole, RemoteComplete
<1> QED BY <1>10, <1>11, <1>12, <1>13, <1>14 DEF BackupSound

\* What is pruned is past its retention, and never the copy that was just made.
LEMMA CopyManifestKept ==
  ASSUME BackupSound, BackupsAssumption, NEW gone \in SUBSET BackupIds, CopyManifest(gone)
  PROVE  BackupSound'
<1>0. /\ UNCHANGED <<backup, dir, push, drill, today, crashes>> /\ runner.at = "copied"
      /\ copy \in [BackupIds -> RemoteCopies] /\ runner \in Runners /\ today \in Nat
  BY SoundlyTyped, Days DEF CopyManifest
<1>1. runner.kind = "push" /\ runner.id \in BackupIds /\ push[runner.id].st = "running"
  <2>1. runner.kind \in {"none", "backup", "push", "drill"} BY <1>0 DEF Runners
  <2> QED BY <1>0, <2>1 DEF BackupSound, RunnerHolds
<1>2. PICK q : q = [b \in BackupIds |-> IF b = runner.id THEN [copy[b] EXCEPT !.is = "whole"]
                                        ELSE IF b \in gone THEN [copy[b] EXCEPT !.is = "none"]
                                        ELSE copy[b]]
  OBVIOUS
<1>3. copy' = q BY <1>2 DEF CopyManifest
<1>4. ASSUME NEW b \in BackupIds
      PROVE  /\ q[b] \in RemoteCopies /\ q[b].day = copy[b].day
             /\ b = runner.id => q[b].is = "whole"
             /\ b # runner.id /\ b \notin gone => q[b] = copy[b]
  <2>1. PICK w \in RemoteCopies : w = copy[b] BY <1>0
  <2>2. CASE b = runner.id
    <3>1. q[b] = [w EXCEPT !.is = "whole"] BY <1>2, <2>1, <2>2
    <3> QED BY <2>1, <2>2, <3>1, CopyRow
  <2>3. CASE b # runner.id /\ b \in gone
    <3>1. q[b] = [w EXCEPT !.is = "none"] BY <1>2, <2>1, <2>3
    <3> QED BY <2>1, <2>3, <3>1, CopyRow
  <2>4. CASE b # runner.id /\ b \notin gone BY <1>2, <2>1, <2>4
  <2> QED BY <2>2, <2>3, <2>4
<1>5. q \in [BackupIds -> RemoteCopies] BY <1>2, <1>4
<1>6. /\ runner' \in Runners /\ runner'.at = "finish"
      /\ runner'.kind = runner.kind /\ runner'.id = runner.id
  BY RunnerGoes DEF CopyManifest, RunnerAt, RunnerSteps
<1>7. BackupTypeOK' BY <1>0, <1>3, <1>5, <1>6, BackupTyped, SoundlyTyped DEF BackupTypes
<1>8. IsFiniteSet(Made') /\ \A d \in 1 .. MaxDays : Budget(d)' BY <1>0, BudgetSame
<1>9. RunnerHolds' BY <1>0, <1>1, <1>6 DEF RunnerHolds
<1>10. WholeThrough' BY <1>0, <1>1, <1>6 DEF BackupSound, WholeThrough
<1>11. CopiesWhole'
  <2>1. ASSUME NEW b \in BackupIds, push[b].st = "complete", q[b].day + RemoteRetention > today
        PROVE  q[b].is = "whole"
    <3>1. b # runner.id /\ q[b].day = copy[b].day BY <1>1, <1>4, <2>1
    <3>2. copy[b].day \in Nat /\ RemoteRetention \in Nat BY Days DEF BackupsAssumption
    <3>3. b \notin gone BY <1>0, <2>1, <3>1, <3>2 DEF CopyManifest, Prunable
    <3>4. q[b] = copy[b] BY <1>4, <3>1, <3>3
    <3> QED BY <2>1, <3>4 DEF BackupSound, CopiesWhole, RemoteComplete
  <2>2. q[runner.id].is = "whole" BY <1>1, <1>4
  <2> QED BY <1>0, <1>3, <1>6, <2>1, <2>2 DEF BackupSound, CopiesWhole, RemoteComplete
<1> QED BY <1>7, <1>8, <1>9, <1>10, <1>11 DEF BackupSound

LEMMA RestoreDrillKept ==
  ASSUME BackupSound, BackupsAssumption, RestoreDrill
  PROVE  BackupSound'
<1>0. /\ UNCHANGED <<backup, dir, push, copy, drill, today, crashes>>
      /\ runner.at = "run" /\ runner.kind = "drill"
  BY DEF RestoreDrill
<1>1. /\ runner' \in Runners /\ runner'.at = "finish"
      /\ runner'.kind = runner.kind /\ runner'.id = runner.id
  BY RunnerGoes DEF RestoreDrill, RunnerAt, RunnerSteps
<1>2. BackupTypeOK' BY <1>0, <1>1, BackupTyped, SoundlyTyped DEF BackupTypes
<1>3. IsFiniteSet(Made') /\ \A d \in 1 .. MaxDays : Budget(d)' BY <1>0, BudgetSame
<1>4. RunnerHolds' BY <1>0, <1>1 DEF BackupSound, RunnerHolds
<1>5. WholeThrough' BY <1>0, <1>1 DEF BackupSound, WholeThrough
<1>6. CopiesWhole' BY <1>0, <1>1 DEF BackupSound, CopiesWhole, RemoteComplete
<1> QED BY <1>2, <1>3, <1>4, <1>5, <1>6 DEF BackupSound

\* A job is reported as complete at "finish" only, where its work is known to be whole.
LEMMA FinishBackupKept ==
  ASSUME BackupSound, BackupsAssumption, NEW st \in {"complete", "failed"}, FinishBackup(st)
  PROVE  BackupSound'
<1>0. /\ UNCHANGED <<dir, copy, today, crashes>>
      /\ backup \in [BackupIds -> BackupRows] /\ push \in [BackupIds -> Pushes]
      /\ drill \in Drills /\ runner \in Runners
      /\ today \in Nat /\ today \in 0 .. MaxDays
  BY SoundlyTyped, Days DEF FinishBackup
<1>1. /\ runner.at \in {"finish", "run", "writing", "copied"}
      /\ st = "complete" => runner.at = "finish"
  BY DEF FinishBackup
<1>2. PICK n : n = [NoStep EXCEPT !.at = "claim"] OBVIOUS
<1>3. n \in Runners /\ n.at = "claim" /\ n.kind = "none"
  BY <1>2 DEF NoStep, Runners, RunnerSteps
<1>4. runner' = n BY <1>2 DEF FinishBackup
<1>5. runner.kind \in {"backup", "push", "drill"}
  <2>1. runner.kind \in {"none", "backup", "push", "drill"} BY <1>0 DEF Runners
  <2> QED BY <1>1, <2>1 DEF BackupSound, RunnerHolds
<1>6. RunnerHolds' BY <1>3, <1>4 DEF RunnerHolds
<1>7. CASE runner.kind = "backup"
  <2>1. runner.id \in BackupIds /\ backup[runner.id].st = "running"
    BY <1>7 DEF BackupSound, RunnerHolds
  <2>2. PICK b \in BackupIds : b = runner.id BY <2>1
  <2>3. PICK r : r = [backup[b] EXCEPT !.st = st, !.done = today] OBVIOUS
  <2>4. r \in BackupRows /\ r.st = st /\ r.date = backup[b].date /\ r.done = today
    BY <1>0, <2>3 DEF BackupRows, BackupStates
  <2>5. backup' = [backup EXCEPT ![b].st = st, ![b].done = today]
    BY <1>7, <2>2 DEF FinishBackup
  <2>6. backup' = [backup EXCEPT ![b] = r] BY <1>0, <2>3, <2>5
  <2>7. push' = push /\ drill' = drill BY <1>7 DEF FinishBackup
  <2>8. PICK p \in [BackupIds -> BackupRows] : p = backup' BY <1>0, <2>4, <2>6
  <2>9. p[b] = r /\ \A a \in BackupIds \ {b} : p[a] = backup[a] BY <1>0, <2>4, <2>6, <2>8
  <2>10. BackupTypeOK'
    BY <1>0, <1>3, <1>4, <2>7, <2>8, BackupTyped, SoundlyTyped DEF BackupTypes
  <2>11. IsFiniteSet(Made') /\ \A d \in 1 .. MaxDays : Budget(d)'
    <3>1. \A a \in BackupIds :
            /\ p[a].date = backup[a].date /\ (p[a].st # "none" => backup[a].st # "none")
            /\ p[a].st \in Standing => backup[a].st \in Standing
            /\ p[a].st \in Standing \cup {"failed"} => backup[a].st \in Standing \cup {"failed"}
      BY <2>1, <2>2, <2>4, <2>9 DEF Standing, Waiting
    <3> QED BY <2>8, <3>1, BudgetShrinks
  <2>12. WholeThrough'
    <3>1. ASSUME NEW a \in BackupIds, p[a].st = "complete"
          PROVE  /\ p[a].done <= today
                 /\ dir[a].is = "whole" => p[a].done <= dir[a].day
                 /\ dir[a].is = "ruined" => p[a].done + Retention <= today
      <4>1. CASE a # b BY <2>9, <3>1, <4>1 DEF BackupSound, WholeThrough
      <4>2. CASE a = b
        <5>1. runner.at = "finish" /\ p[a].done = today BY <1>1, <2>4, <2>9, <3>1, <4>2
        <5>2. /\ dir[b].is = "whole" => today <= dir[b].day
              /\ dir[b].is = "ruined" => today + Retention <= today
          BY <1>7, <2>2, <5>1 DEF BackupSound, WholeThrough
        <5> QED BY <1>0, <4>2, <5>1, <5>2
      <4> QED BY <4>1, <4>2
    <3> QED BY <1>0, <1>3, <1>4, <2>8, <3>1 DEF WholeThrough
  <2>13. CopiesWhole' BY <1>0, <1>3, <1>4, <2>7 DEF BackupSound, CopiesWhole, RemoteComplete
  <2> QED BY <1>6, <2>10, <2>11, <2>12, <2>13 DEF BackupSound
<1>8. CASE runner.kind = "push"
  <2>1. runner.id \in BackupIds /\ push[runner.id].st = "running"
    BY <1>8 DEF BackupSound, RunnerHolds
  <2>2. PICK b \in BackupIds : b = runner.id BY <2>1
  <2>3. push[b].fails < MaxAttempts /\ push[b].fails \in Nat
    BY <2>1, <2>2, Days DEF BackupSound, CopiesWhole, Waiting
  <2>4. PICK f : f = IF st = "failed" THEN push[b].fails + 1 ELSE push[b].fails OBVIOUS
  <2>5. f \in 0 .. MaxAttempts BY <2>3, <2>4 DEF BackupsAssumption
  <2>6. PICK r : r = [push[b] EXCEPT !.st = st, !.fails = f] OBVIOUS
  <2>7. r \in Pushes /\ r.st = st BY <1>0, <2>5, <2>6 DEF Pushes
  <2>8. push' = [push EXCEPT ![b].st = st, ![b].fails = IF st = "failed" THEN @ + 1 ELSE @]
    BY <1>8, <2>2 DEF FinishBackup
  <2>9. push' = [push EXCEPT ![b] = r] BY <1>0, <2>4, <2>6, <2>8
  <2>10. backup' = backup /\ drill' = drill BY <1>8 DEF FinishBackup
  <2>11. PICK q \in [BackupIds -> Pushes] : q = push' BY <1>0, <2>7, <2>9
  <2>12. q[b] = r /\ \A a \in BackupIds \ {b} : q[a] = push[a] BY <1>0, <2>7, <2>9, <2>11
  <2>13. BackupTypeOK'
    BY <1>0, <1>3, <1>4, <2>10, <2>11, BackupTyped, SoundlyTyped DEF BackupTypes
  <2>14. IsFiniteSet(Made') /\ \A d \in 1 .. MaxDays : Budget(d)' BY <2>10, BudgetSame
  <2>15. WholeThrough' BY <1>0, <1>3, <1>4, <2>10 DEF BackupSound, WholeThrough
  <2>16. CopiesWhole'
    <3>1. q[b].st = "complete" => copy[b].is = "whole"
      BY <1>1, <1>8, <2>2, <2>7, <2>12 DEF BackupSound, CopiesWhole
    <3>2. \A a \in BackupIds :
            q[a].st = "complete" /\ copy[a].day + RemoteRetention > today => copy[a].is = "whole"
      BY <2>12, <3>1 DEF BackupSound, CopiesWhole, RemoteComplete
    <3>3. \A a \in BackupIds : q[a].st \in Waiting => q[a].fails < MaxAttempts
      BY <2>7, <2>12 DEF BackupSound, CopiesWhole, Waiting
    <3> QED BY <1>0, <1>3, <1>4, <2>11, <3>2, <3>3 DEF CopiesWhole, RemoteComplete
  <2> QED BY <1>6, <2>13, <2>14, <2>15, <2>16 DEF BackupSound
<1>9. CASE runner.kind = "drill"
  <2>1. drill' = [st |-> "none", of |-> 0] /\ UNCHANGED <<backup, push>>
    BY <1>9 DEF FinishBackup
  <2>2. drill' \in Drills BY <2>1 DEF Drills
  <2>3. BackupTypeOK'
    BY <1>0, <1>3, <1>4, <2>1, <2>2, BackupTyped, SoundlyTyped DEF BackupTypes
  <2>4. IsFiniteSet(Made') /\ \A d \in 1 .. MaxDays : Budget(d)' BY <2>1, BudgetSame
  <2>5. WholeThrough' BY <1>0, <1>3, <1>4, <2>1 DEF BackupSound, WholeThrough
  <2>6. CopiesWhole' BY <1>0, <1>3, <1>4, <2>1 DEF BackupSound, CopiesWhole, RemoteComplete
  <2> QED BY <1>6, <2>3, <2>4, <2>5, <2>6 DEF BackupSound
<1> QED BY <1>5, <1>7, <1>8, <1>9

-----------------------------------------------------------------------------
(* Every behaviour of the runner                                            *)

LEMMA BackupStarts ==
  ASSUME BackupsAssumption, BackupInit
  PROVE  BackupSound
<1>1. 0 \in 0 .. MaxDays /\ 0 \in 0 .. MaxAttempts /\ 0 \in 0 .. MaxCrashes /\ 1 \in 1 .. MaxDays
  BY DEF BackupsAssumption
<1>2. BackupTypes(backup, dir, push, copy, drill, runner)
  BY <1>1 DEF BackupInit, BackupTypes, BackupStates, BackupRows, Directories, Pushes, RemoteCopies,
              Drills, RunnerSteps, Runners, NoStep, NoDirectory, Waiting
<1>3. today = 1 /\ crashes = 0 BY DEF BackupInit
<1>4. BackupTypeOK BY <1>1, <1>2, <1>3, BackupTyped
<1>5. \A b \in BackupIds : backup[b].st = "none" /\ push[b].st = "none" BY DEF BackupInit
<1>6. IsFiniteSet({}) /\ Cardinality({}) = 0 BY FS_EmptySet
<1>7. Made = {} BY <1>5 DEF Made
<1>8. ASSUME NEW d \in 1 .. MaxDays PROVE Budget(d)
  <2>1. Dated(d, Standing) = {} /\ Dated(d, Standing \cup {"failed"}) = {}
    BY <1>5 DEF Dated, Standing, Waiting
  <2> QED BY <1>6, <2>1 DEF Budget, BackupsAssumption
<1>9. runner.kind = "none" /\ runner.at = "down" BY DEF BackupInit, NoStep
<1>10. RunnerHolds BY <1>9 DEF RunnerHolds
<1>11. WholeThrough BY <1>5, <1>9 DEF WholeThrough
<1>12. CopiesWhole BY <1>5, <1>9 DEF CopiesWhole, RemoteComplete, Waiting
<1> QED BY <1>4, <1>6, <1>7, <1>8, <1>10, <1>11, <1>12 DEF BackupSound

LEMMA BackupStep ==
  ASSUME BackupSound, BackupsAssumption, BackupNext
  PROVE  BackupSound'
<1>1. ASSUME NEW b \in BackupIds,
             \/ RequestBackup(b) \/ RequestDrill(b) \/ LoseDirectory(b) \/ RemoveBegin(b)
             \/ \E k \in {"backup", "push", "drill"} : ClaimBackup(k, b)
      PROVE  BackupSound'
  BY <1>1, RequestBackupKept, RequestDrillKept, DirectoryGoesKept, RemoveBeginKept, ClaimBackupKept
<1>2. CASE RemoveEnd \/ WriteBackup BY <1>2, DirectoryGoesKept
<1>3. CASE CleanupDone \/ NextTick \/ RunnerCrash BY <1>3, RunnerIdlesKept
<1>4. CASE TimePasses \/ StartRunner \/ MarkExpired \/ CleanupFails \/ Reconcile
  BY <1>4, TimePassesKept, StartRunnerKept, MarkExpiredKept, CleanupFailsKept, ReconcileKept
<1>5. CASE \E on \in BOOLEAN : EnqueueDaily(on) \/ EnqueuePush(on)
  BY <1>5, EnqueueDailyKept, EnqueuePushKept
<1>6. CASE \E gone \in SUBSET BackupIds : CopyManifest(gone) BY <1>6, CopyManifestKept
<1>7. CASE RenameBackup \/ CopyArchive \/ RestoreDrill
  BY <1>7, RenameBackupKept, CopyArchiveKept, RestoreDrillKept
<1>8. CASE FinishBackup("complete") \/ FinishBackup("failed") BY <1>8, FinishBackupKept
<1> QED BY <1>1, <1>2, <1>3, <1>4, <1>5, <1>6, <1>7, <1>8 DEF BackupNext

LEMMA BackupStutters ==
  ASSUME BackupSound, BackupsAssumption, UNCHANGED backupVars
  PROVE  BackupSound'
<1>0. UNCHANGED <<backup, dir, push, copy, drill, runner, today, crashes>> BY DEF backupVars
<1>1. BackupTypeOK' BY <1>0, BackupTyped, SoundlyTyped DEF BackupTypes
<1>2. IsFiniteSet(Made') /\ \A d \in 1 .. MaxDays : Budget(d)' BY <1>0, BudgetSame
<1>3. RunnerHolds' /\ WholeThrough' /\ CopiesWhole'
  BY <1>0 DEF BackupSound, RunnerHolds, WholeThrough, CopiesWhole, RemoteComplete
<1> QED BY <1>1, <1>2, <1>3 DEF BackupSound

LEMMA BackupAlways == BackupSpec => []BackupSound
<1>1. BackupInit => BackupSound BY BackupStarts, BackupsAssumption
<1>2. BackupSound /\ [BackupNext]_backupVars => BackupSound'
  BY BackupStep, BackupStutters, BackupsAssumption
<1> QED BY <1>1, <1>2, PTL DEF BackupSpec

LEMMA BackupSoundIsEnough ==
  ASSUME BackupSound, BackupsAssumption
  PROVE  BackupInv
<1>1. DailyBudget
  <2>1. Waiting \cup {"complete"} = Standing
        /\ Waiting \cup {"complete", "failed"} = Standing \cup {"failed"}
    BY DEF Standing
  <2>2. ASSUME NEW d \in 1 .. MaxDays
        PROVE  /\ Cardinality({b \in BackupIds : backup[b].date = d
                                 /\ backup[b].st \in Waiting \cup {"complete"}}) <= 1
               /\ Cardinality({b \in BackupIds : backup[b].date = d
                                 /\ backup[b].st \in Waiting \cup {"complete", "failed"}}) <= MaxAttempts
    <3>1. /\ Cardinality(Dated(d, Waiting \cup {"complete"})) <= 1
          /\ Cardinality(Dated(d, Waiting \cup {"complete", "failed"})) <= MaxAttempts
      BY <2>1 DEF BackupSound, Budget
    <3> QED BY <3>1 DEF Dated
  <2> QED BY <2>2 DEF DailyBudget
<1>2. CompleteIsWhole
  <2>1. ASSUME NEW b \in BackupIds, backup[b].st = "complete", backup[b].done + Retention > today,
               dir[b].is = "ruined"
        PROVE  FALSE
    <3>1. backup[b].done + Retention <= today BY <2>1 DEF BackupSound, WholeThrough
    <3> QED BY <2>1, <3>1, Days DEF BackupsAssumption
  <2> QED BY <2>1 DEF CompleteIsWhole
<1>3. RemoteComplete BY DEF BackupSound, CopiesWhole
<1> QED BY <1>1, <1>2, <1>3 DEF BackupInv, BackupSound

\* Whatever fails, crashes or is retried in backupjob/runner.go and runner_remote.go, a day has at
\* most one automatic backup that waits, runs or is complete and at most MaxAttempts in all, no
\* directory of a complete backup is left in parts through its retention, and a remote copy that was
\* reported complete is whole for as long as remote copies are kept.
THEOREM BackupsAreWhole == BackupSpec => []BackupInv
<1>1. BackupSound => BackupInv BY BackupSoundIsEnough, BackupsAssumption
<1> QED BY <1>1, BackupAlways, PTL

-----------------------------------------------------------------------------
(* Reports: what a claim and the verdicts on it may say                     *)

RepRow == [st : {"none", "reviewing", "escalated"} \cup ReportEnded,
           kind : ReportKinds \cup {"none"}, by : Reporters \cup {"none"},
           panel : SUBSET ReportStaff, cur : Int,
           prop : ReportScores \cup {Unset},
           verdict : [ReportStaff -> ReportScores \cup {Unset}],
           final : ReportScores \cup {Unset}]

\* The scores that a verdict or a claim of a kind may name.
Fits(kind, n) == IF kind = "penalty" THEN n \in -2 .. 0 ELSE n \in 0 .. FullScore

\* What a call of a tool link has read: verdicts that stand, for a verdict is never withdrawn.
LinkCall == [at : {"read"}, by : ReportStaff, report : ReportIds, seen : SUBSET ReportStaff,
             score : Int]
LinksSound ==
  /\ reportTx \in [ReportLinks -> {NoRequest} \cup LinkCall]
  /\ \A t \in ReportLinks :
       reportTx[t] # NoRequest => reportTx[t].seen \subseteq Given(reports[reportTx[t].report])

\* A report has two reviewers, and what was said of it fits its kind.
ReportRowSound(x) ==
  x.st # "none" =>
    /\ x.kind \in ReportKinds /\ Fits(x.kind, x.prop)
    /\ \E a, b \in ReportStaff : x.panel = {a, b}
    /\ \A s \in ReportStaff : x.verdict[s] = Unset \/ Fits(x.kind, x.verdict[s])

RowSettled(x) ==
  x.st \in {"applied", "dismissed"} =>
    \A s \in x.panel : x.verdict[s] = IF x.st = "applied" THEN x.final ELSE StatusQuo(x)

ReportSound ==
  /\ ReportTypeOK
  /\ \A r \in ReportIds : ReportRowSound(reports[r]) /\ RowSettled(reports[r])
  /\ LinksSound

LEMMA ReportRows == ASSUME ReportTypeOK PROVE reports \in [ReportIds -> RepRow]
BY DEF ReportTypeOK, RepRow

ScoresTyped ==
  /\ itemScore \in [ReportKinds -> Int] /\ itemScore["penalty"] <= 0
  /\ itemScore["base"] \in 0 .. FullScore /\ itemScore["submission"] \in 0 .. FullScore

LEMMA ReportTyped ==
  ASSUME ScoresTyped, reports \in [ReportIds -> RepRow], appealing \in BOOLEAN,
         scoreMoves \in 0 .. MaxScoreMoves
  PROVE  ReportTypeOK
BY DEF ReportTypeOK, RepRow, ScoresTyped

LEMMA ScoresFit ==
  ASSUME NEW kind, NEW n, Fits(kind, n), ReportsAssumption
  PROVE  n \in ReportScores /\ n \in Int /\ n # Unset
BY DEF Fits, ReportScores, Unset, ReportsAssumption

LEMMA Unstarted ==
  ASSUME ReportsAssumption
  PROVE  NoReport \in RepRow /\ NoReport.st = "none"
<1>1. Unset \in Int BY DEF Unset
<1>2. [s \in ReportStaff |-> Unset] \in [ReportStaff -> ReportScores \cup {Unset}] OBVIOUS
<1> QED BY <1>1, <1>2 DEF NoReport, RepRow

LEMMA PairOf ==
  ASSUME NEW S, NEW q \in kSubset(2, S), IsFiniteSet(S)
  PROVE  \E a, b \in S : q = {a, b}
<1>1. q \subseteq S /\ Cardinality(q) = 2
  BY DEF kSubset
<1>2. IsFiniteSet(q)
  BY <1>1, FS_Subset
<1>3. PICK a \in q : TRUE
  BY <1>1, FS_EmptySet
<1>4. IsFiniteSet(q \ {a}) /\ Cardinality(q \ {a}) = 1
  BY <1>1, <1>2, <1>3, FS_RemoveElement
<1>5. PICK b : q \ {a} = {b}
  BY <1>4, FS_Singleton
<1> QED
  BY <1>1, <1>3, <1>5

LEMMA TwoOfPair ==
  ASSUME NEW u, NEW v
  PROVE  Cardinality({u, v}) > 1 <=> u # v
<1>1. IsFiniteSet({u}) /\ Cardinality({u}) = 1
  BY FS_Singleton
<1>2. {u, v} = {u} \cup {v} /\ (v \in {u} <=> u = v)
  OBVIOUS
<1>3. Cardinality({u} \cup {v}) = IF v \in {u} THEN 1 ELSE 2
  BY <1>1, FS_AddElement
<1> QED
  BY <1>2, <1>3

LEMMA ReportStarts == ReportsAssumption /\ ReportInit => ReportSound
<1> SUFFICES ASSUME ReportsAssumption, ReportInit PROVE ReportSound
  OBVIOUS
<1>1. reports \in [ReportIds -> RepRow] /\ \A r \in ReportIds : reports[r] = NoReport
  BY Unstarted DEF ReportInit
<1>2. ScoresTyped
  BY DEF ReportInit, ReportKinds, ReportsAssumption, ScoresTyped
<1>3. ReportTypeOK
  <2>1. appealing \in BOOLEAN
    BY DEF ReportInit
  <2>2. scoreMoves \in 0 .. MaxScoreMoves
    BY DEF ReportInit, ReportsAssumption
  <2> QED
    BY <1>1, <1>2, <2>1, <2>2, ReportTyped
<1>4. ASSUME NEW r \in ReportIds PROVE ReportRowSound(reports[r]) /\ RowSettled(reports[r])
  BY <1>1, Unstarted DEF ReportRowSound, RowSettled
<1>5. LinksSound
  BY DEF ReportInit, LinksSound
<1> QED
  BY <1>3, <1>4, <1>5 DEF ReportSound

\* Rewriting one report
LEMMA ReportRewritten ==
  ASSUME ReportSound, NEW r \in ReportIds, NEW x \in RepRow, reports' = [reports EXCEPT ![r] = x],
         ReportRowSound(x), RowSettled(x)
  PROVE  /\ reports' \in [ReportIds -> RepRow]
         /\ \A o \in ReportIds : ReportRowSound(reports'[o]) /\ RowSettled(reports'[o])
<1>1. reports \in [ReportIds -> RepRow]
  BY ReportRows DEF ReportSound
<1>2. \A o \in ReportIds : reports'[o] = IF o = r THEN x ELSE reports[o]
  BY <1>1
<1>3. reports' \in [ReportIds -> RepRow]
  BY <1>1
<1> QED
  BY <1>2, <1>3 DEF ReportSound

\* Applying an outcome keeps the scores in their ranges.
LEMMA OutcomeApplied ==
  ASSUME ReportSound, ReportsAssumption, NEW kind \in ReportKinds, NEW n, Fits(kind, n)
  PROVE  LET s == ReportApplied(itemScore, kind, n)
         IN /\ s \in [ReportKinds -> Int] /\ s["penalty"] <= 0
            /\ s["base"] \in 0 .. FullScore /\ s["submission"] \in 0 .. FullScore
<1> DEFINE m == IF kind = "penalty" THEN itemScore[kind] + n ELSE n
<1>1. /\ itemScore \in [ReportKinds -> Int] /\ itemScore["penalty"] <= 0
      /\ itemScore["base"] \in 0 .. FullScore /\ itemScore["submission"] \in 0 .. FullScore
  BY DEF ReportSound, ReportTypeOK
<1>2. m \in Int /\ (kind = "penalty" => m <= 0) /\ (kind # "penalty" => m \in 0 .. FullScore)
  BY <1>1, ScoresFit DEF Fits
<1>3. ReportApplied(itemScore, kind, n) = [itemScore EXCEPT ![kind] = m]
  BY <1>1 DEF ReportApplied
<1> HIDE DEF m
<1> QED
  BY <1>1, <1>2, <1>3 DEF ReportKinds

\* What the verdicts that are counted make of a report
LEMMA OutcomeSound ==
  ASSUME ReportsAssumption, NEW x \in RepRow, x.st = "reviewing", ReportRowSound(x),
         NEW counted \in SUBSET ReportStaff, \A s \in counted : x.verdict[s] # Unset
  PROVE  LET y == ReportOutcome(x, counted)
         IN /\ y \in RepRow /\ ReportRowSound(y) /\ RowSettled(y)
            /\ y.kind = x.kind /\ y.kind \in ReportKinds /\ y.st # "final"
            /\ y.panel = x.panel /\ y.verdict = x.verdict
            /\ y.st = "applied" => Fits(y.kind, y.final)
<1>1. PICK a, b \in ReportStaff : x.panel = {a, b}
  BY DEF ReportRowSound
<1> DEFINE given == {x.verdict[s] : s \in counted}
           n == CHOOSE v \in given : TRUE
<1>2. counted = x.panel => given = {x.verdict[a], x.verdict[b]} /\ Unset \notin given
  BY <1>1
<1>3. x.kind \in ReportKinds /\ Fits(x.kind, x.prop)
      /\ \A s \in ReportStaff : x.verdict[s] = Unset \/ Fits(x.kind, x.verdict[s])
  BY DEF ReportRowSound
<1>4. CASE counted # x.panel
  <2>1. ReportOutcome(x, counted) = x
    BY <1>4 DEF ReportOutcome
  <2> QED
    BY <2>1, <1>3 DEF RowSettled
<1>5. CASE counted = x.panel /\ x.verdict[a] # x.verdict[b]
  <2>1. Cardinality(given) > 1
    BY <1>2, <1>5, TwoOfPair
  <2>2. ReportOutcome(x, counted) = [x EXCEPT !.st = "escalated"]
    BY <1>5, <2>1 DEF ReportOutcome
  <2>3. PICK y \in RepRow : y = [x EXCEPT !.st = "escalated"]
    BY DEF RepRow
  <2>4. /\ y.st = "escalated" /\ y.kind = x.kind /\ y.panel = x.panel /\ y.verdict = x.verdict
        /\ y.prop = x.prop
    BY <2>3 DEF RepRow
  <2> QED
    BY <2>2, <2>3, <2>4, <1>3, <1>1 DEF RowSettled, ReportRowSound
<1>6. CASE counted = x.panel /\ x.verdict[a] = x.verdict[b]
  <2>1. ~(Cardinality(given) > 1)
    BY <1>2, <1>6, TwoOfPair
  <2>2. n = x.verdict[a] /\ \A s \in x.panel : x.verdict[s] = n
    BY <1>1, <1>2, <1>6
  <2>3. n # Unset /\ Fits(x.kind, n) /\ n \in ReportScores
    BY <1>1, <1>2, <1>3, <1>6, <2>2, ScoresFit
  <2> HIDE DEF n
  <2>4. CASE n = StatusQuo(x)
    <3>1. ReportOutcome(x, counted) = [x EXCEPT !.st = "dismissed", !.final = 0]
      BY <1>6, <2>1, <2>4 DEF ReportOutcome, n
    <3>2. 0 \in ReportScores
      BY DEF ReportScores, ReportsAssumption
    <3>3. PICK y \in RepRow : y = [x EXCEPT !.st = "dismissed", !.final = 0]
      BY <3>2 DEF RepRow, ReportEnded
    <3>4. /\ y.st = "dismissed" /\ y.kind = x.kind /\ y.panel = x.panel /\ y.verdict = x.verdict
          /\ y.prop = x.prop /\ y.cur = x.cur
      BY <3>3 DEF RepRow
    <3>5. StatusQuo(y) = StatusQuo(x)
      BY <3>4 DEF StatusQuo
    <3> QED
      BY <3>1, <3>3, <3>4, <3>5, <2>2, <2>4, <1>1, <1>3 DEF RowSettled, ReportRowSound
  <2>5. CASE n # StatusQuo(x)
    <3>1. ReportOutcome(x, counted) = [x EXCEPT !.st = "applied", !.final = n]
      BY <1>6, <2>1, <2>5 DEF ReportOutcome, n
    <3>3. PICK y \in RepRow : y = [x EXCEPT !.st = "applied", !.final = n]
      BY <2>3 DEF RepRow, ReportEnded
    <3>4. /\ y.st = "applied" /\ y.kind = x.kind /\ y.panel = x.panel /\ y.verdict = x.verdict
          /\ y.prop = x.prop /\ y.final = n
      BY <3>3 DEF RepRow
    <3> QED
      BY <3>1, <3>3, <3>4, <2>2, <2>3, <1>1, <1>3 DEF RowSettled, ReportRowSound
  <2> QED
    BY <2>4, <2>5
<1> QED
  BY <1>4, <1>5, <1>6

-----------------------------------------------------------------------------
\* No step takes a verdict back, so that what a link has read of verdicts stands.
VerdictsStay == \A r \in ReportIds : Given(reports[r]) \subseteq Given(reports'[r])

LEMMA LinksKept ==
  ASSUME ReportSound, VerdictsStay, reportTx' \in [ReportLinks -> {NoRequest} \cup LinkCall],
         \A t \in ReportLinks : reportTx'[t] = NoRequest \/ reportTx'[t] = reportTx[t]
  PROVE  LinksSound'
<1> SUFFICES ASSUME NEW t \in ReportLinks, reportTx'[t] # NoRequest
             PROVE  reportTx'[t].seen \subseteq Given(reports'[reportTx'[t].report])
  BY DEF LinksSound
<1>1. PICK q : q = reportTx[t]
  OBVIOUS
<1>2. q \in LinkCall /\ q.seen \subseteq Given(reports[q.report]) /\ reportTx'[t] = q
  BY <1>1 DEF ReportSound, LinksSound
<1>3. q.report \in ReportIds
  BY <1>2 DEF LinkCall
<1> QED
  BY <1>2, <1>3 DEF VerdictsStay

\* A step that rewrites one report and none of the calls.
LEMMA RewriteKept ==
  ASSUME ReportSound, NEW r \in ReportIds, NEW x \in RepRow, reports' = [reports EXCEPT ![r] = x],
         ReportRowSound(x), RowSettled(x), Given(reports[r]) \subseteq Given(x),
         ScoresTyped', appealing' \in BOOLEAN, scoreMoves' \in 0 .. MaxScoreMoves,
         reportTx' \in [ReportLinks -> {NoRequest} \cup LinkCall],
         \A t \in ReportLinks : reportTx'[t] = NoRequest \/ reportTx'[t] = reportTx[t]
  PROVE  ReportSound'
<1>1. /\ reports' \in [ReportIds -> RepRow]
      /\ \A o \in ReportIds : ReportRowSound(reports'[o]) /\ RowSettled(reports'[o])
  BY ReportRewritten
<1>2. VerdictsStay
  <2>1. \A o \in ReportIds : reports'[o] = IF o = r THEN x ELSE reports[o]
    BY ReportRows DEF ReportSound
  <2> QED
    BY <2>1 DEF VerdictsStay
<1>3. LinksSound'
  BY <1>2, LinksKept
<1>4. ReportTypeOK'
  BY <1>1 DEF ReportTypeOK, RepRow, ScoresTyped
<1> QED
  BY <1>1, <1>3, <1>4 DEF ReportSound

LEMMA CallsAsTheyWere ==
  ASSUME ReportSound, UNCHANGED reportTx
  PROVE  /\ reportTx' \in [ReportLinks -> {NoRequest} \cup LinkCall]
         /\ \A t \in ReportLinks : reportTx'[t] = NoRequest \/ reportTx'[t] = reportTx[t]
BY DEF ReportSound, LinksSound

LEMMA FileReportKept ==
  ASSUME ReportSound, ReportsAssumption, NEW p \in Reporters, NEW k \in Reported,
         NEW n \in ReportScores, FileReport(p, k, n)
  PROVE  ReportSound'
<1>1. k \in ReportKinds /\ ScoresTyped /\ UNCHANGED <<itemScore, appealing, reportTx, scoreMoves>>
  BY DEF ReportsAssumption, ReportSound, ReportTypeOK, ScoresTyped, FileReport
<1>2. PICK cur \in Int : cur = itemScore[k]
  BY <1>1 DEF ScoresTyped
<1>3. Fits(k, n)
  <2>1. n \in Int /\ n <= FullScore /\ n \in ReportClaims(k)
    BY DEF ReportScores, ReportsAssumption, FileReport
  <2>2. CASE k = "penalty"
    BY <2>1, <2>2 DEF ReportClaims, Deductions, Fits
  <2>3. CASE k # "penalty"
    BY <1>2, <2>1, <2>3 DEF ReportClaims, Fits, ReportsAssumption
  <2> QED
    BY <2>2, <2>3
<1>4. PICK q \in Panelists(p), r \in ReportIds :
        /\ reports[r] = NoReport
        /\ reports' = [reports EXCEPT ![r] =
             [NoReport EXCEPT !.st = "reviewing", !.kind = k, !.by = p,
                              !.panel = q, !.cur = itemScore[k], !.prop = n]]
  BY DEF FileReport
<1>5. PICK a, b \in ReportStaff : q = {a, b}
  <2>1. q \in kSubset(2, ReportStaff \ {p})
    BY DEF Panelists
  <2>2. IsFiniteSet(ReportStaff \ {p})
    BY FS_Subset DEF ReportsAssumption
  <2> QED
    BY <2>1, <2>2, PairOf
<1>6. PICK x \in RepRow : x = [NoReport EXCEPT !.st = "reviewing", !.kind = k, !.by = p,
                                               !.panel = q, !.cur = cur, !.prop = n]
  <2>1. NoReport \in RepRow /\ q \in SUBSET ReportStaff
    BY <1>5, Unstarted
  <2> QED
    BY <1>1, <2>1 DEF RepRow
<1>7. /\ x.st = "reviewing" /\ x.kind = k /\ x.panel = q /\ x.prop = n
      /\ x.verdict = [s \in ReportStaff |-> Unset]
  BY <1>6 DEF NoReport
<1>8. ReportRowSound(x) /\ RowSettled(x)
  BY <1>1, <1>3, <1>5, <1>7 DEF ReportRowSound, RowSettled
<1>9. reports' = [reports EXCEPT ![r] = x]
  BY <1>2, <1>4, <1>6
<1>10. Given(reports[r]) \subseteq Given(x)
  BY <1>4 DEF Given, NoReport
<1>11. ScoresTyped' /\ appealing' \in BOOLEAN /\ scoreMoves' \in 0 .. MaxScoreMoves
  BY <1>1 DEF ScoresTyped, ReportSound, ReportTypeOK
<1> QED
  BY <1>1, <1>8, <1>9, <1>10, <1>11, CallsAsTheyWere, RewriteKept

\* A verdict is given: the report is rewritten by what the verdicts make of it.
VerdictOn(r, y) ==
  /\ reports[r].st = "reviewing" /\ ReportRowSound(y) /\ RowSettled(y)
  /\ y.kind = reports[r].kind /\ y.kind \in ReportKinds /\ y.st # "final"
  /\ y.st = "applied" => Fits(y.kind, y.final)
  /\ Given(reports[r]) \subseteq Given(y)
  /\ reports' = [reports EXCEPT ![r] = y]
  /\ itemScore' = IF y.st = "applied" THEN ReportApplied(itemScore, y.kind, y.final) ELSE itemScore
  /\ UNCHANGED <<appealing, scoreMoves>>

LEMMA VerdictGiven ==
  ASSUME ReportSound, ReportsAssumption, NEW s \in ReportStaff, NEW r \in ReportIds,
         NEW n \in ReportScores, NEW seen, seen \subseteq Given(reports[r]),
         GiveVerdict(s, r, n, seen)
  PROVE  \E y \in RepRow : VerdictOn(r, y)
<1>3. PICK was \in RepRow : was = reports[r]
  BY ReportRows DEF ReportSound
<1>4. was.st = "reviewing" /\ ReportRowSound(was) /\ s \in was.panel
  BY <1>3 DEF GiveVerdict, MayDecide, ReportSound
<1>5. was.kind \in ReportKinds /\ Fits(was.kind, was.prop)
  BY <1>4 DEF ReportRowSound
<1>6. n \in ReportVerdicts(was)
  BY <1>3 DEF GiveVerdict
<1>7. Fits(was.kind, n)
  <2>1. n \in Int /\ n <= FullScore /\ was.prop \in Int /\ was.cur \in Int
    BY <1>5, ScoresFit DEF ReportScores, ReportsAssumption, RepRow
  <2>2. CASE was.kind = "penalty"
    BY <1>5, <1>6, <2>1, <2>2 DEF ReportVerdicts, StatusQuo, Fits
  <2>3. CASE was.kind # "penalty"
    BY <1>5, <1>6, <2>1, <2>3 DEF ReportVerdicts, StatusQuo, Fits, ReportsAssumption
  <2> QED
    BY <2>2, <2>3
<1>8. PICK x \in RepRow : x = [was EXCEPT !.verdict[s] = n]
  BY DEF RepRow
<1>9. /\ x.st = was.st /\ x.kind = was.kind /\ x.prop = was.prop /\ x.panel = was.panel
      /\ \A o \in ReportStaff : x.verdict[o] = IF o = s THEN n ELSE was.verdict[o]
  BY <1>8 DEF RepRow
<1>10. ReportRowSound(x)
  BY <1>4, <1>5, <1>7, <1>9 DEF ReportRowSound
<1>11. n # Unset /\ was.panel \subseteq ReportStaff
  BY <1>7, ScoresFit DEF RepRow
<1>12. PICK counted : counted = seen \cup {s}
  OBVIOUS
<1>13. counted \in SUBSET ReportStaff /\ \A o \in counted : x.verdict[o] # Unset
  BY <1>3, <1>9, <1>11, <1>12 DEF Given
<1> DEFINE y == ReportOutcome(x, counted)
<1>14. /\ y \in RepRow /\ ReportRowSound(y) /\ RowSettled(y)
       /\ y.kind = x.kind /\ y.kind \in ReportKinds /\ y.st # "final"
       /\ y.panel = x.panel /\ y.verdict = x.verdict
       /\ y.st = "applied" => Fits(y.kind, y.final)
  BY <1>4, <1>9, <1>10, <1>13, OutcomeSound
<1>15. /\ reports' = [reports EXCEPT ![r] = y]
       /\ itemScore' = IF y.st = "applied" THEN ReportApplied(itemScore, y.kind, y.final) ELSE itemScore
       /\ UNCHANGED <<appealing, scoreMoves>>
  BY <1>3, <1>8, <1>12 DEF GiveVerdict
<1> HIDE DEF y
<1>16. Given(reports[r]) \subseteq Given(y)
  BY <1>3, <1>9, <1>11, <1>14 DEF Given
<1> QED
  BY <1>3, <1>4, <1>9, <1>14, <1>15, <1>16 DEF VerdictOn

LEMMA VerdictKept ==
  ASSUME ReportSound, ReportsAssumption, NEW r \in ReportIds, NEW y \in RepRow, VerdictOn(r, y),
         reportTx' \in [ReportLinks -> {NoRequest} \cup LinkCall],
         \A t \in ReportLinks : reportTx'[t] = NoRequest \/ reportTx'[t] = reportTx[t]
  PROVE  ReportSound'
<1>1. ScoresTyped /\ appealing \in BOOLEAN /\ scoreMoves \in 0 .. MaxScoreMoves
  BY DEF ReportSound, ReportTypeOK, ScoresTyped
<1>2. ScoresTyped'
  BY <1>1, OutcomeApplied DEF ScoresTyped, VerdictOn
<1>3. appealing' \in BOOLEAN /\ scoreMoves' \in 0 .. MaxScoreMoves
  BY <1>1 DEF VerdictOn
<1> QED
  BY <1>2, <1>3, RewriteKept DEF VerdictOn

LEMMA DecideReportKept ==
  ASSUME ReportSound, ReportsAssumption, NEW s \in ReportStaff, NEW r \in ReportIds,
         NEW n \in ReportScores, DecideReport(s, r, n)
  PROVE  ReportSound'
<1>1. PICK y \in RepRow : VerdictOn(r, y)
  BY VerdictGiven DEF DecideReport
<1> QED
  BY <1>1, CallsAsTheyWere, VerdictKept DEF DecideReport

LEMMA LinkReadKept ==
  ASSUME ReportSound, NEW t \in ReportLinks, NEW s \in ReportStaff, NEW r \in ReportIds,
         LinkRead(t, s, r)
  PROVE  ReportSound'
<1>1. PICK was \in RepRow : was = reports[r]
  BY ReportRows DEF ReportSound
<1>2. was.kind \in ReportKinds /\ was.panel \subseteq ReportStaff
  BY <1>1 DEF LinkRead, MayDecide, ReportSound, ReportRowSound, RepRow
<1>3. PICK cur \in Int : cur = itemScore[was.kind]
  BY <1>2 DEF ReportSound, ReportTypeOK
<1>4. PICK seen \in SUBSET ReportStaff : seen = Given(was)
  BY <1>2 DEF Given
<1>5. PICK q \in LinkCall : q = [at |-> "read", by |-> s, report |-> r, seen |-> seen, score |-> cur]
  BY DEF LinkCall
<1>6. q.report = r /\ q.seen = Given(reports[r])
  BY <1>1, <1>4, <1>5
<1>7. reportTx' = [reportTx EXCEPT ![t] = q] /\ UNCHANGED <<itemScore, appealing, reports, scoreMoves>>
  BY <1>1, <1>3, <1>4, <1>5 DEF LinkRead
<1>8. reportTx \in [ReportLinks -> {NoRequest} \cup LinkCall]
  BY DEF ReportSound, LinksSound
<1>9. \A u \in ReportLinks : reportTx'[u] = IF u = t THEN q ELSE reportTx[u]
  BY <1>7, <1>8
<1>10. LinksSound'
  <2>1. reportTx' \in [ReportLinks -> {NoRequest} \cup LinkCall]
    BY <1>7, <1>8
  <2>2. ASSUME NEW u \in ReportLinks, reportTx'[u] # NoRequest
        PROVE  reportTx'[u].seen \subseteq Given(reports'[reportTx'[u].report])
    BY <1>6, <1>7, <1>9, <2>2 DEF ReportSound, LinksSound
  <2> QED
    BY <2>1, <2>2 DEF LinksSound
<1> QED
  BY <1>7, <1>10 DEF ReportSound, ReportTypeOK

\* A call of a link has ended: it has given its verdict, or nothing.
LEMMA LinkEnds ==
  ASSUME ReportSound, NEW t \in ReportLinks, NEW n \in ReportScores, LinkDecide(t, n)
  PROVE  /\ reportTx' \in [ReportLinks -> {NoRequest} \cup LinkCall]
         /\ \A u \in ReportLinks : reportTx'[u] = NoRequest \/ reportTx'[u] = reportTx[u]
         /\ \/ UNCHANGED <<itemScore, appealing, reports, scoreMoves>>
            \/ \E s \in ReportStaff, r \in ReportIds :
                 \E seen \in SUBSET Given(reports[r]) : GiveVerdict(s, r, n, seen)
<1>1. reportTx \in [ReportLinks -> {NoRequest} \cup LinkCall] /\ reportTx[t] # NoRequest
      /\ reportTx' = [reportTx EXCEPT ![t] = NoRequest]
  BY DEF ReportSound, LinksSound, LinkDecide
<1>2. PICK q \in LinkCall : q = reportTx[t]
  BY <1>1
<1>3. q.by \in ReportStaff /\ q.report \in ReportIds /\ q.seen \in SUBSET Given(reports[q.report])
  BY <1>1, <1>2 DEF LinkCall, ReportSound, LinksSound
<1>4. \/ UNCHANGED <<itemScore, appealing, reports, scoreMoves>>
      \/ GiveVerdict(q.by, q.report, n, q.seen)
  BY <1>2 DEF LinkDecide
<1> QED
  BY <1>1, <1>3, <1>4

LEMMA LinkDecideKept ==
  ASSUME ReportSound, ReportsAssumption, NEW t \in ReportLinks, NEW n \in ReportScores,
         LinkDecide(t, n)
  PROVE  ReportSound'
<1>1. /\ reportTx' \in [ReportLinks -> {NoRequest} \cup LinkCall]
      /\ \A u \in ReportLinks : reportTx'[u] = NoRequest \/ reportTx'[u] = reportTx[u]
  BY LinkEnds
<1>2. ASSUME UNCHANGED <<itemScore, appealing, reports, scoreMoves>> PROVE ReportSound'
  <2>1. VerdictsStay
    BY <1>2 DEF VerdictsStay
  <2>2. LinksSound'
    BY <1>1, <2>1, LinksKept
  <2> QED
    BY <1>2, <2>2 DEF ReportSound, ReportTypeOK
<1>3. ASSUME NEW s \in ReportStaff, NEW r \in ReportIds, NEW seen \in SUBSET Given(reports[r]),
             GiveVerdict(s, r, n, seen)
      PROVE  ReportSound'
  <2>1. PICK y \in RepRow : VerdictOn(r, y)
    BY <1>3, VerdictGiven
  <2> QED
    BY <1>1, <2>1, VerdictKept
<1> QED
  BY <1>2, <1>3, LinkEnds

LEMMA FinalizeReportKept ==
  ASSUME ReportSound, ReportsAssumption, NEW r \in ReportIds, NEW n \in ReportScores,
         FinalizeReport(r, n)
  PROVE  ReportSound'
<1>1. UNCHANGED <<appealing, reportTx, scoreMoves>> /\ ScoresTyped
      /\ appealing \in BOOLEAN /\ scoreMoves \in 0 .. MaxScoreMoves
  BY DEF FinalizeReport, ReportSound, ReportTypeOK, ScoresTyped
<1>2. PICK was \in RepRow : was = reports[r]
  BY ReportRows DEF ReportSound
<1>3. was.st = "escalated" /\ n \in ReportRulings(was) /\ ReportRowSound(was)
  BY <1>2 DEF FinalizeReport, ReportSound
<1>4. was.kind \in ReportKinds /\ was.cur \in Int
  BY <1>3 DEF ReportRowSound, RepRow
<1>5. Fits(was.kind, n)
  <2>1. n \in Int /\ n <= FullScore
    BY DEF ReportScores, ReportsAssumption
  <2> QED
    BY <1>3, <1>4, <2>1 DEF ReportRulings, Deductions, Fits, ReportsAssumption
<1>6. PICK x \in RepRow : x = [was EXCEPT !.st = "final", !.final = n]
  BY DEF RepRow, ReportEnded
<1>7. /\ x.st = "final" /\ x.kind = was.kind /\ x.prop = was.prop /\ x.panel = was.panel
      /\ x.verdict = was.verdict
  BY <1>6 DEF RepRow
<1>8. ReportRowSound(x) /\ RowSettled(x) /\ Given(reports[r]) \subseteq Given(x)
  BY <1>2, <1>3, <1>7 DEF ReportRowSound, RowSettled, Given
<1>9. reports' = [reports EXCEPT ![r] = x]
  <2>1. reports' = [reports EXCEPT ![r].st = "final", ![r].final = n]
    BY DEF FinalizeReport
  <2>2. reports \in [ReportIds -> RepRow]
    BY ReportRows DEF ReportSound
  <2> QED
    BY <1>2, <1>6, <2>1, <2>2 DEF RepRow
<1>10. ScoresTyped'
  <2>1. itemScore' = itemScore \/ itemScore' = ReportApplied(itemScore, was.kind, n)
    BY <1>2 DEF FinalizeReport
  <2> QED
    BY <1>1, <1>4, <1>5, <2>1, OutcomeApplied DEF ScoresTyped
<1>11. appealing' \in BOOLEAN /\ scoreMoves' \in 0 .. MaxScoreMoves
  BY <1>1
<1> QED
  BY <1>1, <1>8, <1>9, <1>10, <1>11, CallsAsTheyWere, RewriteKept

\* The other ways to change a score write one between nothing and the full score.
LEMMA ScoreMoved ==
  ASSUME ReportSound, ReportsAssumption, NEW n \in 0 .. FullScore,
         scoreMoves < MaxScoreMoves, scoreMoves' = scoreMoves + 1, appealing' = FALSE,
         itemScore' = [itemScore EXCEPT !["submission"] = n]
  PROVE  ScoresTyped' /\ appealing' \in BOOLEAN /\ scoreMoves' \in 0 .. MaxScoreMoves
<1>1. ScoresTyped /\ scoreMoves \in 0 .. MaxScoreMoves
  BY DEF ReportSound, ReportTypeOK, ScoresTyped
<1>2. n \in Int /\ FullScore \in Int
  BY DEF ReportsAssumption
<1>3. ScoresTyped'
  BY <1>1, <1>2 DEF ScoresTyped, ReportKinds
<1>4. scoreMoves' \in 0 .. MaxScoreMoves
  BY <1>1 DEF ReportsAssumption
<1>5. appealing' \in BOOLEAN
  OBVIOUS
<1> QED
  BY <1>3, <1>4, <1>5

LEMMA DecideAppealKept ==
  ASSUME ReportSound, ReportsAssumption, NEW n \in 0 .. FullScore, DecideAppeal(n)
  PROVE  ReportSound'
<1>1. ScoresTyped' /\ appealing' \in BOOLEAN /\ scoreMoves' \in 0 .. MaxScoreMoves
  BY ScoreMoved DEF DecideAppeal
<1>2. UNCHANGED <<reports, reportTx>>
  BY DEF DecideAppeal
<1> QED
  BY <1>1, <1>2 DEF ReportSound, ReportTypeOK, ScoresTyped, LinksSound

LEMMA ForceScoreKept ==
  ASSUME ReportSound, ReportsAssumption, NEW n \in 0 .. FullScore, ForceScore(n)
  PROVE  ReportSound'
<1>1. ScoresTyped' /\ appealing' \in BOOLEAN /\ scoreMoves' \in 0 .. MaxScoreMoves
  BY ScoreMoved DEF ForceScore
<1>2. n \in ReportScores
  BY DEF ReportScores, ReportsAssumption
<1>3. ASSUME NEW r \in ReportIds
      PROVE  /\ reports'[r] \in RepRow /\ ReportRowSound(reports'[r]) /\ RowSettled(reports'[r])
             /\ Given(reports[r]) \subseteq Given(reports'[r])
  <2>1. PICK was \in RepRow : was = reports[r]
    BY ReportRows DEF ReportSound
  <2>2. ReportRowSound(was) /\ RowSettled(was)
    BY <2>1 DEF ReportSound
  <2>3. CASE OpenReport(r) /\ was.kind = "submission"
    <3>1. PICK x \in RepRow : x = [was EXCEPT !.st = "final", !.final = n]
      BY <1>2 DEF RepRow, ReportEnded
    <3>2. /\ x.st = "final" /\ x.kind = was.kind /\ x.prop = was.prop /\ x.panel = was.panel
          /\ x.verdict = was.verdict
      BY <3>1 DEF RepRow
    <3>3. was.st # "none"
      BY <2>1, <2>3 DEF OpenReport
    <3>4. ReportRowSound(x) /\ RowSettled(x) /\ Given(was) \subseteq Given(x)
      BY <2>2, <3>2, <3>3 DEF ReportRowSound, RowSettled, Given
    <3> QED
      BY <2>1, <2>3, <3>1, <3>4 DEF ForceScore
  <2>4. CASE ~(OpenReport(r) /\ was.kind = "submission")
    BY <2>1, <2>2, <2>4 DEF ForceScore
  <2> QED
    BY <2>3, <2>4
<1>4. reports' \in [ReportIds -> RepRow] /\ VerdictsStay
  BY <1>3 DEF ForceScore, VerdictsStay
<1>5. LinksSound'
  BY <1>4, CallsAsTheyWere, LinksKept DEF ForceScore
<1> QED
  BY <1>1, <1>3, <1>4, <1>5 DEF ReportSound, ReportTypeOK, ScoresTyped, RepRow

-----------------------------------------------------------------------------
LEMMA ReportStepKept ==
  ASSUME ReportsAssumption, ReportSound, [ReportNext]_reportVars
  PROVE  ReportSound'
<1>1. CASE UNCHANGED reportVars
  BY <1>1 DEF reportVars, ReportSound, ReportTypeOK, LinksSound
<1>2. ASSUME NEW p \in Reporters, NEW k \in Reported, NEW n \in ReportScores, FileReport(p, k, n)
      PROVE  ReportSound'
  BY <1>2, FileReportKept
<1>3. ASSUME NEW s \in ReportStaff, NEW r \in ReportIds, NEW n \in ReportScores, DecideReport(s, r, n)
      PROVE  ReportSound'
  BY <1>3, DecideReportKept
<1>4. ASSUME NEW t \in ReportLinks, NEW s \in ReportStaff, NEW r \in ReportIds, LinkRead(t, s, r)
      PROVE  ReportSound'
  BY <1>4, LinkReadKept
<1>5. ASSUME NEW t \in ReportLinks, NEW n \in ReportScores, LinkDecide(t, n) PROVE ReportSound'
  BY <1>5, LinkDecideKept
<1>6. ASSUME NEW r \in ReportIds, NEW n \in ReportScores, FinalizeReport(r, n) PROVE ReportSound'
  BY <1>6, FinalizeReportKept
<1>7. CASE FileAppeal
  <2>1. appealing' \in BOOLEAN /\ UNCHANGED <<itemScore, reports, reportTx, scoreMoves>>
    BY <1>7 DEF FileAppeal
  <2> QED
    BY <2>1 DEF ReportSound, ReportTypeOK, LinksSound
<1>8. ASSUME NEW n \in 0 .. FullScore, DecideAppeal(n) PROVE ReportSound'
  BY <1>8, DecideAppealKept
<1>9. ASSUME NEW n \in 0 .. FullScore, ForceScore(n) PROVE ReportSound'
  BY <1>9, ForceScoreKept
<1> QED
  BY <1>1, <1>2, <1>3, <1>4, <1>5, <1>6, <1>7, <1>8, <1>9 DEF ReportNext

-----------------------------------------------------------------------------
(* Every report that was upheld counts once                                 *)

LEMMA DeductsInt == ASSUME ReportsAssumption, NEW x \in RepRow PROVE Deducts(x) \in Int
<1>1. x.final \in Int
  BY DEF RepRow, ReportScores, Unset, ReportsAssumption
<1> QED
  BY <1>1 DEF Deducts

LEMMA ReportsFinite == ReportsAssumption => IsFiniteSet(ReportIds)
BY FS_Interval DEF ReportIds, ReportsAssumption

\* One report is rewritten, and the score moves by what the report deducts more.
LEMMA DeductionsMoved ==
  ASSUME ReportSound, ReportsAssumption, DeductionsAddUp, NEW r \in ReportIds, NEW x \in RepRow,
         reports' = [reports EXCEPT ![r] = x],
         itemScore'["penalty"] = itemScore["penalty"] + (Deducts(x) - Deducts(reports[r]))
  PROVE  DeductionsAddUp'
<1>1. reports \in [ReportIds -> RepRow]
  BY ReportRows DEF ReportSound
<1>2. PICK f : f = [o \in ReportIds |-> Deducts(reports[o])]
  OBVIOUS
<1>3. PICK g : g = [o \in ReportIds |-> Deducts(reports'[o])]
  OBVIOUS
<1>4. (\A o \in ReportIds : f[o] \in Int) /\ (\A o \in ReportIds : g[o] \in Int)
      /\ \A o \in ReportIds \ {r} : g[o] = f[o]
  BY <1>1, <1>2, <1>3, DeductsInt
<1>5. g[r] = Deducts(x) /\ f[r] = Deducts(reports[r])
  BY <1>1, <1>2, <1>3
<1>6. SumOver(g, ReportIds) = SumOver(f, ReportIds) + g[r] - f[r]
  <2>1. IsFiniteSet(ReportIds)
    BY ReportsFinite
  <2> HIDE <1>2, <1>3
  <2> QED
    BY <1>4, <2>1, SumMoved
<1>7. itemScore["penalty"] = SumOver(f, ReportIds)
  BY <1>2 DEF DeductionsAddUp
<1>8. SumOver(f, ReportIds) \in Int
  BY <1>4, ReportsFinite, SumType
<1>9. Deducts(x) \in Int /\ Deducts(reports[r]) \in Int
  BY <1>4, <1>5
<1>10. itemScore'["penalty"] = SumOver(g, ReportIds)
  BY <1>5, <1>6, <1>7, <1>8, <1>9
<1> QED
  BY <1>3, <1>10 DEF DeductionsAddUp

\* Nothing that deducts changes.
LEMMA DeductionsStay ==
  ASSUME ReportSound, ReportsAssumption, DeductionsAddUp, itemScore'["penalty"] = itemScore["penalty"],
         \A o \in ReportIds : Deducts(reports'[o]) = Deducts(reports[o])
  PROVE  DeductionsAddUp'
<1>1. [o \in ReportIds |-> Deducts(reports'[o])] = [o \in ReportIds |-> Deducts(reports[o])]
  OBVIOUS
<1> QED
  BY <1>1 DEF DeductionsAddUp

LEMMA DeductionsStart == ASSUME ReportsAssumption, ReportInit PROVE DeductionsAddUp
<1> DEFINE f == [o \in ReportIds |-> Deducts(reports[o])]
           C == {A \in SUBSET ReportIds : SumOver(f, A) = 0}
<1>1. \A o \in ReportIds : f[o] = 0
  BY DEF ReportInit, NoReport, Deducts
<1>2. {} \in C
  BY SumEmpty
<1>3. ASSUME NEW A \in SUBSET ReportIds, NEW x \in ReportIds \ A, A \in C PROVE A \cup {x} \in C
  <2>1. IsFiniteSet(A) /\ \A y \in A : f[y] \in Int
    BY <1>1, ReportsFinite, FS_Subset
  <2>2. SumOver(f, A \cup {x}) = f[x] + SumOver(f, A)
    BY <1>1, <2>1, SumAdd
  <2> QED
    BY <1>1, <1>3, <2>2
<1> HIDE DEF C, f
<1>4. SUBSET ReportIds \subseteq C
  BY <1>2, <1>3, ReportsFinite, Grown
<1>5. itemScore["penalty"] = 0
  BY DEF ReportInit, ReportKinds
<1> QED
  BY <1>4, <1>5 DEF DeductionsAddUp, C, f

LEMMA FileReportDeducts ==
  ASSUME ReportSound, ReportsAssumption, DeductionsAddUp, NEW p \in Reporters, NEW k \in Reported,
         NEW n \in ReportScores, FileReport(p, k, n)
  PROVE  DeductionsAddUp'
<1>1. reports \in [ReportIds -> RepRow]
  BY ReportRows DEF ReportSound
<1>2. itemScore' = itemScore
  BY DEF FileReport
<1>3. PICK q \in Panelists(p), r \in ReportIds :
        /\ reports[r] = NoReport
        /\ reports' = [reports EXCEPT ![r] =
             [NoReport EXCEPT !.st = "reviewing", !.kind = k, !.by = p,
                              !.panel = q, !.cur = itemScore[k], !.prop = n]]
  BY DEF FileReport
<1>4. Deducts(reports[r]) = 0
  BY <1>3 DEF NoReport, Deducts
<1>5. reports'[r].st = "reviewing"
  BY <1>1, <1>3 DEF NoReport
<1>6. \A o \in ReportIds : o # r => reports'[o] = reports[o]
  BY <1>1, <1>3
<1>7. \A o \in ReportIds : Deducts(reports'[o]) = Deducts(reports[o])
  BY <1>4, <1>5, <1>6 DEF Deducts
<1> QED
  BY <1>2, <1>7, DeductionsStay

LEMMA VerdictDeducts ==
  ASSUME ReportSound, ReportsAssumption, DeductionsAddUp, NEW r \in ReportIds, NEW y \in RepRow,
         VerdictOn(r, y)
  PROVE  DeductionsAddUp'
<1>1. Deducts(reports[r]) = 0
  BY DEF VerdictOn, Deducts
<1>2. itemScore \in [ReportKinds -> Int] /\ "penalty" \in ReportKinds
  BY DEF ReportSound, ReportTypeOK, ReportKinds
<1>3. itemScore'["penalty"] = itemScore["penalty"] + Deducts(y)
  <2>1. CASE y.st = "applied" /\ y.kind = "penalty"
    <3>1. y.final \in Int
      BY <2>1, ScoresFit DEF VerdictOn
    <3> QED
      BY <1>2, <2>1, <3>1 DEF VerdictOn, Deducts, ReportApplied
  <2>2. CASE ~(y.st = "applied" /\ y.kind = "penalty")
    <3>1. Deducts(y) = 0
      BY <2>2 DEF VerdictOn, Deducts
    <3>2. itemScore'["penalty"] = itemScore["penalty"]
      BY <1>2, <2>2 DEF VerdictOn, ReportApplied
    <3> QED
      BY <1>2, <3>1, <3>2
  <2> QED
    BY <2>1, <2>2
<1>4. Deducts(y) \in Int /\ reports' = [reports EXCEPT ![r] = y]
  BY DeductsInt DEF VerdictOn
<1>5. itemScore'["penalty"] = itemScore["penalty"] + (Deducts(y) - Deducts(reports[r]))
  BY <1>1, <1>3, <1>4
<1> QED
  BY <1>4, <1>5, DeductionsMoved

LEMMA GiveVerdictDeducts ==
  ASSUME ReportSound, ReportsAssumption, DeductionsAddUp, NEW s \in ReportStaff, NEW r \in ReportIds,
         NEW n \in ReportScores, NEW seen, seen \subseteq Given(reports[r]),
         GiveVerdict(s, r, n, seen)
  PROVE  DeductionsAddUp'
<1>1. PICK y \in RepRow : VerdictOn(r, y)
  BY VerdictGiven
<1> QED
  BY <1>1, VerdictDeducts

LEMMA FinalizeReportDeducts ==
  ASSUME ReportSound, ReportsAssumption, DeductionsAddUp, NEW r \in ReportIds, NEW n \in ReportScores,
         FinalizeReport(r, n)
  PROVE  DeductionsAddUp'
<1>1. PICK was \in RepRow : was = reports[r]
  BY ReportRows DEF ReportSound
<1>2. was.st = "escalated"
  BY <1>1 DEF FinalizeReport
<1>3. PICK x \in RepRow : x = [was EXCEPT !.st = "final", !.final = n]
  BY DEF RepRow, ReportEnded
<1>4. x.st = "final" /\ x.kind = was.kind /\ x.final = n
  BY <1>3 DEF RepRow
<1>5. reports' = [reports EXCEPT ![r] = x]
  <2>1. reports' = [reports EXCEPT ![r].st = "final", ![r].final = n]
    BY DEF FinalizeReport
  <2>2. reports \in [ReportIds -> RepRow]
    BY ReportRows DEF ReportSound
  <2> QED
    BY <1>1, <1>3, <2>1, <2>2 DEF RepRow
<1>6. Deducts(reports[r]) = 0 /\ Deducts(x) = (IF was.kind = "penalty" THEN n ELSE 0)
  BY <1>1, <1>2, <1>4 DEF Deducts
<1>7. itemScore \in [ReportKinds -> Int] /\ "penalty" \in ReportKinds /\ n \in Int
  BY DEF ReportSound, ReportTypeOK, ReportKinds, ReportScores, ReportsAssumption
<1>8. itemScore' = IF n = StatusQuo(was) THEN itemScore ELSE ReportApplied(itemScore, was.kind, n)
  BY <1>1 DEF FinalizeReport
<1>9. itemScore'["penalty"] = itemScore["penalty"] + Deducts(x)
  <2>1. CASE was.kind = "penalty"
    BY <1>6, <1>7, <1>8, <2>1 DEF StatusQuo, ReportApplied
  <2>2. CASE was.kind # "penalty"
    BY <1>6, <1>7, <1>8, <2>2 DEF ReportApplied
  <2> QED
    BY <2>1, <2>2
<1>10. itemScore'["penalty"] = itemScore["penalty"] + (Deducts(x) - Deducts(reports[r]))
  BY <1>6, <1>7, <1>9
<1> QED
  BY <1>5, <1>10, DeductionsMoved

LEMMA SubmissionDeducts ==
  ASSUME ReportSound, ReportsAssumption, DeductionsAddUp, NEW n \in 0 .. FullScore,
         DecideAppeal(n) \/ ForceScore(n)
  PROVE  DeductionsAddUp'
<1>1. itemScore' = [itemScore EXCEPT !["submission"] = n]
  BY DEF DecideAppeal, ForceScore
<1>2. itemScore'["penalty"] = itemScore["penalty"]
  BY <1>1 DEF ReportSound, ReportTypeOK, ReportKinds
<1>3. ASSUME NEW o \in ReportIds PROVE Deducts(reports'[o]) = Deducts(reports[o])
  <2>1. PICK was \in RepRow : was = reports[o]
    BY ReportRows DEF ReportSound
  <2>2. \/ reports'[o] = was
        \/ was.kind = "submission" /\ reports'[o] = [was EXCEPT !.st = "final", !.final = n]
    BY <2>1 DEF DecideAppeal, ForceScore
  <2>3. [was EXCEPT !.st = "final", !.final = n].kind = was.kind
    BY DEF RepRow
  <2> QED
    BY <2>1, <2>2, <2>3 DEF Deducts
<1> QED
  BY <1>2, <1>3, DeductionsStay

LEMMA DeductionsKept ==
  ASSUME ReportsAssumption, ReportSound, DeductionsAddUp, [ReportNext]_reportVars
  PROVE  DeductionsAddUp'
<1>1. ASSUME UNCHANGED <<itemScore, reports>> PROVE DeductionsAddUp'
  BY <1>1, DeductionsStay
<1>2. CASE UNCHANGED reportVars
  BY <1>1, <1>2 DEF reportVars
<1>3. ASSUME NEW p \in Reporters, NEW k \in Reported, NEW n \in ReportScores, FileReport(p, k, n)
      PROVE  DeductionsAddUp'
  BY <1>3, FileReportDeducts
<1>4. ASSUME NEW s \in ReportStaff, NEW r \in ReportIds, NEW n \in ReportScores, DecideReport(s, r, n)
      PROVE  DeductionsAddUp'
  BY <1>4, GiveVerdictDeducts DEF DecideReport
<1>5. ASSUME NEW t \in ReportLinks, NEW s \in ReportStaff, NEW r \in ReportIds, LinkRead(t, s, r)
      PROVE  DeductionsAddUp'
  BY <1>1, <1>5 DEF LinkRead
<1>6. ASSUME NEW t \in ReportLinks, NEW n \in ReportScores, LinkDecide(t, n) PROVE DeductionsAddUp'
  <2>1. ASSUME NEW s \in ReportStaff, NEW r \in ReportIds, NEW seen \in SUBSET Given(reports[r]),
               GiveVerdict(s, r, n, seen)
        PROVE  DeductionsAddUp'
    BY <2>1, GiveVerdictDeducts
  <2> QED
    BY <1>1, <1>6, <2>1, LinkEnds
<1>7. ASSUME NEW r \in ReportIds, NEW n \in ReportScores, FinalizeReport(r, n) PROVE DeductionsAddUp'
  BY <1>7, FinalizeReportDeducts
<1>8. CASE FileAppeal
  BY <1>1, <1>8 DEF FileAppeal
<1>9. ASSUME NEW n \in 0 .. FullScore, DecideAppeal(n) \/ ForceScore(n) PROVE DeductionsAddUp'
  BY <1>9, SubmissionDeducts
<1> QED
  BY <1>2, <1>3, <1>4, <1>5, <1>6, <1>7, <1>8, <1>9 DEF ReportNext

\* settleReport and applyReportOutcome (report_review_handlers.go): for every number of reviewers,
\* reports and tool links, a report settled without an administrator is settled by the same verdict
\* of both its reviewers, though a link counts the verdicts of a snapshot that may be old; and the
\* deductions of an item are the sum of all the reports that were upheld.
THEOREM ReportsCountOnce == ReportSpec => []ReportInv
<1>1. ReportInit => ReportSound /\ DeductionsAddUp
  BY ReportsAssumption, ReportStarts, DeductionsStart
<1>2. ReportSound /\ DeductionsAddUp /\ [ReportNext]_reportVars => (ReportSound /\ DeductionsAddUp)'
  BY ReportsAssumption, ReportStepKept, DeductionsKept
<1>3. ReportSound /\ DeductionsAddUp => ReportInv
  BY DEF ReportSound, SettledByBoth, RowSettled, ReportInv
<1> QED
  BY <1>1, <1>2, <1>3, PTL DEF ReportSpec
=============================================================================
