--------------------------- MODULE OneToOneProofs ---------------------------
(* What sending one message to one person keeps for any number of requests,  *)
(* rows, versions of the message and days, in both paths, however autosaves,  *)
(* discards, retries, deaths and reports of the provider interleave.          *)
EXTENDS OneToOneSend, TLAPS

\* Of the rows that exist one at most has the client key, only it is claimed, and all
\* have a content.
OneKeyedRow ==
  /\ \A i, j \in Keyed : i = j
  /\ \A i \in Rows : rows[i].status \in Claimed => rows[i].keyed
  /\ \A i \in Rows : Exists(i) => rows[i].content \in Contents

\* A request's row is the keyed one, unless somebody has discarded it; once claimed
\* it cannot be discarded.  Only past the call does a request hold an answer.
HoldsTheRow(q) ==
  /\ q.pc \in Working => q.content \in Contents
  /\ q.pc \in {"read", "claim", "call", "record"} => q.row \in Rows
  /\ q.pc = "check" => (q.row \in Rows <=> kind = "reply")
  /\ q.pc = "read" => kind = "reply"
  /\ q.answer # None =>
       /\ q.pc = "record"
       /\ q.answer \in mails /\ q.answer.key = ProviderKey(q.row) /\ q.answer.day = day
  /\ q.row \in Rows =>
       /\ rows[q.row].status = "gone" \/ q.row \in Keyed
       /\ q.pc \in {"call", "record"} => rows[q.row].status \in Claimed

\* A mail went out for a claimed row under that row's key, one on each day at most;
\* a row that names a mail names one of its own, and is claimed.
MailsAreOfTheRow ==
  /\ \A m \in mails : /\ rows[m.row].status \in Claimed
                      /\ m.key = ProviderKey(m.row)
                      /\ m.day <= day
  /\ \A m, n \in mails : m.day = n.day => m = n
  /\ \A i \in Rows : rows[i].mail # None =>
       /\ rows[i].status \in Claimed
       /\ rows[i].mail \in mails /\ rows[i].mail.key = ProviderKey(i)
  /\ \A i \in Rows : rows[i].status = "sent" => rows[i].mail # None

\* From where on a late request has been found to have no barred addressee.
Cleared == IF kind = "compose" THEN {"adopt", "save", "claim", "call"} ELSE {"claim", "call"}

ClearedIfLate(q) ==
  q.pc \in Working /\ q.late =>
    /\ barred
    /\ q.pc \in Cleared => q.content \notin Barrable

RequestsAreRight == \A r \in Requests : HoldsTheRow(request[r]) /\ ClearedIfLate(request[r])

Doubt == \E r \in Requests : request[r].pc \in {"failed", "lost"}

OnRecord(m) == \E i \in Rows : rows[i].status = "sent" /\ rows[i].mail = m

\* Without a doubt, a mail that has not been reported as failed is on its way into its
\* row or recorded there; and while one of an earlier day is, nobody is about to send.
NoDoubtNoSecondMail ==
  ~Doubt =>
    /\ \A m \in mails \ reported :
         /\ m.day = day => OnRecord(m) \/ \E r \in Requests : request[r].pc = "record"
         /\ m.day # day =>
              /\ OnRecord(m)
              /\ \A r \in Requests : request[r].pc \notin {"call", "record"}
    /\ \A m, n \in mails : m.day < n.day => m \in reported

IInv ==
  /\ TypeOK
  /\ OneKeyedRow
  /\ RequestsAreRight
  /\ MailsAreOfTheRow
  /\ LateMailIsNotBarred
  /\ NoDoubtNoSecondMail

-----------------------------------------------------------------------------
(* What a step may do to the rows *)

\* A claimed row stays claimed, a keyed one keyed until it is gone, a gone one gone.
RowsMove ==
  /\ \A i \in Rows : rows[i].status \in Claimed => rows'[i].status \in Claimed
  /\ \A i \in Keyed : rows'[i].status = "gone" \/ i \in Keyed'
  /\ \A i \in Rows : rows[i].status = "gone" => rows'[i].status = "gone"

\* What the statements about drafts keep: besides, they claim nothing and leave
\* status, key and mail of a claimed row alone.
DraftsMove ==
  /\ rows' \in [Rows -> RowRecords]
  /\ RowsMove
  /\ OneKeyedRow'
  /\ \A i \in Rows : rows[i].status \in Claimed =>
       rows'[i].status = rows[i].status /\ rows'[i].mail = rows[i].mail
  /\ \A i \in Rows : rows'[i].status \in Claimed => rows[i].status \in Claimed
  /\ \A i \in Rows : rows'[i].mail # None => rows'[i].mail = rows[i].mail

LEMMA DraftType ==
  /\ \A keyed \in BOOLEAN, c \in Contents :
       /\ Draft(keyed, c) \in RowRecords
       /\ Draft(keyed, c).status = "draft" /\ Draft(keyed, c).keyed = keyed
       /\ Draft(keyed, c).content = c /\ Draft(keyed, c).mail = None
  /\ NoRow("gone") \in RowRecords /\ NoRow("unused") \in RowRecords
  /\ NoRow("gone").status = "gone" /\ NoRow("unused").status = "unused"
  /\ NoRow("gone").mail = None /\ NoRow("unused").mail = None
  BY DEF Draft, NoRow, RowRecords, Live, Claimed

LEMMA AdoptMoves ==
  ASSUME IInv, NEW i \in Rows, AdoptDraft(i) PROVE DraftsMove
<1> USE DEF IInv, TypeOK
<1>1. CASE rows[i].status = "draft" /\ Keyed = {}
  <2>1. rows' = [rows EXCEPT ![i].keyed = TRUE]
    BY <1>1 DEF AdoptDraft
  <2>2. rows' \in [Rows -> RowRecords]
    BY <2>1 DEF RowRecords
  <2>3. \A j \in Rows : /\ rows'[j].status = rows[j].status /\ rows'[j].mail = rows[j].mail
                        /\ rows'[j].content = rows[j].content
    BY <2>1 DEF RowRecords
  <2>4. \A j \in Rows : rows'[j].keyed = IF j = i THEN TRUE ELSE rows[j].keyed
    BY <2>1 DEF RowRecords
  <2>5. Keyed' \subseteq {i}
    BY <1>1, <2>3, <2>4 DEF Keyed, Exists
  <2> QED
    BY <1>1, <2>2, <2>3, <2>4, <2>5 DEF DraftsMove, RowsMove, OneKeyedRow, Exists
<1>2. CASE ~(rows[i].status = "draft" /\ Keyed = {})
  <2>1. rows' = rows
    BY <1>2 DEF AdoptDraft
  <2> QED
    BY <2>1 DEF DraftsMove, RowsMove, OneKeyedRow, Keyed, Exists
<1> QED
  BY <1>1, <1>2

\* A row of its own, or a keyed row where there is none.
LEMMA InsertMoves ==
  ASSUME IInv, NEW i \in Rows, NEW c \in Contents, NEW keyed \in BOOLEAN,
         rows[i].status = "unused", keyed => Keyed = {},
         rows' = [rows EXCEPT ![i] = Draft(keyed, c)]
  PROVE  DraftsMove
<1> USE DEF IInv, TypeOK
<1>1. rows' \in [Rows -> RowRecords]
  BY DraftType
<1>2. /\ rows'[i].status = "draft" /\ rows'[i].keyed = keyed /\ rows'[i].content = c
      /\ rows'[i].mail = None
  BY DraftType
<1>3. \A j \in Rows \ {i} : rows'[j] = rows[j]
  OBVIOUS
<1>4. Keyed' = IF keyed THEN {i} ELSE Keyed
  BY <1>2, <1>3 DEF Keyed, Exists, Live, Claimed
<1>5. "unused" \notin Live /\ "draft" \notin Claimed /\ "gone" # "unused"
      /\ Claimed \subseteq Live
  BY DEF Live, Claimed
<1> QED
  BY <1>1, <1>2, <1>3, <1>4, <1>5 DEF DraftsMove, RowsMove, OneKeyedRow, Keyed, Exists

LEMMA ContentMoves ==
  ASSUME IInv, NEW i \in Rows, NEW c \in Contents, rows' = [rows EXCEPT ![i].content = c]
  PROVE  DraftsMove
<1> USE DEF IInv, TypeOK
<1>1. rows' \in [Rows -> RowRecords]
  BY DEF RowRecords
<1>2. \A j \in Rows : /\ rows'[j].status = rows[j].status /\ rows'[j].mail = rows[j].mail
                      /\ rows'[j].keyed = rows[j].keyed
                      /\ rows'[j].content \in {c, rows[j].content}
  BY DEF RowRecords
<1> QED
  BY <1>1, <1>2 DEF DraftsMove, RowsMove, OneKeyedRow, Keyed, Exists

LEMMA UpsertMoves ==
  ASSUME IInv, NEW i \in Rows, NEW c \in Contents, UpsertKeyed(i, c)
  PROVE  DraftsMove /\ i \in Keyed'
<1>1. CASE Keyed = {} /\ rows[i].status = "unused" /\ rows' = [rows EXCEPT ![i] = Draft(TRUE, c)]
  <2>1. DraftsMove
    BY <1>1, InsertMoves
  <2>2. rows'[i].status = "draft" /\ rows'[i].keyed
    BY <1>1, DraftType DEF IInv, TypeOK
  <2> QED
    BY <2>1, <2>2 DEF Keyed, Exists, Live
<1>2. CASE i \in Keyed /\ rows' = rows
  BY <1>2 DEF DraftsMove, RowsMove, OneKeyedRow, Keyed, Exists, IInv, TypeOK
<1>3. CASE i \in Keyed /\ rows' = [rows EXCEPT ![i].content = c]
  <2>1. DraftsMove
    BY <1>3, ContentMoves
  <2>2. rows'[i].status = rows[i].status /\ rows'[i].keyed = rows[i].keyed
    BY <1>3 DEF IInv, TypeOK, RowRecords
  <2> QED
    BY <1>3, <2>1, <2>2 DEF Keyed, Exists
<1> QED
  BY <1>1, <1>2, <1>3 DEF UpsertKeyed

LEMMA DiscardMoves ==
  ASSUME IInv, NEW i \in Rows, DiscardDraft(i) PROVE DraftsMove
<1> USE DEF IInv, TypeOK
<1>1. rows[i].status = "draft" /\ rows' = [rows EXCEPT ![i] = NoRow("gone")]
  BY DEF DiscardDraft
<1>2. rows' \in [Rows -> RowRecords] /\ rows'[i].status = "gone" /\ rows'[i].mail = None
  BY <1>1, DraftType
<1>3. \A j \in Rows \ {i} : rows'[j] = rows[j]
  BY <1>1
<1>4. {"draft", "gone"} \cap Claimed = {} /\ "gone" \notin Live
  BY DEF Claimed, Live
<1>5. Keyed' = Keyed \ {i}
  BY <1>2, <1>3, <1>4 DEF Keyed, Exists
<1> QED
  BY <1>1, <1>2, <1>3, <1>4, <1>5 DEF DraftsMove, RowsMove, OneKeyedRow, Exists

-----------------------------------------------------------------------------
(* What a step may do to the requests *)

LEMMA AtType ==
  ASSUME NEW pc \in {"idle"} \cup Finished
  PROVE  /\ At(pc) \in RequestRecords
         /\ At(pc).pc = pc /\ At(pc).row = None /\ At(pc).answer = None
         /\ pc \notin Working
  BY DEF At, RequestRecords, Finished, Working

\* One that has ended holds nothing that could be wrong.
LEMMA EndedIsRight ==
  ASSUME NEW pc \in {"idle"} \cup Finished
  PROVE  HoldsTheRow(At(pc)) /\ ClearedIfLate(At(pc))
  BY AtType, OneToOneAssumption DEF HoldsTheRow, ClearedIfLate, Working

\* The other requests stay right whatever one of them does.
LEMMA RequestsKept ==
  ASSUME IInv, UNCHANGED <<kind, day>>, mails \subseteq mails', barred => barred', RowsMove,
         NEW r \in Requests, NEW q \in RequestRecords,
         request' = [request EXCEPT ![r] = q], HoldsTheRow(q)', ClearedIfLate(q)'
  PROVE  request' \in [Requests -> RequestRecords] /\ RequestsAreRight'
<1>1. request' \in [Requests -> RequestRecords]
  BY DEF IInv, TypeOK
<1>2. ASSUME NEW x \in Requests, x # r PROVE (HoldsTheRow(request[x]) /\ ClearedIfLate(request[x]))'
  <2>1. request'[x] = request[x] /\ request[x] \in RequestRecords
    BY <1>2 DEF IInv, TypeOK
  <2>2. PICK y : y = request[x]
    OBVIOUS
  <2>3. HoldsTheRow(y) /\ ClearedIfLate(y)
    BY <2>2 DEF IInv, RequestsAreRight
  <2>4. HoldsTheRow(y)'
    BY <2>3 DEF HoldsTheRow, RowsMove, ProviderKey
  <2>5. ClearedIfLate(y)'
    BY <2>3 DEF ClearedIfLate, Cleared
  <2> QED
    BY <2>1, <2>2, <2>4, <2>5
<1>3. (HoldsTheRow(request[r]) /\ ClearedIfLate(request[r]))'
  <2>1. request'[r] = q
    BY DEF IInv, TypeOK
  <2> QED
    BY <2>1
<1> QED
  BY <1>1, <1>2, <1>3 DEF RequestsAreRight

\* Nothing new is doubted, mailed or about to be.
LEMMA NoDoubtKept ==
  ASSUME IInv, UNCHANGED <<mails, day, reported>>, \A m \in mails : OnRecord(m) => OnRecord(m)',
         NEW r \in Requests, NEW q, request' = [request EXCEPT ![r] = q],
         request[r].pc \notin {"failed", "lost", "record"},
         q.pc \in {"call", "record"} => request[r].pc = "call"
  PROVE  NoDoubtNoSecondMail'
<1>1. \A x \in Requests : request'[x] = IF x = r THEN q ELSE request[x]
  BY DEF IInv, TypeOK
<1>2. ~Doubt' => ~Doubt
  BY <1>1 DEF Doubt
<1>3. (\E x \in Requests : request[x].pc = "record") => \E x \in Requests : request'[x].pc = "record"
  BY <1>1
<1>4. (\A x \in Requests : request[x].pc \notin {"call", "record"})
        => \A x \in Requests : request'[x].pc \notin {"call", "record"}
  BY <1>1
<1> QED
  BY <1>2, <1>3, <1>4 DEF IInv, NoDoubtNoSecondMail

\* A step about drafts keeps what is said of the mails.
LEMMA DraftsKeepMails ==
  ASSUME IInv, DraftsMove, UNCHANGED <<kind, mails, day>>
  PROVE  MailsAreOfTheRow' /\ \A m \in mails : OnRecord(m) => OnRecord(m)'
<1>1. \A i \in Rows : rows'[i].status = "sent" <=> rows[i].status = "sent"
  BY DEF DraftsMove, Claimed
<1>2. \A m \in mails : m.row \in Rows
  BY DEF IInv, TypeOK, MailRecords
<1>3. \A i \in Rows : rows[i].status = "sent" => rows'[i].mail = rows[i].mail
  BY DEF DraftsMove, Claimed
<1>4. \A m \in mails : rows'[m.row].status \in Claimed
  BY <1>2 DEF DraftsMove, RowsMove, IInv, MailsAreOfTheRow
<1> QED
  <2>1. \A i \in Rows : rows'[i].mail # None =>
          rows[i].mail = rows'[i].mail /\ rows'[i].status = rows[i].status
    BY DEF DraftsMove, IInv, MailsAreOfTheRow
  <2>2. \A i \in Rows : rows'[i].status = "sent" => rows'[i].mail # None
    BY <1>1, <1>3 DEF IInv, MailsAreOfTheRow
  <2>3. MailsAreOfTheRow'
    BY <1>4, <2>1, <2>2 DEF IInv, MailsAreOfTheRow, ProviderKey
  <2>4. \A m \in mails : OnRecord(m) => OnRecord(m)'
    BY <1>1, <1>3 DEF OnRecord
  <2> QED
    BY <2>3, <2>4

\* A draft step that is no request's.
LEMMA DraftStepKeeps ==
  ASSUME IInv, NEW i \in Rows, DraftStep(i) PROVE IInv'
<1>1. UNCHANGED <<kind, request, mails, barred, day, reported>>
  BY DEF DraftStep, SaveUnkeyed, AutosaveUpserts, AutosaveAdopts, DiscardDraft
<1>2. DraftsMove
  <2>1. ASSUME NEW c \in Contents, SaveUnkeyed(i, c) PROVE DraftsMove
    BY <2>1, InsertMoves, ContentMoves DEF SaveUnkeyed
  <2>2. ASSUME NEW c \in Contents, AutosaveUpserts(i, c) PROVE DraftsMove
    BY <2>2, UpsertMoves DEF AutosaveUpserts
  <2>3. CASE AutosaveAdopts(i)
    BY <2>3, AdoptMoves DEF AutosaveAdopts
  <2>4. CASE DiscardDraft(i)
    BY <2>4, DiscardMoves
  <2> QED
    BY <2>1, <2>2, <2>3, <2>4 DEF DraftStep
<1>3. MailsAreOfTheRow' /\ \A m \in mails : OnRecord(m) => OnRecord(m)'
  BY <1>1, <1>2, DraftsKeepMails
<1>4. RequestsAreRight'
  <2>1. ASSUME NEW x \in Requests PROVE (HoldsTheRow(request[x]) /\ ClearedIfLate(request[x]))'
    <3>1. PICK y : y = request[x]
      OBVIOUS
    <3>2. HoldsTheRow(y) /\ ClearedIfLate(y)
      BY <3>1 DEF IInv, RequestsAreRight
    <3>3. HoldsTheRow(y)' /\ ClearedIfLate(y)'
      BY <1>1, <1>2, <3>2 DEF HoldsTheRow, ClearedIfLate, Cleared, DraftsMove, RowsMove, ProviderKey
    <3> QED
      BY <1>1, <3>1, <3>3
  <2> QED
    BY <1>1, <2>1 DEF RequestsAreRight
<1>5. NoDoubtNoSecondMail'
  BY <1>1, <1>3 DEF IInv, NoDoubtNoSecondMail, Doubt
<1> QED
  BY <1>1, <1>2, <1>3, <1>4, <1>5 DEF IInv, TypeOK, LateMailIsNotBarred, DraftsMove

-----------------------------------------------------------------------------
(* The steps of a request *)

LEMMA RowsStay == IInv /\ UNCHANGED <<kind, rows>> => DraftsMove
  BY DEF IInv, TypeOK, DraftsMove, RowsMove, OneKeyedRow, Keyed, Exists

\* A step of a request that writes no more than drafts.
LEMMA QuietStep ==
  ASSUME IInv, UNCHANGED <<kind, mails, barred, day, reported>>, DraftsMove,
         NEW r \in Requests, NEW q \in RequestRecords,
         request' = [request EXCEPT ![r] = q], HoldsTheRow(q)', ClearedIfLate(q)',
         request[r].pc \notin {"failed", "lost", "record"},
         q.pc \in {"call", "record"} => request[r].pc = "call"
  PROVE  IInv'
<1>1. RowsMove /\ OneKeyedRow' /\ rows' \in [Rows -> RowRecords]
  BY DEF DraftsMove
<1>2. request' \in [Requests -> RequestRecords] /\ RequestsAreRight'
  BY <1>1, RequestsKept
<1>3. MailsAreOfTheRow' /\ \A m \in mails : OnRecord(m) => OnRecord(m)'
  BY DraftsKeepMails
<1>4. NoDoubtNoSecondMail'
  BY <1>3, NoDoubtKept
<1> QED
  BY <1>1, <1>2, <1>3, <1>4 DEF IInv, TypeOK, LateMailIsNotBarred

\* What is known of a request that is under way.
LEMMA Underway ==
  ASSUME IInv, NEW r \in Requests
  PROVE  /\ request[r] \in RequestRecords
         /\ HoldsTheRow(request[r]) /\ ClearedIfLate(request[r])
         /\ kind \in {"compose", "reply"}
  BY DEF IInv, TypeOK, RequestsAreRight

LEMMA EndsQuietly ==
  ASSUME IInv, UNCHANGED <<kind, rows, mails, barred, day, reported>>,
         NEW r \in Requests, NEW pc \in Finished, Ends(r, pc),
         request[r].pc \notin {"failed", "lost", "record"}
  PROVE  IInv'
<1>1. PICK q : q = At(pc)
  OBVIOUS
<1>2. q \in RequestRecords /\ q.pc = pc /\ q.row = None /\ q.answer = None /\ q.pc \notin Working
  BY <1>1, AtType
<1>3. HoldsTheRow(q)' /\ ClearedIfLate(q)'
  BY <1>2, OneToOneAssumption DEF HoldsTheRow, ClearedIfLate, Working
<1>4. q.pc \notin {"call", "record"}
  BY <1>2 DEF Working
<1> QED
  BY <1>1, <1>2, <1>3, <1>4, RowsStay, QuietStep DEF Ends

LEMMA ArriveKeeps ==
  ASSUME IInv, NEW r \in Requests, NEW c \in Contents, Arrive(r, c) PROVE IInv'
<1>1. PICK q : q = [pc |-> IF kind = "compose" THEN "check" ELSE "adopt",
                    content |-> c, late |-> barred, row |-> None, answer |-> None]
  OBVIOUS
<1>2. /\ request' = [request EXCEPT ![r] = q] /\ request[r].pc = "idle"
      /\ UNCHANGED <<kind, rows, mails, barred, day, reported>>
  BY <1>1 DEF Arrive
<1>3. q \in RequestRecords
  BY <1>1 DEF RequestRecords, Working, IInv, TypeOK
<1>4. HoldsTheRow(q)'
  BY <1>1, <1>2, OneToOneAssumption, Underway DEF HoldsTheRow
<1>5. ClearedIfLate(q)'
  <2>1. q.late = barred /\ q.pc \notin Cleared
    BY <1>1, Underway DEF Cleared
  <2> QED
    BY <1>2, <2>1 DEF ClearedIfLate, Cleared
<1>6. q.pc \notin {"call", "record"}
  BY <1>1
<1> QED
  BY <1>2, <1>3, <1>4, <1>5, <1>6, RowsStay, QuietStep

LEMMA CheckKeeps ==
  ASSUME IInv, NEW r \in Requests, Check(r) PROVE IInv'
<1>1. request[r].pc = "check" /\ UNCHANGED <<kind, rows, mails, barred, day, reported>>
  BY DEF Check
<1>2. CASE barred /\ request[r].content \in Barrable
  BY <1>1, <1>2, EndsQuietly DEF Check, Finished
<1>3. CASE ~(barred /\ request[r].content \in Barrable)
  <2>1. PICK q : q = [request[r] EXCEPT !.pc = IF kind = "compose" THEN "adopt" ELSE "claim"]
    OBVIOUS
  <2>2. /\ request' = [request EXCEPT ![r] = q]
        /\ q \in RequestRecords
        /\ q.pc = IF kind = "compose" THEN "adopt" ELSE "claim"
        /\ q.content = request[r].content /\ q.late = request[r].late
        /\ q.row = request[r].row
        /\ q.answer = request[r].answer
    BY <1>3, <2>1, Underway DEF Check, Goes, RequestRecords, Working, IInv, TypeOK
  <2>3. HoldsTheRow(q)'
    BY <1>1, <2>2, Underway DEF HoldsTheRow, Working, Keyed, Exists, ProviderKey
  <2>4. ClearedIfLate(q)'
    BY <1>1, <1>3, <2>2, Underway DEF ClearedIfLate, Working
  <2> QED
    BY <1>1, <2>2, <2>3, <2>4, RowsStay, QuietStep
<1> QED
  BY <1>2, <1>3

LEMMA AdoptKeeps ==
  ASSUME IInv, NEW r \in Requests, NEW i \in Rows, Adopt(r, i) PROVE IInv'
<1>1. request[r].pc = "adopt" /\ UNCHANGED <<kind, mails, barred, day, reported>>
  BY DEF Adopt
<1>2. DraftsMove
  BY AdoptMoves DEF Adopt
<1>3. PICK q : q = [request[r] EXCEPT !.pc = "save"]
  OBVIOUS
<1>4. /\ request' = [request EXCEPT ![r] = q] /\ q \in RequestRecords /\ q.pc = "save"
      /\ q.content = request[r].content /\ q.late = request[r].late /\ q.row = request[r].row
        /\ q.answer = request[r].answer
  BY <1>3, Underway DEF Adopt, Goes, RequestRecords, Working, IInv, TypeOK
<1>5. HoldsTheRow(q)'
  BY <1>1, <1>2, <1>4, Underway DEF HoldsTheRow, Working, DraftsMove, RowsMove
<1>6. ClearedIfLate(q)'
  BY <1>1, <1>4, Underway DEF ClearedIfLate, Cleared, Working
<1> QED
  BY <1>1, <1>2, <1>4, <1>5, <1>6, QuietStep

LEMMA SaveKeeps ==
  ASSUME IInv, NEW r \in Requests, NEW i \in Rows, Save(r, i) PROVE IInv'
<1>1. request[r].pc \in {"adopt", "save"} /\ UNCHANGED <<kind, mails, barred, day, reported>>
  BY DEF Save
<1>2. request[r].content \in Contents
  BY <1>1, Underway DEF HoldsTheRow, Working
<1>3. DraftsMove /\ i \in Keyed'
  BY <1>2, UpsertMoves DEF Save
<1>4. PICK q : q = [request[r] EXCEPT !.row = i,
                                     !.pc = IF kind = "compose" THEN "claim" ELSE "read"]
  OBVIOUS
<1>5. /\ request' = [request EXCEPT ![r] = q] /\ q \in RequestRecords
      /\ q.pc = IF kind = "compose" THEN "claim" ELSE "read"
      /\ q.content = request[r].content /\ q.late = request[r].late /\ q.row = i
      /\ q.answer = request[r].answer
  BY <1>4, Underway DEF Save, RequestRecords, Working, IInv, TypeOK
<1>6. HoldsTheRow(q)'
  BY <1>1, <1>2, <1>3, <1>5, Underway DEF HoldsTheRow, Working
<1>7. ClearedIfLate(q)'
  BY <1>1, <1>5, Underway DEF ClearedIfLate, Cleared, Working
<1> QED
  BY <1>1, <1>3, <1>5, <1>6, <1>7, QuietStep

LEMMA ReadBackKeeps ==
  ASSUME IInv, NEW r \in Requests, ReadBack(r) PROVE IInv'
<1> DEFINE row == rows[request[r].row]
<1>1. request[r].pc = "read" /\ UNCHANGED <<kind, rows, mails, barred, day, reported>>
  BY DEF ReadBack
<1>2. CASE row.status = "gone"
  BY <1>1, <1>2, EndsQuietly DEF ReadBack, Finished
<1>3. CASE row.status # "gone"
  <2>1. PICK q : q = [request[r] EXCEPT !.pc = "check", !.content = row.content]
    OBVIOUS
  <2>2. request[r].row \in Keyed /\ kind = "reply"
    BY <1>1, <1>3, Underway DEF HoldsTheRow
  <2>3. row.content \in Contents
    BY <2>2 DEF Keyed, IInv, OneKeyedRow
  <2>4. /\ request' = [request EXCEPT ![r] = q] /\ q \in RequestRecords /\ q.pc = "check"
        /\ q.content = row.content /\ q.late = request[r].late /\ q.row = request[r].row
        /\ q.answer = request[r].answer
    BY <1>3, <2>1, <2>3, Underway DEF ReadBack, RequestRecords, Working, IInv, TypeOK
  <2>5. HoldsTheRow(q)'
    BY <1>1, <2>2, <2>3, <2>4, Underway DEF HoldsTheRow, Keyed, Exists
  <2>6. ClearedIfLate(q)'
    BY <1>1, <2>2, <2>4, Underway DEF ClearedIfLate, Cleared, Working
  <2> QED
    BY <1>1, <2>4, <2>5, <2>6, RowsStay, QuietStep
<1> QED
  BY <1>2, <1>3

\* What a claim, and the write after a call, do to the row they are about.
LEMMA ClaimedRowMoves ==
  ASSUME IInv, NEW i \in Keyed, NEW new \in RowRecords, new.status \in Claimed,
         new.keyed = rows[i].keyed, new.content = rows[i].content,
         rows' = [rows EXCEPT ![i] = new]
  PROVE  /\ rows' \in [Rows -> RowRecords] /\ RowsMove /\ OneKeyedRow' /\ Keyed' = Keyed
         /\ rows'[i] = new /\ \A j \in Rows \ {i} : rows'[j] = rows[j]
<1>1. /\ i \in Rows /\ rows' \in [Rows -> RowRecords]
      /\ rows'[i] = new /\ \A j \in Rows \ {i} : rows'[j] = rows[j]
  BY DEF IInv, TypeOK, Keyed
<1>2. Claimed \subseteq Live /\ "gone" \notin Live
  BY DEF Live, Claimed
<1>3. \A j \in Rows : Exists(j)' <=> Exists(j)
  BY <1>1, <1>2 DEF Keyed, Exists
<1>4. Keyed' = Keyed
  BY <1>1, <1>3 DEF Keyed
<1>5. \A j \in Rows : rows'[j].status \in Claimed => rows'[j].keyed
  BY <1>1 DEF Keyed, OneKeyedRow, IInv
<1>6. \A j \in Rows : rows'[j].content = rows[j].content
  BY <1>1
<1>7. OneKeyedRow'
  BY <1>3, <1>4, <1>5, <1>6 DEF OneKeyedRow, IInv
<1>8. RowsMove
  BY <1>1, <1>2, <1>4 DEF RowsMove, Keyed, Exists
<1> QED
  BY <1>1, <1>4, <1>7, <1>8

\* A claim takes the keyed row, which is not sent, so that no row is.
LEMMA ClaimKeeps ==
  ASSUME IInv, NEW r \in Requests, Claim(r) PROVE IInv'
<1> DEFINE i == request[r].row
<1>1. request[r].pc = "claim" /\ UNCHANGED <<kind, mails, barred, day, reported>>
  BY DEF Claim
<1>2. CASE ~Claimable(i)
  <2>1. UNCHANGED rows /\ Ends(r, "already")
    BY <1>2 DEF Claim
  <2> QED
    BY <1>1, <2>1, EndsQuietly DEF Finished
<1>3. CASE Claimable(i)
  <2>1. rows' = [rows EXCEPT ![i].status = "queued"] /\ Goes(r, "call")
    BY <1>3 DEF Claim
  <2>2. i \in Keyed /\ rows[i].status # "sent" /\ i \in Rows
    BY <1>1, <1>3, Underway DEF HoldsTheRow, Claimable, Exists, Live, Claimed
  <2>3. PICK q : q = [request[r] EXCEPT !.pc = "call"]
    OBVIOUS
  <2>4. /\ request' = [request EXCEPT ![r] = q] /\ q \in RequestRecords /\ q.pc = "call"
        /\ q.content = request[r].content /\ q.late = request[r].late /\ q.row = i
        /\ q.answer = request[r].answer
    BY <2>1, <2>3, Underway DEF Goes, RequestRecords, Working, IInv, TypeOK
  <2>5. PICK new : new = [rows[i] EXCEPT !.status = "queued"]
    OBVIOUS
  <2>6. /\ new \in RowRecords /\ new.status = "queued" /\ new.keyed = rows[i].keyed
        /\ new.content = rows[i].content /\ new.mail = rows[i].mail
        /\ rows' = [rows EXCEPT ![i] = new]
        /\ new.status \in Claimed
    BY <2>1, <2>2, <2>5 DEF IInv, TypeOK, RowRecords, Live, Claimed
  <2>7. /\ rows' \in [Rows -> RowRecords] /\ RowsMove /\ OneKeyedRow' /\ Keyed' = Keyed
        /\ rows'[i] = new /\ \A j \in Rows \ {i} : rows'[j] = rows[j]
    BY <2>2, <2>6, ClaimedRowMoves
  <2>8. HoldsTheRow(q)' /\ ClearedIfLate(q)'
    <3>1. HoldsTheRow(q)'
      BY <1>1, <2>2, <2>4, <2>6, <2>7, Underway DEF HoldsTheRow, Working
    <3>2. ClearedIfLate(q)'
      BY <1>1, <2>4, Underway DEF ClearedIfLate, Cleared, Working
    <3> QED
      BY <3>1, <3>2
  <2>9. request' \in [Requests -> RequestRecords] /\ RequestsAreRight'
    BY <1>1, <2>4, <2>7, <2>8, RequestsKept
  <2>10. MailsAreOfTheRow'
    <3>1. \A m \in mails : m.row \in Rows
      BY DEF IInv, TypeOK, MailRecords
    <3> QED
      BY <1>1, <2>6, <2>7, <3>1 DEF IInv, MailsAreOfTheRow, ProviderKey
  <2>11. \A m \in mails : ~OnRecord(m)
    BY <2>2 DEF OnRecord, IInv, OneKeyedRow, Keyed, Exists, Live, Claimed
  <2>12. NoDoubtNoSecondMail'
    <3>1. \A x \in Requests : request'[x] = IF x = r THEN q ELSE request[x]
      BY <2>4 DEF IInv, TypeOK
    <3>2. ~Doubt' => ~Doubt
      BY <1>1, <3>1 DEF Doubt
    <3> QED
      BY <1>1, <2>11, <3>1, <3>2 DEF IInv, NoDoubtNoSecondMail
  <2> QED
    BY <1>1, <2>7, <2>9, <2>10, <2>12 DEF IInv, TypeOK, LateMailIsNotBarred
<1> QED
  BY <1>2, <1>3

LEMMA RefuseKeeps ==
  ASSUME IInv, NEW r \in Requests, Refuse(r) PROVE IInv'
<1>1. request[r].pc = "call" /\ UNCHANGED <<kind, rows, mails, barred, day, reported>>
  BY DEF Refuse
<1>2. PICK q : q = [request[r] EXCEPT !.pc = "record"]
  OBVIOUS
<1>3. /\ request' = [request EXCEPT ![r] = q] /\ q \in RequestRecords /\ q.pc = "record"
      /\ q.content = request[r].content /\ q.late = request[r].late /\ q.row = request[r].row
      /\ q.answer = request[r].answer
  BY <1>2, Underway DEF Refuse, Goes, RequestRecords, Working, IInv, TypeOK
<1>4. HoldsTheRow(q)'
  BY <1>1, <1>3, Underway DEF HoldsTheRow, Working, Keyed, Exists
<1>5. ClearedIfLate(q)'
  BY <1>1, <1>3, Underway DEF ClearedIfLate, Cleared, Working
<1> QED
  BY <1>1, <1>3, <1>4, <1>5, RowsStay, QuietStep

LEMMA AcceptableFacts ==
  ASSUME IInv, NEW r \in Requests, request[r].pc = "call", NEW m \in Acceptable(r)
  PROVE  /\ m \in MailRecords /\ m.day = day
         /\ m.key = ProviderKey(request[r].row)
         /\ m \notin mails => m = MailOf(r) /\ Remembered(ProviderKey(request[r].row)) = {}
<1>1. request[r].row \in Rows /\ request[r].content \in Contents
  BY Underway DEF HoldsTheRow, Working
<1>2. MailOf(r) \in MailRecords
  BY <1>1, Underway DEF MailOf, MailRecords, ProviderKey, IInv, TypeOK, RequestRecords
<1>3. MailOf(r).key = ProviderKey(request[r].row) /\ MailOf(r).day = day
  BY DEF MailOf
<1> QED
  BY <1>2, <1>3 DEF Acceptable, Remembered, IInv, TypeOK

\* All mails are under one key, that of the one claimed row.
LEMMA OneKey ==
  ASSUME IInv, NEW i \in Keyed, NEW m \in mails
  PROVE  m.row = i /\ m.key = ProviderKey(i)
<1>1. m.row \in Rows /\ rows[m.row].status \in Claimed /\ m.key = ProviderKey(m.row)
  BY DEF IInv, TypeOK, MailRecords, MailsAreOfTheRow
<1>2. m.row \in Keyed
  BY <1>1 DEF IInv, OneKeyedRow, Keyed, Exists, Live
<1> QED
  BY <1>1, <1>2 DEF IInv, OneKeyedRow

LEMMA AcceptKeeps ==
  ASSUME IInv, NEW r \in Requests, Accept(r) PROVE IInv'
<1> DEFINE i == request[r].row
<1>1. request[r].pc = "call" /\ UNCHANGED <<kind, rows, barred, day, reported>>
  BY DEF Accept
<1>0. PICK m \in Acceptable(r) :
        /\ mails' = mails \cup {m}
        /\ \E answer \in {m, None} :
             request' = [request EXCEPT ![r].pc = "record", ![r].answer = answer]
  BY DEF Accept
<1>2. PICK answer \in {m, None} :
        /\ mails' = mails \cup {m}
        /\ request' = [request EXCEPT ![r].pc = "record", ![r].answer = answer]
  BY <1>0
<1>3. i \in Rows /\ i \in Keyed /\ rows[i].status \in Claimed
  BY <1>1, Underway DEF HoldsTheRow, Claimed
<1>4. /\ m \in MailRecords /\ m.day = day /\ m.key = ProviderKey(i)
      /\ m \notin mails => m = MailOf(r) /\ Remembered(ProviderKey(i)) = {}
  BY <1>1, <1>2, AcceptableFacts
<1>5. PICK q : q = [request[r] EXCEPT !.pc = "record", !.answer = answer]
  OBVIOUS
<1>6. /\ request' = [request EXCEPT ![r] = q] /\ q \in RequestRecords /\ q.pc = "record"
      /\ q.content = request[r].content /\ q.late = request[r].late /\ q.row = i
      /\ q.answer = answer
  BY <1>2, <1>4, <1>5, Underway DEF RequestRecords, Working, IInv, TypeOK
<1>7. HoldsTheRow(q)' /\ ClearedIfLate(q)'
  <2>1. HoldsTheRow(q)'
    BY <1>1, <1>2, <1>3, <1>4, <1>6, Underway
    DEF HoldsTheRow, Working, Keyed, Exists, ProviderKey
  <2>2. ClearedIfLate(q)'
    BY <1>1, <1>6, Underway DEF ClearedIfLate, Cleared, Working
  <2> QED
    BY <2>1, <2>2
<1>8. RowsMove /\ OneKeyedRow'
  BY <1>1, RowsStay DEF DraftsMove
<1>9. request' \in [Requests -> RequestRecords] /\ RequestsAreRight'
  BY <1>1, <1>2, <1>6, <1>7, <1>8, RequestsKept
\* Under the one key nothing is remembered: nothing has been mailed today.
<1>10. \A n \in mails : m \notin mails => n.day # day /\ n.day <= day
  BY <1>3, <1>4, OneKey DEF Remembered, IInv, MailsAreOfTheRow
<1>11. MailsAreOfTheRow'
  <2>1. m \notin mails => m.row = i
    BY <1>4 DEF MailOf
  <2>2. \A n \in mails' : n \in mails \/ (n = m /\ m.row = i)
    BY <1>2, <2>1
  <2>3. \A n, o \in mails' : n.day = o.day => n = o
    BY <1>2, <1>4, <1>10 DEF IInv, MailsAreOfTheRow
  <2>4. day <= day
    BY OneToOneAssumption DEF IInv, TypeOK
  <2> QED
    BY <1>1, <1>2, <1>3, <1>4, <2>2, <2>3, <2>4 DEF IInv, MailsAreOfTheRow, ProviderKey
<1>12. LateMailIsNotBarred'
  <2>1. request[r].late => request[r].content \notin Barrable
    BY <1>1, Underway DEF ClearedIfLate, Cleared, Working
  <2>2. m \notin mails => m.late = request[r].late /\ m.content = request[r].content
    BY <1>4 DEF MailOf
  <2> QED
    BY <1>2, <2>1, <2>2 DEF IInv, LateMailIsNotBarred
<1>13. NoDoubtNoSecondMail'
  <2>1. \A x \in Requests : request'[x] = IF x = r THEN q ELSE request[x]
    BY <1>6 DEF IInv, TypeOK
  <2>2. ~Doubt' => ~Doubt
    BY <1>1, <2>1 DEF Doubt
  \* Somebody is at the provider: the mails of earlier days have been reported.
  <2>3. ~Doubt => \A n \in mails \ reported : n.day = day
    BY <1>1 DEF IInv, NoDoubtNoSecondMail
  <2>4. request'[r].pc = "record"
    BY <1>6, <2>1
  <2>5. ~Doubt => \A n, o \in mails' : n.day < o.day => n \in reported
    <3> SUFFICES ASSUME ~Doubt, NEW n \in mails', NEW o \in mails', n.day < o.day
                 PROVE  n \in reported
      OBVIOUS
    <3>1. n.day \in 0..MaxDays /\ o.day \in 0..MaxDays /\ day \in 0..MaxDays
          /\ n.day <= day /\ o.day <= day
      <4>1. n \in MailRecords /\ o \in MailRecords /\ day \in 0..MaxDays
        BY <1>2, <1>4 DEF IInv, TypeOK
      <4>2. \A x \in mails' : x.day <= day
        BY <1>1, <1>11 DEF MailsAreOfTheRow
      <4> QED
        BY <4>1, <4>2 DEF MailRecords
    <3>2. n.day # day
      BY <3>1, OneToOneAssumption
    <3>3. n \in mails
      BY <1>2, <1>4, <3>2
    <3> QED
      BY <2>3, <3>2, <3>3
  <2> QED
    BY <1>1, <1>2, <1>4, <2>2, <2>3, <2>4, <2>5 DEF NoDoubtNoSecondMail
<1> QED
  BY <1>1, <1>2, <1>4, <1>8, <1>9, <1>11, <1>12, <1>13 DEF IInv, TypeOK

\* A request that was never answered, or answered that it failed, is a doubt.
LEMMA DoubtExcuses ==
  ASSUME IInv, NEW r \in Requests, NEW q \in RequestRecords, q.pc \in {"failed", "lost"},
         request' = [request EXCEPT ![r] = q]
  PROVE  NoDoubtNoSecondMail'
  BY DEF IInv, TypeOK, NoDoubtNoSecondMail, Doubt

LEMMA RecordKeeps ==
  ASSUME IInv, NEW r \in Requests, Record(r) PROVE IInv'
<1>0. PICK i, answer : i = request[r].row /\ answer = request[r].answer
  OBVIOUS
<1>1. /\ request[r].pc = "record" /\ UNCHANGED <<kind, mails, barred, day, reported>>
      /\ Ends(r, Outcome(answer))
      /\ rows' = IF answer = None THEN [rows EXCEPT ![i].status = "failed"]
                 ELSE [rows EXCEPT ![i].status = "sent", ![i].mail = answer]
  BY <1>0 DEF Record
<1>2. /\ i \in Rows /\ i \in Keyed /\ rows[i].status \in Claimed
      /\ answer # None => answer \in mails /\ answer.key = ProviderKey(i)
  BY <1>0, <1>1, Underway DEF HoldsTheRow, Claimed
<1>3. PICK q : q = At(Outcome(answer))
  OBVIOUS
<1>4. /\ request' = [request EXCEPT ![r] = q] /\ q \in RequestRecords
      /\ q.pc = Outcome(answer) /\ q.row = None /\ q.answer = None /\ q.pc \notin Working
  BY <1>1, <1>3, AtType DEF Ends, Outcome, Finished
<1>5. HoldsTheRow(q)' /\ ClearedIfLate(q)'
  BY <1>4, OneToOneAssumption DEF HoldsTheRow, ClearedIfLate, Working
<1>6. PICK new : new = IF answer = None THEN [rows[i] EXCEPT !.status = "failed"]
                       ELSE [rows[i] EXCEPT !.status = "sent", !.mail = answer]
  OBVIOUS
<1>7. /\ rows' = [rows EXCEPT ![i] = new]
      /\ new.keyed = rows[i].keyed /\ new.content = rows[i].content
      /\ new.status = IF answer = None THEN "failed" ELSE "sent"
      /\ answer # None => new.mail = answer
  <2>1. CASE answer = None
    BY <1>1, <1>2, <1>6, <2>1 DEF IInv, TypeOK, RowRecords
  <2>2. CASE answer # None
    BY <1>1, <1>2, <1>6, <2>2 DEF IInv, TypeOK, RowRecords
  <2> QED
    BY <2>1, <2>2
<1>8. new \in RowRecords /\ new.status \in Claimed
  <2>1. rows[i] \in RowRecords /\ mails \subseteq MailRecords
    BY <1>2 DEF IInv, TypeOK
  <2>2. CASE answer = None
    BY <1>6, <2>1, <2>2 DEF RowRecords, Live, Claimed
  <2>3. CASE answer # None
    BY <1>2, <1>6, <2>1, <2>3 DEF RowRecords, Live, Claimed
  <2> QED
    BY <2>2, <2>3
<1>9. /\ rows' \in [Rows -> RowRecords] /\ RowsMove /\ OneKeyedRow' /\ Keyed' = Keyed
      /\ rows'[i] = new /\ \A j \in Rows \ {i} : rows'[j] = rows[j]
  BY <1>2, <1>7, <1>8, ClaimedRowMoves
<1>10. request' \in [Requests -> RequestRecords] /\ RequestsAreRight'
  BY <1>1, <1>4, <1>5, <1>9, RequestsKept
<1>11. MailsAreOfTheRow'
  <2>1. \A m \in mails : m.row \in Rows
    BY DEF IInv, TypeOK, MailRecords
  <2>2. \A m \in mails : rows'[m.row].status \in Claimed
    BY <1>8, <1>9, <2>1 DEF IInv, MailsAreOfTheRow
  <2>3. new.mail # None => new.mail \in mails /\ new.mail.key = ProviderKey(i)
    <3>1. CASE answer = None
      <4>1. new.mail = rows[i].mail
        BY <1>2, <1>6, <3>1 DEF IInv, TypeOK, RowRecords
      <4> QED
        BY <1>2, <4>1 DEF IInv, MailsAreOfTheRow
    <3>2. CASE answer # None
      BY <1>2, <1>7, <3>2
    <3> QED
      BY <3>1, <3>2
  <2>4. new.status = "sent" => new.mail # None
    BY <1>7
  <2>5. \A j \in Rows : /\ rows'[j].mail # None =>
                             rows'[j].mail \in mails /\ rows'[j].mail.key = ProviderKey(j)
                        /\ rows'[j].status = "sent" => rows'[j].mail # None
                        /\ rows'[j].mail # None => rows'[j].status \in Claimed
    BY <1>8, <1>9, <2>3, <2>4 DEF IInv, MailsAreOfTheRow
  <2> QED
    BY <1>1, <2>2, <2>5 DEF IInv, MailsAreOfTheRow, ProviderKey
<1>12. NoDoubtNoSecondMail'
  <2>1. CASE answer = None
    <3>1. q.pc \in {"failed", "lost"}
      BY <1>4, <2>1 DEF Outcome
    <3> QED
      BY <1>4, <3>1, DoubtExcuses
  <2>2. CASE answer # None
    \* What is recorded is the one mail of today.
    <3>1. \A m \in mails : m.day = day => OnRecord(m)'
      <4>1. answer.day = day
        BY <1>0, <1>1, <2>2, Underway DEF HoldsTheRow
      <4>2. \A m \in mails : m.day = day => m = answer
        BY <1>2, <2>2, <4>1 DEF IInv, MailsAreOfTheRow
      <4> QED
        BY <1>2, <1>7, <1>9, <2>2, <4>2 DEF OnRecord
    <3>4. ~Doubt => \A m \in mails \ reported : m.day = day
      BY <1>1 DEF IInv, NoDoubtNoSecondMail
    <3>2. \A x \in Requests : request'[x] = IF x = r THEN q ELSE request[x]
      BY <1>4 DEF IInv, TypeOK
    <3>3. ~Doubt' => ~Doubt
      BY <1>1, <3>2 DEF Doubt
    <3> QED
      BY <1>1, <3>1, <3>3, <3>4 DEF IInv, NoDoubtNoSecondMail
  <2> QED
    BY <2>1, <2>2
<1> QED
  BY <1>1, <1>9, <1>10, <1>11, <1>12 DEF IInv, TypeOK, LateMailIsNotBarred

LEMMA DieKeeps ==
  ASSUME IInv, NEW r \in Requests, Die(r) PROVE IInv'
<1>1. request[r].pc \in Working /\ UNCHANGED <<kind, rows, mails, barred, day, reported>>
  BY DEF Die
<1>2. CASE request[r].pc \notin {"call", "record"}
  BY <1>1, <1>2, EndsQuietly DEF Die, Finished, Working
<1>3. CASE request[r].pc \in {"call", "record"}
  <2>1. PICK q : q = At("lost")
    OBVIOUS
  <2>2. /\ request' = [request EXCEPT ![r] = q] /\ q \in RequestRecords
        /\ q.pc = "lost" /\ q.row = None /\ q.answer = None /\ q.pc \notin Working
    BY <1>3, <2>1, AtType DEF Die, Ends, Finished
  <2>3. HoldsTheRow(q)' /\ ClearedIfLate(q)'
    BY <2>2, OneToOneAssumption DEF HoldsTheRow, ClearedIfLate, Working
  <2>4. NoDoubtNoSecondMail'
    <3>1. q.pc \in {"failed", "lost"}
      BY <2>2
    <3> QED
      BY <2>2, <3>1, DoubtExcuses
  <2>5. DraftsMove
    BY <1>1, RowsStay
  <2>6. request' \in [Requests -> RequestRecords] /\ RequestsAreRight'
    BY <1>1, <2>2, <2>3, <2>5, RequestsKept DEF DraftsMove
  <2>7. MailsAreOfTheRow'
    BY <1>1, <2>5, DraftsKeepMails
  <2> QED
    BY <1>1, <2>4, <2>5, <2>6, <2>7 DEF IInv, TypeOK, LateMailIsNotBarred, DraftsMove
<1> QED
  BY <1>2, <1>3

-----------------------------------------------------------------------------
(* The inductive invariant *)

LEMMA InvInit == Init => IInv
<1> SUFFICES ASSUME Init PROVE IInv
  OBVIOUS
<1>1. TypeOK
  <2>1. At("idle") \in RequestRecords /\ NoRow("unused") \in RowRecords
    BY AtType, DraftType
  <2> QED
    <3>1. rows \in [Rows -> RowRecords] /\ request \in [Requests -> RequestRecords]
      BY <2>1 DEF Init
    <3>2. day \in 0..MaxDays
      BY OneToOneAssumption DEF Init
    <3> QED
      BY <3>1, <3>2 DEF Init, TypeOK
<1>2. \A i \in Rows : /\ rows[i] = NoRow("unused")
                      /\ rows[i].status = "unused" /\ rows[i].mail = None
  BY DraftType DEF Init
<1>3. OneKeyedRow /\ MailsAreOfTheRow /\ LateMailIsNotBarred /\ NoDoubtNoSecondMail
  BY <1>2 DEF Init, OneKeyedRow, MailsAreOfTheRow, LateMailIsNotBarred, NoDoubtNoSecondMail,
     Keyed, Exists, Live, Claimed
<1>4. RequestsAreRight
  BY EndedIsRight DEF Init, RequestsAreRight
<1> QED
  BY <1>1, <1>3, <1>4 DEF IInv

LEMMA BarKeeps == ASSUME IInv, Bar PROVE IInv'
<1>1. UNCHANGED <<kind, rows, request, mails, day, reported>> /\ barred' = TRUE
  BY DEF Bar
<1>2. RequestsAreRight'
  BY <1>1 DEF IInv, RequestsAreRight, HoldsTheRow, ClearedIfLate, Cleared, Keyed, Exists,
     ProviderKey
<1>3. OneKeyedRow' /\ MailsAreOfTheRow' /\ LateMailIsNotBarred' /\ NoDoubtNoSecondMail'
  BY <1>1 DEF IInv, OneKeyedRow, MailsAreOfTheRow, LateMailIsNotBarred, NoDoubtNoSecondMail,
     Keyed, Exists, ProviderKey, Doubt, OnRecord
<1> QED
  BY <1>1, <1>2, <1>3 DEF IInv, TypeOK

\* A new day begins only when nobody is at the provider: without a doubt, what was
\* mailed is recorded by then.
LEMMA NextDayKeeps == ASSUME IInv, NextDay PROVE IInv'
<1>1. /\ UNCHANGED <<kind, rows, request, mails, barred, reported>>
      /\ day' = day + 1 /\ day' \in 0..MaxDays
      /\ \A r \in Requests : request[r].pc \notin {"call", "record"}
  BY OneToOneAssumption DEF NextDay, IInv, TypeOK
<1>2. RequestsAreRight' /\ OneKeyedRow' /\ LateMailIsNotBarred'
  BY <1>1 DEF IInv, RequestsAreRight, HoldsTheRow, ClearedIfLate, Cleared, Keyed, Exists,
     ProviderKey, OneKeyedRow, LateMailIsNotBarred
<1>3. MailsAreOfTheRow'
  <2>1. \A m \in mails : m.day <= day'
    BY <1>1, OneToOneAssumption DEF IInv, TypeOK, MailRecords, MailsAreOfTheRow
  <2> QED
    BY <1>1, <2>1 DEF IInv, MailsAreOfTheRow, ProviderKey
<1>4. NoDoubtNoSecondMail'
  <2>1. ~Doubt => \A m \in mails \ reported : OnRecord(m)
    BY <1>1 DEF IInv, NoDoubtNoSecondMail
  <2> QED
    BY <1>1, <2>1 DEF IInv, NoDoubtNoSecondMail, Doubt, OnRecord
<1> QED
  BY <1>1, <1>2, <1>3, <1>4 DEF IInv, TypeOK

\* What a report does to the row that names the mail.
LEMMA ReportMoves ==
  ASSUME IInv, NEW i \in Rows, NEW status \in {"sent", "failed"},
         ProviderReports(i, status)
  PROVE  /\ rows' \in [Rows -> RowRecords] /\ RowsMove /\ OneKeyedRow' /\ Keyed' = Keyed
         /\ \A j \in Rows \ {i} : rows'[j] = rows[j]
         /\ rows'[i].status \in Claimed /\ rows'[i].mail = rows[i].mail
         /\ rows[i].status = "sent" /\ status # "failed" => rows'[i].status = "sent"
         /\ status = "failed" => rows'[i].status = "failed"
         /\ i \in Keyed
<1>1. rows[i].mail # None /\ rows[i].status \in Claimed /\ rows[i] \in RowRecords
  BY DEF ProviderReports, IInv, TypeOK, MailsAreOfTheRow
<1>2. PICK next : next = Ladder!NextOutboundStatus(rows[i].status, status)
  OBVIOUS
<1>3. /\ next \in Claimed
      /\ rows[i].status = "sent" /\ status # "failed" => next = "sent"
      /\ status = "failed" => next = "failed"
  BY <1>1, <1>2 DEF Ladder!NextOutboundStatus, Ladder!OutboundRank, Claimed
<1>4. PICK new : new = [rows[i] EXCEPT !.status = next]
  OBVIOUS
<1>5. /\ new \in RowRecords /\ new.status = next /\ new.keyed = rows[i].keyed
      /\ new.content = rows[i].content /\ new.mail = rows[i].mail
  BY <1>1, <1>3, <1>4 DEF RowRecords, Live
<1>6. rows' = [rows EXCEPT ![i] = new]
  BY <1>2, <1>4 DEF ProviderReports
<1>7. i \in Keyed
  BY <1>1 DEF IInv, OneKeyedRow, Keyed, Exists, Live
<1> QED
  BY <1>3, <1>5, <1>6, <1>7, ClaimedRowMoves

\* A report keeps the invariant: a row that it fails gives its mail a doubt.
LEMMA ReportKeeps ==
  ASSUME IInv, NEW i \in Rows, NEW status \in {"sent", "failed"},
         ProviderReports(i, status)
  PROVE  IInv'
<1>1. /\ UNCHANGED <<kind, request, mails, barred, day>> /\ rows[i].mail # None
      /\ reported' = IF status = "failed" THEN reported \cup {rows[i].mail} ELSE reported
  BY DEF ProviderReports
<1>2. /\ rows' \in [Rows -> RowRecords] /\ RowsMove /\ OneKeyedRow' /\ Keyed' = Keyed
      /\ \A j \in Rows \ {i} : rows'[j] = rows[j]
      /\ rows'[i].status \in Claimed /\ rows'[i].mail = rows[i].mail
      /\ rows[i].status = "sent" /\ status # "failed" => rows'[i].status = "sent"
      /\ i \in Keyed
  BY ReportMoves
<1>3. RequestsAreRight'
  <2>1. ASSUME NEW x \in Requests PROVE (HoldsTheRow(request[x]) /\ ClearedIfLate(request[x]))'
    <3>1. PICK y : y = request[x]
      OBVIOUS
    <3>2. HoldsTheRow(y) /\ ClearedIfLate(y)
      BY <3>1 DEF IInv, RequestsAreRight
    <3>3. HoldsTheRow(y)' /\ ClearedIfLate(y)'
      BY <1>1, <1>2, <3>2 DEF HoldsTheRow, ClearedIfLate, Cleared, RowsMove, ProviderKey
    <3> QED
      BY <1>1, <3>1, <3>3
  <2> QED
    BY <1>1, <2>1 DEF RequestsAreRight
<1>4. MailsAreOfTheRow'
  <2>1. \A m \in mails : m.row \in Rows /\ rows'[m.row].status \in Claimed
    BY <1>2 DEF IInv, TypeOK, MailRecords, MailsAreOfTheRow, RowsMove
  <2>2. \A j \in Rows : rows'[j].mail = rows[j].mail
    BY <1>2
  <2>3. \A j \in Rows : rows'[j].mail # None => rows'[j].status \in Claimed
    BY <1>2, <2>2 DEF IInv, MailsAreOfTheRow
  <2>4. \A j \in Rows : rows'[j].status = "sent" => rows'[j].mail # None
    BY <1>1, <1>2 DEF IInv, MailsAreOfTheRow
  <2> QED
    BY <1>1, <2>1, <2>2, <2>3, <2>4 DEF IInv, MailsAreOfTheRow, ProviderKey
<1>5. NoDoubtNoSecondMail'
  <2>1. ASSUME NEW m \in mails \ reported', OnRecord(m) PROVE OnRecord(m)'
    <3>1. PICK j \in Rows : rows[j].status = "sent" /\ rows[j].mail = m
      BY <2>1 DEF OnRecord
    <3>2. j = i => status # "failed"
      BY <1>1, <3>1
    <3>3. rows'[j].status = "sent" /\ rows'[j].mail = m
      BY <1>2, <3>1, <3>2
    <3> QED
      BY <3>3 DEF OnRecord
  <2>2. reported \subseteq reported'
    BY <1>1
  <2> QED
    BY <1>1, <2>1, <2>2 DEF IInv, NoDoubtNoSecondMail, Doubt
<1>6. reported' \subseteq MailRecords
  <2>1. rows[i].mail \in MailRecords
    BY <1>1 DEF IInv, TypeOK, RowRecords
  <2> QED
    BY <1>1, <2>1 DEF IInv, TypeOK
<1> QED
  BY <1>1, <1>2, <1>3, <1>4, <1>5, <1>6 DEF IInv, TypeOK, LateMailIsNotBarred

LEMMA InvStep == IInv /\ [Next]_sendVars => IInv'
<1> SUFFICES ASSUME IInv, [Next]_sendVars PROVE IInv'
  OBVIOUS
<1>1. ASSUME NEW r \in Requests, RequestStep(r) PROVE IInv'
  BY <1>1, ArriveKeeps, AdoptKeeps, SaveKeeps, CheckKeeps, ReadBackKeeps, ClaimKeeps,
     AcceptKeeps, RefuseKeeps, RecordKeeps, DieKeeps DEF RequestStep
<1>2. CASE UNCHANGED sendVars
  BY <1>2 DEF sendVars, IInv, TypeOK, RequestsAreRight, HoldsTheRow, ClearedIfLate, Cleared,
     Keyed, Exists, ProviderKey, OneKeyedRow, LateMailIsNotBarred, MailsAreOfTheRow,
     NoDoubtNoSecondMail, Doubt, OnRecord
<1> QED
  BY <1>1, <1>2, DraftStepKeeps, ReportKeeps, BarKeeps, NextDayKeeps DEF Next

LEMMA Invariant == Spec => []IInv
  BY InvInit, InvStep, PTL DEF Spec

-----------------------------------------------------------------------------
(* The properties *)

\* Rows, requests, mails and days keep their types in both paths.
THEOREM TypeCorrect == Spec => []TypeOK
<1>1. IInv => TypeOK
  BY DEF IInv
<1> QED
  BY Invariant, <1>1, PTL

\* What the provider has accepted is on record in a claimed row that autosaves, adoption
\* and discards cannot take away, and a sent row names a mail of its own key.
THEOREM MailedStaysOnRecord == Spec => []MailedIsOnRecord
<1>1. IInv => MailedIsOnRecord
  BY DEF IInv, MailsAreOfTheRow, MailedIsOnRecord
<1> QED
  BY Invariant, <1>1, PTL

\* A request that begins after the addressee was barred does not mail her, whatever an
\* autosave puts into the row between its check and its claim.
THEOREM NobodyBarredIsMailed == Spec => []LateMailIsNotBarred
<1>1. IInv => LateMailIsNotBarred
  BY DEF IInv
<1> QED
  BY Invariant, <1>1, PTL

\* Of two mails of one composition the first was reported as failed, or some request was
\* told of a failure or never answered: where all are told of successes, and the provider
\* has nothing to add, no second copy goes out.
THEOREM SecondMailsNeedADoubt == Spec => []SecondMailNeedsADoubt
<1>1. IInv => SecondMailNeedsADoubt
  BY DEF IInv, NoDoubtNoSecondMail, Doubt, SecondMailNeedsADoubt
<1> QED
  BY Invariant, <1>1, PTL

\* Statements about drafts do not touch a row that is sent.
LEMMA SentIsNoDraft ==
  ASSUME IInv, NEW i \in Rows, rows[i].status = "sent", NEW j \in Rows
  PROVE  /\ AdoptDraft(j) => rows'[i] = rows[i]
         /\ \A c \in Contents : UpsertKeyed(j, c) => rows'[i] = rows[i]
         /\ DraftStep(j) => rows'[i] = rows[i]
<1>1. rows \in [Rows -> RowRecords]
  BY DEF IInv, TypeOK
<1>2. AdoptDraft(j) => rows'[i] = rows[i]
  BY <1>1 DEF AdoptDraft
<1>3. ASSUME NEW c \in Contents, UpsertKeyed(j, c) PROVE rows'[i] = rows[i]
  BY <1>1, <1>3 DEF UpsertKeyed
<1>4. ASSUME DraftStep(j) PROVE rows'[i] = rows[i]
  BY <1>1, <1>2, <1>3, <1>4
  DEF DraftStep, SaveUnkeyed, AutosaveUpserts, AutosaveAdopts, DiscardDraft
<1> QED
  BY <1>2, <1>3, <1>4

\* A sent row at which no call is under way is final for everybody but the provider: no
\* retry, autosave or discard changes it, only the report that its mail has failed, and
\* until then nothing is mailed for it again.
THEOREM SentIsFinal == Spec => SettledIsFinal
<1>1. ASSUME IInv, [Next]_sendVars PROVE SettledStaysPut
  <2> SUFFICES ASSUME NEW i \in Rows, Settled(i)
               PROVE  /\ rows'[i] = rows[i] \/ FailureIsReported(i)
                      /\ {m \in mails' : m.row = i} = {m \in mails : m.row = i}
    BY DEF SettledStaysPut
  <2>1. /\ rows[i].status = "sent" /\ rows \in [Rows -> RowRecords]
        /\ \A r \in Requests : request[r].pc \in {"call", "record"} => request[r].row # i
    BY <1>1 DEF Settled, IInv, TypeOK
  <2>2. ASSUME NEW r \in Requests, Accept(r) PROVE {m \in mails' : m.row = i} = {m \in mails : m.row = i}
    <3>1. PICK m \in Acceptable(r) : mails' = mails \cup {m}
      BY <2>2 DEF Accept
    <3>2. m \notin mails => m = MailOf(r)
      BY <1>1, <2>2, <3>1, AcceptableFacts DEF Accept
    <3>3. m \notin mails => m.row # i
      BY <2>1, <2>2, <3>2 DEF Accept, MailOf
    <3> QED
      BY <3>1, <3>3
  <2>3. ASSUME NEW r \in Requests, RequestStep(r) PROVE rows'[i] = rows[i]
    <3>1. CASE UNCHANGED rows
      BY <3>1
    <3>2. ASSUME NEW j \in Rows, Adopt(r, j) \/ Save(r, j) PROVE rows'[i] = rows[i]
      <4>1. Save(r, j) => request[r].content \in Contents
        BY <1>1, Underway DEF Save, HoldsTheRow, Working
      <4> QED
        BY <1>1, <2>1, <3>2, <4>1, SentIsNoDraft DEF Adopt, Save
    <3>3. CASE Claim(r)
      BY <2>1, <3>3 DEF Claim, Claimable
    <3>4. CASE Record(r)
      BY <2>1, <3>4 DEF Record
    <3> QED
      BY <2>3, <3>1, <3>2, <3>3, <3>4
      DEF RequestStep, Arrive, Check, ReadBack, Accept, Refuse, Die
  <2>4. ASSUME NEW r \in Requests, RequestStep(r), ~Accept(r) PROVE mails' = mails
    BY <2>4 DEF RequestStep, Arrive, Check, Adopt, Save, ReadBack, Claim, Refuse, Record, Die
  <2>5. ASSUME NEW j \in Rows, DraftStep(j) PROVE rows'[i] = rows[i] /\ mails' = mails
    <3>1. mails' = mails
      BY <2>5 DEF DraftStep, SaveUnkeyed, AutosaveUpserts, AutosaveAdopts, DiscardDraft
    <3> QED
      BY <1>1, <2>1, <2>5, <3>1, SentIsNoDraft
  <2>6. CASE Bar \/ NextDay \/ UNCHANGED sendVars
    BY <2>6 DEF Bar, NextDay, sendVars
  <2>7. ASSUME NEW j \in Rows, NEW status \in {"sent", "failed"},
               ProviderReports(j, status)
        PROVE  (rows'[i] = rows[i] \/ FailureIsReported(i)) /\ mails' = mails
    <3>1. CASE j # i
      BY <1>1, <2>7, <3>1, ReportMoves DEF ProviderReports
    <3>2. CASE j = i /\ status = "failed"
      BY <2>1, <2>7, <3>2
      DEF ProviderReports, FailureIsReported, Ladder!NextOutboundStatus
    <3>3. CASE j = i /\ status # "failed"
      <4>1. Ladder!NextOutboundStatus("sent", status) = "sent"
        BY <3>3 DEF Ladder!NextOutboundStatus, Ladder!OutboundRank
      <4>2. rows' = [rows EXCEPT ![i].status = "sent"]
        BY <2>1, <2>7, <3>3, <4>1 DEF ProviderReports
      <4> QED
        BY <2>1, <2>7, <4>2 DEF RowRecords, ProviderReports
    <3> QED
      BY <3>1, <3>2, <3>3
  <2> QED
    BY <1>1, <2>2, <2>3, <2>4, <2>5, <2>6, <2>7 DEF Next
<1> QED
  BY Invariant, <1>1, PTL DEF Spec, SettledIsFinal

-----------------------------------------------------------------------------
(* The refinement of SendLedger *)

Answers == {"sent", "already", "failed", "refused"}

Discarded == \E i \in Rows : rows[i].status = "gone"

LEMMA ToldIs ==
  \A r \in Requests :
    /\ request[r].pc \in {"sent", "already"} => Told[r] = "ok"
    /\ request[r].pc \in {"failed", "refused"} => Told[r] = "no"
    /\ request[r].pc \notin Answers => Told[r] = "nothing"
  BY DEF Told, Answers

\* A request that goes on, or dies, is told nothing.
LEMMA ToldNothing ==
  ASSUME TypeOK, NEW r \in Requests, NEW q, request' = [request EXCEPT ![r] = q],
         request[r].pc \notin Answers, q.pc \notin Answers
  PROVE  Told' = Told
<1>1. \A x \in Requests : request'[x] = IF x = r THEN q ELSE request[x]
  BY DEF TypeOK
<1>2. \A x \in Requests : Told'[x] = Told[x]
  BY <1>1 DEF Told, Answers
<1> QED
  BY <1>2 DEF Told

LEMMA ToldOnce ==
  ASSUME TypeOK, NEW r \in Requests, NEW q, request' = [request EXCEPT ![r] = q],
         request[r].pc \notin Answers, q.pc \in Answers
  PROVE  /\ Told[r] = "nothing"
         /\ Told' = [Told EXCEPT ![r] = IF q.pc \in {"sent", "already"} THEN "ok" ELSE "no"]
<1>1. \A x \in Requests : request'[x] = IF x = r THEN q ELSE request[x]
  BY DEF TypeOK
<1>2. Told[r] = "nothing"
  BY ToldIs
<1>3. \A x \in Requests :
        Told'[x] = IF x = r THEN IF q.pc \in {"sent", "already"} THEN "ok" ELSE "no" ELSE Told[x]
  BY <1>1 DEF Told, Answers
<1> QED
  BY <1>2, <1>3 DEF Told

\* What is discarded stays so.
LEMMA DiscardsStay == DraftsMove /\ Discarded => Discarded'
  BY DEF DraftsMove, RowsMove, Discarded

LEMMA LedgerInit == Init => Ledger!Init
<1> SUFFICES ASSUME Init PROVE Ledger!Init
  OBVIOUS
<1>1. \A i \in Rows : rows[i].status # "gone"
  BY DraftType DEF Init
<1>2. \A r \in Requests : request[r].pc \notin Answers
  BY AtType DEF Init, Answers, Finished
<1>3. Told = [r \in Requests |-> "nothing"]
  BY <1>2 DEF Told, Answers
<1> QED
  BY <1>1, <1>3 DEF Init, Ledger!Init

\* No step of a request discards a draft: only a discard does.
LEMMA NothingGoes ==
  ASSUME IInv, NEW r \in Requests, RequestStep(r) PROVE Discarded' = Discarded
<1> SUFFICES \A i \in Rows : rows'[i].status = "gone" <=> rows[i].status = "gone"
  BY DEF Discarded
<1>0. rows \in [Rows -> RowRecords] /\ "gone" \notin Claimed
  BY DEF IInv, TypeOK, Claimed
<1>1. CASE UNCHANGED rows
  BY <1>1
<1>2. ASSUME NEW i \in Rows, Adopt(r, i)
      PROVE  \A j \in Rows : rows'[j].status = "gone" <=> rows[j].status = "gone"
  BY <1>0, <1>2 DEF Adopt, AdoptDraft, RowRecords
<1>3. ASSUME NEW i \in Rows, Save(r, i)
      PROVE  \A j \in Rows : rows'[j].status = "gone" <=> rows[j].status = "gone"
  <2>1. request[r].content \in Contents
    BY <1>3, Underway DEF Save, HoldsTheRow, Working
  <2>2. Draft(TRUE, request[r].content).status = "draft"
    BY <2>1, DraftType
  <2>3. PICK new : new = Draft(TRUE, request[r].content)
    OBVIOUS
  <2>4. CASE rows' = rows
    BY <2>4
  <2>5. CASE rows[i].status = "unused" /\ rows' = [rows EXCEPT ![i] = new]
    BY <1>0, <2>2, <2>3, <2>5
  <2>6. CASE rows' = [rows EXCEPT ![i].content = request[r].content]
    BY <1>0, <2>6 DEF RowRecords
  <2> QED
    BY <1>3, <2>3, <2>4, <2>5, <2>6 DEF Save, UpsertKeyed
<1>4. CASE Claim(r)
  <2>1. CASE Claimable(request[r].row)
    BY <1>0, <1>4, <2>1 DEF Claim, Claimable, Exists, Live, Claimed, RowRecords
  <2>2. CASE ~Claimable(request[r].row)
    BY <1>4, <2>2 DEF Claim
  <2> QED
    BY <2>1, <2>2
<1>5. CASE Record(r)
  <2>1. request[r].row \in Rows /\ rows[request[r].row].status \in Claimed
    BY <1>5, Underway DEF Record, HoldsTheRow
  <2>2. PICK i, answer : i = request[r].row /\ answer = request[r].answer
    OBVIOUS
  <2>3. rows' = IF answer = None THEN [rows EXCEPT ![i].status = "failed"]
                ELSE [rows EXCEPT ![i].status = "sent", ![i].mail = answer]
    BY <1>5, <2>2 DEF Record
  <2>4. CASE answer = None
    BY <1>0, <2>1, <2>2, <2>3, <2>4 DEF RowRecords, Claimed
  <2>5. CASE answer # None
    BY <1>0, <2>1, <2>2, <2>3, <2>5 DEF RowRecords, Claimed
  <2> QED
    BY <2>4, <2>5
<1> QED
  BY <1>1, <1>2, <1>3, <1>4, <1>5 DEF RequestStep, Arrive, Check, ReadBack, Accept, Refuse, Die

LEMMA Stutters ==
  ASSUME UNCHANGED <<mails, day>>, Discarded' = Discarded, Told' = Told
  PROVE  UNCHANGED Ledger!ledgerVars
  BY DEF Ledger!ledgerVars, Discarded

\* A request that ends is told so: of a success only when there is a mail or a discard.
LEMMA EndTells ==
  ASSUME IInv, UNCHANGED <<mails, day>>, Discarded' = Discarded,
         NEW r \in Requests, request[r].pc \notin Answers,
         NEW pc \in Answers, Ends(r, pc),
         pc \in {"sent", "already"} => mails # {} \/ Discarded
  PROVE  Ledger!Next
<1>1. PICK q : q = At(pc)
  OBVIOUS
<1>2. request' = [request EXCEPT ![r] = q] /\ q.pc = pc
  BY <1>1, AtType DEF Ends, Answers, Finished
<1>3. PICK answer \in {"ok", "no"} : answer = IF q.pc \in {"sent", "already"} THEN "ok" ELSE "no"
  OBVIOUS
<1>4. Told[r] = "nothing" /\ Told' = [Told EXCEPT ![r] = answer]
  BY <1>2, <1>3, ToldOnce DEF IInv
<1>5. answer = "ok" => mails # {} \/ Discarded
  BY <1>2, <1>3
<1>6. Ledger!Tell(r, answer)
  BY <1>4, <1>5 DEF Ledger!Tell, Discarded
<1> QED
  BY <1>6 DEF Ledger!Next

LEMMA AcceptMails ==
  ASSUME IInv, NEW r \in Requests, Accept(r) PROVE [Ledger!Next]_(Ledger!ledgerVars)
<1>1. request[r].pc = "call" /\ UNCHANGED <<kind, rows, barred, day, reported>>
  BY DEF Accept
<1>2. PICK m \in Acceptable(r), answer \in MailRecords \cup {None} :
        /\ mails' = mails \cup {m}
        /\ request' = [request EXCEPT ![r].pc = "record", ![r].answer = answer]
  BY <1>1, AcceptableFacts DEF Accept
<1>3. PICK q : q = [request[r] EXCEPT !.pc = "record", !.answer = answer]
  OBVIOUS
<1>4. request' = [request EXCEPT ![r] = q] /\ q.pc = "record"
  BY <1>2, <1>3, Underway DEF RequestRecords, IInv, TypeOK
<1>5. Told' = Told
  BY <1>1, <1>4, ToldNothing DEF IInv, Answers
<1>6. Discarded' = Discarded
  BY <1>1 DEF Discarded
<1>7. CASE m \in mails
  <2>1. mails' = mails
    BY <1>2, <1>7
  <2> QED
    BY <1>1, <1>5, <1>6, <2>1, Stutters
<1>8. CASE m \notin mails
  <2>1. request[r].row \in Keyed
    BY <1>1, Underway DEF HoldsTheRow, Claimed
  <2>2. /\ m \in MailRecords /\ m.day = day
        /\ Remembered(ProviderKey(request[r].row)) = {}
    BY <1>1, <1>8, AcceptableFacts
  <2>3. \A n \in mails : n.day # day
    BY <2>1, <2>2, OneKey DEF Remembered
  <2>4. Ledger!Mail
    BY <1>1, <1>2, <1>5, <1>6, <2>2, <2>3 DEF Ledger!Mail, Discarded
  <2> QED
    BY <2>4 DEF Ledger!Next
<1> QED
  BY <1>7, <1>8

\* Whoever finds the row sent has a mail to show for it, and whoever finds no row, a
\* discard.
LEMMA ClaimTells ==
  ASSUME IInv, NEW r \in Requests, Claim(r) PROVE [Ledger!Next]_(Ledger!ledgerVars)
<1> DEFINE i == request[r].row
<1>1. request[r].pc = "claim" /\ UNCHANGED <<kind, mails, barred, day, reported>>
  BY DEF Claim
<1>2. i \in Rows /\ (rows[i].status = "gone" \/ i \in Keyed)
  BY <1>1, Underway DEF HoldsTheRow
<1>3. Discarded' = Discarded
  BY NothingGoes DEF RequestStep
<1>4. CASE Claimable(i)
  <2>1. request' = [request EXCEPT ![r].pc = "call"]
    BY <1>4 DEF Claim, Goes
  <2>2. PICK q : q = [request[r] EXCEPT !.pc = "call"]
    OBVIOUS
  <2>3. request' = [request EXCEPT ![r] = q] /\ q.pc = "call"
    BY <2>1, <2>2, Underway DEF RequestRecords
  <2>4. Told' = Told
    BY <1>1, <2>3, ToldNothing DEF IInv, Answers
  <2> QED
    BY <1>1, <1>3, <2>4, Stutters
<1>5. CASE ~Claimable(i)
  <2>1. Ends(r, "already")
    BY <1>5 DEF Claim
  <2>2. rows[i].status = "sent" => mails # {}
    BY <1>2 DEF IInv, MailsAreOfTheRow
  <2>3. rows[i].status = "gone" => Discarded
    BY <1>2 DEF Discarded
  <2>4. mails # {} \/ Discarded
    BY <1>2, <1>5, <2>2, <2>3 DEF Claimable, Keyed
  <2>5. "already" \in Answers /\ request[r].pc \notin Answers
    BY <1>1 DEF Answers
  <2> QED
    BY <1>1, <1>3, <2>1, <2>4, <2>5, EndTells
<1> QED
  BY <1>4, <1>5

LEMMA RecordTells ==
  ASSUME IInv, NEW r \in Requests, Record(r) PROVE [Ledger!Next]_(Ledger!ledgerVars)
<1>1. request[r].pc = "record" /\ UNCHANGED <<kind, mails, barred, day, reported>>
  BY DEF Record
<1>2. Discarded' = Discarded
  BY NothingGoes DEF RequestStep
<1>3. PICK pc : pc = Outcome(request[r].answer)
  OBVIOUS
<1>4. Ends(r, pc) /\ pc \in Answers /\ request[r].pc \notin Answers
  BY <1>1, <1>3 DEF Record, Outcome, Answers
<1>5. pc \in {"sent", "already"} => mails # {}
  BY <1>1, <1>3, Underway DEF Outcome, HoldsTheRow
<1> QED
  BY <1>1, <1>2, <1>4, <1>5, EndTells

\* The other steps of a request tell it nothing, or that it is refused.
LEMMA QuietTells ==
  ASSUME IInv, NEW r \in Requests, RequestStep(r), UNCHANGED <<mails, day>>,
         ~Claim(r), ~Record(r)
  PROVE  [Ledger!Next]_(Ledger!ledgerVars)
<1>1. Discarded' = Discarded
  BY NothingGoes
<1>2. request[r].pc \notin Answers
  BY DEF RequestStep, Arrive, Adopt, Save, Check, ReadBack, Accept, Refuse, Die, Answers, Working
<1>3. CASE Ends(r, "refused")
  BY <1>1, <1>2, <1>3, EndTells DEF Answers
<1>4. ASSUME NEW q, request' = [request EXCEPT ![r] = q], q.pc \notin Answers
      PROVE  [Ledger!Next]_(Ledger!ledgerVars)
  BY <1>1, <1>2, <1>4, ToldNothing, Stutters DEF IInv
<1>5. ASSUME NEW pc \in Working, Goes(r, pc) PROVE [Ledger!Next]_(Ledger!ledgerVars)
  <2>1. PICK q : q = [request[r] EXCEPT !.pc = pc]
    OBVIOUS
  <2>2. request' = [request EXCEPT ![r] = q] /\ q.pc = pc
    BY <1>5, <2>1, Underway DEF Goes, RequestRecords
  <2> QED
    BY <1>4, <2>2 DEF Working, Answers
<1>6. ASSUME NEW c \in Contents, Arrive(r, c) PROVE [Ledger!Next]_(Ledger!ledgerVars)
  BY <1>4, <1>6 DEF Arrive, Answers
<1>7. ASSUME NEW i \in Rows, Save(r, i) PROVE [Ledger!Next]_(Ledger!ledgerVars)
  <2>1. PICK pc : pc = IF kind = "compose" THEN "claim" ELSE "read"
    OBVIOUS
  <2>2. PICK q : q = [request[r] EXCEPT !.row = i, !.pc = pc]
    OBVIOUS
  <2>3. request' = [request EXCEPT ![r] = q] /\ q.pc = pc
    BY <1>7, <2>1, <2>2, Underway DEF Save, RequestRecords
  <2> QED
    BY <1>4, <2>1, <2>3 DEF Answers
<1>8. CASE ReadBack(r) /\ ~Ends(r, "refused")
  <2>1. PICK q : q = [request[r] EXCEPT !.pc = "check", !.content = rows[request[r].row].content]
    OBVIOUS
  <2>2. request' = [request EXCEPT ![r] = q] /\ q.pc = "check"
    BY <1>8, <2>1, Underway DEF ReadBack, RequestRecords
  <2> QED
    BY <1>4, <2>2 DEF Answers
<1>9. CASE Accept(r)
  BY <1>9, AcceptMails
<1>10. CASE Die(r)
  <2>1. PICK pc \in {"lost", "dead"} : Ends(r, pc)
    BY <1>10 DEF Die
  <2>2. At(pc).pc \notin Answers
    BY <2>1 DEF At, Answers
  <2> QED
    BY <1>4, <2>1, <2>2 DEF Ends
<1>11. CASE Check(r) \/ Refuse(r)
  BY <1>3, <1>5, <1>11 DEF Check, Refuse, Working
<1>12. ASSUME NEW i \in Rows, Adopt(r, i) PROVE [Ledger!Next]_(Ledger!ledgerVars)
  BY <1>5, <1>12 DEF Adopt, Working
<1> QED
  BY <1>3, <1>6, <1>7, <1>8, <1>9, <1>10, <1>11, <1>12 DEF RequestStep

LEMMA DraftStepDiscards ==
  ASSUME IInv, NEW i \in Rows, DraftStep(i) PROVE [Ledger!Next]_(Ledger!ledgerVars)
<1>1. UNCHANGED <<kind, request, mails, barred, day, reported>>
  BY DEF DraftStep, SaveUnkeyed, AutosaveUpserts, AutosaveAdopts, DiscardDraft
<1>2. Told' = Told
  BY <1>1 DEF Told
<1>3. DraftsMove
  <2>1. ASSUME NEW c \in Contents, SaveUnkeyed(i, c) PROVE DraftsMove
    BY <2>1, InsertMoves, ContentMoves DEF SaveUnkeyed
  <2>2. ASSUME NEW c \in Contents, AutosaveUpserts(i, c) PROVE DraftsMove
    BY <2>2, UpsertMoves DEF AutosaveUpserts
  <2>3. CASE AutosaveAdopts(i)
    BY <2>3, AdoptMoves DEF AutosaveAdopts
  <2>4. CASE DiscardDraft(i)
    BY <2>4, DiscardMoves
  <2> QED
    BY <2>1, <2>2, <2>3, <2>4 DEF DraftStep
<1>4. Discarded => Discarded'
  BY <1>3, DiscardsStay
<1>5. CASE Discarded' = Discarded
  BY <1>1, <1>2, <1>5, Stutters
<1>6. CASE Discarded' # Discarded
  <2>1. Discarded' = TRUE
    BY <1>4, <1>6 DEF Discarded
  <2>2. Ledger!Discard
    BY <1>1, <1>2, <2>1 DEF Ledger!Discard, Discarded
  <2> QED
    BY <2>2 DEF Ledger!Next
<1> QED
  BY <1>5, <1>6

LEMMA LedgerStep == IInv /\ [Next]_sendVars => [Ledger!Next]_(Ledger!ledgerVars)
<1> SUFFICES ASSUME IInv, [Next]_sendVars PROVE [Ledger!Next]_(Ledger!ledgerVars)
  OBVIOUS
<1>4. ASSUME NEW i \in Rows, NEW status \in {"sent", "failed"},
             ProviderReports(i, status)
      PROVE  [Ledger!Next]_(Ledger!ledgerVars)
  <2>1. /\ \A j \in Rows \ {i} : rows'[j] = rows[j]
        /\ rows'[i].status \in Claimed /\ rows[i].status \in Claimed
    BY <1>4, ReportMoves DEF IInv, MailsAreOfTheRow, ProviderReports
  <2>2. Discarded' = Discarded
    BY <2>1 DEF Discarded, Claimed
  <2>3. Told' = Told /\ UNCHANGED <<mails, day>>
    BY <1>4 DEF ProviderReports, Told
  <2> QED
    BY <2>2, <2>3, Stutters
<1>1. ASSUME NEW r \in Requests, RequestStep(r) PROVE [Ledger!Next]_(Ledger!ledgerVars)
  <2>1. Accept(r) \/ UNCHANGED <<mails, day>>
    BY <1>1 DEF RequestStep, Arrive, Adopt, Save, Check, ReadBack, Claim, Refuse, Record, Die
  <2> QED
    BY <1>1, <2>1, AcceptMails, ClaimTells, RecordTells, QuietTells
<1>2. CASE Bar \/ UNCHANGED sendVars
  <2>1. Told' = Told /\ Discarded' = Discarded /\ UNCHANGED <<mails, day>>
    BY <1>2 DEF Bar, sendVars, Told, Discarded
  <2> QED
    BY <2>1, Stutters
<1>3. CASE NextDay
  <2>1. Told' = Told /\ Discarded' = Discarded
    BY <1>3 DEF NextDay, Told, Discarded
  <2>2. Ledger!NextDay
    BY <1>3, <2>1 DEF NextDay, Ledger!NextDay, Discarded
  <2> QED
    BY <2>2 DEF Ledger!Next
<1> QED
  BY <1>1, <1>2, <1>3, <1>4, DraftStepDiscards DEF Next

\* sendClaimed, under both of its callers, keeps the promise of SendLedger: one mail in a
\* window of the provider's keys, and no success told without a mail or a discard.
THEOREM Refinement == Spec => ImplementsSendLedger
  BY Invariant, LedgerInit, LedgerStep, PTL DEF Spec, ImplementsSendLedger, Ledger!Spec

=============================================================================
