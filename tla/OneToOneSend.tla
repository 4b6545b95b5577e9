---------------------------- MODULE OneToOneSend ----------------------------
(* Sending one message to one person: sendSingleEmail (compose) and        *)
(* sendMessage (reply and forward), which share sendClaimed; the drafts    *)
(* both save first; autosave and discard meanwhile; and the provider: its  *)
(* idempotency keys, and what it reports of the mail later, by a webhook   *)
(* or to the reconciler.                                                   *)
(*                                                                         *)
(* The module is about one composition, known by the client key that the   *)
(* browser mints for it.  It is sent more than once: Send is pressed       *)
(* again, a second tab has it open, the offline outbox replays it.  Each   *)
(* call is a request; one action is one statement, or one call of the      *)
(* provider, and a request may die between any two.                        *)
EXTENDS Naturals

CONSTANTS
  Requests,    \* calls of sendSingleEmail or sendMessage
  Rows,        \* ids of outbound_messages rows
  Contents,    \* versions of the message: its addressees and its text
  Barrable,    \* the versions with an addressee who gets on the do-not-send list
  MaxDays,     \* bound: how often the provider forgets its idempotency keys
  None

ASSUME OneToOneAssumption ==
  /\ Barrable \subseteq Contents
  /\ MaxDays \in Nat
  /\ None \notin Rows

VARIABLES
  kind,      \* "compose" or "reply"; never changes
  rows,      \* outbound_messages: the rows of this composition
  request,   \* each request: how far it is and what it holds
  mails,     \* what the provider has accepted
  barred,    \* whether that addressee is on the list yet
  day,       \* windows of 24 hours gone by
  reported   \* ghost: the mails that the provider has reported as failed

sendVars == <<kind, rows, request, mails, barred, day, reported>>

\* A claimed row is one that is no draft any more.
Claimed == {"queued", "failed", "sent"}
Live    == Claimed \cup {"draft"}

\* The mail remembers the request that caused it: late says that it began after
\* the addressee was barred.
MailRecords ==
  [key : Rows \cup {None}, row : Rows, content : Contents, day : 0..MaxDays,
   late : BOOLEAN]

RowRecords ==
  [status : Live \cup {"unused", "gone"}, keyed : BOOLEAN,
   content : Contents \cup {None}, mail : MailRecords \cup {None}]

Working  == {"check", "adopt", "save", "read", "claim", "call", "record"}
Finished == {"sent", "already", "failed", "refused", "dead", "lost"}

RequestRecords ==
  [pc : {"idle"} \cup Working \cup Finished, content : Contents \cup {None},
   late : BOOLEAN, row : Rows \cup {None}, answer : MailRecords \cup {None}]

\* A request that has not begun, or has ended, holds nothing.
At(pc) == [pc |-> pc, content |-> None, late |-> FALSE, row |-> None, answer |-> None]

\* A row that has not been inserted, or has been deleted.
NoRow(status) == [status |-> status, keyed |-> FALSE, content |-> None, mail |-> None]

TypeOK ==
  /\ kind \in {"compose", "reply"}
  /\ rows \in [Rows -> RowRecords]
  /\ request \in [Requests -> RequestRecords]
  /\ mails \subseteq MailRecords
  /\ barred \in BOOLEAN
  /\ day \in 0..MaxDays
  /\ reported \subseteq MailRecords

-----------------------------------------------------------------------------
(* The statements about drafts *)

Exists(i) == rows[i].status \in Live

Keyed == {i \in Rows : rows[i].keyed /\ Exists(i)}

Draft(keyed, c) ==
  [status |-> "draft", keyed |-> keyed, content |-> c, mail |-> None]

\* upsertKeyedDraft, first statement: an autosaved draft becomes the keyed row,
\* unless there is one, which the unique index would refuse as well.
AdoptDraft(i) ==
  rows' = IF rows[i].status = "draft" /\ Keyed = {}
          THEN [rows EXCEPT ![i].keyed = TRUE] ELSE rows

\* Mutants of UpsertKeyed: the update forgets which rows it may write to; it writes
\* the draft's status too; there is no unique client key to conflict with.
UpsertOverSent(i, c) ==
  \/ /\ Keyed = {}
     /\ rows[i].status = "unused"
     /\ rows' = [rows EXCEPT ![i] = Draft(TRUE, c)]
  \/ /\ i \in Keyed
     /\ rows' = [rows EXCEPT ![i].content = c]

UpsertAsDraft(i, c) ==
  \/ /\ Keyed = {}
     /\ rows[i].status = "unused"
     /\ rows' = [rows EXCEPT ![i] = Draft(TRUE, c)]
  \/ /\ i \in Keyed
     /\ rows' = IF rows[i].status = "sent" THEN rows
                ELSE [rows EXCEPT ![i] = Draft(TRUE, c)]

InsertAlways(i, c) ==
  /\ rows[i].status = "unused"
  /\ rows' = [rows EXCEPT ![i] = Draft(TRUE, c)]

\* upsertKeyedDraft, second statement: INSERT ... ON CONFLICT (client_key) DO
\* UPDATE content WHERE status <> 'sent'; i is the id it returns or reads back.
UpsertKeyed(i, c) ==
  \/ /\ Keyed = {}
     /\ rows[i].status = "unused"
     /\ rows' = [rows EXCEPT ![i] = Draft(TRUE, c)]
  \/ /\ i \in Keyed
     /\ rows' = IF rows[i].status = "sent" THEN rows
                ELSE [rows EXCEPT ![i].content = c]

\* The autosave of the compose dialog, and attachFile, which do not know the key:
\* the draft is updated if it still is one.  A row that was discarded, or none,
\* makes it insert another.
SaveUnkeyed(i, c) ==
  /\ \/ /\ rows[i].status = "draft" /\ kind = "compose"
        /\ rows' = [rows EXCEPT ![i].content = c]
     \/ /\ rows[i].status = "unused"
        /\ rows' = [rows EXCEPT ![i] = Draft(FALSE, c)]
  /\ UNCHANGED <<kind, request, mails, barred, day, reported>>

\* The autosave of the reply composer is the two statements of upsertKeyedDraft.
AutosaveAdopts(i) ==
  /\ kind = "reply"
  /\ Exists(i)
  /\ AdoptDraft(i)
  /\ UNCHANGED <<kind, request, mails, barred, day, reported>>

AutosaveUpserts(i, c) ==
  /\ kind = "reply"
  /\ UpsertKeyed(i, c)
  /\ UNCHANGED <<kind, request, mails, barred, day, reported>>

\* discardDraft, and the save of a draft that was emptied.
DiscardDraft(i) ==
  /\ rows[i].status = "draft"
  /\ rows' = [rows EXCEPT ![i] = NoRow("gone")]
  /\ UNCHANGED <<kind, request, mails, barred, day, reported>>

-----------------------------------------------------------------------------
(* A request *)

Goes(r, pc) == request' = [request EXCEPT ![r].pc = pc]

Ends(r, pc) == request' = [request EXCEPT ![r] = At(pc)]

\* sendSingleEmail looks at the do-not-send list before it saves, sendMessage after.
Arrive(r, c) ==
  /\ request[r].pc = "idle"
  /\ request' = [request EXCEPT
       ![r] = [pc |-> IF kind = "compose" THEN "check" ELSE "adopt",
               content |-> c, late |-> barred, row |-> None, answer |-> None]]
  /\ UNCHANGED <<kind, rows, mails, barred, day, reported>>

\* Mutant of Check: only a composed message is checked.
CheckComposed(r) ==
  /\ request[r].pc = "check"
  /\ IF kind = "compose" /\ barred /\ request[r].content \in Barrable
     THEN Ends(r, "refused")
     ELSE Goes(r, IF kind = "compose" THEN "adopt" ELSE "claim")
  /\ UNCHANGED <<kind, rows, mails, barred, day, reported>>

\* assertNotSuppressed, on the addressees that the payload goes to.
Check(r) ==
  /\ request[r].pc = "check"
  /\ IF barred /\ request[r].content \in Barrable
     THEN Ends(r, "refused")
     ELSE Goes(r, IF kind = "compose" THEN "adopt" ELSE "claim")
  /\ UNCHANGED <<kind, rows, mails, barred, day, reported>>

\* The draftId the composer knows, if it does.
Adopt(r, i) ==
  /\ request[r].pc = "adopt"
  /\ Exists(i)
  /\ AdoptDraft(i)
  /\ Goes(r, "save")
  /\ UNCHANGED <<kind, mails, barred, day, reported>>

Save(r, i) ==
  /\ request[r].pc \in {"adopt", "save"}
  /\ UpsertKeyed(i, request[r].content)
  /\ request' = [request EXCEPT ![r].row = i,
                                ![r].pc = IF kind = "compose" THEN "claim" ELSE "read"]
  /\ UNCHANGED <<kind, mails, barred, day, reported>>

\* sendMessage reads back the row it has just written, and sends what it reads.
ReadBack(r) ==
  /\ request[r].pc = "read"
  /\ LET row == rows[request[r].row] IN
     IF row.status = "gone"
     THEN Ends(r, "refused")
     ELSE request' = [request EXCEPT ![r].pc = "check", ![r].content = row.content]
  /\ UNCHANGED <<kind, rows, mails, barred, day, reported>>

\* Mutant of Claimable: the claim does not look at the status.
ClaimableAnyStatus(i) == Exists(i)

\* The rows that UPDATE ... SET status = 'queued' WHERE id AND status <> 'sent' takes.
Claimable(i) == Exists(i) /\ rows[i].status # "sent"

\* No row claimed is answered as sent already.
Claim(r) ==
  /\ request[r].pc = "claim"
  /\ LET i == request[r].row IN
     IF Claimable(i)
     THEN /\ rows' = [rows EXCEPT ![i].status = "queued"]
          /\ Goes(r, "call")
     ELSE Ends(r, "already") /\ UNCHANGED rows
  /\ UNCHANGED <<kind, mails, barred, day, reported>>

\* The idempotency key: compose:<client key>, or outbound:<row id>.
ProviderKey(i) == IF kind = "compose" THEN None ELSE i

\* What the provider still remembers under the key.
Remembered(k) == {m \in mails : m.key = k /\ m.day = day}

MailOf(r) ==
  [key |-> ProviderKey(request[r].row), row |-> request[r].row,
   content |-> request[r].content, day |-> day, late |-> request[r].late]

\* The provider accepts a message under a key it does not remember; under one it
\* does, it answers as it did then, if the message is the same.
Acceptable(r) ==
  LET old == Remembered(ProviderKey(request[r].row)) IN
  IF old = {} THEN {MailOf(r)} ELSE {m \in old : m.content = request[r].content}

\* Its answer may be lost.
Accept(r) ==
  /\ request[r].pc = "call"
  /\ \E m \in Acceptable(r) :
       /\ mails' = mails \cup {m}
       /\ \E answer \in {m, None} :
            request' = [request EXCEPT ![r].pc = "record", ![r].answer = answer]
  /\ UNCHANGED <<kind, rows, barred, day, reported>>

\* It refuses: another message under the key, its limits, no connection.
Refuse(r) ==
  /\ request[r].pc = "call"
  /\ Goes(r, "record")
  /\ UNCHANGED <<kind, rows, mails, barred, day, reported>>

\* The write after the call does not look at the row's status.
Outcome(answer) == IF answer = None THEN "failed" ELSE "sent"

Record(r) ==
  /\ request[r].pc = "record"
  /\ LET i == request[r].row
         answer == request[r].answer IN
     /\ rows' = IF answer = None
                THEN [rows EXCEPT ![i].status = "failed"]
                ELSE [rows EXCEPT ![i].status = "sent", ![i].mail = answer]
     /\ Ends(r, Outcome(answer))
  /\ UNCHANGED <<kind, mails, barred, day, reported>>

\* The process dies, or the client goes away before the answer.
Die(r) ==
  /\ request[r].pc \in Working
  /\ Ends(r, IF request[r].pc \in {"call", "record"} THEN "lost" ELSE "dead")
  /\ UNCHANGED <<kind, rows, mails, barred, day, reported>>

-----------------------------------------------------------------------------
(* The provider's reports *)

Ladder == INSTANCE DeliveryLadder

\* An event, by the webhook or from the list: the row that has stored the id of the
\* mail moves on the status ladder, so an opened mail fails when it is complained of.  (An
\* event that asserts `queued` moves no row that has a mail.)
ProviderReports(i, status) ==
  /\ rows[i].mail # None
  /\ rows' = [rows EXCEPT ![i].status = Ladder!NextOutboundStatus(@, status)]
  /\ reported' = IF status = "failed" THEN reported \cup {rows[i].mail} ELSE reported
  /\ UNCHANGED <<kind, request, mails, barred, day>>

-----------------------------------------------------------------------------
Bar ==
  /\ ~barred
  /\ barred' = TRUE
  /\ UNCHANGED <<kind, rows, request, mails, day, reported>>

\* The provider forgets a key after 24 hours, far longer than a call may take.
NextDay ==
  /\ day < MaxDays
  /\ \A r \in Requests : request[r].pc \notin {"call", "record"}
  /\ day' = day + 1
  /\ UNCHANGED <<kind, rows, request, mails, barred, reported>>

Init ==
  /\ kind \in {"compose", "reply"}
  /\ rows = [i \in Rows |-> NoRow("unused")]
  /\ request = [r \in Requests |-> At("idle")]
  /\ mails = {}
  /\ barred = FALSE
  /\ day = 0
  /\ reported = {}

RequestStep(r) ==
  \/ \E c \in Contents : Arrive(r, c)
  \/ \E i \in Rows : Adopt(r, i) \/ Save(r, i)
  \/ Check(r) \/ ReadBack(r) \/ Claim(r)
  \/ Accept(r) \/ Refuse(r) \/ Record(r) \/ Die(r)

DraftStep(i) ==
  \/ \E c \in Contents : SaveUnkeyed(i, c) \/ AutosaveUpserts(i, c)
  \/ AutosaveAdopts(i)
  \/ DiscardDraft(i)

Next ==
  \/ \E r \in Requests : RequestStep(r)
  \/ \E i \in Rows : DraftStep(i)
  \/ \E i \in Rows, status \in {"sent", "failed"} : ProviderReports(i, status)
  \/ Bar \/ NextDay

Spec == Init /\ [][Next]_sendVars

-----------------------------------------------------------------------------
(* Properties *)

\* Everything the provider has accepted is on record: the row that was mailed is
\* still there, claimed, whatever autosaves, retries and discards came after; and
\* a row that says sent names a mail that did go out, under the row's own key.
MailedIsOnRecord ==
  /\ \A m \in mails : rows[m.row].status \in Claimed
  /\ \A i \in Rows : rows[i].status = "sent" =>
       /\ rows[i].mail \in mails
       /\ rows[i].mail.key = ProviderKey(i)

\* No request that begins after an addressee was put on the do-not-send list mails
\* her, whichever version of the message an autosave has put into the row meanwhile.
LateMailIsNotBarred == \A m \in mails : m.content \in Barrable => ~m.late

\* A second mail, past the 24 hours for which the provider collapses the first, needs
\* a doubt about the first: somebody was told that it failed, or was never answered,
\* or the provider itself has reported that it failed.
SecondMailNeedsADoubt ==
  \A m, n \in mails : m.day < n.day =>
    m \in reported \/ \E r \in Requests : request[r].pc \in {"failed", "lost"}

\* A row is settled when it is sent and no call that could write to it is under way.
Settled(i) ==
  /\ rows[i].status = "sent"
  /\ \A r \in Requests : request[r].row = i => request[r].pc \notin {"call", "record"}

\* The provider reports that the mail a row names has failed.
FailureIsReported(i) ==
  /\ rows' = [rows EXCEPT ![i].status = "failed"]
  /\ rows[i].mail \in reported'

\* "Sent is terminal", once it is settled, for everybody but the provider: no retry,
\* autosave or discard changes the row, only the report that its mail has failed,
\* and until that comes nothing is mailed for it again.
SettledStaysPut ==
  \A i \in Rows : Settled(i) =>
    /\ rows'[i] = rows[i] \/ FailureIsReported(i)
    /\ {m \in mails' : m.row = i} = {m \in mails : m.row = i}

SettledIsFinal == [][SettledStaysPut]_sendVars

\* What each request has been answered.
Told == [r \in Requests |->
  CASE request[r].pc \in {"sent", "already"}   -> "ok"
    [] request[r].pc \in {"failed", "refused"} -> "no"
    [] OTHER                                   -> "nothing"]

Ledger == INSTANCE SendLedger WITH
  mailed    <- mails,
  discarded <- \E i \in Rows : rows[i].status = "gone",
  told      <- Told

\* Both paths keep the promise of SendLedger: one mail in a window of the provider's
\* keys, and no success told of a message that was neither mailed nor discarded.
ImplementsSendLedger == Ledger!Spec

=============================================================================
