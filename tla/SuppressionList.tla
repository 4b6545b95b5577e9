-------------------------- MODULE SuppressionList --------------------------
(* One address on the do-not-send list: its suppressions row, the contact  *)
(* of that address, and what people do to the two.                         *)
(*                                                                         *)
(* An address is unsendable while it has a row, or while its contact is    *)
(* not active (isUnsendable, packages/db/src/suppression.ts).  The Server  *)
(* Actions write the two in separate statements with no transaction around *)
(* them, so other statements may come between and the second may be lost.  *)
(* The provider's events write them too: WebhookIngest.                    *)
EXTENDS Naturals, FiniteSets

CONSTANTS
  SoftBounceLimit,     \* SOFT_BOUNCE_LIMIT
  MaxPeopleActions     \* bound: how often people change the list

ASSUME SuppressionAssumption ==
  /\ SoftBounceLimit \in Nat \ {0}
  /\ MaxPeopleActions \in Nat

VARIABLES
  reason,     \* suppressions.reason, "none": no row
  contact,    \* contacts.status and contacts.soft_bounce_count
  owed,       \* second statements still to come
  actions     \* how many actions people have taken

listVars == <<reason, contact, owed, actions>>

Reasons ==
  {"hard_bounce", "soft_bounce_limit", "complaint", "unsubscribe", "manual",
   "invalid_address"}

\* The reasons removeSuppression accepts.
Removable == {"manual", "unsubscribe"}

Absent == [status |-> "absent", count |-> 0]

ContactRows ==
  [status : {"active", "unsubscribed", "bounced", "complained"}, count : Nat]

ListTypeOK ==
  /\ reason \in Reasons \cup {"none"}
  /\ contact \in ContactRows \cup {Absent}
  /\ owed \subseteq {"reactivate", "enlist"}
  /\ actions \in 0..MaxPeopleActions

\* isUnsendable.  Nothing sets suppressions.expires_at.
Unsendable ==
  \/ contact.status \notin {"active", "absent"}
  \/ reason # "none"

\* INSERT ... ON CONFLICT DO NOTHING.
Listed(why) == IF reason = "none" THEN why ELSE reason

-----------------------------------------------------------------------------
PersonActs ==
  /\ actions < MaxPeopleActions
  /\ actions' = actions + 1

\* A contact is typed in, imported or saved from a message; status is not touched
\* if there is one.
AddContact ==
  /\ PersonActs
  /\ contact' = IF contact = Absent THEN [status |-> "active", count |-> 0]
                ELSE contact
  /\ UNCHANGED <<reason, owed>>

\* addSuppression: the operator gives the reason.  The contact is left alone.
AddSuppression(why) ==
  /\ PersonActs
  /\ reason' = Listed(why)
  /\ UNCHANGED <<contact, owed>>

\* A mistake: any entry can be removed.
RemoveAnySuppression ==
  /\ PersonActs
  /\ reason # "none"
  /\ reason' = "none"
  /\ owed' = owed \cup {"reactivate"}
  /\ UNCHANGED contact

\* removeSuppression, DELETE: only manual and unsubscribe entries.
RemoveSuppression ==
  /\ PersonActs
  /\ reason \in Removable
  /\ reason' = "none"
  /\ owed' = owed \cup {"reactivate"}
  /\ UNCHANGED contact

\* removeSuppression, UPDATE: active again, unless the contact has complained.
ReactivateContact ==
  /\ "reactivate" \in owed
  /\ contact' = IF contact.status \in {"absent", "complained"} THEN contact
                ELSE [status |-> "active", count |-> 0]
  /\ owed' = owed \ {"reactivate"}
  /\ UNCHANGED <<reason, actions>>

\* unsubscribeContact, UPDATE.
UnsubscribeContact ==
  /\ PersonActs
  /\ contact' = IF contact = Absent THEN contact
                ELSE [contact EXCEPT !.status = "unsubscribed"]
  /\ owed' = owed \cup {"enlist"}
  /\ UNCHANGED reason

\* unsubscribeContact, INSERT.
EnlistUnsubscribed ==
  /\ "enlist" \in owed
  /\ reason' = Listed("unsubscribe")
  /\ owed' = owed \ {"enlist"}
  /\ UNCHANGED <<contact, actions>>

\* The process dies, or the database fails, between the two statements.
SecondStatementLost(statement) ==
  /\ statement \in owed
  /\ owed' = owed \ {statement}
  /\ UNCHANGED <<reason, contact, actions>>

ListInit ==
  /\ reason = "none"
  /\ contact \in {Absent} \cup [status : {"active"}, count : 0..SoftBounceLimit-1]
  /\ owed = {}
  /\ actions = 0

=============================================================================
