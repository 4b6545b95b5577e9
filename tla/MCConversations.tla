--------------------------- MODULE MCConversations ---------------------------
EXTENDS Conversations

CONSTANTS m1, m2

\* The second message answers the first.
MCRoot == [m \in Mail |-> m1]
=============================================================================
