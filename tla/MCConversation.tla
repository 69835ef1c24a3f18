---------------------------- MODULE MCConversation ----------------------------
\* The bounds of a conversation are numbers, given in the configurations.
EXTENDS Conversation

\* Bound: behaviours are followed up to the first overtaking.
Untroubled == races = {}
=============================================================================
