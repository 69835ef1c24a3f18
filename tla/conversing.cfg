\* Two prompts beside a retry, the saved session and one new one.
CONSTANTS
    MaxTurn = 2
    MaxSession = 2
    MaxDraft = 2
SPECIFICATION Spec
CONSTRAINT Untroubled
INVARIANTS TypeOK ActiveTurnIsTheRunningOne EachPromptIsSentOnce
PROPERTIES PromptsAreKept FollowUpLeaves StopEnds
CHECK_DEADLOCK FALSE
