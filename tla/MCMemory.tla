------------------------------ MODULE MCMemory ------------------------------
EXTENDS BrainIngest, TLC

MCClaimOf(e) == IF e = 1 THEN "stalled" ELSE "tilted"

\* A run of the journal with failures and crashes, or one of the memory service: of
\* the bounds on what goes wrong, the other's are used up from the start.
JournalScenario == texts = MaxTexts /\ forgets = MaxForgets
ServiceScenario == fails = MaxFails /\ crashes = MaxCrashes

MCInit == Init /\ (JournalScenario \/ ServiceScenario)

\* Beside the memory service one thread appends at a time, always the same one.
Writer == CHOOSE c \in Callers : TRUE
MCNext == Next /\ (JournalScenario \/ \A c \in Callers \ {Writer} : event'[c] = 0)

MCSpec == MCInit /\ [][MCNext]_allVars /\ Fairness
=============================================================================
