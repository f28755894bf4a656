--------------------------- MODULE MCAgentWorkflow ---------------------------
\* The times of AgentWorkflow, to scale.
EXTENDS AgentWorkflow

\* The proportions of config.py in the order that matters: a review is longer than a
\* render, a patch and a review may take more than is reserved for them.
Reserves == [critic |-> 2, patch |-> 1, synthesis |-> 1, finalization |-> 1,
             orchestration |-> 1]
Caps == [design |-> 2, critic |-> 3, patch |-> 2, architect |-> 1, render |-> 1]
==============================================================================
