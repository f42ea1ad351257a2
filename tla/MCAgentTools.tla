---------------------------- MODULE MCAgentTools ----------------------------
EXTENDS AgentTools

CONSTANTS t1, t2, t3

\* The answers of the model: no tool, a tool, or two of them.
MCRequests ==
    LET Use(tool, t) == <<[tool |-> tool, timeline |-> t]>>
    IN  {<<>>, Use("create", None), Use("add", t1) \o Use("undo", None),
         Use("read", None), Use("remove", t2), Use("unknown", None)}
=============================================================================
