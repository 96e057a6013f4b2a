-------------------------- MODULE MCCallbackContext --------------------------
EXTENDS CallbackContext

CONSTANTS e1, e2, e3

\* e1 and e2 agree in everything a cancel or a coalescing matches; e3 shares
\* only their sender.  e2 is the least urgent.
MCPriority == [e \in Event |-> IF e = e2 THEN 2 ELSE 1]
MCSender   == [e \in Event |-> "s"]
MCId       == [e \in Event |-> IF e = e3 THEN 2 ELSE 1]
MCHandler  == [e \in Event |-> "h"]
=============================================================================
