---------------------------- MODULE MCPanelLists ----------------------------
\* Amounts and times around each boundary of ClientStatus.
EXTENDS PanelStatus

MCTimes == -1 .. 8
=============================================================================
