---------------------------- MODULE PanelStatus ----------------------------
(***************************************************************************)
(* The panel's lists, and the places that say of a client or an inbound in *)
(* them what its status is.                                                *)
(***************************************************************************)
EXTENDS PanelLists, ClientStatus, InboundStatus

\* StatusAgrees is about no state: it is evaluated before the first event.
\* The panel's places agree on the status of every client and of every inbound
\* (ClientStatus, InboundStatus).
StatusAgreesAtStart == events = 0 => StatusAgrees /\ InboundStatusAgrees
=============================================================================
