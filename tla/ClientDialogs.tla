--------------------------- MODULE ClientDialogs ---------------------------
(***************************************************************************)
(* Everything else that writes clients in one request: the toolbar and the *)
(* bulk dialogs of the clients page, the groups page, and the dialogs of   *)
(* the inbounds page.  A page works from what it last fetched: rows may be *)
(* any earlier state of the store, and stands for the caches of the three  *)
(* pages.  The requests are those of the same admin or of another one;     *)
(* each is served in one step, between two steps of an edit.               *)
(***************************************************************************)
EXTENDS ClientEditor

CONSTANTS Selections,  \* the sets of clients that may be ticked
          Targets,     \* the sets of inbounds that may be chosen
          BulkForms,   \* how the dialog of many clients may be filled in
          Adjustments  \* the days and the traffic of a bulk adjustment

Bulk(r) ==
  /\ Spend("others")
  /\ store' = r.st
  /\ Disturb
  /\ UNCHANGED <<rows, options, reads, switch>>

---------------------------------------------------------------------------
(* The clients page: one row                                               *)

onDelete(e) == Bulk(Delete(store, e))

\* only a client that is shown attached
onResetTraffic(e) ==
  /\ rows[e].ids # {}
  /\ Bulk(BulkResetTraffic(store, {e}))

RowActions(e) ==
  \/ onResetTraffic(e)
  \/ onEdit(e)
  \/ onDelete(e)
  \/ onToggleEnable(e)

---------------------------------------------------------------------------
(* The clients page: the rows ticked                                       *)

Chosen == {emails \in Selections : emails # {} /\ emails \subseteq DOMAIN rows}

onBulkDelete(emails) == Bulk(BulkDelete(store, emails))
onBulkUngroup(emails) == Bulk(Done(AddToGroup(store, emails, Blank)))
BulkAddToGroup(emails, group) == group # Blank /\ Bulk(Done(AddToGroup(store, emails, group)))
BulkAttachInbounds(emails, ids) == ids # {} /\ Bulk(BulkAttach(store, emails, ids))
BulkDetachInbounds(emails, ids) == ids # {} /\ Bulk(BulkDetach(store, emails, ids))

\* the adjustment has days or traffic or both
ClientBulkAdjust(emails, days, amount) ==
  /\ days # 0 \/ amount # 0
  /\ Bulk(BulkAdjust(store, emails, days, amount))

BulkDialogs(emails) ==
  \/ \E x \in Adjustments : ClientBulkAdjust(emails, x[1], x[2])
  \/ \E group \in GroupNames : BulkAddToGroup(emails, group)
  \/ \E ids \in Targets : BulkAttachInbounds(emails, ids)
  \/ \E ids \in Targets : BulkDetachInbounds(emails, ids)

---------------------------------------------------------------------------
(* The clients page: many new clients                                      *)

\* what the fields of the dialog may hold; a blank sub is drawn per client
bulkShowFlow(ids) == ids \cap Capable # {}
BulkAddInputs ==
  {v \in BulkForms : /\ v.sub \in {Blank} \cup Subs
                     /\ v.flow \in {Blank} \cup (IF bulkShowFlow(v.ids) THEN {"vision"} ELSE {})
                     /\ v.delayed \in BOOLEAN
                     /\ v.ids \in Targets}

\* random names are new ones, numbered names may be taken
buildEmails(numbered) ==
  {emails \in Selections : emails # {} /\ (numbered \/ emails \cap DOMAIN store.rec = {})}

bulkPayload(v, e) ==
  [Generated.client EXCEPT !.sub = IF v.sub = Blank THEN Generated.subOf[e] ELSE v.sub,
                           !.flow = IF bulkShowFlow(v.ids) THEN v.flow ELSE Blank,
                           !.expiry = IF v.delayed THEN -2 ELSE 2]

\* every client is created like one client, and one that fails is skipped
ClientBulkAdd ==
  \E v \in BulkAddInputs, numbered \in BOOLEAN : \E emails \in buildEmails(numbered) :
    /\ v.ids # {}
    /\ Bulk(Done(FoldLeft(LAMBDA st, e : Create(st, e, bulkPayload(v, e), v.ids).st,
                          store, SetToSeq(emails))))

onDelDepleted ==
  \E S \in SUBSET Depletable(store) : \E order \in SetToSeqs(S) : Bulk(DelDepleted(store, order))

\* with rows ticked the toolbar offers what may be done with them
Toolbar ==
  \/ onAdd
  \/ ClientBulkAdd
  \/ onDelDepleted
  \/ \E emails \in Chosen : BulkDialogs(emails) \/ onBulkUngroup(emails) \/ onBulkDelete(emails)

---------------------------------------------------------------------------
(* The groups page                                                         *)

\* the groups shown and the clients they are shown to have
groups == {rows[e].client.group : e \in DOMAIN rows} \ {Blank}
membersOf(g) == {e \in DOMAIN rows : rows[e].client.group = g}

confirmRename(g, next) ==
  /\ next \notin {Blank, g}
  /\ next \notin groups
  /\ Bulk(Done(replaceGroupValue(store, g, next)))

onDeleteGroup(g) == Bulk(Done(replaceGroupValue(store, g, Blank)))

\* these three ask the server for the clients of the group when they are used
\* (the adjustment: when its dialog opens)
OfGroup(g, Request(_)) ==
  LET emails == EmailsByGroup(store, g)
  IN emails # {} /\ Bulk(Request(emails))

onDeleteClients(g) == OfGroup(g, LAMBDA emails : BulkDelete(store, emails))
onResetGroup(g) == OfGroup(g, LAMBDA emails : BulkResetTraffic(store, emails))
openAdjustFor(g) ==
  \E x \in Adjustments : OfGroup(g, LAMBDA emails : BulkAdjust(store, emails, x[1], x[2]))

\* the clients shown outside the group, and those shown in it, to tick
candidates(g) == DOMAIN rows \ membersOf(g)
AddClients(g) ==
  \E emails \in SUBSET candidates(g) : emails # {} /\ BulkAddToGroup(emails, g)
RemoveClients(g) ==
  \E emails \in SUBSET membersOf(g) :
    emails # {} /\ Bulk(Done(AddToGroup(store, emails, Blank)))

GroupActions(g) ==
  \/ openAdjustFor(g)
  \/ onResetGroup(g)
  \/ AddClients(g)
  \/ \E next \in GroupNames : confirmRename(g, next)
  \/ RemoveClients(g)
  \/ onDeleteClients(g)
  \/ onDeleteGroup(g)

---------------------------------------------------------------------------
(* The inbounds page                                                       *)

\* the clients an inbound is shown to have
readClientRows(ib) == {e \in DOMAIN rows : ib \in rows[e].ids}

\* to other inbounds; all clients are ticked at first
AttachClients(ib) ==
  \E emails \in SUBSET readClientRows(ib), ids \in SUBSET (Inbounds \ {ib}) :
    emails # {} /\ BulkAttachInbounds(emails, ids)

\* clients that are not attached yet, to this inbound
attachable(ib) == {e \in DOMAIN rows : ib \notin rows[e].ids}
AttachExistingClients(ib) ==
  \E emails \in SUBSET attachable(ib) :
    emails # {} /\ BulkAttachInbounds(emails, {ib})

DetachClients(ib) ==
  \E emails \in SUBSET readClientRows(ib) : emails # {} /\ BulkDetachInbounds(emails, {ib})

AddClientsToGroup(ib) ==
  \E group \in GroupNames : readClientRows(ib) # {} /\ BulkAddToGroup(readClientRows(ib), group)

confirmDelAllClients(ib) ==
  /\ readClientRows(ib) # {}
  /\ Bulk(delAllInboundClients(store, ib))

InboundActions(ib) ==
  \/ confirmDelAllClients(ib)
  \/ AttachClients(ib)
  \/ AttachExistingClients(ib)
  \/ DetachClients(ib)
  \/ AddClientsToGroup(ib)

---------------------------------------------------------------------------
Next ==
  \/ Editing
  \/ \E e \in DOMAIN rows : RowActions(e)
  \/ Toolbar
  \/ \E g \in groups : GroupActions(g)
  \/ \E ib \in Inbounds : InboundActions(ib)

Spec == Init /\ [][Next]_vars

=============================================================================
