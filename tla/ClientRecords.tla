--------------------------- MODULE ClientRecords ---------------------------
(***************************************************************************)
(* The client store of the server (web/service/client.go).  A client lives *)
(* in three places: its record (rec), a copy inside the settings of every  *)
(* inbound it is attached to (cfg), and the traffic row whose limits are   *)
(* enforced (stat).  att is the client_inbounds table.  Every change of an *)
(* inbound's settings ends in SyncInbound, which writes the copies of that *)
(* inbound back into the records.                                          *)
(*                                                                         *)
(* keys stands for the UUID, the password and the hysteria auth of the     *)
(* client, quota for the fields that are always overwritten (totalGB,      *)
(* limitIp, comment, reset), group and sec for those an empty value leaves *)
(* alone.  The inbounds are local ones: no call to a node can fail.        *)
(***************************************************************************)
EXTENDS Integers, Sequences, FiniteSetsExt, SequencesExt

CONSTANTS Inbounds,   \* the inbound ids, integers
          Capable,    \* the inbounds whose clients may use a flow
          NewKeys     \* what a generated key is

Blank == ""
EmptyMap == [x \in {} |-> x]

Without(f, S) == [x \in DOMAIN f \ S |-> f[x]]

\* the ids in the order the loops of the service take them
Ascending(ids) == SetToSortSeq(ids, <)

\* a loop over inbounds that stops at the first one that fails
EachInbound(Step(_, _), st, ids) ==
  FoldLeft(LAMBDA r, ib : IF r.ok THEN Step(r.st, ib) ELSE r,
           [st |-> st, ok |-> TRUE], Ascending(ids))

Done(st) == [st |-> st, ok |-> TRUE]
Refused(st) == [st |-> st, ok |-> FALSE]

---------------------------------------------------------------------------
(* Records and copies                                                      *)

Keep(old, new) == IF new = Blank THEN old ELSE new

\* what a copy in the settings overwrites in the record
Merge(row, in) ==
  [in EXCEPT !.keys = Keep(row.keys, @), !.sec = Keep(row.sec, @),
             !.tag = Keep(row.tag, @), !.group = Keep(row.group, @)]

SyncInbound(st, ib) ==
  LET copies == st.cfg[ib]
      Row(e) == CASE e \notin DOMAIN copies -> st.rec[e]
                  [] e \notin DOMAIN st.rec -> copies[e]
                  [] OTHER -> Merge(st.rec[e], copies[e])
  IN [st EXCEPT !.rec = [e \in DOMAIN @ \cup DOMAIN copies |-> Row(e)],
                !.att = [@ EXCEPT ![ib] = DOMAIN copies]]

clientWithInboundFlow(c, ib) == IF ib \in Capable THEN c ELSE [c EXCEPT !.flow = Blank]

fillProtocolDefaults(c) == IF c.keys = Blank THEN [c EXCEPT !.keys = NewKeys] ELSE c

\* the copies of clients that have no record any more leave the settings
compactOrphans(st, copies) == Without(copies, DOMAIN copies \ DOMAIN st.rec)

GetInboundIdsForRecord(st, e) == {ib \in Inbounds : e \in st.att[ib]}

\* the email is in some settings under another subscription, or under none
checkEmailsExist(st, e, sub) ==
  \E ib \in Inbounds : /\ e \in DOMAIN st.cfg[ib]
                       /\ sub = Blank \/ st.cfg[ib][e].sub # sub

emailUsedByOtherInbounds(st, e, ib) == \E o \in Inbounds \ {ib} : e \in DOMAIN st.cfg[o]

Limits(c) == [quota |-> c.quota, expiry |-> c.expiry, enable |-> c.enable]

---------------------------------------------------------------------------
(* One inbound                                                             *)

AddInboundClient(st, ib, e, c) ==
  IF checkEmailsExist(st, e, c.sub) THEN Refused(st)
  ELSE Done(SyncInbound(
         [st EXCEPT !.cfg[ib] = e :> c @@ compactOrphans(st, @),
                    !.stat = @ @@ (e :> Limits(c))], ib))

\* the copy the old key points at; failing that, the one whose record has it
CopyOf(st, ib, key) ==
  LET byKey == {o \in DOMAIN st.cfg[ib] : st.cfg[ib][o].keys = key}
      byRow == {o \in DOMAIN st.cfg[ib] \cap DOMAIN st.rec : st.rec[o].keys = key}
  IN IF byKey # {} THEN byKey ELSE byRow

UpdateClientStat(stat, old, e, c) ==
  CASE old = e /\ e \in DOMAIN stat -> [stat EXCEPT ![e] = Limits(c)]
    [] old # e /\ e \notin DOMAIN stat /\ old \in DOMAIN stat ->
         e :> Limits(c) @@ Without(stat, {old})
    [] old # e /\ e \in DOMAIN stat -> [Without(stat, {old}) EXCEPT ![e] = Limits(c)]
    [] OTHER -> stat

UpdateInboundClient(st, ib, oldKey, e, c) ==
  LET found == CopyOf(st, ib, oldKey)
      old == CHOOSE o \in found : TRUE
      shared == emailUsedByOtherInbounds(st, old, ib) /\ e \in DOMAIN st.stat
  IN IF \/ found = {}
        \/ e # old /\ checkEmailsExist(st, e, c.sub)
     THEN Refused(st)
     ELSE Done(SyncInbound(
            [st EXCEPT !.cfg[ib] = e :> c @@ Without(@, {old}),
                       !.stat = IF shared /\ old # e THEN [@ EXCEPT ![e] = Limits(c)]
                                ELSE UpdateClientStat(@, old, e, c)], ib))

DelInboundClient(st, ib, key, keepTraffic) ==
  LET gone == {o \in DOMAIN st.cfg[ib] : st.cfg[ib][o].keys = key}
      dropped == {o \in gone : ~keepTraffic /\ ~emailUsedByOtherInbounds(st, o, ib)}
  IN IF gone = {} THEN Refused(st)
     ELSE Done(SyncInbound(
            [st EXCEPT !.cfg[ib] = compactOrphans(st, Without(@, gone)),
                       !.stat = Without(@, dropped)], ib))

---------------------------------------------------------------------------
(* One client                                                              *)

Create(st, e, c, ids) ==
  LET wanted == fillProtocolDefaults([c EXCEPT !.enable = TRUE])
      taken == e \in DOMAIN st.rec /\ st.rec[e].sub # c.sub
      subTaken == \E o \in DOMAIN st.rec \ {e} : st.rec[o].sub = c.sub
  IN IF ids = {} \/ taken \/ subTaken THEN Refused(st)
     ELSE EachInbound(LAMBDA s, ib : AddInboundClient(s, ib, e, clientWithInboundFlow(wanted, ib)),
                      st, ids)

\* Update up to its loop: the record takes the new email before the
\* subscription is checked, and keeps it when the check fails
BeginUpdate(st, e, new, c) ==
  LET row == st.rec[e]
      renamed == IF new = e THEN st
                 ELSE [st EXCEPT !.rec = new :> row @@ Without(@, {e}),
                                 !.att = [ib \in Inbounds |->
                                   IF e \in @[ib] THEN (@[ib] \ {e}) \cup {new} ELSE @[ib]]]
  IN CASE e \notin DOMAIN st.rec -> Refused(st)
       [] new # e /\ new \in DOMAIN st.rec -> Refused(st)
       [] \E o \in DOMAIN renamed.rec \ {new} : renamed.rec[o].sub = c.sub -> Refused(renamed)
       [] OTHER -> Done(renamed)

UpdateStep(st, ib, oldKey, new, c) ==
  UpdateInboundClient(st, ib, oldKey, new, clientWithInboundFlow(c, ib))

Attach(st, e, ids) ==
  IF e \notin DOMAIN st.rec THEN Refused(st)
  ELSE LET c == fillProtocolDefaults(st.rec[e])
       IN EachInbound(LAMBDA s, ib : AddInboundClient(s, ib, e, clientWithInboundFlow(c, ib)),
                      st, ids \ GetInboundIdsForRecord(st, e))

Detach(st, e, ids) ==
  IF e \notin DOMAIN st.rec THEN Refused(st)
  ELSE EachInbound(LAMBDA s, ib : DelInboundClient(s, ib, st.rec[e].keys, TRUE),
                   st, ids \cap GetInboundIdsForRecord(st, e))

Forget(st, emails) ==
  [st EXCEPT !.rec = Without(@, emails), !.stat = Without(@, emails),
             !.att = [ib \in Inbounds |-> @[ib] \ emails]]

Delete(st, e) ==
  IF e \notin DOMAIN st.rec THEN Refused(st)
  ELSE LET r == EachInbound(LAMBDA s, ib : DelInboundClient(s, ib, st.rec[e].keys, FALSE),
                            st, GetInboundIdsForRecord(st, e))
       IN IF r.ok THEN Done(Forget(r.st, {e})) ELSE r

---------------------------------------------------------------------------
(* Many clients                                                            *)

\* a client that is not found in one of its inbounds is skipped and kept
BulkDelete(st, emails) ==
  LET known == emails \cap DOMAIN st.rec
      Skip(e) == \E ib \in GetInboundIdsForRecord(st, e) :
                   \A o \in DOMAIN st.cfg[ib] : st.cfg[ib][o].keys # st.rec[e].keys
      removed == {e \in known : ~Skip(e)}
      Cut(ib) == {o \in DOMAIN st.cfg[ib] :
                    \E e \in known \cap st.att[ib] : st.cfg[ib][o].keys = st.rec[e].keys}
      cut == [st EXCEPT !.cfg = [ib \in Inbounds |-> Without(@[ib], Cut(ib))]]
      synced == FoldLeft(SyncInbound, cut, Ascending({ib \in Inbounds : Cut(ib) # {}}))
  IN Done(Forget(synced, removed))

BulkAttach(st, emails, ids) ==
  Done(FoldLeft(LAMBDA s, ib :
         FoldLeft(LAMBDA t, e :
             AddInboundClient(t, ib, e,
               clientWithInboundFlow(fillProtocolDefaults(st.rec[e]), ib)).st,
           s, SetToSeq((emails \cap DOMAIN st.rec) \ DOMAIN s.cfg[ib])),
       st, Ascending(ids)))

BulkDetach(st, emails, ids) ==
  Done(FoldLeft(LAMBDA s, ib :
         FoldLeft(LAMBDA t, e : DelInboundClient(t, ib, st.rec[e].keys, TRUE).st,
           s, SetToSeq({e \in emails \cap DOMAIN st.rec : e \in st.att[ib]})),
       st, Ascending(ids)))

\* the limits a bulk adjustment plans: no limit stays no limit, a delayed
\* start moves the other way, and a reduction that eats it all is refused
Expiry(row, days) ==
  CASE row.expiry = 0 -> 0
    [] row.expiry > 0 -> IF row.expiry + days <= 0 THEN row.expiry ELSE row.expiry + days
    [] OTHER -> IF row.expiry - days >= 0 THEN row.expiry ELSE row.expiry - days

Quota(row, amount) == IF row.quota = 0 THEN 0 ELSE Max({row.quota + amount, 0})

Skipped(row, days, amount) ==
  \/ days # 0 /\ Expiry(row, days) = row.expiry
  \/ amount # 0 /\ row.quota = 0

BulkAdjust(st, emails, days, amount) ==
  LET known == emails \cap DOMAIN st.rec
      New(e) == [expiry |-> Expiry(st.rec[e], days), quota |-> Quota(st.rec[e], amount)]
      Copy(c, e) == [c EXCEPT !.expiry = New(e).expiry, !.quota = New(e).quota]
      planned == {e \in known : New(e) # [expiry |-> st.rec[e].expiry, quota |-> st.rec[e].quota]}
      Reached(ib) == planned \cap st.att[ib] \cap DOMAIN st.cfg[ib]
      copied == [st EXCEPT !.cfg = [ib \in Inbounds |->
                   [o \in DOMAIN @[ib] |-> IF o \in Reached(ib) THEN Copy(@[ib][o], o) ELSE @[ib][o]]]]
      synced == FoldLeft(SyncInbound, copied, Ascending({ib \in Inbounds : Reached(ib) # {}}))
      enforced == {e \in planned \cap DOMAIN st.stat : ~Skipped(st.rec[e], days, amount)}
  IN Done([synced EXCEPT !.stat = [e \in DOMAIN @ |->
             IF e \in enforced THEN [@[e] EXCEPT !.expiry = New(e).expiry, !.quota = New(e).quota]
             ELSE @[e]]])

\* the label of a group, in the records and in the copies; Blank removes it
AddToGroup(st, emails, group) ==
  [st EXCEPT !.rec = [e \in DOMAIN @ |->
                        IF e \in emails THEN [@[e] EXCEPT !.group = group] ELSE @[e]],
             !.cfg = [ib \in Inbounds |-> [o \in DOMAIN @[ib] |->
                        IF o \in emails \cap DOMAIN st.rec
                        THEN [@[ib][o] EXCEPT !.group = group] ELSE @[ib][o]]]]

\* a group's name in the records, and in the copies of the inbounds its
\* clients are attached to; Blank removes the group
replaceGroupValue(st, old, new) ==
  LET members == {e \in DOMAIN st.rec : st.rec[e].group = old}
      Renamed(c) == IF c.group = old THEN [c EXCEPT !.group = new] ELSE c
  IN [st EXCEPT !.rec = [e \in DOMAIN @ |-> Renamed(@[e])],
                !.cfg = [ib \in Inbounds |->
                           IF members \cap st.att[ib] = {} THEN @[ib]
                           ELSE [e \in DOMAIN @[ib] |-> Renamed(@[ib][e])]]]

EmailsByGroup(st, group) == {e \in DOMAIN st.rec : st.rec[e].group = group}

\* a reset switches the traffic row on, whatever the client's own switch says
BulkResetTraffic(st, emails) ==
  Done([st EXCEPT !.stat = [e \in DOMAIN @ |->
          IF e \in emails \cap DOMAIN st.rec THEN [@[e] EXCEPT !.enable = TRUE] ELSE @[e]]])

\* which of the limited clients are used up is left open; they are deleted one
\* after the other until one fails
Depletable(st) == {e \in DOMAIN st.stat : st.stat[e].quota > 0 \/ st.stat[e].expiry > 0}
DelDepleted(st, order) ==
  FoldLeft(LAMBDA r, e : IF r.ok /\ e \in DOMAIN r.st.rec THEN Delete(r.st, e) ELSE r,
           Done(st), order)

EmailsByInbound(st, ib) == DOMAIN st.cfg[ib]
delAllInboundClients(st, ib) == BulkDelete(st, EmailsByInbound(st, ib))
=============================================================================
