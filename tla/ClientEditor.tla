---------------------------- MODULE ClientEditor ----------------------------
(***************************************************************************)
(* The clients page as an editor (frontend/src/pages/clients): the dialog  *)
(* that adds and edits a client and the enable switch of a row, over the   *)
(* store of ClientRecords.  The list holds slim rows, so the dialog and    *)
(* the switch first read the whole client; what they send is the whole     *)
(* client again, and the server takes one inbound at a time.               *)
(*                                                                         *)
(* form is the dialog, reads the clients asked for on its behalf, save and *)
(* switch the request in flight of either (at most one each; the switch    *)
(* may be flipped on the page of another admin).  ClientDialogs adds the   *)
(* requests that are made in one step.                                     *)
(***************************************************************************)
EXTENDS ClientRecords

CONSTANTS Emails,     \* every name a client may be given
          Subs,       \* subscription ids
          Vless, Vmess,    \* the inbounds of these protocols
          Generated,  \* a blank client with the keys and ids a new form draws
          InitStore,  \* the stores the page may find
          GroupNames,  \* labels that may be typed
          MaxEdits, MaxOpen, MaxSaves,
          MaxOthers   \* switches, bulk requests and failed reads

VARIABLES store,    \* [rec, cfg, att, stat]
          rows,     \* the slim rows shown
          options,  \* the inbound options have been loaded
          form, reads, save, switch,
          budget

vars == <<store, rows, options, form, reads, save, switch, budget>>

Fields == {"keys", "sub", "flow", "sec", "tag", "quota", "expiry", "group", "enable"}

None == [at |-> "none"]
Spend(what) == budget[what] > 0 /\ budget' = [budget EXCEPT ![what] = @ - 1]

---------------------------------------------------------------------------
(* The dialog's fields                                                     *)

emptyForm == [email |-> Blank, keys |-> Blank, sub |-> Blank, flow |-> Blank, sec |-> "auto",
              tag |-> Blank, gb |-> 0, date |-> 0, delayed |-> FALSE, days |-> 0,
              group |-> Blank, enable |-> TRUE, ids |-> {}]

\* quotas count half hundredths of a GB; the form shows hundredths
bytesToGB(quota) == IF quota <= 0 THEN 0 ELSE (quota + 1) \div 2
gbToBytes(gb) == IF gb <= 0 THEN 0 ELSE 2 * gb

\* what a row of the list leaves out of the client
SlimOf(c) == [c EXCEPT !.keys = Blank, !.flow = Blank, !.sec = Blank, !.tag = Blank]
SlimRows(st) == [e \in DOMAIN st.rec |->
                   [client |-> SlimOf(st.rec[e]), ids |-> GetInboundIdsForRecord(st, e)]]

\* mutant: a delayed start is not turned into days
FormOf_NoDelay(e, c, ids) ==
  [emptyForm EXCEPT
     !.email = e, !.keys = c.keys, !.sub = c.sub, !.flow = c.flow,
     !.sec = IF c.sec = Blank THEN "auto" ELSE c.sec, !.tag = c.tag,
     !.gb = bytesToGB(c.quota), !.date = IF c.expiry > 0 THEN c.expiry ELSE 0,
     !.group = c.group, !.enable = c.enable, !.ids = ids]

FormOf(e, c, ids) ==
  LET late == c.expiry < 0
  IN [emptyForm EXCEPT
        !.email = e, !.keys = c.keys, !.sub = c.sub, !.flow = c.flow,
        !.sec = IF c.sec = Blank THEN "auto" ELSE c.sec, !.tag = c.tag,
        !.gb = bytesToGB(c.quota), !.delayed = late,
        !.days = IF late THEN -c.expiry ELSE 0, !.date = IF late THEN 0 ELSE c.expiry,
        !.group = c.group, !.enable = c.enable, !.ids = ids]

NewForm == [emptyForm EXCEPT !.email = Generated.email, !.keys = Generated.keys,
                             !.sub = Generated.sub]

showFlow(v) == options /\ v.ids \cap Capable # {}
showReverseTag(v) == options /\ v.ids \cap Vless # {}
showSecurity(v) == options /\ v.ids \cap Vmess # {}

\* the effects that run after every render of the open dialog
Settled(v) == [v EXCEPT !.flow = IF showFlow(v) THEN @ ELSE Blank,
                        !.tag = IF showReverseTag(v) THEN @ ELSE Blank]

\* what each control may change: the field of the client and the new values
IdentityInputs(v) ==
  {<<"email", [v EXCEPT !.email = x]>> : x \in Emails}
    \cup {<<"sub", [v EXCEPT !.sub = x]>> : x \in Subs}
KeyInputs(v) == {<<"keys", [v EXCEPT !.keys = x]>> : x \in {NewKeys}}
LimitInputs(v) == {<<"quota", [v EXCEPT !.gb = x]>> : x \in {5}}
ExpiryInputs(v) ==
  {<<"expiry", x>> :
     x \in {IF v.delayed THEN [v EXCEPT !.days = 3] ELSE [v EXCEPT !.date = 7],
            [v EXCEPT !.delayed = ~@, !.date = IF v.delayed THEN @ ELSE 0,
                      !.days = IF v.delayed THEN 0 ELSE @]}}
ProtocolInputs(v) ==
  UNION {IF showFlow(v) THEN {<<"flow", [v EXCEPT !.flow = x]>> : x \in {Blank, "vision"}} ELSE {},
         IF showReverseTag(v) THEN {<<"tag", [v EXCEPT !.tag = x]>> : x \in {"t2"}} ELSE {},
         IF showSecurity(v) THEN {<<"sec", [v EXCEPT !.sec = "none"]>>} ELSE {}}
LabelInputs(v) == {<<"group", [v EXCEPT !.group = x]>> : x \in GroupNames}
InboundInputs(v) == IF options THEN {<<"ids", [v EXCEPT !.ids = x]>> : x \in SUBSET Inbounds} ELSE {}
EnableInputs(v) == {<<"enable", [v EXCEPT !.enable = ~@]>>}

Inputs(v) == {i \in UNION {IdentityInputs(v), KeyInputs(v), LimitInputs(v), ExpiryInputs(v),
                           ProtocolInputs(v), LabelInputs(v), InboundInputs(v), EnableInputs(v)} :
                i[2] # v}

ClientFormSchema(v) == v.email # Blank
ClientCreateFormSchema(v) == ClientFormSchema(v) /\ v.ids # {}

ExpiryOf(v) == IF v.delayed THEN -v.days ELSE v.date

\* the client onSubmit sends
clientPayload(v) ==
  [keys |-> v.keys, sub |-> v.sub, flow |-> IF showFlow(v) THEN v.flow ELSE Blank,
   sec |-> IF showSecurity(v) THEN v.sec ELSE "auto",
   tag |-> IF showReverseTag(v) THEN v.tag ELSE Blank,
   quota |-> gbToBytes(v.gb), expiry |-> ExpiryOf(v), group |-> v.group, enable |-> v.enable]

---------------------------------------------------------------------------
(* Opening the dialog                                                      *)

\* alone: since the client was read, nothing else has written to the store
Closed == [open |-> FALSE, mode |-> "add", email |-> Blank, ids |-> {}, values |-> emptyForm,
           touched |-> {}, seen |-> Generated.client, clean |-> FALSE, alone |-> FALSE]

Fresh(f, values) == [f EXCEPT !.open = TRUE, !.values = Settled(values), !.touched = {}]

onAdd ==
  /\ ~form.open /\ Spend("open")
  /\ form' = Fresh([Closed EXCEPT !.alone = TRUE], NewForm)
  /\ UNCHANGED <<store, rows, options, reads, save, switch>>

\* reads the client and opens the dialog when the answer is there
onEdit(e) ==
  /\ ~form.open /\ Spend("open")
  /\ form' = [form EXCEPT !.mode = "edit"]
  /\ reads' = reads \cup {[email |-> e, row |-> rows[e]]}
  /\ UNCHANGED <<store, rows, options, save, switch>>

\* a read that failed leaves the row of the list in its place; the fields are
\* filled only when the dialog opens, by the mode it has then
EditRead(r, arrives) ==
  LET full == arrives /\ r.email \in DOMAIN store.rec
      client == IF full THEN store.rec[r.email] ELSE r.row.client
      ids == IF full THEN GetInboundIdsForRecord(store, r.email) ELSE r.row.ids
      set == [form EXCEPT !.email = r.email, !.ids = ids, !.seen = client,
                          !.clean = full /\ ~form.open, !.alone = full /\ ~form.open]
  IN /\ reads' = reads \ {r}
     /\ form' = CASE form.open -> set
                  [] form.mode = "edit" -> Fresh(set, FormOf(r.email, client, ids))
                  [] OTHER -> Fresh(set, NewForm)
     /\ IF arrives THEN UNCHANGED budget ELSE Spend("others")
     /\ UNCHANGED <<store, rows, options, save, switch>>

Change ==
  /\ form.open /\ Spend("edits")
  /\ \E i \in Inputs(form.values) :
       form' = [form EXCEPT !.values = Settled(i[2]), !.touched = @ \cup {i[1]}]
  /\ UNCHANGED <<store, rows, options, reads, save, switch>>

Cancel ==
  /\ form.open
  /\ form' = [Closed EXCEPT !.mode = form.mode]
  /\ UNCHANGED <<store, rows, options, reads, save, switch, budget>>

---------------------------------------------------------------------------
(* Requests                                                                *)

\* an update on its way: the client under email is to become c under new
UpdateCall(email, new, c, seen, touched, clean) ==
  [at |-> "update", email |-> email, new |-> new, c |-> c, seen |-> seen, touched |-> touched,
   clean |-> clean, alone |-> FALSE,
   ids |-> {}, attach |-> {}, detach |-> {}, todo |-> {}, oldKey |-> Blank]

onSubmit ==
  LET v == form.values
      editing == form.mode = "edit"
      call == [UpdateCall(form.email, v.email, clientPayload(v), form.seen, form.touched,
                          form.clean /\ form.ids # {}) EXCEPT !.ids = v.ids, !.alone = form.alone]
  IN /\ form.open /\ save.at = "none" /\ Spend("saves")
     /\ IF editing THEN ClientFormSchema(v) ELSE ClientCreateFormSchema(v)
     /\ save' = IF editing THEN [call EXCEPT !.attach = v.ids \ form.ids, !.detach = form.ids \ v.ids]
                ELSE [call EXCEPT !.at = "create", !.email = Blank, !.attach = v.ids,
                                     !.clean = v.email \notin DOMAIN store.rec]
     /\ UNCHANGED <<store, rows, options, form, reads, switch>>

\* mutant: a save that attached does not detach any more
Onward_OnlyOne(call, r) ==
  LET next == CASE call.at = "loop" /\ call.attach # {} -> "attach"
                [] call.at = "loop" /\ call.detach # {} -> "detach"
                [] OTHER -> "saved"
  IN IF r.ok THEN [call EXCEPT !.at = next] ELSE None

\* the outcome of one request of a save: the next request, or the answer
Onward(call, r) ==
  LET next == CASE call.at = "loop" /\ call.attach # {} -> "attach"
                [] call.at \in {"loop", "attach"} /\ call.detach # {} -> "detach"
                [] OTHER -> "saved"
  IN IF r.ok THEN [call EXCEPT !.at = next] ELSE None

\* UpdateByEmail up to its loop over the inbounds
Begun(call, st) ==
  LET r == BeginUpdate(st, call.email, call.new, call.c)
  IN [st |-> r.st,
      call |-> IF ~r.ok THEN None
               ELSE LET ids == GetInboundIdsForRecord(st, call.email)
                        ready == [call EXCEPT !.at = "loop", !.todo = ids,
                                              !.oldKey = st.rec[call.email].keys,
                                              !.c = IF ids = {} THEN @ ELSE fillProtocolDefaults(@)]
                    IN IF ids = {} THEN Onward(ready, r) ELSE ready]

\* its step for the next inbound
Stepped(call, st) ==
  LET ib == Min(call.todo)
      r == UpdateStep(st, ib, call.oldKey, call.new, call.c)
      rest == [call EXCEPT !.todo = @ \ {ib}]
  IN [st |-> r.st, call |-> IF r.ok /\ rest.todo # {} THEN rest ELSE Onward(rest, r)]

Served(call, st) ==
  CASE call.at = "update" -> Begun(call, st)
    [] call.at = "loop" -> Stepped(call, st)
    [] call.at = "create" ->
         LET r == Create(st, call.new, call.c, call.attach)
         IN [st |-> r.st, call |-> Onward(call, r)]
    [] call.at = "attach" ->
         LET r == Attach(st, call.email, call.attach)
         IN [st |-> r.st, call |-> Onward(call, r)]
    [] call.at = "detach" ->
         LET r == Detach(st, call.email, call.detach)
         IN [st |-> r.st, call |-> Onward(call, r)]

Running == {"update", "loop", "create", "attach", "detach"}

SaveStep ==
  /\ save.at \in Running
  /\ LET s == Served(save, store) IN store' = s.st /\ save' = s.call
  /\ UNCHANGED <<rows, options, form, reads, switch, budget>>

\* the answer of a save closes the dialog that is open by then
Saved ==
  /\ save.at = "saved"
  /\ save' = None
  /\ form' = [Closed EXCEPT !.mode = form.mode]
  /\ UNCHANGED <<store, rows, options, reads, switch, budget>>

---------------------------------------------------------------------------
(* The enable switch of a row                                              *)

\* somebody else than the dialog has written to the store
Disturb ==
  /\ form' = [form EXCEPT !.alone = FALSE]
  /\ save' = IF save.at = "none" THEN save ELSE [save EXCEPT !.alone = FALSE]

onToggleEnable(e) ==
  /\ switch.at = "none" /\ Spend("others")
  /\ switch' = [at |-> "get", email |-> e, enable |-> ~rows[e].client.enable]
  /\ UNCHANGED <<store, rows, options, form, reads, save>>

\* setEnable between its read and its update
setEnablePayload(base, enable) ==
  [base EXCEPT !.enable = enable, !.sec = IF @ = Blank THEN "auto" ELSE @]

SwitchRead(arrives) ==
  /\ switch.at = "get"
  /\ switch' = IF ~arrives \/ switch.email \notin DOMAIN store.rec THEN None
               ELSE LET base == store.rec[switch.email]
                    IN UpdateCall(switch.email, switch.email,
                                  setEnablePayload(base, switch.enable), base, {"enable"}, TRUE)
  /\ UNCHANGED <<store, rows, options, form, reads, save, budget>>

SwitchStep ==
  /\ switch.at \in Running
  /\ LET s == Served(switch, store)
     IN /\ store' = s.st
        /\ switch' = IF s.call.at = "saved" THEN None ELSE s.call
  /\ Disturb
  /\ UNCHANGED <<rows, options, reads, budget>>

---------------------------------------------------------------------------
(* The list                                                                *)

Refetch ==
  /\ rows # SlimRows(store)
  /\ rows' = SlimRows(store)
  /\ UNCHANGED <<store, options, form, reads, save, switch, budget>>

\* the options arrive and the effects of an open dialog run again
OptionsLoaded ==
  /\ ~options
  /\ options' = TRUE
  /\ UNCHANGED <<store, rows, form, reads, save, switch, budget>>

---------------------------------------------------------------------------
Init ==
  /\ store \in InitStore
  /\ rows = SlimRows(store)
  /\ options \in BOOLEAN
  /\ form = Closed
  /\ reads = {}
  /\ save = None
  /\ switch = None
  /\ budget = [open |-> MaxOpen, edits |-> MaxEdits, saves |-> MaxSaves,
               others |-> MaxOthers]

\* the dialog and the requests under way
Editing ==
  \/ \E r \in reads, arrives \in BOOLEAN : EditRead(r, arrives)
  \/ Change
  \/ Cancel
  \/ onSubmit
  \/ SaveStep
  \/ Saved
  \/ \E arrives \in BOOLEAN : SwitchRead(arrives)
  \/ SwitchStep
  \/ Refetch
  \/ OptionsLoaded

---------------------------------------------------------------------------
(* Properties                                                              *)

\* a field as the dialog can show it: quotas in hundredths of a GB
Shown(f, value) == IF f = "quota" THEN bytesToGB(value) ELSE value

\* the fields a save may not change: those its admin did not touch, but for the
\* flow, which the record cannot hold per inbound, and a cipher that is hidden
Kept(call, cipher) ==
  Fields \ (call.touched \cup {"flow"} \cup (IF cipher THEN {} ELSE {"sec"}))

KeepsTheRest(call, cipher) ==
  (call.at = "loop" /\ call.clean /\ call.new \in DOMAIN store.rec /\ store'.rec # store.rec) =>
    \A f \in Kept(call, cipher) :
      store.rec[call.new][f] = call.seen[f] =>
        Shown(f, store'.rec[call.new][f]) = Shown(f, call.seen[f])

\* An update of a client, by the dialog or by its enable switch, leaves every
\* field alone that its admin did not touch and nobody has changed since it was
\* read: through the dialog's fields and back, the copies of all inbounds and
\* their way back into the record.
EditKeepsTheRest ==
  [][/\ SaveStep => KeepsTheRest(save, save.at = "loop" /\ save.c.sec # "auto")
     /\ SwitchStep => KeepsTheRest(switch, TRUE)]_vars

\* what is in the store of a client that was saved as c
IsStored(e, c, ids) ==
  /\ e \in DOMAIN store.rec
  /\ GetInboundIdsForRecord(store, e) = ids
  /\ \A f \in {"quota", "expiry", "enable", "sub"} :
       /\ store.rec[e][f] = c[f]
       /\ \A ib \in ids : store.cfg[ib][e][f] = c[f]
  /\ \A f \in {"keys", "tag", "group"} : c[f] # Blank => store.rec[e][f] = c[f]
  /\ ids # {} => store.stat[e] = Limits(store.rec[e])

\* When the dialog is told that its client is saved, and nobody else wrote to
\* the store since it read the client (one that was attached, or a new
\* one under a free name), then the record, the copies of exactly
\* the inbounds chosen, and the enforced limits are what was sent.
SavedIsStored ==
  (save.at = "saved" /\ save.alone /\ save.clean)
    => IsStored(save.new, [save.c EXCEPT !.enable = @ \/ save.email = Blank], save.ids)
=============================================================================
