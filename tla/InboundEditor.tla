---------------------------- MODULE InboundEditor ----------------------------
(***************************************************************************)
(* The inbound dialog (pages/inbounds/form/): one form instance that every *)
(* opening fills anew, a tag that follows port, node and transport until   *)
(* it is typed by hand, and requests whose answers are written to whatever *)
(* the form holds when they arrive.  React runs the effects of an opening  *)
(* with the values watched before the fields were there.                   *)
(***************************************************************************)
EXTENDS InboundForm

CONSTANTS Ids,             \* ids of inbounds
          Stored,          \* what the panel may hold at first
          Ports,           \* ports typed
          Nodes,           \* enabled nodes of the select
          Protocols,       \* protocols picked
          TypedTags,       \* tags typed into the JSON
          MaxEdits, MaxOpenings   \* bounds

VARIABLES inbounds, fallbacks,   \* the panel's rows, <<>> for a free id
          modal,                 \* open or not, mode, id, and the number of the opening
          form, rows,            \* the form's store; the fallback rows
          autoTag, lastTag,      \* autoTagRef, lastWrittenTagRef
          tagTyped,              \* history: the tag was typed, and not written since
          requests, saving,
          was,                   \* history: the row the form was filled with
          touched, stray,        \* history: edited; answered for an earlier opening
          loaded,                \* history: the rows last loaded are this opening's
          edits
tagVars == <<autoTag, lastTag, tagTyped>>
vars == <<inbounds, fallbacks, modal, form, rows, tagVars, requests, saving, was, touched, stray, loaded, edits>>

None == <<>>
Unmounted == [protocol |-> "", port |-> 0, nodeId |-> 0, tag |-> <<>>, db |-> "", settings |-> <<>>, stream |-> <<>>, sniffing |-> [enabled |-> FALSE]]
Untouched == [protocol |-> "vless", port |-> 9, nodeId |-> 0, tag |-> <<>>, db |-> "default", sniffing |-> [enabled |-> FALSE],
              settings |-> createDefaultInboundSettings("vless", 0), stream |-> TcpStream(newStreamSlice("tcp"))]

------------------------------------------------------------------------------
\* Watched fields: only those on screen.
NodeShown(f) == Nodes # {} /\ f.protocol \in NodeProtocols
currentTagInput(f) ==
  [port |-> f.port, nodeId |-> IF NodeShown(f) THEN f.nodeId ELSE 0, protocol |-> f.protocol,
   network |-> IF f.protocol \in StreamProtocols \ {"hysteria"} THEN Read(f.stream, "network", "") ELSE "",
   settings |-> [k \in DOMAIN f.settings \cap {"network", "allowedNetwork", "udp"} |-> f.settings[k]]]
\* Mutant: the effect does not depend on the network.
tagDependencies_NoNetwork(f) == Drop(currentTagInput(f), {"network"})
\* What the tag's second effect depends on.
tagDependencies(f) == currentTagInput(f)
FullInput(f) == [currentTagInput(f) EXCEPT !.nodeId = f.nodeId]

\* The two effects that keep the tag, run for the tag and the fields of a render.
TagEffects(f, tag, in, tagChanged, inChanged, auto, last) ==
  LET auto2 == IF tagChanged /\ tag # last THEN isAutoInboundTag(tag, in) ELSE auto
      next == composeInboundTag(in)
      writes == auto2 /\ inChanged /\ next # f.tag
  IN  [form |-> IF writes THEN [f EXCEPT !.tag = next] ELSE f, auto |-> auto2, last |-> IF writes THEN next ELSE last, written |-> writes]
Fill(effects, typed) ==
  form' = effects.form /\ autoTag' = effects.auto /\ lastTag' = effects.last /\ tagTyped' = (typed /\ ~effects.written)
Settle(f) ==
  Fill(TagEffects(f, f.tag, currentTagInput(f), f.tag # form.tag, tagDependencies(f) # tagDependencies(form), autoTag, lastTag),
       tagTyped \/ f.tag # form.tag)
\* An opening: first with nothing watched yet, then with the fields on screen.
Filled(f) ==
  LET blank == currentTagInput(Unmounted)
      one == TagEffects(f, <<>>, blank, TRUE, TRUE, isAutoInboundTag(f.tag, FullInput(f)), f.tag)
      in == currentTagInput(one.form)
  IN  TagEffects(one.form, one.form.tag, in, TRUE, in # blank, one.auto, one.last)

\* What the form and a row hold, whatever their settings and stream are.
IsForm(f) == DOMAIN f = DOMAIN Unmounted
\* A stream as the dialog writes it, or an old one without the slice of its network:
\* no slice of another network or security, certificates without useFile, and masks
\* only when there are some.
IsSavedStream(s) ==
  s # <<>> =>
  /\ {"network", "security"} \subseteq DOMAIN s /\ DOMAIN s \subseteq KeptKeys(s)
  /\ s.network \in StreamNetworks /\ s.security \in {"none", "tls", "reality"}
  /\ s.security # "none" => SliceOf(s.security) \in DOMAIN s
  /\ LET certs == tlsCerts(s) IN certs = [i \in DOMAIN certs |-> Drop(certs[i], {"useFile"})]
  /\ "finalmask" \in DOMAIN s =>
       /\ "kcpSettings" \notin DOMAIN s.finalmask
       /\ \E k \in DOMAIN s.finalmask : k \notin DOMAIN NoMasks \/ s.finalmask[k] # <<>>
IsSaved(row) == IsForm(row) /\ row.sniffing = normalizeSniffing(row.sniffing) /\ IsSavedStream(row.stream)
\* The fallback rows that are saved: those with a child or a destination.
Complete(list) == {i \in DOMAIN list : list[i].childId # 0 \/ list[i].dest # ""}
IsRows(list) == list \in Seq(Range(list))
\* The panel holds what the dialog writes.
ASSUME InboundAssumption ==
  /\ IsFiniteSet(Ids)
  /\ \A s \in Stored :
       /\ DOMAIN s.inbounds = Ids /\ \A id \in Ids : s.inbounds[id] = None \/ IsSaved(s.inbounds[id])
       /\ DOMAIN s.fallbacks = Ids
       /\ \A id \in Ids : IsRows(s.fallbacks[id]) /\ Complete(s.fallbacks[id]) = DOMAIN s.fallbacks[id]

isFallbackHost(f) == f.protocol \in {"vless", "trojan"} /\ Read(f.stream, "network", "") = "tcp" /\ Read(f.stream, "security", "none") # "none"

EditorInit ==
  /\ \E s \in Stored : inbounds = s.inbounds /\ fallbacks = s.fallbacks
  /\ modal = [open |-> FALSE, mode |-> "add", id |-> 0, nth |-> 0]
  /\ form = Unmounted /\ rows = <<>> /\ autoTag = TRUE /\ lastTag = <<>> /\ tagTyped = FALSE
  /\ requests = {} /\ saving = FALSE
  /\ was = None /\ touched = FALSE /\ stray = FALSE /\ loaded = FALSE /\ edits = 0

------------------------------------------------------------------------------
\* Opening, closing.
Ask(r) == requests' = requests \cup {r}
Opening(mode, id, f) ==
  /\ ~modal.open /\ modal.nth < MaxOpenings
  /\ modal' = [open |-> TRUE, mode |-> mode, id |-> id, nth |-> modal.nth + 1]
  /\ Fill(Filled(Seeded(f)), FALSE)
  /\ touched' = FALSE /\ stray' = FALSE /\ loaded' = FALSE
OpenAdd == Opening("add", 0, Untouched) /\ was' = None /\ rows' = <<>> /\ UNCHANGED <<inbounds, fallbacks, requests, saving, edits>>
OpenEdit(id) ==
  LET row == inbounds[id]
  IN  /\ row # None
      /\ Opening("edit", id, rawInboundToFormValues(row)) /\ was' = row
      /\ IF row.protocol \in {"vless", "trojan"} THEN Ask([kind |-> "load", nth |-> modal.nth + 1, id |-> id]) /\ UNCHANGED rows
         ELSE rows' = <<>> /\ UNCHANGED requests
      /\ UNCHANGED <<inbounds, fallbacks, saving, edits>>
\* The fields go with the dialog; the fallback rows and the requests stay.
onClose ==
  /\ modal' = [modal EXCEPT !.open = FALSE] /\ form' = Unmounted /\ autoTag' = TRUE /\ lastTag' = <<>> /\ tagTyped' = FALSE
  /\ was' = None /\ touched' = FALSE /\ stray' = FALSE /\ loaded' = FALSE
Close == modal.open /\ onClose /\ UNCHANGED <<inbounds, fallbacks, rows, requests, saving, edits>>

------------------------------------------------------------------------------
\* Edits.
Editing == modal.open /\ edits < MaxEdits /\ edits' = edits + 1 /\ touched' = TRUE
Unasked == UNCHANGED <<inbounds, fallbacks, modal, rows, requests, saving, was, stray, loaded>>
Change(f) == Editing /\ Settle(f) /\ Unasked
n == edits + 1

EditBasic ==
  \/ \E port \in Ports : Change([form EXCEPT !.port = port])
  \/ Change([form EXCEPT !.db = "typed"])
  \/ \E node \in {0} \cup Nodes : NodeShown(form) /\ modal.mode = "add" /\ Change([form EXCEPT !.nodeId = node])
\* Picking a protocol when adding, with what onValuesChange resets.
PickProtocol(protocol) ==
  /\ modal.mode = "add" /\ protocol # form.protocol
  /\ Change([form EXCEPT
       !.protocol = protocol, !.settings = createDefaultInboundSettings(protocol, n),
       !.nodeId = IF protocol \in NodeProtocols THEN @ ELSE 0,
       !.stream = IF protocol = "hysteria" THEN HysteriaStream(n)
                  ELSE IF Read(@, "network", "") = "hysteria" THEN TcpStream(<<>>) ELSE @])
EditProtocol == \E s \in ProtocolInputs(form, n) : Change([form EXCEPT !.settings = s])
StreamShown == form.protocol \in StreamProtocols /\ "network" \in DOMAIN form.stream
PickNetwork(network) ==
  /\ StreamShown /\ form.protocol # "hysteria" /\ network # form.stream.network
  /\ Change(Seeded([form EXCEPT !.stream = onNetworkChange(@, network)]))
EditStream == StreamShown /\ \E s \in StreamInputs(form, n) : Change([form EXCEPT !.stream = s])
EditSecurity == StreamShown /\ \E s \in SecurityInputs(form.stream, n) : Change([form EXCEPT !.stream = s])
EditSniffing == \E s \in SniffingInputs(form.sniffing) : Change([form EXCEPT !.sniffing = s])
\* The advanced editors write what was typed, with no cascade.
EditJson ==
  \/ \E tag \in TypedTags : Change([form EXCEPT !.tag = tag])
  \/ \E protocol \in Protocols, port \in Ports :
       Change([form EXCEPT !.protocol = protocol, !.port = port, !.settings = createDefaultInboundSettings(protocol, n)])
  \/ StreamShown /\ Change([form EXCEPT !.stream = Drop(@, Slices)])

\* Fallback rows: [childId, dest], and the values taken over from the child.
deriveFallbackDefaults(id) == Read(Read(inbounds[id].stream, SliceOf(Read(inbounds[id].stream, "network", "")), <<>>), "path", "")
Children == {id \in Ids : inbounds[id] # None} \ {modal.id}
updateFallback(row) ==
  {[row EXCEPT !.dest = "typed"]}
    \cup {[row EXCEPT !.childId = id, !.path = IF row.dest = "" /\ @ = "" THEN deriveFallbackDefaults(id) ELSE @] : id \in Children \ {row.childId}}
addAllFallbacks ==
  LET missing == SetToSeq(Children \ {rows[i].childId : i \in DOMAIN rows})
  IN  rows \o [i \in DOMAIN missing |-> [childId |-> missing[i], dest |-> "", path |-> deriveFallbackDefaults(missing[i])]]
Swapped(i) == [rows EXCEPT ![i] = rows[i + 1], ![i + 1] = rows[i]]
EditRows ==
  /\ isFallbackHost(form) /\ Editing
  /\ rows' \in ListEdits(rows, [childId |-> 0, dest |-> "", path |-> ""], updateFallback)
                 \cup {addAllFallbacks} \cup {Swapped(i) : i \in 1..(Len(rows) - 1)}
  /\ UNCHANGED <<inbounds, fallbacks, modal, form, tagVars, requests, saving, was, stray, loaded>>

------------------------------------------------------------------------------
\* Requests of the security and VLESS forms.
PickSecurity(next) ==
  /\ StreamShown /\ next \in Securities(form) /\ Editing
  /\ Settle(Seeded([form EXCEPT !.stream = onSecurityChange(@, next, n)]))
  /\ IF next = "reality" THEN Ask([kind |-> "keypair", nth |-> modal.nth, quiet |-> TRUE, n |-> n]) ELSE UNCHANGED requests
  /\ UNCHANGED <<inbounds, fallbacks, modal, rows, saving, was, stray, loaded>>
Offered ==
  (IF form.protocol = "vless" THEN {"vlessenc"} ELSE {})
    \cup IF ~StreamShown THEN {}
         ELSE CASE form.stream.security = "reality" -> {"keypair", "mldsa"} [] form.stream.security = "tls" -> {"ech", "cert"} [] OTHER -> {}
Generate(kind) ==
  /\ kind \in Offered /\ ~saving /\ Editing
  /\ Ask([kind |-> kind, nth |-> modal.nth, quiet |-> FALSE, n |-> n]) /\ saving' = TRUE
  /\ UNCHANGED <<inbounds, fallbacks, modal, form, rows, tagVars, was, stray, loaded>>
\* setFieldValue makes the parents that are missing.
Written(f, r) ==
  LET Put(slice, fields) == [f EXCEPT !.stream = With(@, slice, Over(fields, Read(@, slice, <<>>)))]
      certs == Read(Read(f.stream, "tlsSettings", <<>>), "certificates", <<>>)
      first == With(IF certs = <<>> THEN <<>> ELSE certs[1], "files", "panel")
  IN  CASE r.kind = "keypair" -> Put("realitySettings", [privateKey |-> r.n, publicKey |-> r.n])
        [] r.kind = "mldsa" -> Put("realitySettings", [mldsa65Seed |-> r.n, mldsa65Verify |-> r.n])
        [] r.kind = "ech" -> Put("tlsSettings", [echServerKeys |-> r.n, echConfigList |-> r.n])
        [] r.kind = "cert" -> Put("tlsSettings", [certificates |-> <<first>> \o SubSeq(certs, 2, Len(certs))])
        [] OTHER -> [f EXCEPT !.settings = Over([decryption |-> r.n, encryption |-> r.n], @)]
Answered(r) == r \in requests /\ requests' = requests \ {r}
Generated(r) ==
  /\ r.kind \in {"keypair", "mldsa", "ech", "cert", "vlessenc"} /\ Answered(r)
  /\ \/ modal.open /\ Settle(Written(form, r)) /\ stray' = (stray \/ r.nth # modal.nth)
     \/ UNCHANGED <<form, tagVars, stray>>
  /\ saving' = (saving /\ r.quiet)
  /\ UNCHANGED <<inbounds, fallbacks, modal, rows, was, touched, loaded, edits>>
Load(r) ==
  /\ r.kind = "load" /\ Answered(r)
  /\ \/ rows' = fallbacks[r.id] /\ loaded' = (r.nth = modal.nth)
     \/ rows' = <<>> /\ loaded' = FALSE
  /\ UNCHANGED <<inbounds, fallbacks, modal, form, tagVars, saving, was, touched, stray, edits>>

------------------------------------------------------------------------------
\* Saving: the inbound, then the rows of a host, then the dialog closes.
SavedRows(list) ==
  LET kept == Complete(list)
  IN  [k \in 1..Cardinality(kept) |-> list[CHOOSE i \in kept : Cardinality({j \in kept : j <= i}) = k]]
Submit ==
  /\ modal.open /\ ~saving /\ Valid(form)
  /\ Ask([kind |-> "save", nth |-> modal.nth, mode |-> modal.mode, id |-> modal.id, host |-> isFallbackHost(form), rows |-> SavedRows(rows),
          payload |-> formValuesToWirePayload(Parsed(form))])
  /\ saving' = TRUE
  /\ UNCHANGED <<inbounds, fallbacks, modal, form, rows, tagVars, was, touched, stray, loaded, edits>>
FullTag(row) == composeInboundTag(FullInput(row))
Conflict(id, row) ==
  \E other \in Ids \ {id} :
    /\ inbounds[other] # None /\ inbounds[other].port = row.port /\ inbounds[other].nodeId = row.nodeId
    /\ inboundTransports(inbounds[other].protocol, Read(inbounds[other].stream, "network", ""), inbounds[other].settings)
         \cap inboundTransports(row.protocol, Read(row.stream, "network", ""), row.settings) # {}
Taken(tag, id) == \E other \in Ids \ {id} : inbounds[other] # None /\ inbounds[other].tag = tag
resolveInboundTag(row, id) ==
  IF row.tag # <<>> /\ ~Taken(row.tag, id) THEN row.tag
  ELSE IF ~Taken(FullTag(row), id) THEN FullTag(row) ELSE Append(FullTag(row), 2)
normalizeStreamSettings(row) == IF row.protocol \in StreamProtocols THEN row ELSE [row EXCEPT !.stream = <<>>]
UpdatedRow(id, payload) ==
  LET old == inbounds[id]
      row == [normalizeStreamSettings(payload) EXCEPT !.nodeId = old.nodeId]
      renew == isAutoInboundTag(old.tag, FullInput(old)) /\ row.tag = old.tag
  IN  [row EXCEPT !.tag = resolveInboundTag(IF renew THEN [row EXCEPT !.tag = <<>>] ELSE row, id)]
AddedRow(id, payload) == LET row == normalizeStreamSettings(payload) IN [row EXCEPT !.tag = resolveInboundTag(row, id)]
Save(r) ==
  /\ r.kind = "save" /\ r \in requests
  /\ \E id \in IF r.mode = "edit" THEN {r.id} ELSE {i \in Ids : inbounds[i] = None} :
       /\ ~Conflict(id, normalizeStreamSettings(r.payload))
       /\ inbounds' = [inbounds EXCEPT ![id] = IF r.mode = "edit" THEN UpdatedRow(id, r.payload) ELSE AddedRow(id, r.payload)]
       /\ IF r.host
            THEN /\ requests' = (requests \ {r}) \cup {[kind |-> "rows", nth |-> r.nth, id |-> id, rows |-> r.rows]}
                 /\ UNCHANGED <<modal, form, tagVars, was, touched, stray, loaded, saving>>
            ELSE requests' = requests \ {r} /\ onClose /\ saving' = FALSE
  /\ UNCHANGED <<fallbacks, rows, edits>>
SaveFails(r) ==
  /\ r.kind = "save" /\ Answered(r) /\ saving' = FALSE
  /\ UNCHANGED <<inbounds, fallbacks, modal, form, rows, tagVars, was, touched, stray, loaded, edits>>
SaveRows(r) ==
  /\ r.kind = "rows" /\ Answered(r) /\ onClose /\ saving' = FALSE
  /\ fallbacks' \in {fallbacks, [fallbacks EXCEPT ![r.id] = r.rows]}
  /\ UNCHANGED <<inbounds, rows, edits>>

EditorNext ==
  \/ OpenAdd \/ (\E id \in Ids : OpenEdit(id)) \/ Close
  \/ EditBasic \/ (\E p \in Protocols : PickProtocol(p)) \/ EditProtocol \/ (\E w \in Networks : PickNetwork(w))
  \/ EditStream \/ EditSecurity \/ EditSniffing \/ EditJson \/ EditRows
  \/ (\E next \in {"none", "tls", "reality"} : PickSecurity(next))
  \/ (\E kind \in {"keypair", "mldsa", "ech", "cert", "vlessenc"} : Generate(kind))
  \/ (\E r \in requests : Generated(r) \/ Load(r) \/ Save(r) \/ SaveFails(r) \/ SaveRows(r)) \/ Submit
EditorSpec == EditorInit /\ [][EditorNext]_vars

------------------------------------------------------------------------------
Known(key, value, now) ==
  IF key \in Slices \cup {"hysteriaSettings", "tlsSettings", "realitySettings", "finalmask"}
    THEN \A k \in DOMAIN value : (k \in {"tcp", "udp"} /\ value[k] = <<>>) \/ (k \in DOMAIN now /\ now[k] = value[k]) ELSE now = value
Preserved(old, now) == \A k \in DOMAIN old : (k = "fallbacks" /\ old[k] = <<>>) \/ (k \in DOMAIN now /\ Known(k, old[k], now[k]))

\* An inbound opened and not edited can be saved, and saving it changes nothing
\* the panel holds of it but its tag: clients, keys, masks and slices the form
\* shows no field for go back as they came, and so do its fallback rows.
UntouchedIsKept ==
  modal.open /\ modal.mode = "edit" /\ ~touched /\ ~stray =>
    LET now == formValuesToWirePayload(Parsed(form))
    IN  /\ Valid(form)
        /\ <<now.protocol, now.port, now.nodeId, now.db, now.sniffing>> = <<was.protocol, was.port, was.nodeId, was.db, was.sniffing>>
        /\ Preserved(was.settings, now.settings) /\ Preserved(was.stream, now.stream)
        /\ loaded => SavedRows(rows) = rows

\* A tag that counts as automatic names the inbound's own port, node and transports,
\* whatever was changed, picked or typed in JSON since; only the tag the dialog wrote
\* last passes for automatic when it is typed by hand, whatever the inbound is by then.
TagTellsTruth ==
  /\ modal.open /\ autoTag /\ (NodeShown(form) \/ form.nodeId = 0)
  /\ ~(tagTyped /\ form.tag = lastTag)
  => isAutoInboundTag(form.tag, FullInput(form))

==============================================================================
