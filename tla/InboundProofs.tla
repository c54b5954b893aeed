----------------------------- MODULE InboundProofs -----------------------------
(***************************************************************************)
(* Proofs about InboundEditor, for any rows, inputs and number of edits,   *)
(* openings, requests and late answers: the tag that counts as automatic   *)
(* names the inbound's own port, node and transports, and a dialog nobody  *)
(* touched saves the row and the fallbacks as they are stored.             *)
(***************************************************************************)
EXTENDS InboundEditor, WellFoundedInduction, FiniteSetTheorems, TLAPS

Fields == DOMAIN Unmounted

-----------------------------------------------------------------------------
\* Forms and rows keep their fields, whatever is edited in them.

FormsOK ==
  /\ IsForm(form)
  /\ DOMAIN inbounds = Ids /\ \A id \in Ids : inbounds[id] = None \/ IsForm(inbounds[id])
  /\ \A r \in requests : r.kind = "save" => IsForm(r.payload)

\* The fields of a form.
LEMMA FieldsAre == Fields = {"protocol", "port", "nodeId", "tag", "db", "settings", "stream", "sniffing"}
BY DEF Fields, Unmounted

\* What an edit, the way into the form and the way back leave of the fields.
LEMMA FieldsStay ==
  ASSUME NEW f, IsForm(f)
  PROVE  /\ \A v : /\ IsForm([f EXCEPT !.tag = v]) /\ IsForm([f EXCEPT !.port = v]) /\ IsForm([f EXCEPT !.db = v])
                   /\ IsForm([f EXCEPT !.nodeId = v]) /\ IsForm([f EXCEPT !.settings = v])
                   /\ IsForm([f EXCEPT !.stream = v]) /\ IsForm([f EXCEPT !.sniffing = v])
         /\ IsForm(Seeded(f)) /\ IsForm(rawInboundToFormValues(f)) /\ IsForm(Parsed(f))
         /\ IsForm(formValuesToWirePayload(f)) /\ IsForm(normalizeStreamSettings(f))
         /\ \A r : IsForm(Written(f, r))
<1>1. \A v : /\ IsForm([f EXCEPT !.tag = v]) /\ IsForm([f EXCEPT !.port = v]) /\ IsForm([f EXCEPT !.db = v])
             /\ IsForm([f EXCEPT !.nodeId = v]) /\ IsForm([f EXCEPT !.settings = v])
             /\ IsForm([f EXCEPT !.stream = v]) /\ IsForm([f EXCEPT !.sniffing = v])
  BY DEF IsForm
<1>2. Seeded(f) = f \/ \E v : Seeded(f) = [f EXCEPT !.settings = v]
  BY DEF Seeded
<1>3. DOMAIN rawInboundToFormValues(f) = DOMAIN f
  BY DEF rawInboundToFormValues
<1>4. DOMAIN Parsed(f) = DOMAIN f
  BY DEF Parsed
<1>5. DOMAIN formValuesToWirePayload(f) = DOMAIN f
  BY DEF formValuesToWirePayload
<1>6. DOMAIN normalizeStreamSettings(f) = DOMAIN f
  BY DEF normalizeStreamSettings
<1>7. \A r : DOMAIN Written(f, r) = DOMAIN f
  BY DEF Written
<1> QED
  BY <1>1, <1>2, <1>3, <1>4, <1>5, <1>6, <1>7 DEF IsForm

-----------------------------------------------------------------------------
\* Tags.

\* The tag the dialog composes counts as automatic.
LEMMA ComposedIsAuto ==
  ASSUME NEW in
  PROVE  isAutoInboundTag(composeInboundTag(in), in)
<1> DEFINE tag == composeInboundTag(in)
<1>1. tag = <<in.nodeId, in.port, inboundTransports(in.protocol, in.network, in.settings)>>
  BY DEF composeInboundTag
<1>2. Len(tag) = 3 /\ SubSeq(tag, 1, 3) = tag
  <2> DEFINE S == {in.nodeId, in.port, inboundTransports(in.protocol, in.network, in.settings)}
  <2>1. tag \in Seq(S) /\ Len(tag) = 3
    BY <1>1
  <2>2. \A s \in Seq(S) : SubSeq(s, 1, Len(s)) = s
    <3> SUFFICES ASSUME NEW s \in Seq(S)
                 PROVE  SubSeq(s, 1, Len(s)) = s
      OBVIOUS
    <3> HIDE DEF S
    <3> QED
      OBVIOUS
  <2> HIDE DEF S, tag
  <2>3. SubSeq(tag, 1, Len(tag)) = tag
    BY <2>1, <2>2
  <2> QED
    BY <2>1, <2>3
<1> QED
  BY <1>2 DEF isAutoInboundTag

\* The fields a tag is made of do not include the tag.
LEMMA InputsApart ==
  ASSUME NEW f, IsForm(f)
  PROVE  \A tag : currentTagInput([f EXCEPT !.tag = tag]) = currentTagInput(f) /\ [f EXCEPT !.tag = tag].tag = tag
<1> SUFFICES ASSUME NEW tag
             PROVE  currentTagInput([f EXCEPT !.tag = tag]) = currentTagInput(f) /\ [f EXCEPT !.tag = tag].tag = tag
  OBVIOUS
<1> DEFINE g == [f EXCEPT !.tag = tag]
<1>1. DOMAIN f = {"protocol", "port", "nodeId", "tag", "db", "settings", "stream", "sniffing"}
  BY FieldsAre DEF IsForm, Fields
<1>2. g.protocol = f.protocol /\ g.port = f.port /\ g.nodeId = f.nodeId /\ g.settings = f.settings /\ g.stream = f.stream /\ g.tag = tag
  <2>1. \A x \in DOMAIN f : g[x] = IF x = "tag" THEN tag ELSE f[x]
    OBVIOUS
  <2> HIDE DEF g
  <2> QED
    BY <1>1, <2>1
<1> HIDE DEF g
<1>3. currentTagInput(g) = currentTagInput(f)
  BY <1>2 DEF currentTagInput, NodeShown
<1> QED
  BY <1>2, <1>3 DEF g

\* The tag of a form is automatic for what the form shows.
Named(f) == isAutoInboundTag(f.tag, currentTagInput(f))
TagInv == modal.open /\ autoTag /\ ~(tagTyped /\ form.tag = lastTag) => Named(form)

\* An opening leaves a tag made of the fields on screen.
LEMMA FilledIsNamed ==
  ASSUME NEW f, IsForm(f)
  PROVE  IsForm(Filled(f).form) /\ Named(Filled(f).form)
<1> DEFINE blank == currentTagInput(Unmounted)
           first == composeInboundTag(blank)
           one == TagEffects(f, <<>>, blank, TRUE, TRUE, isAutoInboundTag(f.tag, FullInput(f)), f.tag)
           in == currentTagInput(one.form)
           two == TagEffects(one.form, one.form.tag, in, TRUE, in # blank, one.auto, one.last)
<1>1. isAutoInboundTag(<<>>, blank) /\ (f.tag = <<>> => isAutoInboundTag(f.tag, FullInput(f)))
  BY DEF isAutoInboundTag
<1>2. one.auto = TRUE
  <2>1. one.auto = IF <<>> # f.tag THEN isAutoInboundTag(<<>>, blank) ELSE isAutoInboundTag(f.tag, FullInput(f))
    BY DEF TagEffects
  <2> QED
    BY <1>1, <2>1 DEF isAutoInboundTag
<1>3. IsForm(one.form) /\ one.form.tag = first /\ one.last = first
  <2>1. one.form = IF first # f.tag THEN [f EXCEPT !.tag = first] ELSE f
    BY <1>1 DEF TagEffects
  <2>2. one.last = IF first # f.tag THEN first ELSE f.tag
    BY <1>1 DEF TagEffects
  <2>3. [f EXCEPT !.tag = first].tag = first
    BY InputsApart
  <2>4. IsForm([f EXCEPT !.tag = first])
    BY FieldsStay
  <2> HIDE DEF one, first
  <2> QED
    BY <2>1, <2>2, <2>3, <2>4
<1>4. two.form = IF in # blank /\ composeInboundTag(in) # one.form.tag THEN [one.form EXCEPT !.tag = composeInboundTag(in)] ELSE one.form
  BY <1>2, <1>3 DEF TagEffects
<1>5. IsForm(two.form) /\ two.form.tag = composeInboundTag(in) /\ currentTagInput(two.form) = in
  <2> HIDE DEF one
  <2>a. \A tag : currentTagInput([one.form EXCEPT !.tag = tag]) = in /\ [one.form EXCEPT !.tag = tag].tag = tag
    BY <1>3, InputsApart
  <2>b. \A tag : IsForm([one.form EXCEPT !.tag = tag])
    BY <1>3, FieldsStay
  <2>c. in = blank => first = composeInboundTag(in)
    OBVIOUS
  <2> HIDE DEF in, first, two
  <2>1. CASE in # blank /\ composeInboundTag(in) # one.form.tag
    BY <1>4, <2>1, <2>a, <2>b
  <2>2. CASE ~(in # blank /\ composeInboundTag(in) # one.form.tag)
    BY <1>3, <1>4, <2>2, <2>c DEF in
  <2> QED
    BY <2>1, <2>2
<1>6. Filled(f) = two
  BY DEF Filled
<1> HIDE DEF one, two, in
<1>7. Named(two.form)
  BY <1>5, ComposedIsAuto DEF Named
<1> QED
  BY <1>5, <1>6, <1>7

\* After any change the effects leave the tag automatic, unless it is kept by hand.
LEMMA SettleKeepsNamed ==
  ASSUME IsForm(form), TagInv, modal.open, NEW f, IsForm(f), Settle(f), modal' = modal
  PROVE  IsForm(form') /\ TagInv'
<1> DEFINE in == currentTagInput(f)
           next == composeInboundTag(in)
           auto2 == IF f.tag # form.tag /\ f.tag # lastTag THEN isAutoInboundTag(f.tag, in) ELSE autoTag
           changed == in # currentTagInput(form)
           writes == auto2 /\ changed /\ next # f.tag
<1>1. /\ form' = IF writes THEN [f EXCEPT !.tag = next] ELSE f
      /\ autoTag' = auto2 /\ lastTag' = IF writes THEN next ELSE lastTag
      /\ tagTyped' = ((tagTyped \/ f.tag # form.tag) /\ ~writes)
  BY DEF Settle, Fill, TagEffects, tagDependencies
<1>2. CASE writes
  <2>1. form' = [f EXCEPT !.tag = next]
    BY <1>1, <1>2
  <2>2. IsForm(form') /\ form'.tag = next /\ currentTagInput(form') = in
    BY <2>1, InputsApart, FieldsStay
  <2>3. isAutoInboundTag(form'.tag, currentTagInput(form'))
    BY <2>2, ComposedIsAuto
  <2> QED
    BY <2>2, <2>3 DEF TagInv, Named
<1>3. CASE ~writes
  <2>1. form' = f /\ lastTag' = lastTag /\ tagTyped' = (tagTyped \/ f.tag # form.tag)
    BY <1>1, <1>3
  <2> SUFFICES ASSUME auto2, ~((tagTyped \/ f.tag # form.tag) /\ f.tag = lastTag)
               PROVE  Named(f)
    BY <1>1, <2>1 DEF TagInv
  <2>2. CASE f.tag # form.tag
    BY <2>2 DEF Named
  <2>3. CASE f.tag = form.tag /\ changed
    <3>1. next = f.tag
      BY <1>3, <2>3
    <3> QED
      BY <3>1, ComposedIsAuto DEF Named
  <2>4. CASE f.tag = form.tag /\ ~changed
    BY <2>4 DEF TagInv, Named
  <2> QED
    BY <2>2, <2>3, <2>4
<1> QED
  BY <1>2, <1>3


-----------------------------------------------------------------------------
\* Every step of the editor.

Inv == FormsOK /\ TagInv

\* A request under way that is not a save holds no form.
LEMMA RequestsStay ==
  ASSUME FormsOK, NEW r, requests' \subseteq requests \cup {r}, r.kind = "save" => IsForm(r.payload),
         IsForm(form'), inbounds' = inbounds
  PROVE  FormsOK'
BY DEF FormsOK

\* A form with all its fields keeps the invariant when its tag is settled.
LEMMA Edited ==
  ASSUME Inv, modal.open, NEW f, IsForm(f), Settle(f), UNCHANGED <<inbounds, modal>>,
         NEW r, requests' \subseteq requests \cup {r}, r.kind = "save" => IsForm(r.payload)
  PROVE  Inv'
<1>1. IsForm(form') /\ TagInv'
  BY SettleKeepsNamed DEF Inv, FormsOK
<1>2. FormsOK'
  BY <1>1, RequestsStay DEF Inv
<1> QED
  BY <1>1, <1>2 DEF Inv

\* So does a change of it,
LEMMA Changed ==
  ASSUME Inv, NEW f, Change(f), IsForm(f)
  PROVE  Inv'
<1>1. modal.open /\ Settle(f) /\ UNCHANGED <<inbounds, modal>> /\ requests' = requests
  BY DEF Change, Editing, Unasked
<1>2. requests' \subseteq requests \cup {[kind |-> "none"]} /\ [kind |-> "none"].kind # "save"
  BY <1>1
<1> QED
  BY <1>1, <1>2, Edited

\* The form and the tag as they are.
LEMMA FormUntouched ==
  ASSUME Inv, UNCHANGED <<form, tagVars, modal, inbounds>>,
         NEW r, requests' \subseteq requests \cup {r}, r.kind = "save" => IsForm(r.payload)
  PROVE  Inv'
<1>1. FormsOK'
  BY RequestsStay DEF Inv, FormsOK
<1>2. TagInv'
  BY DEF Inv, TagInv, Named, tagVars, currentTagInput, NodeShown
<1> QED
  BY <1>1, <1>2 DEF Inv

\* and a form a dialog opens with.
LEMMA Opened ==
  ASSUME Inv, NEW mode, NEW id, NEW f, Opening(mode, id, f), IsForm(f), inbounds' = inbounds,
         NEW r, requests' \subseteq requests \cup {r}, r.kind = "save" => IsForm(r.payload)
  PROVE  Inv'
<1>1. form' = Filled(Seeded(f)).form /\ tagTyped' = FALSE
  BY DEF Opening, Fill
<1>2. IsForm(form') /\ Named(form')
  BY <1>1, FieldsStay, FilledIsNamed
<1>3. FormsOK'
  BY <1>2, RequestsStay DEF Inv
<1>4. TagInv'
  BY <1>2 DEF TagInv, Named
<1> QED
  BY <1>3, <1>4 DEF Inv

\* A closed dialog leaves a form with its fields and a true tag.
LEMMA ClosedIs ==
  ASSUME onClose
  PROVE  IsForm(form') /\ TagInv'
<1>1. form' = Unmounted /\ modal' = [modal EXCEPT !.open = FALSE]
  BY DEF onClose
<1> QED
  BY <1>1 DEF IsForm, TagInv


\* A change in any form, typed, picked or put in by the advanced editors.
LEMMA EditsStay ==
  ASSUME Inv, EditBasic \/ (\E q \in Protocols : PickProtocol(q)) \/ EditProtocol \/ (\E w \in Networks : PickNetwork(w))
              \/ EditStream \/ EditSecurity \/ EditSniffing \/ EditJson
  PROVE  Inv'
<1>0. IsForm(form)
  BY DEF Inv, FormsOK
<1>a. ASSUME NEW f, f = form \/ IsForm(f)
      PROVE  /\ \A v : /\ IsForm([f EXCEPT !.tag = v]) /\ IsForm([f EXCEPT !.port = v]) /\ IsForm([f EXCEPT !.db = v])
                       /\ IsForm([f EXCEPT !.nodeId = v]) /\ IsForm([f EXCEPT !.settings = v])
                       /\ IsForm([f EXCEPT !.stream = v]) /\ IsForm([f EXCEPT !.sniffing = v])
             /\ IsForm(Seeded(f))
  BY <1>0, <1>a, FieldsStay
<1>1. CASE EditBasic
  <2>1. PICK v : Change([form EXCEPT !.port = v]) \/ Change([form EXCEPT !.db = v]) \/ Change([form EXCEPT !.nodeId = v])
    BY <1>1 DEF EditBasic
  <2> QED
    BY <1>a, <2>1, Changed
<1>2. ASSUME NEW q \in Protocols, PickProtocol(q)
      PROVE  Inv'
  <2>1. \E settings, node, stream :
          Change([form EXCEPT !.protocol = q, !.settings = settings, !.nodeId = node, !.stream = stream])
    BY <1>2 DEF PickProtocol
  <2>2. PICK settings, node, stream :
          Change([form EXCEPT !.protocol = q, !.settings = settings, !.nodeId = node, !.stream = stream])
    BY <2>1
  <2>3. IsForm([form EXCEPT !.protocol = q, !.settings = settings, !.nodeId = node, !.stream = stream])
    BY <1>0 DEF IsForm
  <2> QED
    BY <2>2, <2>3, Changed
<1>3. CASE EditProtocol
  BY <1>3, <1>a, Changed DEF EditProtocol
<1>4. ASSUME NEW w \in Networks, PickNetwork(w)
      PROVE  Inv'
  <2>1. PICK v : Change(Seeded([form EXCEPT !.stream = v]))
    BY <1>4 DEF PickNetwork
  <2>2. IsForm([form EXCEPT !.stream = v])
    BY <1>a
  <2>3. IsForm(Seeded([form EXCEPT !.stream = v]))
    BY <2>2, FieldsStay
  <2> QED
    BY <2>1, <2>3, Changed
<1>5. CASE EditStream \/ EditSecurity
  BY <1>5, <1>a, Changed DEF EditStream, EditSecurity
<1>6. CASE EditSniffing
  BY <1>6, <1>a, Changed DEF EditSniffing
<1>7. CASE EditJson
  <2>1. CASE \E tag \in TypedTags : Change([form EXCEPT !.tag = tag])
    BY <1>a, <2>1, Changed
  <2>2. CASE \E protocol \in Protocols, port \in Ports :
               Change([form EXCEPT !.protocol = protocol, !.port = port, !.settings = createDefaultInboundSettings(protocol, n)])
    <3>1. PICK protocol, port, settings : Change([form EXCEPT !.protocol = protocol, !.port = port, !.settings = settings])
      BY <2>2
    <3>2. IsForm([form EXCEPT !.protocol = protocol, !.port = port, !.settings = settings])
      BY <1>0 DEF IsForm
    <3> QED
      BY <3>1, <3>2, Changed
  <2>3. CASE Change([form EXCEPT !.stream = Drop(form.stream, Slices)])
    BY <1>a, <2>3, Changed
  <2> QED
    BY <1>7, <2>1, <2>2, <2>3 DEF EditJson
<1> QED
  BY <1>1, <1>2, <1>3, <1>4, <1>5, <1>6, <1>7

\* Keys, certificates and fallback rows that arrive late.
LEMMA AnswersStay ==
  ASSUME Inv, (\E next \in {"none", "tls", "reality"} : PickSecurity(next))
              \/ (\E kind \in {"keypair", "mldsa", "ech", "cert", "vlessenc"} : Generate(kind))
              \/ (\E r \in requests : Generated(r) \/ Load(r)) \/ EditRows
  PROVE  Inv'
<1>0. IsForm(form)
  BY DEF Inv, FormsOK
<1>1. ASSUME NEW next, PickSecurity(next)
      PROVE  Inv'
  <2>1. modal.open /\ UNCHANGED <<inbounds, modal>>
    BY <1>1 DEF PickSecurity, Editing
  <2>2. PICK v : Settle(Seeded([form EXCEPT !.stream = v]))
    BY <1>1 DEF PickSecurity
  <2>3. IsForm(Seeded([form EXCEPT !.stream = v]))
    BY <1>0, FieldsStay
  <2> DEFINE key == [kind |-> "keypair", nth |-> modal.nth, quiet |-> TRUE, n |-> n]
  <2>4. requests' \subseteq requests \cup {key} /\ key.kind # "save"
    BY <1>1 DEF PickSecurity, Ask
  <2> HIDE DEF key
  <2> QED
    BY <2>1, <2>2, <2>3, <2>4, Edited
<1>2. ASSUME NEW kind \in {"keypair", "mldsa", "ech", "cert", "vlessenc"}, Generate(kind)
      PROVE  Inv'
  <2> DEFINE key == [kind |-> kind, nth |-> modal.nth, quiet |-> FALSE, n |-> n]
  <2>1. requests' \subseteq requests \cup {key} /\ key.kind # "save"
    BY <1>2 DEF Generate, Ask
  <2>2. UNCHANGED <<form, tagVars, modal, inbounds>>
    BY <1>2 DEF Generate
  <2> HIDE DEF key
  <2> QED
    BY <2>1, <2>2, FormUntouched
<1>3. ASSUME NEW r \in requests, Generated(r)
      PROVE  Inv'
  <2>1. requests' \subseteq requests \cup {[kind |-> "none"]} /\ [kind |-> "none"].kind # "save" /\ UNCHANGED <<inbounds, modal>>
    BY <1>3 DEF Generated, Answered
  <2>2. CASE modal.open /\ Settle(Written(form, r))
    <3>1. IsForm(Written(form, r))
      BY <1>0, FieldsStay
    <3> QED
      BY <2>1, <2>2, <3>1, Edited
  <2>3. CASE UNCHANGED <<form, tagVars>>
    BY <2>1, <2>3, FormUntouched
  <2> QED
    BY <1>3, <2>2, <2>3 DEF Generated
<1>4. ASSUME NEW r \in requests, Load(r)
      PROVE  Inv'
  <2>1. requests' \subseteq requests \cup {[kind |-> "none"]} /\ [kind |-> "none"].kind # "save"
    BY <1>4 DEF Load, Answered
  <2>2. UNCHANGED <<form, tagVars, modal, inbounds>>
    BY <1>4 DEF Load
  <2> QED
    BY <2>1, <2>2, FormUntouched
<1>5. CASE EditRows
  <2>1. requests' \subseteq requests \cup {[kind |-> "none"]} /\ [kind |-> "none"].kind # "save"
    BY <1>5 DEF EditRows
  <2>2. UNCHANGED <<form, tagVars, modal, inbounds>>
    BY <1>5 DEF EditRows, tagVars
  <2> QED
    BY <2>1, <2>2, FormUntouched
<1> QED
  BY <1>1, <1>2, <1>3, <1>4, <1>5

\* Opening, submitting and closing, and what the panel does with a save.
LEMMA RowsStay ==
  ASSUME Inv, OpenAdd \/ (\E id \in Ids : OpenEdit(id)) \/ Close \/ Submit
              \/ (\E r \in requests : Save(r) \/ SaveFails(r) \/ SaveRows(r))
  PROVE  Inv'
<1>0. IsForm(form)
  BY DEF Inv, FormsOK
<1>a. [kind |-> "none"].kind # "save"
  OBVIOUS
<1>1. CASE OpenAdd
  <2>1. IsForm(Untouched)
    BY DEF Untouched, Unmounted, IsForm
  <2>2. Opening("add", 0, Untouched) /\ inbounds' = inbounds /\ requests' \subseteq requests \cup {[kind |-> "none"]}
    BY <1>1 DEF OpenAdd
  <2> QED
    BY <1>a, <2>1, <2>2, Opened
<1>2. ASSUME NEW id \in Ids, OpenEdit(id)
      PROVE  Inv'
  <2>1. IsForm(inbounds[id])
    BY <1>2 DEF OpenEdit, Inv, FormsOK
  <2>2. IsForm(rawInboundToFormValues(inbounds[id]))
    BY <2>1, FieldsStay
  <2> DEFINE load == [kind |-> "load", nth |-> modal.nth + 1, id |-> id]
  <2>3. requests' \subseteq requests \cup {load} /\ load.kind # "save"
    BY <1>2 DEF OpenEdit, Ask
  <2>4. Opening("edit", id, rawInboundToFormValues(inbounds[id])) /\ inbounds' = inbounds
    BY <1>2 DEF OpenEdit
  <2> HIDE DEF load
  <2> QED
    BY <2>2, <2>3, <2>4, Opened
<1>3. CASE Close
  <2>1. onClose /\ requests' \subseteq requests \cup {[kind |-> "none"]} /\ inbounds' = inbounds
    BY <1>3 DEF Close
  <2>2. FormsOK'
    BY <1>a, <2>1, ClosedIs, RequestsStay DEF Inv
  <2> QED
    BY <2>1, <2>2, ClosedIs DEF Inv
<1>4. CASE Submit
  <2> DEFINE save == [kind |-> "save", nth |-> modal.nth, mode |-> modal.mode, id |-> modal.id, host |-> isFallbackHost(form),
                      rows |-> SavedRows(rows), payload |-> formValuesToWirePayload(Parsed(form))]
  <2>1. IsForm(formValuesToWirePayload(Parsed(form)))
    BY <1>0, FieldsStay
  <2>2. requests' \subseteq requests \cup {save} /\ IsForm(save.payload)
    BY <1>4, <2>1 DEF Submit, Ask
  <2>3. UNCHANGED <<form, tagVars, modal, inbounds>>
    BY <1>4 DEF Submit
  <2> HIDE DEF save
  <2> QED
    BY <2>2, <2>3, FormUntouched
<1>5. ASSUME NEW r \in requests, Save(r)
      PROVE  Inv'
  <2>1. PICK id \in Ids \cup {r.id} :
          /\ inbounds' = [inbounds EXCEPT ![id] = IF r.mode = "edit" THEN UpdatedRow(id, r.payload) ELSE AddedRow(id, r.payload)]
          /\ IF r.host
             THEN /\ requests' = (requests \ {r}) \cup {[kind |-> "rows", nth |-> r.nth, id |-> id, rows |-> r.rows]}
                  /\ UNCHANGED <<modal, form, tagVars>>
             ELSE requests' = requests \ {r} /\ onClose
    BY <1>5 DEF Save
  <2>2. IsForm(normalizeStreamSettings(r.payload))
    BY <1>5, FieldsStay DEF Save, Inv, FormsOK
  <2>3. IsForm(UpdatedRow(id, r.payload)) /\ IsForm(AddedRow(id, r.payload))
    <3>1. DOMAIN UpdatedRow(id, r.payload) = DOMAIN normalizeStreamSettings(r.payload)
      BY DEF UpdatedRow
    <3>2. DOMAIN AddedRow(id, r.payload) = DOMAIN normalizeStreamSettings(r.payload)
      BY DEF AddedRow
    <3> QED
      BY <2>2, <3>1, <3>2 DEF IsForm
  <2>4. DOMAIN inbounds' = Ids /\ \A i \in Ids : inbounds'[i] = None \/ IsForm(inbounds'[i])
    BY <2>1, <2>3 DEF Inv, FormsOK
  <2>5. \A q \in requests' : q.kind = "save" => IsForm(q.payload)
    <3>1. [kind |-> "rows", nth |-> r.nth, id |-> id, rows |-> r.rows].kind # "save"
      OBVIOUS
    <3> QED
      BY <2>1, <3>1 DEF Inv, FormsOK
  <2>6. IsForm(form') /\ TagInv'
    <3>1. CASE UNCHANGED <<modal, form, tagVars>>
      BY <3>1 DEF Inv, FormsOK, TagInv, Named, tagVars, currentTagInput, NodeShown
    <3> QED
      BY <2>1, <3>1, ClosedIs
  <2> QED
    BY <2>4, <2>5, <2>6 DEF Inv, FormsOK
<1>6. ASSUME NEW r \in requests, SaveFails(r)
      PROVE  Inv'
  <2>1. requests' \subseteq requests \cup {[kind |-> "none"]} /\ UNCHANGED <<form, tagVars, modal, inbounds>>
    BY <1>6 DEF SaveFails, Answered
  <2> QED
    BY <1>a, <2>1, FormUntouched
<1>7. ASSUME NEW r \in requests, SaveRows(r)
      PROVE  Inv'
  <2>1. onClose /\ requests' \subseteq requests \cup {[kind |-> "none"]} /\ inbounds' = inbounds
    BY <1>7 DEF SaveRows, Answered
  <2>2. FormsOK'
    BY <1>a, <2>1, ClosedIs, RequestsStay DEF Inv
  <2> QED
    BY <2>1, <2>2, ClosedIs DEF Inv
<1> QED
  BY <1>1, <1>2, <1>3, <1>4, <1>5, <1>6, <1>7

-----------------------------------------------------------------------------
\* The invariant holds in every state of the editor.
LEMMA EditorInv == EditorSpec => []Inv
<1>1. EditorInit => Inv
  <2> SUFFICES ASSUME EditorInit
               PROVE  Inv
    OBVIOUS
  <2>1. IsForm(form) /\ requests = {} /\ modal.open = FALSE
    BY DEF EditorInit, IsForm
  <2>2. DOMAIN inbounds = Ids /\ \A id \in Ids : inbounds[id] = None \/ IsForm(inbounds[id])
    BY InboundAssumption DEF EditorInit, IsSaved
  <2> QED
    BY <2>1, <2>2 DEF Inv, FormsOK, TagInv
<1>2. Inv /\ [EditorNext]_vars => Inv'
  <2>1. ASSUME Inv, UNCHANGED vars
        PROVE  Inv'
    <3>1. UNCHANGED <<form, tagVars, modal, inbounds>> /\ requests' \subseteq requests \cup {[kind |-> "none"]} /\ [kind |-> "none"].kind # "save"
      BY <2>1 DEF vars
    <3> QED
      BY <2>1, <3>1, FormUntouched
  <2> QED
    BY <2>1, EditsStay, AnswersStay, RowsStay DEF EditorNext
<1> QED
  BY <1>1, <1>2, PTL DEF EditorSpec

\* A tag that counts as automatic names the inbound's own port, node and transports
\* (the two effects of InboundFormModal), whatever is opened, changed, typed and
\* answered late: the run's property, without its bounds.
THEOREM TagsTellTruth == EditorSpec => []TagTellsTruth
<1>1. Inv => TagTellsTruth
  <2> SUFFICES ASSUME Inv, modal.open, autoTag, NodeShown(form) \/ form.nodeId = 0, ~(tagTyped /\ form.tag = lastTag)
               PROVE  isAutoInboundTag(form.tag, FullInput(form))
    BY DEF TagTellsTruth
  <2>1. isAutoInboundTag(form.tag, currentTagInput(form))
    BY DEF Inv, TagInv, Named
  <2>2. FullInput(form) = currentTagInput(form)
    <3> DEFINE in == currentTagInput(form)
    <3>1. in.nodeId = form.nodeId /\ in = [k \in DOMAIN in |-> in[k]]
      BY DEF currentTagInput
    <3>2. FullInput(form) = [k \in DOMAIN in |-> IF k = "nodeId" THEN form.nodeId ELSE in[k]]
      BY DEF FullInput
    <3>3. \A k \in DOMAIN in : in[k] = IF k = "nodeId" THEN form.nodeId ELSE in[k]
      BY <3>1
    <3> HIDE DEF in
    <3>4. [k \in DOMAIN in |-> in[k]] = [k \in DOMAIN in |-> IF k = "nodeId" THEN form.nodeId ELSE in[k]]
      BY <3>3
    <3>5. FullInput(form) = in
      BY <3>1, <3>2, <3>4
    <3> QED
      BY <3>5 DEF in
  <2> QED
    BY <2>1, <2>2
<1> QED
  BY <1>1, EditorInv, PTL


-----------------------------------------------------------------------------
\* Objects.

\* What is left when keys are dropped.
LEMMA DropIs ==
  ASSUME NEW obj, NEW keys
  PROVE  /\ DOMAIN Drop(obj, keys) = DOMAIN obj \ keys /\ \A k \in DOMAIN obj \ keys : Drop(obj, keys)[k] = obj[k]
         /\ Drop(obj, keys) = [k \in DOMAIN Drop(obj, keys) |-> Drop(obj, keys)[k]]
BY DEF Drop

\* Every network and security has a slice of its own name.
Extras == {"network", "security", "sockopt", "externalProxy", "finalmask"}
LEMMA SlicesAre ==
  /\ \A w \in StreamNetworks :
       /\ SliceOf(w) \in Slices \cup {"hysteriaSettings"}
       /\ SliceOf(w) \notin Extras \cup {"tlsSettings", "realitySettings"}
  /\ SliceOf("tls") = "tlsSettings" /\ SliceOf("reality") = "realitySettings"
<1>1. StreamNetworks = {"tcp", "kcp", "ws", "grpc", "httpupgrade", "xhttp", "hysteria"}
  BY DEF StreamNetworks, SliceKeys
<1>2. /\ SliceOf("tcp") = "tcpSettings" /\ SliceOf("kcp") = "kcpSettings" /\ SliceOf("ws") = "wsSettings" /\ SliceOf("grpc") = "grpcSettings"
      /\ SliceOf("httpupgrade") = "httpupgradeSettings" /\ SliceOf("xhttp") = "xhttpSettings" /\ SliceOf("hysteria") = "hysteriaSettings"
      /\ SliceOf("tls") = "tlsSettings" /\ SliceOf("reality") = "realitySettings"
  BY DEF SliceOf, SliceKeys, Read
<1>3. \A w \in StreamNetworks \ {"hysteria"} : SliceOf(w) \in Slices
  BY DEF Slices
<1>4. \A w \in StreamNetworks : w = "hysteria" \/ w \in StreamNetworks \ {"hysteria"}
  OBVIOUS
<1>5. \A w \in StreamNetworks : SliceOf(w) \notin Extras \cup {"tlsSettings", "realitySettings"}
  BY <1>1, <1>2 DEF Extras
<1> QED
  BY <1>2, <1>3, <1>4, <1>5

-----------------------------------------------------------------------------
\* Certificates, with and without the choice of the form.

LEMMA CertsAre ==
  ASSUME NEW s, tlsCerts(s) # <<>>, NEW certs
  PROVE  /\ "tlsSettings" \in DOMAIN s /\ "certificates" \in DOMAIN s.tlsSettings /\ tlsCerts(s) = s.tlsSettings.certificates
         /\ DOMAIN WithCerts(s, certs) = DOMAIN s /\ \A k \in DOMAIN s \ {"tlsSettings"} : WithCerts(s, certs)[k] = s[k]
         /\ DOMAIN WithCerts(s, certs).tlsSettings = DOMAIN s.tlsSettings
         /\ \A k \in DOMAIN s.tlsSettings \ {"certificates"} : WithCerts(s, certs).tlsSettings[k] = s.tlsSettings[k]
         /\ WithCerts(s, certs).tlsSettings.certificates = certs /\ tlsCerts(WithCerts(s, certs)) = certs
<1> DEFINE tls == [s.tlsSettings EXCEPT !["certificates"] = certs]
           t == WithCerts(s, certs)
<1>1. "tlsSettings" \in DOMAIN s
  <2>1. DOMAIN <<>> = {}
    OBVIOUS
  <2> QED
    BY <2>1 DEF tlsCerts, Read
<1>2. "certificates" \in DOMAIN s.tlsSettings
  BY <1>1 DEF tlsCerts, Read
<1>3. tlsCerts(s) = s.tlsSettings.certificates
  BY <1>1, <1>2 DEF tlsCerts, Read
<1>4. t = [s EXCEPT !["tlsSettings"] = tls]
  BY DEF WithCerts
<1>5. DOMAIN t = DOMAIN s /\ t["tlsSettings"] = tls /\ \A k \in DOMAIN s \ {"tlsSettings"} : t[k] = s[k]
  BY <1>1, <1>4
<1>6. DOMAIN tls = DOMAIN s.tlsSettings /\ tls["certificates"] = certs /\ \A k \in DOMAIN s.tlsSettings \ {"certificates"} : tls[k] = s.tlsSettings[k]
  BY <1>2
<1> HIDE DEF t, tls
<1>7. tlsCerts(t) = certs
  BY <1>1, <1>2, <1>5, <1>6 DEF tlsCerts, Read
<1> QED
  BY <1>1, <1>2, <1>3, <1>5, <1>6, <1>7 DEF t

\* Only the certificates change when the choice is stripped, and they lose it.
Bare(certs) == [i \in DOMAIN certs |-> Drop(certs[i], {"useFile"})]
LEMMA StrippedIs ==
  ASSUME NEW s
  PROVE  /\ DOMAIN stripTlsCertUseFile(s) = DOMAIN s
         /\ \A k \in DOMAIN s \ {"tlsSettings"} : stripTlsCertUseFile(s)[k] = s[k]
         /\ "tlsSettings" \in DOMAIN s =>
              /\ DOMAIN stripTlsCertUseFile(s).tlsSettings = DOMAIN s.tlsSettings
              /\ \A k \in DOMAIN s.tlsSettings \ {"certificates"} : stripTlsCertUseFile(s).tlsSettings[k] = s.tlsSettings[k]
         /\ tlsCerts(s) # <<>> => stripTlsCertUseFile(s).tlsSettings.certificates = Bare(tlsCerts(s))
         /\ tlsCerts(s) = <<>> => stripTlsCertUseFile(s) = s
         /\ tlsCerts(stripTlsCertUseFile(s)) = Bare(tlsCerts(stripTlsCertUseFile(s)))
<1>1. stripTlsCertUseFile(s) = WithCerts(s, Bare(tlsCerts(s)))
  BY DEF stripTlsCertUseFile, Bare
<1>2. CASE tlsCerts(s) = <<>>
  <2>1. stripTlsCertUseFile(s) = s
    BY <1>1, <1>2 DEF WithCerts
  <2>2. Bare(<<>>) = <<>>
    BY DEF Bare
  <2> QED
    BY <1>2, <2>1, <2>2
<1>3. CASE tlsCerts(s) # <<>>
  <2> DEFINE certs == Bare(tlsCerts(s))
             t == WithCerts(s, certs)
  <2>1. /\ "tlsSettings" \in DOMAIN s /\ DOMAIN t = DOMAIN s /\ \A k \in DOMAIN s \ {"tlsSettings"} : t[k] = s[k]
        /\ DOMAIN t.tlsSettings = DOMAIN s.tlsSettings
        /\ \A k \in DOMAIN s.tlsSettings \ {"certificates"} : t.tlsSettings[k] = s.tlsSettings[k]
        /\ t.tlsSettings.certificates = certs /\ tlsCerts(t) = certs
    BY <1>3, CertsAre
  <2>2. certs = Bare(certs)
    <3>1. \A cert : Drop(Drop(cert, {"useFile"}), {"useFile"}) = Drop(cert, {"useFile"})
      BY DEF Drop
    <3> QED
      BY <3>1 DEF Bare
  <2> HIDE DEF certs, t
  <2>3. t = stripTlsCertUseFile(s)
    BY <1>1 DEF certs, t
  <2> QED
    BY <1>3, <2>1, <2>2, <2>3 DEF certs
<1> QED
  BY <1>2, <1>3

\* A certificate that had no choice is the same after taking it in and out.
LEMMA MarkedIs ==
  ASSUME NEW s
  PROVE  /\ DOMAIN synthesizeTlsCertUseFile(s) = DOMAIN s
         /\ \A k \in DOMAIN s \ {"tlsSettings"} : synthesizeTlsCertUseFile(s)[k] = s[k]
         /\ "tlsSettings" \in DOMAIN s =>
              /\ DOMAIN synthesizeTlsCertUseFile(s).tlsSettings = DOMAIN s.tlsSettings
              /\ \A k \in DOMAIN s.tlsSettings \ {"certificates"} : synthesizeTlsCertUseFile(s).tlsSettings[k] = s.tlsSettings[k]
         /\ tlsCerts(s) = <<>> => synthesizeTlsCertUseFile(s) = s
         /\ tlsCerts(s) = Bare(tlsCerts(s)) => Bare(tlsCerts(synthesizeTlsCertUseFile(s))) = tlsCerts(s)
<1> DEFINE certs == [i \in DOMAIN tlsCerts(s) |-> WithUseFile(tlsCerts(s)[i])]
<1>1. synthesizeTlsCertUseFile(s) = WithCerts(s, certs)
  BY DEF synthesizeTlsCertUseFile
<1>2. tlsCerts(s) = Bare(tlsCerts(s)) => Bare(certs) = tlsCerts(s)
  <2> SUFFICES ASSUME tlsCerts(s) = Bare(tlsCerts(s))
               PROVE  Bare(certs) = tlsCerts(s)
    OBVIOUS
  <2>1. ASSUME NEW i \in DOMAIN tlsCerts(s)
        PROVE  Drop(certs[i], {"useFile"}) = tlsCerts(s)[i]
    <3> DEFINE cert == tlsCerts(s)[i]
    <3>1. cert = Drop(cert, {"useFile"})
      BY DEF Bare
    <3>2. certs[i] = With(cert, "useFile", cert.files # "" \/ cert.inline = "")
      <4> HIDE DEF cert
      <4>0. DOMAIN Drop(cert, {"useFile"}) = DOMAIN cert \ {"useFile"}
        BY DropIs
      <4>1. "useFile" \notin DOMAIN cert
        BY <3>1, <4>0
      <4>2. certs[i] = WithUseFile(cert)
        BY DEF cert
      <4> QED
        BY <4>1, <4>2 DEF WithUseFile
    <3>3. \A v : Drop(With(cert, "useFile", v), {"useFile"}) = Drop(cert, {"useFile"})
      BY DEF Drop, With
    <3> QED
      BY <3>1, <3>2, <3>3
  <2>2. DOMAIN certs = DOMAIN tlsCerts(s)
    OBVIOUS
  <2> HIDE DEF certs
  <2>3. Bare(certs) = [i \in DOMAIN tlsCerts(s) |-> Drop(certs[i], {"useFile"})]
    BY <2>2 DEF Bare
  <2>4. Bare(tlsCerts(s)) = [i \in DOMAIN tlsCerts(s) |-> tlsCerts(s)[i]]
    <3>1. \A i \in DOMAIN tlsCerts(s) : Bare(tlsCerts(s))[i] = tlsCerts(s)[i]
      OBVIOUS
    <3> QED
      BY <3>1 DEF Bare
  <2> QED
    BY <2>1, <2>3, <2>4
<1> HIDE DEF certs
<1>3. CASE tlsCerts(s) = <<>>
  <2>1. synthesizeTlsCertUseFile(s) = s
    BY <1>1, <1>3 DEF WithCerts
  <2>2. Bare(<<>>) = <<>>
    BY DEF Bare
  <2> QED
    BY <1>3, <2>1, <2>2
<1>4. CASE tlsCerts(s) # <<>>
  <2> DEFINE t == WithCerts(s, certs)
  <2>1. /\ "tlsSettings" \in DOMAIN s /\ DOMAIN t = DOMAIN s /\ \A k \in DOMAIN s \ {"tlsSettings"} : t[k] = s[k]
        /\ DOMAIN t.tlsSettings = DOMAIN s.tlsSettings
        /\ \A k \in DOMAIN s.tlsSettings \ {"certificates"} : t.tlsSettings[k] = s.tlsSettings[k]
        /\ tlsCerts(t) = certs
    BY <1>4, CertsAre
  <2> HIDE DEF t
  <2>2. t = synthesizeTlsCertUseFile(s)
    BY <1>1 DEF t
  <2> QED
    BY <1>2, <1>4, <2>1, <2>2
<1> QED
  BY <1>3, <1>4

-----------------------------------------------------------------------------
\* Streams that are validated.

\* What validation needs of a stream: a union member for its network and its security.
Valued(s) ==
  /\ {"network", "security"} \subseteq DOMAIN s /\ s.network \in StreamNetworks /\ s.security \in {"none", "tls", "reality"}
  /\ SliceOf(s.network) \in DOMAIN s /\ (s.security # "none" => SliceOf(s.security) \in DOMAIN s)

LEMMA ParsedIs ==
  ASSUME NEW s, s # <<>>, Valued(s)
  PROVE  /\ DOMAIN ParsedStream(s) = DOMAIN s \cap KeptKeys(s) /\ KeptKeys(ParsedStream(s)) = KeptKeys(s) /\ Valued(ParsedStream(s))
         /\ \A k \in DOMAIN s \cap {"network", "security", "sockopt", "externalProxy"} : ParsedStream(s)[k] = s[k]
         /\ ParsedStream(s)[SliceOf(s.network)] = Over(s[SliceOf(s.network)], newStreamSlice(s.network))
         /\ "tlsSettings" \in DOMAIN ParsedStream(s) => ParsedStream(s).tlsSettings = s.tlsSettings
         /\ "realitySettings" \in DOMAIN ParsedStream(s) => ParsedStream(s).realitySettings = Over(s.realitySettings, NewReality(0))
         /\ "finalmask" \in DOMAIN s => ParsedStream(s).finalmask = Over(Drop(s.finalmask, {"kcpSettings"}), NoMasks)
<1> DEFINE p == ParsedStream(s)
<1>1. DOMAIN p = DOMAIN s \cap KeptKeys(s) /\ \A k \in DOMAIN s \cap KeptKeys(s) : p[k] = ParsedKey(s, k)
  BY DEF ParsedStream
<1>2. SliceOf(s.network) \notin Extras \cup {"tlsSettings", "realitySettings"} /\ SliceOf(s.network) \in KeptKeys(s)
  BY SlicesAre DEF Valued, KeptKeys
<1>3. \A k \in {"network", "security", "sockopt", "externalProxy", "tlsSettings"} : ParsedKey(s, k) = s[k]
  BY <1>2 DEF ParsedKey, Extras
<1>4. Extras \subseteq KeptKeys(s)
  BY DEF Extras, KeptKeys
<1>5. p.network = s.network /\ p.security = s.security /\ {"network", "security"} \subseteq DOMAIN p
  BY <1>1, <1>3, <1>4 DEF Valued, Extras
<1>6. ParsedKey(s, SliceOf(s.network)) = Over(s[SliceOf(s.network)], newStreamSlice(s.network))
  BY <1>2 DEF ParsedKey, Extras
<1>7. ParsedKey(s, "realitySettings") = Over(s.realitySettings, NewReality(0))
  BY <1>2 DEF ParsedKey
<1>8. ParsedKey(s, "finalmask") = Over(Drop(s.finalmask, {"kcpSettings"}), NoMasks)
  BY <1>2 DEF ParsedKey, Extras
<1> HIDE DEF p
<1>9. KeptKeys(p) = KeptKeys(s)
  BY <1>5 DEF KeptKeys
<1>10. s.security # "none" => SliceOf(s.security) \in KeptKeys(s)
  BY DEF KeptKeys
<1>11. Valued(p)
  BY <1>1, <1>2, <1>5, <1>10 DEF Valued
<1>12. \A k \in DOMAIN s \cap {"network", "security", "sockopt", "externalProxy"} : p[k] = s[k]
  BY <1>1, <1>3, <1>4 DEF Extras
<1>13. p[SliceOf(s.network)] = Over(s[SliceOf(s.network)], newStreamSlice(s.network))
  BY <1>1, <1>2, <1>6 DEF Valued
<1>14. "tlsSettings" \in DOMAIN p => p.tlsSettings = s.tlsSettings
  BY <1>1, <1>3
<1>15. "realitySettings" \in DOMAIN p => p.realitySettings = Over(s.realitySettings, NewReality(0))
  BY <1>1, <1>7
<1>16. "finalmask" \in DOMAIN s => p.finalmask = Over(Drop(s.finalmask, {"kcpSettings"}), NoMasks)
  BY <1>1, <1>4, <1>8 DEF Extras
<1> QED
  BY <1>1, <1>9, <1>11, <1>12, <1>13, <1>14, <1>15, <1>16 DEF p

\* Empty masks go, and finalmask with the last of them.
Worth(fm) == {k \in DOMAIN fm : k \notin {"tcp", "udp"} \/ fm[k] # <<>>}
LEMMA SlimIs ==
  ASSUME NEW settings, NEW s, "finalmask" \in DOMAIN s => DOMAIN s.finalmask # {}
  PROVE  LET slim == dropLegacyOptionalEmpties(settings, s).stream
         IN  /\ DOMAIN s \ {"finalmask"} \subseteq DOMAIN slim /\ DOMAIN slim \subseteq DOMAIN s
             /\ \A k \in DOMAIN s \ {"finalmask"} : slim[k] = s[k]
             /\ "finalmask" \in DOMAIN slim <=> ("finalmask" \in DOMAIN s /\ Worth(s.finalmask) # {})
             /\ "finalmask" \in DOMAIN slim =>
                  DOMAIN slim.finalmask = Worth(s.finalmask) /\ \A k \in Worth(s.finalmask) : slim.finalmask[k] = s.finalmask[k]
<1> DEFINE slim == dropLegacyOptionalEmpties(settings, s).stream
           fm == Read(s, "finalmask", <<>>)
           full == [k \in Worth(fm) |-> fm[k]]
<1>1. slim = IF DOMAIN fm = {} THEN s ELSE IF DOMAIN full = {} THEN Drop(s, {"finalmask"}) ELSE [s EXCEPT !["finalmask"] = full]
  BY DEF dropLegacyOptionalEmpties, Worth
<1>2. DOMAIN full = Worth(fm) /\ \A k \in Worth(fm) : full[k] = fm[k]
  OBVIOUS
<1> HIDE DEF slim, full, fm
<1>3. CASE "finalmask" \notin DOMAIN s
  <2>1. DOMAIN <<>> = {}
    OBVIOUS
  <2>2. DOMAIN fm = {}
    BY <1>3, <2>1 DEF Read, fm
  <2>3. slim = s
    BY <1>1, <2>2
  <2> QED
    BY <1>3, <2>3 DEF slim
<1>4. CASE "finalmask" \in DOMAIN s
  <2>1. fm = s.finalmask /\ DOMAIN fm # {}
    BY <1>4 DEF Read, fm
  <2>2. CASE Worth(fm) = {}
    <3>1. slim = Drop(s, {"finalmask"})
      BY <1>1, <1>2, <2>1, <2>2
    <3>2. DOMAIN slim = DOMAIN s \ {"finalmask"} /\ \A k \in DOMAIN s \ {"finalmask"} : slim[k] = s[k]
      BY <3>1, DropIs
    <3> QED
      BY <2>1, <2>2, <3>2 DEF slim
  <2>3. CASE Worth(fm) # {}
    <3>1. slim = [s EXCEPT !["finalmask"] = full]
      BY <1>1, <1>2, <2>1, <2>3
    <3>2. DOMAIN slim = DOMAIN s /\ slim["finalmask"] = full /\ \A k \in DOMAIN s \ {"finalmask"} : slim[k] = s[k]
      BY <1>4, <3>1
    <3> QED
      BY <1>2, <1>4, <2>1, <2>3, <3>2 DEF slim
  <2> QED
    BY <2>2, <2>3
<1> QED
  BY <1>3, <1>4

\* What the dialog sends is a row as the dialog writes it.
LEMMA PayloadIsSaved ==
  ASSUME NEW f, IsForm(f), Valid(f)
  PROVE  IsSaved(formValuesToWirePayload(Parsed(f)))
<1> DEFINE s == f.stream
           p == ParsedStream(s)
           q == stripTlsCertUseFile(p)
           slim == dropLegacyOptionalEmpties(f.settings, q)
           now == formValuesToWirePayload(Parsed(f))
<1>1. DOMAIN f = {"protocol", "port", "nodeId", "tag", "db", "settings", "stream", "sniffing"}
  BY FieldsAre DEF IsForm, Fields
<1>2. IsForm(now)
  BY FieldsStay
<1>3. Parsed(f) = [f EXCEPT !["stream"] = p]
  BY DEF Parsed
<1>4. now.stream = slim.stream /\ now.sniffing = normalizeSniffing(f.sniffing)
  <2> DEFINE g == Parsed(f)
  <2>1. g.settings = f.settings /\ g.stream = p /\ g.sniffing = f.sniffing /\ DOMAIN g = DOMAIN f
    BY <1>1, <1>3
  <2> HIDE DEF g, p
  <2>2. now = [g EXCEPT !["settings"] = dropLegacyOptionalEmpties(g.settings, stripTlsCertUseFile(g.stream)).settings,
                        !["stream"] = dropLegacyOptionalEmpties(g.settings, stripTlsCertUseFile(g.stream)).stream,
                        !["sniffing"] = normalizeSniffing(g.sniffing)]
    BY DEF formValuesToWirePayload, g
  <2> HIDE DEF now
  <2>3. now.stream = dropLegacyOptionalEmpties(g.settings, stripTlsCertUseFile(g.stream)).stream /\ now.sniffing = normalizeSniffing(g.sniffing)
    BY <1>1, <2>1, <2>2
  <2> QED
    BY <2>1, <2>3
<1>5. normalizeSniffing(now.sniffing) = now.sniffing
  BY <1>4 DEF normalizeSniffing
<1> HIDE DEF now
<1>6. IsSavedStream(slim.stream)
  <2>1. CASE s = <<>>
    <3>1. p = <<>>
      BY <2>1 DEF ParsedStream
    <3>2. q = <<>>
      <4> HIDE DEF p
      <4>1. tlsCerts(<<>>) = <<>>
        BY DEF tlsCerts, Read
      <4> QED
        BY <3>1, <4>1, StrippedIs
    <3>3. slim.stream = <<>>
      <4> HIDE DEF q
      <4>1. DOMAIN <<>> = {}
        OBVIOUS
      <4>2. Read(q, "finalmask", <<>>) = <<>>
        BY <3>2, <4>1 DEF Read
      <4>3. DOMAIN Read(q, "finalmask", <<>>) = {}
        BY <4>1, <4>2
      <4> QED
        BY <3>2, <4>3 DEF dropLegacyOptionalEmpties
    <3> QED
      BY <3>3 DEF IsSavedStream
  <2>2. CASE s # <<>>
    <3>1. Valued(s)
      BY <2>2 DEF Valid, Valued
    <3>2. /\ DOMAIN p = DOMAIN s \cap KeptKeys(s) /\ KeptKeys(p) = KeptKeys(s) /\ Valued(p)
          /\ "finalmask" \in DOMAIN s => p.finalmask = Over(Drop(s.finalmask, {"kcpSettings"}), NoMasks)
      BY <2>2, <3>1, ParsedIs
    <3> HIDE DEF p
    <3>3. DOMAIN q = DOMAIN p /\ (\A k \in DOMAIN p \ {"tlsSettings"} : q[k] = p[k]) /\ tlsCerts(q) = Bare(tlsCerts(q))
      BY StrippedIs
    <3>4. q.network = p.network /\ q.security = p.security
      BY <3>2, <3>3 DEF Valued
    <3>5. KeptKeys(q) = KeptKeys(s) /\ Valued(q)
      BY <3>2, <3>3, <3>4 DEF KeptKeys, Valued
    <3>6. "finalmask" \in DOMAIN q => q.finalmask = Over(Drop(s.finalmask, {"kcpSettings"}), NoMasks)
      BY <3>2, <3>3
    <3> HIDE DEF q
    <3>7. "finalmask" \in DOMAIN q => DOMAIN q.finalmask # {} /\ "kcpSettings" \notin DOMAIN q.finalmask
      <4>1. \A v : DOMAIN Over(Drop(v, {"kcpSettings"}), NoMasks) = (DOMAIN v \ {"kcpSettings"}) \cup {"tcp", "udp"}
        BY DEF Over, Drop, NoMasks
      <4>2. "finalmask" \in DOMAIN q => DOMAIN q.finalmask = (DOMAIN s.finalmask \ {"kcpSettings"}) \cup {"tcp", "udp"}
        BY <3>6, <4>1
      <4> QED
        BY <4>2
    <3> DEFINE w == slim.stream
    <3>8. /\ DOMAIN q \ {"finalmask"} \subseteq DOMAIN w /\ DOMAIN w \subseteq DOMAIN q
          /\ \A k \in DOMAIN q \ {"finalmask"} : w[k] = q[k]
          /\ "finalmask" \in DOMAIN w <=> ("finalmask" \in DOMAIN q /\ Worth(q.finalmask) # {})
          /\ "finalmask" \in DOMAIN w =>
               DOMAIN w.finalmask = Worth(q.finalmask) /\ \A k \in Worth(q.finalmask) : w.finalmask[k] = q.finalmask[k]
      BY <3>7, SlimIs
    <3> HIDE DEF w
    <3>9. /\ {"network", "security"} \subseteq DOMAIN w /\ w.network = q.network /\ w.security = q.security
          /\ SliceOf(q.security) # "finalmask" \/ q.security = "none"
      BY <3>5, <3>8, SlicesAre DEF Valued
    <3>10. KeptKeys(w) = KeptKeys(q) /\ DOMAIN w \subseteq KeptKeys(w)
      <4>1. KeptKeys(w) = KeptKeys(q)
        BY <3>9 DEF KeptKeys
      <4> QED
        BY <3>2, <3>3, <3>5, <3>8, <4>1
    <3>11. /\ w.network \in StreamNetworks /\ w.security \in {"none", "tls", "reality"}
           /\ w.security # "none" => SliceOf(w.security) \in DOMAIN w
      BY <3>5, <3>8, <3>9 DEF Valued
    <3>12. tlsCerts(w) = Bare(tlsCerts(w))
      <4>1. "tlsSettings" \in DOMAIN w <=> "tlsSettings" \in DOMAIN q
        BY <3>8
      <4>2. "tlsSettings" \in DOMAIN w => w["tlsSettings"] = q["tlsSettings"]
        BY <3>8
      <4>3. tlsCerts(w) = tlsCerts(q)
        BY <4>1, <4>2 DEF tlsCerts, Read
      <4> QED
        BY <3>3, <4>3
    <3>13. "finalmask" \in DOMAIN w =>
             "kcpSettings" \notin DOMAIN w.finalmask /\ \E k \in DOMAIN w.finalmask : k \notin DOMAIN NoMasks \/ w.finalmask[k] # <<>>
      BY <3>7, <3>8 DEF Worth, NoMasks
    <3>14. IsSavedStream(w)
      BY <3>9, <3>10, <3>11, <3>12, <3>13, Zenon DEF IsSavedStream, Bare
    <3> QED
      BY <3>14 DEF w
  <2> QED
    BY <2>1, <2>2
<1> HIDE DEF slim
<1> QED
  BY <1>2, <1>4, <1>5, <1>6 DEF IsSaved, now

-----------------------------------------------------------------------------
\* From the row to the form and back.

SliceNames == Slices \cup {"hysteriaSettings", "tlsSettings", "realitySettings", "finalmask"}
LEMMA SameIsKnown ==
  ASSUME NEW key, NEW value
  PROVE  Known(key, value, value)
BY DEF Known

LEMMA MoreIsKnown ==
  ASSUME NEW key \in SliceNames, NEW value, NEW now,
         \A k \in DOMAIN value : (k \in {"tcp", "udp"} /\ value[k] = <<>>) \/ (k \in DOMAIN now /\ now[k] = value[k])
  PROVE  Known(key, value, now)
BY DEF Known, SliceNames

\* The form has the stream of the row, with the slice of its network.
Shown(s) == synthesizeTlsCertUseFile(Healed(s))
LEMMA ShownIs ==
  ASSUME NEW s, s # <<>>, IsSavedStream(s)
  PROVE  /\ Shown(s) # <<>> /\ Valued(Shown(s)) /\ KeptKeys(Shown(s)) = KeptKeys(s) /\ DOMAIN s \subseteq DOMAIN Shown(s)
         /\ Shown(s).network = s.network /\ \A k \in DOMAIN s \ {"tlsSettings"} : Shown(s)[k] = s[k]
         /\ "tlsSettings" \in DOMAIN s =>
              /\ DOMAIN Shown(s).tlsSettings = DOMAIN s.tlsSettings
              /\ \A k \in DOMAIN s.tlsSettings \ {"certificates"} : Shown(s).tlsSettings[k] = s.tlsSettings[k]
         /\ Bare(tlsCerts(Shown(s))) = tlsCerts(s)
<1> DEFINE h == Healed(s)
           m == Shown(s)
<1>1. /\ {"network", "security"} \subseteq DOMAIN s /\ s.network \in StreamNetworks /\ s.security \in {"none", "tls", "reality"}
      /\ s.security # "none" => SliceOf(s.security) \in DOMAIN s
      /\ tlsCerts(s) = Bare(tlsCerts(s))
  BY DEF IsSavedStream, Bare
<1>2. SliceOf(s.network) \notin Extras \cup {"tlsSettings", "realitySettings"}
  BY <1>1, SlicesAre
<1>3. DOMAIN h = DOMAIN s \cup {SliceOf(s.network)} /\ \A k \in DOMAIN s : h[k] = s[k]
  <2>1. CASE SliceOf(s.network) \in DOMAIN s
    BY <2>1 DEF Healed
  <2>2. CASE SliceOf(s.network) \notin DOMAIN s
    <3>1. h = With(s, SliceOf(s.network), <<>>)
      BY <2>2 DEF Healed
    <3>2. /\ DOMAIN With(s, SliceOf(s.network), <<>>) = DOMAIN s \cup {SliceOf(s.network)}
          /\ \A k \in DOMAIN s \ {SliceOf(s.network)} : With(s, SliceOf(s.network), <<>>)[k] = s[k]
      BY DEF With
    <3> HIDE DEF h
    <3>3. \A k \in DOMAIN s : k # SliceOf(s.network)
      BY <2>2
    <3> QED
      BY <3>1, <3>2, <3>3
  <2> QED
    BY <2>1, <2>2
<1> HIDE DEF h
<1>4. tlsCerts(h) = tlsCerts(s)
  <2>1. "tlsSettings" \in DOMAIN h <=> "tlsSettings" \in DOMAIN s
    BY <1>2, <1>3
  <2>2. Read(h, "tlsSettings", <<>>) = Read(s, "tlsSettings", <<>>)
    BY <1>3, <2>1 DEF Read
  <2> QED
    BY <2>2 DEF tlsCerts
<1>5. m = synthesizeTlsCertUseFile(h)
  BY DEF Shown, h
<1>6. /\ DOMAIN m = DOMAIN h /\ \A k \in DOMAIN h \ {"tlsSettings"} : m[k] = h[k]
      /\ "tlsSettings" \in DOMAIN h =>
           /\ DOMAIN m.tlsSettings = DOMAIN h.tlsSettings
           /\ \A k \in DOMAIN h.tlsSettings \ {"certificates"} : m.tlsSettings[k] = h.tlsSettings[k]
      /\ Bare(tlsCerts(m)) = tlsCerts(h)
  <2> HIDE DEF m
  <2>1. tlsCerts(h) = Bare(tlsCerts(h))
    BY <1>1, <1>4
  <2> QED
    BY <1>5, <2>1, MarkedIs
<1> HIDE DEF m
<1>7. m.network = s.network /\ m.security = s.security /\ {"network", "security"} \subseteq DOMAIN m
  BY <1>1, <1>3, <1>6
<1>8. KeptKeys(m) = KeptKeys(s)
  BY <1>7 DEF KeptKeys
<1>9. Valued(m)
  BY <1>1, <1>3, <1>6, <1>7 DEF Valued
<1>10. m # <<>>
  <2>1. DOMAIN <<>> = {}
    OBVIOUS
  <2> QED
    BY <1>7, <2>1
<1>11. DOMAIN s \subseteq DOMAIN m /\ \A k \in DOMAIN s \ {"tlsSettings"} : m[k] = s[k]
  BY <1>3, <1>6
<1>12. "tlsSettings" \in DOMAIN s =>
         /\ DOMAIN m.tlsSettings = DOMAIN s.tlsSettings
         /\ \A k \in DOMAIN s.tlsSettings \ {"certificates"} : m.tlsSettings[k] = s.tlsSettings[k]
  <2>1. "tlsSettings" \in DOMAIN s => "tlsSettings" \in DOMAIN h /\ h["tlsSettings"] = s["tlsSettings"]
    BY <1>3
  <2> QED
    BY <1>6, <2>1
<1>13. Bare(tlsCerts(m)) = tlsCerts(s)
  BY <1>4, <1>6
<1> QED
  BY <1>7, <1>8, <1>9, <1>10, <1>11, <1>12, <1>13 DEF m

\* The dialog sends a stream it was not asked to change as it came.
LEMMA StreamKept ==
  ASSUME NEW s, s # <<>>, IsSavedStream(s), NEW settings
  PROVE  Preserved(s, dropLegacyOptionalEmpties(settings, stripTlsCertUseFile(ParsedStream(Shown(s)))).stream)
<1> DEFINE m == Shown(s)
           p == ParsedStream(m)
           q == stripTlsCertUseFile(p)
           w == dropLegacyOptionalEmpties(settings, q).stream
           slice == SliceOf(s.network)
           same == {"network", "security", "sockopt", "externalProxy"}
<1>1. /\ m # <<>> /\ Valued(m) /\ KeptKeys(m) = KeptKeys(s) /\ DOMAIN s \subseteq DOMAIN m
      /\ m.network = s.network /\ \A k \in DOMAIN s \ {"tlsSettings"} : m[k] = s[k]
      /\ "tlsSettings" \in DOMAIN s =>
           /\ DOMAIN m.tlsSettings = DOMAIN s.tlsSettings
           /\ \A k \in DOMAIN s.tlsSettings \ {"certificates"} : m.tlsSettings[k] = s.tlsSettings[k]
      /\ Bare(tlsCerts(m)) = tlsCerts(s)
  BY ShownIs
<1>2. DOMAIN s \subseteq KeptKeys(s) /\ s.network \in StreamNetworks /\ s.security \in {"none", "tls", "reality"}
  BY DEF IsSavedStream
<1> HIDE DEF m
<1>3. /\ DOMAIN p = DOMAIN m \cap KeptKeys(m)
      /\ \A k \in DOMAIN m \cap same : p[k] = m[k]
      /\ p[SliceOf(m.network)] = Over(m[SliceOf(m.network)], newStreamSlice(m.network))
      /\ "tlsSettings" \in DOMAIN p => p.tlsSettings = m.tlsSettings
      /\ "realitySettings" \in DOMAIN p => p.realitySettings = Over(m.realitySettings, NewReality(0))
      /\ "finalmask" \in DOMAIN m => p.finalmask = Over(Drop(m.finalmask, {"kcpSettings"}), NoMasks)
  BY <1>1, ParsedIs
<1> HIDE DEF p
<1>4. /\ DOMAIN q = DOMAIN p /\ \A k \in DOMAIN p \ {"tlsSettings"} : q[k] = p[k]
      /\ "tlsSettings" \in DOMAIN p =>
           /\ DOMAIN q.tlsSettings = DOMAIN p.tlsSettings
           /\ \A k \in DOMAIN p.tlsSettings \ {"certificates"} : q.tlsSettings[k] = p.tlsSettings[k]
      /\ tlsCerts(p) # <<>> => q.tlsSettings.certificates = Bare(tlsCerts(p))
      /\ tlsCerts(p) = <<>> => q = p
  BY StrippedIs
<1> HIDE DEF q
<1>5. DOMAIN s \subseteq DOMAIN q
  BY <1>1, <1>2, <1>3, <1>4
<1>6. "finalmask" \in DOMAIN q =>
        /\ DOMAIN q.finalmask = (DOMAIN m.finalmask \ {"kcpSettings"}) \cup {"tcp", "udp"}
        /\ \A k \in DOMAIN m.finalmask \ {"kcpSettings"} : q.finalmask[k] = m.finalmask[k]
  <2>1. \A v : /\ DOMAIN Over(Drop(v, {"kcpSettings"}), NoMasks) = (DOMAIN v \ {"kcpSettings"}) \cup {"tcp", "udp"}
               /\ \A k \in DOMAIN v \ {"kcpSettings"} : Over(Drop(v, {"kcpSettings"}), NoMasks)[k] = v[k]
    BY DEF Over, Drop, NoMasks
  <2>2. "finalmask" \in DOMAIN q => q["finalmask"] = Over(Drop(m.finalmask, {"kcpSettings"}), NoMasks)
    BY <1>3, <1>4
  <2> QED
    BY <2>1, <2>2
<1>7. "finalmask" \in DOMAIN q => DOMAIN q.finalmask # {}
  BY <1>6
<1>8. /\ DOMAIN q \ {"finalmask"} \subseteq DOMAIN w /\ \A k \in DOMAIN q \ {"finalmask"} : w[k] = q[k]
      /\ "finalmask" \in DOMAIN w <=> ("finalmask" \in DOMAIN q /\ Worth(q.finalmask) # {})
      /\ "finalmask" \in DOMAIN w =>
           DOMAIN w.finalmask = Worth(q.finalmask) /\ \A k \in Worth(q.finalmask) : w.finalmask[k] = q.finalmask[k]
  BY <1>7, SlimIs
<1> HIDE DEF w
<1>9. slice \in SliceNames /\ slice \notin Extras \cup {"tlsSettings", "realitySettings"}
  BY <1>2, SlicesAre DEF SliceNames
<1>10. KeptKeys(s) \subseteq same \cup {slice, "tlsSettings", "realitySettings", "finalmask"}
  BY <1>2, SlicesAre DEF KeptKeys
<1> SUFFICES ASSUME NEW k \in DOMAIN s
             PROVE  (k = "fallbacks" /\ s[k] = <<>>) \/ (k \in DOMAIN w /\ Known(k, s[k], w[k]))
  BY DEF Preserved, w, q, p, m
<1>11. CASE k \in same
  <2>1. k \in DOMAIN q /\ k # "finalmask" /\ k # "tlsSettings" /\ q[k] = s[k]
    BY <1>1, <1>3, <1>4, <1>5, <1>11
  <2>2. k \in DOMAIN w /\ w[k] = s[k]
    BY <1>8, <2>1
  <2> QED
    BY <2>2, SameIsKnown
<1>12. CASE k = slice
  <2>1. k # "finalmask" /\ k # "tlsSettings" /\ k \in DOMAIN q /\ m[k] = s[k]
    BY <1>1, <1>5, <1>9, <1>12 DEF Extras
  <2>2. q[k] = Over(s[k], newStreamSlice(s.network))
    BY <1>1, <1>3, <1>4, <1>12, <2>1
  <2>3. k \in DOMAIN w /\ w[k] = Over(s[k], newStreamSlice(s.network))
    BY <1>8, <2>1, <2>2
  <2>4. \A j \in DOMAIN s[k] : j \in DOMAIN w[k] /\ w[k][j] = s[k][j]
    <3>1. LET o == Over(s[k], newStreamSlice(s.network)) IN DOMAIN s[k] \subseteq DOMAIN o /\ \A j \in DOMAIN s[k] : o[j] = s[k][j]
      BY DEF Over
    <3> QED
      BY <2>3, <3>1
  <2> HIDE DEF slice
  <2>5. Known(k, s[k], w[k])
    BY <1>9, <1>12, <2>4, MoreIsKnown
  <2> QED
    BY <2>3, <2>5
<1>13. CASE k = "realitySettings"
  <2>1. k \in DOMAIN q /\ k \in DOMAIN p /\ m["realitySettings"] = s["realitySettings"]
    BY <1>1, <1>4, <1>5, <1>13
  <2>2. q["realitySettings"] = Over(s["realitySettings"], NewReality(0))
    BY <1>3, <1>4, <1>13, <2>1
  <2>3. k \in DOMAIN w /\ w["realitySettings"] = Over(s["realitySettings"], NewReality(0))
    BY <1>8, <1>13, <2>1, <2>2
  <2>4. \A j \in DOMAIN s[k] : j \in DOMAIN w[k] /\ w[k][j] = s[k][j]
    <3>1. LET o == Over(s["realitySettings"], NewReality(0))
          IN  DOMAIN s["realitySettings"] \subseteq DOMAIN o /\ \A j \in DOMAIN s["realitySettings"] : o[j] = s["realitySettings"][j]
      BY DEF Over
    <3> QED
      BY <1>13, <2>3, <3>1
  <2>5. k \in SliceNames
    BY <1>13 DEF SliceNames
  <2> QED
    BY <2>3, <2>4, <2>5, MoreIsKnown
<1>14. CASE k = "tlsSettings"
  <2>1. /\ k \in DOMAIN q /\ k \in DOMAIN p /\ k \in DOMAIN w /\ w["tlsSettings"] = q["tlsSettings"] /\ p["tlsSettings"] = m["tlsSettings"]
    BY <1>3, <1>4, <1>5, <1>8, <1>14
  <2>2. /\ DOMAIN w.tlsSettings = DOMAIN s.tlsSettings
        /\ \A j \in DOMAIN s.tlsSettings \ {"certificates"} : w.tlsSettings[j] = s.tlsSettings[j]
    BY <1>1, <1>4, <1>14, <2>1
  <2>3. "certificates" \in DOMAIN s.tlsSettings => w.tlsSettings.certificates = s.tlsSettings.certificates
    <3> SUFFICES ASSUME "certificates" \in DOMAIN s.tlsSettings
                 PROVE  w.tlsSettings.certificates = s.tlsSettings.certificates
      OBVIOUS
    <3>1. tlsCerts(s) = s.tlsSettings.certificates
      BY <1>14 DEF tlsCerts, Read
    <3>2. tlsCerts(p) = p.tlsSettings.certificates /\ tlsCerts(m) = m.tlsSettings.certificates
      BY <1>1, <1>4, <1>5, <1>14, <2>1 DEF tlsCerts, Read
    <3>3. tlsCerts(p) = tlsCerts(m)
      BY <2>1, <3>2
    <3>4. CASE tlsCerts(p) # <<>>
      BY <1>1, <1>4, <2>1, <3>1, <3>3, <3>4
    <3>5. CASE tlsCerts(p) = <<>>
      <4>1. Bare(<<>>) = <<>>
        BY DEF Bare
      <4>2. w.tlsSettings.certificates = <<>>
        BY <1>4, <2>1, <3>2, <3>5
      <4> QED
        BY <1>1, <3>1, <3>3, <3>5, <4>1, <4>2
    <3> QED
      BY <3>4, <3>5
  <2>4. \A j \in DOMAIN s[k] : j \in DOMAIN w[k] /\ w[k][j] = s[k][j]
    BY <1>14, <2>2, <2>3
  <2>5. k \in SliceNames
    BY <1>14 DEF SliceNames
  <2> QED
    BY <2>1, <2>4, <2>5, MoreIsKnown
<1>15. CASE k = "finalmask"
  <2>1. k \in DOMAIN q /\ m["finalmask"] = s["finalmask"]
    BY <1>1, <1>5, <1>15
  <2>2. "kcpSettings" \notin DOMAIN s.finalmask /\ Worth(s.finalmask) # {}
    BY <1>15 DEF IsSavedStream, Worth, NoMasks
  <2>3. \A j \in DOMAIN s.finalmask : j \in DOMAIN q.finalmask /\ q.finalmask[j] = s.finalmask[j]
    BY <1>6, <1>15, <2>1, <2>2
  <2>4. Worth(s.finalmask) \subseteq Worth(q.finalmask)
    BY <2>3 DEF Worth
  <2>5. k \in DOMAIN w /\ DOMAIN w.finalmask = Worth(q.finalmask) /\ \A j \in Worth(q.finalmask) : w.finalmask[j] = q.finalmask[j]
    BY <1>8, <1>15, <2>1, <2>2, <2>4
  <2>6. \A j \in DOMAIN s.finalmask : (j \in {"tcp", "udp"} /\ s.finalmask[j] = <<>>) \/ j \in Worth(s.finalmask)
    BY DEF Worth
  <2>7. \A j \in Worth(s.finalmask) : j \in DOMAIN w.finalmask /\ w.finalmask[j] = s.finalmask[j]
    <3>1. Worth(s.finalmask) \subseteq DOMAIN s.finalmask
      BY DEF Worth
    <3> QED
      BY <2>3, <2>4, <2>5, <3>1
  <2>8. \A j \in DOMAIN s[k] : (j \in {"tcp", "udp"} /\ s[k][j] = <<>>) \/ (j \in DOMAIN w[k] /\ w[k][j] = s[k][j])
    BY <1>15, <2>6, <2>7
  <2>9. k \in SliceNames
    BY <1>15 DEF SliceNames
  <2> QED
    BY <2>5, <2>8, <2>9, MoreIsKnown
<1> QED
  BY <1>2, <1>10, <1>11, <1>12, <1>13, <1>14, <1>15

-----------------------------------------------------------------------------
\* Lists.

\* What it is to be a list, said with its length.
LEMMA RowsAre ==
  ASSUME NEW list, IsRows(list)
  PROVE  /\ list \in Seq(Range(list)) /\ Len(list) \in Nat /\ DOMAIN list = 1 .. Len(list) /\ list = [i \in 1 .. Len(list) |-> list[i]]
         /\ \A i \in DOMAIN list : list[i] \in Range(list)
BY DEF IsRows

\* A sequence of the library is a list,
LEMMA SeqIsRows ==
  ASSUME NEW S, NEW list \in Seq(S)
  PROVE  IsRows(list)
<1>1. Len(list) \in Nat /\ DOMAIN list = 1 .. Len(list) /\ list \in [1 .. Len(list) -> S]
  OBVIOUS
<1>2. \A i \in 1 .. Len(list) : list[i] \in Range(list)
  BY <1>1 DEF Range
<1>3. list \in [1 .. Len(list) -> Range(list)]
  BY <1>1, <1>2
<1> QED
  BY <1>1, <1>3 DEF IsRows

\* and so is a function on 1 .. len.
LEMMA ArrayIsRows ==
  ASSUME NEW len \in Nat, NEW list, list = [i \in 1 .. len |-> list[i]]
  PROVE  IsRows(list)
<1>1. list \in Seq({list[i] : i \in 1 .. len})
  OBVIOUS
<1> QED
  BY <1>1, SeqIsRows

\* No item is a list.
LEMMA EmptyIsRows == IsRows(<<>>)
<1>1. <<>> \in Seq({})
  OBVIOUS
<1> QED
  BY <1>1, SeqIsRows

\* Adding, taking away and changing an item leave a list.
LEMMA EditsLeaveRows ==
  ASSUME NEW list, IsRows(list)
  PROVE  /\ \A item : IsRows(Append(list, item))
         /\ \A i \in DOMAIN list : IsRows(RemoveAt(list, i))
         /\ \A i, item : IsRows([list EXCEPT ![i] = item])
<1>1. list \in Seq(Range(list)) /\ Len(list) \in Nat /\ DOMAIN list = 1 .. Len(list)
  BY RowsAre
<1>2. ASSUME NEW item
      PROVE  IsRows(Append(list, item))
  <2>1. list \in Seq(Range(list) \cup {item})
    BY <1>1
  <2>2. Append(list, item) \in Seq(Range(list) \cup {item})
    BY <2>1
  <2> QED
    BY <2>2, SeqIsRows
<1>3. ASSUME NEW i \in DOMAIN list
      PROVE  IsRows(RemoveAt(list, i))
  <2>1. i \in 1 .. Len(list)
    BY <1>1
  <2>2. RemoveAt(list, i) \in Seq(Range(list))
    BY <1>1, <2>1 DEF RemoveAt
  <2> QED
    BY <2>2, SeqIsRows
<1>4. ASSUME NEW i, NEW item
      PROVE  IsRows([list EXCEPT ![i] = item])
  <2> DEFINE new == [list EXCEPT ![i] = item]
  <2>1. new = [j \in 1 .. Len(list) |-> new[j]]
    BY <1>1
  <2> HIDE DEF new
  <2>2. IsRows(new)
    BY <1>1, <2>1, ArrayIsRows
  <2> QED
    BY <2>2 DEF new
<1> QED
  BY <1>2, <1>3, <1>4

\* The children that are not listed yet are a list.
LEMMA SetIsRows ==
  ASSUME NEW S, IsFiniteSet(S)
  PROVE  IsRows(SetToSeq(S))
<1>1. PICK len \in Nat : ExistsBijection(1 .. len, S)
  BY FS_NatBijection
<1>2. IsFiniteSet(1 .. len) /\ Cardinality(1 .. len) = len
  BY FS_Interval
<1>3. Cardinality(S) = len
  BY <1>1, <1>2, FS_Bijection
<1>4. PICK f : f \in Bijection(1 .. len, S)
  BY <1>1 DEF ExistsBijection
<1>5. f \in [1 .. Cardinality(S) -> S] /\ IsInjective(f)
  BY <1>3, <1>4 DEF Bijection, Injection
<1>6. SetToSeq(S) \in [1 .. Cardinality(S) -> S]
  BY <1>5 DEF SetToSeq
<1>7. SetToSeq(S) = [i \in 1 .. len |-> SetToSeq(S)[i]]
  BY <1>3, <1>6
<1> QED
  BY <1>7, ArrayIsRows

\* A set of numbers has a least one.
LEMMA Least ==
  ASSUME NEW S \in SUBSET Nat, S # {}
  PROVE  \E i \in S : \A j \in S : i <= j
<1> DEFINE R == {ss \in Nat \X Nat : ss[1] < ss[2]}
<1>1. IsWellFoundedOn(R, Nat)
  BY NatLessThanWellFounded, Zenon DEF OpToRel
<1>2. \A x, y \in Nat : x < y => <<x, y>> \in R
  OBVIOUS
<1> HIDE DEF R
<1>3. \E x \in S : \A y \in S : ~ (<<y, x>> \in R)
  BY <1>1, WFMin
<1>4. PICK x \in S : \A y \in S : ~ (<<y, x>> \in R)
  BY <1>3
<1>5. ASSUME NEW y \in S
      PROVE  x <= y
  <2>1. x \in Nat /\ y \in Nat /\ ~(<<y, x>> \in R)
    BY <1>4
  <2>2. ~(y < x)
    BY <2>1, <1>2
  <2> QED
    BY <2>1, <2>2
<1> QED
  BY <1>5

Rank(S, i) == Cardinality({j \in S : j <= i})

\* Every rank in a set of numbers is that of one of them.
LEMMA Ranked ==
  ASSUME NEW len \in Nat, NEW S \in SUBSET (1 .. len), NEW k \in 1 .. Cardinality(S)
  PROVE  \E i \in S : Rank(S, i) = k
<1> DEFINE Upto(i) == {j \in S : j <= i}
           T == {i \in 0 .. len : Cardinality(Upto(i)) >= k}
<1>0. IsFiniteSet(1 .. len)
  BY FS_Interval
<1>1. IsFiniteSet(S) /\ Cardinality(S) \in Nat
  BY <1>0, FS_Subset, FS_CardinalityType
<1>2. \A i \in 0 .. len : Upto(i) \subseteq S
  OBVIOUS
<1>3. \A i \in 0 .. len : IsFiniteSet(Upto(i)) /\ Cardinality(Upto(i)) \in Nat
  BY <1>1, <1>2, FS_Subset, FS_CardinalityType
<1>b. \A j \in S : j \in Nat /\ 1 <= j /\ j <= len
  OBVIOUS
<1>4. Upto(len) = S /\ Upto(0) = {} /\ len \in 0 .. len /\ 0 \in 0 .. len
  <2>1. Upto(len) = S
    BY <1>b
  <2>2. \A j \in S : ~(j <= 0)
    BY <1>b
  <2>3. Upto(0) = {}
    BY <2>2
  <2>4. len \in 0 .. len /\ 0 \in 0 .. len
    OBVIOUS
  <2> QED
    BY <2>1, <2>3, <2>4
<1>a. Cardinality({}) = 0
  BY FS_EmptySet
<1> HIDE DEF Upto
<1>5. len \in T /\ 0 \notin T /\ T \in SUBSET Nat
  BY <1>1, <1>4, <1>a
<1>6. PICK m \in T : \A i \in T : m <= i
  BY <1>5, Least
<1>7. m \in 1 .. len /\ m - 1 \in 0 .. len /\ m - 1 \notin T
  <2>1. m \in 0 .. len /\ m # 0
    BY <1>5, <1>6
  <2>2. m - 1 \in Nat /\ ~(m <= m - 1)
    BY <2>1
  <2> QED
    BY <1>6, <2>1, <2>2
<1>8. Cardinality(Upto(m - 1)) < k /\ Cardinality(Upto(m)) >= k
  BY <1>3, <1>6, <1>7
<1>9. CASE m \notin S
  <2>1. \A j \in S : j <= m <=> j <= m - 1
    BY <1>7, <1>9, <1>b
  <2>2. Upto(m) = Upto(m - 1)
    BY <2>1 DEF Upto
  <2> QED
    BY <1>3, <1>7, <1>8, <2>2
<1>10. CASE m \in S
  <2>0. (\A j \in S : j <= m <=> (j <= m - 1 \/ j = m)) /\ m <= m /\ ~(m <= m - 1)
    BY <1>7, <1>b
  <2>1. Upto(m) = Upto(m - 1) \cup {m} /\ m \notin Upto(m - 1)
    BY <1>10, <2>0 DEF Upto
  <2>2. IsFiniteSet(Upto(m - 1)) /\ Cardinality(Upto(m - 1)) \in Nat
    BY <1>3, <1>7
  <2>3. Cardinality(Upto(m)) = Cardinality(Upto(m - 1)) + 1
    BY <2>1, <2>2, FS_AddElement
  <2>4. Cardinality(Upto(m)) = k
    BY <1>8, <2>2, <2>3
  <2> QED
    BY <1>10, <2>4 DEF Upto, Rank
<1> QED
  BY <1>9, <1>10


\* The rows that are saved are complete, in a list,
LEMMA SavedAreComplete ==
  ASSUME NEW list, IsRows(list)
  PROVE  IsRows(SavedRows(list)) /\ Complete(SavedRows(list)) = DOMAIN SavedRows(list)
<1> DEFINE kept == Complete(list)
           saved == SavedRows(list)
<1>1. Len(list) \in Nat /\ kept \in SUBSET (1 .. Len(list)) /\ IsFiniteSet(1 .. Len(list))
  <2>1. Len(list) \in Nat /\ DOMAIN list = 1 .. Len(list)
    BY RowsAre
  <2>2. kept \subseteq DOMAIN list
    BY DEF Complete
  <2> HIDE DEF kept
  <2> QED
    BY <2>1, <2>2, FS_Interval
<1>2. Cardinality(kept) \in Nat
  BY <1>1, FS_Subset, FS_CardinalityType
<1>3. saved = [k \in 1 .. Cardinality(kept) |-> list[CHOOSE i \in kept : Rank(kept, i) = k]]
  BY DEF SavedRows, Rank
<1>4. ASSUME NEW k \in 1 .. Cardinality(kept)
      PROVE  \E i \in kept : saved[k] = list[i]
  <2> DEFINE at == CHOOSE i \in kept : Rank(kept, i) = k
  <2>0. kept \in SUBSET (1 .. Len(list)) /\ k \in 1 .. Cardinality(kept)
    BY <1>1
  <2> HIDE DEF kept
  <2>1. \E i \in kept : Rank(kept, i) = k
    BY <1>1, <2>0, Ranked
  <2>2. at \in kept
    BY <2>1
  <2>3. saved[k] = list[at]
    BY <1>3
  <2> HIDE DEF at
  <2> QED
    BY <2>2, <2>3
<1>5. \A i \in kept : list[i].childId # 0 \/ list[i].dest # ""
  BY DEF Complete
<1> HIDE DEF kept, saved
<1>6. DOMAIN saved = 1 .. Cardinality(kept) /\ saved = [k \in 1 .. Cardinality(kept) |-> saved[k]]
  BY <1>3
<1>7. IsRows(saved)
  BY <1>2, <1>6, ArrayIsRows
<1>8. \A k \in DOMAIN saved : saved[k].childId # 0 \/ saved[k].dest # ""
  BY <1>4, <1>5, <1>6
<1>9. Complete(saved) = DOMAIN saved
  BY <1>8 DEF Complete
<1> QED
  BY <1>7, <1>9 DEF saved

\* and complete rows are all saved, as they are.
LEMMA CompleteAreSaved ==
  ASSUME NEW list, IsRows(list), Complete(list) = DOMAIN list
  PROVE  SavedRows(list) = list
<1> DEFINE len == Len(list)
           kept == Complete(list)
           saved == SavedRows(list)
<1>1. len \in Nat /\ kept = 1 .. len /\ list = [i \in 1 .. len |-> list[i]]
  BY RowsAre
<1>2. Cardinality(1 .. len) = len
  BY <1>1, FS_Interval
<1>3. ASSUME NEW i \in 1 .. len
      PROVE  Rank(1 .. len, i) = i
  <2> HIDE DEF len
  <2>1. {j \in 1 .. len : j <= i} = 1 .. i
    BY <1>1
  <2>2. Cardinality(1 .. i) = i
    BY <1>1, FS_Interval
  <2> QED
    BY <2>1, <2>2 DEF Rank
<1>4. saved = [k \in 1 .. Cardinality(kept) |-> list[CHOOSE i \in kept : Rank(kept, i) = k]]
  BY DEF SavedRows, Rank
<1> HIDE DEF len, kept, saved
<1>5. saved = [k \in 1 .. len |-> list[CHOOSE i \in 1 .. len : Rank(1 .. len, i) = k]]
  BY <1>1, <1>2, <1>4
<1>6. \A k \in 1 .. len : (CHOOSE i \in 1 .. len : Rank(1 .. len, i) = k) = k
  <2> SUFFICES ASSUME NEW k \in 1 .. len
               PROVE  (CHOOSE i \in 1 .. len : Rank(1 .. len, i) = k) = k
    OBVIOUS
  <2> DEFINE at == CHOOSE i \in 1 .. len : Rank(1 .. len, i) = k
  <2>1. \E i \in 1 .. len : Rank(1 .. len, i) = k
    BY <1>3
  <2>2. at \in 1 .. len /\ Rank(1 .. len, at) = k
    BY <2>1
  <2> HIDE DEF at
  <2>3. at = k
    BY <1>3, <2>2
  <2> QED
    BY <2>3 DEF at
<1>7. saved = [k \in 1 .. len |-> list[k]]
  BY <1>5, <1>6
<1> QED
  BY <1>1, <1>7 DEF saved

-----------------------------------------------------------------------------
\* A row that is opened and sent back.

AsShown(row) == Seeded(rawInboundToFormValues(row))

\* The form of a row differs from it in the stream and in a seed.
LEMMA AsShownIs ==
  ASSUME NEW row, IsSaved(row), NEW tag
  PROVE  LET f == [AsShown(row) EXCEPT !.tag = tag]
         IN  /\ IsForm(f) /\ f.stream = Shown(row.stream)
             /\ f.settings = row.settings \/ ("testseed" \notin DOMAIN row.settings /\ f.settings = With(row.settings, "testseed", "default"))
             /\ f.protocol = row.protocol /\ f.port = row.port /\ f.nodeId = row.nodeId /\ f.db = row.db /\ f.sniffing = row.sniffing
<1> DEFINE g == rawInboundToFormValues(row)
           h == AsShown(row)
           f == [h EXCEPT !.tag = tag]
<1>1. DOMAIN row = {"protocol", "port", "nodeId", "tag", "db", "settings", "stream", "sniffing"} /\ IsForm(row)
  BY FieldsAre DEF IsSaved, IsForm, Fields
<1>2. g = [row EXCEPT !["stream"] = Shown(row.stream)]
  BY DEF rawInboundToFormValues, Shown
<1>3. DOMAIN g = DOMAIN row /\ g.stream = Shown(row.stream) /\ \A k \in DOMAIN row \ {"stream"} : g[k] = row[k]
  BY <1>1, <1>2
<1> HIDE DEF g
<1>4. h = g \/ ("testseed" \notin DOMAIN g.settings /\ h = [g EXCEPT !["settings"] = With(g.settings, "testseed", "default")])
  BY DEF AsShown, Seeded, g
<1>5. /\ DOMAIN h = DOMAIN row /\ h.stream = Shown(row.stream) /\ \A k \in DOMAIN row \ {"stream", "settings"} : h[k] = row[k]
      /\ h.settings = row.settings \/ ("testseed" \notin DOMAIN row.settings /\ h.settings = With(row.settings, "testseed", "default"))
  <2>1. g.settings = row.settings
    BY <1>1, <1>3
  <2>2. CASE h = g
    BY <1>3, <2>1, <2>2
  <2>3. CASE "testseed" \notin DOMAIN g.settings /\ h = [g EXCEPT !["settings"] = With(g.settings, "testseed", "default")]
    <3>1. DOMAIN h = DOMAIN g /\ h["settings"] = With(g.settings, "testseed", "default") /\ \A k \in DOMAIN g \ {"settings"} : h[k] = g[k]
      BY <1>1, <1>3, <2>3
    <3> HIDE DEF h
    <3> QED
      BY <1>1, <1>3, <2>1, <2>3, <3>1
  <2> QED
    BY <1>4, <2>2, <2>3
<1> HIDE DEF h
<1>6. DOMAIN f = DOMAIN h /\ \A k \in DOMAIN h \ {"tag"} : f[k] = h[k]
  OBVIOUS
<1> HIDE DEF f
<1>7. IsForm(f)
  BY <1>1, <1>5, <1>6 DEF IsForm
<1>8. f.stream = Shown(row.stream) /\ f.settings = h.settings
  BY <1>1, <1>5, <1>6
<1>9. f.protocol = row.protocol /\ f.port = row.port /\ f.nodeId = row.nodeId /\ f.db = row.db /\ f.sniffing = row.sniffing
  BY <1>1, <1>5, <1>6
<1> QED
  BY <1>5, <1>7, <1>8, <1>9 DEF f, h

\* A row without a stream has none in the form, and none when it is sent.
LEMMA NoStreamKept ==
  ASSUME NEW settings
  PROVE  /\ Shown(<<>>) = <<>>
         /\ Preserved(<<>>, dropLegacyOptionalEmpties(settings, stripTlsCertUseFile(ParsedStream(<<>>))).stream)
<1>1. DOMAIN <<>> = {}
  OBVIOUS
<1>2. Healed(<<>>) = <<>> /\ tlsCerts(<<>>) = <<>>
  BY <1>1 DEF Healed, tlsCerts, Read
<1>3. Shown(<<>>) = <<>>
  BY <1>2, MarkedIs DEF Shown
<1> QED
  BY <1>1, <1>3 DEF Preserved

\* Sent back as it was opened, a row passes validation and keeps what the panel holds of it.
LEMMA RowKept ==
  ASSUME NEW row, IsSaved(row), NEW tag
  PROVE  LET f == [AsShown(row) EXCEPT !.tag = tag]
             now == formValuesToWirePayload(Parsed(f))
         IN  /\ Valid(f)
             /\ <<now.protocol, now.port, now.nodeId, now.db, now.sniffing>> = <<row.protocol, row.port, row.nodeId, row.db, row.sniffing>>
             /\ Preserved(row.settings, now.settings) /\ Preserved(row.stream, now.stream)
<1> DEFINE f == [AsShown(row) EXCEPT !.tag = tag]
           g == Parsed(f)
           slim == dropLegacyOptionalEmpties(f.settings, stripTlsCertUseFile(ParsedStream(f.stream)))
           now == formValuesToWirePayload(g)
<1>1. /\ IsForm(f) /\ f.stream = Shown(row.stream)
      /\ f.settings = row.settings \/ ("testseed" \notin DOMAIN row.settings /\ f.settings = With(row.settings, "testseed", "default"))
      /\ f.protocol = row.protocol /\ f.port = row.port /\ f.nodeId = row.nodeId /\ f.db = row.db /\ f.sniffing = row.sniffing
  BY AsShownIs
<1> HIDE DEF f
<1>2. DOMAIN f = {"protocol", "port", "nodeId", "tag", "db", "settings", "stream", "sniffing"}
  BY <1>1, FieldsAre DEF IsForm, Fields
<1>3. g = [f EXCEPT !["stream"] = ParsedStream(f.stream)]
  BY DEF Parsed
<1>4. DOMAIN g = DOMAIN f /\ g.stream = ParsedStream(f.stream) /\ \A k \in DOMAIN f \ {"stream"} : g[k] = f[k]
  BY <1>2, <1>3
<1> HIDE DEF g
<1>5. g.settings = f.settings /\ g.sniffing = f.sniffing
  BY <1>2, <1>4
<1>6. now = [g EXCEPT !["settings"] = slim.settings, !["stream"] = slim.stream, !["sniffing"] = normalizeSniffing(f.sniffing)]
  BY <1>4, <1>5 DEF formValuesToWirePayload
<1> HIDE DEF slim
<1>7. /\ now.settings = slim.settings /\ now.stream = slim.stream /\ now.sniffing = normalizeSniffing(f.sniffing)
      /\ \A k \in DOMAIN f \ {"settings", "stream", "sniffing"} : now[k] = g[k]
  BY <1>2, <1>4, <1>6
<1> HIDE DEF now
<1>8. <<now.protocol, now.port, now.nodeId, now.db, now.sniffing>> = <<row.protocol, row.port, row.nodeId, row.db, row.sniffing>>
  <2>1. now.protocol = row.protocol /\ now.port = row.port /\ now.nodeId = row.nodeId /\ now.db = row.db
    BY <1>1, <1>2, <1>4, <1>7
  <2>2. now.sniffing = row.sniffing
    BY <1>1, <1>7 DEF IsSaved
  <2> QED
    BY <2>1, <2>2
<1>9. Valid(f) /\ Preserved(row.stream, now.stream)
  <2>1. CASE row.stream = <<>>
    <3>1. f.stream = <<>>
      BY <1>1, <2>1, NoStreamKept
    <3>2. Valid(f)
      BY <3>1 DEF Valid
    <3>3. Preserved(row.stream, slim.stream)
      BY <2>1, <3>1, NoStreamKept DEF slim
    <3> QED
      BY <1>7, <3>2, <3>3
  <2>2. CASE row.stream # <<>>
    <3>0. IsSavedStream(row.stream)
      BY DEF IsSaved
    <3>1. Valued(f.stream)
      BY <1>1, <2>2, <3>0, ShownIs
    <3>2. Valid(f)
      BY <3>1 DEF Valid, Valued
    <3>3. Preserved(row.stream, slim.stream)
      BY <1>1, <2>2, <3>0, StreamKept DEF slim
    <3> QED
      BY <1>7, <3>2, <3>3
  <2> QED
    BY <2>1, <2>2
<1>10. Preserved(row.settings, now.settings)
  <2>1. \/ now.settings = f.settings
        \/ Read(f.settings, "fallbacks", <<"kept">>) = <<>> /\ now.settings = Drop(f.settings, {"fallbacks"})
    BY <1>7 DEF slim, dropLegacyOptionalEmpties
  <2>2. \A k \in DOMAIN row.settings : k \in DOMAIN f.settings /\ f.settings[k] = row.settings[k]
    BY <1>1 DEF With
  <2>3. \A k \in DOMAIN row.settings : (k = "fallbacks" /\ row.settings[k] = <<>>) \/ (k \in DOMAIN now.settings /\ now.settings[k] = row.settings[k])
    <3>1. CASE now.settings = f.settings
      BY <2>2, <3>1
    <3>2. CASE Read(f.settings, "fallbacks", <<"kept">>) = <<>> /\ now.settings = Drop(f.settings, {"fallbacks"})
      <4>1. "fallbacks" \in DOMAIN row.settings => row.settings["fallbacks"] = <<>>
        BY <2>2, <3>2 DEF Read
      <4>2. DOMAIN now.settings = DOMAIN f.settings \ {"fallbacks"} /\ \A k \in DOMAIN f.settings \ {"fallbacks"} : now.settings[k] = f.settings[k]
        BY <3>2 DEF Drop
      <4> QED
        BY <2>2, <4>1, <4>2
    <3> QED
      BY <2>1, <3>1, <3>2
  <2> QED
    BY <2>3, SameIsKnown DEF Preserved
<1> QED
  BY <1>8, <1>9, <1>10, Zenon DEF f, g, now

-----------------------------------------------------------------------------
\* What is true of the panel, the requests and the dialog in every state.

Secrets == {"keypair", "mldsa", "ech", "cert", "vlessenc"}
Full(list) == IsRows(list) /\ Complete(list) = DOMAIN list
\* The panel holds what the dialog writes, and requests carry it there.
PanelInv ==
  /\ \A id \in Ids : inbounds[id] = None \/ IsSaved(inbounds[id])
  /\ DOMAIN fallbacks = Ids /\ \A id \in Ids : Full(fallbacks[id])
Fits(r) ==
  /\ r.kind = "save" => IsSaved(r.payload)
  /\ r.kind \in {"save", "rows"} => Full(r.rows)
  /\ r.kind = "load" => r.id \in Ids
\* A secret asked for in this opening was asked for by an edit.
Dated(r) == r.kind \in Secrets => r.nth \in Nat /\ r.nth <= modal.nth /\ (modal.open /\ r.nth = modal.nth => touched)
RequestsInv == \A r \in requests : Fits(r) /\ Dated(r)
RowsInv == IsRows(rows) /\ (loaded /\ ~touched => Complete(rows) = DOMAIN rows)
HoldsRow(f, row) == \E tag : f = [AsShown(row) EXCEPT !.tag = tag]
\* Until it is edited, or answered for another opening, the form is the row's.
OpenInv ==
  /\ modal = [open |-> modal.open, mode |-> modal.mode, id |-> modal.id, nth |-> modal.nth] /\ modal.nth \in Nat
  /\ modal.open /\ modal.mode = "edit" /\ ~touched /\ ~stray =>
       IsSaved(was) /\ HoldsRow(form, was)
KeptInv == PanelInv /\ RequestsInv /\ RowsInv /\ OpenInv

\* An edit, whatever it does to the form and the rows.
LEMMA TouchedKeeps ==
  ASSUME KeptInv, touched' = TRUE, UNCHANGED <<inbounds, fallbacks, modal>>, IsRows(rows'),
         NEW r, requests' \subseteq requests \cup {r}, Fits(r), r.kind \in Secrets => r.nth = modal.nth
  PROVE  KeptInv'
<1>1. PanelInv'
  BY DEF KeptInv, PanelInv
<1>2. RequestsInv'
  <2>1. modal.nth \in Nat /\ \A q \in requests \cup {r} : Fits(q) /\ (q.kind \in Secrets => q.nth \in Nat /\ q.nth <= modal.nth)
    BY DEF KeptInv, RequestsInv, OpenInv, Dated
  <2> QED
    BY <2>1 DEF RequestsInv, Dated
<1> QED
  BY <1>1, <1>2 DEF KeptInv, RowsInv, OpenInv

\* The dialog as it stands, with requests sent and answered beside it.
LEMMA StandingKeeps ==
  ASSUME KeptInv, UNCHANGED <<form, modal, rows, was, touched, stray, loaded>>, PanelInv',
         NEW r, requests' \subseteq requests \cup {r}, Fits(r), r.kind \notin Secrets
  PROVE  KeptInv'
<1>1. RequestsInv'
  <2>1. \A q \in requests \cup {r} : Fits(q) /\ Dated(q)
    BY DEF KeptInv, RequestsInv, Dated
  <2> QED
    BY <2>1 DEF RequestsInv, Dated
<1> QED
  BY <1>1 DEF KeptInv, RowsInv, OpenInv

\* A closed dialog.
LEMMA ClosedKeeps ==
  ASSUME KeptInv, onClose, PanelInv', rows' = rows, requests' \subseteq requests
  PROVE  KeptInv'
<1>1. /\ modal' = [open |-> FALSE, mode |-> modal.mode, id |-> modal.id, nth |-> modal.nth] /\ modal.nth \in Nat
      /\ touched' = FALSE /\ loaded' = FALSE
  <2>1. modal' = [modal EXCEPT !.open = FALSE] /\ modal = [open |-> modal.open, mode |-> modal.mode, id |-> modal.id, nth |-> modal.nth]
        /\ modal.nth \in Nat /\ touched' = FALSE /\ loaded' = FALSE
    BY DEF onClose, KeptInv, OpenInv
  <2> QED
    BY <2>1
<1>2. RequestsInv'
  <2>1. \A q \in requests : Fits(q) /\ (q.kind \in Secrets => q.nth \in Nat /\ q.nth <= modal.nth)
    BY DEF KeptInv, RequestsInv, Dated
  <2>2. modal'.nth = modal.nth /\ modal'.open = FALSE
    BY <1>1
  <2> QED
    BY <2>1, <2>2 DEF RequestsInv, Dated
<1>3. RowsInv'
  BY <1>1 DEF KeptInv, RowsInv
<1>4. OpenInv'
  <2>1. modal'.open = FALSE /\ modal'.mode = modal.mode /\ modal'.id = modal.id /\ modal'.nth = modal.nth
    BY <1>1
  <2> QED
    BY <1>1, <2>1 DEF OpenInv
<1> QED
  BY <1>2, <1>3, <1>4 DEF KeptInv

\* The effects of an opening write nothing but the tag.
LEMMA FilledKeeps ==
  ASSUME NEW f, f = [k \in DOMAIN f |-> f[k]]
  PROVE  \E tag : Filled(f).form = [f EXCEPT !.tag = tag]
<1> DEFINE one == TagEffects(f, <<>>, currentTagInput(Unmounted), TRUE, TRUE, isAutoInboundTag(f.tag, FullInput(f)), f.tag)
           in == currentTagInput(one.form)
           two == TagEffects(one.form, one.form.tag, in, TRUE, in # currentTagInput(Unmounted), one.auto, one.last)
<1>2. one.form = f \/ \E t : one.form = [f EXCEPT !.tag = t]
  BY DEF TagEffects
<1>0. Filled(f).form = two.form
  BY DEF Filled
<1> HIDE DEF one, in
<1>3. two.form = one.form \/ \E t : two.form = [one.form EXCEPT !.tag = t]
  BY DEF TagEffects
<1> HIDE DEF two
<1>4. f = [f EXCEPT !.tag = f.tag]
  OBVIOUS
<1>5. \A s, t : [[f EXCEPT !.tag = s] EXCEPT !.tag = t] = [f EXCEPT !.tag = t]
  OBVIOUS
<1>6. \E t : one.form = [f EXCEPT !.tag = t]
  BY <1>2, <1>4
<1> QED
  BY <1>0, <1>3, <1>5, <1>6

\* A row that is opened is the row of the form.
LEMMA OpenKeeps ==
  ASSUME KeptInv, NEW id \in Ids, OpenEdit(id)
  PROVE  KeptInv'
<1> DEFINE row == inbounds[id]
           load == [kind |-> "load", nth |-> modal.nth + 1, id |-> id]
<1>1. /\ modal' = [open |-> TRUE, mode |-> "edit", id |-> id, nth |-> modal.nth + 1] /\ modal.nth \in Nat
      /\ form' = Filled(AsShown(row)).form /\ touched' = FALSE /\ stray' = FALSE /\ loaded' = FALSE /\ was' = row
      /\ inbounds' = inbounds /\ fallbacks' = fallbacks
  BY DEF OpenEdit, Opening, Fill, AsShown, KeptInv, OpenInv
<1>2. IsSaved(row)
  BY DEF OpenEdit, KeptInv, PanelInv
<1>3. HoldsRow(form', row)
  <2>1. AsShown(row) = [k \in DOMAIN AsShown(row) |-> AsShown(row)[k]]
    <3>1. rawInboundToFormValues(row) = [k \in DOMAIN rawInboundToFormValues(row) |-> rawInboundToFormValues(row)[k]]
      BY DEF rawInboundToFormValues
    <3> QED
      BY <3>1 DEF AsShown, Seeded
  <2> QED
    BY <1>1, <2>1, FilledKeeps DEF HoldsRow
<1> HIDE DEF row
<1>4. OpenInv'
  <2>1. modal'.open = TRUE /\ modal'.mode = "edit" /\ modal'.id = id /\ modal'.nth = modal.nth + 1 /\ modal'.nth \in Nat
    BY <1>1
  <2>2. IsSaved(was') /\ HoldsRow(form', was')
    BY <1>1, <1>2, <1>3
  <2> QED
    BY <1>1, <2>1, <2>2 DEF OpenInv
<1>5. PanelInv'
  BY <1>1 DEF KeptInv, PanelInv
<1>6. RequestsInv'
  <2>1. requests' \subseteq requests \cup {load}
    BY DEF OpenEdit, Ask
  <2>2. load.kind = "load" /\ load.id = id
    OBVIOUS
  <2> HIDE DEF load
  <2>3. Fits(load) /\ load.kind \notin Secrets
    BY <2>2 DEF Fits, Secrets
  <2>4. \A q \in requests \cup {load} : Fits(q) /\ (q.kind \in Secrets => q.nth \in Nat /\ q.nth <= modal.nth)
    BY <2>3 DEF KeptInv, RequestsInv, Dated
  <2>5. modal'.nth = modal.nth + 1
    BY <1>1
  <2>6. \A q \in requests' : q.kind \in Secrets => q.nth \in Nat /\ q.nth <= modal'.nth /\ q.nth # modal'.nth
    BY <1>1, <2>1, <2>4, <2>5
  <2> QED
    BY <2>1, <2>4, <2>6 DEF RequestsInv, Dated
<1>7. RowsInv'
  <2>1. IsRows(<<>>)
    BY EmptyIsRows
  <2>2. rows' = rows \/ rows' = <<>>
    BY DEF OpenEdit
  <2> QED
    BY <1>1, <2>1, <2>2 DEF KeptInv, RowsInv
<1> QED
  BY <1>4, <1>5, <1>6, <1>7 DEF KeptInv

\* So does a new inbound, which has no row yet.
LEMMA AddKeeps ==
  ASSUME KeptInv, OpenAdd
  PROVE  KeptInv'
<1>1. /\ modal' = [open |-> TRUE, mode |-> "add", id |-> 0, nth |-> modal.nth + 1] /\ modal.nth \in Nat
      /\ touched' = FALSE /\ loaded' = FALSE /\ rows' = <<>>
      /\ inbounds' = inbounds /\ fallbacks' = fallbacks /\ requests' = requests
  BY DEF OpenAdd, Opening, KeptInv, OpenInv
<1>2. modal'.nth = modal.nth + 1 /\ modal'.mode = "add"
  BY <1>1
<1>3. OpenInv'
  BY <1>1, <1>2 DEF OpenInv
<1>4. PanelInv'
  BY <1>1 DEF KeptInv, PanelInv
<1>5. RequestsInv'
  <2>1. \A q \in requests : Fits(q) /\ (q.kind \in Secrets => q.nth \in Nat /\ q.nth <= modal.nth)
    BY DEF KeptInv, RequestsInv, Dated
  <2>2. \A q \in requests : q.kind \in Secrets => q.nth \in Nat /\ q.nth <= modal'.nth /\ q.nth # modal'.nth
    BY <1>1, <1>2, <2>1
  <2> QED
    BY <1>1, <2>1, <2>2 DEF RequestsInv, Dated
<1>6. RowsInv'
  <2>1. IsRows(<<>>)
    BY EmptyIsRows
  <2> QED
    BY <1>1, <2>1 DEF RowsInv
<1> QED
  BY <1>3, <1>4, <1>5, <1>6 DEF KeptInv

\* Swapping two rows, and listing the children that are not listed, leave a list.
LEMMA EditedRows ==
  ASSUME KeptInv, DOMAIN inbounds = Ids, EditRows
  PROVE  IsRows(rows')
<1>1. IsRows(rows)
  BY DEF KeptInv, RowsInv
<1>2. rows \in Seq(Range(rows)) /\ Len(rows) \in Nat /\ DOMAIN rows = 1 .. Len(rows)
  BY <1>1, RowsAre
<1>3. CASE rows' \in ListEdits(rows, [childId |-> 0, dest |-> "", path |-> ""], updateFallback)
  <2> DEFINE new == [childId |-> 0, dest |-> "", path |-> ""]
             ChangedAt(i) == {[rows EXCEPT ![i] = item] : item \in updateFallback(rows[i])}
  <2>1. ListEdits(rows, new, updateFallback)
          = {Append(rows, new)} \cup {RemoveAt(rows, i) : i \in DOMAIN rows} \cup UNION {ChangedAt(i) : i \in DOMAIN rows}
    BY Zenon DEF ListEdits
  <2>2. \A i : \A list \in ChangedAt(i) : IsRows(list)
    <3>1. \A i, item : IsRows([rows EXCEPT ![i] = item])
      BY <1>1, EditsLeaveRows
    <3> QED
      BY <3>1
  <2>3. IsRows(Append(rows, new)) /\ \A i \in DOMAIN rows : IsRows(RemoveAt(rows, i))
    BY <1>1, EditsLeaveRows
  <2> HIDE DEF ChangedAt
  <2>4. \A list \in ListEdits(rows, new, updateFallback) : IsRows(list)
    BY <2>1, <2>2, <2>3
  <2> QED
    BY <1>3, <2>4
<1>4. CASE \E i \in 1 .. (Len(rows) - 1) : rows' = Swapped(i)
  <2>1. PICK i \in 1 .. (Len(rows) - 1) : rows' = Swapped(i)
    BY <1>4
  <2>2. rows' = [[rows EXCEPT ![i] = rows[i + 1]] EXCEPT ![i + 1] = rows[i]]
    BY <2>1 DEF Swapped
  <2>3. IsRows([rows EXCEPT ![i] = rows[i + 1]])
    BY <1>1, EditsLeaveRows
  <2> QED
    BY <2>2, <2>3, EditsLeaveRows
<1>5. CASE rows' = addAllFallbacks
  <2> DEFINE more == Children \ {rows[i].childId : i \in DOMAIN rows}
             missing == SetToSeq(more)
             Item(i) == [childId |-> missing[i], dest |-> "", path |-> deriveFallbackDefaults(missing[i])]
             list == [i \in DOMAIN missing |-> Item(i)]
             S == Range(rows) \cup {Item(i) : i \in DOMAIN missing}
  <2>1. IsFiniteSet(more)
    <3>1. more \subseteq Ids
      BY DEF Children
    <3> QED
      BY <3>1, FS_Subset, InboundAssumption
  <2> HIDE DEF more
  <2>2. Len(missing) \in Nat /\ DOMAIN missing = 1 .. Len(missing)
    BY <2>1, SetIsRows, RowsAre
  <2>3. rows' = rows \o list
    BY <1>5 DEF addAllFallbacks, more
  <2> HIDE DEF missing, Item
  <2>4. list \in Seq(S)
    BY <2>2
  <2>5. rows \in Seq(S)
    BY <1>2
  <2> HIDE DEF list, S
  <2>6. rows' \in Seq(S)
    BY <2>3, <2>4, <2>5
  <2> QED
    BY <2>6, SeqIsRows
<1> QED
  BY <1>3, <1>4, <1>5 DEF EditRows

\* Every edit counts as one, and leaves the rest of the dialog alone.
LEMMA EditsKeep ==
  ASSUME KeptInv, DOMAIN inbounds = Ids,
         EditBasic \/ (\E q \in Protocols : PickProtocol(q)) \/ EditProtocol \/ (\E w \in Networks : PickNetwork(w))
         \/ EditStream \/ EditSecurity \/ EditSniffing \/ EditJson \/ EditRows
         \/ (\E next \in {"none", "tls", "reality"} : PickSecurity(next)) \/ (\E kind \in Secrets : Generate(kind))
  PROVE  KeptInv'
<1> DEFINE quiet == [kind |-> "none"]
<1>0. IsRows(rows) /\ Fits(quiet) /\ quiet.kind \notin Secrets
  BY DEF KeptInv, RowsInv, Fits, Secrets
<1> HIDE DEF quiet
<1>1. ASSUME \E f : Change(f)
      PROVE  KeptInv'
  <2>1. touched' = TRUE /\ UNCHANGED <<inbounds, fallbacks, modal>> /\ rows' = rows /\ requests' \subseteq requests \cup {quiet}
    BY <1>1 DEF Change, Editing, Unasked
  <2> QED
    BY <1>0, <2>1, TouchedKeeps
<1>2. CASE EditBasic
  BY <1>1, <1>2 DEF EditBasic
<1>3. ASSUME NEW q \in Protocols, PickProtocol(q)
      PROVE  KeptInv'
  BY <1>1, <1>3 DEF PickProtocol
<1>4. CASE EditProtocol
  BY <1>1, <1>4 DEF EditProtocol
<1>5. ASSUME NEW w \in Networks, PickNetwork(w)
      PROVE  KeptInv'
  BY <1>1, <1>5 DEF PickNetwork
<1>6. CASE EditStream
  BY <1>1, <1>6 DEF EditStream
<1>7. CASE EditSecurity
  BY <1>1, <1>7 DEF EditSecurity
<1>8. CASE EditSniffing
  BY <1>1, <1>8 DEF EditSniffing
<1>9. CASE EditJson
  BY <1>1, <1>9 DEF EditJson
<1>10. CASE EditRows
  <2>1. touched' = TRUE /\ UNCHANGED <<inbounds, fallbacks, modal>> /\ requests' \subseteq requests \cup {quiet}
    BY <1>10 DEF EditRows, Editing
  <2>2. IsRows(rows')
    BY <1>10, EditedRows
  <2> QED
    BY <1>0, <2>1, <2>2, TouchedKeeps
<1>11. ASSUME NEW next, PickSecurity(next)
       PROVE  KeptInv'
  <2> DEFINE key == [kind |-> "keypair", nth |-> modal.nth, quiet |-> TRUE, n |-> n]
  <2>1. touched' = TRUE /\ UNCHANGED <<inbounds, fallbacks, modal>> /\ rows' = rows /\ requests' \subseteq requests \cup {key}
    BY <1>11 DEF PickSecurity, Editing, Ask
  <2>2. key.kind = "keypair" /\ key.nth = modal.nth
    OBVIOUS
  <2> HIDE DEF key
  <2>3. Fits(key)
    BY <2>2 DEF Fits
  <2> QED
    BY <1>0, <2>1, <2>2, <2>3, TouchedKeeps
<1>12. ASSUME NEW kind \in Secrets, Generate(kind)
       PROVE  KeptInv'
  <2> DEFINE key == [kind |-> kind, nth |-> modal.nth, quiet |-> FALSE, n |-> n]
  <2>1. touched' = TRUE /\ UNCHANGED <<inbounds, fallbacks, modal>> /\ rows' = rows /\ requests' \subseteq requests \cup {key}
    BY <1>12 DEF Generate, Editing, Ask
  <2>2. key.kind = kind /\ key.nth = modal.nth
    OBVIOUS
  <2> HIDE DEF key
  <2>3. Fits(key)
    BY <2>2 DEF Fits, Secrets
  <2> QED
    BY <1>0, <2>1, <2>2, <2>3, TouchedKeeps
<1> QED
  BY <1>2, <1>3, <1>4, <1>5, <1>6, <1>7, <1>8, <1>9, <1>10, <1>11, <1>12

\* Answers that come: a secret of this opening finds it edited, and one of an
\* earlier opening is told apart; fallback rows are the panel's or none.
LEMMA AnswersKeep ==
  ASSUME KeptInv, \E r \in requests : Generated(r) \/ Load(r) \/ SaveFails(r)
  PROVE  KeptInv'
<1> DEFINE quiet == [kind |-> "none"]
<1>0. Fits(quiet) /\ quiet.kind \notin Secrets
  BY DEF Fits, Secrets
<1> HIDE DEF quiet
<1>1. ASSUME NEW r \in requests, Generated(r)
      PROVE  KeptInv'
  <2>1. /\ UNCHANGED <<inbounds, fallbacks, modal, rows, was, touched, loaded>> /\ requests' \subseteq requests \cup {quiet}
        /\ r.kind \in Secrets /\ (UNCHANGED <<form, stray>> \/ (modal.open /\ stray' = (stray \/ r.nth # modal.nth)))
    BY <1>1 DEF Generated, Answered, Secrets
  <2>2. PanelInv'
    BY <2>1 DEF KeptInv, PanelInv
  <2>3. CASE UNCHANGED <<form, stray>>
    BY <1>0, <2>1, <2>2, <2>3, StandingKeeps
  <2>4. CASE modal.open /\ stray' = (stray \/ r.nth # modal.nth)
    <3>1. touched' \/ stray'
      BY <1>1, <2>1, <2>4 DEF KeptInv, RequestsInv, Dated
    <3>2. OpenInv'
      BY <2>1, <3>1 DEF KeptInv, OpenInv
    <3>3. RequestsInv'
      <4>1. requests' \subseteq requests
        BY <1>1 DEF Generated, Answered
      <4> QED
        BY <2>1, <4>1 DEF KeptInv, RequestsInv, Dated
    <3> QED
      BY <2>1, <2>2, <3>2, <3>3 DEF KeptInv, RowsInv
  <2> QED
    BY <2>1, <2>3, <2>4
<1>2. ASSUME NEW r \in requests, Load(r)
      PROVE  KeptInv'
  <2>1. /\ UNCHANGED <<inbounds, fallbacks, modal, form, was, touched, stray>> /\ requests' \subseteq requests
        /\ rows' = fallbacks[r.id] \/ (rows' = <<>> /\ loaded' = FALSE)
        /\ r.kind = "load"
    BY <1>2 DEF Load, Answered
  <2>2. r.id \in Ids
    BY <2>1 DEF KeptInv, RequestsInv, Fits
  <2>3. RowsInv'
    <3>1. Full(fallbacks[r.id]) /\ IsRows(<<>>)
      BY <2>2, EmptyIsRows DEF KeptInv, PanelInv
    <3> QED
      BY <2>1, <3>1 DEF RowsInv, Full
  <2>4. PanelInv' /\ OpenInv'
    BY <2>1 DEF KeptInv, PanelInv, OpenInv
  <2>5. RequestsInv'
    BY <2>1 DEF KeptInv, RequestsInv, Dated
  <2> QED
    BY <2>3, <2>4, <2>5 DEF KeptInv
<1>3. ASSUME NEW r \in requests, SaveFails(r)
      PROVE  KeptInv'
  <2>1. UNCHANGED <<inbounds, fallbacks, form, modal, rows, was, touched, stray, loaded>> /\ requests' \subseteq requests \cup {quiet}
    BY <1>3 DEF SaveFails, Answered
  <2>2. PanelInv'
    BY <2>1 DEF KeptInv, PanelInv
  <2> QED
    BY <1>0, <2>1, <2>2, StandingKeeps
<1> QED
  BY <1>1, <1>2, <1>3

\* What the panel makes of a payload is a row as the dialog writes it.
LEMMA PanelWrites ==
  ASSUME NEW payload, IsSaved(payload), NEW id
  PROVE  IsSaved(UpdatedRow(id, payload)) /\ IsSaved(AddedRow(id, payload))
<1> DEFINE row == normalizeStreamSettings(payload)
<1>1. DOMAIN payload = {"protocol", "port", "nodeId", "tag", "db", "settings", "stream", "sniffing"}
  BY FieldsAre DEF IsSaved, IsForm, Fields
<1>2. IsSavedStream(<<>>)
  BY DEF IsSavedStream
<1>3. DOMAIN row = DOMAIN payload /\ row.sniffing = payload.sniffing /\ IsSavedStream(row.stream)
  <2>1. CASE payload.protocol \in StreamProtocols
    BY <2>1 DEF normalizeStreamSettings, IsSaved
  <2>2. CASE payload.protocol \notin StreamProtocols
    <3>1. row = [payload EXCEPT !["stream"] = <<>>]
      BY <2>2 DEF normalizeStreamSettings
    <3>2. DOMAIN row = DOMAIN payload /\ row["stream"] = <<>> /\ row["sniffing"] = payload["sniffing"]
      BY <1>1, <3>1
    <3> QED
      BY <1>2, <3>2
  <2> QED
    BY <2>1, <2>2
<1> HIDE DEF row
<1>4. \A v, w : /\ DOMAIN [[row EXCEPT !.nodeId = v] EXCEPT !.tag = w] = DOMAIN row
                /\ [[row EXCEPT !.nodeId = v] EXCEPT !.tag = w].sniffing = row.sniffing /\ [[row EXCEPT !.nodeId = v] EXCEPT !.tag = w].stream = row.stream
                /\ DOMAIN [row EXCEPT !.tag = w] = DOMAIN row
                /\ [row EXCEPT !.tag = w].sniffing = row.sniffing /\ [row EXCEPT !.tag = w].stream = row.stream
  BY <1>1, <1>3
<1>5. \A r : DOMAIN r = DOMAIN row /\ r.sniffing = row.sniffing /\ r.stream = row.stream => IsSaved(r)
  BY <1>3 DEF IsSaved, IsForm
<1>6. (\E v, w : UpdatedRow(id, payload) = [[row EXCEPT !.nodeId = v] EXCEPT !.tag = w]) /\ (\E w : AddedRow(id, payload) = [row EXCEPT !.tag = w])
  BY DEF UpdatedRow, AddedRow, row
<1> QED
  BY <1>4, <1>5, <1>6

\* Saving: what is sent is stored, and the dialog closes.
LEMMA SavesKeep ==
  ASSUME KeptInv, FormsOK, Submit \/ (\E r \in requests : Save(r) \/ SaveRows(r)) \/ Close
  PROVE  KeptInv'
<1> DEFINE quiet == [kind |-> "none"]
<1>1. CASE Submit
  <2> DEFINE save == [kind |-> "save", nth |-> modal.nth, mode |-> modal.mode, id |-> modal.id, host |-> isFallbackHost(form),
                      rows |-> SavedRows(rows), payload |-> formValuesToWirePayload(Parsed(form))]
  <2>1. /\ Valid(form) /\ requests' = requests \cup {save}
        /\ UNCHANGED <<inbounds, fallbacks, form, modal, rows, was, touched, stray, loaded>>
    BY <1>1 DEF Submit, Ask
  <2>2. save.kind = "save" /\ save.payload = formValuesToWirePayload(Parsed(form)) /\ save.rows = SavedRows(rows)
    OBVIOUS
  <2> HIDE DEF save
  <2>3. IsSaved(save.payload)
    BY <2>1, <2>2, PayloadIsSaved DEF FormsOK
  <2>4. Full(save.rows)
    BY <2>2, SavedAreComplete DEF Full, KeptInv, RowsInv
  <2>5. Fits(save) /\ save.kind \notin Secrets
    BY <2>2, <2>3, <2>4 DEF Fits, Secrets
  <2>6. PanelInv'
    BY <2>1 DEF KeptInv, PanelInv
  <2> QED
    BY <2>1, <2>5, <2>6, StandingKeeps
<1>2. ASSUME NEW r \in requests, Save(r)
      PROVE  KeptInv'
  <2> DEFINE sent == [kind |-> "rows", nth |-> r.nth, id |-> 0, rows |-> r.rows]
  <2>1. IsSaved(r.payload) /\ Full(r.rows)
    BY <1>2 DEF Save, KeptInv, RequestsInv, Fits
  <2>2. PICK id :
          /\ inbounds' = [inbounds EXCEPT ![id] = IF r.mode = "edit" THEN UpdatedRow(id, r.payload) ELSE AddedRow(id, r.payload)]
          /\ IF r.host
             THEN /\ requests' = (requests \ {r}) \cup {[kind |-> "rows", nth |-> r.nth, id |-> id, rows |-> r.rows]}
                  /\ UNCHANGED <<modal, form, was, touched, stray, loaded>>
             ELSE requests' = requests \ {r} /\ onClose
    BY <1>2 DEF Save
  <2>3. fallbacks' = fallbacks /\ rows' = rows
    BY <1>2 DEF Save
  <2>4. PanelInv'
    <3>1. IsSaved(UpdatedRow(id, r.payload)) /\ IsSaved(AddedRow(id, r.payload))
      BY <2>1, PanelWrites
    <3>2. \A i \in Ids : inbounds'[i] = None \/ IsSaved(inbounds'[i])
      BY <2>2, <3>1 DEF KeptInv, PanelInv, FormsOK
    <3> QED
      BY <2>3, <3>2 DEF KeptInv, PanelInv
  <2>5. CASE r.host
    <3> DEFINE next == [kind |-> "rows", nth |-> r.nth, id |-> id, rows |-> r.rows]
    <3>1. requests' \subseteq requests \cup {next} /\ UNCHANGED <<modal, form, was, touched, stray, loaded>>
      BY <2>2, <2>5
    <3>2. next.kind = "rows" /\ next.rows = r.rows
      OBVIOUS
    <3> HIDE DEF next
    <3>3. Fits(next) /\ next.kind \notin Secrets
      BY <2>1, <3>2 DEF Fits, Secrets
    <3> QED
      BY <2>3, <2>4, <3>1, <3>3, StandingKeeps
  <2>6. CASE ~r.host
    BY <2>2, <2>3, <2>4, <2>6, ClosedKeeps
  <2> QED
    BY <2>5, <2>6
<1>3. ASSUME NEW r \in requests, SaveRows(r)
      PROVE  KeptInv'
  <2>1. /\ onClose /\ requests' \subseteq requests /\ inbounds' = inbounds /\ rows' = rows /\ r.kind = "rows"
        /\ fallbacks' = fallbacks \/ fallbacks' = [fallbacks EXCEPT ![r.id] = r.rows]
    BY <1>3 DEF SaveRows, Answered
  <2>2. Full(r.rows)
    BY <2>1 DEF KeptInv, RequestsInv, Fits
  <2>3. PanelInv'
    BY <2>1, <2>2 DEF KeptInv, PanelInv
  <2> QED
    BY <2>1, <2>3, ClosedKeeps
<1>4. CASE Close
  <2>1. onClose /\ requests' = requests /\ inbounds' = inbounds /\ fallbacks' = fallbacks /\ rows' = rows
    BY <1>4 DEF Close
  <2>2. PanelInv'
    BY <2>1 DEF KeptInv, PanelInv
  <2> QED
    BY <2>1, <2>2, ClosedKeeps
<1> QED
  BY <1>1, <1>2, <1>3, <1>4

\* The invariant of the rows holds in every state of the editor.
LEMMA KeptInvHolds == EditorSpec => []KeptInv
<1>1. EditorInit => KeptInv
  <2> SUFFICES ASSUME EditorInit
               PROVE  KeptInv
    OBVIOUS
  <2>1. PanelInv
    BY InboundAssumption DEF EditorInit, PanelInv, Full
  <2>2. RequestsInv /\ RowsInv
    BY EmptyIsRows DEF EditorInit, RequestsInv, RowsInv
  <2>3. OpenInv
    BY DEF EditorInit, OpenInv
  <2> QED
    BY <2>1, <2>2, <2>3 DEF KeptInv
<1>2. Inv /\ KeptInv /\ [EditorNext]_vars => KeptInv'
  <2> SUFFICES ASSUME Inv, KeptInv, [EditorNext]_vars
               PROVE  KeptInv'
    OBVIOUS
  <2>1. DOMAIN inbounds = Ids /\ FormsOK
    BY DEF Inv, FormsOK
  <2>2. CASE UNCHANGED vars
    <3> DEFINE quiet == [kind |-> "none"]
    <3>1. UNCHANGED <<inbounds, fallbacks, form, modal, rows, was, touched, stray, loaded>> /\ requests' \subseteq requests \cup {quiet}
      BY <2>2 DEF vars
    <3>2. Fits(quiet) /\ quiet.kind \notin Secrets
      BY DEF Fits, Secrets
    <3>3. PanelInv'
      BY <3>1 DEF KeptInv, PanelInv
    <3> HIDE DEF quiet
    <3> QED
      BY <3>1, <3>2, <3>3, StandingKeeps
  <2>3. CASE EditorNext
    BY <2>1, <2>3, AddKeeps, OpenKeeps, EditsKeep, AnswersKeep, SavesKeep DEF EditorNext, Secrets
  <2> QED
    BY <2>2, <2>3
<1> QED
  BY <1>1, <1>2, EditorInv, PTL DEF EditorSpec

\* An inbound that is opened and not edited can be saved, and saving it changes
\* nothing the panel holds of it but its tag (rawInboundToFormValues, validation and
\* formValuesToWirePayload), whatever rows the dialogs have written, whatever is
\* answered late and however often it is opened: the run's property, without its bounds.
THEOREM UntouchedRowsAreKept == EditorSpec => []UntouchedIsKept
<1>1. KeptInv => UntouchedIsKept
  <2> SUFFICES ASSUME KeptInv, modal.open, modal.mode = "edit", ~touched, ~stray
               PROVE  LET now == formValuesToWirePayload(Parsed(form))
                      IN  /\ Valid(form)
                          /\ <<now.protocol, now.port, now.nodeId, now.db, now.sniffing>> = <<was.protocol, was.port, was.nodeId, was.db, was.sniffing>>
                          /\ Preserved(was.settings, now.settings) /\ Preserved(was.stream, now.stream)
                          /\ loaded => SavedRows(rows) = rows
    BY DEF UntouchedIsKept
  <2>1. IsSaved(was) /\ HoldsRow(form, was)
    BY DEF KeptInv, OpenInv
  <2>2. PICK tag : form = [AsShown(was) EXCEPT !.tag = tag]
    BY <2>1 DEF HoldsRow
  <2> DEFINE now == formValuesToWirePayload(Parsed(form))
  <2>3. /\ Valid(form)
        /\ <<now.protocol, now.port, now.nodeId, now.db, now.sniffing>> = <<was.protocol, was.port, was.nodeId, was.db, was.sniffing>>
        /\ Preserved(was.settings, now.settings) /\ Preserved(was.stream, now.stream)
    BY <2>1, <2>2, RowKept
  <2>4. loaded => SavedRows(rows) = rows
    BY CompleteAreSaved DEF KeptInv, RowsInv
  <2> QED
    BY <2>3, <2>4
<1> QED
  BY <1>1, KeptInvHolds, PTL

==============================================================================
