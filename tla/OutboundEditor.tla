--------------------------- MODULE OutboundEditor ---------------------------
(***************************************************************************)
(* The outbounds of the template and the dialog that edits one of them:    *)
(* pages/xray/outbounds/OutboundsTab.tsx, OutboundFormModal.tsx and        *)
(* outbound-form-helpers.ts.  The dialog shows a form (tab 1) or its JSON  *)
(* (tab 2), and imports share links.  Names are trimmed by Trim.           *)
(***************************************************************************)
EXTENDS OutboundAdapter, SequencesExt

CONSTANTS Stored,      \* lists of outbounds an existing template may hold
          Shared,      \* what was shared elsewhere: inbound, client and proxy
          Typed,       \* outbounds somebody may type as JSON
          Tags,        \* tags somebody may type, "" among them
          Trim,        \* Tags -> Tags, the tag without its outer blanks
          MaxOutbounds, MaxEdits, \* bounds: outbounds of the template, changes and imports
          Address      \* the host of the page that makes the links

VARIABLES outbounds,   \* the template's list
          dialog,      \* the open dialog, or Closed
          origin,      \* what the form was imported from and not changed since, or Nothing
          edits        \* changes made so far, bounded by MaxEdits
vars == <<outbounds, dialog, origin, edits>>

Nothing == NoKeys
Closed == [open |-> FALSE]
\* A text of the JSON tab: that of an outbound, none at all, or no JSON.
JsonOf(outbound) == [is |-> "json", of |-> outbound]
NoJson == [is |-> "empty"]
BadJson == [is |-> "bad"]

------------------------------------------------------------------------------
(* Values the form starts from. *)
NewSlice(network) ==
  CASE network = "kcp" -> [kcpSettings |-> [mtu |-> 1350]]
    [] network = "ws" -> [wsSettings |-> [path |-> "/", host |-> ""]]
    [] network = "grpc" -> [grpcSettings |-> [serviceName |-> "", authority |-> "", multiMode |-> FALSE]]
    [] network = "httpupgrade" -> [httpupgradeSettings |-> [path |-> "/", host |-> ""]]
    [] network = "xhttp" -> [xhttpSettings |-> [path |-> "/", host |-> "", mode |-> "", xPaddingBytes |-> "100-1000"]]
    [] network = "hysteria" -> [hysteriaSettings |-> [version |-> 2, auth |-> ""]]
    [] OTHER -> [tcpSettings |-> [header |-> "none", path |-> <<>>, host |-> <<>>]]
newStreamSlice(network) == Over([network |-> network], NewSlice(network))
NewTls(alpn) == [serverName |-> "", alpn |-> alpn, fingerprint |-> "", echConfigList |-> "", pins |-> <<>>]
hysteriaStreamSlice == Over([security |-> "tls", tlsSettings |-> NewTls(<<"h3">>)], newStreamSlice("hysteria"))
TcpSlice == Over([security |-> "none"], newStreamSlice("tcp"))
buildAddModeValues == rawOutboundToFormValues(NoKeys)

Network(form) == Read(form.stream, "network", "")
Security(form) == Read(form.stream, "security", "none")

\* The effects that follow every change of the form: a stream where the protocol
\* has one, and for hysteria its own transport with TLS.
Hysterical(form) ==
  IF form.protocol # "hysteria" \/ (Network(form) = "hysteria" /\ Security(form) = "tls") THEN form
  ELSE [form EXCEPT !.stream =
          Over([k \in DOMAIN form.stream \cap {"hysteriaSettings", "tlsSettings"} |-> form.stream[k]], hysteriaStreamSlice)]
Settled(form) ==
  Hysterical(IF canEnableStream(form.protocol) /\ Network(form) = "" THEN [form EXCEPT !.stream = TcpSlice] ELSE form)

Json(form) == JsonOf(formValuesToWirePayload(form))

------------------------------------------------------------------------------
(* The list. *)
IsList(list) == list \in Seq(ToSet(list))
Distinct(list) ==
  \A i, j \in DOMAIN list :
    /\ Read(list[i], "tag", "") # ""
    /\ i # j /\ list[i].tag = list[j].tag => Trim[list[i].tag] # list[i].tag

\* What Xray runs as an inbound, with a link of it that leads somewhere.  Only
\* hysteria has its transport, only vless and trojan have reality, which Xray
\* starts with names and short ids only.
IsReality(r) == 1 \in DOMAIN r.shortIds \cap DOMAIN r.serverNames /\ Or(r.serverName, r.serverNames[1]) # ""
IsInboundStream(s, protocol) ==
  /\ s.network # "" /\ {s.http, s.multi, s.obfs} \subseteq BOOLEAN
  /\ s.network = "hysteria" => protocol = "hysteria"
  /\ s.network = "xhttp" => s.mode # ""
  /\ s.security \in {"none", "tls"} \cup (IF protocol \in {"vless", "trojan"} THEN {"reality"} ELSE {})
  /\ s.security = "reality" => IsReality(s.reality)
IsProxy(ep) == ep # Nothing /\ ep.dest # "" /\ ep.port \in Ports /\ ep.forceTls \in {"same", "none", "tls"}
IsSharable(inbound) ==
  /\ inbound.port \in Ports /\ IsInboundStream(inbound.stream, inbound.protocol)
  /\ \A i \in DOMAIN inbound.stream.externalProxy : IsProxy(inbound.stream.externalProxy[i])

\* Nothing has no blanks.  The outbounds of the template that was loaded are told
\* apart by their tags.  A link is the inbound's, or that of one of its external
\* proxies or peers.
ASSUME OutboundAssumption ==
  /\ Trim[""] = ""
  /\ \A list \in Stored : IsList(list) /\ Distinct(list)
  /\ \A item \in Shared :
       IF item.inbound.protocol = "wireguard" THEN DOMAIN item.inbound.peers # {}
       ELSE /\ IsSharable(item.inbound)
            /\ LET proxies == item.inbound.stream.externalProxy
               IN item.proxy \in IF proxies = <<>> THEN {1} ELSE DOMAIN proxies

Init == outbounds \in Stored /\ dialog = Closed /\ origin = Nothing /\ edits = 0

TagsWithout(i) == {Read(outbounds[j], "tag", "") : j \in DOMAIN outbounds \ {i}} \ {""}

\* index 0 is a new outbound. The tags in use are noted when the dialog opens.
Opened(i) ==
  LET form == IF i = 0 THEN buildAddModeValues ELSE rawOutboundToFormValues(outbounds[i])
  IN [open |-> TRUE, index |-> i, existingTags |-> TagsWithout(i), form |-> Settled(form),
      tab |-> "form", json |-> Json(form), dirty |-> FALSE, typed |-> i # 0]

openAdd == ~dialog.open /\ Len(outbounds) < MaxOutbounds /\ dialog' = Opened(0) /\ UNCHANGED <<outbounds, origin, edits>>
openEdit == ~dialog.open /\ UNCHANGED <<outbounds, origin, edits>> /\ \E i \in DOMAIN outbounds : dialog' = Opened(i)
onClose == dialog.open /\ dialog' = Closed /\ origin' = Nothing /\ UNCHANGED <<outbounds, edits>>

confirmDelete ==
  ~dialog.open /\ UNCHANGED <<dialog, origin, edits>> /\ \E i \in DOMAIN outbounds : outbounds' = RemoveAt(outbounds, i)
setFirst ==
  /\ ~dialog.open /\ UNCHANGED <<dialog, origin, edits>>
  /\ \E i \in DOMAIN outbounds : outbounds' = <<outbounds[i]>> \o RemoveAt(outbounds, i)
\* moveUp of one is moveDown of the other.
Move ==
  /\ ~dialog.open /\ UNCHANGED <<dialog, origin, edits>>
  /\ \E i \in 2..Len(outbounds) :
       outbounds' = [outbounds EXCEPT ![i] = outbounds[i-1], ![i-1] = outbounds[i]]

------------------------------------------------------------------------------
(* Changes of the form, each where its field is shown. *)
CanEdit == dialog.open /\ dialog.tab = "form" /\ edits < MaxEdits
Becomes(form) ==
  /\ dialog' = [dialog EXCEPT !.form = Settled(form)]
  /\ origin' = Nothing /\ edits' = edits + 1 /\ UNCHANGED outbounds
WithStream(stream) == [dialog.form EXCEPT !.stream = stream]

EditTag == CanEdit /\ \E tag \in Tags : Becomes([dialog.form EXCEPT !.tag = tag])

\* Mutant: a stream of hysteria is kept by the next protocol.
ChangeProtocol_KeepStream(protocol) ==
  Becomes([dialog.form EXCEPT !.protocol = protocol, !.settings = SettingsFromWire(protocol, NoKeys)])

\* Settings start afresh. The stream stays, unless it is or becomes hysteria's.
ChangeProtocol(protocol) ==
  LET stream == IF protocol = "hysteria" THEN hysteriaStreamSlice
                ELSE IF Network(dialog.form) = "hysteria" THEN TcpSlice ELSE dialog.form.stream
  IN Becomes([dialog.form EXCEPT !.protocol = protocol, !.settings = SettingsFromWire(protocol, NoKeys), !.stream = stream])
onValuesChange == CanEdit /\ \E protocol \in Protocols \ {dialog.form.protocol} : ChangeProtocol(protocol)

StreamShown == canEnableStream(dialog.form.protocol) /\ Network(dialog.form) # ""

\* The security stays if the new network has it; its settings do not.
onNetworkChange ==
  /\ CanEdit /\ StreamShown
  /\ \E next \in IF dialog.form.protocol = "hysteria" THEN {"hysteria"}
                 ELSE {"tcp", "kcp", "ws", "grpc", "httpupgrade", "xhttp"} \ {Network(dialog.form)} :
       LET protocol == dialog.form.protocol
           security == Security(dialog.form)
           lost == \/ security = "tls" /\ ~canEnableTls(protocol, next)
                   \/ security = "reality" /\ ~canEnableReality(protocol, next)
       IN Becomes(WithStream(
            IF next = "hysteria" THEN hysteriaStreamSlice
            ELSE Over([security |-> IF lost THEN "none" ELSE security], newStreamSlice(next))))

SecuritiesShown(protocol, network) ==
  (IF network = "hysteria" THEN {} ELSE {"none"})
    \cup (IF canEnableTls(protocol, network) THEN {"tls"} ELSE {})
    \cup (IF canEnableReality(protocol, network) THEN {"reality"} ELSE {})

onSecurityChange ==
  /\ CanEdit /\ StreamShown
  /\ \E next \in SecuritiesShown(dialog.form.protocol, Network(dialog.form)) \ {Security(dialog.form)} :
       LET stream == dialog.form.stream
           fresh == CASE next = "tls" -> [security |-> next, tlsSettings |-> NewTls(<<>>)]
                      [] next = "reality" -> [security |-> next, realitySettings |-> NoReality]
                      [] OTHER -> [security |-> next]
       IN Becomes(WithStream(Over(fresh, [k \in DOMAIN stream \ {"tlsSettings", "realitySettings"} |-> stream[k]])))

EditFlow ==
  /\ CanEdit /\ canEnableTlsFlow(dialog.form.protocol, Network(dialog.form), Security(dialog.form))
  /\ \E flow \in {"", "xtls-rprx-vision"} : Becomes([dialog.form EXCEPT !.settings.flow = flow])

\* isMuxAllowed: the switch is shown where the mux would be stored.
ToggleMux == CanEdit /\ muxAllowed(dialog.form) /\ Becomes([dialog.form EXCEPT !.mux.enabled = ~@])

onXmuxToggle ==
  /\ CanEdit /\ StreamShown /\ Network(dialog.form) = "xhttp"
  /\ LET xhttp == dialog.form.stream["xhttpSettings"]
         on == ~Read(xhttp, "enableXmux", FALSE)
         shown == Over(Over([enableXmux |-> on], xhttp), Keep(on, "xmux", XmuxDefaults))
     IN Becomes(WithStream([dialog.form.stream EXCEPT !.xhttpSettings = shown]))

ToggleSockopt ==
  /\ CanEdit /\ (canEnableStream(dialog.form.protocol) => StreamShown)
  /\ LET stream == dialog.form.stream
     IN Becomes(WithStream(IF "sockopt" \in DOMAIN stream THEN [k \in DOMAIN stream \ {"sockopt"} |-> stream[k]]
                           ELSE Over([sockopt |-> "default"], stream)))

------------------------------------------------------------------------------
(* The JSON tab. *)
ShowJson ==
  /\ dialog.open /\ dialog.tab = "form"
  /\ dialog' = [dialog EXCEPT !.tab = "json", !.json = Json(dialog.form), !.dirty = FALSE]
  /\ UNCHANGED <<outbounds, origin, edits>>

EditJson ==
  /\ dialog.open /\ dialog.tab = "json" /\ edits < MaxEdits
  /\ \E json \in {JsonOf(o) : o \in Typed} \cup {BadJson, NoJson} :
       dialog' = [dialog EXCEPT !.json = json, !.dirty = TRUE]
  /\ edits' = edits + 1 /\ UNCHANGED <<outbounds, origin>>

\* Text that is no JSON keeps the tab; an empty one leaves the form as it was.
ShowForm ==
  /\ dialog.open /\ dialog.tab = "json" /\ (dialog.dirty => dialog.json # BadJson)
  /\ dialog' = IF dialog.dirty /\ dialog.json # NoJson
               THEN [dialog EXCEPT !.tab = "form", !.dirty = FALSE, !.typed = TRUE,
                       !.form = Settled(rawOutboundToFormValues(dialog.json.of))]
               ELSE [dialog EXCEPT !.tab = "form"]
  /\ origin' = IF dialog.dirty /\ dialog.json # NoJson THEN Nothing ELSE origin
  /\ UNCHANGED <<outbounds, edits>>

\* The links of a shared item: one, or one for each external proxy.
LinkOf(item) == genAllLinks(item.inbound, item.remark, item.client, "", Address)[item.proxy]
Shareable == {item \in Shared : item.inbound.protocol # "wireguard"}
SharedLink(item) ==
  IF item \in Shareable THEN LinkOf(item)
  ELSE CHOOSE link \in genWireguardLinks(item.inbound, item.remark, "", Address) : TRUE

\* The tag typed so far stays if the link has none.
importLink ==
  /\ dialog.open /\ dialog.tab = "json" /\ edits < MaxEdits
  /\ \E item \in Shared :
       LET parsed == parseOutboundLink(SharedLink(item))
           next == [rawOutboundToFormValues(parsed)
                      EXCEPT !.tag = IF @ = "" THEN dialog.form.tag ELSE @]
       IN /\ parsed # NotParsed
          /\ dialog' = [dialog EXCEPT !.form = Settled(next), !.json = Json(next), !.dirty = FALSE, !.tab = "form"]
          /\ origin' = item
  /\ edits' = edits + 1 /\ UNCHANGED outbounds

\* Mutant: a new outbound is not compared with the tags in use.
Accepted_NewUnchecked(values) ==
  Trim[values.tag] # "" /\ (dialog.index # 0 => Trim[values.tag] \notin dialog.existingTags)

\* The tag must not be empty nor be used by another outbound, blanks aside; the
\* outbound's own tag may stay.
Accepted(values) ==
  /\ Trim[values.tag] # ""
  /\ \/ Trim[values.tag] \notin dialog.existingTags
     \/ dialog.index # 0 /\ Trim[values.tag] = Read(outbounds[dialog.index], "tag", "")

\* OK saves the tab that is shown.
onOk ==
  /\ dialog.open
  /\ dialog.tab = "json" => dialog.json \notin {BadJson, NoJson}
  /\ LET values == IF dialog.tab = "json" THEN rawOutboundToFormValues(dialog.json.of) ELSE dialog.form
         outbound == formValuesToWirePayload(values)
     IN /\ Accepted(values)
        /\ outbounds' = IF dialog.index = 0 THEN Append(outbounds, outbound)
                        ELSE [outbounds EXCEPT ![dialog.index] = outbound]
  /\ dialog' = Closed /\ origin' = Nothing /\ UNCHANGED edits

Next ==
  \/ openAdd \/ openEdit \/ onClose \/ confirmDelete \/ setFirst \/ Move
  \/ EditTag \/ onValuesChange \/ onNetworkChange \/ onSecurityChange \/ EditFlow
  \/ ToggleMux \/ onXmuxToggle \/ ToggleSockopt
  \/ ShowJson \/ EditJson \/ ShowForm \/ importLink \/ onOk
Spec == Init /\ [][Next]_vars

------------------------------------------------------------------------------
(* What a link must not lose. *)
Proxy(item) ==
  IF item.inbound.stream.externalProxy = <<>> THEN Nothing ELSE item.inbound.stream.externalProxy[item.proxy]
Server1(outbound) ==
  LET s == outbound.settings IN
  CASE outbound.protocol = "vmess" -> s.vnext[1] [] outbound.protocol \in {"trojan", "shadowsocks"} -> s.servers[1] [] OTHER -> s
Credential(outbound) ==
  CASE outbound.protocol = "vmess" -> Server1(outbound).users[1].id [] outbound.protocol = "vless" -> Server1(outbound).id
    [] outbound.protocol = "trojan" -> Server1(outbound).password [] OTHER -> outbound.streamSettings["hysteriaSettings"].auth
ClientCredential(item) ==
  CASE item.inbound.protocol = "trojan" -> item.client.password [] item.inbound.protocol = "hysteria" -> item.client.auth
    [] OTHER -> item.client.id

SameServer(item, outbound) ==
  /\ outbound.protocol = item.inbound.protocol
  /\ Server1(outbound).port = (IF Proxy(item) = Nothing THEN item.inbound.port ELSE Proxy(item).port)
  /\ Server1(outbound).address = (IF Proxy(item) # Nothing THEN Proxy(item).dest
                                  ELSE IF item.inbound.listen \in NoHosts THEN Address ELSE item.inbound.listen)

SameTransport(item, stream) ==
  LET s == item.inbound.stream
      kept(key) == Read(stream, key, NoKeys)
  IN /\ stream["network"] = s.network
     /\ s.network = "ws" => kept("wsSettings") = [path |-> s.path, host |-> HostOf(s)]
     /\ s.network = "httpupgrade" => kept("httpupgradeSettings") = [path |-> s.path, host |-> HostOf(s)]
     /\ s.network = "grpc" => kept("grpcSettings") = [serviceName |-> s.service, authority |-> s.authority, multiMode |-> s.multi]
     /\ s.network = "tcp" =>
          kept("tcpSettings") = IF s.http THEN [header |-> "http", path |-> s.paths, host |-> Part(Or(s.respHost, s.hdrHost))]
                                ELSE [header |-> "none", path |-> <<>>, host |-> <<>>]
     /\ s.network = "xhttp" =>
          LET x == kept("xhttpSettings")
          IN /\ Read(x, "path", "") = s.path /\ Read(x, "host", "") = HostOf(s)
             /\ item.inbound.protocol # "vmess" => x["mode"] = s.mode
             /\ s.pad # "" => x["xPaddingBytes"] = s.pad
             /\ Read(x, "seqKey", "") = s.seqKey /\ ("xPaddingObfsMode" \in DOMAIN x) = s.obfs

SameSecurity(item, stream) ==
  LET s == item.inbound.stream
      ep == IF item.inbound.protocol = "hysteria" THEN Nothing ELSE Proxy(item)
      security == Effective(s, IF ep = Nothing THEN "same" ELSE ep.forceTls)
      ownTls == s.security = "tls"
  IN /\ stream["security"] = security
     /\ security = "tls" =>
          LET tls == stream["tlsSettings"]
              own == IF ownTls THEN s.tls ELSE [sni |-> "", fp |-> "", alpn |-> <<>>]
          IN /\ tls.serverName = IF ep = Nothing THEN own.sni ELSE Or(ep.sni, ep.dest)
             /\ tls.fingerprint = IF ep = Nothing THEN own.fp ELSE Or(ep.fp, own.fp)
             /\ tls.alpn = IF ep # Nothing /\ ep.alpn # <<>> THEN ep.alpn
                             ELSE IF item.inbound.protocol = "hysteria" /\ own.alpn = <<>> THEN <<"h3">> ELSE own.alpn
     /\ security = "reality" =>
          LET r == stream["realitySettings"]
          IN /\ r.publicKey = s.reality.pbk /\ r.spiderX = s.reality.spx /\ r.mldsa65Verify = s.reality.pqv
             /\ r.shortId \in ToSet(s.reality.shortIds)
             /\ r.serverName \in ToSet(s.reality.serverNames) \cup {s.reality.serverName}

\* An outbound made from a client's link and saved unchanged reaches the inbound,
\* or the external proxy the link is for, as that client: address and port,
\* credential, network and its settings, security, names, keys and flow.  Left out
\* is what the parser is known to lose: the stream of a shadowsocks link, the
\* xhttp mode of a vmess link, a credential that has to be encoded in an URL, and
\* the TLS settings of an external proxy of hysteria.
ImportAgrees ==
  origin # Nothing =>
    LET item == origin
        outbound == formValuesToWirePayload(dialog.form)
        protocol == item.inbound.protocol
        stream == outbound.streamSettings
    IN protocol # "wireguard" =>
         /\ SameServer(item, outbound)
         /\ IF protocol = "shadowsocks"
            THEN Server1(outbound).method = item.inbound.method
            ELSE /\ ClientCredential(item) # Reserved => Credential(outbound) = ClientCredential(item)
                 /\ protocol # "hysteria" => SameTransport(item, stream)
                 /\ SameSecurity(item, stream)
                 /\ protocol = "vless" =>
                      (outbound.settings.flow # "" <=>
                         /\ item.client.flow # "" /\ item.inbound.stream.network = "tcp"
                         /\ stream["security"] \in {"tls", "reality"}
                         /\ stream["security"] = item.inbound.stream.security)

\* A stored outbound but for the two numbers of wireguard that a zero erases: the
\* dialog shows the default then, and the next OK would store that.
Steady(outbound) ==
  IF outbound.protocol # "wireguard" THEN outbound
  ELSE [outbound EXCEPT !.settings = [k \in DOMAIN @ \ {"mtu", "workers"} |-> @[k]]]

\* What was saved is stable: shown in the dialog again and saved, it is the same.
SavedIsStable ==
  \A i \in DOMAIN outbounds :
    (\A list \in Stored : outbounds[i] \notin ToSet(list)) =>
      Steady(formValuesToWirePayload(rawOutboundToFormValues(outbounds[i]))) = Steady(outbounds[i])

\* Routing names an outbound by its tag: no two outbounds have the same one,
\* unless it was typed with blanks around it, which the comparison overlooks.
TagsDistinct == Distinct(outbounds)

\* "Hysteria2 always rides its own QUIC transport with TLS": whatever is chosen,
\* imported or typed, the form has hysteria with that transport and TLS only, and
\* no other protocol gets that transport unless it was opened or typed with it.
HysteriaTransport ==
  dialog.open =>
    /\ dialog.form.protocol = "hysteria" => Network(dialog.form) = "hysteria" /\ Security(dialog.form) = "tls"
    /\ Network(dialog.form) = "hysteria" /\ ~dialog.typed => dialog.form.protocol = "hysteria"
==============================================================================
