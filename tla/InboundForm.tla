----------------------------- MODULE InboundForm -----------------------------
(***************************************************************************)
(* The values of the inbound editor and their way to the panel and back:   *)
(* lib/xray/inbound-tag.ts, inbound-defaults.ts, inbound-form-adapter.ts,  *)
(* schemas/forms/inbound-form.ts, and what each sub-form of                *)
(* pages/inbounds/form/ can change.  settings and streamSettings are       *)
(* functions over the keys present, <<>> when there are none.  A generated *)
(* secret is the number of its making, 0 when empty; both halves of a pair *)
(* carry the same number.  A form's inputs are the set of values one       *)
(* change of it can lead to; fields the code treats alike are one field.   *)
(***************************************************************************)
EXTENDS Integers, Sequences, SequencesExt, TLC

CONSTANT Networks   \* networks picked in the transmission select

Read(obj, key, default) == IF key \in DOMAIN obj THEN obj[key] ELSE default
Drop(obj, keys) == [k \in DOMAIN obj \ keys |-> obj[k]]
With(obj, key, value) == [k \in DOMAIN obj \cup {key} |-> IF k = key THEN value ELSE obj[k]]
\* The keys of one object, and those only another has.
Over(obj, base) == [k \in DOMAIN obj \cup DOMAIN base |-> IF k \in DOMAIN obj THEN obj[k] ELSE base[k]]
Write(obj, slice, key, value) == With(obj, slice, With(Read(obj, slice, <<>>), key, value))
\* What can become of a list: a new item, one less, one changed.
ListEdits(list, new, Change(_)) ==
  {Append(list, new)} \cup {RemoveAt(list, i) : i \in DOMAIN list}
    \cup UNION {{[list EXCEPT ![i] = item] : item \in Change(list[i])} : i \in DOMAIN list}
Fixed(item) == {}
Retyped(item) == {"typed"}

StreamProtocols == {"vmess", "vless", "trojan", "shadowsocks", "hysteria"}
NodeProtocols == StreamProtocols \cup {"wireguard"}
TlsOk(protocol, network) ==
  \/ protocol = "hysteria"
  \/ protocol \in StreamProtocols /\ network \in {"tcp", "ws", "grpc", "httpupgrade", "xhttp"}
RealityOk(protocol, network) == protocol \in {"vless", "trojan"} /\ network \in {"tcp", "grpc", "xhttp"}

------------------------------------------------------------------------------
\* Tags: <<>> is the empty text, <<"my-tag">> one typed by hand, and one that the
\* panel composes is <<node, port, transports>>, with a number behind when taken.
TunnelNetworks == {"tcp", "udp"}
inboundTransports(protocol, network, settings) ==
  LET listed == IF protocol = "tunnel" THEN Read(settings, "allowedNetwork", {})
                ELSE IF protocol = "shadowsocks" THEN Read(settings, "network", {}) ELSE {}
      own == IF network = "kcp" THEN {"udp"} ELSE {"tcp"}
  IN  IF protocol \in {"hysteria", "wireguard"} THEN {"udp"}
      ELSE IF listed # {} THEN listed
      ELSE own \cup IF protocol = "mixed" /\ Read(settings, "udp", FALSE) THEN {"udp"} ELSE {}
composeInboundTag(in) == <<in.nodeId, in.port, inboundTransports(in.protocol, in.network, in.settings)>>
isAutoInboundTag(tag, in) == tag = <<>> \/ (Len(tag) > 1 /\ SubSeq(tag, 1, 3) = composeInboundTag(in))

------------------------------------------------------------------------------
\* Defaults.
HttpHeader == [type |-> "http", request |-> "default", response |-> "default"]
NoHeader == [type |-> "none"]
newStreamSlice(network) ==
  CASE network = "tcp" -> [header |-> NoHeader]
    [] network = "kcp" -> [mtu |-> 1350]
    [] network = "xhttp" -> [mode |-> "auto", sessionPlacement |-> "", uplinkHTTPMethod |-> "", xPaddingObfsMode |-> FALSE]
    [] network = "hysteria" -> [udpIdleTimeout |-> 60]
    [] OTHER -> [path |-> "/"]
SliceKeys ==
  [tcp |-> "tcpSettings", kcp |-> "kcpSettings", ws |-> "wsSettings", grpc |-> "grpcSettings", httpupgrade |-> "httpupgradeSettings",
   xhttp |-> "xhttpSettings", hysteria |-> "hysteriaSettings", tls |-> "tlsSettings", reality |-> "realitySettings"]
StreamNetworks == DOMAIN SliceKeys \ {"tls", "reality"}
SliceOf(name) == Read(SliceKeys, name, "")
Slices == {SliceOf(n) : n \in StreamNetworks \ {"hysteria"}}
Certificate == [useFile |-> TRUE, files |-> "", inline |-> "", usage |-> "encipherment"]
NewTls == [certificates |-> <<Certificate>>, echServerKeys |-> 0, echConfigList |-> 0, pins |-> <<>>, other |-> "default"]
NewReality(n) == [target |-> n, serverNames |-> n, shortIds |-> n, privateKey |-> 0, publicKey |-> 0, mldsa65Seed |-> 0, mldsa65Verify |-> 0, other |-> "default"]

createDefaultInboundSettings(protocol, n) ==
  CASE protocol = "vless" -> [clients |-> <<>>, decryption |-> 0, encryption |-> 0, fallbacks |-> <<>>]
    [] protocol = "trojan" -> [clients |-> <<>>, fallbacks |-> <<>>]
    [] protocol \in {"vmess", "hysteria"} -> [clients |-> <<>>]
    [] protocol = "shadowsocks" -> [clients |-> <<>>, method |-> "2022", password |-> n, network |-> {"tcp"}]
    [] protocol = "http" -> [accounts |-> <<n>>]
    [] protocol = "mixed" -> [accounts |-> <<n>>, auth |-> "password", udp |-> FALSE, ip |-> "127.0.0.1"]
    [] protocol = "tunnel" -> [allowedNetwork |-> TunnelNetworks, followRedirect |-> FALSE]
    [] protocol = "tun" -> [name |-> "xray0", gateway |-> <<>>]
    [] OTHER -> [secretKey |-> n, peers |-> <<[privateKey |-> n, publicKey |-> n, ip |-> 2]>>]
HysteriaStream(n) ==
  [network |-> "hysteria", security |-> "tls", hysteriaSettings |-> newStreamSlice("hysteria"), tlsSettings |-> NewTls,
   finalmask |-> [tcp |-> <<>>, udp |-> <<[type |-> "salamander", settings |-> [password |-> n]]>>]]
TcpStream(slice) == [network |-> "tcp", security |-> "none", tcpSettings |-> slice]

------------------------------------------------------------------------------
\* Row to form.  The stored certificates have no useFile; an old row may lack
\* the slice of its network.
Healed(stream) ==
  IF stream = <<>> \/ SliceOf(stream.network) \in DOMAIN stream THEN stream
  ELSE With(stream, SliceOf(stream.network), <<>>)
tlsCerts(stream) == Read(Read(stream, "tlsSettings", <<>>), "certificates", <<>>)
WithCerts(stream, certs) == IF tlsCerts(stream) = <<>> THEN stream ELSE [stream EXCEPT !.tlsSettings.certificates = certs]
WithUseFile(cert) == IF "useFile" \in DOMAIN cert THEN cert ELSE With(cert, "useFile", cert.files # "" \/ cert.inline = "")
synthesizeTlsCertUseFile(stream) == LET certs == tlsCerts(stream) IN WithCerts(stream, [i \in DOMAIN certs |-> WithUseFile(certs[i])])
stripTlsCertUseFile(stream) == LET certs == tlsCerts(stream) IN WithCerts(stream, [i \in DOMAIN certs |-> Drop(certs[i], {"useFile"})])
\* Mutant: the slice an old row lacks is not filled in.
rawInboundToFormValues_NotHealed(row) == [row EXCEPT !.stream = synthesizeTlsCertUseFile(@)]
rawInboundToFormValues(row) == [row EXCEPT !.stream = synthesizeTlsCertUseFile(Healed(@))]

\* Form to row: validation keeps the slices of the network and security shown and
\* fills what a slice or the settings lack, then the optional empties go.
KeptKeys(s) ==
  {"network", "security", SliceOf(s.network), "sockopt", "externalProxy", "finalmask"}
    \cup IF s.security = "none" THEN {} ELSE {SliceOf(s.security)}
NoMasks == [tcp |-> <<>>, udp |-> <<>>]
ParsedKey(s, k) ==
  CASE k = "finalmask" -> Over(Drop(s[k], {"kcpSettings"}), NoMasks)
    [] k = SliceOf(s.network) -> Over(s[k], newStreamSlice(s.network))
    [] k = "realitySettings" -> Over(s[k], NewReality(0))
    [] OTHER -> s[k]
ParsedStream(s) == IF s = <<>> THEN s ELSE [k \in DOMAIN s \cap KeptKeys(s) |-> ParsedKey(s, k)]
Parsed(form) == [form EXCEPT !.stream = ParsedStream(@)]
\* A union member must be there for its network and its security.
Valid(form) ==
  form.stream # <<>> =>
  /\ {"network", "security"} \subseteq DOMAIN form.stream
  /\ form.stream.network \in StreamNetworks /\ form.stream.security \in {"none", "tls", "reality"}
  /\ SliceOf(form.stream.network) \in DOMAIN form.stream
  /\ form.stream.security \in {"tls", "reality"} => SliceOf(form.stream.security) \in DOMAIN form.stream
normalizeSniffing(sniffing) == IF sniffing.enabled THEN sniffing ELSE [enabled |-> FALSE]
dropLegacyOptionalEmpties(settings, stream) ==
  LET fm == Read(stream, "finalmask", <<>>)
      full == [k \in {key \in DOMAIN fm : key \notin {"tcp", "udp"} \/ fm[key] # <<>>} |-> fm[k]]
  IN  [settings |-> IF Read(settings, "fallbacks", <<"kept">>) = <<>> THEN Drop(settings, {"fallbacks"}) ELSE settings,
       stream |-> IF DOMAIN fm = {} THEN stream
                  ELSE IF DOMAIN full = {} THEN Drop(stream, {"finalmask"}) ELSE [stream EXCEPT !.finalmask = full]]
formValuesToWirePayload(form) ==
  LET slim == dropLegacyOptionalEmpties(form.settings, stripTlsCertUseFile(form.stream))
  IN  [form EXCEPT !.settings = slim.settings, !.stream = slim.stream, !.sniffing = normalizeSniffing(@)]

------------------------------------------------------------------------------
\* Protocol tab: settings to settings; n is a secret generated now.
AccountInputs(s, n) == {[s EXCEPT !.accounts = list] : list \in ListEdits(s.accounts, n, Fixed)}
VlessInputs(s, visible) ==
  {[s EXCEPT !.decryption = 0, !.encryption = 0]}
    \cup IF visible THEN {With(s, "testseed", "typed")} ELSE {}
ShadowsocksInputs(s, n) ==
  {[s EXCEPT !.method = m, !.password = n] : m \in {"2022", "old"} \ {s.method}}
    \cup (IF s.method = "2022" THEN {[s EXCEPT !.password = n]} ELSE {})
    \cup {[s EXCEPT !.network = nets] : nets \in SUBSET TunnelNetworks \ {{}}}
MixedInputs(s, n) ==
  AccountInputs(s, n) \cup {[s EXCEPT !.udp = ~s.udp], [s EXCEPT !.auth = "noauth"]}
    \cup IF s.udp THEN {[s EXCEPT !.ip = "typed"]} ELSE {}
TunnelInputs(s) ==
  {[s EXCEPT !.allowedNetwork = nets] : nets \in SUBSET TunnelNetworks \ {{}}}
    \cup {[s EXCEPT !.followRedirect = ~s.followRedirect], With(s, "rewriteAddress", "typed")}
TunInputs(s) == {[s EXCEPT !.name = "typed"]} \cup {[s EXCEPT !.gateway = list] : list \in ListEdits(s.gateway, "", Retyped)}
\* A new peer gets the address after the highest one.
nextWgPeerAllowedIP(peers) ==
  IF peers = <<>> THEN 2 ELSE 1 + CHOOSE m \in {p.ip : p \in ToSet(peers)} : \A p \in ToSet(peers) : p.ip <= m
NewPeer(peers, n) == [privateKey |-> n, publicKey |-> n, ip |-> nextWgPeerAllowedIP(peers)]
WireguardInputs(s, n) ==
  LET regenWgPeerKeypair(peer) == {[peer EXCEPT !.privateKey = n, !.publicKey = n]}
      lists == ListEdits(s.peers, NewPeer(s.peers, n), regenWgPeerKeypair)
  IN  {[s EXCEPT !.secretKey = n]} \cup {[s EXCEPT !.peers = list] : list \in lists \ {<<>>}}
ProtocolInputs(form, n) ==
  LET s == form.settings
      visible == Read(form.stream, "network", "") = "tcp" /\ Read(form.stream, "security", "none") # "none"
  IN  CASE form.protocol = "vless" -> VlessInputs(s, visible)
        [] form.protocol = "shadowsocks" -> ShadowsocksInputs(s, n)
        [] form.protocol = "http" -> AccountInputs(s, n)
        [] form.protocol = "mixed" -> MixedInputs(s, n)
        [] form.protocol = "tunnel" -> TunnelInputs(s)
        [] form.protocol = "tun" -> TunInputs(s)
        [] form.protocol = "wireguard" -> WireguardInputs(s, n)
        [] OTHER -> {}
\* The seed fields of a VLESS inbound take their initial values when first shown.
Seeded(form) ==
  IF /\ form.protocol = "vless" /\ "testseed" \notin DOMAIN form.settings
     /\ Read(form.stream, "network", "") = "tcp" /\ Read(form.stream, "security", "none") # "none"
  THEN [form EXCEPT !.settings = With(@, "testseed", "default")] ELSE form

------------------------------------------------------------------------------
\* Stream tab: stream to stream.
RawInputs(s) ==
  LET header == Read(Read(s, "tcpSettings", <<>>), "header", NoHeader)
      Switched == IF header.type = "http" THEN NoHeader ELSE HttpHeader
      typed == {[header EXCEPT ![part] = "typed"] : part \in DOMAIN header \ {"type"}}
  IN  {Write(s, "tcpSettings", "header", h) : h \in {Switched} \cup typed}
        \cup {Write(s, "tcpSettings", "acceptProxyProtocol", b) : b \in BOOLEAN}
\* WebSocket, gRPC and HTTPUpgrade; the MTU of mKCP.
PathInputs(s) == {Write(s, SliceOf(s.network), "path", "typed")}
KcpInputs(s) == {Write(s, "kcpSettings", "mtu", 1200)}
XhttpInputs(s) ==
  LET x == Read(s, "xhttpSettings", <<>>)
      Put(key, value) == Write(s, "xhttpSettings", key, value)
      placed == Read(x, "sessionPlacement", "") \notin {"", "path"}
  IN  {Put("mode", m) : m \in {"auto", "packet-up", "stream-up"}}
        \cup {Put("sessionPlacement", "header"), Put("xPaddingObfsMode", ~Read(x, "xPaddingObfsMode", FALSE))}
        \cup {Put("uplinkHTTPMethod", m) : m \in {"PUT"} \cup IF Read(x, "mode", "") = "packet-up" THEN {"GET"} ELSE {}}
        \cup (IF Read(x, "mode", "") = "packet-up" THEN {Put("scMaxEachPostBytes", "typed"), Put("uplinkDataPlacement", "header")} ELSE {})
        \cup (IF Read(x, "mode", "") = "stream-up" THEN {Put("scStreamUpServerSecs", "typed")} ELSE {})
        \cup (IF Read(x, "xPaddingObfsMode", FALSE) THEN {Put("xPaddingKey", "typed"), Put("xPaddingMethod", "tokenish")} ELSE {})
        \cup IF placed THEN {Put("sessionKey", "typed")} ELSE {}
HysteriaInputs(s) ==
  LET h == s.hysteriaSettings
      masquerade == Read(h, "masquerade", "")
      next == IF masquerade = "" THEN {"default"} ELSE {"", "proxy", "file", "string", "typed"}
  IN  {Write(s, "hysteriaSettings", "masquerade", m) : m \in next} \cup {Write(s, "hysteriaSettings", "udpIdleTimeout", 30)}
Proxy(port) == [forceTls |-> "same", dest |-> "", port |-> port]
ProxyChanges(proxy) == {[proxy EXCEPT !.dest = "typed"]} \cup {[proxy EXCEPT !.forceTls = f] : f \in {"none", "tls"}}
ExternalProxyInputs(s, port) ==
  LET list == Read(s, "externalProxy", <<>>)
  IN  {With(s, "externalProxy", l) : l \in IF list = <<>> THEN {<<Proxy(port)>>} ELSE {<<>>} \cup ListEdits(list, Proxy(443), ProxyChanges)}
SockoptInputs(s) ==
  LET sock == Read(s, "sockopt", <<>>)
      Put(key, value) == Write(s, "sockopt", key, value)
      custom == Read(sock, "customSockopt", <<>>)
  IN  IF DOMAIN sock = {} THEN {With(s, "sockopt", [mark |-> 0, tproxy |-> "off"])}
      ELSE {Drop(s, {"sockopt"}), Put("mark", 1), Put("tproxy", "redirect")}
             \cup {IF "happyEyeballs" \in DOMAIN sock THEN [s EXCEPT !.sockopt = Drop(@, {"happyEyeballs"})] ELSE Put("happyEyeballs", "default")}
             \cup {Put("customSockopt", list) : list \in ListEdits(custom, "", Retyped)}

------------------------------------------------------------------------------
\* Final masks (lib/xray/forms/transport/FinalMaskForm.tsx, shared with the
\* outbound form): a mask has a type and the settings of that type.
defaultTcpMaskSettings(type) == IF type = "header-custom" THEN [clients |-> <<>>, servers |-> <<>>] ELSE [text |-> "default"]
defaultUdpMaskSettings(type) ==
  CASE type = "salamander" -> [password |-> 0]
    [] type = "header-custom" -> [client |-> <<>>, server |-> <<>>]
    [] type = "noise" -> [noise |-> <<>>]
    [] OTHER -> [text |-> "default"]
NewItem == [type |-> "array", packet |-> "[]"]
Packet(type) == CASE type = "array" -> "[]" [] type = "base64" -> "random" [] OTHER -> ""
ItemEditor(item) == {[type |-> t, packet |-> Packet(t)] : t \in {"array", "str", "base64"} \ {item.type}} \cup {[item EXCEPT !.packet = "typed"]}
HeaderCustomGroups(settings) ==
  LET Group(items) == ListEdits(items, NewItem, ItemEditor)
  IN  UNION {{[settings EXCEPT ![key] = list] : list \in ListEdits(settings[key], <<NewItem>>, Group)} : key \in {"clients", "servers"}}
ItemLists(settings, keys) ==
  UNION {{[settings EXCEPT ![key] = list] : list \in ListEdits(settings[key], NewItem, ItemEditor)} : key \in keys}
TcpMaskItem(mask) ==
  {[type |-> t, settings |-> defaultTcpMaskSettings(t)] : t \in {"fragment", "header-custom", "sudoku"} \ {mask.type}}
    \cup {[mask EXCEPT !.settings = v] :
             v \in IF mask.type = "header-custom" THEN HeaderCustomGroups(mask.settings) ELSE {[text |-> "typed"]}}
UdpTypes(protocol) == IF protocol = "hysteria" THEN {"salamander"} ELSE {"mkcp-legacy", "xdns", "header-custom", "noise"}
UdpSettings(mask, n) ==
  CASE mask.type = "salamander" -> {[password |-> n]}
    [] mask.type = "header-custom" -> ItemLists(mask.settings, {"client", "server"})
    [] mask.type = "noise" -> ItemLists(mask.settings, {"noise"})
    [] OTHER -> {[text |-> "typed"]}
UdpMaskItem(protocol, mask, n) ==
  {[type |-> t, settings |-> defaultUdpMaskSettings(t)] : t \in UdpTypes(protocol) \ {mask.type}}
    \cup {[mask EXCEPT !.settings = v] : v \in UdpSettings(mask, n)}
\* The MTU that goes with a mask is written beside the masks, inside finalmask.
KcpMtu(mask) == IF mask.type = "xdns" THEN 900 ELSE 1350
UdpMasks(protocol, network, fm, n) ==
  LET udp == Read(fm, "udp", <<>>)
      first == IF protocol = "hysteria" THEN "salamander" ELSE "mkcp-legacy"
      Change(mask) == UdpMaskItem(protocol, mask, n)
      new == [type |-> first, settings |-> defaultUdpMaskSettings(first)]
      retyped(i, m) == IF network = "kcp" /\ m.type # udp[i].type THEN With(fm, "kcpSettings", [mtu |-> KcpMtu(m)]) ELSE fm
  IN  {With(fm, "udp", list) : list \in {Append(udp, new)} \cup {RemoveAt(udp, i) : i \in DOMAIN udp}}
        \cup UNION {{With(retyped(i, m), "udp", [udp EXCEPT ![i] = m]) : m \in Change(udp[i])} : i \in DOMAIN udp}
NewQuic == [congestion |-> "bbr", maxIdleTimeout |-> 30]
QuicParams(fm) ==
  LET quic == Read(fm, "quicParams", <<>>)
      typed == {[quic EXCEPT !.congestion = c] : c \in {"reno", "bbr", "brutal"}} \cup {[quic EXCEPT !.maxIdleTimeout = 60]}
                 \cup (IF quic.congestion = "bbr" THEN {With(quic, "bbrProfile", "typed")} ELSE {})
                 \cup (IF quic.congestion = "brutal" THEN {With(quic, "brutalUp", "typed")} ELSE {})
                 \cup {IF "udpHop" \in DOMAIN quic THEN Drop(quic, {"udpHop"}) ELSE With(quic, "udpHop", "default")}
  IN  IF quic = <<>> THEN {With(fm, "quicParams", NewQuic)}
      ELSE {Drop(fm, {"quicParams"})} \cup {With(fm, "quicParams", q) : q \in typed}
FinalMaskInputs(protocol, s, n) ==
  LET fm == Read(s, "finalmask", <<>>)
      network == s.network
      tcp == {With(fm, "tcp", list) : list \in ListEdits(Read(fm, "tcp", <<>>), [type |-> "fragment", settings |-> defaultTcpMaskSettings("fragment")], TcpMaskItem)}
  IN  {With(s, "finalmask", new) : new \in
         (IF network \in {"tcp", "httpupgrade", "ws", "grpc", "xhttp"} THEN tcp ELSE {})
           \cup (IF protocol = "hysteria" \/ network = "kcp" THEN UdpMasks(protocol, network, fm, n) ELSE {})
           \cup (IF protocol = "hysteria" \/ network = "xhttp" THEN QuicParams(fm) ELSE {})}
StreamInputs(form, n) ==
  LET s == form.stream
      own == CASE s.network = "tcp" -> RawInputs(s)
               [] s.network = "xhttp" -> XhttpInputs(s)
               [] s.network = "kcp" -> KcpInputs(s)
               [] s.network = "hysteria" -> {}
               [] OTHER -> PathInputs(s)
  IN  own \cup ExternalProxyInputs(s, form.port) \cup SockoptInputs(s) \cup FinalMaskInputs(form.protocol, s, n)
        \cup IF form.protocol = "hysteria" /\ "hysteriaSettings" \in DOMAIN s THEN HysteriaInputs(s) ELSE {}
\* Another network drops the other slices and seeds its own; the security stays.
MkcpMask == [type |-> "mkcp-legacy", settings |-> [text |-> "default"]]
onNetworkChange(s, next) ==
  LET clean == With(Drop([s EXCEPT !.network = next], Slices), SliceOf(next), newStreamSlice(next))
      fm == Read(s, "finalmask", <<>>)
      udp == Read(fm, "udp", <<>>)
  IN  IF next = "kcp" /\ \A i \in DOMAIN udp : udp[i].type # "mkcp-legacy"
      THEN With(clean, "finalmask", With(fm, "udp", Append(udp, MkcpMask))) ELSE clean

------------------------------------------------------------------------------
\* Security tab.
CertChanges(cert) ==
  {[cert EXCEPT !.useFile = ~@], [cert EXCEPT !.usage = IF @ = "issue" THEN "encipherment" ELSE "issue"]}
    \cup (IF cert.useFile THEN {[cert EXCEPT !.files = text] : text \in {"", "typed"}} ELSE {[cert EXCEPT !.inline = "typed"]})
    \cup IF cert.usage = "issue" THEN {With(cert, "buildChain", TRUE)} ELSE {}
TlsInputs(s, n) ==
  LET tls == s.tlsSettings
      lists == ListEdits(Read(tls, "certificates", <<>>), Certificate, CertChanges)
      Put(key, value) == Write(s, "tlsSettings", key, value)
  IN  {Put("certificates", list) : list \in lists \ {<<>>}}
        \cup {Put("pins", Append(Read(tls, "pins", <<>>), n)), Put("other", "typed")}
        \cup {With(s, "tlsSettings", With(With(tls, "echServerKeys", 0), "echConfigList", 0))}
RealityInputs(s, n) ==
  LET Put(pairs) == With(s, "realitySettings", Over(pairs, s.realitySettings))
  IN  {Put([target |-> n, serverNames |-> n]), Put([shortIds |-> n]), Put([other |-> "typed"]),
       Put([privateKey |-> 0, publicKey |-> 0]), Put([mldsa65Seed |-> 0, mldsa65Verify |-> 0])}
SecurityInputs(s, n) ==
  CASE s.security = "tls" /\ "tlsSettings" \in DOMAIN s -> TlsInputs(s, n)
    [] s.security = "reality" /\ "realitySettings" \in DOMAIN s -> RealityInputs(s, n)
    [] OTHER -> {}
onSecurityChange(s, next, n) ==
  Over(CASE next = "tls" -> [tlsSettings |-> NewTls] [] next = "reality" -> [realitySettings |-> NewReality(n)] [] OTHER -> <<>>,
       Drop([s EXCEPT !.security = next], {"tlsSettings", "realitySettings"}))
\* The values of the security radio.
Securities(form) ==
  LET network == form.stream.network
  IN  IF ~TlsOk(form.protocol, network) THEN {}
      ELSE {"tls"} \cup (IF form.protocol = "hysteria" THEN {} ELSE {"none"})
             \cup IF RealityOk(form.protocol, network) THEN {"reality"} ELSE {}

SniffingInputs(s) ==
  {[s EXCEPT !.enabled = ~@]} \cup IF s.enabled THEN {With(s, "destOverride", "typed"), With(s, "ipsExcluded", "typed")} ELSE {}
=============================================================================
