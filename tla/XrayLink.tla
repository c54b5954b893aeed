------------------------------ MODULE XrayLink ------------------------------
(***************************************************************************)
(* Share links: frontend/src/lib/xray/inbound-link.ts turns an inbound and *)
(* one of its clients into a link, outbound-link-parser.ts turns a link    *)
(* into an outbound.  A text is a string, "" when empty; a comma-separated *)
(* text, and every value of a query parameter, is the sequence of its      *)
(* parts.  A JSON object is a function whose domain are the keys present.  *)
(***************************************************************************)
EXTENDS Integers, Sequences, FiniteSets, TLC

NoKeys == <<>>                                  \* {}: an object without keys
Keep(cond, key, value) == [k \in IF cond THEN {key} ELSE {} |-> value]
\* The keys of one object, and those only another has.
Over(object, base) == [k \in DOMAIN object \cup DOMAIN base |-> IF k \in DOMAIN object THEN object[k] ELSE base[k]]
\* The parameters that say something.
Said(params) == [k \in {j \in DOMAIN params : params[j] # <<>>} |-> params[k]]
Part(text) == IF text = "" THEN <<>> ELSE <<text>>
One(parts) == IF parts = <<>> THEN "" ELSE parts[1]
Read(object, key, default) == IF key \in DOMAIN object THEN object[key] ELSE default
Or(a, b) == IF a # "" THEN a ELSE b

\* encodeURIComponent, and what URL.username shows of it: only the text with a
\* reserved character is changed.
Reserved == "p@ss"
Encoded(text) == IF text = Reserved THEN "p%40ss" ELSE text
PublicKey(secret) == IF secret = "" THEN "" ELSE "public " \o secret

------------------------------------------------------------------------------
(* What an inbound allows: protocol-capabilities.ts. *)
TlsNetworks == {"tcp", "ws", "http", "grpc", "httpupgrade", "xhttp"}
RealityNetworks == {"tcp", "http", "grpc", "xhttp"}
canEnableTls(protocol, network) ==
  \/ protocol = "hysteria"
  \/ protocol \in {"vmess", "vless", "trojan", "shadowsocks"} /\ network \in TlsNetworks
canEnableReality(protocol, network) ==
  protocol \in {"vless", "trojan"} /\ network \in RealityNetworks
canEnableTlsFlow(protocol, network, security) ==
  security \in {"tls", "reality"} /\ network = "tcp" /\ protocol = "vless"
canEnableStream(protocol) ==
  protocol \in {"vmess", "vless", "trojan", "shadowsocks", "hysteria"}
SingleUserMethod == "2022-blake3-chacha20-poly1305"
isSS2022(method) == method \in {"2022-blake3-aes-128-gcm", SingleUserMethod}
isSSMultiUser(method) == method # SingleUserMethod

------------------------------------------------------------------------------
(* Generation. A stream holds the settings of its network and security. *)
HostOf(s) == Or(s.host, s.hdrHost)
Effective(s, force) == IF force = "same" THEN s.security ELSE force

\* The SplitHTTP fields a client needs, without Host and the server-only ones.
buildXhttpExtra(s) ==
  Said([xPaddingBytes |-> Part(s.pad), xPaddingObfsMode |-> IF s.obfs THEN <<"true">> ELSE <<>>,
        xPaddingKey |-> IF s.obfs THEN Part(s.obfsKey) ELSE <<>>,
        seqKey |-> Part(s.seqKey), headers |-> Part(s.header)])

NetworkParams(s) ==
  CASE s.network = "tcp" /\ s.http ->
         Over([path |-> s.paths, headerType |-> <<"http">>], Said([host |-> Part(Or(s.respHost, s.hdrHost))]))
    [] s.network = "kcp" -> [mtu |-> <<s.mtu>>]
    [] s.network \in {"ws", "httpupgrade"} -> [path |-> Part(s.path), host |-> Part(HostOf(s))]
    [] s.network = "grpc" ->
         Over([serviceName |-> Part(s.service), authority |-> Part(s.authority)], Keep(s.multi, "mode", <<"multi">>))
    [] s.network = "xhttp" ->
         Over([path |-> Part(s.path), host |-> Part(HostOf(s)), mode |-> Part(s.mode)], Said([x_padding_bytes |-> Part(s.pad)]))
    [] OTHER -> NoKeys

FinalMask(s) == Said([fm |-> Part(s.fm)])

TlsParams(s) ==
  IF s.security # "tls" THEN NoKeys
  ELSE Over([fp |-> Part(s.tls.fp), alpn |-> s.tls.alpn],
            Said([ech |-> Part(s.tls.ech), sni |-> Part(s.tls.sni), pcs |-> s.tls.pins]))

\* The SNI is the client's, else the first server name, else the target's host.
RealitySni(r) ==
  Or(r.serverName, Or(One(r.serverNames), One(r.target)))

RealityParams(s) ==
  IF s.security # "reality" THEN NoKeys
  ELSE LET r == s.reality IN
       Over([pbk |-> Part(r.pbk), fp |-> Part(r.fp)],
            Said([sni |-> Part(RealitySni(r)), sid |-> IF r.shortIds = <<>> THEN <<>> ELSE <<One(r.shortIds)>>,
                  spx |-> Part(r.spx), pqv |-> Part(r.pqv)]))

\* An external proxy terminates TLS itself: its own SNI, or its address.
ProxyTls(ep, security) ==
  IF ep = NoKeys \/ security # "tls" THEN NoKeys
  ELSE Said([sni |-> Part(Or(ep.sni, ep.dest)), fp |-> Part(ep.fp), alpn |-> ep.alpn])

\* Mutant: the inbound's own TLS settings are written after the proxy's.
SecurityParams_OwnLast(s, security, ep) ==
  CASE security = "tls" -> Over([security |-> <<"tls">>], Over(TlsParams(s), ProxyTls(ep, security)))
    [] security = "reality" -> Over([security |-> <<"reality">>], RealityParams(s))
    [] OTHER -> [security |-> <<"none">>]

SecurityParams(s, security, ep) ==
  CASE security = "tls" -> Over([security |-> <<"tls">>], Over(ProxyTls(ep, security), TlsParams(s)))
    [] security = "reality" -> Over([security |-> <<"reality">>], RealityParams(s))
    [] OTHER -> [security |-> <<"none">>]

Link(scheme, user, address, port, params, extra, remark) ==
  [scheme |-> scheme, user |-> user, address |-> address, port |-> port,
   params |-> params, extra |-> extra, remark |-> remark]
NoLink == Link("", "", "", 0, NoKeys, NoKeys, "")

Extra(s) == IF s.network = "xhttp" THEN buildXhttpExtra(s) ELSE NoKeys

\* The flow rides only on raw TCP whose security is the inbound's own.
FlowParam(s, security, flow) ==
  Keep(security = s.security /\ security \in {"tls", "reality"} /\ s.network = "tcp" /\ flow # "",
       "flow", Part(flow))

genVlessLink(inb, address, port, force, remark, client, ep) ==
  LET s == inb.stream
      security == Effective(s, force)
  IN Link("vless", Encoded(client.id), address, port,
          Over([type |-> <<s.network>>, encryption |-> Part(inb.encryption)],
            Over(NetworkParams(s),
              Over(FinalMask(s), Over(SecurityParams(s, security, ep), FlowParam(s, security, client.flow))))),
          Extra(s), remark)

genTrojanLink(inb, address, port, force, remark, client, ep) ==
  LET s == inb.stream
  IN Link("trojan", Encoded(client.password), address, port,
          Over([type |-> <<s.network>>],
            Over(NetworkParams(s), Over(FinalMask(s), SecurityParams(s, Effective(s, force), ep)))),
          Extra(s), remark)

\* The user part is base64 of method and passwords; no security parameter but tls.
ShadowsocksUser(inb, client) ==
  <<inb.method>> \o (IF isSS2022(inb.method) THEN <<inb.password>> ELSE <<>>)
    \o (IF isSSMultiUser(inb.method) THEN <<client.password>> ELSE <<>>)
genShadowsocksLink(inb, address, port, force, remark, client, ep) ==
  LET s == inb.stream
      security == Effective(s, force)
  IN Link("ss", ShadowsocksUser(inb, client), address, port,
          Over([type |-> <<s.network>>],
            Over(NetworkParams(s),
              Over(FinalMask(s), IF security = "tls" THEN SecurityParams(s, security, ep) ELSE NoKeys))),
          Extra(s), remark)

\* vmess carries one JSON object: other keys for grpc and xhttp, the extra fields inline.
VmessNetwork(s) ==
  CASE s.network = "tcp" /\ s.http ->
         Over([type |-> <<"http">>], [k \in DOMAIN NetworkParams(s) \ {"headerType"} |-> NetworkParams(s)[k]])
    [] s.network = "tcp" /\ ~s.http -> [type |-> <<"none">>]
    [] s.network = "grpc" ->
         Over([path |-> Part(s.service), authority |-> Part(s.authority)], Keep(s.multi, "type", <<"multi">>))
    [] s.network = "xhttp" ->
         Over([path |-> Part(s.path), host |-> Part(HostOf(s)), type |-> Part(s.mode)],
              Over(Said([x_padding_bytes |-> Part(s.pad)]), Extra(s)))
    [] OTHER -> NetworkParams(s)
VmessTls(s, security) ==
  IF security = "tls" /\ s.security = "tls"
  THEN Said([sni |-> Part(s.tls.sni), fp |-> Part(s.tls.fp), alpn |-> s.tls.alpn, pcs |-> s.tls.pins])
  ELSE NoKeys
genVmessLink(inb, address, port, force, remark, client, ep) ==
  LET s == inb.stream
      security == Effective(s, force)
  IN Link("vmess", client.id, address, port,
          Over([scy |-> Part(client.security), net |-> <<s.network>>, tls |-> <<security>>],
            Over(ProxyTls(ep, security), Over(VmessTls(s, security), Over(FinalMask(s), VmessNetwork(s))))),
          NoKeys, remark)

HysteriaParams(s) ==
  Over([security |-> <<"tls">>],
    Over(Said([fp |-> Part(s.tls.fp), alpn |-> s.tls.alpn, ech |-> Part(s.tls.ech), sni |-> Part(s.tls.sni),
               pinSHA256 |-> s.tls.pins]),
      Over(FinalMask(s), Keep(s.fm # "", "obfs", <<"salamander">>))))
genHysteriaLink(inb, address, port, remark, client) ==
  IF inb.stream.security # "tls" THEN NoLink
  ELSE Link(IF inb.version = 2 THEN "hysteria2" ELSE "hysteria", Encoded(client.auth), address, port,
            HysteriaParams(inb.stream), NoKeys, remark)

WireguardParams(inb, peer) ==
  Over(Said([publickey |-> Part(PublicKey(inb.secretKey)), address |-> Part(One(peer.allowedIPs))]),
       Keep(inb.mtu > 0, "mtu", <<inb.mtu>>))
genWireguardLink(inb, address, port, remark, peer) ==
  Link("wireguard", peer.privateKey, address, port, WireguardParams(inb, peer), NoKeys, remark)

\* The .conf file of a peer also holds the key the peer shares with the server.
genWireguardConfig(inb, address, port, remark, peer) ==
  [privateKey |-> peer.privateKey, address |-> One(peer.allowedIPs),
   publicKey |-> PublicKey(inb.secretKey), endpoint |-> <<address, port>>,
   mtu |-> inb.mtu, psk |-> peer.psk, keepAlive |-> peer.keepAlive, remark |-> remark]

genLink(inb, address, port, force, remark, client, ep) ==
  CASE inb.protocol = "vmess" -> genVmessLink(inb, address, port, force, remark, client, ep)
    [] inb.protocol = "vless" -> genVlessLink(inb, address, port, force, remark, client, ep)
    [] inb.protocol = "trojan" -> genTrojanLink(inb, address, port, force, remark, client, ep)
    [] inb.protocol = "shadowsocks" -> genShadowsocksLink(inb, address, port, force, remark, client, ep)
    [] inb.protocol = "hysteria" -> genHysteriaLink(inb, address, port, remark, client)
    [] OTHER -> NoLink

\* The address a link names: the node's, else an address the inbound binds, else
\* the page's. A unix socket and 0.0.0.0 are not addresses.
NoHosts == {"", "0.0.0.0", "/run/x.sock", "@x"}
resolveAddr(inb, hostOverride, fallback) ==
  IF hostOverride # "" THEN hostOverride
  ELSE IF inb.listen \notin NoHosts THEN inb.listen
  ELSE fallback

\* One link for a client, or one for each of the inbound's external proxies.
genAllLinks(inb, remark, client, hostOverride, fallback) ==
  LET proxies == inb.stream.externalProxy
  IN IF proxies = <<>>
     THEN <<genLink(inb, resolveAddr(inb, hostOverride, fallback), inb.port, "same", remark, client, NoKeys)>>
     ELSE [i \in DOMAIN proxies |->
             genLink(inb, proxies[i].dest, proxies[i].port, proxies[i].forceTls, remark, client, proxies[i])]

\* The clients a link is made for: none for a single-user shadowsocks inbound.
getInboundClients(inb) ==
  IF inb.protocol = "shadowsocks" /\ ~isSSMultiUser(inb.method) THEN {} ELSE inb.clients

NoClient == [id |-> "", password |-> "", auth |-> "", flow |-> "", security |-> ""]

genWireguardLinks(inb, remark, hostOverride, fallback) ==
  {genWireguardLink(inb, resolveAddr(inb, hostOverride, fallback), inb.port, remark, inb.peers[i])
     : i \in DOMAIN inb.peers}
genWireguardConfigs(inb, remark, hostOverride, fallback) ==
  {genWireguardConfig(inb, resolveAddr(inb, hostOverride, fallback), inb.port, remark, inb.peers[i])
     : i \in DOMAIN inb.peers}

\* All an inbound exports: links of its clients, or the peers' configurations.
genInboundLinks(inb, remark, hostOverride, fallback) ==
  LET all(c) == genAllLinks(inb, remark, c, hostOverride, fallback)
      address == resolveAddr(inb, hostOverride, fallback)
  IN CASE inb.protocol = "wireguard" -> genWireguardConfigs(inb, remark, hostOverride, fallback)
       [] inb.protocol = "shadowsocks" /\ ~isSSMultiUser(inb.method) ->
            {genShadowsocksLink(inb, address, inb.port, "same", remark, NoClient, NoKeys)}
       [] OTHER -> UNION {{all(c)[i] : i \in DOMAIN all(c)} : c \in getInboundClients(inb)}

------------------------------------------------------------------------------
(* Parsing: a link becomes an outbound. *)
NoReality == [publicKey |-> "", fingerprint |-> "chrome", serverName |-> "", shortId |-> "", spiderX |-> "", mldsa65Verify |-> ""]
NoSlice(network) ==
  CASE network = "kcp" -> [kcpSettings |-> [mtu |-> 1350]]
    [] network = "ws" -> [wsSettings |-> [path |-> "/", host |-> ""]]
    [] network = "grpc" -> [grpcSettings |-> [serviceName |-> "", authority |-> "", multiMode |-> FALSE]]
    [] network = "httpupgrade" -> [httpupgradeSettings |-> [path |-> "/", host |-> ""]]
    [] network = "xhttp" ->
         [xhttpSettings |-> [path |-> "/", host |-> "", mode |-> "auto", xPaddingBytes |-> "100-1000"]]
    [] OTHER -> [tcpSettings |-> [header |-> "none", path |-> <<>>, host |-> <<>>]]
NoSecurity(security) ==
  CASE security = "tls" ->
         [tlsSettings |-> [serverName |-> "", alpn |-> <<>>, fingerprint |-> "", echConfigList |-> "", pins |-> <<>>]]
    [] security = "reality" -> [realitySettings |-> NoReality]
    [] OTHER -> NoKeys
buildStream(network, security) ==
  Over([network |-> network, security |-> security], Over(NoSlice(network), NoSecurity(security)))

Text(params, key, default) == IF key \in DOMAIN params THEN One(params[key]) ELSE default
Nonempty(params, keys) == {k \in keys \cap DOMAIN params : params[k] # <<>>}

XhttpKeys == {"xPaddingBytes", "xPaddingObfsMode", "xPaddingKey", "seqKey"}

\* Lowest to highest: the default, the short alias, the extra object, a parameter.
applyXhttpStringFromParams(xhttp, params, extra) ==
  LET said == Nonempty(params, XhttpKeys)
      alias == Text(params, "x_padding_bytes", "")
  IN Over([k \in said |-> One(params[k])],
       Over([k \in DOMAIN extra \cap (XhttpKeys \cup {"headers"}) |-> One(extra[k])],
         Over(Keep(alias # "", "xPaddingBytes", alias), xhttp)))
Xhttp(xhttp, params, extra) ==
  applyXhttpStringFromParams(
    Over([host |-> Text(params, "host", ""), path |-> Text(params, "path", "/")],
      Over(Keep(Text(params, "mode", "") # "", "mode", Text(params, "mode", "")), xhttp)), params, extra)

TransportParams(stream, params, extra) ==
  LET host == Text(params, "host", "")
      path == Text(params, "path", "/")
  IN CASE stream["network"] = "ws" -> [wsSettings |-> [path |-> path, host |-> host]]
       [] stream["network"] = "httpupgrade" -> [httpupgradeSettings |-> [path |-> path, host |-> host]]
       [] stream["network"] = "grpc" ->
            [grpcSettings |-> [serviceName |-> Text(params, "serviceName", Text(params, "path", "")),
                               authority |-> Text(params, "authority", ""),
                               multiMode |-> Text(params, "mode", "") = "multi"]]
       [] stream["network"] = "xhttp" -> [xhttpSettings |-> Xhttp(stream["xhttpSettings"], params, extra)]
       [] stream["network"] = "tcp" /\ "http" \in {Text(params, "headerType", ""), Text(params, "type", "")} ->
            [tcpSettings |-> [header |-> "http", path |-> Read(params, "path", <<"/">>),
                              host |-> Read(params, "host", <<>>)]]
       [] OTHER -> NoKeys
applyTransportParams(stream, params, extra) == Over(TransportParams(stream, params, extra), stream)

applyFinalMaskParam(stream, params) ==
  Over(Keep("fm" \in DOMAIN params, "finalmask", Text(params, "fm", "")), stream)

SecurityRead(stream, params) ==
  CASE stream["security"] = "tls" ->
         [tlsSettings |-> [stream["tlsSettings"] EXCEPT !.serverName = Text(params, "sni", ""),
                             !.fingerprint = Text(params, "fp", ""), !.alpn = Read(params, "alpn", <<>>)]]
    [] stream["security"] = "reality" ->
         [realitySettings |->
            [publicKey |-> Text(params, "pbk", ""), fingerprint |-> Text(params, "fp", "chrome"),
             serverName |-> Text(params, "sni", ""), shortId |-> Text(params, "sid", ""),
             spiderX |-> Text(params, "spx", ""), mldsa65Verify |-> Text(params, "pqv", "")]]
    [] OTHER -> NoKeys
applySecurityParams(stream, params) == Over(SecurityRead(stream, params), stream)

ParsedStream(link, security) ==
  applyFinalMaskParam(
    applySecurityParams(
      applyTransportParams(buildStream(Text(link.params, "type", "tcp"), security), link.params, link.extra),
      link.params), link.params)

Ports == 1..65535
Port(port, default) == IF port \in Ports THEN port ELSE default
Outbound(protocol, tag, settings) == [protocol |-> protocol, tag |-> tag, settings |-> settings]
Streamed(protocol, tag, settings, stream) ==
  [protocol |-> protocol, tag |-> tag, settings |-> settings, streamSettings |-> stream]

parseVlessLink(link) ==
  Streamed("vless", link.remark,
           [address |-> link.address, port |-> Port(link.port, 443), id |-> link.user,
            flow |-> Text(link.params, "flow", ""), encryption |-> Text(link.params, "encryption", "none")],
           ParsedStream(link, Text(link.params, "security", "none")))

\* The user part is taken as it stands: what was encoded stays encoded.
parseTrojanLink(link) ==
  Streamed("trojan", link.remark,
           [servers |-> <<[address |-> link.address, port |-> Port(link.port, 443), password |-> link.user]>>],
           ParsedStream(link, Text(link.params, "security", "tls")))

\* The query, and with it the network and the security, is dropped.
parseShadowsocksLink(link) ==
  Outbound("shadowsocks", link.remark,
           [servers |-> <<[address |-> link.address, port |-> Port(link.port, 443),
                           password |-> Tail(link.user), method |-> Head(link.user)]>>])

\* Of xhttp the mode is looked for under another key than the one written.
VmessXhttp(xhttp, json) ==
  Over([k \in DOMAIN json \cap XhttpKeys |-> One(json[k])],
    Over([host |-> Text(json, "host", ""), path |-> Text(json, "path", "/")],
      Over(Keep("mode" \in DOMAIN json, "mode", Text(json, "mode", "")), xhttp)))
VmessStream(json) ==
  LET network == Text(json, "net", "tcp")
      base == buildStream(network, IF Text(json, "tls", "") = "tls" THEN "tls" ELSE "none")
  IN CASE network = "grpc" ->
            Over([grpcSettings |-> [serviceName |-> Text(json, "path", ""), authority |-> Text(json, "authority", ""),
                                    multiMode |-> Text(json, "type", "") = "multi"]], base)
       [] network = "xhttp" -> Over([xhttpSettings |-> VmessXhttp(base["xhttpSettings"], json)], base)
       [] OTHER -> applyTransportParams(base, json, NoKeys)
parseVmessLink(link) ==
  Streamed("vmess", link.remark,
           [vnext |-> <<[address |-> link.address, port |-> Port(link.port, 443),
                         users |-> <<[id |-> link.user, security |-> Or(Text(link.params, "scy", ""), "auto")]>>]>>],
           applySecurityParams(VmessStream(link.params), link.params))

\* Only version 2 of hysteria is recognized.
parseHysteria2Link(link) ==
  LET params == link.params IN
  Streamed("hysteria", link.remark, [address |-> link.address, port |-> Port(link.port, 443), version |-> 2],
           applyFinalMaskParam(
             [network |-> "hysteria", security |-> "tls", hysteriaSettings |-> [version |-> 2, auth |-> link.user],
              tlsSettings |-> [serverName |-> Text(params, "sni", ""), alpn |-> Read(params, "alpn", <<"h3">>),
                               fingerprint |-> Text(params, "fp", ""), echConfigList |-> Text(params, "ech", ""),
                               pins |-> Read(params, "pinSHA256", <<>>)]], params))

parseWireguardLink(link) ==
  Outbound("wireguard", link.remark,
           Over([secretKey |-> link.user, address |-> Read(link.params, "address", <<>>),
                 peers |-> <<[publicKey |-> Text(link.params, "publickey", ""), endpoint |-> <<link.address, link.port>>,
                              allowedIPs |-> <<"0.0.0.0/0", "::/0">>]>>],
                [k \in DOMAIN link.params \cap {"mtu"} |-> link.params[k][1]]))

NotParsed == NoKeys
parseOutboundLink(link) ==
  CASE link.scheme = "vmess" -> parseVmessLink(link)
    [] link.scheme = "vless" -> parseVlessLink(link)
    [] link.scheme = "trojan" -> parseTrojanLink(link)
    [] link.scheme = "ss" -> parseShadowsocksLink(link)
    [] link.scheme = "hysteria2" -> parseHysteria2Link(link)
    [] link.scheme = "wireguard" -> parseWireguardLink(link)
    [] OTHER -> NotParsed
==============================================================================
