-------------------------- MODULE OutboundAdapter --------------------------
(***************************************************************************)
(* The outbound form: frontend/src/lib/xray/outbound-form-adapter.ts turns *)
(* an outbound of the template into the values of a form and back.  In the *)
(* template a key may be absent; in the form every field has a value.      *)
(***************************************************************************)
EXTENDS XrayLink

First(list, default) == IF list = <<>> THEN default ELSE list[1]
OneOf(value, allowed, default) == IF value \in allowed THEN value ELSE default
NoBlanks(list) == SelectSeq(list, LAMBDA text : text # "")

DefaultSniffing ==
  [enabled |-> FALSE, destOverride |-> <<"http", "tls", "quic", "fakedns">>,
   metadataOnly |-> FALSE, routeOnly |-> FALSE, ipsExcluded |-> <<>>, domainsExcluded |-> <<>>]
reverseSniffingFromWire(raw) ==
  LET dest == Read(raw, "destOverride", <<>>)
      read == [k \in DOMAIN DefaultSniffing |-> Read(raw, k, IF k \in {"destOverride", "ipsExcluded", "domainsExcluded"}
                                                              THEN <<>> ELSE FALSE)]
  IN [read EXCEPT !.destOverride = IF dest = <<>> THEN DefaultSniffing.destOverride ELSE dest]
reverseSniffingToWire(s) ==
  [k \in {"enabled", "destOverride", "metadataOnly", "routeOnly"} |-> s[k]]
    @@ [k \in {j \in {"ipsExcluded", "domainsExcluded"} : s[j] # <<>>} |-> s[k]]

------------------------------------------------------------------------------
(* From the template to the form. *)
vmessFromWire(raw) ==
  LET v == First(Read(raw, "vnext", <<>>), NoKeys)
      u == First(Read(v, "users", <<>>), NoKeys)
  IN [address |-> Read(v, "address", ""), port |-> Port(Read(v, "port", 0), 443), id |-> Read(u, "id", ""),
      security |-> OneOf(Read(u, "security", ""), {"aes-128-gcm", "chacha20-poly1305", "auto", "none", "zero"}, "auto")]

DefaultSeed == <<900, 500, 900, 256>>
GoodSeed(seed) == Len(seed) = 4 /\ \A i \in 1..Len(seed) : seed[i] > 0

\* The address and the user come from vnext where there is one.
vlessFromWire(raw) ==
  LET nested == Read(raw, "vnext", <<>>)
      v == IF nested = <<>> THEN raw ELSE nested[1]
      u == IF nested = <<>> THEN raw ELSE First(Read(v, "users", <<>>), NoKeys)
      reverse == Read(raw, "reverse", NoKeys)
      tag == Read(reverse, "tag", "")
      seed == Read(raw, "testseed", <<>>)
  IN [address |-> Read(v, "address", ""), port |-> Port(Read(v, "port", 0), 443), id |-> Read(u, "id", ""),
      flow |-> Read(u, "flow", ""), encryption |-> Or(Read(u, "encryption", "none"), "none"), reverseTag |-> tag,
      reverseSniffing |-> IF tag = "" THEN DefaultSniffing ELSE reverseSniffingFromWire(Read(reverse, "sniffing", NoKeys)),
      testpre |-> Read(raw, "testpre", 0), testseed |-> IF GoodSeed(seed) THEN seed ELSE DefaultSeed]

Server(raw) == First(Read(raw, "servers", <<>>), NoKeys)
trojanFromWire(raw) ==
  [address |-> Read(Server(raw), "address", ""), port |-> Port(Read(Server(raw), "port", 0), 443),
   password |-> Read(Server(raw), "password", "")]
shadowsocksFromWire(raw) ==
  Over([method |-> Read(Server(raw), "method", "2022-blake3-aes-128-gcm"),
        uot |-> Read(Server(raw), "uot", FALSE), UoTVersion |-> Read(Server(raw), "UoTVersion", 1)],
       trojanFromWire(raw))
simpleAuthFromWire(raw, port) ==
  LET u == First(Read(Server(raw), "users", <<>>), NoKeys)
  IN [address |-> Read(Server(raw), "address", ""), port |-> Port(Read(Server(raw), "port", 0), port),
      user |-> Read(u, "user", ""), pass |-> Read(u, "pass", "")]

wireguardFromWire(raw) ==
  LET peer(p) == [publicKey |-> Read(p, "publicKey", ""), psk |-> Read(p, "preSharedKey", ""),
                  allowedIPs |-> IF Read(p, "allowedIPs", <<>>) = <<>> THEN <<"0.0.0.0/0", "::/0">> ELSE p["allowedIPs"],
                  endpoint |-> Read(p, "endpoint", <<>>), keepAlive |-> Read(p, "keepAlive", 0)]
      peers == Read(raw, "peers", <<>>)
      secretKey == Read(raw, "secretKey", "")
  IN [mtu |-> Read(raw, "mtu", 1420), secretKey |-> secretKey, pubKey |-> PublicKey(secretKey),
      address |-> Read(raw, "address", <<>>), workers |-> Read(raw, "workers", 2),
      domainStrategy |-> OneOf(Read(raw, "domainStrategy", ""),
                               {"ForceIP", "ForceIPv4", "ForceIPv4v6", "ForceIPv6", "ForceIPv6v4"}, ""),
      reserved |-> Read(raw, "reserved", <<>>), peers |-> [i \in DOMAIN peers |-> peer(peers[i])],
      noKernelTun |-> Read(raw, "noKernelTun", FALSE)]

hysteriaFromWire(raw) ==
  [address |-> Read(raw, "address", ""), port |-> Port(Read(raw, "port", 0), 443), version |-> 2]

NoFragment == [packets |-> "", length |-> "", interval |-> "", maxSplit |-> ""]
FreedomStrategies ==
  {"AsIs", "UseIP", "UseIPv4", "UseIPv6", "UseIPv6v4", "UseIPv4v6",
   "ForceIP", "ForceIPv6v4", "ForceIPv6", "ForceIPv4v6", "ForceIPv4"}
FinalRule(ips) == [action |-> "block", network |-> "", port |-> "", ip |-> ips, blockDelay |-> ""]

\* The addresses of an old template's ipsBlocked become a blocking rule.
freedomFromWire(raw) ==
  LET fragment == Read(raw, "fragment", NoKeys)
      noises == Read(raw, "noises", <<>>)
      rules == Read(raw, "finalRules", <<>>)
      blocked == Read(raw, "ipsBlocked", <<>>)
      noise(n) == [type |-> Read(n, "type", "rand"), packet |-> Read(n, "packet", "10-20"),
                   delay |-> Read(n, "delay", "10-16"), applyTo |-> Read(n, "applyTo", "ip")]
      rule(r) == [action |-> IF Read(r, "action", "block") = "allow" THEN "allow" ELSE "block",
                  network |-> Read(r, "network", ""), port |-> Read(r, "port", ""), ip |-> Read(r, "ip", <<>>),
                  blockDelay |-> Read(r, "blockDelay", "")]
  IN [domainStrategy |-> OneOf(Read(raw, "domainStrategy", ""), FreedomStrategies, ""),
      redirect |-> Read(raw, "redirect", ""), userLevel |-> Read(raw, "userLevel", 0),
      proxyProtocol |-> OneOf(Read(raw, "proxyProtocol", 0), {1, 2}, 0),
      fragment |-> IF DOMAIN fragment = {} THEN NoFragment
                   ELSE [k \in DOMAIN NoFragment |-> Read(fragment, k, IF k = "packets" THEN "1-3" ELSE "")],
      noises |-> [i \in DOMAIN noises |-> noise(noises[i])],
      finalRules |-> IF rules # <<>> THEN [i \in DOMAIN rules |-> rule(rules[i])]
                     ELSE IF blocked # <<>> THEN <<FinalRule(blocked)>> ELSE <<>>]

blackholeFromWire(raw) ==
  [type |-> OneOf(Read(Read(raw, "response", NoKeys), "type", ""), {"none", "http"}, "")]

\* Old templates say qtype, network, address and port.
dnsRuleFromWire(r) ==
  [action |-> OneOf(Read(r, "action", "direct"), {"direct", "drop", "return", "hijack"}, "direct"),
   qType |-> Read(r, "qType", Read(r, "qtype", "")), domain |-> Read(r, "domain", <<>>), rCode |-> Read(r, "rCode", 0)]
dnsFromWire(raw) ==
  LET rules == Read(raw, "rules", <<>>)
  IN [rewriteNetwork |-> OneOf(Read(raw, "rewriteNetwork", Read(raw, "network", "")), {"udp", "tcp"}, ""),
      rewriteAddress |-> Read(raw, "rewriteAddress", Read(raw, "address", "")),
      rewritePort |-> Port(Read(raw, "rewritePort", Read(raw, "port", 0)), 53),
      userLevel |-> Read(raw, "userLevel", 0), rules |-> [i \in DOMAIN rules |-> dnsRuleFromWire(rules[i])]]
loopbackFromWire(raw) == [inboundTag |-> Read(raw, "inboundTag", "")]

muxFromWire(m) ==
  [enabled |-> Read(m, "enabled", FALSE), concurrency |-> Read(m, "concurrency", 8),
   xudpConcurrency |-> Read(m, "xudpConcurrency", 16),
   xudpProxyUDP443 |-> OneOf(Read(m, "xudpProxyUDP443", "reject"), {"reject", "allow", "skip"}, "reject")]

SettingsFromWire(protocol, raw) ==
  CASE protocol = "vmess" -> vmessFromWire(raw)             [] protocol = "trojan" -> trojanFromWire(raw)
    [] protocol = "shadowsocks" -> shadowsocksFromWire(raw) [] protocol = "socks" -> simpleAuthFromWire(raw, 1080)
    [] protocol = "http" -> simpleAuthFromWire(raw, 8080)   [] protocol = "wireguard" -> wireguardFromWire(raw)
    [] protocol = "hysteria" -> hysteriaFromWire(raw)       [] protocol = "freedom" -> freedomFromWire(raw)
    [] protocol = "blackhole" -> blackholeFromWire(raw)     [] protocol = "dns" -> dnsFromWire(raw)
    [] protocol = "loopback" -> loopbackFromWire(raw)       [] OTHER -> vlessFromWire(raw)

XmuxDefaults == [maxConcurrency |-> "16-32"]
\* A stored xmux shows its switch on, filled up with the defaults; the mutant
\* _Off leaves the switch off.
hydrateStreamForm_Off(stream) == stream
hydrateStreamForm(stream) ==
  LET xhttp == Read(stream, "xhttpSettings", NoKeys)
  IN IF "xmux" \notin DOMAIN xhttp THEN stream
     ELSE Over([xhttpSettings |-> Over([enableXmux |-> TRUE, xmux |-> Over(xhttp["xmux"], XmuxDefaults)], xhttp)], stream)

\* An unknown protocol is shown as vless. NoKeys is a form without a stream.
Protocols == {"vmess", "vless", "trojan", "shadowsocks", "socks", "http", "wireguard",
              "hysteria", "freedom", "blackhole", "dns", "loopback"}
rawOutboundToFormValues(raw) ==
  LET protocol == OneOf(Read(raw, "protocol", "vless"), Protocols, "vless")
  IN [protocol |-> protocol, settings |-> SettingsFromWire(protocol, Read(raw, "settings", NoKeys)),
      tag |-> Read(raw, "tag", ""), sendThrough |-> Read(raw, "sendThrough", ""),
      mux |-> muxFromWire(Read(raw, "mux", NoKeys)),
      stream |-> hydrateStreamForm(Read(raw, "streamSettings", NoKeys))]

------------------------------------------------------------------------------
(* From the form to the template. *)
vmessToWire(s) ==
  [vnext |-> <<[address |-> s.address, port |-> s.port, users |-> <<[id |-> s.id, security |-> s.security]>>]>>]

\* The vision settings are written with the vision flow only.
vlessToWire(s) ==
  LET sniffing == reverseSniffingToWire(s.reverseSniffing)
      default == reverseSniffingToWire(DefaultSniffing)
      vision == s.flow = "xtls-rprx-vision"
  IN Over([address |-> s.address, port |-> s.port, id |-> s.id, flow |-> s.flow, encryption |-> Or(s.encryption, "none")],
       Over(Keep(s.reverseTag # "", "reverse",
                 [tag |-> s.reverseTag, sniffing |-> IF sniffing = default THEN NoKeys ELSE sniffing]),
         Over(Keep(vision /\ s.testpre > 0, "testpre", s.testpre),
              Keep(vision /\ GoodSeed(s.testseed), "testseed", s.testseed))))

trojanToWire(s) == [servers |-> <<[k \in {"address", "port", "password"} |-> s[k]]>>]
shadowsocksToWire(s) ==
  [servers |-> <<[k \in {"address", "port", "password", "method", "uot", "UoTVersion"} |-> s[k]]>>]
simpleAuthToWire(s) ==
  [servers |-> <<[address |-> s.address, port |-> s.port,
                  users |-> IF s.user = "" THEN <<>> ELSE <<[user |-> s.user, pass |-> s.pass]>>]>>]
wireguardToWire(s) ==
  LET peer(p) == [publicKey |-> p.publicKey, endpoint |-> p.endpoint] @@ Keep(p.psk # "", "preSharedKey", p.psk)
                   @@ Keep(p.allowedIPs # <<>>, "allowedIPs", p.allowedIPs)
                   @@ Keep(p.keepAlive # 0, "keepAlive", p.keepAlive)
  IN [secretKey |-> s.secretKey, address |-> NoBlanks(s.address), noKernelTun |-> s.noKernelTun,
      peers |-> [i \in DOMAIN s.peers |-> peer(s.peers[i])]]
       @@ Keep(s.mtu # 0, "mtu", s.mtu) @@ Keep(s.workers # 0, "workers", s.workers)
       @@ Keep(s.domainStrategy # "", "domainStrategy", s.domainStrategy)
       @@ Keep(s.reserved # <<>>, "reserved", s.reserved)
hysteriaToWire(s) == [k \in {"address", "port", "version"} |-> s[k]]

\* A fragment is written once one of its measures is given, with its non-empty fields.
freedomToWire(s) ==
  LET f == s.fragment
      rule(r) == [action |-> r.action] @@ Keep(r.network # "", "network", r.network) @@ Keep(r.port # "", "port", r.port)
                   @@ Keep(r.ip # <<>>, "ip", r.ip) @@ Keep(r.action = "block" /\ r.blockDelay # "", "blockDelay", r.blockDelay)
  IN Keep(s.domainStrategy # "", "domainStrategy", s.domainStrategy) @@ Keep(s.redirect # "", "redirect", s.redirect)
       @@ Keep(s.userLevel # 0, "userLevel", s.userLevel) @@ Keep(s.proxyProtocol # 0, "proxyProtocol", s.proxyProtocol)
       @@ Keep({f.length, f.interval, f.maxSplit} # {""}, "fragment", [k \in {j \in DOMAIN f : f[j] # ""} |-> f[k]])
       @@ Keep(s.noises # <<>>, "noises", s.noises)
       @@ Keep(s.finalRules # <<>>, "finalRules", [i \in DOMAIN s.finalRules |-> rule(s.finalRules[i])])

blackholeToWire(s) == Keep(s.type # "", "response", [type |-> s.type])
dnsRuleToWire(r) ==
  [action |-> r.action] @@ Keep(r.qType # "", "qType", r.qType)
    @@ Keep(NoBlanks(r.domain) # <<>>, "domain", NoBlanks(r.domain)) @@ Keep(r.rCode > 0, "rCode", r.rCode)
dnsToWire(s) ==
  [k \in {j \in {"rewriteNetwork", "rewriteAddress"} : s[j] # ""} |-> s[k]]
    @@ [k \in {j \in {"rewritePort", "userLevel"} : s[j] # 0} |-> s[k]]
    @@ Keep(s.rules # <<>>, "rules", [i \in DOMAIN s.rules |-> dnsRuleToWire(s.rules[i])])
loopbackToWire(s) == Keep(s.inboundTag # "", "inboundTag", s.inboundTag)

SettingsToWire(protocol, s) ==
  CASE protocol = "vmess" -> vmessToWire(s)                 [] protocol = "vless" -> vlessToWire(s)
    [] protocol = "trojan" -> trojanToWire(s)               [] protocol = "shadowsocks" -> shadowsocksToWire(s)
    [] protocol \in {"socks", "http"} -> simpleAuthToWire(s) [] protocol = "wireguard" -> wireguardToWire(s)
    [] protocol = "hysteria" -> hysteriaToWire(s)           [] protocol = "freedom" -> freedomToWire(s)
    [] protocol = "blackhole" -> blackholeToWire(s)         [] protocol = "dns" -> dnsToWire(s)
    [] protocol = "loopback" -> loopbackToWire(s)

\* The switch of xmux is not stored, nor is xmux when it is off, nor empty fields of xhttp.
stripUiOnlyStreamFields(stream) ==
  LET xhttp == Read(stream, "xhttpSettings", NoKeys)
      stored == {k \in DOMAIN xhttp \ {"enableXmux"} :
                   /\ k = "xmux" => Read(xhttp, "enableXmux", FALSE)
                   /\ k \notin {"xmux", "xPaddingObfsMode"} => xhttp[k] # ""}
  IN IF "xhttpSettings" \notin DOMAIN stream THEN stream
     ELSE [stream EXCEPT !.xhttpSettings = [k \in stored |-> xhttp[k]]]

muxAllowed(values) ==
  /\ values.protocol \in {"vmess", "vless", "trojan", "shadowsocks", "http", "socks"}
  /\ values.protocol = "vless" => values.settings.flow = ""
  /\ Read(values.stream, "network", "") # "xhttp"

\* A key that says nothing is left out.
formValuesToWirePayload(values) ==
  LET stored == IF canEnableStream(values.protocol) THEN stripUiOnlyStreamFields(values.stream)
                ELSE [k \in DOMAIN values.stream \cap {"sockopt"} |-> values.stream[k]]
      muxed == values.mux.enabled /\ muxAllowed(values)
      wire == [protocol |-> values.protocol, settings |-> SettingsToWire(values.protocol, values.settings), tag |-> values.tag,
               streamSettings |-> stored, sendThrough |-> values.sendThrough, mux |-> values.mux]
      said(k) == CASE k = "tag" -> values.tag # "" [] k = "streamSettings" -> DOMAIN stored # {}
                   [] k = "sendThrough" -> values.sendThrough # "" [] k = "mux" -> muxed [] OTHER -> TRUE
  IN [k \in {j \in DOMAIN wire : said(j)} |-> wire[k]]
==============================================================================
