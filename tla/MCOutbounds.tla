----------------------------- MODULE MCOutbounds -----------------------------
(* Outbounds and share links on a small instance: for every protocol the    *)
(* networks and securities it allows, with plain and with awkward settings. *)
EXTENDS OutboundEditor

MCStream ==
  [network |-> "tcp", security |-> "none", http |-> FALSE, paths |-> <<"/a", "/b">>, path |-> "/p", host |-> "",
   hdrHost |-> "h.example", respHost |-> "", service |-> "svc", authority |-> "auth", multi |-> FALSE, mode |-> "packet-up",
   pad |-> "", obfs |-> FALSE, obfsKey |-> "", seqKey |-> "", header |-> "", mtu |-> 1350, fm |-> "",
   tls |-> [sni |-> "s.example", fp |-> "firefox", alpn |-> <<"h2", "http/1.1">>, ech |-> "e", pins |-> <<>>],
   reality |-> [pbk |-> "pub", fp |-> "chrome", serverName |-> "", serverNames |-> <<"r.example", "t.example">>,
                target |-> <<"r.example", "443">>, shortIds |-> <<"01", "02">>, spx |-> "/x", pqv |-> ""],
   externalProxy |-> <<>>]

MCAwkward(s) == [s EXCEPT !.http = TRUE, !.host = "own.example", !.path = "", !.multi = TRUE, !.pad = "1-2", !.obfs = TRUE,
                          !.obfsKey = "k", !.seqKey = "q", !.header = "x", !.fm = "mask", !.tls.sni = "", !.tls.alpn = <<>>]

MCProxy(force, sni) ==
  [dest |-> "proxy.example", port |-> 8443, forceTls |-> force, sni |-> sni, fp |-> "", alpn |-> <<"h3">>]
MCProxies == {<<>>, <<MCProxy("same", "")>>, <<MCProxy("none", "n.example"), MCProxy("tls", "n.example")>>}

MCSecurities(protocol, network) ==
  SecuritiesShown(protocol, network) \cap
    (IF protocol = "hysteria" THEN {"tls"} ELSE {"none", "tls", "reality"})
MCNetworks(protocol) == IF protocol = "hysteria" THEN {"hysteria"} ELSE {"tcp", "ws", "grpc", "xhttp"}

MCInbound(protocol, stream) ==
  [protocol |-> protocol, port |-> 4443, listen |-> "", stream |-> stream, encryption |-> "none",
   method |-> "2022-blake3-aes-128-gcm", password |-> "inbound key", version |-> 2, secretKey |-> "server", mtu |-> 1420,
   peers |-> <<[privateKey |-> "peer", allowedIPs |-> <<"10.0.0.2/32">>, psk |-> "", keepAlive |-> 0]>>]
MCClients ==
  {[id |-> "uuid", password |-> secret, auth |-> secret, flow |-> "xtls-rprx-vision", security |-> "auto"] : secret \in {"secret", Reserved}}

MCShared ==
  LET items(protocol) ==
        {[inbound |-> MCInbound(protocol, [s EXCEPT !.network = n, !.security = sec, !.externalProxy = ep]),
          client |-> c, proxy |-> IF ep = <<>> THEN 1 ELSE Len(ep), remark |-> r] :
            s \in {MCStream, MCAwkward(MCStream)}, n \in MCNetworks(protocol),
            sec \in {"none", "tls", "reality"}, ep \in MCProxies, c \in MCClients, r \in {"", "a"}}
      allowed(item) ==
        /\ item.inbound.stream.security \in MCSecurities(item.inbound.protocol, item.inbound.stream.network)
        /\ item.remark = "a" => /\ item.inbound.stream.externalProxy = <<>> /\ ~item.inbound.stream.http
                                 /\ item.inbound.stream.network \in {"tcp", "hysteria"}
        /\ item.inbound.stream.externalProxy # <<>> => item.inbound.stream.network \in {"tcp", "grpc", "hysteria"}
        /\ item.inbound.stream.http => item.inbound.stream.security # "none" \/ item.inbound.protocol = "vmess"
        /\ item.client.password = Reserved => item.remark = "a"
  IN {item \in UNION {items(p) : p \in {"vmess", "vless", "trojan", "shadowsocks", "hysteria"}} : allowed(item)}
       \cup {[inbound |-> MCInbound("wireguard", MCStream), client |-> c, proxy |-> 1, remark |-> "w"] : c \in MCClients}

MCTyped ==
  {[protocol |-> "vless", tag |-> "b",
    settings |-> [vnext |-> <<[address |-> "v.example", port |-> 70000,
                               users |-> <<[id |-> "uuid", flow |-> "xtls-rprx-vision", encryption |-> ""]>>]>>,
                  reverse |-> [tag |-> "r", sniffing |-> [enabled |-> TRUE]], testpre |-> 3, testseed |-> <<1, 2, 3>>],
    streamSettings |-> newStreamSlice("xhttp") @@ "security" :> "reality" @@ "realitySettings" :> [publicKey |-> "pub"],
    mux |-> [enabled |-> TRUE]],
   [protocol |-> "blackhole", tag |-> "h", settings |-> [response |-> [type |-> "http"]]],
   [protocol |-> "hysteria", tag |-> "h", settings |-> [address |-> "v.example"]],
   [protocol |-> "dns", tag |-> "d",
    settings |-> [network |-> "tcp", address |-> "1.1.1.1", port |-> 0,
                  rules |-> <<[qtype |-> "28", domain |-> <<"x", "">>, action |-> "reject"]>>]],
   [protocol |-> "wireguard", tag |-> "w",
    settings |-> [secretKey |-> "key", address |-> <<"10.0.0.1", "">>, mtu |-> 0, peers |-> <<[publicKey |-> "pub", keepAlive |-> 5]>>],
    streamSettings |-> [sockopt |-> "own"]],
   [protocol |-> "socks", tag |-> "s", settings |-> [servers |-> <<[address |-> "v.example", users |-> <<[user |-> "u", pass |-> "p"]>>]>>]],
   [protocol |-> "shadowsocks", tag |-> "t", settings |-> NoKeys,
    streamSettings |-> newStreamSlice("hysteria") @@ "security" :> "tls"],
   [protocol |-> "shadowsocks", tag |-> "m", settings |-> NoKeys, mux |-> [enabled |-> TRUE],
    streamSettings |-> newStreamSlice("xhttp") @@ "security" :> "none"],
   [protocol |-> "trojan", tag |-> "a", settings |-> [servers |-> <<[address |-> "v.example", port |-> 443, password |-> "p"]>>],
    streamSettings |-> "xhttpSettings" :> [path |-> "/", mode |-> "", xmux |-> [maxConnections |-> 1]]
                         @@ newStreamSlice("xhttp") @@ "security" :> "tls" @@ "tlsSettings" :> NewTls(<<>>),
    mux |-> [enabled |-> TRUE], sendThrough |-> "0.0.0.0"]}

MCStored ==
  {<<[protocol |-> "freedom", tag |-> "a",
    settings |-> [domainStrategy |-> "UseIP", ipsBlocked |-> <<"geoip:private">>, noises |-> <<NoKeys>>,
                  fragment |-> [length |-> "10-20"]]]>>}

MCTags == {"", "a ", "b"}
MCTrim == [tag \in {"", "a", "a ", "b", "d", "h", "m", "r", "s", "t", "w"} |-> IF tag = "a " THEN "a" ELSE tag]
==============================================================================
