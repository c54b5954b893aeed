---------------------------- MODULE InboundStatus ----------------------------
(***************************************************************************)
(* What the inbounds page says of an inbound, said in four places: the row *)
(* of the table, the statistics dialog of small screens, the information   *)
(* dialog, and the menu of what can be done with it.  A label is the set   *)
(* of what it names: capitals and order are layout.                        *)
(***************************************************************************)
EXTENDS Integers

Protocols == {"vmess", "vless", "trojan", "shadowsocks", "wireguard", "hysteria", "http", "mixed", "tunnel", "tun"}
STREAM_PROTOCOLS == {"vmess", "vless", "trojan", "shadowsocks", "hysteria"}
Networks == {"tcp", "kcp", "ws", "grpc", "httpupgrade", "xhttp"}

\* `allowed` is settings.network of a Shadowsocks inbound and
\* settings.allowedNetwork of a tunnel; {} is an absent one.
Inbounds ==
  {r \in [protocol : Protocols, network : Networks \cup {""}, security : {"none", "tls", "reality"},
          allowed : SUBSET {"tcp", "udp"}, udp : BOOLEAN, chacha20 : BOOLEAN, clients : BOOLEAN] :
     /\ (r.network # "") = (r.protocol \in STREAM_PROTOCOLS \ {"hysteria"})
     /\ r.security # "none" => r.protocol \in STREAM_PROTOCOLS /\ r.network # "kcp"
     /\ r.security = "reality" => r.protocol \in {"vless", "trojan"}
     /\ r.allowed # {} => r.protocol \in {"shadowsocks", "tunnel"}
     /\ r.udp => r.protocol = "mixed"
     /\ r.chacha20 => r.protocol = "shadowsocks"}

-----------------------------------------------------------------------------
\* Labels.

readStreamHints(r) == [network |-> r.network, isTls |-> r.security = "tls", isReality |-> r.security = "reality"]

networkLabel(n) == {IF n = "" THEN "tcp" ELSE n}
networkL4(n) == IF n \in {"kcp", "quic"} THEN {"udp"} ELSE {}
commaNetworkLabel(parts) == IF parts = {} THEN {"tcp"} ELSE UNION {networkLabel(n) : n \in parts}
shadowsocksNetworkLabel(r) == commaNetworkLabel(r.allowed)
tunnelNetworkLabel(r) == commaNetworkLabel(r.allowed)
mixedNetworkLabel(r) == IF r.udp THEN {"tcp", "udp"} ELSE {"tcp"}

Security(hints, known) == {s \in known : (s = "tls" /\ hints.isTls) \/ (s = "reality" /\ hints.isReality)}

\* The table: the first case that fits.
columnTags(r) ==
  LET hints == readStreamHints(r) IN
  CASE r.protocol \in {"wireguard", "hysteria"}       -> {"udp"}
    [] r.protocol = "shadowsocks"                     -> shadowsocksNetworkLabel(r) \cup Security(hints, {"tls"})
    [] r.protocol = "tunnel"                          -> tunnelNetworkLabel(r)
    [] r.protocol = "mixed"                           -> mixedNetworkLabel(r)
    [] r.protocol \in {"vmess", "vless", "trojan"}    ->
         networkLabel(hints.network) \cup networkL4(hints.network) \cup Security(hints, {"tls", "reality"})
    [] OTHER                                          -> {}

\* The statistics dialog: every part that fits.
statsTags(r) ==
  LET hints == readStreamHints(r)
      If(cond, tags) == IF cond THEN tags ELSE {}
  IN If(r.protocol \in {"wireguard", "hysteria"}, {"udp"})
       \cup If(r.protocol = "shadowsocks", shadowsocksNetworkLabel(r) \cup Security(hints, {"tls"}))
       \cup If(r.protocol = "tunnel", tunnelNetworkLabel(r))
       \cup If(r.protocol = "mixed", mixedNetworkLabel(r))
       \cup If(r.protocol \in {"vmess", "vless", "trojan"},
               networkLabel(hints.network) \cup networkL4(hints.network) \cup Security(hints, {"tls", "reality"}))

-----------------------------------------------------------------------------
\* Whose clients are counted, and the menu.

isSSMultiUser(r) == ~(r.protocol = "shadowsocks" /\ r.chacha20)
isInboundMultiUser(r) ==
  \/ r.protocol \in {"vmess", "vless", "trojan", "hysteria"}
  \/ r.protocol = "shadowsocks" /\ isSSMultiUser(r)
showQrCodeMenu(r) == r.protocol = "wireguard" \/ (r.protocol = "shadowsocks" /\ ~isSSMultiUser(r))

TRACKED_PROTOCOLS == {"vmess", "vless", "trojan", "shadowsocks", "hysteria"}
rebuildClientCount(r) == r.protocol \in TRACKED_PROTOCOLS /\ (r.protocol = "shadowsocks" => isSSMultiUser(r))
hasClients(r) == rebuildClientCount(r) /\ r.clients

ClientActions == {"attachClients", "detachClients", "addToGroup", "delAllClients"}
buildRowActionsMenu(r, subEnable, isMobile) ==
  {"clipboard", "resetTraffic", "clone", "delete"}
  \cup (IF isMobile THEN {"edit"} ELSE {})
  \cup (IF showQrCodeMenu(r) THEN {"qrcode"} ELSE {})
  \cup (IF isInboundMultiUser(r) THEN {"export", "attachExisting"} ELSE {"showInfo"})
  \cup (IF isInboundMultiUser(r) /\ subEnable THEN {"subs"} ELSE {})
  \cup (IF isInboundMultiUser(r) /\ hasClients(r) THEN ClientActions ELSE {})

\* An action that shows or copies secrets reads the whole inbound first; the
\* others work on the slim row.
onRowAction(key) ==
  IF key \in {"edit", "showInfo", "qrcode", "export", "subs", "clipboard", "clone", "attachClients", "addToGroup"}
  THEN "whole" ELSE "slim"

-----------------------------------------------------------------------------
\* The information dialog.  It names a Shadowsocks inbound twice: by the
\* network of its stream and by the networks it relays.

LINK_PROTOCOLS == {"vmess", "vless", "trojan", "shadowsocks", "hysteria"}
hasShareLink(r) == r.protocol \in LINK_PROTOCOLS

\* Host and path are shown where the transport has them.
buildInboundInfo(r) ==
  [network |-> r.network, security |-> r.security, named |-> r.security # "none",
   hostAndPath |-> r.network \in {"tcp", "ws", "httpupgrade", "xhttp"},
   mode |-> r.network = "xhttp", service |-> r.network = "grpc"]

infoTransport(r) ==
  IF r.protocol \in {"vmess", "vless", "trojan", "shadowsocks"}
  THEN {buildInboundInfo(r).network} ELSE {}
infoSecurity(r) == IF hasShareLink(r) THEN {buildInboundInfo(r).security} ELSE {}
infoRelayed(r) ==
  CASE r.protocol \in {"shadowsocks", "tunnel"} -> r.allowed
    [] r.protocol = "mixed"                     -> IF r.udp THEN {"udp"} ELSE {}
    [] OTHER                                    -> {}

\* It opens on its first client, when the settings hold any.
infoTab(r) == IF r.clients THEN "client" ELSE "inbound"

-----------------------------------------------------------------------------
\* The two lists of tags are the same; the menu takes the same inbounds for
\* multi-user as the counts; a client action is offered only where clients
\* are counted and a QR code only where links belong to no client; and the
\* information dialog says what the table says, but for Hysteria, whose TLS
\* only the dialog shows.
InboundStatusAgrees ==
  \A r \in Inbounds :
    /\ columnTags(r) = statsTags(r)
    /\ isInboundMultiUser(r) <=> rebuildClientCount(r)
    /\ isInboundMultiUser(r) => hasShareLink(r)
    /\ \A subEnable, isMobile \in BOOLEAN :
         LET menu == buildRowActionsMenu(r, subEnable, isMobile) IN
         /\ menu \cap ClientActions # {} => hasClients(r)
         /\ "qrcode" \in menu => {"export", "subs"} \cap menu = {}
         /\ "showInfo" \in menu /\ infoTab(r) = "client" => ~hasClients(r)
         /\ \A key \in menu \cap {"qrcode", "export", "subs", "clipboard", "clone"} : onRowAction(key) = "whole"
    /\ r.protocol # "hysteria" => infoSecurity(r) \cap {"tls", "reality"} = columnTags(r) \cap {"tls", "reality"}
    /\ r.protocol \in {"vmess", "vless", "trojan"} => infoTransport(r) \subseteq columnTags(r)
    /\ infoRelayed(r) \subseteq columnTags(r)
=============================================================================
