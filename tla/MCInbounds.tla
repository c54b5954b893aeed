----------------------------- MODULE MCInbounds -----------------------------
(* The inbound dialog on a small instance: a host of fallbacks, a row of an  *)
(* old version with its old tag on a node, a row with certificates, and an   *)
(* id left free for an inbound of any protocol that is added.                *)
EXTENDS InboundEditor

MCRow(protocol, port, nodeId, settings, stream) ==
  [protocol |-> protocol, port |-> port, nodeId |-> nodeId, db |-> "stored", settings |-> settings, stream |-> stream,
   tag |-> composeInboundTag([port |-> port, nodeId |-> nodeId, protocol |-> protocol,
                              network |-> Read(stream, "network", ""), settings |-> settings]),
   sniffing |-> [enabled |-> TRUE, destOverride |-> "stored"]]
MCCert == [files |-> "", inline |-> "pem", usage |-> "encipherment"]
MCClients(s) == "clients" :> <<"c">> @@ s

\* A host of fallbacks, and an old row without the slice of its network.
MCHost ==
  MCRow("vless", 1, 0, MCClients([decryption |-> 3, encryption |-> 3, fallbacks |-> <<>>]),
        [network |-> "tcp", security |-> "reality", tcpSettings |-> [header |-> NoHeader], realitySettings |-> NewReality(3)])
MCOld ==
  [MCRow("vmess", 2, 7, MCClients(<<>>), [network |-> "ws", security |-> "none", sockopt |-> [mark |-> 9]])
     EXCEPT !.tag = <<"inbound-2">>, !.sniffing = [enabled |-> FALSE]]
MCTls ==
  MCRow("vmess", 1, 7, MCClients(<<>>),
        [network |-> "tcp", security |-> "tls", tcpSettings |-> [header |-> HttpHeader], tlsSettings |-> [certificates |-> <<MCCert>>],
         externalProxy |-> <<Proxy(8)>>])

MCPanel(one, two, list) == [inbounds |-> <<one, two>>, fallbacks |-> <<list, <<>>>>]
MCTags == {<<>>, <<"my-tag">>, <<0, 2, {"tcp"}>>}
MCFallback == [childId |-> 2, dest |-> "", path |-> "p"]
MCStored == {MCPanel(MCHost, MCOld, <<MCFallback>>), MCPanel(MCTls, None, <<>>)}
=============================================================================
