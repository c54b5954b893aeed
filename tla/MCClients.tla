----------------------------- MODULE MCClients -----------------------------
(***************************************************************************)
(* Two clients and one free name, a VLESS inbound with a flow (1) and a    *)
(* VMess inbound (2).                                                      *)
(***************************************************************************)
EXTENDS ClientDialogs

MCInbounds == {1, 2}
MCEmails == {"a", "b", "n"}
MCSubs == {"sb", "sn"}

Client(sub, keys) ==
  [keys |-> keys, sub |-> sub, flow |-> Blank, sec |-> "auto", tag |-> Blank, quota |-> 0,
   expiry |-> 0, group |-> Blank, enable |-> TRUE]

MCGenerated == [email |-> "n", keys |-> "drawn", sub |-> "sn", client |-> Client("sn", "drawn"),
                subOf |-> [e \in MCEmails \cup {"m"} |-> "s" \o e]]

MCBulkForms == {[sub |-> Blank, flow |-> "vision", delayed |-> TRUE, ids |-> {1}],
                [sub |-> "sb", flow |-> Blank, delayed |-> FALSE, ids |-> {2}]}
MCGroupNames == {"g2"}
MCSelections == {{"a"}, {"m"}}

BothSelections == MCSelections \cup {{"a", "b"}}
MCTargets == {{1}, {2}}
MCAdjustments == {<<1, 0>>, <<1, 2>>}

EmptyStore == [rec |-> EmptyMap, cfg |-> [ib \in MCInbounds |-> EmptyMap],
               att |-> [ib \in MCInbounds |-> {}], stat |-> EmptyMap]

\* clients with a delayed start, a date and a quota of half a hundredth, and no
\* limits at all, on both inbounds or on one
Rich(expiry, quota) == [Client("sa", "ka") EXCEPT !.flow = "vision", !.sec = "aes", !.tag = "t1",
                        !.expiry = expiry, !.quota = quota, !.group = "g1"]
One(c, ids) == Create(EmptyStore, "a", c, ids).st
Two(c, ids) == Create(One(c, ids), "b", [Client("sb", "kb") EXCEPT !.quota = 6], {2}).st

MCInitStore == {One(Rich(-2, 3), {1, 2}), Two(Rich(4, 6), {1})}
=============================================================================
