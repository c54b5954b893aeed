--------------------------- MODULE MCXrayTemplate ---------------------------
(* The Xray page on a small instance: the template the panel is shipped with *)
(* in short, one with balancers, WARP and Nord, one with DNS, one typed.       *)
EXTENDS TemplateEditor

MCOutbound(tag, protocol) == [tag |-> tag, protocol |-> protocol, strategy |-> "AsIs"]
MCBase == <<MCOutbound("direct", "freedom"), MCOutbound("blocked", "blackhole")>>
MCBlock == [outboundTag |-> "blocked", ip |-> <<"private">>]

MCDefault ==
  [outbounds |-> MCBase, rules |-> <<ApiRule, MCBlock>>, balancers |-> <<>>,
   observatory |-> <<>>, burstObservatory |-> <<>>, dns |-> <<>>, fakedns |-> <<>>, general |-> "off"]

MCRouting ==
  [MCDefault EXCEPT
    !.outbounds = <<MCOutbound("direct", "freedom"), MCOutbound("warp", "wireguard"), MCOutbound("nord-a", "wireguard")>>,
    !.rules = <<ApiRule, [balancerTag |-> "b", domain |-> <<"x">>, ruleTag |-> "own"], [outboundTag |-> "nord-a", domain |-> <<"x">>]>>,
    !.balancers = <<[tag |-> "b", strategy |-> "leastPing", selector |-> <<"warp">>, fallbackTag |-> "direct", settings |-> ""]>>,
    !.observatory = [subjectSelector |-> {"warp"}, probe |-> "default"]]

MCNames ==
  [MCDefault EXCEPT
    !.outbounds = <<MCOutbound("direct", "freedom")>>, !.rules = <<ApiRule>>,
    !.dns = [hosts |-> <<[domain |-> "b", values |-> <<"x">>]>>, servers |-> <<[address |-> "b", expectIPs |-> <<"x">>]>>,
             queryStrategy |-> "UseIP", tag |-> "dns_inbound"]]

MCStored == {MCRouting, MCNames}
MCTyped == {[MCNames EXCEPT !.rules = <<>>, !.dns.hosts = <<[domain |-> "c", values |-> <<"x">>]>>]}
MCSlices == {<<MCOutbound("direct", "freedom")>>}
MCRuleSlices == {<<[outboundTag |-> "elsewhere", domain |-> <<"x">>]>>}
MCLists == {<<>>, <<"x">>}
==============================================================================
