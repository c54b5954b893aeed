--------------------------- MODULE TemplateEditor ---------------------------
(***************************************************************************)
(* The tabs of the Xray page that edit the draft's object: basics, routing *)
(* rules, balancers, DNS, the WARP and NordVPN dialogs and the slices of   *)
(* the advanced editor (pages/xray/).  A dialog keeps the index and the    *)
(* value it was opened with; meanwhile only answers of the panel change    *)
(* the draft.  An object with optional keys is a function; null, an empty  *)
(* list and an absent part are <<>>.                                       *)
(***************************************************************************)
EXTENDS TemplateDraft

CONSTANTS ReverseTags, \* tags of clients' reverse outbounds
          Lists,       \* values picked in a list of domains, addresses or protocols
          Strategies,  \* strategies picked for a balancer
          Slices,      \* what is typed for the outbounds alone
          RuleSlices,  \* what is typed for the rules alone
          Names,       \* names typed: tags of balancers, hosts, DNS servers
          NordTags     \* tags of the Nord servers: "nord-" and the host name

VARIABLES dialog,      \* the open dialog with its index and value
          asked,       \* the WARP or Nord request under way
          warpAccount, nordAccount, staged,
          hostsList,   \* the rows the DNS tab shows
          outside,     \* history: the hosts were changed behind those rows
          byHand,      \* history: tags deleted, or typed unresolved, by hand
          stale        \* history: a value or an index was used on a draft replaced since
editorVars == <<dialog, asked, warpAccount, nordAccount, staged, hostsList, outside, byHand, stale>>
vars == <<draftVars, editorVars>>

Value(obj, key, default) == IF key \in DOMAIN obj THEN obj[key] ELSE default
With(obj, key, value) == [k \in DOMAIN obj \cup {key} |-> IF k = key THEN value ELSE obj[k]]
Without(obj, key) == [k \in DOMAIN obj \ {key} |-> obj[k]]
Tags(t) == {o.tag : o \in Range(t.outbounds)}
FirstIn(S) == IF S = {} THEN 0 ELSE CHOOSE i \in S : \A j \in S : i <= j
TagIndex(t, tag) == FirstIn({i \in DOMAIN t.outbounds : t.outbounds[i].tag = tag})
\* list[i] = item past the end leaves holes, which read like empty objects.
PutAt(list, i, item) ==
  IF i = 0 THEN Append(list, item)
  ELSE [j \in 1..(IF i > Len(list) THEN i ELSE Len(list)) |-> IF j = i THEN item ELSE IF j <= Len(list) THEN list[j] ELSE <<>>]
RemoveIndex(list, i) == IF i \in DOMAIN list THEN RemoveAt(list, i) ELSE list
\* The elements at some indices, in their order.
Among(list, kept) ==
  [n \in 1..Cardinality(kept) |-> list[CHOOSE i \in kept : Cardinality({j \in kept : j <= i}) = n]]
MoveTo(list, from, to) == InsertAt(RemoveAt(list, from), to, list[from])

------------------------------------------------------------------------------
\* Rules.  The form knows only these keys, and an empty value is not written.
ListKeys == {"domain", "ip", "protocol", "inboundTag"}
TagKeys == {"outboundTag", "balancerTag"}
ruleFrom(form) ==
  [k \in {key \in DOMAIN form : (key \in ListKeys /\ form[key] # <<>>) \/ (key \in TagKeys /\ form[key] # "")} |-> form[k]]

OutboundOf(rule) == Value(rule, "outboundTag", "")
BalancerOf(rule) == Value(rule, "balancerTag", "")
outboundTagOptions(t) == {""} \cup Tags(t) \cup ReverseTags
balancerTagOptions(t) == {""} \cup {b.tag : b \in Range(t.balancers)}
Retag(rules, key, from, to) ==
  [i \in DOMAIN rules |-> IF Value(rules[i], key, "") = from THEN With(rules[i], key, to) ELSE rules[i]]

\* The lists of the basics tab, spread over the rules of one outbound.
Matches(rule, tag, property) == property \in DOMAIN rule /\ OutboundOf(rule) = tag
ruleGetter(t, tag, property) ==
  FlattenSeq([i \in DOMAIN t.rules |-> IF Matches(t.rules[i], tag, property) THEN t.rules[i][property] ELSE <<>>])
FirstMatch(rules, tag, property) == FirstIn({i \in DOMAIN rules : Matches(rules[i], tag, property)})
ruleSetter(t, tag, property, data) ==
  LET first == FirstMatch(t.rules, tag, property)
      kept == {i \in DOMAIN t.rules : ~Matches(t.rules[i], tag, property) \/ (i = first /\ data # <<>>)}
      written == IF first = 0 THEN t.rules ELSE [t.rules EXCEPT ![first] = With(@, property, data)]
  IN [t EXCEPT !.rules =
        IF ruleGetter(t, tag, property) = <<>> THEN Append(@, With([outboundTag |-> tag], property, data)) ELSE Among(written, kept)]

\* The outbound follows its rules; the first one of the list is the default and stays.
syncOutbound(t, outbound) ==
  LET used == \E rule \in Range(t.rules) : OutboundOf(rule) = outbound.tag
      index == TagIndex(t, outbound.tag)
  IN [t EXCEPT !.outbounds = IF ~used /\ index > 1 THEN RemoveAt(@, index) ELSE IF used /\ index = 0 THEN Append(@, outbound) ELSE @]

\* Balancers.
leastPing(b) == b.strategy = "leastPing"
burstFeeder(b) == b.strategy \in {"", "random", "leastLoad", "roundRobin"}
collectSelectors(list) == UNION {Range(b.selector) : b \in list}
Observed(was, list) ==
  IF list = {} THEN <<>>
  ELSE [subjectSelector |-> collectSelectors(list), probe |-> IF was = <<>> THEN "default" ELSE was.probe]
syncObservatories(t) ==
  [t EXCEPT !.observatory = Observed(@, {b \in Range(t.balancers) : leastPing(b)}),
            !.burstObservatory = Observed(@, {b \in Range(t.balancers) : burstFeeder(b)})]

\* Random is what no strategy means; only least load has settings.
balancerWire(form) ==
  [form EXCEPT !.strategy = IF @ = "random" THEN "" ELSE @,
               !.settings = IF form.strategy = "leastLoad" THEN @ ELSE ""]
balancerForm(b) == [b EXCEPT !.strategy = IF @ = "" THEN "random" ELSE @]
NewBalancer == [tag |-> "", strategy |-> "random", selector |-> <<>>, fallbackTag |-> "", settings |-> ""]

\* A rule leads to an outbound or a balancer there is, or to a tag that is excused,
\* and a balancer is watched by the observatory its strategy needs.
Leads(rule, t, excused) ==
  /\ OutboundOf(rule) \in outboundTagOptions(t) \cup excused \cup {"api"}
  /\ BalancerOf(rule) \in balancerTagOptions(t) \cup excused
Watched(b, t) ==
  LET obs == IF leastPing(b) THEN t.observatory ELSE t.burstObservatory
  IN obs # <<>> /\ Range(b.selector) \subseteq obs.subjectSelector
Resolves(t, excused) ==
  (\A rule \in Range(t.rules) : Leads(rule, t, excused)) /\ \A b \in Range(t.balancers) : Watched(b, t)

\* The dialogs offer these strategies; what is stored or typed as a whole is a
\* configuration Xray accepts: its parts have their fields and its tags resolve.
IsBalancer(b) == {"tag", "strategy", "selector", "settings"} \subseteq DOMAIN b
IsOutbounds(list) == IsList(list) /\ \A o \in Range(list) : "tag" \in DOMAIN o
IsRouted(t) ==
  /\ {"outbounds", "balancers", "observatory", "burstObservatory"} \subseteq DOMAIN t
  /\ IsOutbounds(t.outbounds) /\ IsList(t.balancers)
  /\ \A b \in Range(t.balancers) : IsBalancer(b) /\ (leastPing(b) \/ burstFeeder(b))
  /\ \A obs \in {t.observatory, t.burstObservatory} : obs = <<>> \/ {"subjectSelector", "probe"} \subseteq DOMAIN obs
ASSUME EditorAssumption ==
  /\ \A t \in Stored \cup Typed \cup {Default} : IsRouted(t) /\ Resolves(t, {})
  /\ \A outbounds \in Slices : IsOutbounds(outbounds)
  /\ \A rules \in RuleSlices : IsList(rules)
  /\ Strategies \subseteq {"random", "leastPing", "leastLoad", "roundRobin"}

\* DNS: the hosts are an object in the order of its keys, the rows may be unfinished.
NewDns == [hosts |-> <<>>, servers |-> <<>>, queryStrategy |-> "UseIP", tag |-> "dns_inbound"]
DnsOn(t) == t.dns # <<>>
HostsOf(t) == IF DnsOn(t) THEN t.dns.hosts ELSE <<>>
\* A row without a domain or values is not written; a domain stands where it came
\* first, with the values it has last.
Finished(row) == row.domain # "" /\ row.values # <<>>
RowsOf(rows, domain) == {i \in DOMAIN rows : Finished(rows[i]) /\ rows[i].domain = domain}
hostsObject(rows) ==
  LET kept == {i \in DOMAIN rows : Finished(rows[i]) /\ \A k \in RowsOf(rows, rows[i].domain) : i <= k}
      last(i) == CHOOSE j \in RowsOf(rows, rows[i].domain) : \A k \in RowsOf(rows, rows[i].domain) : k <= j
  IN Among([i \in kept |-> rows[last(i)]], kept)

\* A server in which nothing is set is written as its address alone.
DefaultServer == [address |-> "localhost", port |-> 53, domains |-> <<>>, expectedIPs |-> <<>>, tag |-> ""]
valuesFromServer(entry) ==
  LET known == [k \in DOMAIN entry \cap DOMAIN DefaultServer |-> entry[k]]
      legacy == IF "expectIPs" \in DOMAIN entry THEN "expectedIPs" :> entry.expectIPs ELSE <<>>
  IN known @@ legacy @@ DefaultServer
valuesToWire(values) ==
  IF [values EXCEPT !.address = DefaultServer.address] = DefaultServer THEN [address |-> values.address]
  ELSE IF values.tag = "" THEN Without(values, "tag") ELSE values

------------------------------------------------------------------------------
NoDialog == [kind |-> "none"]
NothingAsked == [kind |-> "none"]
Dialog(kind, index, value) == [kind |-> kind, index |-> index, value |-> value, fresh |-> TRUE]
In(kind) == Shown /\ dialog.kind = kind
AtRest == Shown /\ dialog.kind = "none"

warpExist == "warp" \in Tags(template)
NordIndex(t) == FirstIn({i \in DOMAIN t.outbounds : t.outbounds[i].tag \in NordTags})

EditorInit ==
  /\ DraftInit
  /\ dialog = NoDialog /\ asked = NothingAsked
  /\ warpAccount = warpExist /\ nordAccount = (NordIndex(template) # 0) /\ staged = FALSE
  /\ hostsList = HostsOf(template) /\ outside = FALSE /\ byHand = {} /\ stale = FALSE
\* The draft has changed behind a dialog; WARP and Nord look at it anew.
Overtaken(d) == IF d.kind \in {"none", "warp", "nord"} THEN d ELSE [d EXCEPT !.fresh = FALSE]

\* Mutant: the rows are made once, with the tab.
HostsFollow_Once(t) == UNCHANGED hostsList /\ outside' = (outside \/ (DnsOn(t) /\ DnsOn(template) /\ HostsOf(t) # HostsOf(template)))
\* The rows are made anew when DNS is switched on or off, and then only.
HostsFollow(t) ==
  IF DnsOn(t) # DnsOn(template) THEN hostsList' = HostsOf(t) /\ outside' = FALSE
  ELSE UNCHANGED hostsList /\ outside' = (outside \/ HostsOf(t) # HostsOf(template))
\* A request that holds an index is overtaken when the list changes.
AskedFollows(t) ==
  asked' = IF asked.kind = "nordDel" /\ t.outbounds # template.outbounds THEN [asked EXCEPT !.fresh = FALSE] ELSE asked

Write(t) == Mutate(t) /\ HostsFollow(t) /\ AskedFollows(t)
Plain(t) == Write(t) /\ UNCHANGED <<dialog, warpAccount, nordAccount, staged, byHand, stale>>
ByHand(t, tags) == Write(t) /\ byHand' = byHand \cup tags /\ UNCHANGED <<dialog, warpAccount, nordAccount, staged, stale>>
Confirmed(t, tags) ==
  /\ Write(t) /\ dialog' = NoDialog /\ stale' = (stale \/ ~dialog.fresh) /\ byHand' = byHand \cup tags
  /\ UNCHANGED <<warpAccount, nordAccount, staged>>
Opens(kind, index, value) ==
  /\ AtRest /\ edits < MaxEdits /\ dialog' = Dialog(kind, index, value)
  /\ UNCHANGED <<draftVars, asked, warpAccount, nordAccount, staged, hostsList, outside, byHand, stale>>
Close ==
  /\ Shown /\ dialog.kind # "none" /\ dialog' = NoDialog
  /\ UNCHANGED <<draftVars, asked, warpAccount, nordAccount, staged, hostsList, outside, byHand, stale>>

------------------------------------------------------------------------------
\* RoutingTab.  One field is changed each time the form is opened.
openRule == Opens("rule", 0, <<>>) \/ \E i \in DOMAIN template.rules : Opens("rule", i, template.rules[i])
RuleInputs(value) ==
  LET was == With(With(value, "outboundTag", OutboundOf(value)), "balancerTag", BalancerOf(value))
  IN {With(was, "domain", list) : list \in Lists}
       \cup {With(was, "outboundTag", tag) : tag \in outboundTagOptions(template)}
       \cup {With(was, "balancerTag", tag) : tag \in balancerTagOptions(template)}
onRuleConfirm ==
  /\ In("rule")
  /\ \E form \in RuleInputs(dialog.value) : Confirmed([template EXCEPT !.rules = PutAt(@, dialog.index, ruleFrom(form))], {})
confirmDeleteRule ==
  \/ \E i \in DOMAIN template.rules : Opens("deleteRule", i, <<>>)
  \/ In("deleteRule") /\ Confirmed([template EXCEPT !.rules = RemoveIndex(@, dialog.index)], {})
\* Move up, move down and drag.
MoveRule ==
  /\ AtRest
  /\ \E from, to \in DOMAIN template.rules : from # to /\ Plain([template EXCEPT !.rules = MoveTo(@, from, to)])

\* BalancersTab.
openBalancer ==
  \/ Opens("balancer", 0, NewBalancer)
  \/ \E i \in DOMAIN template.balancers : Opens("balancer", i, balancerForm(template.balancers[i]))
otherTags(index) == {template.balancers[i].tag : i \in DOMAIN template.balancers \ {index}}
\* Mutant: the rules keep the old tag.
PutBalancer_NoRetag(t, index, wire) == syncObservatories([t EXCEPT !.balancers = PutAt(@, index, wire)])
PutBalancer(t, index, wire) ==
  LET was == IF index \in DOMAIN t.balancers THEN t.balancers[index].tag ELSE ""
      put == [t EXCEPT !.balancers = PutAt(@, index, wire)]
  IN syncObservatories(IF was = "" THEN put ELSE [put EXCEPT !.rules = Retag(@, "balancerTag", was, wire.tag)])
FilledIn(value, tag, strategy, target) == [value EXCEPT !.tag = tag, !.strategy = strategy, !.selector = <<target>>]
BalancerInputs(value) ==
  {FilledIn(value, tag, strategy, target) :
     tag \in Names \cup {value.tag}, strategy \in Strategies, target \in Tags(template) \cup Range(value.selector)}
onBalancerConfirm ==
  /\ In("balancer")
  /\ \E form \in BalancerInputs(dialog.value) :
       /\ form.tag # "" /\ form.tag \notin otherTags(dialog.index)
       /\ Confirmed(PutBalancer(template, dialog.index, balancerWire(form)), {})
confirmDeleteBalancer ==
  \/ \E i \in DOMAIN template.balancers : Opens("deleteBalancer", i, <<>>)
  \/ /\ In("deleteBalancer")
     /\ LET gone == IF dialog.index \in DOMAIN template.balancers THEN {template.balancers[dialog.index].tag} ELSE {}
        IN Confirmed(syncObservatories([template EXCEPT !.balancers = RemoveIndex(@, dialog.index)]), gone)
onObsTextChange ==
  /\ AtRest
  /\ \/ template.observatory # <<>> /\ Plain([template EXCEPT !.observatory.probe = "typed"])
     \/ template.burstObservatory # <<>> /\ Plain([template EXCEPT !.burstObservatory.probe = "typed"])

------------------------------------------------------------------------------
\* BasicsTab.  The outbound "blocked" is taken to be there.
directSettings == [tag |-> "direct", protocol |-> "freedom", strategy |-> "AsIs"]
ipv4Settings == [tag |-> "IPv4", protocol |-> "freedom", strategy |-> "UseIPv4"]
directIndex ==
  FirstIn({i \in DOMAIN template.outbounds : template.outbounds[i].protocol = "freedom" /\ template.outbounds[i].tag = "direct"})
FreedomStrategy ==
  LET with == [directSettings EXCEPT !.strategy = "UseIP"]
  IN AtRest /\ Plain([template EXCEPT !.outbounds = IF directIndex = 0 THEN Append(@, with) ELSE [@ EXCEPT ![directIndex].strategy = "UseIP"]])
nordTag == template.outbounds[NordIndex(template)].tag
BasicLists ==
  /\ AtRest
  /\ \E data \in Lists :
       \/ \E property \in {"ip", "protocol"} : ByHand(ruleSetter(template, "blocked", property, data), {"blocked"})
       \/ Plain(syncOutbound(ruleSetter(template, "direct", "ip", data), directSettings))
       \/ Plain(syncOutbound(ruleSetter(template, "IPv4", "domain", data), ipv4Settings))
       \/ warpExist /\ Plain(ruleSetter(template, "warp", "domain", data))
       \/ NordIndex(template) # 0 /\ Plain(ruleSetter(template, nordTag, "domain", data))
\* The switches of statistics and logging; without a log section the latter do nothing.
General == AtRest /\ Plain([template EXCEPT !.general = "on"])

------------------------------------------------------------------------------
\* WarpModal.  The mask and the cross close it at any time, answers still arrive.
WarpOutbound == [tag |-> "warp", protocol |-> "wireguard", strategy |-> "ForceIP"]
\* What an earlier opening had staged is forgotten.
openWarp ==
  /\ AtRest /\ edits < MaxEdits /\ dialog' = Dialog("warp", 0, <<>>) /\ staged' = FALSE
  /\ UNCHANGED <<draftVars, asked, warpAccount, nordAccount, hostsList, outside, byHand, stale>>
AskWarp ==
  /\ In("warp") /\ asked.kind = "none" /\ Ask
  /\ \/ ~warpAccount /\ asked' = [kind |-> "warpReg"]
     \/ warpAccount /\ asked' \in {[kind |-> "warpConfig"], [kind |-> "warpDel"]}
  /\ UNCHANGED <<dialog, warpAccount, nordAccount, staged, hostsList, outside, byHand, stale>>
\* register and getConfig stage an outbound.
WarpStaged ==
  /\ asked.kind \in {"warpReg", "warpConfig"} /\ asked' = NothingAsked
  /\ warpAccount' = TRUE /\ staged' = TRUE
  /\ UNCHANGED <<draftVars, dialog, nordAccount, hostsList, outside, byHand, stale>>
AskFailed ==
  /\ asked.kind # "none" /\ asked' = NothingAsked
  /\ UNCHANGED <<draftVars, dialog, warpAccount, nordAccount, staged, hostsList, outside, byHand, stale>>

\* What an answer writes counts as no edit of the user's.
Answer(t) == SetTemplate(t) /\ HostsFollow(t) /\ UNCHANGED <<server, cached, old, saveDisabled, saving, refetch, fetchError, resetting, unsure, edits>>
WarpIndex == TagIndex(template, "warp")
delConfig ==
  /\ asked.kind = "warpDel" /\ asked' = NothingAsked
  /\ Answer([template EXCEPT !.outbounds = RemoveIndex(@, WarpIndex)])
  /\ warpAccount' = FALSE /\ staged' = FALSE /\ byHand' = byHand \cup {"warp"}
  /\ dialog' = IF dialog.kind = "warp" THEN NoDialog ELSE Overtaken(dialog)
  /\ UNCHANGED <<nordAccount, stale>>
addWarp ==
  /\ In("warp") /\ staged /\ ~warpExist
  /\ Confirmed([template EXCEPT !.outbounds = Append(@, WarpOutbound)], {})
resetWarp ==
  /\ In("warp") /\ staged /\ warpExist
  /\ Confirmed([template EXCEPT !.outbounds[WarpIndex] = WarpOutbound], {})

\* NordModal.  Logging out holds the index of the outbound while it waits.
openNord == Opens("nord", 0, <<>>)
loginNord ==
  /\ In("nord") /\ ~nordAccount /\ nordAccount' = TRUE
  /\ UNCHANGED <<draftVars, dialog, asked, warpAccount, staged, hostsList, outside, byHand, stale>>
AskNord ==
  /\ In("nord") /\ asked.kind = "none" /\ nordAccount /\ Ask
  /\ asked' = [kind |-> "nordDel", index |-> NordIndex(template), fresh |-> TRUE]
  /\ UNCHANGED <<dialog, warpAccount, nordAccount, staged, hostsList, outside, byHand, stale>>
logout ==
  /\ asked.kind = "nordDel" /\ asked' = NothingAsked
  /\ Answer([template EXCEPT !.outbounds = RemoveIndex(@, asked.index),
                             !.rules = Among(@, {i \in DOMAIN @ : OutboundOf(@[i]) \notin NordTags})])
  /\ nordAccount' = FALSE /\ stale' = (stale \/ ~asked.fresh) /\ dialog' = Overtaken(dialog)
  /\ UNCHANGED <<warpAccount, staged, byHand>>
NordOutbound(tag) == [tag |-> tag, protocol |-> "wireguard", strategy |-> ""]
resetNord(t, tag) ==
  [t EXCEPT !.outbounds[NordIndex(t)] = NordOutbound(tag),
            !.rules = Retag(@, "outboundTag", t.outbounds[NordIndex(t)].tag, tag)]
PickNord ==
  /\ In("nord") /\ nordAccount
  /\ \E tag \in NordTags :
       Confirmed(IF NordIndex(template) = 0 THEN [template EXCEPT !.outbounds = Append(@, NordOutbound(tag))]
                 ELSE resetNord(template, tag), {})

------------------------------------------------------------------------------
\* DnsTab.
toggleDNS ==
  AtRest /\ Plain([template EXCEPT !.dns = IF DnsOn(template) THEN <<>> ELSE NewDns, !.fakedns = <<>>])
syncHosts(rows) ==
  /\ AtRest /\ DnsOn(template) /\ Mutate([template EXCEPT !.dns.hosts = hostsObject(rows)])
  /\ hostsList' = rows /\ outside' = FALSE
  /\ UNCHANGED <<dialog, asked, warpAccount, nordAccount, staged, byHand, stale>>
EditHosts ==
  \/ syncHosts(Append(hostsList, [domain |-> "", values |-> <<>>]))
  \/ \E i \in DOMAIN hostsList :
       \/ \E domain \in Names \cup {""} : syncHosts([hostsList EXCEPT ![i].domain = domain])
       \/ \E values \in Lists : syncHosts([hostsList EXCEPT ![i].values = values])
       \/ syncHosts(RemoveAt(hostsList, i))
\* The fields of the section; a blank client address is not written.
DnsFields(dns) == {[dns EXCEPT !.queryStrategy = "UseIPv4"], Without(dns, "clientIp")} \cup {With(dns, "clientIp", ip) : ip \in Names}
setDnsField == AtRest /\ DnsOn(template) /\ \E dns \in DnsFields(template.dns) : Plain([template EXCEPT !.dns = dns])
openServer ==
  /\ DnsOn(template)
  /\ \/ Opens("server", 0, DefaultServer)
     \/ \E i \in DOMAIN template.dns.servers : Opens("server", i, valuesFromServer(template.dns.servers[i]))
\* Without DNS there is nothing to write to.
PutServers(servers) == IF DnsOn(template) THEN [template EXCEPT !.dns.servers = servers] ELSE template
ServerInputs(value) == {[value EXCEPT !.address = address, !.domains = domains] : address \in Names, domains \in Lists}
onServerConfirm ==
  /\ In("server")
  /\ \E form \in ServerInputs(dialog.value) :
       Confirmed(IF DnsOn(template) THEN PutServers(PutAt(template.dns.servers, dialog.index, valuesToWire(form))) ELSE template, {})
deleteServer ==
  /\ AtRest /\ DnsOn(template)
  /\ \E i \in DOMAIN template.dns.servers : Plain(PutServers(RemoveAt(template.dns.servers, i)))
clearAllServers ==
  \/ DnsOn(template) /\ template.dns.servers # <<>> /\ Opens("clearServers", 0, <<>>)
  \/ In("clearServers") /\ Confirmed(PutServers(<<>>), {})
onPresetInstall ==
  \/ DnsOn(template) /\ Opens("presets", 0, <<>>)
  \/ In("presets") /\ \E name \in Names : Confirmed(PutServers(<<[address |-> name]>>), {})
FakednsInputs(pools) ==
  {Append(pools, [ipPool |-> "198.18.0.0/15", poolSize |-> 65535])}
    \cup {RemoveAt(pools, i) : i \in DOMAIN pools} \cup {[pools EXCEPT ![i].poolSize = 0] : i \in DOMAIN pools}
EditFakedns ==
  AtRest /\ DnsOn(template) /\ \E pools \in FakednsInputs(template.fakedns) : Plain([template EXCEPT !.fakedns = pools])

------------------------------------------------------------------------------
\* A part typed in the advanced editor replaces that part alone.
onAdvancedTextChange ==
  /\ AtRest
  /\ \/ \E outbounds \in Slices :
          ByHand([template EXCEPT !.outbounds = outbounds], Tags(template) \ {o.tag : o \in Range(outbounds)})
     \/ \E rules \in RuleSlices :
          ByHand([template EXCEPT !.rules = rules], UNION {{OutboundOf(rule), BalancerOf(rule)} : rule \in Range(rules)})

\* The draft's own steps, and what they do to the tabs.
Unmoved == UNCHANGED <<warpAccount, nordAccount, staged, byHand, stale>>
TypeJson == AtRest /\ TypeText /\ HostsFollow(template') /\ AskedFollows(template') /\ Unmoved /\ UNCHANGED dialog
Press == AtRest /\ (onSaveAll \/ resetToDefault) /\ UNCHANGED editorVars
Background == (updateSetting \/ SaveAnswered \/ SaveFailed \/ getXraySetting \/ Poll \/ fetchAll) /\ UNCHANGED editorVars
DefaultShown ==
  DefaultArrives /\ HostsFollow(template') /\ AskedFollows(template') /\ Unmoved /\ dialog' = Overtaken(dialog)
\* The tabs that come back after an error are made before the draft is seeded.
Refetched ==
  /\ RefetchArrives /\ AskedFollows(template') /\ Unmoved /\ dialog' = Overtaken(dialog)
  /\ IF fetchError /\ DnsOn(template) = DnsOn(template')
     THEN hostsList' = HostsOf(template) /\ outside' = (HostsOf(template) # HostsOf(template'))
     ELSE HostsFollow(template')
\* An error takes the tabs and their dialogs away, but not those of WARP and Nord.
Unfetched ==
  /\ RefetchFails /\ dialog' = IF dialog.kind \in {"warp", "nord"} THEN dialog ELSE NoDialog
  /\ UNCHANGED <<asked, warpAccount, nordAccount, staged, hostsList, outside, byHand, stale>>

Dialogs == openRule \/ openBalancer \/ openServer \/ openWarp \/ openNord \/ Close
Tabs == MoveRule \/ FreedomStrategy \/ BasicLists \/ General \/ onObsTextChange \/ toggleDNS \/ EditHosts \/ setDnsField \/ deleteServer \/ EditFakedns \/ onAdvancedTextChange
Confirms == onRuleConfirm \/ confirmDeleteRule \/ onBalancerConfirm \/ confirmDeleteBalancer \/ onServerConfirm \/ clearAllServers \/ onPresetInstall
Warp == AskWarp \/ WarpStaged \/ AskFailed \/ delConfig \/ addWarp \/ resetWarp
Nord == loginNord \/ AskNord \/ logout \/ PickNord
EditorNext == Dialogs \/ Tabs \/ Confirms \/ Warp \/ Nord \/ TypeJson \/ Press \/ Background \/ DefaultShown \/ Refetched \/ Unfetched

EditorSpec == EditorInit /\ [][EditorNext]_vars

------------------------------------------------------------------------------
\* Every rule of the draft leads to an outbound or a balancer there is, and every
\* balancer is watched by the observatory its strategy needs, after any interleaving
\* of dialogs, lists, renames, answers and refetches; only a tag deleted or typed by
\* hand, or a dialog or a logout that outlived its draft, may leave a rule dangling.
RoutingResolves == ~stale => Resolves(template, byHand)

\* The rows of the DNS tab stand for the hosts the draft has, however DNS is switched,
\* rows are left unfinished and the draft is fetched again, unless the hosts were
\* changed in the JSON or by the panel while DNS stayed on.
HostsAreShown == DnsOn(template) /\ ~outside => hostsObject(hostsList) = hostsObject(template.dns.hosts)
==============================================================================
