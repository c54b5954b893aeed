---------------------------- MODULE TemplateProofs ----------------------------
(***************************************************************************)
(* Proofs about TemplateDraft and TemplateEditor: what the tabs do is a    *)
(* step of the draft, whatever they write, a draft that counts as saved is *)
(* what the panel has, the hosts of an account are shown once loaded, and  *)
(* no rule of the draft names an outbound or a balancer that is gone.      *)
(***************************************************************************)
EXTENDS TemplateEditor, WellFoundedInduction, FiniteSetTheorems, TLAPS

-----------------------------------------------------------------------------
\* The draft alone, as the tabs may use it: an edit or an answer writes some
\* template.

Answered(t) ==
  SetTemplate(t) /\ UNCHANGED <<server, cached, old, saveDisabled, saving, refetch, fetchError, resetting, unsure, edits>>
Writes == \E t : IsTemplate(t) /\ (Mutate(t) \/ Answered(t))
DraftNext ==
  \/ Writes
  \/ Ask \/ TypeText \/ Poll \/ onSaveAll \/ updateSetting \/ SaveAnswered \/ SaveFailed
  \/ getXraySetting \/ RefetchArrives \/ RefetchFails \/ fetchAll \/ resetToDefault \/ DefaultArrives
DraftSpec == DraftInit /\ [][DraftNext]_draftVars

-----------------------------------------------------------------------------
\* The inductive invariant.

IsText(json) == json = JsonOf(json.of) /\ IsTemplate(json.of)
Shapes ==
  /\ IsTemplate(server) /\ IsTemplate(template) /\ IsText(old)
  /\ text = BadJson \/ IsText(text)
  /\ saving = Idle \/ (saving = [at |-> saving.at, sent |-> saving.sent] /\ saving.at \in {"sent", "saved", "failed"} /\ IsText(saving.sent))
  /\ refetch = Idle \/ refetch = [at |-> "asked"] \/ (refetch = [at |-> "read", got |-> refetch.got] /\ IsTemplate(refetch.got))

\* While a save is stored and not yet answered the panel has what was sent;
\* otherwise it has what counts as saved, and so does a refetch on its way,
\* unless a save was stored although its answer said otherwise.
Honest ==
  /\ saving.at = "saved" => server = EnsureStatsRouting(saving.sent.of)
  /\ (saving.at # "saved" /\ ~unsure) => EnsureStatsRouting(old.of) = EnsureStatsRouting(server)
  /\ (saving.at # "saved" /\ ~unsure /\ refetch.at = "read") => refetch.got = server
DraftInv == Shapes /\ Honest

-----------------------------------------------------------------------------
\* Lists.

\* What it is to be a list, said with its length.
LEMMA ListIs ==
  ASSUME NEW list, IsList(list)
  PROVE  /\ Len(list) \in Nat /\ DOMAIN list = 1 .. Len(list) /\ list = [i \in 1 .. Len(list) |-> list[i]]
         /\ \A i \in DOMAIN list : list[i] \in Range(list)
BY DEF IsList

\* A sequence of the library is a list.
LEMMA SeqIsList ==
  ASSUME NEW S, NEW list \in Seq(S)
  PROVE  IsList(list)
<1>1. Len(list) \in Nat /\ DOMAIN list = 1 .. Len(list) /\ list \in [1 .. Len(list) -> S]
  OBVIOUS
<1>2. \A i \in 1 .. Len(list) : list[i] \in Range(list)
  BY <1>1 DEF Range
<1>3. list \in [1 .. Len(list) -> Range(list)]
  BY <1>1, <1>2
<1> QED
  BY <1>1, <1>3 DEF IsList

\* A set of numbers has a least one.
LEMMA Least ==
  ASSUME NEW S \in SUBSET Nat, S # {}
  PROVE  \E i \in S : \A j \in S : i <= j
<1> DEFINE R == {ss \in Nat \X Nat : ss[1] < ss[2]}
<1>1. IsWellFoundedOn(R, Nat)
  BY NatLessThanWellFounded, Zenon DEF OpToRel
<1>2. \A x, y \in Nat : x < y => <<x, y>> \in R
  OBVIOUS
<1> HIDE DEF R
<1>3. \E x \in S : \A y \in S : ~ (<<y, x>> \in R)
  BY <1>1, WFMin
<1>4. PICK x \in S : \A y \in S : ~ (<<y, x>> \in R)
  BY <1>3
<1>5. ASSUME NEW y \in S
      PROVE  x <= y
  <2>1. x \in Nat /\ y \in Nat /\ ~(<<y, x>> \in R)
    BY <1>4
  <2>2. ~(y < x)
    BY <2>1, <1>2
  <2> QED
    BY <2>1, <2>2
<1> QED
  BY <1>5

\* The panel finds the first rule of the api inbound.
LEMMA FindApiRule ==
  ASSUME NEW rules, IsList(rules)
  PROVE  /\ findApiRule(rules) \in 0 .. Len(rules)
         /\ findApiRule(rules) # 0 => IsApiRule(rules[findApiRule(rules)])
         /\ (1 \in DOMAIN rules /\ IsApiRule(rules[1])) => findApiRule(rules) = 1
<1> DEFINE found == {i \in DOMAIN rules : IsApiRule(rules[i])}
<1>1. Len(rules) \in Nat /\ DOMAIN rules = 1 .. Len(rules)
  BY ListIs
<1>2. found \in SUBSET Nat /\ found \subseteq 1 .. Len(rules)
  BY <1>1
<1>3. CASE found = {}
  <2>1. findApiRule(rules) = 0
    BY <1>3 DEF findApiRule
  <2> QED
    BY <1>1, <1>3, <2>1
<1>4. CASE found # {}
  <2>1. findApiRule(rules) = CHOOSE i \in found : \A j \in found : i <= j
    BY <1>4 DEF findApiRule
  <2>2. findApiRule(rules) \in found /\ \A j \in found : findApiRule(rules) <= j
    BY <1>2, <1>4, <2>1, Least
  <2>3. findApiRule(rules) \in 1 .. Len(rules) /\ IsApiRule(rules[findApiRule(rules)])
    BY <1>2, <2>2
  <2>4. 1 \in found => findApiRule(rules) = 1
    BY <1>1, <2>2, <2>3
  <2> QED
    BY <1>1, <2>3, <2>4
<1> QED
  BY <1>3, <1>4

\* A rule of the api inbound in front stays where it is.
LEMMA InFront ==
  ASSUME NEW t, IsTemplate(t), 1 \in DOMAIN t.rules, IsApiRule(t.rules[1])
  PROVE  EnsureStatsRouting(t) = t
<1>1. findApiRule(t.rules) = 1
  BY FindApiRule DEF IsTemplate
<1> QED
  BY <1>1 DEF EnsureStatsRouting

\* A template with other rules is a template.
LEMMA RulesReplaced ==
  ASSUME NEW t, IsTemplate(t), NEW rules, IsList(rules)
  PROVE  IsTemplate([t EXCEPT !.rules = rules]) /\ [t EXCEPT !.rules = rules].rules = rules
BY DEF IsTemplate

\* What the panel does to a template it does once.
LEMMA EnsuredOnce ==
  ASSUME NEW t, IsTemplate(t)
  PROVE  IsTemplate(EnsureStatsRouting(t)) /\ EnsureStatsRouting(EnsureStatsRouting(t)) = EnsureStatsRouting(t)
<1> DEFINE at == findApiRule(t.rules)
           rules == t.rules
<1>1. IsList(rules) /\ "rules" \in DOMAIN t /\ rules \in Seq(Range(rules))
  BY DEF IsTemplate, IsList
<1>2. at \in 0 .. Len(rules) /\ Len(rules) \in Nat /\ (at # 0 => IsApiRule(rules[at])) /\ DOMAIN rules = 1 .. Len(rules)
  BY <1>1, FindApiRule, ListIs
<1>3. CASE at = 1
  <2>1. EnsureStatsRouting(t) = t
    BY <1>3 DEF EnsureStatsRouting
  <2> QED
    BY <2>1
<1>4. ASSUME NEW rule, IsApiRule(rule), NEW rest \in Seq(Range(rules)),
             EnsureStatsRouting(t) = [t EXCEPT !.rules = <<rule>> \o rest]
      PROVE  IsTemplate(EnsureStatsRouting(t)) /\ EnsureStatsRouting(EnsureStatsRouting(t)) = EnsureStatsRouting(t)
  <2> DEFINE all == <<rule>> \o rest
  <2>1. all \in Seq(Range(rules) \cup {rule}) /\ 1 \in DOMAIN all /\ all[1] = rule
    <3>1. <<rule>> \in Seq(Range(rules) \cup {rule}) /\ rest \in Seq(Range(rules) \cup {rule}) /\ Len(<<rule>>) = 1 /\ <<rule>>[1] = rule
      OBVIOUS
    <3>2. Len(rest) \in Nat /\ Len(all) = 1 + Len(rest) /\ all \in Seq(Range(rules) \cup {rule})
      BY <3>1
    <3>3. 1 \in DOMAIN all /\ all[1] = rule
      BY <3>1, <3>2
    <3> QED
      BY <3>2, <3>3
  <2>2. IsList(all)
    BY <2>1, SeqIsList
  <2> HIDE DEF all
  <2>3. EnsureStatsRouting(t) = [t EXCEPT !.rules = all]
    BY <1>4 DEF all
  <2>4. IsTemplate(EnsureStatsRouting(t)) /\ EnsureStatsRouting(t).rules = all
    BY <1>1, <2>2, <2>3, RulesReplaced
  <2>5. 1 \in DOMAIN EnsureStatsRouting(t).rules /\ IsApiRule(EnsureStatsRouting(t).rules[1])
    BY <1>4, <2>1, <2>4
  <2> QED
    BY <2>4, <2>5, InFront
<1>5. CASE at = 0
  <2>1. EnsureStatsRouting(t) = [t EXCEPT !.rules = <<ApiRule>> \o rules]
    BY <1>5 DEF EnsureStatsRouting
  <2>2. IsApiRule(ApiRule)
    <3>1. DOMAIN ApiRule = {"outboundTag", "inboundTag"} /\ ApiRule["outboundTag"] = "api" /\ ApiRule["inboundTag"] = <<"api">>
      BY DEF ApiRule
    <3>2. <<"api">>[1] = "api" /\ 1 \in DOMAIN <<"api">>
      OBVIOUS
    <3> QED
      BY <3>1, <3>2 DEF IsApiRule, Range
  <2> QED
    BY <1>1, <1>4, <2>1, <2>2
<1>6. CASE at > 1
  <2>1. EnsureStatsRouting(t) = [t EXCEPT !.rules = <<rules[at]>> \o RemoveAt(rules, at)]
    BY <1>2, <1>6 DEF EnsureStatsRouting
  <2>2. RemoveAt(rules, at) \in Seq(Range(rules))
    BY <1>1, <1>2, <1>6 DEF RemoveAt
  <2>3. IsApiRule(rules[at])
    BY <1>2, <1>6
  <2> QED
    BY <1>4, <2>1, <2>2, <2>3
<1> QED
  BY <1>2, <1>3, <1>5, <1>6

-----------------------------------------------------------------------------
\* The draft.

\* A text says which template it was written from.
LEMMA TextIs ==
  ASSUME NEW t
  PROVE  JsonOf(t).of = t /\ JsonOf(t) # BadJson /\ (IsTemplate(t) => IsText(JsonOf(t)))
<1>1. JsonOf(t).of = t /\ JsonOf(t).json = TRUE /\ BadJson.json = FALSE
  BY DEF JsonOf, BadJson
<1>2. JsonOf(t) # BadJson
  BY <1>1
<1> QED
  BY <1>1, <1>2 DEF IsText

\* Every step of the draft keeps templates templates and texts texts.
LEMMA ShapesStay ==
  ASSUME Shapes, [DraftNext]_draftVars
  PROVE  Shapes'
<1>0. IsTemplate(Default) /\ \A t \in Typed : IsTemplate(t)
  BY DraftAssumption
<1>a. Idle.at = "idle"
  BY DEF Idle
<1>1. ASSUME NEW t, IsTemplate(t), SetTemplate(t)
      PROVE  IsTemplate(template') /\ IsText(text')
  BY <1>1, TextIs DEF SetTemplate
<1>2. CASE Writes
  <2>1. PICK t : IsTemplate(t) /\ (Mutate(t) \/ Answered(t))
    BY <1>2 DEF Writes
  <2>2. SetTemplate(t) /\ UNCHANGED <<server, old, saving, refetch>>
    BY <2>1 DEF Mutate, Answered
  <2> QED
    BY <1>1, <2>1, <2>2 DEF Shapes
<1>3. CASE TypeText
  <2>1. PICK next \in {JsonOf(t) : t \in Typed} \cup {BadJson} :
           text' = next /\ template' = IF next = BadJson THEN template ELSE next.of
    BY <1>3 DEF TypeText
  <2>2. UNCHANGED <<server, old, saving, refetch>>
    BY <1>3 DEF TypeText
  <2>3. CASE next = BadJson
    BY <2>1, <2>2, <2>3 DEF Shapes
  <2>4. CASE next # BadJson
    <3>1. PICK t \in Typed : next = JsonOf(t)
      BY <2>1, <2>4
    <3>2. text' = JsonOf(t) /\ template' = t
      BY <2>1, <2>4, <3>1, TextIs
    <3> QED
      BY <1>0, <2>2, <3>2, TextIs DEF Shapes
  <2> QED
    BY <2>3, <2>4
<1>4. CASE onSaveAll
  <2>1. text # BadJson /\ saving' = [at |-> "sent", sent |-> text] /\ UNCHANGED <<server, template, old, text, refetch>>
    BY <1>4 DEF onSaveAll
  <2> QED
    BY <2>1 DEF Shapes
<1>5. CASE updateSetting
  <2>1. /\ saving.at = "sent" /\ UNCHANGED <<template, old, text, refetch>>
        /\ server' = server \/ server' = EnsureStatsRouting(saving.sent.of)
        /\ saving' = [saving EXCEPT !.at = "saved"] \/ saving' = [saving EXCEPT !.at = "failed"]
    BY <1>5 DEF updateSetting
  <2>2. saving = [at |-> saving.at, sent |-> saving.sent] /\ IsText(saving.sent)
    BY <1>a, <2>1 DEF Shapes
  <2>3. saving' = [at |-> saving'.at, sent |-> saving'.sent] /\ saving'.at \in {"saved", "failed"} /\ saving'.sent = saving.sent
    <3>1. [saving EXCEPT !.at = "saved"] = [at |-> "saved", sent |-> saving.sent]
      BY <2>2
    <3>2. [saving EXCEPT !.at = "failed"] = [at |-> "failed", sent |-> saving.sent]
      BY <2>2
    <3> QED
      BY <2>1, <3>1, <3>2
  <2>4. IsTemplate(server')
    BY <2>1, <2>2, EnsuredOnce DEF Shapes, IsText
  <2> QED
    BY <2>1, <2>2, <2>3, <2>4 DEF Shapes
<1>6. CASE SaveAnswered
  <2>1. /\ saving.at = "saved" /\ old' = saving.sent /\ saving' = Idle /\ refetch' = [at |-> "asked"]
        /\ UNCHANGED <<server, template, text>>
    BY <1>6 DEF SaveAnswered
  <2>2. IsText(saving.sent)
    BY <1>a, <2>1 DEF Shapes
  <2> QED
    BY <2>1, <2>2 DEF Shapes
<1>7. CASE SaveFailed
  BY <1>7 DEF SaveFailed, Shapes
<1>8. CASE getXraySetting
  <2>1. refetch' = [at |-> "read", got |-> server] /\ UNCHANGED <<server, template, old, text, saving>>
    BY <1>8 DEF getXraySetting
  <2> QED
    BY <2>1 DEF Shapes
<1>9. CASE RefetchArrives
  <2>1. /\ refetch.at = "read" /\ refetch' = Idle /\ UNCHANGED <<server, saving>>
        /\ \/ SetTemplate(refetch.got) /\ old' = JsonOf(refetch.got)
           \/ UNCHANGED <<text, template, old>>
    BY <1>9 DEF RefetchArrives
  <2>2. IsTemplate(refetch.got)
    <3>1. [at |-> "asked"].at = "asked"
      OBVIOUS
    <3> QED
      BY <1>a, <2>1, <3>1 DEF Shapes
  <2>3. CASE SetTemplate(refetch.got) /\ old' = JsonOf(refetch.got)
    BY <1>1, <2>1, <2>2, <2>3, TextIs DEF Shapes
  <2>4. CASE UNCHANGED <<text, template, old>>
    BY <2>1, <2>4 DEF Shapes
  <2> QED
    BY <2>1, <2>3, <2>4
<1>10. CASE RefetchFails
  BY <1>10 DEF RefetchFails, Shapes
<1>11. CASE fetchAll
  BY <1>11 DEF fetchAll, Shapes
<1>12. CASE DefaultArrives
  <2>1. UNCHANGED <<server, old, saving, refetch>> /\ (SetTemplate(Default) \/ UNCHANGED <<text, template>>)
    BY <1>12 DEF DefaultArrives
  <2>2. CASE SetTemplate(Default)
    BY <1>0, <1>1, <2>1, <2>2 DEF Shapes
  <2>3. CASE UNCHANGED <<text, template>>
    BY <2>1, <2>3 DEF Shapes
  <2> QED
    BY <2>1, <2>2, <2>3
<1>13. CASE Ask \/ Poll \/ resetToDefault \/ UNCHANGED draftVars
  <2>1. UNCHANGED <<server, template, text, old, saving, refetch>>
    BY <1>13 DEF Ask, Poll, resetToDefault, draftVars
  <2> QED
    BY <2>1 DEF Shapes
<1> QED
  BY <1>2, <1>3, <1>4, <1>5, <1>6, <1>7, <1>8, <1>9, <1>10, <1>11, <1>12, <1>13 DEF DraftNext

\* Every step of the draft keeps what counts as saved what the panel has.
LEMMA HonestStays ==
  ASSUME Shapes, Honest, [DraftNext]_draftVars
  PROVE  Honest'
<1>a. Idle.at = "idle"
  BY DEF Idle
<1>1. CASE onSaveAll
  <2>1. saving' = [at |-> "sent", sent |-> text] /\ saving = Idle /\ UNCHANGED <<server, old, refetch, unsure>>
    BY <1>1 DEF onSaveAll
  <2> QED
    BY <1>a, <2>1 DEF Honest
<1>2. CASE updateSetting
  <2>1. saving.at = "sent" /\ UNCHANGED <<old, refetch>>
    BY <1>2 DEF updateSetting
  <2>2. saving = [at |-> saving.at, sent |-> saving.sent]
    BY <1>a, <2>1 DEF Shapes
  <2>3. CASE server' = EnsureStatsRouting(saving.sent.of) /\ saving' = [saving EXCEPT !.at = "saved"]
    <3>1. saving' = [at |-> "saved", sent |-> saving.sent]
      BY <2>2, <2>3
    <3> QED
      BY <2>3, <3>1 DEF Honest
  <2>4. CASE saving' = [saving EXCEPT !.at = "failed"] /\ UNCHANGED <<server, unsure>>
    <3>1. saving' = [at |-> "failed", sent |-> saving.sent]
      BY <2>2, <2>4
    <3> QED
      BY <2>1, <2>4, <3>1 DEF Honest
  <2>5. CASE unsure' = TRUE /\ saving' = [saving EXCEPT !.at = "failed"]
    <3>1. saving' = [at |-> "failed", sent |-> saving.sent]
      BY <2>2, <2>5
    <3> QED
      BY <2>5, <3>1 DEF Honest
  <2> QED
    BY <1>2, <2>3, <2>4, <2>5 DEF updateSetting
<1>3. CASE SaveAnswered
  <2>1. saving.at = "saved" /\ old' = saving.sent /\ saving' = Idle /\ refetch' = [at |-> "asked"] /\ server' = server
    BY <1>3 DEF SaveAnswered
  <2>2. IsTemplate(saving.sent.of) /\ server = EnsureStatsRouting(saving.sent.of)
    BY <1>a, <2>1 DEF Shapes, Honest, IsText
  <2>3. EnsureStatsRouting(old'.of) = EnsureStatsRouting(server')
    BY <2>1, <2>2, EnsuredOnce
  <2> QED
    BY <1>a, <2>1, <2>3 DEF Honest
<1>4. CASE SaveFailed
  <2>1. saving.at = "failed" /\ saving' = Idle /\ UNCHANGED <<server, old, refetch, unsure>>
    BY <1>4 DEF SaveFailed
  <2> QED
    BY <1>a, <2>1 DEF Honest
<1>5. CASE getXraySetting
  <2>1. refetch' = [at |-> "read", got |-> server] /\ UNCHANGED <<server, old, saving, unsure>>
    BY <1>5 DEF getXraySetting
  <2> QED
    BY <2>1 DEF Honest
<1>6. CASE RefetchArrives
  <2>1. /\ refetch.at = "read" /\ refetch' = Idle /\ UNCHANGED <<server, saving, unsure>>
        /\ old' = JsonOf(refetch.got) \/ old' = old
    BY <1>6 DEF RefetchArrives
  <2>2. old'.of = refetch.got \/ old' = old
    BY <2>1, TextIs
  <2> QED
    BY <1>a, <2>1, <2>2 DEF Honest
<1>7. CASE RefetchFails \/ fetchAll
  <2>1. refetch' \in {Idle, [at |-> "asked"]} /\ UNCHANGED <<server, old, saving, unsure>>
    BY <1>7 DEF RefetchFails, fetchAll
  <2>2. refetch'.at # "read"
    BY <1>a, <2>1
  <2> QED
    BY <2>1, <2>2 DEF Honest
<1>8. CASE \/ Writes \/ Ask \/ TypeText \/ Poll \/ resetToDefault \/ DefaultArrives \/ UNCHANGED draftVars
  <2>1. UNCHANGED <<server, old, saving, refetch, unsure>>
    BY <1>8 DEF Writes, Mutate, Answered, Ask, TypeText, Poll, resetToDefault, DefaultArrives, draftVars
  <2> QED
    BY <2>1 DEF Honest
<1> QED
  BY <1>1, <1>2, <1>3, <1>4, <1>5, <1>6, <1>7, <1>8 DEF DraftNext

\* The page opens with the stored template.
LEMMA InitInv ==
  ASSUME DraftInit
  PROVE  DraftInv
<1>1. IsTemplate(server) /\ template = server /\ text = JsonOf(server) /\ old = text /\ saving = Idle /\ refetch = Idle /\ Idle.at = "idle"
  BY DraftAssumption DEF DraftInit, Idle
<1>2. IsText(old) /\ old.of = server
  BY <1>1, TextIs
<1> QED
  BY <1>1, <1>2 DEF DraftInv, Shapes, Honest

\* The invariant is strong enough for the property.
LEMMA CleanWhenHonest ==
  ASSUME DraftInv
  PROVE  CleanIsStored
<1> SUFFICES ASSUME Quiet, ~Dirty, ~unsure
             PROVE  text # BadJson /\ EnsureStatsRouting(text.of) = EnsureStatsRouting(server)
  BY DEF CleanIsStored
<1>1. text = old /\ saving.at = "idle"
  BY DEF Quiet, Dirty, Idle
<1>2. text # BadJson
  BY <1>1, TextIs DEF DraftInv, Shapes, IsText
<1> QED
  BY <1>1, <1>2 DEF DraftInv, Honest

\* A draft that counts as saved is what the panel has, whatever is edited,
\* saved, refetched and lost in between.
THEOREM DraftIsHonest == DraftSpec => []CleanIsStored
<1>1. DraftInv /\ [DraftNext]_draftVars => DraftInv'
  BY ShapesStay, HonestStays DEF DraftInv
<1> QED
  BY <1>1, InitInv, CleanWhenHonest, PTL DEF DraftSpec

-----------------------------------------------------------------------------
\* What the tabs write is a template.

\* A function on 1 .. n is a list.
LEMMA ArrayIsList ==
  ASSUME NEW n \in Nat, NEW list, list = [i \in 1 .. n |-> list[i]]
  PROVE  IsList(list)
<1>1. list \in Seq({list[i] : i \in 1 .. n})
  OBVIOUS
<1> QED
  BY <1>1, SeqIsList

\* What the dialogs do to a list leaves a list.
LEMMA ListOperators ==
  ASSUME NEW list, IsList(list)
  PROVE  /\ \A item : IsList(Append(list, item))
         /\ \A i \in Nat : \A item : IsList(PutAt(list, i, item))
         /\ \A i : IsList(RemoveIndex(list, i))
         /\ \A from, to \in DOMAIN list : IsList(MoveTo(list, from, to))
         /\ \A key, from, to : IsList(Retag(list, key, from, to))
<1>1. list \in Seq(Range(list)) /\ Len(list) \in Nat /\ DOMAIN list = 1 .. Len(list) /\ \A i \in DOMAIN list : list[i] \in Range(list)
  BY ListIs DEF IsList
<1>2. ASSUME NEW item
      PROVE  IsList(Append(list, item))
  <2>1. list \in Seq(Range(list) \cup {item})
    BY <1>1
  <2>2. Append(list, item) \in Seq(Range(list) \cup {item})
    BY <2>1
  <2> QED
    BY <2>2, SeqIsList
<1>3. ASSUME NEW i \in Nat, NEW item
      PROVE  IsList(PutAt(list, i, item))
  <2>1. CASE i = 0
    BY <1>2, <2>1 DEF PutAt
  <2>2. CASE i # 0
    <3> DEFINE n == IF i > Len(list) THEN i ELSE Len(list)
    <3>1. n \in Nat
      BY <1>1
    <3>2. PutAt(list, i, item) = [j \in 1 .. n |-> PutAt(list, i, item)[j]]
      BY <2>2 DEF PutAt
    <3> HIDE DEF n
    <3> QED
      BY <3>1, <3>2, ArrayIsList
  <2> QED
    BY <2>1, <2>2
<1>4. ASSUME NEW i
      PROVE  IsList(RemoveIndex(list, i))
  <2>1. CASE i \in DOMAIN list
    <3>1. i \in 1 .. Len(list)
      BY <1>1, <2>1
    <3>2. RemoveAt(list, i) \in Seq(Range(list))
      BY <1>1, <3>1 DEF RemoveAt
    <3> QED
      BY <2>1, <3>2, SeqIsList DEF RemoveIndex
  <2>2. CASE i \notin DOMAIN list
    BY <2>2 DEF RemoveIndex
  <2> QED
    BY <2>1, <2>2
<1>5. ASSUME NEW from \in DOMAIN list, NEW to \in DOMAIN list
      PROVE  IsList(MoveTo(list, from, to))
  <2>0. from \in 1 .. Len(list) /\ to \in 1 .. Len(list) /\ list[from] \in Range(list)
    BY <1>1
  <2> DEFINE rest == RemoveAt(list, from)
  <2>1. rest \in Seq(Range(list)) /\ Len(rest) = Len(list) - 1
    BY <1>1, <2>0 DEF RemoveAt
  <2> HIDE DEF rest
  <2>2. SubSeq(rest, 1, to - 1) \in Seq(Range(list))
    BY <1>1, <2>0, <2>1
  <2>3. SubSeq(rest, to, Len(rest)) \in Seq(Range(list))
    BY <1>1, <2>0, <2>1
  <2>4. <<list[from]>> \in Seq(Range(list))
    BY <2>0
  <2>5. InsertAt(rest, to, list[from]) \in Seq(Range(list))
    BY <2>2, <2>3, <2>4 DEF InsertAt
  <2> QED
    BY <2>5, SeqIsList DEF MoveTo, rest
<1>6. ASSUME NEW key, NEW from, NEW to
      PROVE  IsList(Retag(list, key, from, to))
  <2>1. Retag(list, key, from, to) = [i \in 1 .. Len(list) |-> Retag(list, key, from, to)[i]]
    BY <1>1 DEF Retag
  <2> QED
    BY <1>1, <2>1, ArrayIsList
<1> QED
  BY <1>2, <1>3, <1>4, <1>5, <1>6

\* The elements kept of a list, in its order, are a list.
LEMMA AmongIsList ==
  ASSUME NEW list, NEW n \in Nat, NEW kept \in SUBSET (1 .. n)
  PROVE  IsList(Among(list, kept))
<1>1. IsFiniteSet(1 .. n)
  BY FS_Interval
<1>2. Cardinality(kept) \in Nat
  BY <1>1, FS_Subset, FS_CardinalityType
<1>3. Among(list, kept) = [k \in 1 .. Cardinality(kept) |-> Among(list, kept)[k]]
  BY DEF Among
<1> QED
  BY <1>2, <1>3, ArrayIsList

\* A write that leaves rules and DNS alone leaves a template.
LEMMA RulesKept ==
  ASSUME NEW t, IsTemplate(t), NEW u, DOMAIN u = DOMAIN t, u.rules = t.rules, u.dns = t.dns
  PROVE  IsTemplate(u)
BY DEF IsTemplate

\* The basic lists, the observatories, balancers and a Nord reset write templates.
LEMMA SettersKeep ==
  ASSUME NEW t, IsTemplate(t)
  PROVE  /\ \A tag, property, data : IsTemplate(ruleSetter(t, tag, property, data))
         /\ \A outbound : IsTemplate(syncOutbound(t, outbound))
         /\ IsTemplate(syncObservatories(t))
         /\ \A index, wire : IsTemplate(PutBalancer(t, index, wire))
         /\ \A tag : IsTemplate(resetNord(t, tag))
<1>1. IsList(t.rules) /\ "rules" \in DOMAIN t /\ Len(t.rules) \in Nat /\ DOMAIN t.rules = 1 .. Len(t.rules)
  BY ListIs DEF IsTemplate
<1>2. ASSUME NEW tag, NEW property, NEW data
      PROVE  IsTemplate(ruleSetter(t, tag, property, data))
  <2>1. \A item : IsList(Append(t.rules, item))
    BY <1>1, ListOperators
  <2>2. \A list, kept : kept \in SUBSET (1 .. Len(t.rules)) => IsList(Among(list, kept))
    BY <1>1, AmongIsList
  <2>3. \E rules : IsList(rules) /\ ruleSetter(t, tag, property, data) = [t EXCEPT !.rules = rules]
    <3>1. CASE ruleGetter(t, tag, property) = <<>>
      BY <2>1, <3>1 DEF ruleSetter
    <3>2. CASE ruleGetter(t, tag, property) # <<>>
      BY <1>1, <2>2, <3>2 DEF ruleSetter
    <3> QED
      BY <3>1, <3>2
  <2> QED
    BY <1>1, <2>3, RulesReplaced
<1>3. ASSUME NEW outbound
      PROVE  IsTemplate(syncOutbound(t, outbound))
  <2>1. DOMAIN syncOutbound(t, outbound) = DOMAIN t /\ syncOutbound(t, outbound).rules = t.rules /\ syncOutbound(t, outbound).dns = t.dns
    BY <1>1 DEF syncOutbound
  <2> QED
    BY <2>1, RulesKept
<1>4. ASSUME NEW u, IsTemplate(u)
      PROVE  IsTemplate(syncObservatories(u))
  <2>1. DOMAIN syncObservatories(u) = DOMAIN u /\ syncObservatories(u).rules = u.rules /\ syncObservatories(u).dns = u.dns
    BY <1>4 DEF syncObservatories, IsTemplate
  <2> QED
    BY <1>4, <2>1, RulesKept
<1>5. ASSUME NEW index, NEW wire
      PROVE  IsTemplate(PutBalancer(t, index, wire))
  <2> DEFINE put == [t EXCEPT !.balancers = PutAt(t.balancers, index, wire)]
  <2>1. DOMAIN put = DOMAIN t /\ put.rules = t.rules /\ put.dns = t.dns
    BY <1>1
  <2>2. IsTemplate(put)
    BY <2>1, RulesKept
  <2> HIDE DEF put
  <2>3. \A was : IsTemplate([put EXCEPT !.rules = Retag(put.rules, "balancerTag", was, wire.tag)])
    BY <1>1, <2>1, <2>2, ListOperators, RulesReplaced
  <2>4. PutBalancer(t, index, wire) = syncObservatories(put)
        \/ \E was : PutBalancer(t, index, wire) = syncObservatories([put EXCEPT !.rules = Retag(put.rules, "balancerTag", was, wire.tag)])
    BY DEF PutBalancer, put
  <2> QED
    BY <1>4, <2>2, <2>3, <2>4
<1>6. ASSUME NEW tag
      PROVE  IsTemplate(resetNord(t, tag))
  <2>1. \A from : IsList(Retag(t.rules, "outboundTag", from, tag))
    BY <1>1, ListOperators
  <2>2. /\ DOMAIN resetNord(t, tag) = DOMAIN t /\ resetNord(t, tag).dns = t.dns
        /\ \E from : resetNord(t, tag).rules = Retag(t.rules, "outboundTag", from, tag)
    BY <1>1 DEF resetNord
  <2> QED
    BY <1>1, <2>1, <2>2 DEF IsTemplate
<1> QED
  BY <1>2, <1>3, <1>4, <1>5, <1>6

-----------------------------------------------------------------------------
\* The tabs are steps of the draft.

\* The dialog of a rule holds the index it was opened with, or 0.
IsDialog(d) ==
  \/ d = NoDialog
  \/ \E kind, index, value, fresh :
       d = [kind |-> kind, index |-> index, value |-> value, fresh |-> fresh] /\ (kind = "rule" => index \in Nat)
DialogOK == IsDialog(dialog)

\* The section of DNS, its hosts and its servers.
LEMMA DnsReplaced ==
  ASSUME NEW t, IsTemplate(t), NEW dns, dns = <<>> \/ ("hosts" \in DOMAIN dns /\ IsList(dns.hosts))
  PROVE  IsTemplate([t EXCEPT !.dns = dns])
<1>1. {"rules", "dns"} \subseteq DOMAIN t /\ IsList(t.rules)
  BY DEF IsTemplate
<1> DEFINE u == [t EXCEPT !.dns = dns]
<1>2. DOMAIN u = DOMAIN t /\ u.rules = t.rules /\ u.dns = dns
  BY <1>1
<1> HIDE DEF u
<1>3. IsTemplate(u)
  BY <1>1, <1>2 DEF IsTemplate
<1> QED
  BY <1>3 DEF u

\* DNS with other servers is a template.
LEMMA ServersReplaced ==
  ASSUME IsTemplate(template), NEW servers
  PROVE  IsTemplate(PutServers(servers))
<1>1. CASE ~DnsOn(template)
  BY <1>1 DEF PutServers
<1>2. CASE DnsOn(template)
  <2> DEFINE dns == [template.dns EXCEPT !.servers = servers]
  <2>1. "hosts" \in DOMAIN dns /\ IsList(dns.hosts)
    BY <1>2 DEF DnsOn, IsTemplate
  <2>2. PutServers(servers) = [template EXCEPT !.dns = dns]
    BY <1>2 DEF PutServers
  <2> HIDE DEF dns
  <2> QED
    BY <2>1, <2>2, DnsReplaced
<1> QED
  BY <1>1, <1>2

\* The empty list is a list.
LEMMA EmptyIsList == IsList(<<>>)
<1>1. <<>> \in Seq({})
  OBVIOUS
<1> QED
  BY <1>1, SeqIsList

\* A template with other hosts is a template and has those hosts.
LEMMA HostsReplaced ==
  ASSUME NEW t, IsTemplate(t), DnsOn(t), NEW rows, IsList(rows)
  PROVE  /\ IsTemplate([t EXCEPT !.dns.hosts = hostsObject(rows)])
         /\ [t EXCEPT !.dns.hosts = hostsObject(rows)].dns.hosts = hostsObject(rows)
<1> DEFINE kept == {i \in DOMAIN rows : Finished(rows[i]) /\ \A k \in RowsOf(rows, rows[i].domain) : i <= k}
<1>1. kept \in SUBSET (1 .. Len(rows)) /\ Len(rows) \in Nat
  BY ListIs
<1>2. \E list : hostsObject(rows) = Among(list, kept)
  BY DEF hostsObject
<1> HIDE DEF kept
<1>3. IsList(hostsObject(rows))
  BY <1>1, <1>2, AmongIsList
<1> DEFINE hosts == hostsObject(rows)
           dns == [t.dns EXCEPT !.hosts = hosts]
<1> HIDE DEF hosts
<1>4. "hosts" \in DOMAIN t.dns /\ "dns" \in DOMAIN t
  BY DEF DnsOn, IsTemplate
<1>5. "hosts" \in DOMAIN dns /\ dns.hosts = hosts
  BY <1>4
<1>6. [t EXCEPT !.dns.hosts = hosts] = [t EXCEPT !.dns = dns]
  BY <1>4
<1> HIDE DEF dns
<1>7. IsTemplate([t EXCEPT !.dns = dns]) /\ [t EXCEPT !.dns = dns].dns = dns
  <2>1. IsList(hosts)
    BY <1>3 DEF hosts
  <2> QED
    BY <1>4, <1>5, <2>1, DnsReplaced
<1> QED
  BY <1>5, <1>6, <1>7 DEF hosts

\* The rows of the DNS tab are edited as a list.
LEMMA RowsAreList ==
  ASSUME IsList(hostsList), EditHosts
  PROVE  \E rows : syncHosts(rows) /\ IsList(rows)
<1>1. hostsList \in Seq(Range(hostsList)) /\ Len(hostsList) \in Nat /\ DOMAIN hostsList = 1 .. Len(hostsList)
  BY ListIs DEF IsList
<1>2. CASE syncHosts(Append(hostsList, [domain |-> "", values |-> <<>>]))
  <2>1. IsList(Append(hostsList, [domain |-> "", values |-> <<>>]))
    BY ListOperators
  <2> QED
    BY <1>2, <2>1
<1>3. ASSUME NEW i \in DOMAIN hostsList, NEW item, syncHosts([hostsList EXCEPT ![i] = item])
      PROVE  \E rows : syncHosts(rows) /\ IsList(rows)
  <2> DEFINE rows == [hostsList EXCEPT ![i] = item]
  <2>1. rows = [k \in 1 .. Len(hostsList) |-> rows[k]]
    BY <1>1
  <2>2. syncHosts(rows)
    BY <1>3
  <2> HIDE DEF rows
  <2> QED
    BY <1>1, <2>1, <2>2, ArrayIsList
<1>4. ASSUME NEW i \in DOMAIN hostsList, syncHosts(RemoveAt(hostsList, i))
      PROVE  \E rows : syncHosts(rows) /\ IsList(rows)
  <2>1. IsList(RemoveAt(hostsList, i))
    BY ListOperators DEF RemoveIndex
  <2> QED
    BY <1>4, <2>1
<1>5. CASE \E i, domain : i \in DOMAIN hostsList /\ syncHosts([hostsList EXCEPT ![i].domain = domain])
  <2>1. PICK i, domain : i \in DOMAIN hostsList /\ syncHosts([hostsList EXCEPT ![i].domain = domain])
    BY <1>5
  <2>2. [hostsList EXCEPT ![i].domain = domain] = [hostsList EXCEPT ![i] = [hostsList[i] EXCEPT !.domain = domain]]
    OBVIOUS
  <2> QED
    BY <1>3, <2>1, <2>2
<1>6. CASE \E i, values : i \in DOMAIN hostsList /\ syncHosts([hostsList EXCEPT ![i].values = values])
  <2>1. PICK i, values : i \in DOMAIN hostsList /\ syncHosts([hostsList EXCEPT ![i].values = values])
    BY <1>6
  <2>2. [hostsList EXCEPT ![i].values = values] = [hostsList EXCEPT ![i] = [hostsList[i] EXCEPT !.values = values]]
    OBVIOUS
  <2> QED
    BY <1>3, <2>1, <2>2
<1> QED
  BY <1>2, <1>4, <1>5, <1>6 DEF EditHosts

\* An edit of a tab writes a template and leaves the dialog alone.
LEMMA TabsWrite ==
  ASSUME IsTemplate(template), IsList(hostsList), Tabs
  PROVE  Writes /\ UNCHANGED dialog
<1>0. IsList(template.rules) /\ {"rules", "dns"} \subseteq DOMAIN template
  BY DEF IsTemplate
<1>a. ASSUME NEW t, Plain(t), IsTemplate(t)
      PROVE  Writes /\ UNCHANGED dialog
  BY <1>a DEF Plain, Write, Writes
<1>b. ASSUME NEW t, NEW tags, ByHand(t, tags), IsTemplate(t)
      PROVE  Writes /\ UNCHANGED dialog
  BY <1>b DEF ByHand, Write, Writes
<1>c. ASSUME NEW rules, IsList(rules)
      PROVE  IsTemplate([template EXCEPT !.rules = rules])
  BY <1>0, <1>c, RulesReplaced
\* A part other than the rules.
<1>d. ASSUME NEW part
      PROVE  /\ IsTemplate([template EXCEPT !.outbounds = part]) /\ IsTemplate([template EXCEPT !.general = part])
             /\ IsTemplate([template EXCEPT !.observatory = part]) /\ IsTemplate([template EXCEPT !.burstObservatory = part])
             /\ IsTemplate([template EXCEPT !.fakedns = part])
  BY <1>0, RulesKept
\* The section of DNS.
<1>e. ASSUME NEW dns, dns = <<>> \/ ("hosts" \in DOMAIN dns /\ IsList(dns.hosts))
      PROVE  IsTemplate([template EXCEPT !.dns = dns])
  BY <1>e, DnsReplaced
<1>1. CASE MoveRule
  <2>1. PICK from, to \in DOMAIN template.rules : Plain([template EXCEPT !.rules = MoveTo(template.rules, from, to)])
    BY <1>1 DEF MoveRule
  <2>2. IsList(MoveTo(template.rules, from, to))
    BY <1>0, ListOperators
  <2> QED
    BY <1>a, <1>c, <2>1, <2>2
<1>2. CASE FreedomStrategy
  <2>1. \E part : Plain([template EXCEPT !.outbounds = part])
    BY <1>2 DEF FreedomStrategy
  <2> QED
    BY <1>a, <1>d, <2>1
<1>3. CASE BasicLists
  <2>1. \A tag, property, data : IsTemplate(ruleSetter(template, tag, property, data))
    BY SettersKeep
  <2>2. \A tag, property, data, outbound : IsTemplate(syncOutbound(ruleSetter(template, tag, property, data), outbound))
    BY <2>1, SettersKeep
  <2>3. PICK data \in Lists :
          \/ \E property \in {"ip", "protocol"} : ByHand(ruleSetter(template, "blocked", property, data), {"blocked"})
          \/ Plain(syncOutbound(ruleSetter(template, "direct", "ip", data), directSettings))
          \/ Plain(syncOutbound(ruleSetter(template, "IPv4", "domain", data), ipv4Settings))
          \/ Plain(ruleSetter(template, "warp", "domain", data))
          \/ Plain(ruleSetter(template, nordTag, "domain", data))
    BY <1>3 DEF BasicLists
  <2> QED
    BY <1>a, <1>b, <2>1, <2>2, <2>3
<1>4. CASE General
  BY <1>4, <1>a, <1>d DEF General
<1>5. CASE onObsTextChange
  <2>1. \E part : Plain([template EXCEPT !.observatory = part]) \/ Plain([template EXCEPT !.burstObservatory = part])
    BY <1>5 DEF onObsTextChange
  <2> QED
    BY <1>a, <1>d, <2>1
<1>6. CASE toggleDNS
  <2> DEFINE t == [template EXCEPT !.dns = IF DnsOn(template) THEN <<>> ELSE NewDns, !.fakedns = <<>>]
  <2>1. IsTemplate(t)
    <3> DEFINE dns == IF DnsOn(template) THEN <<>> ELSE NewDns
               u == [template EXCEPT !.dns = dns]
    <3>1. dns = <<>> \/ ("hosts" \in DOMAIN dns /\ dns.hosts = <<>>)
      BY DEF NewDns
    <3> HIDE DEF dns
    <3>2. IsTemplate(u) /\ {"rules", "dns"} \subseteq DOMAIN u
      BY <1>0, <1>e, <3>1, EmptyIsList
    <3>3. DOMAIN t = DOMAIN u /\ t.rules = u.rules /\ t.dns = u.dns
      BY <1>0 DEF dns
    <3> HIDE DEF u, t
    <3> QED
      BY <3>2, <3>3, RulesKept
  <2>2. Plain(t)
    BY <1>6 DEF toggleDNS
  <2> HIDE DEF t
  <2> QED
    BY <1>a, <2>1, <2>2
<1>7. CASE EditHosts
  <2>1. PICK rows : syncHosts(rows) /\ IsList(rows)
    BY <1>7, RowsAreList
  <2>2. \E t : Mutate(t) /\ t = [template EXCEPT !.dns.hosts = hostsObject(rows)]
    BY <2>1 DEF syncHosts
  <2>3. UNCHANGED dialog /\ DnsOn(template)
    BY <2>1 DEF syncHosts
  <2>4. IsTemplate([template EXCEPT !.dns.hosts = hostsObject(rows)])
    BY <2>1, <2>3, HostsReplaced
  <2> QED
    BY <2>2, <2>3, <2>4 DEF Writes
<1>8. CASE setDnsField
  <2>1. PICK dns \in DnsFields(template.dns) : Plain([template EXCEPT !.dns = dns])
    BY <1>8 DEF setDnsField
  <2>2. "hosts" \in DOMAIN template.dns /\ IsList(template.dns.hosts)
    BY <1>8 DEF setDnsField, DnsOn, IsTemplate
  <2>3. "hosts" \in DOMAIN dns /\ dns.hosts = template.dns.hosts
    BY <2>2 DEF DnsFields, Without, With
  <2> QED
    BY <1>a, <1>e, <2>1, <2>2, <2>3
<1>9. CASE deleteServer
  <2>1. PICK servers : Plain(PutServers(servers))
    BY <1>9 DEF deleteServer
  <2> QED
    BY <1>a, <2>1, ServersReplaced
<1>10. CASE EditFakedns
  <2>1. \E pools : Plain([template EXCEPT !.fakedns = pools])
    BY <1>10 DEF EditFakedns
  <2> QED
    BY <1>a, <1>d, <2>1
<1>11. CASE onAdvancedTextChange
  <2>1. CASE \E outbounds \in Slices : \E tags : ByHand([template EXCEPT !.outbounds = outbounds], tags)
    BY <1>b, <1>d, <2>1
  <2>2. CASE \E rules \in RuleSlices : \E tags : ByHand([template EXCEPT !.rules = rules], tags)
    BY <1>b, <1>c, <2>2, EditorAssumption
  <2> QED
    BY <1>11, <2>1, <2>2 DEF onAdvancedTextChange
<1> QED
  BY <1>1, <1>2, <1>3, <1>4, <1>5, <1>6, <1>7, <1>8, <1>9, <1>10, <1>11 DEF Tabs

\* Confirming a dialog writes a template or nothing.
LEMMA ConfirmsWrite ==
  ASSUME IsTemplate(template), DialogOK, Confirms
  PROVE  (Writes \/ UNCHANGED draftVars) /\ DialogOK'
<1>0. IsList(template.rules) /\ "rules" \in DOMAIN template
  BY DEF IsTemplate
<1>a. ASSUME NEW t, NEW tags, Confirmed(t, tags), IsTemplate(t)
      PROVE  Writes /\ DialogOK'
  BY <1>a DEF Confirmed, Write, Writes, DialogOK, IsDialog
<1>b. ASSUME NEW kind, NEW index, NEW value, Opens(kind, index, value), kind # "rule"
      PROVE  UNCHANGED draftVars /\ DialogOK'
  BY <1>b DEF Opens, Dialog, DialogOK, IsDialog
<1>c. ASSUME NEW rules, IsList(rules)
      PROVE  IsTemplate([template EXCEPT !.rules = rules])
  BY <1>0, <1>c, RulesReplaced
<1>d. ASSUME In("rule")
      PROVE  dialog.index \in Nat
  BY <1>d DEF In, DialogOK, IsDialog, NoDialog
<1>e. ASSUME NEW servers
      PROVE  IsTemplate(PutServers(servers))
  BY ServersReplaced
<1>1. CASE onRuleConfirm
  <2>1. PICK rule : Confirmed([template EXCEPT !.rules = PutAt(template.rules, dialog.index, rule)], {})
    BY <1>1 DEF onRuleConfirm
  <2>2. dialog.index \in Nat
    BY <1>1, <1>d DEF onRuleConfirm
  <2>3. IsList(PutAt(template.rules, dialog.index, rule))
    BY <1>0, <2>2, ListOperators
  <2> QED
    BY <1>a, <1>c, <2>1, <2>3
<1>2. CASE confirmDeleteRule
  <2>1. CASE \E i \in DOMAIN template.rules : Opens("deleteRule", i, <<>>)
    BY <1>b, <2>1
  <2>2. CASE Confirmed([template EXCEPT !.rules = RemoveIndex(template.rules, dialog.index)], {})
    <3>1. IsList(RemoveIndex(template.rules, dialog.index))
      BY <1>0, ListOperators
    <3> QED
      BY <1>a, <1>c, <2>2, <3>1
  <2> QED
    BY <1>2, <2>1, <2>2 DEF confirmDeleteRule
<1>3. CASE onBalancerConfirm
  <2>1. PICK form : Confirmed(PutBalancer(template, dialog.index, balancerWire(form)), {})
    BY <1>3 DEF onBalancerConfirm
  <2>3. IsTemplate(PutBalancer(template, dialog.index, balancerWire(form)))
    BY SettersKeep
  <2> QED
    BY <1>a, <2>1, <2>3
<1>4. CASE confirmDeleteBalancer
  <2>1. CASE \E i \in DOMAIN template.balancers : Opens("deleteBalancer", i, <<>>)
    BY <1>b, <2>1
  <2>2. CASE \E gone : Confirmed(syncObservatories([template EXCEPT !.balancers = RemoveIndex(@, dialog.index)]), gone)
    <3> DEFINE t == [template EXCEPT !.balancers = RemoveIndex(@, dialog.index)]
    <3>1. IsTemplate(t)
      BY <1>0 DEF IsTemplate
    <3> HIDE DEF t
    <3>2. IsTemplate(syncObservatories(t))
      BY <3>1, SettersKeep
    <3>3. \E gone : Confirmed(syncObservatories(t), gone)
      BY <2>2 DEF t
    <3> QED
      BY <1>a, <3>2, <3>3
  <2> QED
    BY <1>4, <2>1, <2>2 DEF confirmDeleteBalancer
<1>5. CASE onServerConfirm
  <2>1. \E servers : Confirmed(IF DnsOn(template) THEN PutServers(servers) ELSE template, {})
    BY <1>5 DEF onServerConfirm
  <2> QED
    BY <1>a, <1>e, <2>1
<1>6. CASE clearAllServers
  BY <1>6, <1>a, <1>b, <1>e DEF clearAllServers
<1>7. CASE onPresetInstall
  BY <1>7, <1>a, <1>b, <1>e DEF onPresetInstall
<1> QED
  BY <1>1, <1>2, <1>3, <1>4, <1>5, <1>6, <1>7 DEF Confirms

\* The draft has changed behind a dialog.
LEMMA DialogsAge ==
  ASSUME DialogOK
  PROVE  (dialog' = dialog \/ dialog' = NoDialog \/ dialog' = Overtaken(dialog)) => DialogOK'
<1>1. CASE dialog = NoDialog
  BY <1>1 DEF DialogOK, IsDialog, Overtaken, NoDialog
<1>2. CASE dialog # NoDialog
  <2>1. PICK kind, index, value, fresh :
           dialog = [kind |-> kind, index |-> index, value |-> value, fresh |-> fresh] /\ (kind = "rule" => index \in Nat)
    BY <1>2 DEF DialogOK, IsDialog
  <2> DEFINE aged == [dialog EXCEPT !.fresh = FALSE]
  <2>a. aged = [x \in {"kind", "index", "value", "fresh"} |-> IF x = "fresh" THEN FALSE ELSE dialog[x]]
    BY <2>1
  <2>b. aged = [x \in {"kind", "index", "value", "fresh"} |-> aged[x]]
    BY <2>a
  <2>c. aged.kind = kind /\ aged.index = index /\ aged.value = value
    BY <2>1
  <2> HIDE DEF aged
  <2>2. aged = [kind |-> kind, index |-> index, value |-> value, fresh |-> aged.fresh]
    BY <2>b, <2>c
  <2>3. IsDialog(aged) /\ IsDialog(dialog) /\ IsDialog(NoDialog)
    BY <2>1, <2>2 DEF IsDialog
  <2>4. IsDialog(Overtaken(dialog))
    BY <2>3 DEF Overtaken, aged
  <2> QED
    BY <2>3, <2>4 DEF DialogOK, IsDialog
<1> QED
  BY <1>1, <1>2

\* An answer of WARP or Nord writes a template or nothing.
LEMMA AnswersWrite ==
  ASSUME IsTemplate(template), DialogOK, Warp \/ Nord
  PROVE  (Writes \/ Ask \/ UNCHANGED draftVars) /\ DialogOK'
<1>0. IsList(template.rules) /\ "rules" \in DOMAIN template
  BY DEF IsTemplate
<1>a. ASSUME NEW t, NEW tags, Confirmed(t, tags), IsTemplate(t)
      PROVE  Writes /\ DialogOK'
  BY <1>a DEF Confirmed, Write, Writes, DialogOK, IsDialog
<1>b. ASSUME NEW t, Answer(t), IsTemplate(t)
      PROVE  Writes
  BY <1>b DEF Answer, Answered, Writes
<1>c. ASSUME NEW part
      PROVE  IsTemplate([template EXCEPT !.outbounds = part])
  BY <1>0 DEF IsTemplate
<1>d. (dialog' = dialog \/ dialog' = NoDialog \/ dialog' = Overtaken(dialog)) => DialogOK'
  BY DialogsAge
<1>1. CASE AskWarp \/ AskNord
  BY <1>1, <1>d DEF AskWarp, AskNord
<1>2. CASE WarpStaged \/ AskFailed \/ loginNord
  BY <1>2, <1>d DEF WarpStaged, AskFailed, loginNord
<1>3. CASE delConfig
  <2>1. Answer([template EXCEPT !.outbounds = RemoveIndex(@, WarpIndex)])
    BY <1>3 DEF delConfig
  <2>2. dialog' = NoDialog \/ dialog' = Overtaken(dialog)
    BY <1>3 DEF delConfig
  <2> QED
    BY <1>b, <1>c, <1>d, <2>1, <2>2
<1>4. CASE addWarp
  BY <1>4, <1>a, <1>c DEF addWarp
<1>5. CASE resetWarp
  BY <1>5, <1>a, <1>c DEF resetWarp
<1>6. CASE logout
  <2> DEFINE kept == {i \in DOMAIN template.rules : OutboundOf(template.rules[i]) \notin NordTags}
             t == [template EXCEPT !.outbounds = RemoveIndex(@, asked.index), !.rules = Among(@, kept)]
  <2>1. Answer(t) /\ dialog' = Overtaken(dialog)
    BY <1>6 DEF logout
  <2>2. kept \in SUBSET (1 .. Len(template.rules)) /\ Len(template.rules) \in Nat
    BY <1>0, ListIs
  <2>3. IsList(Among(template.rules, kept))
    <3> HIDE DEF kept
    <3> QED
      BY <2>2, AmongIsList
  <2>4. "rules" \in DOMAIN t /\ t.rules = Among(template.rules, kept)
    BY <1>0
  <2>5. IsTemplate(t)
    BY <2>3, <2>4 DEF IsTemplate
  <2> HIDE DEF t
  <2> QED
    BY <1>b, <1>d, <2>1, <2>5
<1>7. CASE PickNord
  <2>1. PICK tag, part : Confirmed([template EXCEPT !.outbounds = part], {}) \/ Confirmed(resetNord(template, tag), {})
    BY <1>7 DEF PickNord
  <2>2. IsTemplate(resetNord(template, tag))
    BY SettersKeep
  <2> QED
    BY <1>a, <1>c, <2>1, <2>2
<1> QED
  BY <1>1, <1>2, <1>3, <1>4, <1>5, <1>6, <1>7 DEF Warp, Nord

\* Opening and closing a dialog leaves the draft alone.
LEMMA DialogsOpen ==
  ASSUME IsTemplate(template), DialogOK, Dialogs
  PROVE  UNCHANGED draftVars /\ DialogOK'
<1>a. ASSUME NEW kind, NEW index, NEW value, Opens(kind, index, value), kind = "rule" => index \in Nat
      PROVE  UNCHANGED draftVars /\ DialogOK'
  BY <1>a DEF Opens, Dialog, DialogOK, IsDialog
<1>1. CASE openRule
  <2>1. CASE Opens("rule", 0, <<>>)
    BY <1>a, <2>1
  <2>2. CASE \E i \in DOMAIN template.rules : Opens("rule", i, template.rules[i])
    <3>1. PICK i \in DOMAIN template.rules : Opens("rule", i, template.rules[i])
      BY <2>2
    <3>2. i \in Nat
      BY ListIs DEF IsTemplate
    <3> QED
      BY <1>a, <3>1, <3>2
  <2> QED
    BY <1>1, <2>1, <2>2 DEF openRule
<1>2. CASE openBalancer
  BY <1>2, <1>a DEF openBalancer
<1>3. CASE openServer
  BY <1>3, <1>a DEF openServer
<1>4. CASE openWarp
  BY <1>4 DEF openWarp, Dialog, DialogOK, IsDialog
<1>5. CASE openNord
  BY <1>5, <1>a DEF openNord
<1>6. CASE Close
  BY <1>6 DEF Close, DialogOK, IsDialog
<1> QED
  BY <1>1, <1>2, <1>3, <1>4, <1>5, <1>6 DEF Dialogs

-----------------------------------------------------------------------------
\* The hosts of a draft: an object as the rows of the tab write it.

\* A set of places that is not empty has a last one.
LEMMA Greatest ==
  ASSUME NEW n \in Nat, NEW S \in SUBSET (1 .. n), S # {}
  PROVE  \E i \in S : \A j \in S : j <= i
<1> DEFINE T == {n - i : i \in S}
<1>0. \A i \in S : i \in 1 .. n /\ n - i \in Nat
  OBVIOUS
<1>1. T \in SUBSET Nat /\ T # {}
  BY <1>0
<1>2. PICK x \in T : \A y \in T : x <= y
  BY <1>1, Least
<1>3. PICK i \in S : x = n - i
  BY <1>2
<1>4. \A j \in S : n - j \in T
  OBVIOUS
<1> HIDE DEF T
<1>5. \A j \in S : n - i <= n - j
  BY <1>2, <1>3, <1>4
<1>6. \A j \in S : j <= i
  BY <1>0, <1>5
<1> QED
  BY <1>6

Rank(S, i) == Cardinality({j \in S : j <= i})

\* Every rank in a set of numbers is that of one of them.
LEMMA Ranked ==
  ASSUME NEW n \in Nat, NEW S \in SUBSET (1 .. n), NEW k \in 1 .. Cardinality(S)
  PROVE  \E i \in S : Rank(S, i) = k
<1> DEFINE Upto(i) == {j \in S : j <= i}
           T == {i \in 0 .. n : Cardinality(Upto(i)) >= k}
<1>0. IsFiniteSet(1 .. n)
  BY FS_Interval
<1>1. IsFiniteSet(S) /\ Cardinality(S) \in Nat
  BY <1>0, FS_Subset, FS_CardinalityType
<1>2. \A i \in 0 .. n : Upto(i) \subseteq S
  OBVIOUS
<1>3. \A i \in 0 .. n : IsFiniteSet(Upto(i)) /\ Cardinality(Upto(i)) \in Nat
  BY <1>1, <1>2, FS_Subset, FS_CardinalityType
<1>b. \A j \in S : j \in Nat /\ 1 <= j /\ j <= n
  OBVIOUS
<1>4. Upto(n) = S /\ Upto(0) = {} /\ n \in 0 .. n /\ 0 \in 0 .. n
  <2>1. Upto(n) = S
    BY <1>b
  <2>2. \A j \in S : ~(j <= 0)
    BY <1>b
  <2>3. Upto(0) = {}
    BY <2>2
  <2>4. n \in 0 .. n /\ 0 \in 0 .. n
    OBVIOUS
  <2> QED
    BY <2>1, <2>3, <2>4
<1>a. Cardinality({}) = 0
  BY FS_EmptySet
<1> HIDE DEF Upto
<1>5. n \in T /\ 0 \notin T /\ T \in SUBSET Nat
  BY <1>1, <1>4, <1>a
<1>6. PICK m \in T : \A i \in T : m <= i
  BY <1>5, Least
<1>7. m \in 1 .. n /\ m - 1 \in 0 .. n /\ m - 1 \notin T
  <2>1. m \in 0 .. n /\ m # 0
    BY <1>5, <1>6
  <2>2. m - 1 \in Nat /\ ~(m <= m - 1)
    BY <2>1
  <2> QED
    BY <1>6, <2>1, <2>2
<1>8. Cardinality(Upto(m - 1)) < k /\ Cardinality(Upto(m)) >= k
  BY <1>3, <1>6, <1>7
<1>9. CASE m \notin S
  <2>1. \A j \in S : j <= m <=> j <= m - 1
    BY <1>7, <1>9, <1>b
  <2>2. Upto(m) = Upto(m - 1)
    BY <2>1 DEF Upto
  <2> QED
    BY <1>3, <1>7, <1>8, <2>2
<1>10. CASE m \in S
  <2>0. (\A j \in S : j <= m <=> (j <= m - 1 \/ j = m)) /\ m <= m /\ ~(m <= m - 1)
    BY <1>7, <1>b
  <2>1. Upto(m) = Upto(m - 1) \cup {m} /\ m \notin Upto(m - 1)
    BY <1>10, <2>0 DEF Upto
  <2>2. IsFiniteSet(Upto(m - 1)) /\ Cardinality(Upto(m - 1)) \in Nat
    BY <1>3, <1>7
  <2>3. Cardinality(Upto(m)) = Cardinality(Upto(m - 1)) + 1
    BY <2>1, <2>2, FS_AddElement
  <2>4. Cardinality(Upto(m)) = k
    BY <1>8, <2>2, <2>3
  <2> QED
    BY <1>10, <2>4 DEF Upto, Rank
<1> QED
  BY <1>9, <1>10

\* Among has one element per place kept, and the k-th is the one of rank k.
LEMMA AmongIs ==
  ASSUME NEW list, NEW n \in Nat, NEW S \in SUBSET (1 .. n)
  PROVE  /\ Cardinality(S) \in Nat /\ DOMAIN Among(list, S) = 1 .. Cardinality(S)
         /\ \A k \in 1 .. Cardinality(S) : \E i \in S : Among(list, S)[k] = list[i] /\ Rank(S, i) = k
<1>0. IsFiniteSet(1 .. n)
  BY FS_Interval
<1>1. Cardinality(S) \in Nat
  BY <1>0, FS_Subset, FS_CardinalityType
<1>2. DOMAIN Among(list, S) = 1 .. Cardinality(S)
  BY DEF Among
<1>3. ASSUME NEW k \in 1 .. Cardinality(S)
      PROVE  \E i \in S : Among(list, S)[k] = list[i] /\ Rank(S, i) = k
  <2> DEFINE at == CHOOSE i \in S : Rank(S, i) = k
  <2>0. \E i \in S : Rank(S, i) = k
    BY Ranked
  <2>1. at \in S /\ Rank(S, at) = k
    BY <2>0
  <2>2. Among(list, S)[k] = list[at]
    BY DEF Among, Rank
  <2> HIDE DEF at
  <2> QED
    BY <2>1, <2>2
<1> QED
  BY <1>1, <1>2, <1>3

\* Keeping every place keeps the list.
LEMMA AmongAll ==
  ASSUME NEW n \in Nat, NEW list, list = [i \in 1 .. n |-> list[i]]
  PROVE  Among(list, 1 .. n) = list
<1>1. Cardinality(1 .. n) = n
  BY FS_Interval
<1>2. ASSUME NEW i \in 1 .. n
      PROVE  Rank(1 .. n, i) = i
  <2>1. {j \in 1 .. n : j <= i} = 1 .. i
    OBVIOUS
  <2>2. Cardinality(1 .. i) = i
    BY FS_Interval
  <2> QED
    BY <2>1, <2>2 DEF Rank
<1>3. 1 .. n \in SUBSET (1 .. n)
  OBVIOUS
<1>4. \A k \in 1 .. n : \E i \in 1 .. n : Among(list, 1 .. n)[k] = list[i] /\ Rank(1 .. n, i) = k
  <2> DEFINE S == 1 .. n
  <2>1. Cardinality(S) = n /\ S \in SUBSET (1 .. n)
    BY <1>1
  <2> HIDE DEF S
  <2>2. \A k \in 1 .. Cardinality(S) : \E i \in S : Among(list, S)[k] = list[i] /\ Rank(S, i) = k
    BY <2>1, AmongIs
  <2> QED
    BY <2>1, <2>2 DEF S
<1>5. \A k \in 1 .. n : Among(list, 1 .. n)[k] = list[k]
  BY <1>2, <1>4
<1>6. Among(list, 1 .. n) = [k \in 1 .. n |-> Among(list, 1 .. n)[k]]
  BY <1>1 DEF Among
<1> QED
  BY <1>5, <1>6

\* What is written is finished and has each domain once.
LEMMA HostsAreProper ==
  ASSUME NEW rows, IsList(rows)
  PROVE  \E m \in Nat :
           /\ hostsObject(rows) = [k \in 1 .. m |-> hostsObject(rows)[k]]
           /\ \A k \in 1 .. m : Finished(hostsObject(rows)[k])
           /\ \A k, l \in 1 .. m : hostsObject(rows)[k].domain = hostsObject(rows)[l].domain => k = l
<1> DEFINE Same(i) == RowsOf(rows, rows[i].domain)
           kept == {i \in DOMAIN rows : Finished(rows[i]) /\ \A k \in Same(i) : i <= k}
           last(i) == CHOOSE j \in Same(i) : \A k \in Same(i) : k <= j
           list == [i \in kept |-> rows[last(i)]]
           h == hostsObject(rows)
<1>1. Len(rows) \in Nat /\ DOMAIN rows = 1 .. Len(rows)
  BY ListIs
<1>2. h = Among(list, kept)
  BY DEF hostsObject
<1>3. kept \in SUBSET (1 .. Len(rows))
  BY <1>1
<1>4. ASSUME NEW i \in kept
      PROVE  Finished(list[i]) /\ list[i].domain = rows[i].domain
  <2>1. i \in Same(i) /\ Same(i) \in SUBSET (1 .. Len(rows))
    BY <1>1, <1>4 DEF RowsOf
  <2>2. \E j \in Same(i) : \A k \in Same(i) : k <= j
    <3> HIDE DEF Same
    <3> QED
      BY <1>1, <2>1, Greatest
  <2>3. last(i) \in Same(i)
    BY <2>2
  <2>4. list[i] = rows[last(i)]
    BY <1>4
  <2> HIDE DEF last, list, kept
  <2> QED
    BY <2>3, <2>4 DEF RowsOf
<1>5. \A i, j \in kept : rows[i].domain = rows[j].domain => i = j
  <2> SUFFICES ASSUME NEW i \in kept, NEW j \in kept, rows[i].domain = rows[j].domain
               PROVE  i = j
    OBVIOUS
  <2>1. i \in Same(j) /\ j \in Same(i)
    BY DEF RowsOf
  <2>2. i <= j /\ j <= i /\ i \in Nat /\ j \in Nat
    BY <1>1, <2>1
  <2> QED
    BY <2>2
<1> DEFINE m == Cardinality(kept)
<1> HIDE DEF kept, list, h
<1>6. m \in Nat /\ DOMAIN h = 1 .. m
  BY <1>1, <1>2, <1>3, AmongIs
<1>7. \A k \in 1 .. m : \E i \in kept : h[k] = list[i] /\ Rank(kept, i) = k
  <2>1. \A k \in 1 .. Cardinality(kept) : \E i \in kept : Among(list, kept)[k] = list[i] /\ Rank(kept, i) = k
    BY <1>1, <1>3, AmongIs
  <2> QED
    BY <1>2, <2>1
<1>8. \A k \in 1 .. m : Finished(h[k])
  BY <1>4, <1>7
<1>9. \A k, l \in 1 .. m : h[k].domain = h[l].domain => k = l
  <2> SUFFICES ASSUME NEW k \in 1 .. m, NEW l \in 1 .. m, h[k].domain = h[l].domain
               PROVE  k = l
    OBVIOUS
  <2>1. PICK i \in kept : h[k] = list[i] /\ Rank(kept, i) = k
    BY <1>7
  <2>2. PICK j \in kept : h[l] = list[j] /\ Rank(kept, j) = l
    BY <1>7
  <2>3. i = j
    BY <1>4, <1>5, <2>1, <2>2
  <2> QED
    BY <2>1, <2>2, <2>3
<1>10. h = [k \in 1 .. m |-> h[k]]
  BY <1>2, <1>6 DEF Among, m
<1> HIDE DEF m
<1> QED
  BY <1>6, <1>8, <1>9, <1>10 DEF h

\* Such a list is written as it is.
LEMMA ProperIsKept ==
  ASSUME NEW m \in Nat, NEW h, h = [k \in 1 .. m |-> h[k]], \A k \in 1 .. m : Finished(h[k]),
         \A k, l \in 1 .. m : h[k].domain = h[l].domain => k = l
  PROVE  hostsObject(h) = h
<1> DEFINE Same(i) == RowsOf(h, h[i].domain)
           kept == {i \in DOMAIN h : Finished(h[i]) /\ \A k \in Same(i) : i <= k}
           last(i) == CHOOSE j \in Same(i) : \A k \in Same(i) : k <= j
           list == [i \in kept |-> h[last(i)]]
<1>1. DOMAIN h = 1 .. m
  OBVIOUS
<1>2. \A i \in 1 .. m : Same(i) = {i}
  BY <1>1 DEF RowsOf
<1>3. kept = 1 .. m
  <2>1. \A i \in 1 .. m : i <= i
    OBVIOUS
  <2> HIDE DEF Same
  <2> QED
    BY <1>1, <1>2, <2>1
<1>4. \A i \in 1 .. m : last(i) = i
  <2> TAKE i \in 1 .. m
  <2> HIDE DEF Same
  <2>0. Same(i) = {i}
    BY <1>2
  <2>1. i <= i
    OBVIOUS
  <2>2. last(i) \in Same(i)
    BY <2>0, <2>1
  <2> QED
    BY <2>0, <2>2
<1>5. hostsObject(h) = Among(list, kept)
  BY DEF hostsObject
<1>6. list = h
  <2> HIDE DEF kept, last
  <2>1. list = [i \in 1 .. m |-> h[i]]
    BY <1>3, <1>4
  <2> QED
    BY <2>1
<1> HIDE DEF list, kept
<1>7. Among(h, 1 .. m) = h
  BY AmongAll
<1> QED
  BY <1>3, <1>5, <1>6, <1>7

\* Writing rows as an object twice is writing them once.
LEMMA HostsOnce ==
  ASSUME NEW rows, IsList(rows)
  PROVE  hostsObject(hostsObject(rows)) = hostsObject(rows)
<1> DEFINE h == hostsObject(rows)
<1>1. PICK m \in Nat : /\ h = [k \in 1 .. m |-> h[k]]
                       /\ \A k \in 1 .. m : Finished(h[k])
                       /\ \A k, l \in 1 .. m : h[k].domain = h[l].domain => k = l
  BY HostsAreProper
<1> HIDE DEF h
<1>2. hostsObject(h) = h
  BY <1>1, ProperIsKept
<1> QED
  BY <1>2 DEF h

-----------------------------------------------------------------------------
\* The rows of the DNS tab.

RowsOK == IsList(hostsList) /\ HostsAreShown

\* When DNS is switched the rows are made from the draft.
LEMMA RowsFollow ==
  ASSUME RowsOK, IsTemplate(template'), HostsFollow(template')
  PROVE  RowsOK'
<1>1. CASE DnsOn(template') # DnsOn(template)
  <2>1. hostsList' = HostsOf(template')
    BY <1>1 DEF HostsFollow
  <2>2. IsList(HostsOf(template'))
    BY EmptyIsList DEF HostsOf, DnsOn, IsTemplate
  <2>3. DnsOn(template') => HostsOf(template') = template'.dns.hosts
    BY DEF HostsOf
  <2> QED
    BY <2>1, <2>2, <2>3 DEF RowsOK, HostsAreShown
<1>2. CASE DnsOn(template') = DnsOn(template)
  <2>1. hostsList' = hostsList /\ outside' = (outside \/ HostsOf(template') # HostsOf(template))
    BY <1>2 DEF HostsFollow
  <2>2. CASE ~DnsOn(template')
    BY <2>1, <2>2 DEF RowsOK, HostsAreShown
  <2>3. CASE DnsOn(template')
    <3>1. HostsOf(template') = template'.dns.hosts /\ HostsOf(template) = template.dns.hosts /\ DnsOn(template)
      BY <1>2, <2>3 DEF HostsOf
    <3>2. ~outside' => ~outside /\ template'.dns.hosts = template.dns.hosts
      BY <2>1, <3>1
    <3>3. ~outside' => hostsObject(hostsList') = hostsObject(template'.dns.hosts)
      BY <2>1, <3>1, <3>2 DEF RowsOK, HostsAreShown
    <3> QED
      BY <2>1, <3>3 DEF RowsOK, HostsAreShown
  <2> QED
    BY <2>2, <2>3
<1> QED
  BY <1>1, <1>2

\* Rows stay true while neither they nor the draft change.
LEMMA RowsStand ==
  ASSUME RowsOK, UNCHANGED <<template, hostsList, outside>>
  PROVE  RowsOK'
BY DEF RowsOK, HostsAreShown

\* An edit of a row writes back what the rows say.
LEMMA RowsEdited ==
  ASSUME RowsOK, IsTemplate(template), EditHosts
  PROVE  RowsOK'
<1>1. PICK rows : syncHosts(rows) /\ IsList(rows)
  BY RowsAreList DEF RowsOK
<1>2. DnsOn(template) /\ template' = [template EXCEPT !.dns.hosts = hostsObject(rows)] /\ hostsList' = rows
  BY <1>1 DEF syncHosts, Mutate, SetTemplate
<1>3. template'.dns.hosts = hostsObject(rows)
  BY <1>1, <1>2, HostsReplaced
<1>4. hostsObject(hostsList') = hostsObject(template'.dns.hosts)
  BY <1>1, <1>2, <1>3, HostsOnce
<1> QED
  BY <1>1, <1>2, <1>4 DEF RowsOK, HostsAreShown

\* Every step of the page keeps the rows true, or notes who changed the hosts.
LEMMA RowsStay ==
  ASSUME RowsOK, IsTemplate(template), IsTemplate(template'), [EditorNext]_vars
  PROVE  RowsOK'
<1>a. (HostsFollow(template') \/ UNCHANGED <<template, hostsList, outside>>) => RowsOK'
  BY RowsFollow, RowsStand
<1>b. ASSUME NEW t, Write(t)
      PROVE  HostsFollow(template')
  <2>1. template' = t
    BY <1>b DEF Write, Mutate, SetTemplate
  <2> QED
    BY <1>b, <2>1 DEF Write
<1>c. ASSUME NEW t, Answer(t)
      PROVE  HostsFollow(template')
  <2>1. template' = t
    BY <1>c DEF Answer, SetTemplate
  <2> QED
    BY <1>c, <2>1 DEF Answer
<1>d. ASSUME NEW t, NEW tags, Plain(t) \/ ByHand(t, tags) \/ Confirmed(t, tags)
      PROVE  RowsOK'
  BY <1>a, <1>b, <1>d DEF Plain, ByHand, Confirmed
<1>e. ASSUME NEW kind, NEW index, NEW value, Opens(kind, index, value)
      PROVE  RowsOK'
  BY <1>a, <1>e DEF Opens, draftVars
<1>1. CASE Dialogs
  <2>1. CASE openRule \/ openBalancer \/ openServer \/ openNord
    BY <1>e, <2>1 DEF openRule, openBalancer, openServer, openNord
  <2>2. CASE openWarp \/ Close
    BY <1>a, <2>2 DEF openWarp, Close, draftVars
  <2> QED
    BY <1>1, <2>1, <2>2 DEF Dialogs
<1>2. CASE Tabs
  <2>1. CASE MoveRule \/ FreedomStrategy \/ BasicLists \/ General
    BY <1>d, <2>1 DEF MoveRule, FreedomStrategy, BasicLists, General
  <2>2. CASE onObsTextChange \/ toggleDNS \/ setDnsField \/ deleteServer \/ EditFakedns \/ onAdvancedTextChange
    BY <1>d, <2>2 DEF onObsTextChange, toggleDNS, setDnsField, deleteServer, EditFakedns, onAdvancedTextChange
  <2>3. CASE EditHosts
    BY <2>3, RowsEdited
  <2> QED
    BY <1>2, <2>1, <2>2, <2>3 DEF Tabs
<1>3. CASE Confirms
  BY <1>3, <1>d, <1>e DEF Confirms, onRuleConfirm, confirmDeleteRule, onBalancerConfirm, confirmDeleteBalancer, onServerConfirm, clearAllServers, onPresetInstall
<1>4. CASE Warp \/ Nord
  <2>1. CASE AskWarp \/ AskNord
    BY <1>a, <2>1 DEF AskWarp, AskNord, Ask
  <2>2. CASE WarpStaged \/ AskFailed \/ loginNord
    BY <1>a, <2>2 DEF WarpStaged, AskFailed, loginNord, draftVars
  <2>3. CASE delConfig \/ logout
    BY <1>a, <1>c, <2>3 DEF delConfig, logout
  <2>4. CASE addWarp \/ resetWarp \/ PickNord
    BY <1>d, <2>4 DEF addWarp, resetWarp, PickNord
  <2> QED
    BY <1>4, <2>1, <2>2, <2>3, <2>4 DEF Warp, Nord
<1>5. CASE TypeJson \/ DefaultShown
  BY <1>5, <1>a DEF TypeJson, DefaultShown
<1>6. CASE Press
  BY <1>6, <1>a DEF Press, onSaveAll, resetToDefault, editorVars
<1>7. CASE Background
  BY <1>7, <1>a DEF Background, updateSetting, SaveAnswered, SaveFailed, getXraySetting, Poll, fetchAll, editorVars
\* The rows are made before the draft is seeded.
<1>8. CASE Refetched
  <2>1. CASE fetchError /\ DnsOn(template) = DnsOn(template')
    <3>1. hostsList' = HostsOf(template) /\ outside' = (HostsOf(template) # HostsOf(template'))
      BY <1>8, <2>1 DEF Refetched
    <3>2. IsList(HostsOf(template))
      BY EmptyIsList DEF HostsOf, DnsOn, IsTemplate
    <3>3. DnsOn(template') => HostsOf(template') = template'.dns.hosts
      BY DEF HostsOf
    <3> QED
      BY <3>1, <3>2, <3>3 DEF RowsOK, HostsAreShown
  <2>2. CASE ~(fetchError /\ DnsOn(template) = DnsOn(template'))
    BY <1>8, <1>a, <2>2 DEF Refetched
  <2> QED
    BY <2>1, <2>2
<1>9. CASE Unfetched
  BY <1>9, <1>a DEF Unfetched, RefetchFails
<1>10. CASE UNCHANGED vars
  BY <1>10, <1>a DEF vars, draftVars, editorVars
<1> QED
  BY <1>1, <1>2, <1>3, <1>4, <1>5, <1>6, <1>7, <1>8, <1>9, <1>10 DEF EditorNext

-----------------------------------------------------------------------------
\* The page.

\* Every step of the page is one of the draft or leaves the draft alone.
LEMMA EditorStep ==
  ASSUME IsTemplate(template), DialogOK, IsList(hostsList), [EditorNext]_vars
  PROVE  [DraftNext]_draftVars /\ DialogOK'
<1>a. (dialog' = dialog \/ dialog' = NoDialog \/ dialog' = Overtaken(dialog)) => DialogOK'
  BY DialogsAge
<1>1. CASE Dialogs
  BY <1>1, DialogsOpen
<1>2. CASE Tabs
  BY <1>2, <1>a, TabsWrite DEF DraftNext
<1>3. CASE Confirms
  BY <1>3, ConfirmsWrite DEF DraftNext
<1>4. CASE Warp \/ Nord
  BY <1>4, AnswersWrite DEF DraftNext
<1>5. CASE TypeJson
  BY <1>5, <1>a DEF TypeJson, DraftNext
<1>6. CASE Press
  BY <1>6, <1>a DEF Press, DraftNext, editorVars
<1>7. CASE Background
  BY <1>7, <1>a DEF Background, DraftNext, editorVars
<1>8. CASE DefaultShown
  BY <1>8, <1>a DEF DefaultShown, DraftNext
<1>9. CASE Refetched
  BY <1>9, <1>a DEF Refetched, DraftNext
<1>10. CASE Unfetched
  BY <1>10, <1>a DEF Unfetched, DraftNext
<1>11. CASE UNCHANGED vars
  BY <1>11, <1>a DEF vars, editorVars
<1> QED
  BY <1>1, <1>2, <1>3, <1>4, <1>5, <1>6, <1>7, <1>8, <1>9, <1>10, <1>11 DEF EditorNext

\* What the page keeps of the draft, its dialogs and its rows.
LEMMA EditorInv == EditorSpec => [](DraftInv /\ DialogOK /\ RowsOK)
<1>1. EditorInit => DraftInv /\ DialogOK /\ RowsOK
  <2> SUFFICES ASSUME EditorInit
               PROVE  DraftInv /\ DialogOK /\ RowsOK
    OBVIOUS
  <2>1. DraftInv /\ DialogOK
    BY InitInv DEF EditorInit, DialogOK, IsDialog
  <2>2. IsList(HostsOf(template)) /\ (DnsOn(template) => HostsOf(template) = template.dns.hosts)
    BY <2>1, EmptyIsList DEF HostsOf, DnsOn, IsTemplate, DraftInv, Shapes
  <2> QED
    BY <2>1, <2>2 DEF EditorInit, RowsOK, HostsAreShown
<1>2. DraftInv /\ DialogOK /\ RowsOK /\ [EditorNext]_vars => (DraftInv /\ DialogOK /\ RowsOK)'
  <2> SUFFICES ASSUME DraftInv, DialogOK, RowsOK, [EditorNext]_vars
               PROVE  (DraftInv /\ DialogOK /\ RowsOK)'
    OBVIOUS
  <2>1. [DraftNext]_draftVars /\ DialogOK'
    BY EditorStep DEF DraftInv, Shapes, RowsOK
  <2>2. DraftInv'
    BY <2>1, ShapesStay, HonestStays DEF DraftInv
  <2>3. RowsOK'
    BY <2>2, RowsStay DEF DraftInv, Shapes
  <2> QED
    BY <2>1, <2>2, <2>3
<1> QED
  BY <1>1, <1>2, PTL DEF EditorSpec

\* Every tab, dialog and late answer of the Xray page is a step of the draft:
\* it writes some template, or nothing.
THEOREM EditorIsDraft == EditorSpec => DraftSpec
<1>1. EditorInit => DraftInit
  BY DEF EditorInit
<1>2. DraftInv /\ DialogOK /\ RowsOK /\ [EditorNext]_vars => [DraftNext]_draftVars
  BY EditorStep DEF DraftInv, Shapes, RowsOK
<1> QED
  BY <1>1, <1>2, EditorInv, PTL DEF EditorSpec, DraftSpec

\* So on the page, too, a draft that counts as saved is what the panel has.
THEOREM EditorIsHonest == EditorSpec => []CleanIsStored
BY EditorIsDraft, DraftIsHonest, PTL

\* The rows of the DNS tab stand for the hosts the draft has (DnsTab's effect and
\* syncHosts), for any hosts, edits, refetches and failures: the run's property.
THEOREM HostsShown == EditorSpec => []HostsAreShown
<1>1. DraftInv /\ DialogOK /\ RowsOK => HostsAreShown
  BY DEF RowsOK
<1> QED
  BY <1>1, EditorInv, PTL

-----------------------------------------------------------------------------
\* Lists, their elements and what operators leave of them.

\* The elements of a list, by their places.
LEMMA RangeIs ==
  ASSUME NEW list, IsList(list)
  PROVE  /\ \A x : x \in Range(list) <=> \E i \in 1 .. Len(list) : list[i] = x
         /\ Len(list) \in Nat /\ DOMAIN list = 1 .. Len(list)
<1>1. Len(list) \in Nat /\ DOMAIN list = 1 .. Len(list)
  BY ListIs
<1> QED
  BY <1>1 DEF Range

\* Appending adds one element.
LEMMA AppendRange ==
  ASSUME NEW list, IsList(list), NEW item
  PROVE  Range(Append(list, item)) = Range(list) \cup {item}
<1>1. Len(list) \in Nat /\ list \in Seq(Range(list)) /\ list \in Seq(Range(list) \cup {item})
  BY ListIs DEF IsList
<1>2. /\ Len(Append(list, item)) = Len(list) + 1 /\ DOMAIN Append(list, item) = 1 .. Len(list) + 1
      /\ \A i \in 1 .. Len(list) : Append(list, item)[i] = list[i]
      /\ Append(list, item)[Len(list) + 1] = item
  BY <1>1
<1>3. \A i \in 1 .. Len(list) + 1 : i \in 1 .. Len(list) \/ i = Len(list) + 1
  BY <1>1
<1>4. \A i \in 1 .. Len(list) : i \in 1 .. Len(list) + 1
  BY <1>1
<1>5. Len(list) + 1 \in 1 .. Len(list) + 1
  BY <1>1
<1>6. \A x : x \in Range(Append(list, item)) <=> \E i \in 1 .. Len(list) + 1 : Append(list, item)[i] = x
  BY <1>2 DEF Range
<1>7. \A x \in Range(Append(list, item)) : x \in Range(list) \cup {item}
  BY <1>2, <1>3, <1>6, RangeIs
<1>8. \A x \in Range(list) \cup {item} : x \in Range(Append(list, item))
  BY <1>2, <1>4, <1>5, <1>6, RangeIs
<1> QED
  BY <1>7, <1>8

\* Putting at a place of the list, or at 0 behind its end.
LEMMA PutAtIs ==
  ASSUME NEW list, Len(list) \in Nat, NEW i \in 1 .. Len(list), NEW item
  PROVE  /\ DOMAIN PutAt(list, i, item) = 1 .. Len(list)
         /\ \A j \in 1 .. Len(list) : PutAt(list, i, item)[j] = IF j = i THEN item ELSE list[j]
<1> DEFINE len == Len(list)
           n == IF i > len THEN i ELSE len
           f == PutAt(list, i, item)
<1>0. len \in Nat /\ i \in 1 .. len /\ i # 0
  OBVIOUS
<1>1. DOMAIN f = 1 .. n /\ \A j \in 1 .. n : f[j] = IF j = i THEN item ELSE IF j <= len THEN list[j] ELSE <<>>
  BY <1>0 DEF PutAt
<1> HIDE DEF f, len
<1>2. n = len /\ \A j \in 1 .. len : j <= len
  BY <1>0
<1> HIDE DEF n
<1>3. DOMAIN f = 1 .. len /\ \A j \in 1 .. len : f[j] = IF j = i THEN item ELSE list[j]
  BY <1>1, <1>2
<1> QED
  BY <1>3 DEF f, len

\* Putting at a place loses at most what stood there.
LEMMA PutRange ==
  ASSUME NEW list, IsList(list), NEW i \in Nat, NEW item
  PROVE  i <= Len(list) => /\ Range(PutAt(list, i, item)) \subseteq Range(list) \cup {item}
                           /\ item \in Range(PutAt(list, i, item))
                           /\ \A j \in DOMAIN list \ {i} : list[j] \in Range(PutAt(list, i, item))
<1>0. Len(list) \in Nat /\ DOMAIN list = 1 .. Len(list) /\ \A j \in DOMAIN list : list[j] \in Range(list)
  BY ListIs
<1>1. CASE i = 0
  <2>1. PutAt(list, i, item) = Append(list, item)
    BY <1>1 DEF PutAt
  <2> QED
    BY <1>0, <2>1, AppendRange
<1>2. CASE i # 0 /\ i <= Len(list)
  <2> DEFINE f == PutAt(list, i, item)
  <2>1. i \in 1 .. Len(list)
    BY <1>0, <1>2
  <2>2. DOMAIN f = 1 .. Len(list) /\ \A j \in 1 .. Len(list) : f[j] = IF j = i THEN item ELSE list[j]
    BY <1>0, <2>1, PutAtIs
  <2>3. DOMAIN f = DOMAIN list /\ i \in DOMAIN list /\ \A j \in DOMAIN list : f[j] = IF j = i THEN item ELSE list[j]
    BY <1>0, <2>1, <2>2
  <2> HIDE DEF f
  <2>4. \A x : x \in Range(f) <=> \E j \in DOMAIN list : f[j] = x
    BY <2>3 DEF Range
  <2>5. Range(f) \subseteq Range(list) \cup {item}
    BY <1>0, <2>3, <2>4
  <2>6. item \in Range(f) /\ \A j \in DOMAIN list \ {i} : list[j] \in Range(f)
    BY <2>3, <2>4
  <2> QED
    BY <1>2, <2>5, <2>6 DEF f
<1> QED
  BY <1>1, <1>2

\* Removing a place moves the later ones up.
LEMMA RemoveAtIs ==
  ASSUME NEW S, NEW list \in Seq(S), NEW i \in 1 .. Len(list)
  PROVE  /\ RemoveAt(list, i) \in Seq(S) /\ Len(RemoveAt(list, i)) = Len(list) - 1
         /\ \A j \in 1 .. Len(list) - 1 : RemoveAt(list, i)[j] = IF j < i THEN list[j] ELSE list[j + 1]
<1> DEFINE a == SubSeq(list, 1, i - 1)
           b == SubSeq(list, i + 1, Len(list))
           m == Len(list)
<1>0. m \in Nat /\ i \in 1 .. m
  OBVIOUS
<1>1. a \in Seq(S) /\ Len(a) = i - 1 /\ \A j \in 1 .. i - 1 : a[j] = list[j]
  OBVIOUS
<1>2. b \in Seq(S)
  OBVIOUS
<1>3. Len(b) = m - i
  OBVIOUS
<1>4. \A j \in 1 .. m - i : b[j] = list[j + i]
  OBVIOUS
<1>5. RemoveAt(list, i) = a \o b
  BY DEF RemoveAt
<1> HIDE DEF a, b, m
<1>6. a \o b \in Seq(S) /\ Len(a \o b) = (i - 1) + (m - i)
  <2>1. a \in Seq(S) /\ b \in Seq(S)
    BY <1>1, <1>2
  <2>2. a \o b \in Seq(S) /\ Len(a \o b) = Len(a) + Len(b)
    BY <2>1
  <2> QED
    BY <1>1, <1>3, <2>2
<1>7. (i - 1) + (m - i) = m - 1
  BY <1>0
<1>8. ASSUME NEW j \in 1 .. m - 1
      PROVE  (a \o b)[j] = IF j < i THEN list[j] ELSE list[j + 1]
  <2>1. (a \o b)[j] = IF j <= Len(a) THEN a[j] ELSE b[j - Len(a)]
    BY <1>0, <1>1, <1>2, <1>3
  <2>2. CASE j < i
    <3>1. j <= i - 1 /\ j \in 1 .. i - 1
      BY <1>0, <2>2
    <3> QED
      BY <1>1, <2>1, <2>2, <3>1
  <2>3. CASE ~(j < i)
    <3>1. ~(j <= i - 1) /\ j - (i - 1) \in 1 .. m - i /\ (j - (i - 1)) + i = j + 1
      BY <1>0, <2>3
    <3>2. b[j - (i - 1)] = list[j + 1]
      BY <1>4, <3>1
    <3> QED
      BY <1>1, <2>1, <2>3, <3>1, <3>2
  <2> QED
    BY <2>2, <2>3
<1> QED
  BY <1>5, <1>6, <1>7, <1>8 DEF m

\* Removing loses at most what stood at the place.
LEMMA RemoveRange ==
  ASSUME NEW list, IsList(list), NEW i
  PROVE  /\ Range(RemoveIndex(list, i)) \subseteq Range(list)
         /\ \A j \in DOMAIN list \ {i} : list[j] \in Range(RemoveIndex(list, i))
<1>0. Len(list) \in Nat /\ DOMAIN list = 1 .. Len(list) /\ list \in Seq(Range(list)) /\ \A j \in DOMAIN list : list[j] \in Range(list)
  BY ListIs DEF IsList
<1>1. CASE i \notin DOMAIN list
  BY <1>0, <1>1 DEF RemoveIndex
<1>2. CASE i \in DOMAIN list
  <2> DEFINE f == RemoveAt(list, i)
             m == Len(list)
  <2>0. i \in 1 .. m /\ m \in Nat /\ DOMAIN list = 1 .. m
    BY <1>0, <1>2
  <2>1. /\ f \in Seq(Range(list)) /\ Len(f) = m - 1
        /\ \A j \in 1 .. m - 1 : f[j] = IF j < i THEN list[j] ELSE list[j + 1]
    BY <1>0, <2>0, RemoveAtIs
  <2> HIDE DEF f, m
  <2>2. DOMAIN f = 1 .. m - 1 /\ \A j \in DOMAIN f : f[j] \in Range(list)
    BY <2>1
  <2>3. \A x : x \in Range(f) <=> \E j \in 1 .. m - 1 : f[j] = x
    BY <2>2 DEF Range
  <2>4. \A x \in Range(f) : x \in Range(list)
    BY <2>2, <2>3
  <2>5. ASSUME NEW j \in DOMAIN list \ {i}
        PROVE  list[j] \in Range(f)
    <3>1. j \in 1 .. m /\ j # i
      BY <2>0
    <3>2. CASE j < i
      <4>1. j \in 1 .. m - 1 
        BY <2>0, <3>1, <3>2
      <4> QED
        BY <2>1, <2>3, <3>2, <4>1
    <3>3. CASE ~(j < i)
      <4>1. j - 1 \in 1 .. m - 1 /\ ~(j - 1 < i) /\ (j - 1) + 1 = j
        BY <2>0, <3>1, <3>3
      <4>2. f[j - 1] = list[j]
        BY <2>1, <4>1
      <4> QED
        BY <2>3, <4>1, <4>2
    <3> QED
      BY <3>2, <3>3
  <2> QED
    BY <1>2, <2>4, <2>5 DEF RemoveIndex, f
<1> QED
  BY <1>1, <1>2

\* Moving an element adds none.
LEMMA MoveRange ==
  ASSUME NEW list, IsList(list), NEW from \in DOMAIN list, NEW to \in DOMAIN list
  PROVE  Range(MoveTo(list, from, to)) \subseteq Range(list)
<1>0. Len(list) \in Nat /\ from \in 1 .. Len(list) /\ to \in 1 .. Len(list) /\ list[from] \in Range(list) /\ list \in Seq(Range(list))
  BY ListIs DEF IsList
<1> DEFINE rest == RemoveAt(list, from)
<1>1. rest \in Seq(Range(list)) /\ Len(rest) = Len(list) - 1
  <2>1. from \in 1 .. Len(list) /\ Len(list) \in Nat /\ list \in Seq(Range(list))
    BY <1>0
  <2> QED
    BY <2>1 DEF RemoveAt
<1> HIDE DEF rest
<1>2. SubSeq(rest, 1, to - 1) \in Seq(Range(list))
  BY <1>0, <1>1
<1>3. SubSeq(rest, to, Len(rest)) \in Seq(Range(list))
  BY <1>0, <1>1
<1>4. <<list[from]>> \in Seq(Range(list))
  BY <1>0
<1>5. MoveTo(list, from, to) \in Seq(Range(list))
  BY <1>2, <1>3, <1>4 DEF InsertAt, MoveTo, rest
<1> DEFINE f == MoveTo(list, from, to)
<1> HIDE DEF f
<1>6. \A S : f \in Seq(S) => \A i \in DOMAIN f : f[i] \in S
  OBVIOUS
<1> QED
  BY <1>5, <1>6 DEF Range, f

\* Keeping some places adds no element.
LEMMA AmongRange ==
  ASSUME NEW list, NEW n \in Nat, NEW kept \in SUBSET (1 .. n)
  PROVE  \A x \in Range(Among(list, kept)) : \E i \in kept : x = list[i]
<1>1. /\ DOMAIN Among(list, kept) = 1 .. Cardinality(kept)
      /\ \A k \in 1 .. Cardinality(kept) : \E i \in kept : Among(list, kept)[k] = list[i] /\ Rank(kept, i) = k
  BY AmongIs
<1> QED
  BY <1>1 DEF Range

\* The least of some indices.
LEMMA FirstIs ==
  ASSUME NEW S \in SUBSET Nat
  PROVE  S # {} => FirstIn(S) \in S /\ \A j \in S : FirstIn(S) <= j
<1>1. ASSUME S # {}
      PROVE  FirstIn(S) \in S /\ \A j \in S : FirstIn(S) <= j
  <2>1. \E i \in S : \A j \in S : i <= j
    BY <1>1, Least
  <2>2. FirstIn(S) = CHOOSE i \in S : \A j \in S : i <= j
    BY <1>1 DEF FirstIn
  <2> QED
    BY <2>1, <2>2
<1> QED
  BY <1>1

-----------------------------------------------------------------------------
\* What leads where.

Parts == {"outbounds", "balancers", "observatory", "burstObservatory"}
Sound(t, free) == IsRouted(t) /\ Resolves(t, free)

\* Setting a field sets that field alone.
LEMMA WithIs ==
  ASSUME NEW obj, NEW key, NEW value
  PROVE  /\ key \in DOMAIN With(obj, key, value) /\ DOMAIN obj \subseteq DOMAIN With(obj, key, value)
         /\ With(obj, key, value)[key] = value
         /\ \A k, default : Value(With(obj, key, value), k, default) = IF k = key THEN value ELSE Value(obj, k, default)
<1> DEFINE w == With(obj, key, value)
<1>1. DOMAIN w = DOMAIN obj \cup {key} /\ \A k \in DOMAIN obj \cup {key} : w[k] = IF k = key THEN value ELSE obj[k]
  BY DEF With
<1> HIDE DEF w
<1>2. ASSUME NEW k, NEW default
      PROVE  Value(w, k, default) = IF k = key THEN value ELSE Value(obj, k, default)
  <2>1. CASE k = key
    BY <1>1, <2>1 DEF Value
  <2>2. CASE k # key /\ k \in DOMAIN obj
    BY <1>1, <2>2 DEF Value
  <2>3. CASE k # key /\ k \notin DOMAIN obj
    BY <1>1, <2>3 DEF Value
  <2> QED
    BY <2>1, <2>2, <2>3
<1> QED
  BY <1>1, <1>2 DEF w

\* The tags of a rule in which one was written.
LEMMA TagWritten ==
  ASSUME NEW r, NEW tag
  PROVE  /\ OutboundOf(With(r, "outboundTag", tag)) = tag /\ BalancerOf(With(r, "outboundTag", tag)) = BalancerOf(r)
         /\ BalancerOf(With(r, "balancerTag", tag)) = tag /\ OutboundOf(With(r, "balancerTag", tag)) = OutboundOf(r)
<1>1. \A k, default : Value(With(r, "outboundTag", tag), k, default) = IF k = "outboundTag" THEN tag ELSE Value(r, k, default)
  BY WithIs
<1>2. \A k, default : Value(With(r, "balancerTag", tag), k, default) = IF k = "balancerTag" THEN tag ELSE Value(r, k, default)
  BY WithIs
<1> QED
  BY <1>1, <1>2 DEF OutboundOf, BalancerOf

\* A rule still leads somewhere when every tag there was is there or free.
LEMMA LeadsOn ==
  ASSUME NEW t, NEW u, NEW free, NEW more, free \subseteq more,
         Tags(t) \subseteq Tags(u) \cup more, balancerTagOptions(t) \subseteq balancerTagOptions(u) \cup more,
         NEW rule, Leads(rule, t, free)
  PROVE  Leads(rule, u, more)
BY DEF Leads, outboundTagOptions

\* Only the rules, the outbounds, the balancers and the observatories matter.
LEMMA SoundAlike ==
  ASSUME NEW t, NEW u, NEW free, NEW more, Sound(t, free), free \subseteq more, Parts \subseteq DOMAIN u,
         u.rules = t.rules, u.outbounds = t.outbounds, u.balancers = t.balancers,
         u.observatory = t.observatory, u.burstObservatory = t.burstObservatory
  PROVE  Sound(u, more)
<1>1. IsRouted(u)
  BY DEF Sound, IsRouted, Parts
<1>2. Tags(u) = Tags(t) /\ balancerTagOptions(u) = balancerTagOptions(t)
  BY DEF Tags, balancerTagOptions
<1>3. \A rule \in Range(u.rules) : Leads(rule, u, more)
  <2> TAKE rule \in Range(u.rules)
  <2>1. Leads(rule, t, free)
    BY DEF Sound, Resolves
  <2> QED
    BY <1>2, <2>1, LeadsOn
<1>4. \A b \in Range(u.balancers) : Watched(b, u)
  BY DEF Sound, Resolves, Watched
<1> QED
  BY <1>1, <1>3, <1>4 DEF Sound, Resolves

\* Other rules.
LEMMA RulesSound ==
  ASSUME NEW t, IsTemplate(t), NEW free, NEW more, Sound(t, free), NEW rules,
         \A rule \in Range(rules) : Leads(rule, t, more)
  PROVE  Sound([t EXCEPT !.rules = rules], more)
<1> DEFINE u == [t EXCEPT !.rules = rules]
<1>1. /\ DOMAIN u = DOMAIN t /\ u.rules = rules /\ u.outbounds = t.outbounds /\ u.balancers = t.balancers
      /\ u.observatory = t.observatory /\ u.burstObservatory = t.burstObservatory
  BY DEF IsTemplate
<1> HIDE DEF u
<1>2. IsRouted(u)
  BY <1>1 DEF Sound, IsRouted
<1>3. Tags(u) = Tags(t) /\ balancerTagOptions(u) = balancerTagOptions(t)
  BY <1>1 DEF Tags, balancerTagOptions
<1>4. \A rule \in Range(u.rules) : Leads(rule, u, more)
  BY <1>1, <1>3 DEF Leads, outboundTagOptions
<1>5. \A b \in Range(u.balancers) : Watched(b, u)
  BY <1>1 DEF Sound, Resolves, Watched
<1> QED
  BY <1>2, <1>4, <1>5 DEF Sound, Resolves, u

\* Other outbounds: no rule loses the one it leads to.
LEMMA OutboundsSound ==
  ASSUME NEW t, IsTemplate(t), NEW free, NEW more, Sound(t, free), free \subseteq more, NEW list, IsOutbounds(list),
         \A rule \in Range(t.rules) : OutboundOf(rule) \in Tags(t) => OutboundOf(rule) \in {o.tag : o \in Range(list)} \cup more
  PROVE  Sound([t EXCEPT !.outbounds = list], more)
<1> DEFINE u == [t EXCEPT !.outbounds = list]
<1>1. /\ DOMAIN u = DOMAIN t /\ u.rules = t.rules /\ u.outbounds = list /\ u.balancers = t.balancers
      /\ u.observatory = t.observatory /\ u.burstObservatory = t.burstObservatory
  BY DEF IsTemplate, Sound, IsRouted
<1> HIDE DEF u
<1>2. IsRouted(u)
  BY <1>1 DEF Sound, IsRouted
<1>3. Tags(u) = {o.tag : o \in Range(list)} /\ balancerTagOptions(u) = balancerTagOptions(t)
  BY <1>1 DEF Tags, balancerTagOptions
<1>4. \A rule \in Range(u.rules) : Leads(rule, u, more)
  <2> TAKE rule \in Range(u.rules)
  <2>1. Leads(rule, t, free) /\ rule \in Range(t.rules)
    BY <1>1 DEF Sound, Resolves
  <2> QED
    BY <1>3, <2>1 DEF Leads, outboundTagOptions
<1>5. \A b \in Range(u.balancers) : Watched(b, u)
  BY <1>1 DEF Sound, Resolves, Watched
<1> QED
  BY <1>2, <1>4, <1>5 DEF Sound, Resolves, u

\* An observatory is not an absent one.
LEMMA NotEmpty ==
  ASSUME NEW a, NEW b
  PROVE  [subjectSelector |-> a, probe |-> b] # <<>>
<1>1. "probe" \in DOMAIN [subjectSelector |-> a, probe |-> b]
  OBVIOUS
<1>2. DOMAIN <<>> = {}
  OBVIOUS
<1> QED
  BY <1>1, <1>2

\* The observatories that are made anew watch every balancer.
LEMMA Synced ==
  ASSUME NEW w, IsTemplate(w), Parts \subseteq DOMAIN w, IsOutbounds(w.outbounds), IsList(w.balancers),
         \A b \in Range(w.balancers) : IsBalancer(b) /\ (leastPing(b) \/ burstFeeder(b))
  PROVE  /\ IsRouted(syncObservatories(w)) /\ \A b \in Range(w.balancers) : Watched(b, syncObservatories(w))
         /\ DOMAIN syncObservatories(w) = DOMAIN w /\ syncObservatories(w).rules = w.rules
         /\ syncObservatories(w).outbounds = w.outbounds /\ syncObservatories(w).balancers = w.balancers
<1> DEFINE u == syncObservatories(w)
           ping == {b \in Range(w.balancers) : leastPing(b)}
           burst == {b \in Range(w.balancers) : burstFeeder(b)}
<1>1. /\ DOMAIN u = DOMAIN w /\ u.rules = w.rules /\ u.outbounds = w.outbounds /\ u.balancers = w.balancers
      /\ u.observatory = Observed(w.observatory, ping) /\ u.burstObservatory = Observed(w.burstObservatory, burst)
  BY DEF syncObservatories, IsTemplate, Parts
<1>2. ASSUME NEW was, NEW S
      PROVE  /\ Observed(was, S) = <<>> \/ {"subjectSelector", "probe"} \subseteq DOMAIN Observed(was, S)
             /\ \A b \in S : Observed(was, S) # <<>> /\ Range(b.selector) \subseteq Observed(was, S).subjectSelector
  <2>1. CASE S = {}
    BY <2>1 DEF Observed
  <2>2. CASE S # {}
    <3>1. PICK probe : Observed(was, S) = [subjectSelector |-> collectSelectors(S), probe |-> probe]
      BY <2>2 DEF Observed
    <3>2. \A b \in S : Range(b.selector) \subseteq collectSelectors(S)
      BY DEF collectSelectors
    <3> QED
      BY <3>1, <3>2, NotEmpty
  <2> QED
    BY <2>1, <2>2
<1> HIDE DEF u
<1>3. ASSUME NEW b \in Range(w.balancers)
      PROVE  Watched(b, u)
  <2>1. CASE leastPing(b)
    <3>1. b \in ping
      BY <2>1
    <3> HIDE DEF ping
    <3> QED
      BY <1>1, <1>2, <2>1, <3>1 DEF Watched
  <2>2. CASE ~leastPing(b)
    <3>1. b \in burst
      BY <2>2
    <3> HIDE DEF burst
    <3> QED
      BY <1>1, <1>2, <2>2, <3>1 DEF Watched
  <2> QED
    BY <2>1, <2>2
<1> HIDE DEF ping, burst
<1>4. \A obs \in {u.observatory, u.burstObservatory} : obs = <<>> \/ {"subjectSelector", "probe"} \subseteq DOMAIN obs
  BY <1>1, <1>2
<1>5. IsRouted(u)
  BY <1>1, <1>4 DEF IsRouted, Parts
<1> QED
  BY <1>1, <1>3, <1>5 DEF u

\* Other balancers, whose observatories follow, and rules that lead somewhere.
LEMMA BalancersSound ==
  ASSUME NEW w, IsTemplate(w), Parts \subseteq DOMAIN w, IsOutbounds(w.outbounds), IsList(w.balancers),
         \A b \in Range(w.balancers) : IsBalancer(b) /\ (leastPing(b) \/ burstFeeder(b)),
         NEW more, \A rule \in Range(w.rules) : Leads(rule, w, more)
  PROVE  Sound(syncObservatories(w), more)
<1> DEFINE u == syncObservatories(w)
<1>1. /\ IsRouted(u) /\ \A b \in Range(w.balancers) : Watched(b, u)
      /\ u.rules = w.rules /\ u.outbounds = w.outbounds /\ u.balancers = w.balancers
  BY Synced
<1> HIDE DEF u
<1>2. Tags(u) = Tags(w) /\ balancerTagOptions(u) = balancerTagOptions(w)
  BY <1>1 DEF Tags, balancerTagOptions
<1>3. \A rule \in Range(u.rules) : Leads(rule, u, more)
  BY <1>1, <1>2 DEF Leads, outboundTagOptions
<1> QED
  BY <1>1, <1>3 DEF Sound, Resolves, u

\* Other rules and outbounds.
LEMMA RoutesSound ==
  ASSUME NEW t, NEW free, Sound(t, free), NEW u, Parts \subseteq DOMAIN u, IsOutbounds(u.outbounds),
         u.balancers = t.balancers, u.observatory = t.observatory, u.burstObservatory = t.burstObservatory,
         NEW more, \A rule \in Range(u.rules) : Leads(rule, u, more)
  PROVE  Sound(u, more)
<1>1. IsRouted(u)
  BY DEF Sound, IsRouted, Parts
<1>2. \A b \in Range(u.balancers) : Watched(b, u)
  BY DEF Sound, Resolves, Watched
<1> QED
  BY <1>1, <1>2 DEF Sound, Resolves

TagsIn(list) == {o.tag : o \in Range(list)}

\* Appending an outbound adds its tag.
LEMMA AppendOutbound ==
  ASSUME NEW list, IsOutbounds(list), NEW o, "tag" \in DOMAIN o
  PROVE  IsOutbounds(Append(list, o)) /\ TagsIn(Append(list, o)) = TagsIn(list) \cup {o.tag}
<1>1. IsList(list) /\ IsList(Append(list, o))
  BY ListOperators DEF IsOutbounds
<1>2. Range(Append(list, o)) = Range(list) \cup {o}
  BY <1>1, AppendRange
<1> QED
  BY <1>1, <1>2 DEF IsOutbounds, TagsIn

\* Removing an outbound loses its tag at most.
LEMMA RemoveOutbound ==
  ASSUME NEW list, IsOutbounds(list), NEW i
  PROVE  /\ IsOutbounds(RemoveIndex(list, i))
         /\ i \in DOMAIN list => TagsIn(list) \subseteq TagsIn(RemoveIndex(list, i)) \cup {list[i].tag}
         /\ i \notin DOMAIN list => RemoveIndex(list, i) = list
<1>1. IsList(list) /\ IsList(RemoveIndex(list, i))
  BY ListOperators DEF IsOutbounds
<1>2. /\ Range(RemoveIndex(list, i)) \subseteq Range(list)
      /\ \A j \in DOMAIN list \ {i} : list[j] \in Range(RemoveIndex(list, i))
  BY <1>1, RemoveRange
<1>3. IsOutbounds(RemoveIndex(list, i))
  BY <1>1, <1>2 DEF IsOutbounds
<1>4. TagsIn(list) \subseteq TagsIn(RemoveIndex(list, i)) \cup {list[i].tag}
  <2>1. \A o \in Range(list) : \E j \in DOMAIN list : o = list[j]
    BY DEF Range
  <2> QED
    BY <1>2, <2>1 DEF TagsIn
<1> QED
  BY <1>3, <1>4 DEF RemoveIndex

\* An outbound written in the place of another.
LEMMA ReplaceOutbound ==
  ASSUME NEW list, IsOutbounds(list), NEW i \in DOMAIN list, NEW o, "tag" \in DOMAIN o
  PROVE  /\ IsOutbounds([list EXCEPT ![i] = o])
         /\ TagsIn(list) \subseteq TagsIn([list EXCEPT ![i] = o]) \cup {list[i].tag} /\ o.tag \in TagsIn([list EXCEPT ![i] = o])
<1> DEFINE f == [list EXCEPT ![i] = o]
<1>1. IsList(list) /\ Len(list) \in Nat /\ DOMAIN list = 1 .. Len(list)
  BY ListIs DEF IsOutbounds
<1>2. DOMAIN f = DOMAIN list /\ \A j \in DOMAIN list : f[j] = IF j = i THEN o ELSE list[j]
  OBVIOUS
<1>3. f = [j \in 1 .. Len(list) |-> f[j]]
  BY <1>1
<1> HIDE DEF f
<1>4. IsList(f)
  BY <1>1, <1>3, ArrayIsList
<1>5. /\ \A x : x \in Range(f) <=> \E j \in DOMAIN list : f[j] = x
      /\ \A x : x \in Range(list) <=> \E j \in DOMAIN list : list[j] = x
  BY <1>2 DEF Range
<1>6. /\ o \in Range(f) /\ \A x \in Range(f) : x = o \/ x \in Range(list)
      /\ \A x \in Range(list) : x = list[i] \/ x \in Range(f)
  BY <1>2, <1>5
<1>7. IsOutbounds(f)
  BY <1>4, <1>6 DEF IsOutbounds
<1>8. TagsIn(list) \subseteq TagsIn(f) \cup {list[i].tag} /\ o.tag \in TagsIn(f)
  BY <1>6 DEF TagsIn
<1> QED
  BY <1>7, <1>8 DEF f

\* The place of a tag, and of the Nord outbound.
LEMMA TagIndexIs ==
  ASSUME NEW t, IsList(t.outbounds), NEW tag
  PROVE  /\ TagIndex(t, tag) = 0 => tag \notin Tags(t)
         /\ TagIndex(t, tag) # 0 => TagIndex(t, tag) \in DOMAIN t.outbounds /\ t.outbounds[TagIndex(t, tag)].tag = tag
<1> DEFINE S == {i \in DOMAIN t.outbounds : t.outbounds[i].tag = tag}
<1>1. Len(t.outbounds) \in Nat /\ DOMAIN t.outbounds = 1 .. Len(t.outbounds)
  BY ListIs
<1>2. S \in SUBSET Nat /\ 0 \notin S /\ TagIndex(t, tag) = FirstIn(S)
  BY <1>1 DEF TagIndex
<1>3. CASE S = {}
  <2>1. FirstIn(S) = 0
    BY <1>3 DEF FirstIn
  <2>2. \A o \in Range(t.outbounds) : o.tag # tag
    BY <1>3 DEF Range
  <2> QED
    BY <1>2, <2>1, <2>2 DEF Tags
<1>4. CASE S # {}
  <2>1. FirstIn(S) \in S
    <3> HIDE DEF S
    <3> QED
      BY <1>2, <1>4, FirstIs
  <2> QED
    BY <1>2, <2>1
<1> QED
  BY <1>3, <1>4

\* The index of the Nord outbound points at one with a Nord tag.
LEMMA NordIndexIs ==
  ASSUME NEW t, IsList(t.outbounds), NordIndex(t) # 0
  PROVE  NordIndex(t) \in DOMAIN t.outbounds /\ t.outbounds[NordIndex(t)].tag \in NordTags
<1> DEFINE S == {i \in DOMAIN t.outbounds : t.outbounds[i].tag \in NordTags}
<1>1. Len(t.outbounds) \in Nat /\ DOMAIN t.outbounds = 1 .. Len(t.outbounds)
  BY ListIs
<1>2. S \in SUBSET Nat /\ NordIndex(t) = FirstIn(S)
  BY <1>1 DEF NordIndex
<1>3. S # {}
  BY <1>2 DEF FirstIn
<1>4. FirstIn(S) \in S
  <2> HIDE DEF S
  <2> QED
    BY <1>2, <1>3, FirstIs
<1> QED
  BY <1>2, <1>4

-----------------------------------------------------------------------------
\* What the setters leave of the rules.

Alike(rule, r) == OutboundOf(rule) = OutboundOf(r) /\ BalancerOf(rule) = BalancerOf(r)

\* Every rule keeps its target, or is one of the tag.
SetRules(t, rules) == [t EXCEPT !.rules = rules]
ToOwn(t, tag, rules) ==
  \A rule \in Range(rules) : (\E r \in Range(t.rules) : Alike(rule, r)) \/ (OutboundOf(rule) = tag /\ BalancerOf(rule) = "")

\* Rules with the same target lead to the same place.
LEMMA AlikeLeads ==
  ASSUME NEW rule, NEW r, Alike(rule, r), NEW t, NEW free, Leads(r, t, free)
  PROVE  Leads(rule, t, free)
BY DEF Alike, Leads

\* The lists of the basics tab make rules to their own tag, others keep theirs.
LEMMA SetterIs ==
  ASSUME NEW t, IsTemplate(t), NEW tag, NEW property, property \notin TagKeys, NEW data
  PROVE  \E rules : ruleSetter(t, tag, property, data) = SetRules(t, rules) /\ ToOwn(t, tag, rules)
<1> DEFINE new == With([outboundTag |-> tag], property, data)
<1>0. IsList(t.rules) /\ Len(t.rules) \in Nat /\ DOMAIN t.rules = 1 .. Len(t.rules) /\ \A i \in DOMAIN t.rules : t.rules[i] \in Range(t.rules)
  BY ListIs DEF IsTemplate
<1>1. ASSUME NEW r
      PROVE  Alike(With(r, property, data), r)
  <2>1. \A k, default : Value(With(r, property, data), k, default) = IF k = property THEN data ELSE Value(r, k, default)
    BY WithIs
  <2>2. property # "outboundTag" /\ property # "balancerTag"
    BY DEF TagKeys
  <2> QED
    BY <2>1, <2>2 DEF Alike, OutboundOf, BalancerOf
<1>2. OutboundOf(new) = tag /\ BalancerOf(new) = ""
  <2>1. OutboundOf([outboundTag |-> tag]) = tag
    BY DEF OutboundOf, Value
  <2>2. BalancerOf([outboundTag |-> tag]) = ""
    BY DEF BalancerOf, Value
  <2> QED
    BY <1>1, <2>1, <2>2 DEF Alike
<1> HIDE DEF new
<1>3. CASE ruleGetter(t, tag, property) = <<>>
  <2>1. ruleSetter(t, tag, property, data) = [t EXCEPT !.rules = Append(t.rules, new)]
    BY <1>3 DEF ruleSetter, new
  <2>2. \A rule \in Range(Append(t.rules, new)) : rule = new \/ rule \in Range(t.rules)
    BY <1>0, AppendRange
  <2>3. \A r : Alike(r, r)
    BY DEF Alike
  <2> QED
    BY <1>2, <2>1, <2>2, <2>3 DEF SetRules, ToOwn
<1>4. CASE ruleGetter(t, tag, property) # <<>>
  <2> DEFINE first == FirstMatch(t.rules, tag, property)
             kept == {i \in DOMAIN t.rules : ~Matches(t.rules[i], tag, property) \/ (i = first /\ data # <<>>)}
             written == IF first = 0 THEN t.rules ELSE [t.rules EXCEPT ![first] = With(t.rules[first], property, data)]
  <2>1. ruleSetter(t, tag, property, data) = [t EXCEPT !.rules = Among(written, kept)]
    BY <1>4 DEF ruleSetter
  <2>2. kept \in SUBSET (1 .. Len(t.rules))
    BY <1>0
  <2>3. \A i \in DOMAIN t.rules : written[i] = t.rules[i] \/ written[i] = With(t.rules[i], property, data)
    <3> HIDE DEF first
    <3> QED
      OBVIOUS
  <2> HIDE DEF first, kept, written
  <2>4. \A rule \in Range(Among(written, kept)) : \E i \in kept : rule = written[i]
    BY <1>0, <2>2, AmongRange
  <2>5. \A r : Alike(r, r)
    BY DEF Alike
  <2>6. \A rule \in Range(Among(written, kept)) : \E r \in Range(t.rules) : Alike(rule, r)
    <3> TAKE rule \in Range(Among(written, kept))
    <3>1. PICK i \in kept : rule = written[i]
      BY <2>4
    <3>2. i \in DOMAIN t.rules
      BY <1>0, <2>2
    <3> QED
      BY <1>0, <1>1, <2>3, <2>5, <3>1, <3>2
  <2> QED
    BY <2>1, <2>6 DEF SetRules, ToOwn
<1> QED
  BY <1>3, <1>4

\* Setting a basic list leaves every rule a target, when the one it names is there.
LEMMA SetterSound ==
  ASSUME NEW t, IsTemplate(t), NEW free, NEW more, Sound(t, free), free \subseteq more,
         NEW tag \in Tags(t) \cup more, NEW property, property \notin TagKeys, NEW data
  PROVE  Sound(ruleSetter(t, tag, property, data), more)
<1>1. PICK rules : ruleSetter(t, tag, property, data) = SetRules(t, rules) /\ ToOwn(t, tag, rules)
  BY SetterIs
<1>2. \A r \in Range(t.rules) : Leads(r, t, more)
  BY LeadsOn DEF Sound, Resolves
<1>3. \A rule \in Range(rules) : Leads(rule, t, more)
  <2> TAKE rule \in Range(rules)
  <2>1. CASE \E r \in Range(t.rules) : Alike(rule, r)
    BY <1>2, <2>1, AlikeLeads
  <2>2. CASE OutboundOf(rule) = tag /\ BalancerOf(rule) = ""
    BY <2>2 DEF Leads, outboundTagOptions, balancerTagOptions
  <2> QED
    BY <1>1, <2>1, <2>2 DEF ToOwn
<1>4. Sound([t EXCEPT !.rules = rules], more)
  BY <1>3, RulesSound
<1> QED
  BY <1>1, <1>4 DEF SetRules

\* An outbound is there while its rules are, and takes no other away.
LEMMA SyncIs ==
  ASSUME NEW w, IsTemplate(w), IsOutbounds(w.outbounds), NEW outbound, "tag" \in DOMAIN outbound
  PROVE  \E list : /\ syncOutbound(w, outbound) = [w EXCEPT !.outbounds = list] /\ IsOutbounds(list)
                   /\ Tags(w) \subseteq TagsIn(list) \cup {outbound.tag}
                   /\ (\E rule \in Range(w.rules) : OutboundOf(rule) = outbound.tag) => outbound.tag \in TagsIn(list)
<1> DEFINE used == \E rule \in Range(w.rules) : OutboundOf(rule) = outbound.tag
           index == TagIndex(w, outbound.tag)
<1>0. IsList(w.outbounds) /\ TagsIn(w.outbounds) = Tags(w)
  BY DEF IsOutbounds, TagsIn, Tags
<1>1. index = 0 => outbound.tag \notin Tags(w)
  BY <1>0, TagIndexIs
<1>2. index # 0 => index \in DOMAIN w.outbounds /\ w.outbounds[index].tag = outbound.tag
  BY <1>0, TagIndexIs
<1>3. 0 \notin DOMAIN w.outbounds /\ ~(0 > 1)
  BY <1>0, ListIs
<1>4. syncOutbound(w, outbound) =
        [w EXCEPT !.outbounds = IF ~used /\ index > 1 THEN RemoveAt(w.outbounds, index)
                                ELSE IF used /\ index = 0 THEN Append(w.outbounds, outbound) ELSE w.outbounds]
  BY DEF syncOutbound
<1>5. index # 0 => outbound.tag \in Tags(w)
  BY <1>2 DEF Tags, Range
<1> HIDE DEF used, index
<1>6. CASE ~used /\ index > 1
  <2> DEFINE list == RemoveIndex(w.outbounds, index)
  <2>1. index \in DOMAIN w.outbounds /\ w.outbounds[index].tag = outbound.tag
    BY <1>2, <1>3, <1>6
  <2>2. syncOutbound(w, outbound) = [w EXCEPT !.outbounds = list]
    BY <1>4, <1>6, <2>1 DEF RemoveIndex
  <2>3. IsOutbounds(list) /\ TagsIn(w.outbounds) \subseteq TagsIn(list) \cup {outbound.tag}
    BY <2>1, RemoveOutbound
  <2> HIDE DEF list
  <2> QED
    BY <1>0, <1>6, <2>2, <2>3 DEF used
<1>7. CASE used /\ index = 0
  <2> DEFINE list == Append(w.outbounds, outbound)
  <2>1. syncOutbound(w, outbound) = [w EXCEPT !.outbounds = list]
    BY <1>3, <1>4, <1>7
  <2>2. IsOutbounds(list) /\ TagsIn(list) = TagsIn(w.outbounds) \cup {outbound.tag}
    BY AppendOutbound
  <2> HIDE DEF list
  <2> QED
    BY <1>0, <2>1, <2>2
<1>8. CASE ~(~used /\ index > 1) /\ ~(used /\ index = 0)
  <2>1. syncOutbound(w, outbound) = [w EXCEPT !.outbounds = w.outbounds]
    BY <1>4, <1>8
  <2>2. used => outbound.tag \in TagsIn(w.outbounds)
    BY <1>0, <1>5, <1>8
  <2> QED
    BY <1>0, <2>1, <2>2 DEF used
<1> QED
  BY <1>6, <1>7, <1>8

\* Setting a list and adding the outbound it needs leaves every rule a target.
LEMMA SyncSound ==
  ASSUME NEW t, IsTemplate(t), NEW free, Sound(t, free),
         NEW property, property \notin TagKeys, NEW data, NEW outbound, "tag" \in DOMAIN outbound
  PROVE  Sound(syncOutbound(ruleSetter(t, outbound.tag, property, data), outbound), free)
<1> DEFINE tag == outbound.tag
           w == ruleSetter(t, tag, property, data)
           u == syncOutbound(w, outbound)
<1>1. PICK rules : w = SetRules(t, rules) /\ ToOwn(t, tag, rules)
  BY SetterIs
<1>a. Parts \cup {"rules"} \subseteq DOMAIN t
  BY DEF IsTemplate, Sound, IsRouted, Parts
<1>2. /\ DOMAIN w = DOMAIN t /\ w.rules = rules /\ w.outbounds = t.outbounds /\ w.balancers = t.balancers
      /\ w.observatory = t.observatory /\ w.burstObservatory = t.burstObservatory
  <2> HIDE DEF w
  <2> QED
    BY <1>1, <1>a DEF SetRules, Parts
<1>3. IsTemplate(w)
  BY SettersKeep
<1>4. IsOutbounds(w.outbounds)
  BY <1>2 DEF Sound, IsRouted
<1> HIDE DEF w, tag
<1>5. PICK list : /\ u = [w EXCEPT !.outbounds = list] /\ IsOutbounds(list)
                  /\ Tags(w) \subseteq TagsIn(list) \cup {tag}
                  /\ (\E rule \in Range(w.rules) : OutboundOf(rule) = tag) => tag \in TagsIn(list)
  BY <1>3, <1>4, SyncIs DEF tag
<1>6. Parts \subseteq DOMAIN w /\ "rules" \in DOMAIN w
  BY <1>2, <1>3 DEF Parts, Sound, IsRouted, IsTemplate
<1>7. /\ DOMAIN u = DOMAIN w /\ u.rules = rules /\ u.outbounds = list /\ u.balancers = t.balancers
      /\ u.observatory = t.observatory /\ u.burstObservatory = t.burstObservatory
  BY <1>2, <1>5, <1>6 DEF Parts
<1> HIDE DEF u
<1>8. Tags(u) = TagsIn(list) /\ Tags(w) = Tags(t) /\ balancerTagOptions(u) = balancerTagOptions(t)
  BY <1>2, <1>7 DEF Tags, TagsIn, balancerTagOptions
<1>9. \A rule \in Range(u.rules) : Leads(rule, u, free)
  <2> TAKE rule \in Range(u.rules)
  <2>1. rule \in Range(rules)
    BY <1>7
  <2>2. OutboundOf(rule) = tag => tag \in Tags(u)
    BY <1>2, <1>5, <1>8, <2>1
  <2>3. CASE \E r \in Range(t.rules) : Alike(rule, r)
    <3>1. Leads(rule, t, free)
      BY <2>3, AlikeLeads DEF Sound, Resolves
    <3>2. OutboundOf(rule) \in Tags(t) => OutboundOf(rule) \in Tags(u)
      BY <1>5, <1>8, <2>2
    <3> QED
      BY <1>8, <3>1, <3>2 DEF Leads, outboundTagOptions
  <2>4. CASE OutboundOf(rule) = tag /\ BalancerOf(rule) = ""
    BY <2>2, <2>4 DEF Leads, outboundTagOptions, balancerTagOptions
  <2> QED
    BY <1>1, <2>1, <2>3, <2>4 DEF ToOwn
<1>10. Sound(u, free)
  BY <1>5, <1>6, <1>7, <1>9, RoutesSound
<1> QED
  BY <1>10 DEF u, w, tag

\* Rules whose tag is another now.
Retagged(rule, r, key, from, to) == (rule = r /\ Value(r, key, "") # from) \/ rule = With(r, key, to)

\* A rule after renaming is the old one or has the new tag.
LEMMA RetagIs ==
  ASSUME NEW rules, NEW key, NEW from, NEW to
  PROVE  \A rule \in Range(Retag(rules, key, from, to)) : \E r \in Range(rules) : Retagged(rule, r, key, from, to)
<1> DEFINE f == Retag(rules, key, from, to)
<1>1. DOMAIN f = DOMAIN rules /\ \A i \in DOMAIN rules : f[i] = IF Value(rules[i], key, "") = from THEN With(rules[i], key, to) ELSE rules[i]
  BY DEF Retag
<1> HIDE DEF f
<1>2. \A rule \in Range(f) : \E i \in DOMAIN rules : rule = f[i]
  BY <1>1 DEF Range
<1>3. \A i \in DOMAIN rules : rules[i] \in Range(rules)
  BY DEF Range
<1>4. \A i \in DOMAIN rules : Retagged(f[i], rules[i], key, from, to)
  BY <1>1 DEF Retagged
<1> QED
  BY <1>2, <1>3, <1>4 DEF f

BalancerTags(list) == {b.tag : b \in Range(list)}
AreBalancers(list) == IsList(list) /\ \A b \in Range(list) : IsBalancer(b) /\ (leastPing(b) \/ burstFeeder(b))

\* A balancer that is written or renamed takes its rules along.
LEMMA PutBalancerSound ==
  ASSUME NEW t, IsTemplate(t), NEW free, Sound(t, free), NEW index \in 0 .. Len(t.balancers),
         NEW wire, IsBalancer(wire), leastPing(wire) \/ burstFeeder(wire)
  PROVE  Sound(PutBalancer(t, index, wire), free)
<1> DEFINE was == IF index \in DOMAIN t.balancers THEN t.balancers[index].tag ELSE ""
           list == PutAt(t.balancers, index, wire)
           put == [t EXCEPT !.balancers = list]
           retagged == [put EXCEPT !.rules = Retag(put.rules, "balancerTag", was, wire.tag)]
           w == IF was = "" THEN put ELSE retagged
<1>0. /\ Parts \subseteq DOMAIN t /\ {"rules", "dns"} \subseteq DOMAIN t /\ IsOutbounds(t.outbounds) /\ AreBalancers(t.balancers)
      /\ \A rule \in Range(t.rules) : Leads(rule, t, free)
  BY DEF Sound, IsRouted, Resolves, Parts, IsTemplate, AreBalancers
<1>1. IsList(t.balancers) /\ Len(t.balancers) \in Nat /\ DOMAIN t.balancers = 1 .. Len(t.balancers)
  BY <1>0, ListIs DEF AreBalancers
<1>a. index \in Nat /\ index <= Len(t.balancers)
  BY <1>1
<1>2. /\ Range(list) \subseteq Range(t.balancers) \cup {wire} /\ wire \in Range(list)
      /\ \A j \in DOMAIN t.balancers \ {index} : t.balancers[j] \in Range(list)
  BY <1>1, <1>a, PutRange
<1>3. IsList(list)
  BY <1>1, <1>a, ListOperators
<1>4. AreBalancers(list)
  BY <1>0, <1>2, <1>3 DEF AreBalancers
<1>5. wire.tag \in BalancerTags(list) /\ BalancerTags(t.balancers) \subseteq BalancerTags(list) \cup {was}
  <2>1. \A b \in Range(t.balancers) : \E j \in DOMAIN t.balancers : b = t.balancers[j]
    BY DEF Range
  <2> HIDE DEF list
  <2> QED
    BY <1>2, <2>1 DEF BalancerTags
<1>6. PutBalancer(t, index, wire) = syncObservatories(w)
  BY DEF PutBalancer
<1> HIDE DEF list
<1>7. /\ DOMAIN put = DOMAIN t /\ put.rules = t.rules /\ put.dns = t.dns /\ put.outbounds = t.outbounds /\ put.balancers = list
  BY <1>0 DEF Parts
<1>8. IsTemplate(put)
  BY <1>7, RulesKept
<1> HIDE DEF put
<1>9. /\ DOMAIN retagged = DOMAIN put /\ retagged.rules = Retag(put.rules, "balancerTag", was, wire.tag)
      /\ retagged.outbounds = put.outbounds /\ retagged.balancers = put.balancers
  BY <1>0, <1>7 DEF Parts
<1>10. IsTemplate(retagged)
  <2>1. IsList(Retag(put.rules, "balancerTag", was, wire.tag))
    BY <1>8, ListOperators DEF IsTemplate
  <2> QED
    BY <1>8, <2>1, RulesReplaced
<1> HIDE DEF retagged, was
<1>11. /\ IsTemplate(w) /\ DOMAIN w = DOMAIN t /\ w.outbounds = t.outbounds /\ w.balancers = list
       /\ w.rules = IF was = "" THEN t.rules ELSE Retag(t.rules, "balancerTag", was, wire.tag)
  BY <1>7, <1>8, <1>9, <1>10
<1> HIDE DEF w
<1>12. Tags(w) = Tags(t) /\ balancerTagOptions(w) = {""} \cup BalancerTags(list) /\ balancerTagOptions(t) = {""} \cup BalancerTags(t.balancers)
  BY <1>11 DEF Tags, balancerTagOptions, BalancerTags
<1>13. \A r \in Range(t.rules) : BalancerOf(r) # was \/ was = "" => Leads(r, w, free)
  BY <1>0, <1>5, <1>12 DEF Leads, outboundTagOptions
<1>14. \A r \in Range(t.rules) : Leads(With(r, "balancerTag", wire.tag), w, free)
  <2> TAKE r \in Range(t.rules)
  <2>1. OutboundOf(With(r, "balancerTag", wire.tag)) = OutboundOf(r) /\ BalancerOf(With(r, "balancerTag", wire.tag)) = wire.tag
    BY TagWritten
  <2>2. Leads(r, t, free)
    BY <1>0
  <2> QED
    BY <1>5, <1>12, <2>1, <2>2 DEF Leads, outboundTagOptions
<1>15. \A rule \in Range(w.rules) : Leads(rule, w, free)
  <2>1. CASE was = ""
    BY <1>11, <1>13, <2>1
  <2>2. CASE was # ""
    <3> TAKE rule \in Range(w.rules)
    <3>1. PICK r \in Range(t.rules) : (rule = r /\ BalancerOf(r) # was) \/ rule = With(r, "balancerTag", wire.tag)
      <4>1. rule \in Range(Retag(t.rules, "balancerTag", was, wire.tag))
        BY <1>11, <2>2
      <4>2. \E r \in Range(t.rules) : Retagged(rule, r, "balancerTag", was, wire.tag)
        BY <4>1, RetagIs
      <4> QED
        BY <4>2 DEF BalancerOf, Retagged
    <3> QED
      BY <1>13, <1>14, <3>1
  <2> QED
    BY <2>1, <2>2
<1>16. Sound(syncObservatories(w), free)
  BY <1>0, <1>4, <1>11, <1>15, BalancersSound DEF AreBalancers
<1> QED
  BY <1>6, <1>16

\* The rules of a balancer that is deleted are left to whoever deleted it.
LEMMA RemoveBalancerSound ==
  ASSUME NEW t, IsTemplate(t), NEW free, Sound(t, free), NEW index, NEW gone,
         gone = IF index \in DOMAIN t.balancers THEN {t.balancers[index].tag} ELSE {}
  PROVE  Sound(syncObservatories([t EXCEPT !.balancers = RemoveIndex(@, index)]), free \cup gone)
<1> DEFINE list == RemoveIndex(t.balancers, index)
           w == [t EXCEPT !.balancers = list]
<1>0. /\ Parts \subseteq DOMAIN t /\ {"rules", "dns"} \subseteq DOMAIN t /\ IsOutbounds(t.outbounds) /\ AreBalancers(t.balancers)
      /\ \A rule \in Range(t.rules) : Leads(rule, t, free)
  BY DEF Sound, IsRouted, Resolves, Parts, IsTemplate, AreBalancers
<1>1. IsList(t.balancers)
  BY <1>0 DEF AreBalancers
<1>2. Range(list) \subseteq Range(t.balancers) /\ \A j \in DOMAIN t.balancers \ {index} : t.balancers[j] \in Range(list)
  BY <1>1, RemoveRange
<1>3. IsList(list)
  BY <1>1, ListOperators
<1>4. AreBalancers(list)
  BY <1>0, <1>2, <1>3 DEF AreBalancers
<1> HIDE DEF list
<1>5. BalancerTags(t.balancers) \subseteq BalancerTags(list) \cup gone
  <2>1. \A b \in Range(t.balancers) : \E j \in DOMAIN t.balancers : b = t.balancers[j]
    BY DEF Range
  <2> QED
    BY <1>2, <2>1 DEF BalancerTags
<1>7. /\ DOMAIN w = DOMAIN t /\ w.rules = t.rules /\ w.dns = t.dns /\ w.outbounds = t.outbounds /\ w.balancers = list
  BY <1>0 DEF Parts
<1>8. IsTemplate(w)
  BY <1>7, RulesKept
<1> HIDE DEF w
<1>12. Tags(w) = Tags(t) /\ balancerTagOptions(w) = {""} \cup BalancerTags(list) /\ balancerTagOptions(t) = {""} \cup BalancerTags(t.balancers)
  BY <1>7 DEF Tags, balancerTagOptions, BalancerTags
<1>15. \A rule \in Range(w.rules) : Leads(rule, w, free \cup gone)
  <2> TAKE rule \in Range(w.rules)
  <2>1. Leads(rule, t, free)
    BY <1>0, <1>7
  <2> QED
    BY <1>5, <1>12, <2>1, LeadsOn
<1>16. Sound(syncObservatories(w), free \cup gone)
  BY <1>0, <1>4, <1>7, <1>8, <1>15, BalancersSound DEF AreBalancers
<1> QED
  BY <1>16 DEF w, list

\* Resetting Nord carries the rules of the old outbound to the new one.
LEMMA ResetNordSound ==
  ASSUME NEW t, IsTemplate(t), NEW free, Sound(t, free), NordIndex(t) # 0, NEW tag
  PROVE  Sound(resetNord(t, tag), free)
<1> DEFINE i == NordIndex(t)
           from == t.outbounds[i].tag
           list == [t.outbounds EXCEPT ![i] = NordOutbound(tag)]
           u == resetNord(t, tag)
<1>0. /\ Parts \subseteq DOMAIN t /\ {"rules", "dns"} \subseteq DOMAIN t /\ IsOutbounds(t.outbounds)
      /\ \A rule \in Range(t.rules) : Leads(rule, t, free)
  BY DEF Sound, IsRouted, Resolves, Parts, IsTemplate
<1>1. i \in DOMAIN t.outbounds
  BY <1>0, NordIndexIs DEF IsOutbounds
<1>2. "tag" \in DOMAIN NordOutbound(tag) /\ NordOutbound(tag).tag = tag
  BY DEF NordOutbound
<1> HIDE DEF i
<1>3. IsOutbounds(list) /\ TagsIn(t.outbounds) \subseteq TagsIn(list) \cup {from} /\ tag \in TagsIn(list)
  BY <1>0, <1>1, <1>2, ReplaceOutbound
<1>4. u.outbounds = list /\ u.rules = Retag(t.rules, "outboundTag", from, tag)
  BY <1>0 DEF resetNord, Parts, i
<1>5. DOMAIN u = DOMAIN t /\ u.balancers = t.balancers /\ u.observatory = t.observatory /\ u.burstObservatory = t.burstObservatory
  BY <1>0 DEF resetNord, Parts
<1> HIDE DEF u, list, from
<1>6. Tags(u) = TagsIn(list) /\ Tags(t) = TagsIn(t.outbounds) /\ balancerTagOptions(u) = balancerTagOptions(t)
  BY <1>4, <1>5 DEF Tags, TagsIn, balancerTagOptions
<1>7. \A rule \in Range(u.rules) : Leads(rule, u, free)
  <2> TAKE rule \in Range(u.rules)
  <2>1. PICK r \in Range(t.rules) : (rule = r /\ OutboundOf(r) # from) \/ rule = With(r, "outboundTag", tag)
    <3>1. rule \in Range(Retag(t.rules, "outboundTag", from, tag))
      BY <1>4
    <3>2. \E r \in Range(t.rules) : Retagged(rule, r, "outboundTag", from, tag)
      BY <3>1, RetagIs
    <3> QED
      BY <3>2 DEF OutboundOf, Retagged
  <2>2. Leads(r, t, free)
    BY <1>0
  <2>3. CASE rule = r /\ OutboundOf(r) # from
    <3>1. OutboundOf(r) \in Tags(t) => OutboundOf(r) \in Tags(u)
      BY <1>3, <1>6, <2>3
    <3> QED
      BY <1>6, <2>2, <2>3, <3>1 DEF Leads, outboundTagOptions
  <2>4. CASE rule = With(r, "outboundTag", tag)
    <3>1. OutboundOf(rule) = tag /\ BalancerOf(rule) = BalancerOf(r)
      BY <2>4, TagWritten
    <3> QED
      BY <1>3, <1>6, <2>2, <3>1 DEF Leads, outboundTagOptions
  <2> QED
    BY <2>1, <2>3, <2>4
<1>8. Sound(u, free)
  BY <1>0, <1>3, <1>4, <1>5, <1>7, RoutesSound
<1> QED
  BY <1>8 DEF u

\* Logging out takes the Nord outbound and every rule to such a one.
LoggedOut(t, index) ==
  [t EXCEPT !.outbounds = RemoveIndex(@, index),
            !.rules = Among(@, {i \in DOMAIN @ : OutboundOf(@[i]) \notin NordTags})]

\* A logout takes the outbound and the rules to it.
LEMMA LoggedOutSound ==
  ASSUME NEW t, IsTemplate(t), NEW free, Sound(t, free)
  PROVE  Sound(LoggedOut(t, NordIndex(t)), free)
<1> DEFINE index == NordIndex(t)
           list == RemoveIndex(t.outbounds, index)
           kept == {i \in DOMAIN t.rules : OutboundOf(t.rules[i]) \notin NordTags}
           rules == Among(t.rules, kept)
           u == LoggedOut(t, index)
<1>0. /\ Parts \subseteq DOMAIN t /\ {"rules", "dns"} \subseteq DOMAIN t /\ IsOutbounds(t.outbounds)
      /\ \A rule \in Range(t.rules) : Leads(rule, t, free)
  BY DEF Sound, IsRouted, Resolves, Parts, IsTemplate
<1>1. \A tag \in TagsIn(t.outbounds) : tag \in TagsIn(list) \/ tag \in NordTags
  <2>1. index # 0 => index \in DOMAIN t.outbounds /\ t.outbounds[index].tag \in NordTags
    BY <1>0, NordIndexIs DEF IsOutbounds
  <2>2. 0 \notin DOMAIN t.outbounds
    BY <1>0, ListIs DEF IsOutbounds
  <2> HIDE DEF index
  <2>3. index \in DOMAIN t.outbounds => TagsIn(t.outbounds) \subseteq TagsIn(list) \cup {t.outbounds[index].tag}
    BY <1>0, RemoveOutbound
  <2>4. index \notin DOMAIN t.outbounds => list = t.outbounds
    BY <1>0, RemoveOutbound
  <2> QED
    BY <2>1, <2>2, <2>3, <2>4
<1>2. IsOutbounds(list)
  BY <1>0, RemoveOutbound
<1>3. \A rule \in Range(rules) : rule \in Range(t.rules) /\ OutboundOf(rule) \notin NordTags
  <2>1. Len(t.rules) \in Nat /\ DOMAIN t.rules = 1 .. Len(t.rules) /\ \A i \in DOMAIN t.rules : t.rules[i] \in Range(t.rules)
    BY ListIs DEF IsTemplate
  <2>2. kept \in SUBSET (1 .. Len(t.rules)) /\ \A i \in kept : i \in DOMAIN t.rules /\ OutboundOf(t.rules[i]) \notin NordTags
    BY <2>1
  <2> HIDE DEF kept
  <2>3. \A rule \in Range(rules) : \E i \in kept : rule = t.rules[i]
    BY <2>1, <2>2, AmongRange
  <2> QED
    BY <2>1, <2>2, <2>3
<1>4. /\ DOMAIN u = DOMAIN t /\ u.outbounds = list /\ u.rules = rules /\ u.balancers = t.balancers
      /\ u.observatory = t.observatory /\ u.burstObservatory = t.burstObservatory
  BY <1>0 DEF LoggedOut, Parts
<1> HIDE DEF u, list, rules
<1>5. Tags(u) = TagsIn(list) /\ Tags(t) = TagsIn(t.outbounds) /\ balancerTagOptions(u) = balancerTagOptions(t)
  BY <1>4 DEF Tags, TagsIn, balancerTagOptions
<1>6. \A rule \in Range(u.rules) : Leads(rule, u, free)
  <2> TAKE rule \in Range(u.rules)
  <2>1. Leads(rule, t, free) /\ OutboundOf(rule) \notin NordTags
    BY <1>0, <1>3, <1>4
  <2> QED
    BY <1>1, <1>5, <2>1 DEF Leads, outboundTagOptions
<1>7. Sound(u, free)
  BY <1>0, <1>2, <1>4, <1>6, RoutesSound
<1> QED
  BY <1>7 DEF u

\* The panel adds or moves a rule that leads to its api.
LEMMA EnsuredSound ==
  ASSUME NEW t, IsTemplate(t), NEW free, Sound(t, free)
  PROVE  Sound(EnsureStatsRouting(t), free)
<1> DEFINE at == findApiRule(t.rules)
<1>1. IsList(t.rules) /\ t.rules \in Seq(Range(t.rules)) /\ Len(t.rules) \in Nat /\ DOMAIN t.rules = 1 .. Len(t.rules)
      /\ \A i \in DOMAIN t.rules : t.rules[i] \in Range(t.rules)
  BY ListIs DEF IsTemplate, IsList
<1>2. at \in 0 .. Len(t.rules)
  BY <1>1, FindApiRule
<1>3. \A rule \in Range(t.rules) : Leads(rule, t, free)
  BY DEF Sound, Resolves
<1>4. ASSUME NEW rule, Leads(rule, t, free), NEW rest \in Seq(Range(t.rules))
      PROVE  Sound([t EXCEPT !.rules = <<rule>> \o rest], free)
  <2> DEFINE all == <<rule>> \o rest
             S == Range(t.rules) \cup {rule}
  <2>1. <<rule>> \in Seq(S) /\ rest \in Seq(S)
    OBVIOUS
  <2>2. all \in Seq(S)
    BY <2>1
  <2> HIDE DEF all
  <2>3. \A i \in DOMAIN all : all[i] \in S
    BY <2>2
  <2>4. \A x \in Range(all) : x \in S
    BY <2>3 DEF Range
  <2>5. \A x \in Range(all) : Leads(x, t, free)
    BY <1>3, <1>4, <2>4
  <2> QED
    BY <2>5, RulesSound DEF all
<1>5. CASE at = 1
  BY <1>5 DEF EnsureStatsRouting
<1>6. CASE at = 0
  <2>1. EnsureStatsRouting(t) = [t EXCEPT !.rules = <<ApiRule>> \o t.rules]
    BY <1>6 DEF EnsureStatsRouting
  <2>2. OutboundOf(ApiRule) = "api" /\ BalancerOf(ApiRule) = ""
    BY DEF ApiRule, OutboundOf, BalancerOf, Value
  <2>3. Leads(ApiRule, t, free)
    BY <2>2 DEF Leads, balancerTagOptions
  <2>4. t.rules \in Seq(Range(t.rules))
    BY <1>1
  <2>5. Sound([t EXCEPT !.rules = <<ApiRule>> \o t.rules], free)
    BY <1>4, <2>3, <2>4
  <2> QED
    BY <2>1, <2>5
<1>7. CASE at > 1
  <2>1. EnsureStatsRouting(t) = [t EXCEPT !.rules = <<t.rules[at]>> \o RemoveAt(t.rules, at)]
    BY <1>2, <1>7 DEF EnsureStatsRouting
  <2>2. at \in 1 .. Len(t.rules)
    BY <1>1, <1>2, <1>7
  <2>3. RemoveAt(t.rules, at) \in Seq(Range(t.rules))
    BY <1>1, <2>2, RemoveAtIs
  <2>4. Leads(t.rules[at], t, free)
    BY <1>1, <1>3, <2>2
  <2> QED
    BY <1>4, <2>1, <2>3, <2>4
<1> QED
  BY <1>1, <1>2, <1>5, <1>6, <1>7

-----------------------------------------------------------------------------
\* The inductive invariant: whatever may become the draft is sound, a dialog that
\* was not overtaken fits the draft, and so does the index a logout holds.

HeldSound ==
  /\ Sound(template, byHand) /\ Sound(server, byHand)
  /\ text # BadJson => Sound(text.of, byHand)
  /\ saving # Idle => Sound(saving.sent.of, byHand)
  /\ refetch.at = "read" => Sound(refetch.got, byHand)
DialogFits ==
  dialog.fresh =>
    /\ dialog.kind = "rule" => dialog.index \in 0 .. Len(template.rules) /\ Leads(dialog.value, template, byHand)
    /\ dialog.kind = "balancer" => dialog.index \in 0 .. Len(template.balancers) /\ IsBalancer(dialog.value)
AskedFits ==
  asked.kind = "nordDel" =>
    /\ DOMAIN asked = {"kind", "index", "fresh"} /\ asked.fresh \in BOOLEAN
    /\ asked.fresh => asked.index = NordIndex(template)
Flags == stale \in BOOLEAN /\ (dialog.kind # "none" => dialog.fresh \in BOOLEAN)
RoutingInv == Flags /\ AskedFits /\ (~stale => HeldSound /\ DialogFits)

\* More tags deleted by hand allow no less.
LEMMA SoundMore ==
  ASSUME NEW t, NEW free, NEW more, Sound(t, free), free \subseteq more
  PROVE  Sound(t, more)
BY SoundAlike DEF Sound, IsRouted, Parts

\* What the panel, the text, a save or a refetch may bring back stays sound.
LEMMA HeldStays ==
  ASSUME Shapes, HeldSound, [DraftNext]_draftVars, byHand \subseteq byHand', Sound(template', byHand')
  PROVE  HeldSound'
<1>a. Idle.at = "idle" /\ \A t : JsonOf(t).of = t /\ JsonOf(t) # BadJson
  BY TextIs DEF Idle
<1>b. /\ Sound(template, byHand') /\ Sound(server, byHand') /\ (text # BadJson => Sound(text.of, byHand'))
      /\ (saving # Idle => Sound(saving.sent.of, byHand')) /\ (refetch.at = "read" => Sound(refetch.got, byHand'))
  BY SoundMore DEF HeldSound
<1>1. CASE Writes
  <2>1. PICK t : SetTemplate(t) /\ UNCHANGED <<server, saving, refetch>>
    BY <1>1 DEF Writes, Mutate, Answered
  <2>2. text'.of = template'
    BY <1>a, <2>1 DEF SetTemplate
  <2> QED
    BY <1>b, <2>1, <2>2 DEF HeldSound
<1>2. CASE TypeText
  <2>1. PICK next \in {JsonOf(t) : t \in Typed} \cup {BadJson} : text' = next /\ template' = IF next = BadJson THEN template ELSE next.of
    BY <1>2 DEF TypeText
  <2>2. UNCHANGED <<server, saving, refetch>>
    BY <1>2 DEF TypeText
  <2>3. text' # BadJson => text'.of = template'
    BY <1>a, <2>1
  <2> QED
    BY <1>b, <2>2, <2>3 DEF HeldSound
<1>3. CASE onSaveAll
  <2>1. text # BadJson /\ saving' = [at |-> "sent", sent |-> text] /\ UNCHANGED <<server, text, refetch>>
    BY <1>3 DEF onSaveAll
  <2>2. saving'.sent = text
    BY <2>1
  <2> QED
    BY <1>b, <2>1, <2>2 DEF HeldSound
<1>4. CASE updateSetting
  <2>1. /\ saving.at = "sent" /\ UNCHANGED <<text, refetch>>
        /\ server' = server \/ server' = EnsureStatsRouting(saving.sent.of)
        /\ saving' = [saving EXCEPT !.at = "saved"] \/ saving' = [saving EXCEPT !.at = "failed"]
    BY <1>4 DEF updateSetting
  <2>2. saving # Idle /\ saving = [at |-> saving.at, sent |-> saving.sent] /\ IsTemplate(saving.sent.of)
    BY <1>a, <2>1 DEF Shapes, IsText
  <2>3. saving'.sent = saving.sent
    BY <2>1, <2>2
  <2>4. Sound(server', byHand')
    BY <1>b, <2>1, <2>2, EnsuredSound
  <2> QED
    BY <1>b, <2>1, <2>2, <2>3, <2>4 DEF HeldSound
<1>5. CASE SaveAnswered \/ SaveFailed
  <2>1. saving' = Idle /\ UNCHANGED <<server, text>> /\ (refetch' = refetch \/ refetch' = [at |-> "asked"])
    BY <1>5 DEF SaveAnswered, SaveFailed
  <2>2. [at |-> "asked"].at # "read"
    OBVIOUS
  <2> QED
    BY <1>b, <2>1, <2>2 DEF HeldSound
<1>6. CASE getXraySetting
  <2>1. refetch' = [at |-> "read", got |-> server] /\ UNCHANGED <<server, text, saving>>
    BY <1>6 DEF getXraySetting
  <2>2. refetch'.got = server
    BY <2>1
  <2> QED
    BY <1>b, <2>1, <2>2 DEF HeldSound
<1>7. CASE RefetchArrives
  <2>1. refetch' = Idle /\ UNCHANGED <<server, saving>> /\ (UNCHANGED text \/ (text' = JsonOf(refetch.got) /\ template' = refetch.got))
    BY <1>7 DEF RefetchArrives, SetTemplate
  <2>2. text' = text \/ text'.of = template'
    BY <1>a, <2>1
  <2> QED
    BY <1>a, <1>b, <2>1, <2>2 DEF HeldSound
<1>8. CASE RefetchFails \/ fetchAll
  <2>1. UNCHANGED <<server, text, saving>> /\ (refetch' = Idle \/ refetch' = [at |-> "asked"])
    BY <1>8 DEF RefetchFails, fetchAll
  <2>2. [at |-> "asked"].at # "read"
    OBVIOUS
  <2> QED
    BY <1>a, <1>b, <2>1, <2>2 DEF HeldSound
<1>9. CASE DefaultArrives
  <2>1. UNCHANGED <<server, saving, refetch>> /\ (UNCHANGED text \/ (text' = JsonOf(Default) /\ template' = Default))
    BY <1>9 DEF DefaultArrives, SetTemplate
  <2>2. text' = text \/ text'.of = template'
    BY <1>a, <2>1
  <2> QED
    BY <1>b, <2>1, <2>2 DEF HeldSound
<1>10. CASE Ask \/ Poll \/ resetToDefault \/ UNCHANGED draftVars
  <2>1. UNCHANGED <<server, text, saving, refetch>>
    BY <1>10 DEF Ask, Poll, resetToDefault, draftVars
  <2> QED
    BY <1>b, <2>1 DEF HeldSound
<1> QED
  BY <1>1, <1>2, <1>3, <1>4, <1>5, <1>6, <1>7, <1>8, <1>9, <1>10 DEF DraftNext

\* A dialog that was overtaken promises nothing any more.
LEMMA DialogStays ==
  ASSUME DialogOK, Flags, DialogFits
  PROVE  /\ dialog' = NoDialog => DialogFits'
         /\ dialog' = Overtaken(dialog) => DialogFits'
         /\ (dialog' = dialog /\ dialog.kind \notin {"rule", "balancer"}) => DialogFits'
         /\ UNCHANGED <<dialog, template, byHand>> => DialogFits'
<1>1. NoDialog.kind = "none"
  BY DEF NoDialog
<1>2. ASSUME dialog' = Overtaken(dialog)
      PROVE  DialogFits'
  <2>1. CASE dialog.kind \in {"none", "warp", "nord"}
    BY <1>2, <2>1 DEF Overtaken, DialogFits
  <2>2. CASE dialog.kind \notin {"none", "warp", "nord"}
    <3>1. dialog # NoDialog
      BY <1>1, <2>2
    <3>2. PICK kind, index, value, fresh : dialog = [kind |-> kind, index |-> index, value |-> value, fresh |-> fresh]
      BY <3>1 DEF DialogOK, IsDialog
    <3>3. dialog' = [dialog EXCEPT !.fresh = FALSE]
      BY <1>2, <2>2 DEF Overtaken
    <3>4. dialog'.fresh = FALSE
      BY <3>2, <3>3
    <3> QED
      BY <3>4 DEF DialogFits
  <2> QED
    BY <2>1, <2>2
<1>3. dialog' = NoDialog => DialogFits'
  BY <1>1 DEF DialogFits
<1>4. (dialog' = dialog /\ dialog.kind \notin {"rule", "balancer"}) => DialogFits'
  BY DEF DialogFits
<1>5. UNCHANGED <<dialog, template, byHand>> => DialogFits'
  BY DEF DialogFits
<1> QED
  BY <1>2, <1>3, <1>4, <1>5

\* The Nord index depends on the outbounds alone.
LEMMA NordIndexAlike ==
  ASSUME NEW t, NEW u, t.outbounds = u.outbounds
  PROVE  NordIndex(t) = NordIndex(u)
BY DEF NordIndex

\* An index noted before a request is that of the Nord outbound until another
\* template is shown or it is answered.
LEMMA AskedStays ==
  ASSUME AskedFits
  PROVE  /\ asked' = NothingAsked => AskedFits'
         /\ (UNCHANGED asked /\ template'.outbounds = template.outbounds) => AskedFits'
         /\ AskedFollows(template') => AskedFits'
<1>1. (UNCHANGED asked /\ template'.outbounds = template.outbounds) => AskedFits'
  BY NordIndexAlike DEF AskedFits
<1>2. CASE asked' = NothingAsked
  BY <1>2 DEF AskedFits, NothingAsked
<1>3. CASE AskedFollows(template')
  <2>1. CASE asked.kind = "nordDel" /\ template'.outbounds # template.outbounds
    <3>1. asked' = [asked EXCEPT !.fresh = FALSE]
      BY <1>3, <2>1 DEF AskedFollows
    <3>2. DOMAIN asked = {"kind", "index", "fresh"}
      BY <2>1 DEF AskedFits
    <3>3. DOMAIN asked' = {"kind", "index", "fresh"} /\ asked'.fresh = FALSE
      BY <3>1, <3>2
    <3> QED
      BY <3>3 DEF AskedFits
  <2>2. CASE asked.kind # "nordDel"
    BY <1>3, <2>2 DEF AskedFollows, AskedFits
  <2>3. CASE template'.outbounds = template.outbounds
    BY <1>1, <1>3, <2>3 DEF AskedFollows
  <2> QED
    BY <2>1, <2>2, <2>3
<1> QED
  BY <1>1, <1>2, <1>3

-----------------------------------------------------------------------------
\* The tabs, the dialogs and the answers keep it.

\* Parts of the draft in which nothing leads anywhere.
LEMMA PartSound ==
  ASSUME NEW t, IsTemplate(t), NEW free, Sound(t, free), NEW part
  PROVE  /\ Sound([t EXCEPT !.general = part], free) /\ Sound([t EXCEPT !.fakedns = part], free)
         /\ Sound([t EXCEPT !.dns = part], free)
         /\ \A more : Sound([t EXCEPT !.dns = part, !.fakedns = more], free)
<1>1. Parts \subseteq DOMAIN t
  BY DEF Sound, IsRouted, Parts
<1>2. ASSUME NEW u, DOMAIN u = DOMAIN t, \A p \in DOMAIN t \ {"general", "fakedns", "dns"} : u[p] = t[p]
      PROVE  Sound(u, free)
  <2>1. Parts \cup {"rules"} \subseteq DOMAIN t \ {"general", "fakedns", "dns"}
    BY <1>1 DEF Parts, IsTemplate
  <2>2. /\ u.rules = t.rules /\ u.outbounds = t.outbounds /\ u.balancers = t.balancers
        /\ u.observatory = t.observatory /\ u.burstObservatory = t.burstObservatory
    BY <1>2, <2>1 DEF Parts
  <2> QED
    BY <1>1, <1>2, <2>2, SoundAlike
<1>3. ASSUME NEW more
      PROVE  Sound([t EXCEPT !.dns = part, !.fakedns = more], free)
  <2> DEFINE u == [t EXCEPT !.dns = part, !.fakedns = more]
  <2>1. DOMAIN u = DOMAIN t /\ \A x \in DOMAIN t \ {"general", "fakedns", "dns"} : u[x] = t[x]
    OBVIOUS
  <2> HIDE DEF u
  <2>2. Sound(u, free)
    BY <1>2, <2>1
  <2> QED
    BY <2>2 DEF u
<1>4. ASSUME NEW key \in {"general", "fakedns", "dns"}
      PROVE  Sound([t EXCEPT ![key] = part], free)
  <2> DEFINE u == [t EXCEPT ![key] = part]
  <2>1. DOMAIN u = DOMAIN t /\ \A x \in DOMAIN t \ {"general", "fakedns", "dns"} : u[x] = t[x]
    OBVIOUS
  <2> HIDE DEF u
  <2>2. Sound(u, free)
    BY <1>2, <2>1
  <2> QED
    BY <2>2 DEF u
<1> QED
  BY <1>3, <1>4

\* What an observatory probes does not matter to the rules.
LEMMA ProbeSound ==
  ASSUME NEW t, IsTemplate(t), NEW free, Sound(t, free), NEW probe
  PROVE  /\ t.observatory # <<>> => Sound([t EXCEPT !.observatory.probe = probe], free)
         /\ t.burstObservatory # <<>> => Sound([t EXCEPT !.burstObservatory.probe = probe], free)
<1>0. /\ Parts \subseteq DOMAIN t /\ IsOutbounds(t.outbounds) /\ AreBalancers(t.balancers)
      /\ \A obs \in {t.observatory, t.burstObservatory} : obs = <<>> \/ {"subjectSelector", "probe"} \subseteq DOMAIN obs
      /\ \A rule \in Range(t.rules) : Leads(rule, t, free)
      /\ \A b \in Range(t.balancers) : Watched(b, t)
  BY DEF Sound, IsRouted, Resolves, Parts, AreBalancers
<1>1. ASSUME NEW obs, {"subjectSelector", "probe"} \subseteq DOMAIN obs
      PROVE  /\ DOMAIN [obs EXCEPT !.probe = probe] = DOMAIN obs /\ [obs EXCEPT !.probe = probe] # <<>>
             /\ [obs EXCEPT !.probe = probe].subjectSelector = obs.subjectSelector
  <2> DEFINE o == [obs EXCEPT !.probe = probe]
  <2>1. DOMAIN o = DOMAIN obs /\ o.subjectSelector = obs.subjectSelector
    BY <1>1
  <2>2. "probe" \in DOMAIN o /\ DOMAIN <<>> = {}
    BY <1>1, <2>1
  <2>3. o # <<>>
    BY <2>2
  <2> QED
    BY <2>1, <2>3
<1>2. ASSUME NEW u, DOMAIN u = DOMAIN t, u.rules = t.rules, u.outbounds = t.outbounds, u.balancers = t.balancers,
             \A obs \in {u.observatory, u.burstObservatory} : obs = <<>> \/ {"subjectSelector", "probe"} \subseteq DOMAIN obs,
             t.observatory # <<>> => u.observatory # <<>> /\ u.observatory.subjectSelector = t.observatory.subjectSelector,
             t.burstObservatory # <<>> => u.burstObservatory # <<>> /\ u.burstObservatory.subjectSelector = t.burstObservatory.subjectSelector
      PROVE  Sound(u, free)
  <2>1. IsRouted(u)
    BY <1>0, <1>2 DEF IsRouted, Parts, AreBalancers
  <2>2. Tags(u) = Tags(t) /\ balancerTagOptions(u) = balancerTagOptions(t)
    BY <1>2 DEF Tags, balancerTagOptions
  <2>3. \A rule \in Range(u.rules) : Leads(rule, u, free)
    BY <1>0, <1>2, <2>2 DEF Leads, outboundTagOptions
  <2>4. \A b \in Range(u.balancers) : Watched(b, u)
    BY <1>0, <1>2 DEF Watched
  <2> QED
    BY <2>1, <2>3, <2>4 DEF Sound, Resolves
<1>3. ASSUME t.observatory # <<>>
      PROVE  Sound([t EXCEPT !.observatory.probe = probe], free)
  <2> DEFINE u == [t EXCEPT !.observatory.probe = probe]
  <2>1. {"subjectSelector", "probe"} \subseteq DOMAIN t.observatory
    BY <1>0, <1>3
  <2>2. u.observatory = [t.observatory EXCEPT !.probe = probe]
    BY <1>0 DEF Parts
  <2>3. /\ DOMAIN u = DOMAIN t /\ u.rules = t.rules /\ u.outbounds = t.outbounds /\ u.balancers = t.balancers
        /\ u.burstObservatory = t.burstObservatory
    BY <1>0 DEF Parts, IsTemplate
  <2> HIDE DEF u
  <2>4. /\ DOMAIN u.observatory = DOMAIN t.observatory /\ u.observatory # <<>>
        /\ u.observatory.subjectSelector = t.observatory.subjectSelector
    BY <1>1, <2>1, <2>2
  <2>5. Sound(u, free)
    BY <1>0, <1>2, <2>1, <2>3, <2>4
  <2> QED
    BY <2>5 DEF u
<1>4. ASSUME t.burstObservatory # <<>>
      PROVE  Sound([t EXCEPT !.burstObservatory.probe = probe], free)
  <2> DEFINE u == [t EXCEPT !.burstObservatory.probe = probe]
  <2>1. {"subjectSelector", "probe"} \subseteq DOMAIN t.burstObservatory
    BY <1>0, <1>4
  <2>2. u.burstObservatory = [t.burstObservatory EXCEPT !.probe = probe]
    BY <1>0 DEF Parts
  <2>3. /\ DOMAIN u = DOMAIN t /\ u.rules = t.rules /\ u.outbounds = t.outbounds /\ u.balancers = t.balancers
        /\ u.observatory = t.observatory
    BY <1>0 DEF Parts, IsTemplate
  <2> HIDE DEF u
  <2>4. /\ DOMAIN u.burstObservatory = DOMAIN t.burstObservatory /\ u.burstObservatory # <<>>
        /\ u.burstObservatory.subjectSelector = t.burstObservatory.subjectSelector
    BY <1>1, <2>1, <2>2
  <2>5. Sound(u, free)
    BY <1>0, <1>2, <2>1, <2>3, <2>4
  <2> QED
    BY <2>5 DEF u
<1> QED
  BY <1>3, <1>4

\* The outbound "direct" of the basics tab.
LEMMA FreedomSound ==
  ASSUME IsTemplate(template), NEW free, Sound(template, free)
  PROVE  LET with == [directSettings EXCEPT !.strategy = "UseIP"]
         IN Sound([template EXCEPT !.outbounds = IF directIndex = 0 THEN Append(@, with) ELSE [@ EXCEPT ![directIndex].strategy = "UseIP"]], free)
<1> DEFINE with == [directSettings EXCEPT !.strategy = "UseIP"]
           list == template.outbounds
           S == {i \in DOMAIN list : list[i].protocol = "freedom" /\ list[i].tag = "direct"}
           new == IF directIndex = 0 THEN Append(list, with) ELSE [list EXCEPT ![directIndex].strategy = "UseIP"]
<1>0. IsOutbounds(list) /\ TagsIn(list) = Tags(template) /\ IsList(list)
  BY DEF Sound, IsRouted, IsOutbounds, TagsIn, Tags
<1>1. directIndex # 0 => directIndex \in DOMAIN list
  <2>1. Len(list) \in Nat /\ DOMAIN list = 1 .. Len(list)
    BY <1>0, ListIs
  <2>2. S \in SUBSET Nat /\ directIndex = FirstIn(S)
    BY <2>1 DEF directIndex
  <2>3. S # {} => FirstIn(S) \in S
    <3> HIDE DEF S
    <3> QED
      BY <2>2, FirstIs
  <2>4. S = {} => FirstIn(S) = 0
    BY DEF FirstIn
  <2> QED
    BY <2>2, <2>3, <2>4
<1>2. IsOutbounds(new) /\ Tags(template) \subseteq TagsIn(new)
  <2>1. CASE directIndex = 0
    <3>1. "tag" \in DOMAIN with
      BY DEF directSettings
    <3> HIDE DEF with
    <3>2. IsOutbounds(Append(list, with)) /\ TagsIn(Append(list, with)) = TagsIn(list) \cup {with.tag}
      BY <1>0, <3>1, AppendOutbound
    <3> QED
      BY <1>0, <2>1, <3>2
  <2>2. CASE directIndex # 0
    <3> DEFINE d == directIndex
               o == [list[d] EXCEPT !.strategy = "UseIP"]
    <3>1. d \in DOMAIN list /\ "tag" \in DOMAIN list[d]
      BY <1>0, <1>1, <2>2, ListIs DEF IsOutbounds
    <3>2. "tag" \in DOMAIN o /\ o.tag = list[d].tag
      BY <3>1
    <3>3. new = [list EXCEPT ![d] = o]
      BY <2>2
    <3> HIDE DEF o, d, new
    <3>4. IsOutbounds(new) /\ TagsIn(list) \subseteq TagsIn(new) \cup {list[d].tag} /\ o.tag \in TagsIn(new)
      BY <1>0, <3>1, <3>2, <3>3, ReplaceOutbound
    <3> QED
      BY <1>0, <3>2, <3>4
  <2> QED
    BY <2>1, <2>2
<1> HIDE DEF new
<1>3. Sound([template EXCEPT !.outbounds = new], free)
  BY <1>2, OutboundsSound DEF TagsIn
<1> QED
  BY <1>3 DEF new

\* DNS servers do not matter to the rules.
LEMMA ServersSound ==
  ASSUME IsTemplate(template), NEW free, Sound(template, free), NEW servers
  PROVE  Sound(PutServers(servers), free)
<1>1. CASE DnsOn(template)
  <2>1. PutServers(servers) = [template EXCEPT !.dns = [template.dns EXCEPT !.servers = servers]]
    BY <1>1 DEF PutServers
  <2>2. \A dns : Sound([template EXCEPT !.dns = dns], free)
    BY PartSound
  <2> QED
    BY <2>1, <2>2
<1>2. CASE ~DnsOn(template)
  BY <1>2 DEF PutServers
<1> QED
  BY <1>1, <1>2

\* The tabs keep every rule a target.
LEMMA TabsSound ==
  ASSUME IsTemplate(template), Sound(template, byHand), Tabs
  PROVE  Sound(template', byHand') /\ byHand \subseteq byHand' /\ UNCHANGED <<dialog, stale>> /\ dialog.kind = "none"
<1> DEFINE Done == Sound(template', byHand') /\ byHand \subseteq byHand' /\ UNCHANGED <<dialog, stale>>
<1>0. IsList(template.rules) /\ \A rule \in Range(template.rules) : Leads(rule, template, byHand)
  BY DEF Sound, Resolves, IsTemplate
<1>a. ASSUME NEW t, Plain(t), Sound(t, byHand)
      PROVE  Done
  BY <1>a DEF Plain, Write, Mutate, SetTemplate
<1>b. ASSUME NEW t, NEW tags, ByHand(t, tags), Sound(t, byHand \cup tags)
      PROVE  Done
  BY <1>b DEF ByHand, Write, Mutate, SetTemplate
<1>c. dialog.kind = "none"
  BY DEF Tabs, MoveRule, FreedomStrategy, BasicLists, General, onObsTextChange, toggleDNS, EditHosts, syncHosts,
         setDnsField, deleteServer, EditFakedns, onAdvancedTextChange, AtRest
<1> SUFFICES Done
  BY <1>c
<1> HIDE DEF Done
<1>1. CASE MoveRule
  <2>1. PICK from, to \in DOMAIN template.rules : Plain([template EXCEPT !.rules = MoveTo(template.rules, from, to)])
    BY <1>1 DEF MoveRule
  <2>2. \A rule \in Range(MoveTo(template.rules, from, to)) : Leads(rule, template, byHand)
    BY <1>0, MoveRange
  <2>3. Sound([template EXCEPT !.rules = MoveTo(template.rules, from, to)], byHand)
    BY <2>2, RulesSound
  <2> QED
    BY <1>a, <2>1, <2>3
<1>2. CASE FreedomStrategy
  <2> DEFINE with == [directSettings EXCEPT !.strategy = "UseIP"]
             t == [template EXCEPT !.outbounds = IF directIndex = 0 THEN Append(@, with) ELSE [@ EXCEPT ![directIndex].strategy = "UseIP"]]
  <2>1. Plain(t)
    BY <1>2 DEF FreedomStrategy
  <2>2. Sound(t, byHand)
    BY FreedomSound
  <2> HIDE DEF t
  <2> QED
    BY <1>a, <2>1, <2>2
<1>3. CASE BasicLists
  <2>1. \A property \in {"ip", "protocol", "domain"} : property \notin TagKeys
    BY DEF TagKeys
  <2>2. "tag" \in DOMAIN directSettings /\ directSettings.tag = "direct" /\ "tag" \in DOMAIN ipv4Settings /\ ipv4Settings.tag = "IPv4"
    BY DEF directSettings, ipv4Settings
  <2>3. PICK data \in Lists :
          \/ \E property \in {"ip", "protocol"} : ByHand(ruleSetter(template, "blocked", property, data), {"blocked"})
          \/ Plain(syncOutbound(ruleSetter(template, "direct", "ip", data), directSettings))
          \/ Plain(syncOutbound(ruleSetter(template, "IPv4", "domain", data), ipv4Settings))
          \/ warpExist /\ Plain(ruleSetter(template, "warp", "domain", data))
          \/ NordIndex(template) # 0 /\ Plain(ruleSetter(template, nordTag, "domain", data))
    BY <1>3 DEF BasicLists
  <2>4. ASSUME NEW property \in {"ip", "protocol"}
        PROVE  Sound(ruleSetter(template, "blocked", property, data), byHand \cup {"blocked"})
    <3>1. byHand \subseteq byHand \cup {"blocked"} /\ "blocked" \in Tags(template) \cup (byHand \cup {"blocked"})
      OBVIOUS
    <3> QED
      BY <2>1, <3>1, SetterSound
  <2>5. ASSUME NEW tag \in Tags(template)
        PROVE  Sound(ruleSetter(template, tag, "domain", data), byHand)
    <3>1. byHand \subseteq byHand /\ tag \in Tags(template) \cup byHand
      OBVIOUS
    <3> QED
      BY <2>1, <3>1, SetterSound
  <2>6. Sound(syncOutbound(ruleSetter(template, directSettings.tag, "ip", data), directSettings), byHand)
    BY <2>1, <2>2, SyncSound
  <2>7. Sound(syncOutbound(ruleSetter(template, ipv4Settings.tag, "domain", data), ipv4Settings), byHand)
    BY <2>1, <2>2, SyncSound
  <2>8. NordIndex(template) # 0 => nordTag \in Tags(template)
    <3>1. IsList(template.outbounds)
      BY DEF Sound, IsRouted, IsOutbounds
    <3>2. NordIndex(template) # 0 => NordIndex(template) \in DOMAIN template.outbounds
      BY <3>1, NordIndexIs
    <3> QED
      BY <3>2 DEF nordTag, Tags, Range
  <2>9. CASE \E property \in {"ip", "protocol"} : ByHand(ruleSetter(template, "blocked", property, data), {"blocked"})
    BY <1>b, <2>4, <2>9
  <2>10. CASE Plain(syncOutbound(ruleSetter(template, "direct", "ip", data), directSettings))
    BY <1>a, <2>2, <2>6, <2>10
  <2>11. CASE Plain(syncOutbound(ruleSetter(template, "IPv4", "domain", data), ipv4Settings))
    BY <1>a, <2>2, <2>7, <2>11
  <2>12. CASE warpExist /\ Plain(ruleSetter(template, "warp", "domain", data))
    BY <1>a, <2>5, <2>12 DEF warpExist
  <2>13. CASE NordIndex(template) # 0 /\ Plain(ruleSetter(template, nordTag, "domain", data))
    BY <1>a, <2>5, <2>8, <2>13
  <2> QED
    BY <2>3, <2>9, <2>10, <2>11, <2>12, <2>13
<1>4. CASE General
  BY <1>4, <1>a, PartSound DEF General
<1>5. CASE onObsTextChange
  <2>1. CASE template.observatory # <<>> /\ Plain([template EXCEPT !.observatory.probe = "typed"])
    BY <1>a, <2>1, ProbeSound
  <2>2. CASE template.burstObservatory # <<>> /\ Plain([template EXCEPT !.burstObservatory.probe = "typed"])
    BY <1>a, <2>2, ProbeSound
  <2> QED
    BY <1>5, <2>1, <2>2 DEF onObsTextChange
<1>6. CASE toggleDNS
  <2>1. PICK dns : Plain([template EXCEPT !.dns = dns, !.fakedns = <<>>])
    BY <1>6 DEF toggleDNS
  <2>2. Sound([template EXCEPT !.dns = dns, !.fakedns = <<>>], byHand)
    BY PartSound
  <2> QED
    BY <1>a, <2>1, <2>2
<1>7. CASE EditHosts
  <2>1. PICK rows : syncHosts(rows)
    BY <1>7 DEF EditHosts
  <2>2. template' = [template EXCEPT !.dns = [template.dns EXCEPT !.hosts = hostsObject(rows)]] /\ UNCHANGED <<dialog, byHand, stale>>
    <3>1. template' = [template EXCEPT !.dns.hosts = hostsObject(rows)] /\ UNCHANGED <<dialog, byHand, stale>>
      BY <2>1 DEF syncHosts, Mutate, SetTemplate
    <3> QED
      BY <3>1
  <2>3. \A dns : Sound([template EXCEPT !.dns = dns], byHand)
    BY PartSound
  <2>4. Sound(template', byHand')
    BY <2>2, <2>3
  <2> QED
    BY <2>2, <2>4 DEF Done
<1>8. CASE setDnsField
  <2>1. PICK dns : Plain([template EXCEPT !.dns = dns])
    BY <1>8 DEF setDnsField
  <2> QED
    BY <1>a, <2>1, PartSound
<1>9. CASE deleteServer
  <2>1. PICK servers : Plain(PutServers(servers))
    BY <1>9 DEF deleteServer
  <2>2. Sound(PutServers(servers), byHand)
    BY ServersSound
  <2> QED
    BY <1>a, <2>1, <2>2
<1>10. CASE EditFakedns
  <2>1. PICK pools : Plain([template EXCEPT !.fakedns = pools])
    BY <1>10 DEF EditFakedns
  <2> QED
    BY <1>a, <2>1, PartSound
<1>11. CASE onAdvancedTextChange
  <2>1. CASE \E outbounds \in Slices : ByHand([template EXCEPT !.outbounds = outbounds], Tags(template) \ {o.tag : o \in Range(outbounds)})
    <3>1. PICK outbounds \in Slices : ByHand([template EXCEPT !.outbounds = outbounds], Tags(template) \ {o.tag : o \in Range(outbounds)})
      BY <2>1
    <3> DEFINE gone == Tags(template) \ {o.tag : o \in Range(outbounds)}
    <3>2. IsOutbounds(outbounds)
      BY EditorAssumption
    <3>3. \A rule \in Range(template.rules) :
             OutboundOf(rule) \in Tags(template) => OutboundOf(rule) \in {o.tag : o \in Range(outbounds)} \cup (byHand \cup gone)
      OBVIOUS
    <3>4. byHand \subseteq byHand \cup gone
      OBVIOUS
    <3>5. Sound([template EXCEPT !.outbounds = outbounds], byHand \cup gone)
      <4> HIDE DEF gone
      <4> QED
        BY <3>2, <3>3, <3>4, OutboundsSound
    <3> QED
      BY <1>b, <3>1, <3>5
  <2>2. CASE \E rules \in RuleSlices : ByHand([template EXCEPT !.rules = rules], UNION {{OutboundOf(rule), BalancerOf(rule)} : rule \in Range(rules)})
    <3>1. PICK rules \in RuleSlices : ByHand([template EXCEPT !.rules = rules], UNION {{OutboundOf(rule), BalancerOf(rule)} : rule \in Range(rules)})
      BY <2>2
    <3> DEFINE typed == UNION {{OutboundOf(rule), BalancerOf(rule)} : rule \in Range(rules)}
    <3>2. \A rule \in Range(rules) : OutboundOf(rule) \in typed /\ BalancerOf(rule) \in typed
      OBVIOUS
    <3> HIDE DEF typed
    <3>3. \A rule \in Range(rules) : Leads(rule, template, byHand \cup typed)
      BY <3>2 DEF Leads
    <3>4. Sound([template EXCEPT !.rules = rules], byHand \cup typed)
      BY <3>3, RulesSound
    <3> QED
      BY <1>b, <3>1, <3>4 DEF typed
  <2> QED
    BY <1>11, <2>1, <2>2 DEF onAdvancedTextChange
<1> QED
  BY <1>1, <1>2, <1>3, <1>4, <1>5, <1>6, <1>7, <1>8, <1>9, <1>10, <1>11 DEF Tabs

\* A rule the form gives back leads where the one it was opened with led, or to what
\* was picked.
LEMMA FormLeads ==
  ASSUME NEW value, NEW free, Leads(value, template, free), NEW form \in RuleInputs(value)
  PROVE  Leads(ruleFrom(form), template, free)
<1> DEFINE was == With(With(value, "outboundTag", OutboundOf(value)), "balancerTag", BalancerOf(value))
           rule == ruleFrom(form)
<1>1. OutboundOf(was) = OutboundOf(value) /\ BalancerOf(was) = BalancerOf(value)
  BY TagWritten
<1>2. \/ \E list : form = With(was, "domain", list)
      \/ \E tag \in outboundTagOptions(template) : form = With(was, "outboundTag", tag)
      \/ \E tag \in balancerTagOptions(template) : form = With(was, "balancerTag", tag)
  BY DEF RuleInputs
<1> HIDE DEF was
<1>3. \A list : OutboundOf(With(was, "domain", list)) = OutboundOf(was) /\ BalancerOf(With(was, "domain", list)) = BalancerOf(was)
  <2> TAKE list
  <2>1. \A k, default : Value(With(was, "domain", list), k, default) = IF k = "domain" THEN list ELSE Value(was, k, default)
    BY WithIs
  <2> QED
    BY <2>1 DEF OutboundOf, BalancerOf
<1>4. Leads(form, template, free)
  <2>1. CASE \E list : form = With(was, "domain", list)
    BY <1>1, <1>3, <2>1 DEF Leads
  <2>2. CASE \E tag \in outboundTagOptions(template) : form = With(was, "outboundTag", tag)
    BY <1>1, <2>2, TagWritten DEF Leads
  <2>3. CASE \E tag \in balancerTagOptions(template) : form = With(was, "balancerTag", tag)
    BY <1>1, <2>3, TagWritten DEF Leads
  <2> QED
    BY <1>2, <2>1, <2>2, <2>3
<1>5. ASSUME NEW key \in TagKeys
      PROVE  Value(rule, key, "") = Value(form, key, "")
  <2>0. key \notin ListKeys
    BY DEF ListKeys, TagKeys
  <2>1. /\ key \in DOMAIN rule <=> key \in DOMAIN form /\ form[key] # ""
        /\ key \in DOMAIN rule => rule[key] = form[key]
    BY <2>0 DEF ruleFrom
  <2> HIDE DEF rule
  <2> QED
    BY <2>1 DEF Value
<1>6. OutboundOf(rule) = OutboundOf(form) /\ BalancerOf(rule) = BalancerOf(form)
  BY <1>5 DEF TagKeys, OutboundOf, BalancerOf
<1> QED
  BY <1>4, <1>6 DEF Leads

\* What the form of a balancer gives back.
LEMMA FormBalances ==
  ASSUME NEW value, IsBalancer(value), NEW form \in BalancerInputs(value)
  PROVE  IsBalancer(balancerWire(form)) /\ (leastPing(balancerWire(form)) \/ burstFeeder(balancerWire(form)))
<1>a. PICK tag \in Names \cup {value.tag}, strategy \in Strategies, target \in Tags(template) \cup Range(value.selector) :
        form = FilledIn(value, tag, strategy, target)
  BY DEF BalancerInputs
<1>1. form = [value EXCEPT !.tag = tag, !.strategy = strategy, !.selector = <<target>>]
  BY <1>a DEF FilledIn
<1>2. DOMAIN form = DOMAIN value /\ form.strategy = strategy
  BY <1>1 DEF IsBalancer
<1>3. IsBalancer(form) /\ form.strategy \in {"random", "leastPing", "leastLoad", "roundRobin"}
  BY <1>2, EditorAssumption DEF IsBalancer
<1> DEFINE wire == balancerWire(form)
<1>4. DOMAIN wire = DOMAIN form /\ wire.strategy = IF form.strategy = "random" THEN "" ELSE form.strategy
  BY <1>3 DEF balancerWire, IsBalancer
<1> HIDE DEF wire
<1>5. IsBalancer(wire) /\ (leastPing(wire) \/ burstFeeder(wire))
  BY <1>3, <1>4 DEF IsBalancer, leastPing, burstFeeder
<1> QED
  BY <1>5 DEF wire

\* So do the dialogs, as long as they fit the draft.
LEMMA ConfirmsSound ==
  ASSUME IsTemplate(template), DialogOK, Flags, Sound(template, byHand), DialogFits, ~stale', Confirms
  PROVE  Sound(template', byHand') /\ byHand \subseteq byHand' /\ DialogFits'
<1> DEFINE Done == Sound(template', byHand') /\ byHand \subseteq byHand' /\ DialogFits'
<1>0. IsList(template.rules) /\ \A rule \in Range(template.rules) : Leads(rule, template, byHand)
  BY DEF Sound, Resolves, IsTemplate
<1>a. ASSUME NEW t, NEW tags, Confirmed(t, tags), dialog.kind # "none", dialog.fresh => Sound(t, byHand \cup tags)
      PROVE  Done
  <2>1. template' = t /\ dialog' = NoDialog /\ byHand' = byHand \cup tags /\ stale' = (stale \/ ~dialog.fresh)
    BY <1>a DEF Confirmed, Write, Mutate, SetTemplate
  <2>2. dialog.fresh
    BY <1>a, <2>1 DEF Flags
  <2>3. DialogFits'
    BY <2>1, DialogStays
  <2> QED
    BY <1>a, <2>1, <2>2, <2>3
<1>b. ASSUME NEW kind, NEW index, NEW value, Opens(kind, index, value), kind \notin {"rule", "balancer"}
      PROVE  Done
  <2>1. UNCHANGED <<template, byHand>> /\ dialog' = Dialog(kind, index, value)
    BY <1>b DEF Opens, draftVars
  <2>2. dialog'.kind = kind
    BY <2>1 DEF Dialog
  <2> QED
    BY <1>b, <2>1, <2>2 DEF DialogFits
<1>c. ASSUME NEW kind, In(kind), kind # "none"
      PROVE  dialog.kind # "none" /\ dialog.kind = kind
  BY <1>c DEF In
<1>d. ASSUME NEW servers
      PROVE  Sound(PutServers(servers), byHand \cup {})
  <2>1. byHand \cup {} = byHand
    OBVIOUS
  <2> QED
    BY <2>1, ServersSound
<1> HIDE DEF Done
<1> SUFFICES Done
  BY DEF Done
<1>1. CASE onRuleConfirm
  <2>1. PICK form \in RuleInputs(dialog.value) : Confirmed([template EXCEPT !.rules = PutAt(template.rules, dialog.index, ruleFrom(form))], {})
    BY <1>1 DEF onRuleConfirm
  <2>2. dialog.kind = "rule"
    BY <1>1 DEF onRuleConfirm, In
  <2> DEFINE rules == PutAt(template.rules, dialog.index, ruleFrom(form))
  <2>3. ASSUME dialog.fresh
        PROVE  Sound([template EXCEPT !.rules = rules], byHand \cup {})
    <3>1. dialog.index \in 0 .. Len(template.rules) /\ Leads(dialog.value, template, byHand)
      BY <2>2, <2>3 DEF DialogFits
    <3>2. dialog.index \in Nat /\ dialog.index <= Len(template.rules)
      BY <1>0, <3>1, ListIs
    <3>3. Range(rules) \subseteq Range(template.rules) \cup {ruleFrom(form)}
      BY <1>0, <3>2, PutRange
    <3>4. Leads(ruleFrom(form), template, byHand)
      BY <3>1, FormLeads
    <3>5. \A rule \in Range(rules) : Leads(rule, template, byHand \cup {})
      BY <1>0, <3>3, <3>4 DEF Leads
    <3> HIDE DEF rules
    <3> QED
      BY <3>5, RulesSound
  <2> HIDE DEF rules
  <2> QED
    BY <1>a, <2>1, <2>2, <2>3 DEF rules
<1>2. CASE confirmDeleteRule
  <2>1. CASE \E i \in DOMAIN template.rules : Opens("deleteRule", i, <<>>)
    BY <1>b, <2>1
  <2>2. CASE In("deleteRule") /\ Confirmed([template EXCEPT !.rules = RemoveIndex(template.rules, dialog.index)], {})
    <3>1. \A rule \in Range(RemoveIndex(template.rules, dialog.index)) : Leads(rule, template, byHand \cup {})
      BY <1>0, RemoveRange DEF Leads
    <3>2. Sound([template EXCEPT !.rules = RemoveIndex(template.rules, dialog.index)], byHand \cup {})
      BY <3>1, RulesSound
    <3> QED
      BY <1>a, <1>c, <2>2, <3>2
  <2> QED
    BY <1>2, <2>1, <2>2 DEF confirmDeleteRule
<1>3. CASE onBalancerConfirm
  <2>1. PICK form \in BalancerInputs(dialog.value) : Confirmed(PutBalancer(template, dialog.index, balancerWire(form)), {})
    BY <1>3 DEF onBalancerConfirm
  <2>2. dialog.kind = "balancer"
    BY <1>3 DEF onBalancerConfirm, In
  <2>3. ASSUME dialog.fresh
        PROVE  Sound(PutBalancer(template, dialog.index, balancerWire(form)), byHand \cup {})
    <3>1. dialog.index \in 0 .. Len(template.balancers) /\ IsBalancer(dialog.value)
      BY <2>2, <2>3 DEF DialogFits
    <3>2. IsBalancer(balancerWire(form)) /\ (leastPing(balancerWire(form)) \/ burstFeeder(balancerWire(form)))
      BY <3>1, FormBalances
    <3>3. Sound(PutBalancer(template, dialog.index, balancerWire(form)), byHand)
      BY <3>1, <3>2, PutBalancerSound
    <3>4. byHand \subseteq byHand \cup {}
      OBVIOUS
    <3> QED
      BY <3>3, <3>4, SoundMore
  <2> QED
    BY <1>a, <2>1, <2>2, <2>3
<1>4. CASE confirmDeleteBalancer
  <2>1. CASE \E i \in DOMAIN template.balancers : Opens("deleteBalancer", i, <<>>)
    BY <1>b, <2>1
  <2> DEFINE gone == IF dialog.index \in DOMAIN template.balancers THEN {template.balancers[dialog.index].tag} ELSE {}
             t == syncObservatories([template EXCEPT !.balancers = RemoveIndex(@, dialog.index)])
  <2>2. CASE In("deleteBalancer") /\ Confirmed(t, gone)
    <3>1. Sound(t, byHand \cup gone)
      BY RemoveBalancerSound
    <3> HIDE DEF t, gone
    <3> QED
      BY <1>a, <1>c, <2>2, <3>1
  <2> QED
    BY <1>4, <2>1, <2>2 DEF confirmDeleteBalancer
<1>5. CASE onServerConfirm
  <2>1. PICK servers : In("server") /\ Confirmed(IF DnsOn(template) THEN PutServers(servers) ELSE template, {})
    BY <1>5 DEF onServerConfirm
  <2>2. (IF DnsOn(template) THEN PutServers(servers) ELSE template) = PutServers(servers)
    BY DEF PutServers
  <2> QED
    BY <1>a, <1>c, <1>d, <2>1, <2>2
<1>6. CASE clearAllServers
  <2>1. CASE Opens("clearServers", 0, <<>>)
    BY <1>b, <2>1
  <2>2. CASE In("clearServers") /\ Confirmed(PutServers(<<>>), {})
    BY <1>a, <1>c, <1>d, <2>2
  <2> QED
    BY <1>6, <2>1, <2>2 DEF clearAllServers
<1>7. CASE onPresetInstall
  <2>1. CASE Opens("presets", 0, <<>>)
    BY <1>b, <2>1
  <2>2. CASE In("presets") /\ \E servers : Confirmed(PutServers(servers), {})
    BY <1>a, <1>c, <1>d, <2>2
  <2> QED
    BY <1>7, <2>1, <2>2 DEF onPresetInstall
<1> QED
  BY <1>1, <1>2, <1>3, <1>4, <1>5, <1>6, <1>7 DEF Confirms

\* So do the answers of WARP and Nord, however late.
LEMMA AnswersSound ==
  ASSUME IsTemplate(template), DialogOK, Flags, AskedFits, Sound(template, byHand), DialogFits, ~stale', Warp \/ Nord
  PROVE  Sound(template', byHand') /\ byHand \subseteq byHand' /\ DialogFits'
<1> DEFINE Done == Sound(template', byHand') /\ byHand \subseteq byHand' /\ DialogFits'
<1>0. IsOutbounds(template.outbounds) /\ TagsIn(template.outbounds) = Tags(template) /\ IsList(template.outbounds)
  BY DEF Sound, IsRouted, IsOutbounds, TagsIn, Tags
<1>a. ASSUME NEW t, Confirmed(t, {}), dialog.kind # "none", Sound(t, byHand)
      PROVE  Done
  <2>1. template' = t /\ dialog' = NoDialog /\ byHand' = byHand \cup {}
    BY <1>a DEF Confirmed, Write, Mutate, SetTemplate
  <2>2. DialogFits'
    BY <2>1, DialogStays
  <2>3. byHand' = byHand
    BY <2>1
  <2> QED
    BY <1>a, <2>1, <2>2, <2>3
<1>b. ASSUME NEW list, IsOutbounds(list), NEW tags, Tags(template) \subseteq TagsIn(list) \cup (byHand \cup tags)
      PROVE  Sound([template EXCEPT !.outbounds = list], byHand \cup tags)
  BY <1>b, OutboundsSound DEF TagsIn
<1>c. \A list : IsOutbounds(list) /\ Tags(template) \subseteq TagsIn(list) => Sound([template EXCEPT !.outbounds = list], byHand)
  BY OutboundsSound DEF TagsIn
<1>d. "tag" \in DOMAIN WarpOutbound /\ WarpOutbound.tag = "warp" /\ \A tag : "tag" \in DOMAIN NordOutbound(tag)
  BY DEF WarpOutbound, NordOutbound
<1> HIDE DEF Done
<1> SUFFICES Done
  BY DEF Done
<1>1. CASE AskWarp \/ AskNord \/ WarpStaged \/ AskFailed \/ loginNord
  <2>1. UNCHANGED <<dialog, template, byHand>>
    BY <1>1 DEF AskWarp, AskNord, Ask, WarpStaged, AskFailed, loginNord, draftVars
  <2>2. DialogFits'
    BY <2>1, DialogStays
  <2> QED
    BY <2>1, <2>2 DEF Done
<1>2. CASE delConfig
  <2>1. /\ template' = [template EXCEPT !.outbounds = RemoveIndex(template.outbounds, WarpIndex)]
        /\ byHand' = byHand \cup {"warp"} /\ (dialog' = NoDialog \/ dialog' = Overtaken(dialog))
    BY <1>2 DEF delConfig, Answer, SetTemplate
  <2>2. IsOutbounds(RemoveIndex(template.outbounds, WarpIndex))
    BY <1>0, RemoveOutbound
  <2>3. Tags(template) \subseteq TagsIn(RemoveIndex(template.outbounds, WarpIndex)) \cup (byHand \cup {"warp"})
    <3>1. WarpIndex = 0 \/ (WarpIndex \in DOMAIN template.outbounds /\ template.outbounds[WarpIndex].tag = "warp")
      BY <1>0, TagIndexIs DEF WarpIndex
    <3>2. 0 \notin DOMAIN template.outbounds
      BY <1>0, ListIs
    <3>3. /\ WarpIndex \in DOMAIN template.outbounds =>
               TagsIn(template.outbounds) \subseteq TagsIn(RemoveIndex(template.outbounds, WarpIndex)) \cup {template.outbounds[WarpIndex].tag}
          /\ WarpIndex \notin DOMAIN template.outbounds => RemoveIndex(template.outbounds, WarpIndex) = template.outbounds
      BY <1>0, RemoveOutbound
    <3> QED
      BY <1>0, <3>1, <3>2, <3>3
  <2>4. Sound(template', byHand')
    BY <1>b, <2>1, <2>2, <2>3
  <2>5. DialogFits'
    BY <2>1, DialogStays
  <2> QED
    BY <2>1, <2>4, <2>5 DEF Done
<1>3. CASE addWarp
  <2>1. Confirmed([template EXCEPT !.outbounds = Append(template.outbounds, WarpOutbound)], {}) /\ dialog.kind # "none"
    BY <1>3 DEF addWarp, In
  <2>2. /\ IsOutbounds(Append(template.outbounds, WarpOutbound))
        /\ TagsIn(Append(template.outbounds, WarpOutbound)) = TagsIn(template.outbounds) \cup {WarpOutbound.tag}
    BY <1>0, <1>d, AppendOutbound
  <2> QED
    BY <1>0, <1>a, <1>c, <2>1, <2>2
<1>4. CASE resetWarp
  <2> DEFINE list == [template.outbounds EXCEPT ![WarpIndex] = WarpOutbound]
  <2>1. Confirmed([template EXCEPT !.outbounds = list], {}) /\ dialog.kind # "none" /\ warpExist
    <3>1. Confirmed([template EXCEPT !.outbounds[WarpIndex] = WarpOutbound], {}) /\ dialog.kind # "none" /\ warpExist
      BY <1>4 DEF resetWarp, In
    <3> QED
      BY <3>1
  <2>2. WarpIndex \in DOMAIN template.outbounds /\ template.outbounds[WarpIndex].tag = "warp"
    BY <1>0, <2>1, TagIndexIs DEF WarpIndex, warpExist
  <2>3. IsOutbounds(list) /\ TagsIn(template.outbounds) \subseteq TagsIn(list) \cup {template.outbounds[WarpIndex].tag} /\ WarpOutbound.tag \in TagsIn(list)
    BY <1>0, <1>d, <2>2, ReplaceOutbound
  <2> HIDE DEF list
  <2>4. Tags(template) \subseteq TagsIn(list)
    BY <1>0, <1>d, <2>2, <2>3
  <2> QED
    BY <1>a, <1>c, <2>1, <2>3, <2>4
<1>5. CASE logout
  <2>1. /\ template' = LoggedOut(template, asked.index) /\ asked.kind = "nordDel" /\ dialog' = Overtaken(dialog)
        /\ stale' = (stale \/ ~asked.fresh) /\ byHand' = byHand
    BY <1>5 DEF logout, Answer, SetTemplate, LoggedOut
  <2>2. asked.index = NordIndex(template)
    BY <2>1 DEF AskedFits, Flags
  <2>3. Sound(template', byHand')
    BY <2>1, <2>2, LoggedOutSound
  <2>4. DialogFits'
    BY <2>1, DialogStays
  <2> QED
    BY <2>1, <2>3, <2>4 DEF Done
<1>6. CASE PickNord
  <2>0. dialog.kind # "none"
    BY <1>6 DEF PickNord, In
  <2>1. PICK tag \in NordTags :
          Confirmed(IF NordIndex(template) = 0 THEN [template EXCEPT !.outbounds = Append(template.outbounds, NordOutbound(tag))]
                    ELSE resetNord(template, tag), {})
    BY <1>6 DEF PickNord
  <2>2. CASE NordIndex(template) = 0
    <3>1. /\ IsOutbounds(Append(template.outbounds, NordOutbound(tag)))
          /\ TagsIn(Append(template.outbounds, NordOutbound(tag))) = TagsIn(template.outbounds) \cup {NordOutbound(tag).tag}
      BY <1>0, <1>d, AppendOutbound
    <3>2. Sound([template EXCEPT !.outbounds = Append(template.outbounds, NordOutbound(tag))], byHand)
      BY <1>0, <1>c, <3>1
    <3> QED
      BY <1>a, <2>0, <2>1, <2>2, <3>2
  <2>3. CASE NordIndex(template) # 0
    <3>1. Sound(resetNord(template, tag), byHand)
      BY <2>3, ResetNordSound
    <3> QED
      BY <1>a, <2>0, <2>1, <2>3, <3>1
  <2> QED
    BY <2>2, <2>3
<1> QED
  BY <1>1, <1>2, <1>3, <1>4, <1>5, <1>6 DEF Warp, Nord

\* A dialog that opens fits the draft.
LEMMA OpensFit ==
  ASSUME IsTemplate(template), DialogOK, Flags, Sound(template, byHand), DialogFits, Dialogs
  PROVE  UNCHANGED <<template, byHand>> /\ DialogFits'
<1>0. /\ IsList(template.rules) /\ Len(template.rules) \in Nat /\ DOMAIN template.rules = 1 .. Len(template.rules)
      /\ \A i \in DOMAIN template.rules : Leads(template.rules[i], template, byHand)
  BY ListIs DEF Sound, Resolves, IsTemplate
<1>1. /\ Len(template.balancers) \in Nat /\ DOMAIN template.balancers = 1 .. Len(template.balancers)
      /\ \A i \in DOMAIN template.balancers : IsBalancer(template.balancers[i])
  BY ListIs DEF Sound, IsRouted
<1>a. ASSUME NEW kind, NEW index, NEW value, Opens(kind, index, value),
             kind = "rule" => index \in 0 .. Len(template.rules) /\ Leads(value, template, byHand),
             kind = "balancer" => index \in 0 .. Len(template.balancers) /\ IsBalancer(value)
      PROVE  UNCHANGED <<template, byHand>> /\ DialogFits'
  <2>1. UNCHANGED <<template, byHand>> /\ dialog' = Dialog(kind, index, value)
    BY <1>a DEF Opens, draftVars
  <2>2. dialog'.kind = kind /\ dialog'.index = index /\ dialog'.value = value
    BY <2>1 DEF Dialog
  <2> QED
    BY <1>a, <2>1, <2>2 DEF DialogFits
<1>2. CASE openRule
  <2>1. CASE Opens("rule", 0, <<>>)
    <3>1. DOMAIN <<>> = {}
      OBVIOUS
    <3>2. OutboundOf(<<>>) = "" /\ BalancerOf(<<>>) = ""
      BY <3>1 DEF OutboundOf, BalancerOf, Value
    <3>3. Leads(<<>>, template, byHand)
      BY <3>2 DEF Leads, outboundTagOptions, balancerTagOptions
    <3>4. 0 \in 0 .. Len(template.rules)
      BY <1>0
    <3> QED
      BY <1>a, <2>1, <3>3, <3>4
  <2>2. CASE \E i \in DOMAIN template.rules : Opens("rule", i, template.rules[i])
    <3>1. PICK i \in DOMAIN template.rules : Opens("rule", i, template.rules[i])
      BY <2>2
    <3>2. i \in 0 .. Len(template.rules) /\ Leads(template.rules[i], template, byHand)
      BY <1>0
    <3> QED
      BY <1>a, <3>1, <3>2
  <2> QED
    BY <1>2, <2>1, <2>2 DEF openRule
<1>3. CASE openBalancer
  <2>1. CASE Opens("balancer", 0, NewBalancer)
    <3>1. IsBalancer(NewBalancer)
      BY DEF NewBalancer, IsBalancer
    <3>2. 0 \in 0 .. Len(template.balancers)
      BY <1>1
    <3> QED
      BY <1>a, <2>1, <3>1, <3>2
  <2>2. CASE \E i \in DOMAIN template.balancers : Opens("balancer", i, balancerForm(template.balancers[i]))
    <3>1. PICK i \in DOMAIN template.balancers : Opens("balancer", i, balancerForm(template.balancers[i]))
      BY <2>2
    <3>2. i \in 0 .. Len(template.balancers) /\ IsBalancer(balancerForm(template.balancers[i]))
      BY <1>1 DEF balancerForm, IsBalancer
    <3> QED
      BY <1>a, <3>1, <3>2
  <2> QED
    BY <1>3, <2>1, <2>2 DEF openBalancer
<1>4. CASE openServer
  BY <1>4, <1>a DEF openServer
<1>5. CASE openNord
  BY <1>5, <1>a DEF openNord
<1>6. CASE openWarp
  <2>1. UNCHANGED <<template, byHand>> /\ dialog' = Dialog("warp", 0, <<>>)
    BY <1>6 DEF openWarp, draftVars
  <2>2. dialog'.kind = "warp"
    BY <2>1 DEF Dialog
  <2> QED
    BY <2>1, <2>2 DEF DialogFits
<1>7. CASE Close
  <2>1. UNCHANGED <<template, byHand>> /\ dialog' = NoDialog
    BY <1>7 DEF Close, draftVars
  <2> QED
    BY <2>1, DialogStays
<1> QED
  BY <1>2, <1>3, <1>4, <1>5, <1>6, <1>7 DEF Dialogs

\* Every step of the page keeps the noted index true or notes that it is old.
LEMMA AskedStep ==
  ASSUME IsTemplate(template), AskedFits, [EditorNext]_vars
  PROVE  AskedFits'
<1>a. /\ asked' = NothingAsked => AskedFits'
      /\ (UNCHANGED asked /\ template'.outbounds = template.outbounds) => AskedFits'
      /\ AskedFollows(template') => AskedFits'
  BY AskedStays
<1>b. UNCHANGED <<asked, template>> => AskedFits'
  BY <1>a
<1>c. ASSUME NEW t, Write(t)
      PROVE  AskedFits'
  <2>1. template' = t
    BY <1>c DEF Write, Mutate, SetTemplate
  <2> QED
    BY <1>a, <1>c, <2>1 DEF Write
<1>d. ASSUME NEW t, NEW tags, Plain(t) \/ ByHand(t, tags) \/ Confirmed(t, tags)
      PROVE  AskedFits'
  BY <1>c, <1>d DEF Plain, ByHand, Confirmed
<1>e. ASSUME NEW kind, NEW index, NEW value, Opens(kind, index, value)
      PROVE  AskedFits'
  BY <1>b, <1>e DEF Opens, draftVars
<1>1. CASE Dialogs
  <2>1. CASE openRule \/ openBalancer \/ openServer \/ openNord
    BY <1>e, <2>1 DEF openRule, openBalancer, openServer, openNord
  <2>2. CASE openWarp \/ Close
    BY <1>b, <2>2 DEF openWarp, Close, draftVars
  <2> QED
    BY <1>1, <2>1, <2>2 DEF Dialogs
<1>2. CASE Tabs
  <2>1. CASE MoveRule \/ FreedomStrategy \/ BasicLists \/ General
    BY <1>d, <2>1 DEF MoveRule, FreedomStrategy, BasicLists, General
  <2>2. CASE onObsTextChange \/ toggleDNS \/ setDnsField \/ deleteServer \/ EditFakedns \/ onAdvancedTextChange
    BY <1>d, <2>2 DEF onObsTextChange, toggleDNS, setDnsField, deleteServer, EditFakedns, onAdvancedTextChange
  <2>3. CASE EditHosts
    <3>1. PICK rows : syncHosts(rows)
      BY <2>3 DEF EditHosts
    <3>2. template' = [template EXCEPT !.dns.hosts = hostsObject(rows)] /\ UNCHANGED asked
      BY <3>1 DEF syncHosts, Mutate, SetTemplate
    <3>3. template'.outbounds = template.outbounds
      BY <3>2
    <3> QED
      BY <1>a, <3>2, <3>3
  <2> QED
    BY <1>2, <2>1, <2>2, <2>3 DEF Tabs
<1>3. CASE Confirms
  BY <1>3, <1>d, <1>e DEF Confirms, onRuleConfirm, confirmDeleteRule, onBalancerConfirm, confirmDeleteBalancer, onServerConfirm, clearAllServers, onPresetInstall
<1>4. CASE Warp \/ Nord
  <2>1. CASE AskWarp
    <3>1. asked'.kind # "nordDel"
      BY <2>1 DEF AskWarp
    <3> QED
      BY <3>1 DEF AskedFits
  <2>2. CASE AskNord
    <3>1. asked' = [kind |-> "nordDel", index |-> NordIndex(template), fresh |-> TRUE] /\ UNCHANGED template
      BY <2>2 DEF AskNord, Ask
    <3>2. asked'.index = NordIndex(template) /\ asked'.fresh = TRUE /\ DOMAIN asked' = {"kind", "index", "fresh"}
      BY <3>1
    <3>3. NordIndex(template') = NordIndex(template)
      BY <3>1, NordIndexAlike
    <3> QED
      BY <3>2, <3>3 DEF AskedFits
  <2>3. CASE loginNord
    BY <1>b, <2>3 DEF loginNord, draftVars
  <2>4. CASE WarpStaged \/ AskFailed \/ delConfig \/ logout
    BY <1>a, <2>4 DEF WarpStaged, AskFailed, delConfig, logout
  <2>5. CASE addWarp \/ resetWarp \/ PickNord
    BY <1>d, <2>5 DEF addWarp, resetWarp, PickNord
  <2> QED
    BY <1>4, <2>1, <2>2, <2>3, <2>4, <2>5 DEF Warp, Nord
<1>5. CASE TypeJson \/ DefaultShown \/ Refetched
  BY <1>5, <1>a DEF TypeJson, DefaultShown, Refetched
<1>6. CASE Press
  BY <1>6, <1>b DEF Press, onSaveAll, resetToDefault, editorVars
<1>7. CASE Background
  BY <1>7, <1>b DEF Background, updateSetting, SaveAnswered, SaveFailed, getXraySetting, Poll, fetchAll, editorVars
<1>8. CASE Unfetched
  BY <1>8, <1>b DEF Unfetched, RefetchFails
<1>9. CASE UNCHANGED vars
  BY <1>9, <1>b DEF vars, draftVars, editorVars
<1> QED
  BY <1>1, <1>2, <1>3, <1>4, <1>5, <1>6, <1>7, <1>8, <1>9 DEF EditorNext

\* The flags are flags, and what was stale stays so.
LEMMA FlagsStep ==
  ASSUME DialogOK, Flags, AskedFits, [EditorNext]_vars
  PROVE  Flags' /\ (~stale' => ~stale)
<1>0. NoDialog.kind = "none"
  BY DEF NoDialog
<1>1. stale' = stale \/ stale' = (stale \/ ~dialog.fresh) \/ (stale' = (stale \/ ~asked.fresh))
  BY DEF EditorNext, vars, editorVars,
         Dialogs, openRule, openBalancer, openServer, openWarp, openNord, Opens, Close,
         Tabs, MoveRule, FreedomStrategy, BasicLists, General, onObsTextChange, toggleDNS, EditHosts, syncHosts,
         setDnsField, deleteServer, EditFakedns, onAdvancedTextChange, Plain, ByHand, Confirmed,
         Confirms, onRuleConfirm, confirmDeleteRule, onBalancerConfirm, confirmDeleteBalancer, onServerConfirm, clearAllServers, onPresetInstall,
         Warp, AskWarp, WarpStaged, AskFailed, delConfig, addWarp, resetWarp,
         Nord, loginNord, AskNord, logout, PickNord,
         TypeJson, Press, Background, DefaultShown, Refetched, Unfetched, Unmoved
<1>2. dialog' = dialog \/ dialog' = NoDialog \/ dialog' = Overtaken(dialog) \/ \E kind, index, value : dialog' = Dialog(kind, index, value)
  BY DEF EditorNext, vars, editorVars,
         Dialogs, openRule, openBalancer, openServer, openWarp, openNord, Opens, Close,
         Tabs, MoveRule, FreedomStrategy, BasicLists, General, onObsTextChange, toggleDNS, EditHosts, syncHosts,
         setDnsField, deleteServer, EditFakedns, onAdvancedTextChange, Plain, ByHand, Confirmed,
         Confirms, onRuleConfirm, confirmDeleteRule, onBalancerConfirm, confirmDeleteBalancer, onServerConfirm, clearAllServers, onPresetInstall,
         Warp, AskWarp, WarpStaged, AskFailed, delConfig, addWarp, resetWarp,
         Nord, loginNord, AskNord, logout, PickNord,
         TypeJson, Press, Background, DefaultShown, Refetched, Unfetched
<1>3. dialog'.kind # "none" => dialog'.fresh \in BOOLEAN
  <2>1. CASE dialog' = dialog
    BY <2>1 DEF Flags
  <2>2. CASE dialog' = NoDialog
    BY <1>0, <2>2
  <2>3. CASE dialog' = Overtaken(dialog)
    <3>1. CASE dialog = NoDialog
      BY <1>0, <2>3, <3>1 DEF Overtaken
    <3>2. CASE dialog # NoDialog
      <4>1. PICK kind, index, value, fresh : dialog = [kind |-> kind, index |-> index, value |-> value, fresh |-> fresh]
        BY <3>2 DEF DialogOK, IsDialog
      <4>2. [dialog EXCEPT !.fresh = FALSE].fresh = FALSE
        BY <4>1
      <4> QED
        BY <2>3, <4>2 DEF Overtaken, Flags
    <3> QED
      BY <3>1, <3>2
  <2>4. CASE \E kind, index, value : dialog' = Dialog(kind, index, value)
    BY <2>4 DEF Dialog
  <2> QED
    BY <1>2, <2>1, <2>2, <2>3, <2>4
<1>4. stale' \in BOOLEAN /\ (~stale' => ~stale)
  <2>1. CASE stale' = stale
    BY <2>1 DEF Flags
  <2>2. CASE stale' = (stale \/ ~dialog.fresh)
    BY <2>2 DEF Flags
  <2>3. CASE stale' = (stale \/ ~asked.fresh)
    BY <2>3 DEF Flags
  <2> QED
    BY <1>1, <2>1, <2>2, <2>3
<1> QED
  BY <1>3, <1>4 DEF Flags

\* Every step of the page keeps the invariant.
LEMMA RoutingStep ==
  ASSUME Shapes, DialogOK, IsList(hostsList), RoutingInv, [EditorNext]_vars
  PROVE  RoutingInv'
<1>0. IsTemplate(template) /\ Flags /\ AskedFits /\ [DraftNext]_draftVars
  BY EditorStep DEF Shapes, RoutingInv
<1>1. Flags' /\ (~stale' => ~stale) /\ AskedFits'
  BY <1>0, FlagsStep, AskedStep
<1> SUFFICES ASSUME ~stale'
             PROVE  HeldSound' /\ DialogFits'
  BY <1>1 DEF RoutingInv
<1>2. ~stale /\ HeldSound /\ DialogFits /\ Sound(template, byHand)
  BY <1>1 DEF RoutingInv, HeldSound
<1>a. ASSUME UNCHANGED <<template, byHand>>
      PROVE  Sound(template', byHand') /\ byHand \subseteq byHand'
  BY <1>2, <1>a
<1>b. /\ dialog' = NoDialog => DialogFits'
      /\ dialog' = Overtaken(dialog) => DialogFits'
      /\ (dialog' = dialog /\ dialog.kind \notin {"rule", "balancer"}) => DialogFits'
      /\ UNCHANGED <<dialog, template, byHand>> => DialogFits'
  BY <1>0, <1>2, DialogStays
<1>c. \A t \in Stored \cup Typed \cup {Default} : Sound(t, {})
  BY EditorAssumption DEF Sound
<1>d. \A t \in Stored \cup Typed \cup {Default} : Sound(t, byHand)
  <2> TAKE t \in Stored \cup Typed \cup {Default}
  <2>1. {} \subseteq byHand
    OBVIOUS
  <2> QED
    BY <1>c, <2>1, SoundMore
<1>3. Sound(template', byHand') /\ byHand \subseteq byHand' /\ DialogFits'
  <2>1. CASE Dialogs
    BY <1>0, <1>2, <1>a, <2>1, OpensFit
  <2>2. CASE Tabs
    <3>1. Sound(template', byHand') /\ byHand \subseteq byHand' /\ UNCHANGED dialog /\ dialog.kind = "none"
      BY <1>0, <1>2, <2>2, TabsSound
    <3> QED
      BY <1>b, <3>1
  <2>3. CASE Confirms
    BY <1>0, <1>2, <2>3, ConfirmsSound
  <2>4. CASE Warp \/ Nord
    BY <1>0, <1>2, <2>4, AnswersSound
  <2>5. CASE TypeJson
    <3>1. dialog.kind = "none" /\ UNCHANGED <<dialog, byHand>>
      BY <2>5 DEF TypeJson, AtRest, Unmoved
    <3>2. PICK next \in {JsonOf(t) : t \in Typed} \cup {BadJson} : template' = IF next = BadJson THEN template ELSE next.of
      BY <2>5 DEF TypeJson, TypeText
    <3>3. template' = template \/ template' \in Typed
      BY <3>2, TextIs
    <3> QED
      BY <1>2, <1>b, <1>d, <3>1, <3>3
  <2>6. CASE Press \/ Background \/ UNCHANGED vars
    <3>1. UNCHANGED <<dialog, template, byHand>>
      BY <2>6 DEF Press, onSaveAll, resetToDefault, Background, updateSetting, SaveAnswered, SaveFailed, getXraySetting, Poll, fetchAll,
                  vars, draftVars, editorVars
    <3> QED
      BY <1>a, <1>b, <3>1
  <2>7. CASE DefaultShown
    <3>1. (template' = Default \/ template' = template) /\ byHand' = byHand /\ dialog' = Overtaken(dialog)
      BY <2>7 DEF DefaultShown, DefaultArrives, SetTemplate, Unmoved
    <3> QED
      BY <1>2, <1>b, <1>d, <3>1
  <2>8. CASE Refetched
    <3>1. /\ refetch.at = "read" /\ (template' = refetch.got \/ template' = template)
          /\ byHand' = byHand /\ dialog' = Overtaken(dialog)
      BY <2>8 DEF Refetched, RefetchArrives, SetTemplate, Unmoved
    <3> QED
      BY <1>2, <1>b, <3>1 DEF HeldSound
  <2>9. CASE Unfetched
    <3>1. UNCHANGED <<template, byHand>> /\ (dialog' = dialog \/ dialog' = NoDialog)
      BY <2>9 DEF Unfetched, RefetchFails
    <3> QED
      BY <1>a, <1>b, <3>1
  <2> QED
    BY <2>1, <2>2, <2>3, <2>4, <2>5, <2>6, <2>7, <2>8, <2>9 DEF EditorNext
<1>4. HeldSound'
  BY <1>0, <1>2, <1>3, HeldStays
<1> QED
  BY <1>3, <1>4

\* Every rule of the draft leads to an outbound or a balancer there is and every
\* balancer is watched, whatever the tabs, the dialogs, late answers, saves and
\* refetches did in whatever order (pages/xray/), for templates, names and lists of
\* any size: the run's property.
THEOREM RoutingIsSound == EditorSpec => []RoutingResolves
<1>1. EditorInit => RoutingInv
  <2> SUFFICES ASSUME EditorInit
               PROVE  RoutingInv
    OBVIOUS
  <2>1. /\ server \in Stored /\ text = JsonOf(server) /\ template = server /\ saving = Idle /\ refetch = Idle
        /\ dialog = NoDialog /\ asked = NothingAsked /\ byHand = {} /\ stale = FALSE
    BY DEF EditorInit, DraftInit
  <2>2. Sound(server, byHand) /\ text.of = server
    BY <2>1, EditorAssumption, TextIs DEF Sound
  <2>3. Idle.at # "read" /\ NoDialog.kind = "none" /\ NothingAsked.kind = "none"
    BY DEF Idle, NoDialog, NothingAsked
  <2> QED
    BY <2>1, <2>2, <2>3 DEF RoutingInv, Flags, AskedFits, HeldSound, DialogFits
<1>2. DraftInv /\ DialogOK /\ RowsOK /\ RoutingInv /\ [EditorNext]_vars => RoutingInv'
  BY RoutingStep DEF DraftInv, RowsOK
<1>3. RoutingInv => RoutingResolves
  BY DEF RoutingInv, HeldSound, Sound, RoutingResolves
<1> QED
  BY <1>1, <1>2, <1>3, EditorInv, PTL DEF EditorSpec

==============================================================================
