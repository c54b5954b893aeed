---------------------------- MODULE TemplateDraft ----------------------------
(***************************************************************************)
(* The draft of the Xray template in the browser (hooks/useXraySetting.ts  *)
(* and the buttons of pages/xray/XrayPage.tsx): the text of the advanced   *)
(* editor and the object the other tabs edit, saved to the panel and       *)
(* fetched again.  Requests and answers are separate steps, so edits fall  *)
(* between them.  The outbound test URL is saved with the text and is left *)
(* out; two texts of one object count as the same text.                    *)
(***************************************************************************)
EXTENDS Integers, SequencesExt

CONSTANTS Stored,      \* templates the panel may have in its database
          Typed,       \* templates somebody types into the editor
          Default,     \* the template the panel is shipped with
          MaxEdits     \* bound: edits of the draft

VARIABLES server,      \* the template in the database
          cached,      \* the answer of the query, as last fetched
          text,        \* the editor: JsonOf(t), or BadJson
          template,    \* the object the tabs show
          old,         \* the text that counts as saved
          saveDisabled,
          saving,      \* the save under way
          refetch,     \* the refetch under way
          fetchError,  \* the last one failed: the page shows the error and no tab
          resetting,   \* the default template has been asked for
          unsure,      \* a save was stored although its answer said it failed
          edits
draftVars == <<server, cached, text, template, old, saveDisabled, saving, refetch, fetchError, resetting, unsure, edits>>

JsonOf(t) == [json |-> TRUE, of |-> t]
BadJson == [json |-> FALSE]
Idle == [at |-> "idle"]

\* A list, whatever its elements are; a template is a record with a list of rules
\* and, unless DNS is off, a list of hosts.
IsList(list) == list \in Seq(Range(list))
IsTemplate(t) ==
  /\ {"rules", "dns"} \subseteq DOMAIN t /\ IsList(t.rules)
  /\ t.dns # <<>> => "hosts" \in DOMAIN t.dns /\ IsList(t.dns.hosts)
ASSUME DraftAssumption == \A t \in Stored \cup Typed \cup {Default} : IsTemplate(t)

\* The panel puts the first rule of the api inbound before all others, or makes one.
ApiRule == [outboundTag |-> "api", inboundTag |-> <<"api">>]
IsApiRule(rule) ==
  {"outboundTag", "inboundTag"} \subseteq DOMAIN rule /\ rule["outboundTag"] = "api" /\ "api" \in Range(rule["inboundTag"])
findApiRule(rules) ==
  LET found == {i \in DOMAIN rules : IsApiRule(rules[i])}
  IN IF found = {} THEN 0 ELSE CHOOSE i \in found : \A j \in found : i <= j
EnsureStatsRouting(t) ==
  LET apiIdx == findApiRule(t.rules)
  IN CASE apiIdx = 1 -> t
       [] apiIdx = 0 -> [t EXCEPT !.rules = <<ApiRule>> \o @]
       [] apiIdx > 1 -> [t EXCEPT !.rules = <<@[apiIdx]>> \o RemoveAt(@, apiIdx)]

------------------------------------------------------------------------------
\* The page after its first fetch.
DraftInit ==
  /\ server \in Stored /\ cached = server
  /\ text = JsonOf(server) /\ template = server /\ old = text
  /\ saveDisabled = TRUE /\ saving = Idle /\ refetch = Idle
  /\ fetchError = FALSE /\ resetting = FALSE /\ unsure = FALSE /\ edits = 0

Shown == ~fetchError
CanEdit == Shown /\ edits < MaxEdits

\* setTemplateSettings: what a tab or a dialog writes.
SetTemplate(t) == template' = t /\ text' = JsonOf(t)
Mutate(t) ==
  /\ CanEdit /\ SetTemplate(t) /\ edits' = edits + 1
  /\ UNCHANGED <<server, cached, old, saveDisabled, saving, refetch, fetchError, resetting, unsure>>

\* A request of a dialog counts as an edit for the bound.
Ask == CanEdit /\ edits' = edits + 1 /\ UNCHANGED <<server, cached, text, template, old, saveDisabled, saving, refetch, fetchError, resetting, unsure>>

\* setXraySetting: the object follows the text as long as it can be read.
TypeText ==
  /\ CanEdit
  /\ \E next \in {JsonOf(t) : t \in Typed} \cup {BadJson} :
       text' = next /\ template' = IF next = BadJson THEN template ELSE next.of
  /\ edits' = edits + 1
  /\ UNCHANGED <<server, cached, old, saveDisabled, saving, refetch, fetchError, resetting, unsure>>

\* The button is enabled by a timer, not by the edit.
Poll ==
  /\ saveDisabled' = (old = text)
  /\ UNCHANGED <<server, cached, text, template, old, saving, refetch, fetchError, resetting, unsure, edits>>

------------------------------------------------------------------------------
\* A text that is no JSON is not sent; the overlay keeps the button from a second click.
onSaveAll ==
  /\ Shown /\ ~saveDisabled /\ text # BadJson /\ saving = Idle /\ ~resetting
  /\ saving' = [at |-> "sent", sent |-> text]
  /\ UNCHANGED <<server, cached, text, template, old, saveDisabled, refetch, fetchError, resetting, unsure, edits>>

\* The panel stores the text, refuses it or never gets it; or it stores it and
\* the answer says that something failed (the URL was refused, the answer lost).
updateSetting ==
  /\ saving.at = "sent"
  /\ \/ server' = EnsureStatsRouting(saving.sent.of) /\ saving' = [saving EXCEPT !.at = "saved"] /\ UNCHANGED unsure
     \/ saving' = [saving EXCEPT !.at = "failed"] /\ UNCHANGED <<server, unsure>>
     \/ /\ server' = EnsureStatsRouting(saving.sent.of) /\ unsure' = TRUE
        /\ saving' = [saving EXCEPT !.at = "failed"]
  /\ UNCHANGED <<cached, text, template, old, saveDisabled, refetch, fetchError, resetting, edits>>

\* Mutant: what is shown when the answer arrives counts as saved.
SaveAnswered_OldIsShown ==
  /\ saving.at = "saved"
  /\ old' = text /\ saveDisabled' = TRUE /\ saving' = Idle
  /\ refetch' = [at |-> "asked"] /\ unsure' = FALSE
  /\ UNCHANGED <<server, cached, text, template, fetchError, resetting, edits>>

\* What was sent counts as saved, and the query is asked again: a refetch under
\* way is dropped for the new one.
SaveAnswered ==
  /\ saving.at = "saved"
  /\ old' = saving.sent /\ saveDisabled' = TRUE /\ saving' = Idle
  /\ refetch' = [at |-> "asked"] /\ unsure' = FALSE
  /\ UNCHANGED <<server, cached, text, template, fetchError, resetting, edits>>

SaveFailed ==
  /\ saving.at = "failed" /\ saving' = Idle
  /\ UNCHANGED <<server, cached, text, template, old, saveDisabled, refetch, fetchError, resetting, unsure, edits>>

getXraySetting ==
  /\ refetch.at = "asked"
  /\ refetch' = [at |-> "read", got |-> server]
  /\ UNCHANGED <<server, cached, text, template, old, saveDisabled, saving, fetchError, resetting, unsure, edits>>

\* The effect on the query's data seeds the draft; an answer equal to the last
\* one is the same object and no effect runs.
Seeds(got) == got # cached
RefetchArrives ==
  /\ refetch.at = "read"
  /\ refetch' = Idle /\ cached' = refetch.got /\ fetchError' = FALSE
  /\ IF Seeds(refetch.got)
     THEN SetTemplate(refetch.got) /\ old' = JsonOf(refetch.got) /\ saveDisabled' = TRUE
     ELSE UNCHANGED <<text, template, old, saveDisabled>>
  /\ UNCHANGED <<server, saving, resetting, unsure, edits>>

\* The page shows the error and a button that asks again.
RefetchFails ==
  /\ refetch.at \in {"asked", "read"} /\ refetch' = Idle /\ fetchError' = TRUE
  /\ UNCHANGED <<server, cached, text, template, old, saveDisabled, saving, resetting, unsure, edits>>
fetchAll ==
  /\ fetchError /\ refetch = Idle /\ refetch' = [at |-> "asked"]
  /\ UNCHANGED <<server, cached, text, template, old, saveDisabled, saving, fetchError, resetting, unsure, edits>>

resetToDefault ==
  /\ Shown /\ ~resetting /\ saving = Idle /\ edits < MaxEdits
  /\ resetting' = TRUE /\ edits' = edits + 1
  /\ UNCHANGED <<server, cached, text, template, old, saveDisabled, saving, refetch, fetchError, unsure>>
DefaultArrives ==
  /\ resetting /\ resetting' = FALSE
  /\ SetTemplate(Default) \/ UNCHANGED <<text, template>>
  /\ UNCHANGED <<server, cached, old, saveDisabled, saving, refetch, fetchError, unsure, edits>>

------------------------------------------------------------------------------
Dirty == text # old
Quiet == saving = Idle /\ refetch = Idle /\ ~resetting

\* When nothing is under way, a draft that counts as saved is what the panel has,
\* however saves, edits, refetches and failures were interleaved; only a save that
\* was stored although its answer said otherwise can make the two differ.
CleanIsStored ==
  Quiet /\ ~Dirty /\ ~unsure => text # BadJson /\ EnsureStatsRouting(text.of) = EnsureStatsRouting(server)
==============================================================================
