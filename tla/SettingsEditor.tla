--------------------------- MODULE SettingsEditor ---------------------------
(***************************************************************************)
(* The settings page (pages/settings/, hooks useAllSettings): a draft of   *)
(* all settings beside the copy last read, its save and the read after it, *)
(* the traffic multiplier that is written at once, the two-factor dialog,  *)
(* the API tokens and the restart of the panel, with the handlers of       *)
(* web/controller/setting.go they call.  Settings are a function from      *)
(* field to value; the fields are one of each kind.  "" stored for a JSON  *)
(* text is <<>>, a text is the tuple of what it holds.                     *)
(***************************************************************************)
EXTENDS Integers, Sequences, SequencesExt, TLC

CONSTANTS InitSettings, \* settings a panel may start with
          Entries,      \* addresses the page may have been opened at
          Addresses,    \* hosts that are IP addresses
          WebPorts, Domains, BasePaths, Multipliers, \* values typed or picked
          Slashed,      \* paths as normalizePath and CheckValid leave them
          Secrets,      \* two-factor tokens, drawn in turn
          DirectLists,  \* lists picked for direct addresses and domains
          MaxChanges,   \* fields changed, dialogs opened, tokens touched
          MaxSaves, MaxLost

Fields ==
  {"webPort", "subPort", "webDomain", "webBasePath", "webCertFile", "webKeyFile", "tgBotToken", "subJsonEnable", "subPath",
   "subJsonNoises", "subJsonRules", "trafficMultiplier", "twoFactorEnable", "twoFactorToken"}
\* The panel starts with settings it could have stored; a path with its slashes
\* is not changed again, and a token drawn is not empty.
ASSUME SettingsAssumption ==
  /\ \A s \in InitSettings :
       /\ DOMAIN s = Fields /\ s = [f \in Fields |-> s[f]] /\ s["twoFactorEnable"] \in BOOLEAN
       /\ s["twoFactorEnable"] => s["twoFactorToken"] # ""
       /\ s["webCertFile"] = "" <=> s["webKeyFile"] = ""
       /\ s["webBasePath"] \in DOMAIN Slashed /\ Slashed[s["webBasePath"]] = s["webBasePath"]
  /\ BasePaths \subseteq DOMAIN Slashed /\ "" \notin Secrets
  /\ \A p \in DOMAIN Slashed : Slashed[p] \in DOMAIN Slashed /\ Slashed[Slashed[p]] = Slashed[p]

VARIABLES store,      \* the settings in the database
          read,       \* query.data: the settings last read
          draft,      \* what the tabs show
          saving,     \* <<>>, or the body under way and how far it is
          reading,    \* <<>>, or the read after a save: asked, or served with what it read
          posting,    \* <<>>, or the multiplier under way and how far it is
          multiplier, \* the multiplier GeneralTab shows
          prompt,     \* the two-factor dialog, or the question to restart
          location,   \* where the browser is
          tokens, tokenRows, loads, \* API tokens stored and shown, reads of them under way
          expired,    \* the session has ended, which the next request finds out
          left        \* the page was left: signed out or restarted
VARIABLES proven,     \* history: tokens whose code was entered
          renamed,    \* history: the credentials were changed
          missed,     \* history: an answer was lost, or the last read had fallen behind
          behind,     \* history: so had the last read of the tokens
          changes, saves, lost
pageVars == <<read, draft, saving, reading, posting, multiplier, prompt, location, tokenRows, loads, left>>
settingsVars == <<store, tokens, expired, pageVars, proven, renamed, missed, behind, changes, saves, lost>>

NoPrompt == [of |-> "none"]
Busy == saving # <<>> \/ reading # <<>> \/ posting # <<>>
Free == ~left /\ prompt = NoPrompt
\* this.equals: field by field.
saveDisabled == read = draft

\* GeneralTab is there as soon as the settings are read, while the draft still
\* holds the defaults: it starts with the multiplier of those.  The panel may not
\* have been restarted since the settings were saved.
SettingsInit ==
  /\ store \in InitSettings /\ read = store /\ draft = store
  /\ saving = <<>> /\ reading = <<>> /\ posting = <<>> /\ multiplier = 1 /\ prompt = NoPrompt
  /\ location \in {[scheme |-> e.scheme, host |-> e.host, port |-> e.port, path |-> store["webBasePath"]] : e \in Entries}
  /\ tokens = [t \in {"first"} |-> TRUE] /\ tokenRows = tokens /\ loads = <<>>
  /\ expired = FALSE /\ left = FALSE /\ proven = {} /\ renamed = FALSE /\ missed = FALSE /\ behind = FALSE
  /\ changes = 0 /\ saves = 0 /\ lost = 0

------------------------------------------------------------------------------
\* The fields of each tab, as the patches their inputs make of draft d.
GeneralTab(d) ==
  {[webPort |-> p] : p \in WebPorts} \cup {[webBasePath |-> p] : p \in BasePaths} \cup {[webDomain |-> n] : n \in Domains}
    \cup {[webCertFile |-> f] : f \in {"", "crt"}} \cup {[webKeyFile |-> f] : f \in {"", "key"}}
TelegramTab(d) == {[tgBotToken |-> ""]}
SubscriptionGeneralTab(d) ==
  {[subJsonEnable |-> ~d["subJsonEnable"]]} \cup {[subPath |-> p] : p \in BasePaths \cup {Slashed[d["subPath"]]}}

DEFAULT_NOISE == "rand"
DEFAULT_RULES == <<"domain" :> <<"geosite">>, "ip" :> <<"geoip">>>>
\* setDirectIPs, setDirectDomains: the first rule of the kind takes the list; an
\* empty list removes the rules of the kind.
setDirect(rules, kind, list) ==
  LET at == SelectInSeq(rules, LAMBDA rule : kind \in DOMAIN rule)
  IN IF list = <<>> THEN SelectSeq(rules, LAMBDA rule : kind \notin DOMAIN rule)
     ELSE IF at = 0 THEN Append(rules, kind :> list)
     ELSE [rules EXCEPT ![at] = kind :> list @@ @]
\* The switch of a part writes its default or "".
Switched(was, default) == IF was = <<>> THEN <<default>> ELSE <<>>
\* A noise is added, typed into or taken away.
NoiseLists(noises) ==
  {Append(noises, DEFAULT_NOISE)} \cup {[noises EXCEPT ![i] = "str"] : i \in DOMAIN noises}
    \cup (IF Len(noises) > 1 THEN {RemoveAt(noises, i) : i \in DOMAIN noises} ELSE {})
SubscriptionFormatsTab(d) ==
  IF ~d["subJsonEnable"] THEN {}
  ELSE {[subJsonNoises |-> v] :
          v \in {Switched(d["subJsonNoises"], <<DEFAULT_NOISE>>)}
                  \cup {<<n>> : n \in UNION {NoiseLists(d["subJsonNoises"][on]) : on \in DOMAIN d["subJsonNoises"]}}}
         \cup {[subJsonRules |-> v] :
                  v \in {Switched(d["subJsonRules"], DEFAULT_RULES)}
                          \cup {<<setDirect(d["subJsonRules"][on], kind, list)>> :
                                  on \in DOMAIN d["subJsonRules"], kind \in {"domain", "ip"}, list \in DirectLists}}

With(settings, patch) == [f \in DOMAIN settings |-> IF f \in DOMAIN patch THEN patch[f] ELSE settings[f]]
updateSetting(patch) == draft' = With(draft, patch)
Change ==
  /\ Free /\ changes < MaxChanges /\ changes' = changes + 1
  /\ \E patch \in GeneralTab(draft) \cup TelegramTab(draft) \cup SubscriptionGeneralTab(draft) \cup SubscriptionFormatsTab(draft) :
       With(draft, patch) # draft /\ updateSetting(patch)
  /\ UNCHANGED <<store, expired, tokens, read, saving, reading, posting, multiplier, prompt, location, tokenRows, loads, left, proven, renamed, missed, behind, saves, lost>>

------------------------------------------------------------------------------
\* The form's own check wants a port and paths with a leading slash.
FormValid(d) == d["webPort"] # 0 /\ {d["webBasePath"], d["subPath"]} \cap {"", "x"} = {}
onSave ==
  /\ Free /\ ~saveDisabled /\ saving = <<>> /\ saves < MaxSaves /\ FormValid(draft)
  /\ saving' = <<draft, "sent">> /\ saves' = saves + 1
  /\ UNCHANGED <<store, expired, tokens, read, draft, reading, posting, multiplier, prompt, location, tokenRows, loads, left, proven, renamed, missed, behind, changes, lost>>

\* CheckValid: no port twice, a certificate only with its key.
CheckValid(s) == s["webPort"] # s["subPort"] /\ (s["webCertFile"] = "" <=> s["webKeyFile"] = "")
\* preserveRedactedSecrets, then the slashes of CheckValid.
Written(body) ==
  [body EXCEPT !["tgBotToken"] = IF @ = "" THEN store["tgBotToken"] ELSE @,
               !["twoFactorToken"] = IF body["twoFactorEnable"] /\ @ = "" THEN store["twoFactorToken"] ELSE @,
               !["webBasePath"] = Slashed[@], !["subPath"] = Slashed[@]]
\* A read that was served before a write brings old settings.
Overtaken == IF Len(reading) = 2 THEN <<"old", reading[2]>> ELSE reading
UpdateAllSetting ==
  /\ saving # <<>> /\ saving[2] = "sent" /\ ~expired /\ ~left
  /\ LET valid == CheckValid(saving[1])
     IN /\ saving' = <<saving[1], IF valid THEN "done" ELSE "refused">>
        /\ store' = IF valid THEN Written(saving[1]) ELSE store
        /\ reading' = IF valid THEN Overtaken ELSE reading
        \* Two-factor login switched on ends every session.
        /\ expired' = (valid /\ saving[1]["twoFactorEnable"] /\ ~store["twoFactorEnable"])
  /\ UNCHANGED <<tokens, read, draft, posting, multiplier, prompt, location, tokenRows, loads, left, proven, renamed, missed, behind, changes, saves, lost>>

\* Mutant: nothing is read again after a save.
Refetched_Never == reading
\* invalidateQueries: a read under way is cancelled.
Refetched == <<"asked">>
SaveAnswered ==
  /\ saving # <<>> /\ saving[2] # "sent" /\ ~left /\ saving' = <<>>
  /\ \/ saving[2] = "done" /\ reading' = Refetched /\ UNCHANGED <<missed, lost>>
     \/ saving[2] = "refused" /\ UNCHANGED <<reading, missed, lost>>
     \/ saving[2] = "done" /\ lost < MaxLost /\ lost' = lost + 1 /\ missed' = TRUE /\ UNCHANGED reading
  /\ UNCHANGED <<store, expired, tokens, read, draft, posting, multiplier, prompt, location, tokenRows, loads, left, proven, renamed, behind, changes, saves>>

ReadServed ==
  /\ reading = <<"asked">> /\ ~expired /\ ~left /\ reading' = <<"fresh", store>>
  /\ UNCHANGED <<store, expired, tokens, read, draft, saving, posting, multiplier, prompt, location, tokenRows, loads, left, proven, renamed, missed, behind, changes, saves, lost>>
ReadArrives ==
  /\ Len(reading) = 2 /\ ~left /\ reading' = <<>>
  /\ \/ read' = reading[2] /\ draft' = reading[2] /\ missed' = (reading[1] = "old") /\ UNCHANGED lost
     \/ lost < MaxLost /\ lost' = lost + 1 /\ missed' = TRUE /\ UNCHANGED <<read, draft>>
  /\ UNCHANGED <<store, expired, tokens, saving, posting, multiplier, prompt, location, tokenRows, loads, left, proven, renamed, behind, changes, saves>>

------------------------------------------------------------------------------
\* The multiplier is written at once and beside the draft's save.
onMultiplierChange ==
  /\ Free /\ posting = <<>> /\ changes < MaxChanges /\ changes' = changes + 1
  /\ \E v \in Multipliers \ {multiplier} : posting' = <<v, "sent">> /\ multiplier' = v
  /\ UNCHANGED <<store, expired, tokens, read, draft, saving, reading, prompt, location, tokenRows, loads, left, proven, renamed, missed, behind, saves, lost>>

updateTrafficMultiplier ==
  /\ posting # <<>> /\ posting[2] = "sent" /\ ~expired /\ ~left
  /\ posting' = <<posting[1], "done">> /\ store' = [store EXCEPT !["trafficMultiplier"] = posting[1]]
  /\ reading' = Overtaken
  /\ UNCHANGED <<expired, tokens, read, draft, saving, multiplier, prompt, location, tokenRows, loads, left, proven, renamed, missed, behind, changes, saves, lost>>

\* A failed answer shows again what the draft held at the change.
MultiplierAnswered ==
  /\ posting # <<>> /\ ~left /\ posting' = <<>>
  /\ \/ /\ posting[2] = "done" /\ updateSetting([trafficMultiplier |-> posting[1]])
        /\ UNCHANGED <<multiplier, missed, lost>>
     \/ /\ lost < MaxLost /\ lost' = lost + 1 /\ missed' = (missed \/ posting[2] = "done")
        /\ multiplier' = draft["trafficMultiplier"] /\ UNCHANGED draft
  /\ UNCHANGED <<store, expired, tokens, read, saving, reading, prompt, location, tokenRows, loads, left, proven, renamed, behind, changes, saves>>

------------------------------------------------------------------------------
toggleTwoFactor ==
  /\ Free /\ changes < MaxChanges /\ changes' = changes + 1
  /\ \/ /\ ~draft["twoFactorEnable"]
        /\ \E token \in Secrets \ (proven \cup {store["twoFactorToken"], draft["twoFactorToken"]}) :
             prompt' = [of |-> "set", token |-> token]
     \/ draft["twoFactorEnable"] /\ prompt' = [of |-> "delete", token |-> draft["twoFactorToken"]]
  /\ UNCHANGED <<store, expired, tokens, read, draft, saving, reading, posting, multiplier, location, tokenRows, loads, left, proven, renamed, missed, behind, saves, lost>>

\* New credentials end the session and switch two-factor login off; wrong old ones
\* change nothing.
sendUpdateUser ==
  /\ ~expired /\ renamed' = TRUE /\ left' = TRUE
  /\ store' = IF store["twoFactorEnable"] THEN [store EXCEPT !["twoFactorEnable"] = FALSE, !["twoFactorToken"] = ""] ELSE store

onUpdateUserClick ==
  /\ Free /\ changes < MaxChanges /\ changes' = changes + 1
  /\ IF draft["twoFactorEnable"]
     THEN prompt' = [of |-> "user", token |-> draft["twoFactorToken"]] /\ UNCHANGED <<store, renamed, left>>
     ELSE sendUpdateUser /\ UNCHANGED prompt
  /\ UNCHANGED <<expired, tokens, read, draft, saving, reading, posting, multiplier, location, tokenRows, loads, proven, missed, behind, saves, lost>>

TwoFactorOpen == ~left /\ prompt.of \in {"set", "delete", "user"}
\* The right code; a wrong one changes nothing.
TwoFactorOk ==
  /\ TwoFactorOpen /\ prompt' = NoPrompt /\ proven' = proven \cup ({prompt.token} \ {""})
  /\ CASE prompt.of = "set" -> updateSetting([twoFactorToken |-> prompt.token, twoFactorEnable |-> TRUE]) /\ UNCHANGED <<store, renamed, left>>
       [] prompt.of = "delete" -> updateSetting([twoFactorEnable |-> FALSE, twoFactorToken |-> ""]) /\ UNCHANGED <<store, renamed, left>>
       [] prompt.of = "user" -> sendUpdateUser /\ UNCHANGED draft
  /\ UNCHANGED <<expired, tokens, read, saving, reading, posting, multiplier, location, tokenRows, loads, missed, behind, changes, saves, lost>>
\* Mutant: a cancelled dialog is taken for a confirmed one.
Cancelled_Kept == [twoFactorToken |-> prompt.token, twoFactorEnable |-> TRUE]
Cancelled == [twoFactorEnable |-> FALSE]
TwoFactorCancel ==
  /\ TwoFactorOpen /\ prompt' = NoPrompt
  /\ IF prompt.of = "set" THEN updateSetting(Cancelled) ELSE UNCHANGED draft
  /\ UNCHANGED <<store, expired, tokens, read, saving, reading, posting, multiplier, location, tokenRows, loads, left, proven, renamed, missed, behind, changes, saves, lost>>

------------------------------------------------------------------------------
\* API tokens, a request of one at a time with its answer; what it wrote makes
\* the reads already served old.
Outdated == [i \in DOMAIN loads |-> IF loads[i] = <<>> THEN <<>> ELSE <<loads[i][1], "old">>]
\* Mutant: the list is not read again.
Reloaded_Never == Outdated
Reloaded == Append(Outdated, <<>>)
TokenStep ==
  /\ Free /\ ~expired /\ changes < MaxChanges /\ changes' = changes + 1
  /\ UNCHANGED <<store, expired, read, draft, saving, reading, posting, multiplier, prompt, location, left, proven, renamed, missed, behind, saves, lost>>
confirmCreateToken ==
  TokenStep /\ "second" \notin DOMAIN tokens /\ tokens' = [t \in DOMAIN tokens \cup {"second"} |-> t = "second" \/ tokens[t]] /\ loads' = Reloaded /\ UNCHANGED tokenRows
confirmDeleteToken ==
  /\ TokenStep /\ loads' = Reloaded /\ UNCHANGED tokenRows
  /\ \E id \in DOMAIN tokenRows : tokens' = [t \in DOMAIN tokens \ {id} |-> tokens[t]]
toggleTokenEnabled ==
  /\ TokenStep /\ loads' = Outdated
  /\ \E id \in DOMAIN tokenRows \cap DOMAIN tokens :
       /\ tokens' = [tokens EXCEPT ![id] = ~tokenRows[id]]
       /\ tokenRows' = [tokenRows EXCEPT ![id] = ~@]
LoadServed ==
  /\ ~expired /\ ~left /\ \E i \in DOMAIN loads : loads[i] = <<>> /\ loads' = [loads EXCEPT ![i] = <<tokens, "fresh">>]
  /\ UNCHANGED <<store, expired, tokens, read, draft, saving, reading, posting, multiplier, prompt, location, tokenRows, left, proven, renamed, missed, behind, changes, saves, lost>>
loadApiTokens ==
  /\ ~left /\ \E i \in DOMAIN loads :
       /\ loads[i] # <<>> /\ loads' = RemoveAt(loads, i)
       /\ tokenRows' = loads[i][1] /\ behind' = (loads[i][2] = "old")
  /\ UNCHANGED <<store, expired, tokens, read, draft, saving, reading, posting, multiplier, prompt, location, left, proven, renamed, missed, changes, saves, lost>>

------------------------------------------------------------------------------
isIp(host) == host \in Addresses
\* Mutant: the port of the address bar is kept.
restartPort_Kept(d) == location.port
restartPort(d) == IF isIp(location.host) /\ d["webPort"] # location.port THEN d["webPort"] ELSE location.port
rebuildUrlAfterRestart(d) ==
  [scheme |-> IF d["webCertFile"] # "" \/ d["webKeyFile"] # "" THEN "https" ELSE "http",
   host |-> IF isIp(location.host) /\ isIp(d["webDomain"]) THEN d["webDomain"] ELSE location.host,
   port |-> restartPort(d), path |-> Slashed[d["webBasePath"]]]

\* The question is asked, and the page to go to known, by the render clicked in.
restartPanel ==
  /\ Free /\ saveDisabled
  /\ prompt' = [of |-> "restart", allSetting |-> draft, quiet |-> ~Busy /\ ~missed, from |-> location]
  /\ UNCHANGED <<store, expired, tokens, read, draft, saving, reading, posting, multiplier, location, tokenRows, loads, left, proven, renamed, missed, behind, changes, saves, lost>>
RestartOk ==
  /\ ~expired /\ ~left /\ prompt.of = "restart" /\ left' = TRUE /\ location' = rebuildUrlAfterRestart(prompt.allSetting)
  /\ UNCHANGED <<store, expired, tokens, read, draft, saving, reading, posting, multiplier, prompt, tokenRows, loads, proven, renamed, missed, behind, changes, saves, lost>>
\* Cancelled, or refused by the panel.
RestartCancel ==
  /\ ~left /\ prompt.of = "restart" /\ prompt' = NoPrompt
  /\ UNCHANGED <<store, expired, tokens, read, draft, saving, reading, posting, multiplier, location, tokenRows, loads, left, proven, renamed, missed, behind, changes, saves, lost>>

\* A request of an ended session leads to the sign-in page.
SignedOut ==
  /\ expired /\ ~left /\ left' = TRUE /\ prompt' = NoPrompt
  /\ UNCHANGED <<store, expired, tokens, read, draft, saving, reading, posting, multiplier, location, tokenRows, loads, proven, renamed, missed, behind, changes, saves, lost>>

SettingsNext ==
  \/ Change \/ onSave \/ UpdateAllSetting \/ SaveAnswered \/ ReadServed \/ ReadArrives
  \/ onMultiplierChange \/ updateTrafficMultiplier \/ MultiplierAnswered
  \/ toggleTwoFactor \/ onUpdateUserClick \/ TwoFactorOk \/ TwoFactorCancel
  \/ confirmCreateToken \/ confirmDeleteToken \/ toggleTokenEnabled \/ LoadServed \/ loadApiTokens
  \/ restartPanel \/ RestartOk \/ RestartCancel \/ SignedOut
SettingsSpec == SettingsInit /\ [][SettingsNext]_settingsVars

------------------------------------------------------------------------------
\* When nothing is under way and no answer was lost, settings that the page
\* offers no save for are the ones in the database, and so are the API tokens:
\* save, read, multiplier and reloads may cross.
SettingsShown ==
  ~left => /\ saveDisabled /\ ~Busy /\ ~missed => draft = store
           /\ loads = <<>> /\ ~behind => tokenRows = tokens

\* Two-factor login is stored with a new token only after a code of that token,
\* and removed, like the credentials changed, only after a code of the one stored.
TwoFactorProven ==
  [][LET on == store["twoFactorEnable"]  now == store["twoFactorToken"]  then == store'["twoFactorToken"]
     IN /\ store'["twoFactorEnable"] /\ (~on \/ then # now) => then \in proven
        /\ on /\ ~store'["twoFactorEnable"] => now \in proven'
        /\ ~renamed /\ renamed' /\ on => now \in proven']_settingsVars

\* After a restart the browser is where the panel then listens, if the page was
\* opened at an address, or the port stays, and the new domain can be followed.
RestartReaches ==
  left /\ prompt.of = "restart" =>
    \/ ~prompt.quiet
    \/ ~isIp(prompt.from.host) /\ store["webPort"] # prompt.from.port
    \/ store["webDomain"] \notin {"", prompt.from.host} /\ ~(isIp(prompt.from.host) /\ isIp(store["webDomain"]))
    \/ /\ location.scheme = (IF store["webCertFile"] # "" /\ store["webKeyFile"] # "" THEN "https" ELSE "http")
       /\ location.port = store["webPort"] /\ location.path = store["webBasePath"]
       /\ store["webDomain"] \in {"", location.host}
=============================================================================
