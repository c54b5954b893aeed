----------------------------- MODULE PagesProofs -----------------------------
(***************************************************************************)
(* Proofs about the two pages.  The settings page: what it offers no save  *)
(* for is in the database, two-factor login is stored and removed only by  *)
(* one who proved the token, and a restart leads to where the panel then   *)
(* listens.  The outbounds: whatever is typed, imported or moved, their    *)
(* tags stay distinct, hysteria alone rides its transport, with TLS, and   *)
(* what is imported from a link reaches what the link was made for.        *)
(***************************************************************************)
EXTENDS SettingsEditor, OutboundEditor, SequenceTheorems, TLAPS

-----------------------------------------------------------------------------
\* The inductive invariant.

IsSettings(s) ==
  /\ s = [f \in Fields |-> s[f]] /\ s["twoFactorEnable"] \in BOOLEAN
  /\ s["webBasePath"] \in DOMAIN Slashed

\* What is under way, and the copies of the settings it holds.
UnderWay ==
  /\ saving = <<>> \/ (saving = <<saving[1], saving[2]>> /\ saving[2] \in {"sent", "done", "refused"})
  /\ reading = <<>> \/ reading = <<"asked">> \/ (reading = <<reading[1], reading[2]>> /\ reading[1] \in {"fresh", "old"})
  /\ posting = <<>> \/ (posting = <<posting[1], posting[2]>> /\ posting[2] \in {"sent", "done"})
HasRead == reading # <<>> /\ reading # <<"asked">>
Copies == {read, draft} \cup (IF saving = <<>> THEN {} ELSE {saving[1]}) \cup (IF HasRead THEN {reading[2]} ELSE {})
CopiesOK == IsSettings(store) /\ \A s \in Copies : IsSettings(s)

\* What the panel stored passed CheckValid.
StoredOK == (store["webCertFile"] = "" <=> store["webKeyFile"] = "") /\ Slashed[store["webBasePath"]] = store["webBasePath"]

\* Unless a save was done whose read did not come yet, the page has read what
\* is stored; the multiplier it wrote itself may be in the draft alone.
m == "trafficMultiplier"
SaveDone == saving # <<>> /\ saving[2] = "done"
AtEase == ~left /\ ~missed /\ reading = <<>> /\ ~SaveDone
Written_Multiplier == IF posting # <<>> /\ posting[2] = "done" THEN posting[1] ELSE draft[m]
ReadBack ==
  /\ AtEase => \A f \in Fields \ {m} : read[f] = store[f]
  /\ AtEase => read[m] = store[m] \/ Written_Multiplier = store[m]
  /\ ~left /\ HasRead /\ reading[1] = "fresh" => reading[2] = store

\* The same for the API tokens: a read that nothing overtook has what is stored.
Tokens == UNION {[ids -> BOOLEAN] : ids \in SUBSET {"first", "second"}}
Loads == {<<>>} \cup (Tokens \X {"fresh", "old"})
Rows ==
  /\ tokens \in Tokens /\ tokenRows \in Tokens /\ loads \in Seq(Loads)
  /\ (loads = <<>> /\ ~behind) => tokenRows = tokens
  /\ \A i \in DOMAIN loads : (loads[i] # <<>> /\ loads[i][2] = "fresh") => loads[i][1] = tokens

\* As long as the token stored was not proven, every copy of the settings has
\* it; and no copy has a token that is neither proven nor stored.
Unproven == store["twoFactorEnable"] /\ store["twoFactorToken"] \notin proven
Proven ==
  /\ "" \notin proven /\ (store["twoFactorEnable"] => store["twoFactorToken"] # "")
  /\ Unproven => \A s \in Copies : s["twoFactorEnable"] /\ s["twoFactorToken"] = store["twoFactorToken"]
  /\ \A s \in Copies : s["twoFactorEnable"] =>
       s["twoFactorToken"] \in proven \/ (store["twoFactorEnable"] /\ s["twoFactorToken"] = store["twoFactorToken"])
  /\ ~left /\ prompt.of = "set" => ~Unproven /\ prompt.token # ""
  /\ ~left /\ prompt.of \in {"delete", "user"} /\ Unproven => prompt.token = store["twoFactorToken"]

\* While a quiet restart is asked for, and after it, nothing is stored.
Reached(s, from) ==
  [scheme |-> IF s["webCertFile"] # "" \/ s["webKeyFile"] # "" THEN "https" ELSE "http",
   host |-> IF isIp(from.host) /\ isIp(s["webDomain"]) THEN s["webDomain"] ELSE from.host,
   port |-> IF isIp(from.host) /\ s["webPort"] # from.port THEN s["webPort"] ELSE from.port,
   path |-> Slashed[s["webBasePath"]]]
Restarting ==
  prompt.of = "restart" /\ prompt.quiet =>
    IF left THEN location = Reached(store, prompt.from)
            ELSE ~Busy /\ prompt.allSetting = store /\ prompt.from = location

SettingsInv == UnderWay /\ CopiesOK /\ StoredOK /\ ReadBack /\ Rows /\ Proven /\ Restarting

-----------------------------------------------------------------------------
\* What the operators on settings do.

\* A patch sets its fields and no other.
LEMMA WithIs ==
  ASSUME NEW s, s = [f \in Fields |-> s[f]], NEW patch
  PROVE  /\ With(s, patch) = [f \in Fields |-> With(s, patch)[f]]
         /\ \A f \in Fields \cap DOMAIN patch : With(s, patch)[f] = patch[f]
         /\ \A f \in Fields \ DOMAIN patch : With(s, patch)[f] = s[f]
<1>1. DOMAIN s = Fields
  OBVIOUS
<1>2. With(s, patch) = [f \in Fields |-> IF f \in DOMAIN patch THEN patch[f] ELSE s[f]]
  BY <1>1 DEF With
<1> QED
  BY <1>2

\* The fields the properties are about are fields.
LEMMA FieldsAre ==
  /\ "webPort" \in Fields /\ "webDomain" \in Fields /\ "webBasePath" \in Fields /\ "webCertFile" \in Fields
  /\ "webKeyFile" \in Fields /\ m \in Fields /\ "twoFactorEnable" \in Fields /\ "twoFactorToken" \in Fields
BY DEF Fields, m

\* What the tabs change: no field of two-factor login, not the multiplier, and
\* a path only to one that can be normalised.
Harmless(patch) ==
  /\ DOMAIN patch \cap {m, "twoFactorEnable", "twoFactorToken"} = {}
  /\ "webBasePath" \in DOMAIN patch => patch["webBasePath"] \in DOMAIN Slashed

\* No tab but the security one touches the two-factor login.
LEMMA TabsAreHarmless ==
  ASSUME NEW d, NEW patch \in GeneralTab(d) \cup TelegramTab(d) \cup SubscriptionGeneralTab(d) \cup SubscriptionFormatsTab(d)
  PROVE  Harmless(patch)
<1>1. CASE patch \in GeneralTab(d)
  <2>1. \/ \E v : patch = [webPort |-> v]
        \/ \E v \in DOMAIN Slashed : patch = [webBasePath |-> v]
        \/ \E v : patch = [webDomain |-> v]
        \/ \E v : patch = [webCertFile |-> v]
        \/ \E v : patch = [webKeyFile |-> v]
    BY <1>1, SettingsAssumption DEF GeneralTab
  <2> QED
    BY <2>1 DEF Harmless, m
<1>2. CASE patch \in TelegramTab(d) \cup SubscriptionGeneralTab(d)
  <2>1. \/ \E v : patch = [tgBotToken |-> v]
        \/ \E v : patch = [subJsonEnable |-> v]
        \/ \E v : patch = [subPath |-> v]
    BY <1>2 DEF TelegramTab, SubscriptionGeneralTab
  <2> QED
    BY <2>1 DEF Harmless, m
<1>3. CASE patch \in SubscriptionFormatsTab(d)
  <2>1. (\E v : patch = [subJsonNoises |-> v]) \/ (\E v : patch = [subJsonRules |-> v])
    BY <1>3 DEF SubscriptionFormatsTab
  <2> QED
    BY <2>1 DEF Harmless, m
<1> QED
  BY <1>1, <1>2, <1>3

\* What the panel stores of a save.
LEMMA WrittenIs ==
  ASSUME IsSettings(store), NEW body, IsSettings(body)
  PROVE  /\ IsSettings(Written(body))
         /\ Slashed[Written(body)["webBasePath"]] = Written(body)["webBasePath"]
         /\ Written(body)["webCertFile"] = body["webCertFile"] /\ Written(body)["webKeyFile"] = body["webKeyFile"]
         /\ Written(body)["twoFactorEnable"] = body["twoFactorEnable"]
         /\ Written(body)["twoFactorToken"] =
              IF body["twoFactorEnable"] /\ body["twoFactorToken"] = "" THEN store["twoFactorToken"] ELSE body["twoFactorToken"]
<1>1. body = [f \in Fields |-> body[f]] /\ DOMAIN body = Fields
  BY DEF IsSettings
<1>2. Written(body) = [f \in Fields |-> Written(body)[f]]
  BY <1>1 DEF Written
<1>3. /\ Written(body)["webBasePath"] = Slashed[body["webBasePath"]]
      /\ Written(body)["webCertFile"] = body["webCertFile"] /\ Written(body)["webKeyFile"] = body["webKeyFile"]
      /\ Written(body)["twoFactorEnable"] = body["twoFactorEnable"]
      /\ Written(body)["twoFactorToken"] =
              IF body["twoFactorEnable"] /\ body["twoFactorToken"] = "" THEN store["twoFactorToken"] ELSE body["twoFactorToken"]
  BY <1>1, FieldsAre DEF Written, Fields
<1>4. Slashed[body["webBasePath"]] \in DOMAIN Slashed /\ Slashed[Slashed[body["webBasePath"]]] = Slashed[body["webBasePath"]]
  BY SettingsAssumption DEF IsSettings
<1> QED
  BY <1>2, <1>3, <1>4 DEF IsSettings

-----------------------------------------------------------------------------
\* What a step does to what is under way, to the draft and to the store.

\* A read under way has its first half or both.
LEMMA ReadingIs ==
  ASSUME UnderWay
  PROVE  HasRead <=> Len(reading) = 2
<1>1. CASE reading = <<>>
  BY <1>1 DEF HasRead
<1>2. CASE reading = <<"asked">>
  BY <1>2 DEF HasRead
<1>3. CASE reading = <<reading[1], reading[2]>>
  <2>1. DOMAIN reading = 1 .. 2 /\ Len(reading) = 2
    BY <1>3
  <2>2. DOMAIN <<"asked">> = 1 .. 1 /\ 2 \notin 1 .. 1
    OBVIOUS
  <2>3. 2 \in DOMAIN reading
    BY <2>1
  <2>4. reading # <<"asked">> /\ reading # <<>>
    BY <2>2, <2>3
  <2> QED
    BY <2>1, <2>4 DEF HasRead
<1> QED
  BY <1>1, <1>2, <1>3 DEF UnderWay

\* A copy is one of those already there, of the store, or the new draft.
LEMMA CopiesStep ==
  ASSUME UnderWay, [SettingsNext]_settingsVars
  PROVE  UnderWay' /\ Copies' \subseteq Copies \cup {store, draft'}
<1>0. HasRead <=> Len(reading) = 2
  BY ReadingIs
<1>a. ASSUME UNCHANGED <<read, saving, reading>>
      PROVE  Copies' \subseteq Copies \cup {store, draft'}
  BY <1>a DEF Copies, HasRead
<1>b. ASSUME UNCHANGED <<saving, reading, posting>>
      PROVE  UnderWay'
  BY <1>b DEF UnderWay
<1>1. CASE onSave
  BY <1>1 DEF onSave, UnderWay, Copies, HasRead
<1>2. CASE UpdateAllSetting
  <2>1. /\ saving' = <<saving[1], saving'[2]>> /\ saving'[2] \in {"done", "refused"} /\ saving # <<>>
        /\ reading' = Overtaken \/ reading' = reading
        /\ UNCHANGED <<posting, read, draft>>
    BY <1>2 DEF UpdateAllSetting
  <2>2. saving'[1] = saving[1]
    BY <2>1
  <2>3. reading' = reading \/ (HasRead /\ reading' = <<"old", reading[2]>>)
    BY <2>1, <1>0 DEF Overtaken
  <2>4. UnderWay'
    BY <2>1, <2>3 DEF UnderWay
  <2>5. HasRead' => HasRead /\ reading'[2] = reading[2]
    BY <2>3 DEF HasRead
  <2> QED
    BY <2>1, <2>2, <2>4, <2>5 DEF Copies
<1>3. CASE SaveAnswered
  BY <1>3 DEF SaveAnswered, Refetched, UnderWay, Copies, HasRead
<1>4. CASE ReadServed
  <2>1. reading' = <<"fresh", store>> /\ UNCHANGED <<read, draft, saving, posting>>
    BY <1>4 DEF ReadServed
  <2> QED
    BY <2>1 DEF UnderWay, Copies, HasRead
<1>5. CASE ReadArrives
  BY <1>5, <1>0 DEF ReadArrives, UnderWay, Copies, HasRead
<1>6. CASE onMultiplierChange
  <2>1. PICK v : posting' = <<v, "sent">>
    BY <1>6 DEF onMultiplierChange
  <2>2. UNCHANGED <<saving, reading, read, draft>>
    BY <1>6 DEF onMultiplierChange
  <2>3. UnderWay'
    BY <2>1, <2>2 DEF UnderWay
  <2> QED
    BY <2>2, <2>3, <1>a
<1>7. CASE updateTrafficMultiplier
  <2>1. /\ posting' = <<posting[1], "done">> /\ reading' = Overtaken
        /\ UNCHANGED <<saving, read, draft>>
    BY <1>7 DEF updateTrafficMultiplier
  <2>3. reading' = reading \/ (HasRead /\ reading' = <<"old", reading[2]>>)
    BY <2>1, <1>0 DEF Overtaken
  <2>4. UnderWay'
    BY <2>1, <2>3 DEF UnderWay
  <2>5. HasRead' => HasRead /\ reading'[2] = reading[2]
    BY <2>3 DEF HasRead
  <2> QED
    BY <2>1, <2>4, <2>5 DEF Copies
<1>8. CASE MultiplierAnswered
  <2>1. posting' = <<>> /\ UNCHANGED <<saving, reading, read>>
    BY <1>8 DEF MultiplierAnswered
  <2> QED
    BY <2>1, <1>a DEF UnderWay
<1>9. CASE \/ Change \/ toggleTwoFactor \/ onUpdateUserClick \/ TwoFactorOk \/ TwoFactorCancel
           \/ confirmCreateToken \/ confirmDeleteToken \/ toggleTokenEnabled \/ LoadServed \/ loadApiTokens
           \/ restartPanel \/ RestartOk \/ RestartCancel \/ SignedOut \/ UNCHANGED settingsVars
  <2>1. UNCHANGED <<read, saving, reading, posting>>
    BY <1>9 DEF Change, toggleTwoFactor, onUpdateUserClick, TwoFactorOk, TwoFactorCancel, confirmCreateToken, confirmDeleteToken,
             toggleTokenEnabled, TokenStep, LoadServed, loadApiTokens, restartPanel, RestartOk, RestartCancel, SignedOut, settingsVars, pageVars
  <2> QED
    BY <2>1, <1>a, <1>b
<1> QED
  BY <1>1, <1>2, <1>3, <1>4, <1>5, <1>6, <1>7, <1>8, <1>9 DEF SettingsNext

\* The store is changed by a save, a multiplier or new credentials only.
LEMMA StoreStep ==
  ASSUME [SettingsNext]_settingsVars
  PROVE  \/ store' = store
         \/ UpdateAllSetting /\ saving # <<>> /\ CheckValid(saving[1]) /\ store' = Written(saving[1]) /\ UNCHANGED draft
         \/ updateTrafficMultiplier /\ store' = [store EXCEPT ![m] = posting[1]] /\ UNCHANGED draft
         \/ /\ onUpdateUserClick \/ TwoFactorOk
            /\ ~left /\ left' /\ store' = [store EXCEPT !["twoFactorEnable"] = FALSE, !["twoFactorToken"] = ""] /\ UNCHANGED draft
<1>1. CASE UpdateAllSetting
  BY <1>1 DEF UpdateAllSetting
<1>2. CASE updateTrafficMultiplier
  BY <1>2 DEF updateTrafficMultiplier, m
<1>3. CASE onUpdateUserClick
  BY <1>3 DEF onUpdateUserClick, sendUpdateUser, Free
<1>4. CASE TwoFactorOk
  BY <1>4 DEF TwoFactorOk, TwoFactorOpen, sendUpdateUser
<1>5. CASE \/ Change \/ onSave \/ SaveAnswered \/ ReadServed \/ ReadArrives \/ onMultiplierChange \/ MultiplierAnswered
           \/ toggleTwoFactor \/ TwoFactorCancel \/ confirmCreateToken \/ confirmDeleteToken \/ toggleTokenEnabled
           \/ LoadServed \/ loadApiTokens \/ restartPanel \/ RestartOk \/ RestartCancel \/ SignedOut \/ UNCHANGED settingsVars
  BY <1>5 DEF Change, onSave, SaveAnswered, ReadServed, ReadArrives, onMultiplierChange, MultiplierAnswered, toggleTwoFactor,
           TwoFactorCancel, confirmCreateToken, confirmDeleteToken, toggleTokenEnabled, TokenStep, LoadServed, loadApiTokens,
           restartPanel, RestartOk, RestartCancel, SignedOut, settingsVars
<1> QED
  BY <1>1, <1>2, <1>3, <1>4, <1>5 DEF SettingsNext

\* The patches of the dialogs and of the multiplier.
Paid(v) == [trafficMultiplier |-> v]
SwitchedOn(v) == [twoFactorToken |-> v, twoFactorEnable |-> TRUE]
SwitchedOff == [twoFactorEnable |-> FALSE, twoFactorToken |-> ""]

\* The draft is changed by the tabs, a dialog, a multiplier or a read only.
LEMMA DraftStep ==
  ASSUME [SettingsNext]_settingsVars
  PROVE  \/ draft' = draft
         \/ HasRead /\ draft' = reading[2]
         \/ \E patch : Harmless(patch) /\ draft' = With(draft, patch)
         \/ MultiplierAnswered /\ posting[2] = "done" /\ draft' = With(draft, Paid(posting[1]))
         \/ TwoFactorOk /\ prompt.of = "set" /\ draft' = With(draft, SwitchedOn(prompt.token))
         \/ TwoFactorOk /\ prompt.of = "delete" /\ draft' = With(draft, SwitchedOff)
         \/ TwoFactorCancel /\ prompt.of = "set" /\ draft' = With(draft, Cancelled)
<1>1. CASE Change
  BY <1>1, TabsAreHarmless DEF Change, updateSetting
<1>2. CASE ReadArrives
  <2>1. Len(reading) = 2 => HasRead
    <3>1. CASE reading = <<>>
      BY <3>1
    <3>2. CASE reading = <<"asked">>
      BY <3>2
    <3> QED
      BY <3>1, <3>2 DEF HasRead
  <2>2. draft' = draft \/ (HasRead /\ draft' = reading[2])
    BY <1>2, <2>1 DEF ReadArrives
  <2> QED
    BY <2>2
<1>3. CASE MultiplierAnswered
  BY <1>3 DEF MultiplierAnswered, updateSetting, Paid
<1>4. CASE TwoFactorOk
  BY <1>4 DEF TwoFactorOk, TwoFactorOpen, updateSetting, SwitchedOn, SwitchedOff
<1>5. CASE TwoFactorCancel
  BY <1>5 DEF TwoFactorCancel, updateSetting
<1>6. CASE \/ onSave \/ UpdateAllSetting \/ SaveAnswered \/ ReadServed \/ onMultiplierChange \/ updateTrafficMultiplier
           \/ toggleTwoFactor \/ onUpdateUserClick \/ confirmCreateToken \/ confirmDeleteToken \/ toggleTokenEnabled
           \/ LoadServed \/ loadApiTokens \/ restartPanel \/ RestartOk \/ RestartCancel \/ SignedOut \/ UNCHANGED settingsVars
  BY <1>6 DEF onSave, UpdateAllSetting, SaveAnswered, ReadServed, onMultiplierChange, updateTrafficMultiplier, toggleTwoFactor,
           onUpdateUserClick, confirmCreateToken, confirmDeleteToken, toggleTokenEnabled, TokenStep, LoadServed, loadApiTokens,
           restartPanel, RestartOk, RestartCancel, SignedOut, settingsVars, pageVars
<1> QED
  BY <1>1, <1>2, <1>3, <1>4, <1>5, <1>6 DEF SettingsNext

-----------------------------------------------------------------------------
\* The copies stay settings, and what is stored stays valid.

\* Patches that keep settings settings.
Sound(patch) ==
  /\ "webBasePath" \in DOMAIN patch => patch["webBasePath"] \in DOMAIN Slashed
  /\ "twoFactorEnable" \in DOMAIN patch => patch["twoFactorEnable"] \in BOOLEAN

\* A patch that is sound leaves settings,
LEMMA WithSound ==
  ASSUME NEW s, IsSettings(s), NEW patch, Sound(patch)
  PROVE  IsSettings(With(s, patch))
<1>1. /\ With(s, patch) = [f \in Fields |-> With(s, patch)[f]]
      /\ \A f \in Fields \cap DOMAIN patch : With(s, patch)[f] = patch[f]
      /\ \A f \in Fields \ DOMAIN patch : With(s, patch)[f] = s[f]
  BY WithIs DEF IsSettings
<1>2. With(s, patch)["twoFactorEnable"] \in BOOLEAN
  BY <1>1, FieldsAre DEF Sound, IsSettings
<1>3. With(s, patch)["webBasePath"] \in DOMAIN Slashed
  BY <1>1, FieldsAre DEF Sound, IsSettings
<1> QED
  BY <1>1, <1>2, <1>3 DEF IsSettings

\* so does a change of the traffic multiplier,
LEMMA PaidIs ==
  ASSUME NEW v, NEW s, IsSettings(s)
  PROVE  /\ IsSettings(With(s, Paid(v))) /\ With(s, Paid(v))[m] = v
         /\ \A f \in Fields \ {m} : With(s, Paid(v))[f] = s[f]
<1>1. DOMAIN Paid(v) = {m} /\ Paid(v)[m] = v
  BY DEF Paid, m
<1>2. Sound(Paid(v))
  BY <1>1 DEF Sound, m
<1> QED
  BY <1>1, <1>2, WithSound, WithIs, FieldsAre DEF IsSettings

\* switching the two-factor login on,
LEMMA SwitchedOnIs ==
  ASSUME NEW v, NEW s, IsSettings(s)
  PROVE  /\ IsSettings(With(s, SwitchedOn(v)))
         /\ With(s, SwitchedOn(v))["twoFactorEnable"] = TRUE /\ With(s, SwitchedOn(v))["twoFactorToken"] = v
         /\ With(s, SwitchedOn(v))[m] = s[m]
<1>1. /\ DOMAIN SwitchedOn(v) = {"twoFactorEnable", "twoFactorToken"}
      /\ SwitchedOn(v)["twoFactorEnable"] = TRUE /\ SwitchedOn(v)["twoFactorToken"] = v
  BY DEF SwitchedOn
<1>2. Sound(SwitchedOn(v)) /\ m \notin DOMAIN SwitchedOn(v)
  BY <1>1 DEF Sound, m
<1> QED
  BY <1>1, <1>2, WithSound, WithIs, FieldsAre DEF IsSettings

\* off
LEMMA SwitchedOffIs ==
  ASSUME NEW s, IsSettings(s)
  PROVE  IsSettings(With(s, SwitchedOff)) /\ With(s, SwitchedOff)["twoFactorEnable"] = FALSE /\ With(s, SwitchedOff)[m] = s[m]
<1>1. DOMAIN SwitchedOff = {"twoFactorEnable", "twoFactorToken"} /\ SwitchedOff["twoFactorEnable"] = FALSE
  BY DEF SwitchedOff
<1>2. Sound(SwitchedOff) /\ m \notin DOMAIN SwitchedOff
  BY <1>1 DEF Sound, m
<1> QED
  BY <1>1, <1>2, WithSound, WithIs, FieldsAre DEF IsSettings

\* and cancelling it.
LEMMA CancelledIs ==
  ASSUME NEW s, IsSettings(s)
  PROVE  IsSettings(With(s, Cancelled)) /\ With(s, Cancelled)["twoFactorEnable"] = FALSE /\ With(s, Cancelled)[m] = s[m]
<1>1. DOMAIN Cancelled = {"twoFactorEnable"} /\ Cancelled["twoFactorEnable"] = FALSE
  BY DEF Cancelled
<1>2. Sound(Cancelled) /\ m \notin DOMAIN Cancelled
  BY <1>1 DEF Sound, m
<1> QED
  BY <1>1, <1>2, WithSound, WithIs, FieldsAre DEF IsSettings

\* Every step keeps every copy settings.
LEMMA SettingsStay ==
  ASSUME UnderWay, CopiesOK, StoredOK, [SettingsNext]_settingsVars
  PROVE  CopiesOK' /\ StoredOK'
<1>1. IsSettings(draft) /\ IsSettings(store) /\ (HasRead => IsSettings(reading[2])) /\ (saving # <<>> => IsSettings(saving[1]))
  BY DEF CopiesOK, Copies
<1>2. IsSettings(draft')
  <2>1. CASE draft' = draft \/ (HasRead /\ draft' = reading[2])
    BY <2>1, <1>1
  <2>2. CASE \E patch : Harmless(patch) /\ draft' = With(draft, patch)
    <3>1. PICK patch : Harmless(patch) /\ draft' = With(draft, patch)
      BY <2>2
    <3>2. Sound(patch)
      BY <3>1 DEF Harmless, Sound
    <3> QED
      BY <3>1, <3>2, <1>1, WithSound
  <2>3. CASE \/ draft' = With(draft, Paid(posting[1])) \/ draft' = With(draft, SwitchedOn(prompt.token))
             \/ draft' = With(draft, SwitchedOff) \/ draft' = With(draft, Cancelled)
    <3>1. IsSettings(With(draft, Paid(posting[1])))
      BY <1>1, PaidIs
    <3>2. IsSettings(With(draft, SwitchedOn(prompt.token)))
      BY <1>1, SwitchedOnIs
    <3>3. IsSettings(With(draft, SwitchedOff)) /\ IsSettings(With(draft, Cancelled))
      BY <1>1, SwitchedOffIs, CancelledIs
    <3> QED
      BY <2>3, <3>1, <3>2, <3>3
  <2> QED
    BY <2>1, <2>2, <2>3, DraftStep
<1>3. IsSettings(store') /\ StoredOK'
  <2>1. CASE store' = store
    BY <2>1, <1>1 DEF StoredOK
  <2>2. CASE saving # <<>> /\ CheckValid(saving[1]) /\ store' = Written(saving[1])
    BY <2>2, <1>1, WrittenIs DEF CheckValid, StoredOK
  <2>3. CASE store' = [store EXCEPT ![m] = posting[1]]
    <3>1. store' = [f \in Fields |-> store'[f]] /\ \A f \in Fields \ {m} : store'[f] = store[f]
      BY <2>3, <1>1 DEF IsSettings
    <3>2. \A f \in {"twoFactorEnable", "webBasePath", "webCertFile", "webKeyFile"} : store'[f] = store[f]
      BY <3>1, FieldsAre DEF m
    <3> QED
      BY <3>1, <3>2, <1>1 DEF IsSettings, StoredOK
  <2>4. CASE store' = [store EXCEPT !["twoFactorEnable"] = FALSE, !["twoFactorToken"] = ""]
    <3>1. store' = [f \in Fields |-> store'[f]] /\ \A f \in Fields \ {"twoFactorEnable", "twoFactorToken"} : store'[f] = store[f]
      BY <2>4, <1>1 DEF IsSettings
    <3>2. store'["twoFactorEnable"] = FALSE
      BY <2>4, <1>1, FieldsAre DEF IsSettings
    <3>3. \A f \in {"webBasePath", "webCertFile", "webKeyFile"} : store'[f] = store[f]
      BY <3>1, FieldsAre
    <3> QED
      BY <3>1, <3>2, <3>3, <1>1 DEF IsSettings, StoredOK
  <2> QED
    BY <2>1, <2>2, <2>3, <2>4, StoreStep
<1>4. Copies' \subseteq Copies \cup {store, draft'}
  BY CopiesStep
<1> QED
  BY <1>1, <1>2, <1>3, <1>4 DEF CopiesOK

-----------------------------------------------------------------------------
\* What the page has read is what is stored.

\* Every step leaves a read that nothing overtook with what is stored.
LEMMA ReadBackStays ==
  ASSUME UnderWay, CopiesOK, ReadBack, [SettingsNext]_settingsVars
  PROVE  ReadBack'
<1>0. HasRead <=> Len(reading) = 2
  BY ReadingIs
<1>a. IsSettings(draft) /\ IsSettings(store)
  BY DEF CopiesOK, Copies
<1>b. draft = [f \in Fields |-> draft[f]] /\ store = [f \in Fields |-> store[f]] /\ m \in Fields
  BY <1>a, FieldsAre DEF IsSettings
\* A read that a write overtook is old.
<1>c. ASSUME reading' = Overtaken
      PROVE  (HasRead' => reading'[1] = "old") /\ (reading' = <<>> => reading = <<>>)
  <2>1. CASE Len(reading) = 2
    BY <1>c, <2>1 DEF Overtaken
  <2>2. CASE Len(reading) # 2
    BY <1>c, <2>2, <1>0 DEF Overtaken, HasRead
  <2> QED
    BY <2>1, <2>2
\* Steps that leave what was read and stored, and the multiplier of the draft.
<1>d. ASSUME UNCHANGED <<store, read, reading, missed>>, Written_Multiplier' = Written_Multiplier, AtEase' => AtEase, left => left'
      PROVE  ReadBack'
  BY <1>d DEF ReadBack, HasRead
<1>1. CASE Change
  <2>1. PICK patch \in GeneralTab(draft) \cup TelegramTab(draft) \cup SubscriptionGeneralTab(draft) \cup SubscriptionFormatsTab(draft) :
           draft' = With(draft, patch)
    BY <1>1 DEF Change, updateSetting
  <2>2. m \notin DOMAIN patch
    BY TabsAreHarmless DEF Harmless
  <2>3. draft'[m] = draft[m]
    BY <2>1, <2>2, <1>b, WithIs
  <2> QED
    BY <1>1, <1>d, <2>3 DEF Change, Written_Multiplier, AtEase, SaveDone
<1>2. CASE onSave
  BY <1>2, <1>d DEF onSave, Written_Multiplier, AtEase, SaveDone
<1>3. CASE UpdateAllSetting
  <2>1. CASE CheckValid(saving[1])
    <3>1. saving' = <<saving[1], "done">> /\ reading' = Overtaken
      BY <1>3, <2>1 DEF UpdateAllSetting
    <3>2. SaveDone'
      BY <3>1 DEF SaveDone
    <3> QED
      BY <3>2, <3>1, <1>c DEF ReadBack, AtEase
  <2>2. CASE ~CheckValid(saving[1])
    BY <1>3, <2>2, <1>d DEF UpdateAllSetting, Written_Multiplier, AtEase, SaveDone
  <2> QED
    BY <2>1, <2>2
<1>4. CASE SaveAnswered
  <2>1. CASE saving[2] = "done" /\ reading' = Refetched
    BY <2>1 DEF Refetched, ReadBack, AtEase, HasRead
  <2>2. CASE saving[2] = "refused" /\ UNCHANGED <<reading, missed, lost>>
    BY <1>4, <2>2, <1>d DEF SaveAnswered, Written_Multiplier, AtEase, SaveDone
  <2>3. CASE missed' /\ UNCHANGED reading
    BY <1>4, <2>3 DEF SaveAnswered, ReadBack, AtEase, HasRead
  <2> QED
    BY <1>4, <2>1, <2>2, <2>3 DEF SaveAnswered
<1>5. CASE ReadServed
  <2>1. reading' = <<"fresh", store>> /\ UNCHANGED store
    BY <1>5 DEF ReadServed
  <2> QED
    BY <2>1 DEF ReadBack, AtEase
<1>6. CASE ReadArrives
  <2>0. Len(reading) = 2 /\ ~left /\ reading' = <<>> /\ UNCHANGED store
    BY <1>6 DEF ReadArrives
  <2>1. CASE read' = reading[2] /\ draft' = reading[2] /\ missed' = (reading[1] = "old")
    <3>1. CASE reading[1] = "old"
      BY <2>0, <2>1, <3>1 DEF ReadBack, AtEase, HasRead
    <3>2. CASE reading[1] = "fresh"
      <4>1. read' = store'
        BY <2>0, <2>1, <3>2, <1>0 DEF ReadBack
      <4> QED
        BY <4>1, <2>0 DEF ReadBack, HasRead
    <3> QED
      BY <3>1, <3>2, <2>0, <1>0 DEF UnderWay, HasRead
  <2>2. CASE missed'
    BY <2>0, <2>2 DEF ReadBack, AtEase, HasRead
  <2> QED
    BY <1>6, <2>1, <2>2 DEF ReadArrives
<1>7. CASE onMultiplierChange
  <2>1. PICK v : posting' = <<v, "sent">>
    BY <1>7 DEF onMultiplierChange
  <2>2. posting = <<>> /\ posting'[2] = "sent" /\ UNCHANGED draft
    BY <1>7, <2>1 DEF onMultiplierChange
  <2>3. Written_Multiplier' = Written_Multiplier
    BY <2>2 DEF Written_Multiplier
  <2> QED
    BY <1>7, <1>d, <2>3 DEF onMultiplierChange, AtEase, SaveDone
<1>8. CASE updateTrafficMultiplier
  <2>1. /\ posting' = <<posting[1], "done">> /\ store' = [store EXCEPT ![m] = posting[1]]
        /\ reading' = Overtaken /\ UNCHANGED <<read, saving, missed, left>>
    BY <1>8 DEF updateTrafficMultiplier, m
  <2>2. AtEase' => AtEase
    BY <2>1, <1>c DEF AtEase, SaveDone
  <2>3. store'[m] = posting[1] /\ \A f \in Fields \ {m} : store'[f] = store[f]
    BY <2>1, <1>b
  <2>4. Written_Multiplier' = store'[m]
    BY <2>1, <2>3 DEF Written_Multiplier
  <2> QED
    BY <2>1, <2>2, <2>3, <2>4, <1>c DEF ReadBack
<1>9. CASE MultiplierAnswered
  <2>0. posting # <<>> /\ posting' = <<>> /\ UNCHANGED <<store, read, reading, saving, left>>
    BY <1>9 DEF MultiplierAnswered
  <2>1. CASE posting[2] = "done" /\ updateSetting([trafficMultiplier |-> posting[1]]) /\ UNCHANGED missed
    <3>0. draft' = With(draft, Paid(posting[1]))
      BY <2>1 DEF updateSetting, Paid
    <3>1. draft'[m] = posting[1]
      BY <3>0, <1>a, PaidIs
    <3>2. Written_Multiplier' = Written_Multiplier
      BY <3>1, <2>0, <2>1 DEF Written_Multiplier
    <3> QED
      BY <2>0, <2>1, <3>2, <1>d DEF AtEase, SaveDone
  <2>2. CASE missed' = (missed \/ posting[2] = "done") /\ UNCHANGED draft
    <3>1. CASE posting[2] = "done"
      BY <2>0, <2>2, <3>1 DEF ReadBack, AtEase, HasRead
    <3>2. CASE posting[2] # "done"
      <4>1. Written_Multiplier' = Written_Multiplier
        BY <2>0, <2>2, <3>2 DEF Written_Multiplier
      <4>2. AtEase' <=> AtEase
        BY <2>0, <2>2, <3>2 DEF AtEase, SaveDone
      <4> QED
        BY <2>0, <4>1, <4>2 DEF ReadBack, HasRead
    <3> QED
      BY <3>1, <3>2
  <2> QED
    BY <1>9, <2>1, <2>2 DEF MultiplierAnswered
<1>10. CASE TwoFactorOk \/ TwoFactorCancel \/ onUpdateUserClick
  <2>0. UNCHANGED <<read, reading, saving, posting, missed>>
    BY <1>10 DEF TwoFactorOk, TwoFactorCancel, onUpdateUserClick
  <2>1. CASE left'
    BY <2>1 DEF ReadBack, AtEase
  <2>2. CASE ~left'
    <3>1. UNCHANGED <<store, left>>
      BY <1>10, <2>2 DEF TwoFactorOk, TwoFactorOpen, TwoFactorCancel, onUpdateUserClick, sendUpdateUser
    <3>2. draft'[m] = draft[m]
      <4>1. \/ draft' = draft \/ draft' = With(draft, SwitchedOn(prompt.token))
            \/ draft' = With(draft, SwitchedOff) \/ draft' = With(draft, Cancelled)
        BY <1>10 DEF TwoFactorOk, TwoFactorOpen, TwoFactorCancel, onUpdateUserClick, updateSetting, SwitchedOn, SwitchedOff
      <4> QED
        <5>1. With(draft, SwitchedOn(prompt.token))[m] = draft[m]
          BY <1>a, SwitchedOnIs
        <5>2. With(draft, SwitchedOff)[m] = draft[m] /\ With(draft, Cancelled)[m] = draft[m]
          BY <1>a, SwitchedOffIs, CancelledIs
        <5> QED
          BY <4>1, <5>1, <5>2
    <3> QED
      BY <2>0, <3>1, <3>2, <1>d DEF Written_Multiplier, AtEase, SaveDone
  <2> QED
    BY <2>1, <2>2
<1>11. CASE \/ toggleTwoFactor \/ confirmCreateToken \/ confirmDeleteToken \/ toggleTokenEnabled \/ LoadServed \/ loadApiTokens
            \/ restartPanel \/ RestartOk \/ RestartCancel \/ SignedOut \/ UNCHANGED settingsVars
  <2>1. UNCHANGED <<store, read, draft, reading, saving, posting, missed>> /\ (left => left')
    BY <1>11 DEF toggleTwoFactor, confirmCreateToken, confirmDeleteToken, toggleTokenEnabled, TokenStep, LoadServed, loadApiTokens,
             restartPanel, RestartOk, RestartCancel, SignedOut, settingsVars, pageVars
  <2> QED
    BY <2>1, <1>d DEF Written_Multiplier, AtEase, SaveDone
<1> QED
  BY <1>1, <1>2, <1>3, <1>4, <1>5, <1>6, <1>7, <1>8, <1>9, <1>10, <1>11 DEF SettingsNext

-----------------------------------------------------------------------------
\* The API tokens shown.

\* A load is a token with its age.
LEMMA LoadIs ==
  ASSUME NEW load \in Loads, load # <<>>
  PROVE  load = <<load[1], load[2]>> /\ load[1] \in Tokens /\ load[2] \in {"fresh", "old"}
BY DEF Loads

\* Ageing the loads keeps their number.
LEMMA OutdatedIs ==
  ASSUME loads \in Seq(Loads)
  PROVE  /\ Outdated \in Seq(Loads) /\ Len(Outdated) = Len(loads) /\ DOMAIN Outdated = DOMAIN loads
         /\ \A i \in DOMAIN loads : Outdated[i] = <<>> \/ (Outdated[i] # <<>> /\ Outdated[i][2] = "old")
<1>1. \A i \in DOMAIN loads : loads[i] \in Loads
  OBVIOUS
<1>2. DOMAIN loads = 1 .. Len(loads) /\ Len(loads) \in Nat
  OBVIOUS
<1>3. \A i \in DOMAIN loads : Outdated[i] = IF loads[i] = <<>> THEN <<>> ELSE <<loads[i][1], "old">>
  BY DEF Outdated
<1>4. \A i \in DOMAIN loads : Outdated[i] \in Loads
  <2> TAKE i \in DOMAIN loads
  <2>1. CASE loads[i] = <<>>
    BY <1>3, <2>1 DEF Loads
  <2>2. CASE loads[i] # <<>>
    <3>1. loads[i][1] \in Tokens
      BY <1>1, <2>2, LoadIs
    <3>2. <<loads[i][1], "old">> \in Tokens \X {"fresh", "old"}
      BY <3>1
    <3>3. Outdated[i] = <<loads[i][1], "old">>
      BY <1>3, <2>2
    <3> QED
      BY <3>2, <3>3 DEF Loads
  <2> QED
    BY <2>1, <2>2
<1>5. Outdated \in [1 .. Len(loads) -> Loads]
  BY <1>2, <1>4 DEF Outdated
<1>6. Outdated \in Seq(Loads) /\ Len(Outdated) = Len(loads) /\ DOMAIN Outdated = DOMAIN loads
  BY <1>2, <1>5
<1>7. \A v : <<v, "old">> # <<>> /\ <<v, "old">>[2] = "old"
  OBVIOUS
<1> QED
  BY <1>3, <1>6, <1>7

\* Every step leaves a load that nothing overtook with the tokens there are.
LEMMA RowsStay ==
  ASSUME Rows, [SettingsNext]_settingsVars
  PROVE  Rows'
<1>a. \A i \in DOMAIN loads : loads[i] \in Loads
  BY DEF Rows
<1>b. Outdated \in Seq(Loads) /\ Len(Outdated) = Len(loads) /\ DOMAIN Outdated = DOMAIN loads
  BY OutdatedIs DEF Rows
<1>c. \A i \in DOMAIN Outdated : Outdated[i] # <<>> => Outdated[i][2] # "fresh"
  BY OutdatedIs DEF Rows
<1>d. <<>> \in Loads
  BY DEF Loads
<1>e. Reloaded \in Seq(Loads) /\ Reloaded # <<>> /\ \A i \in DOMAIN Reloaded : Reloaded[i] # <<>> => Reloaded[i][2] # "fresh"
  <2>1. Reloaded \in Seq(Loads) /\ Len(Reloaded) = Len(Outdated) + 1 /\ Len(Outdated) \in Nat
    BY <1>b, <1>d DEF Reloaded
  <2>2. \A i \in 1 .. Len(Outdated) + 1 : Reloaded[i] = IF i = Len(Outdated) + 1 THEN <<>> ELSE Outdated[i]
    BY <1>b DEF Reloaded
  <2>3. DOMAIN Reloaded = 1 .. Len(Outdated) + 1 /\ DOMAIN Outdated = 1 .. Len(Outdated)
    BY <2>1, <1>b
  <2>4. \A i \in DOMAIN Reloaded : Reloaded[i] = <<>> \/ (i \in DOMAIN Outdated /\ Reloaded[i] = Outdated[i])
    BY <2>1, <2>2, <2>3
  <2>5. Len(Reloaded) # 0
    BY <2>1
  <2> QED
    BY <2>1, <2>4, <2>5, <1>c
<1>1. CASE confirmCreateToken
  <2>1. tokens' = [t \in DOMAIN tokens \cup {"second"} |-> t = "second" \/ tokens[t]] /\ loads' = Reloaded /\ UNCHANGED tokenRows
    BY <1>1 DEF confirmCreateToken
  <2>2. PICK ids \in SUBSET {"first", "second"} : tokens \in [ids -> BOOLEAN]
    BY DEF Rows, Tokens
  <2>3. ids \cup {"second"} \in SUBSET {"first", "second"} /\ tokens' \in [ids \cup {"second"} -> BOOLEAN]
    BY <2>1, <2>2
  <2>4. tokens' \in Tokens
    BY <2>3 DEF Tokens
  <2> QED
    BY <2>1, <2>4, <1>e DEF Rows
<1>2. CASE confirmDeleteToken
  <2>1. PICK id \in DOMAIN tokenRows : tokens' = [t \in DOMAIN tokens \ {id} |-> tokens[t]]
    BY <1>2 DEF confirmDeleteToken
  <2>2. PICK ids \in SUBSET {"first", "second"} : tokens \in [ids -> BOOLEAN]
    BY DEF Rows, Tokens
  <2>3. ids \ {id} \in SUBSET {"first", "second"} /\ tokens' \in [ids \ {id} -> BOOLEAN]
    BY <2>1, <2>2
  <2>4. tokens' \in Tokens
    BY <2>3 DEF Tokens
  <2>5. loads' = Reloaded /\ UNCHANGED tokenRows
    BY <1>2 DEF confirmDeleteToken
  <2> QED
    BY <2>4, <2>5, <1>e DEF Rows
<1>3. CASE toggleTokenEnabled
  <2>1. PICK id \in DOMAIN tokenRows \cap DOMAIN tokens :
           tokens' = [tokens EXCEPT ![id] = ~tokenRows[id]] /\ tokenRows' = [tokenRows EXCEPT ![id] = ~tokenRows[id]]
    BY <1>3 DEF toggleTokenEnabled
  <2>2. PICK ids \in SUBSET {"first", "second"} : tokens \in [ids -> BOOLEAN]
    BY DEF Rows, Tokens
  <2>3. PICK shown \in SUBSET {"first", "second"} : tokenRows \in [shown -> BOOLEAN]
    BY DEF Rows, Tokens
  <2>4. (~tokenRows[id]) \in BOOLEAN
    OBVIOUS
  <2>5. tokens' \in [ids -> BOOLEAN] /\ tokenRows' \in [shown -> BOOLEAN]
    BY <2>1, <2>2, <2>3, <2>4
  <2>6. tokens' \in Tokens /\ tokenRows' \in Tokens
    BY <2>5, <2>2, <2>3 DEF Tokens
  <2>7. tokenRows = tokens => tokenRows' = tokens'
    BY <2>1
  <2>8. loads' = Outdated /\ UNCHANGED behind
    BY <1>3 DEF toggleTokenEnabled, TokenStep
  <2>9. loads' = <<>> => loads = <<>>
    BY <2>8, <1>b DEF Rows
  <2> QED
    BY <2>6, <2>7, <2>8, <2>9, <1>b, <1>c DEF Rows
<1>4. CASE LoadServed
  <2>1. PICK i \in DOMAIN loads : loads[i] = <<>> /\ loads' = [loads EXCEPT ![i] = <<tokens, "fresh">>]
    BY <1>4 DEF LoadServed
  <2>2. <<tokens, "fresh">> \in Loads
    BY DEF Rows, Loads
  <2>3. loads' \in Seq(Loads) /\ Len(loads') = Len(loads) /\ DOMAIN loads' = DOMAIN loads
    BY <2>1, <2>2 DEF Rows
  <2>4. \A j \in DOMAIN loads : loads'[j] = IF j = i THEN <<tokens, "fresh">> ELSE loads[j]
    BY <2>1
  <2>5. UNCHANGED <<tokens, tokenRows, behind>>
    BY <1>4 DEF LoadServed
  <2>6. loads' # <<>>
    <3>1. Len(loads) # 0
      BY <2>1 DEF Rows
    <3> QED
      BY <3>1, <2>3
  <2> QED
    BY <2>3, <2>4, <2>5, <2>6 DEF Rows
<1>5. CASE loadApiTokens
  <2>1. PICK i \in DOMAIN loads :
           loads[i] # <<>> /\ loads' = RemoveAt(loads, i) /\ tokenRows' = loads[i][1] /\ behind' = (loads[i][2] = "old")
    BY <1>5 DEF loadApiTokens
  <2>2. UNCHANGED tokens
    BY <1>5 DEF loadApiTokens
  <2>3. loads[i][1] \in Tokens /\ loads[i][2] \in {"fresh", "old"}
    BY <1>a, <2>1, LoadIs
  <2>4. ~behind' => tokenRows' = tokens'
    BY <2>1, <2>2, <2>3 DEF Rows
  <2>5. loads \in Seq(Loads) /\ Len(loads) \in Nat /\ i \in 1 .. Len(loads)
    BY <2>1 DEF Rows
  <2>6. /\ SubSeq(loads, 1, i - 1) \in Seq(Loads) /\ Len(SubSeq(loads, 1, i - 1)) = i - 1
        /\ \A j \in 1 .. i - 1 : SubSeq(loads, 1, i - 1)[j] = loads[j]
    BY <2>5
  <2>7. /\ SubSeq(loads, i + 1, Len(loads)) \in Seq(Loads) /\ Len(SubSeq(loads, i + 1, Len(loads))) = Len(loads) - i
        /\ \A j \in 1 .. Len(loads) - i : SubSeq(loads, i + 1, Len(loads))[j] = loads[i + j]
    BY <2>5
  <2>8. loads' = SubSeq(loads, 1, i - 1) \o SubSeq(loads, i + 1, Len(loads))
    BY <2>1 DEF RemoveAt
  <2> DEFINE before == SubSeq(loads, 1, i - 1)
             after == SubSeq(loads, i + 1, Len(loads))
  <2>9. before \in Seq(Loads) /\ after \in Seq(Loads) /\ Len(before) = i - 1 /\ Len(after) = Len(loads) - i
    BY <2>6, <2>7
  <2>10. loads' = before \o after
    BY <2>8
  <2> HIDE DEF before, after
  <2>11. /\ loads' \in Seq(Loads) /\ Len(loads') = Len(before) + Len(after)
         /\ \A j \in 1 .. Len(before) + Len(after) : loads'[j] = IF j <= Len(before) THEN before[j] ELSE after[j - Len(before)]
    <3>1. \A s, t \in Seq(Loads) :
            /\ s \o t \in Seq(Loads) /\ Len(s \o t) = Len(s) + Len(t)
            /\ \A j \in 1 .. Len(s) + Len(t) : (s \o t)[j] = IF j <= Len(s) THEN s[j] ELSE t[j - Len(s)]
      OBVIOUS
    <3> QED
      BY <3>1, <2>9, <2>10
  <2>12. \A j \in DOMAIN loads' : \E k \in DOMAIN loads : loads'[j] = loads[k]
    <3> TAKE j \in DOMAIN loads'
    <3>1. j \in 1 .. Len(loads) - 1 /\ DOMAIN loads = 1 .. Len(loads)
      BY <2>5, <2>9, <2>11
    <3>2. CASE j < i
      <4>1. loads'[j] = before[j] /\ before[j] = loads[j] /\ j \in 1 .. Len(loads)
        BY <2>5, <2>6, <2>9, <2>11, <3>1, <3>2 DEF before
      <4> QED
        BY <4>1, <3>1
    <3>3. CASE j >= i
      <4>1. j - Len(before) \in 1 .. Len(after) /\ loads'[j] = after[j - Len(before)]
        BY <2>5, <2>9, <2>11, <3>1, <3>3
      <4>2. j - Len(before) = j - i + 1
        BY <2>5, <2>9, <3>1
      <4>3. \A l \in 1 .. Len(loads) - i : after[l] = loads[i + l]
        BY <2>7 DEF after
      <4>4. after[j - Len(before)] = loads[i + (j - Len(before))]
        BY <4>1, <4>3, <2>9
      <4>5. i + (j - Len(before)) \in 1 .. Len(loads)
        BY <2>5, <2>9, <3>1, <3>3
      <4> QED
        BY <4>1, <4>4, <4>5, <3>1
    <3> QED
      BY <2>5, <3>1, <3>2, <3>3
  <2> QED
    BY <2>1, <2>2, <2>3, <2>4, <2>11, <2>12 DEF Rows
<1>6. CASE \/ Change \/ onSave \/ UpdateAllSetting \/ SaveAnswered \/ ReadServed \/ ReadArrives
           \/ onMultiplierChange \/ updateTrafficMultiplier \/ MultiplierAnswered
           \/ toggleTwoFactor \/ onUpdateUserClick \/ TwoFactorOk \/ TwoFactorCancel
           \/ restartPanel \/ RestartOk \/ RestartCancel \/ SignedOut \/ UNCHANGED settingsVars
  <2>1. UNCHANGED <<tokens, tokenRows, loads, behind>>
    BY <1>6 DEF Change, onSave, UpdateAllSetting, SaveAnswered, ReadServed, ReadArrives, onMultiplierChange, updateTrafficMultiplier,
             MultiplierAnswered, toggleTwoFactor, onUpdateUserClick, TwoFactorOk, TwoFactorCancel, restartPanel, RestartOk,
             RestartCancel, SignedOut, settingsVars, pageVars
  <2> QED
    BY <2>1 DEF Rows
<1> QED
  BY <1>1, <1>2, <1>3, <1>4, <1>5, <1>6 DEF SettingsNext

-----------------------------------------------------------------------------
\* Two-factor login.

\* The switch of every copy is on or off.
LEMMA CopiesAre ==
  ASSUME CopiesOK
  PROVE  \A s \in Copies \cup {store} : s["twoFactorEnable"] \in BOOLEAN
BY DEF CopiesOK, IsSettings

\* What the steps that change the store do to two-factor login.
LEMMA LoginStep ==
  ASSUME CopiesOK, Proven, UnderWay, [SettingsNext]_settingsVars
  PROVE  /\ proven \subseteq proven' /\ "" \notin proven'
         /\ Unproven' => Unproven /\ store'["twoFactorToken"] = store["twoFactorToken"]
         /\ Unproven /\ store["twoFactorToken"] \notin proven' => Unproven'
         /\ store'["twoFactorEnable"] => store'["twoFactorToken"] # ""
         /\ proven' = proven \/ (store' = store \/ ~store'["twoFactorEnable"])
<1>0. IsSettings(store) /\ store = [f \in Fields |-> store[f]]
  BY DEF CopiesOK, IsSettings
<1>1. proven' = proven \/ (TwoFactorOk /\ proven' = proven \cup ({prompt.token} \ {""}))
  <2>1. CASE TwoFactorOk
    BY <2>1 DEF TwoFactorOk
  <2>2. CASE \/ Change \/ onSave \/ UpdateAllSetting \/ SaveAnswered \/ ReadServed \/ ReadArrives
             \/ onMultiplierChange \/ updateTrafficMultiplier \/ MultiplierAnswered
             \/ toggleTwoFactor \/ onUpdateUserClick \/ TwoFactorCancel
             \/ confirmCreateToken \/ confirmDeleteToken \/ toggleTokenEnabled \/ LoadServed \/ loadApiTokens
             \/ restartPanel \/ RestartOk \/ RestartCancel \/ SignedOut \/ UNCHANGED settingsVars
    BY <2>2 DEF Change, onSave, UpdateAllSetting, SaveAnswered, ReadServed, ReadArrives, onMultiplierChange, updateTrafficMultiplier,
             MultiplierAnswered, toggleTwoFactor, onUpdateUserClick, TwoFactorCancel, confirmCreateToken, confirmDeleteToken,
             toggleTokenEnabled, TokenStep, LoadServed, loadApiTokens, restartPanel, RestartOk, RestartCancel, SignedOut, settingsVars
  <2> QED
    BY <2>1, <2>2 DEF SettingsNext
<1>2. proven \subseteq proven' /\ "" \notin proven'
  BY <1>1 DEF Proven
<1>3. CASE store' = store
  BY <1>2, <1>3 DEF Unproven, Proven
<1>4. CASE UpdateAllSetting /\ saving # <<>> /\ store' = Written(saving[1])
  <2>1. proven' = proven
    BY <1>4 DEF UpdateAllSetting
  <2>2. saving[1] \in Copies /\ IsSettings(saving[1])
    BY <1>4 DEF Copies, CopiesOK
  <2>3. /\ store'["twoFactorEnable"] = saving[1]["twoFactorEnable"]
        /\ store'["twoFactorToken"] =
             IF saving[1]["twoFactorEnable"] /\ saving[1]["twoFactorToken"] = "" THEN store["twoFactorToken"] ELSE saving[1]["twoFactorToken"]
    BY <1>0, <1>4, <2>2, WrittenIs
  <2>4. saving[1]["twoFactorEnable"] => saving[1]["twoFactorToken"] # ""
    BY <2>2 DEF Proven
  <2>5. store'["twoFactorEnable"] = saving[1]["twoFactorEnable"]
        /\ (store'["twoFactorEnable"] => store'["twoFactorToken"] = saving[1]["twoFactorToken"])
    BY <2>3, <2>4
  <2>6. CASE Unproven
    BY <2>1, <2>2, <2>5, <2>6, <1>2 DEF Proven, Unproven
  <2>7. CASE ~Unproven
    <3>1. saving[1]["twoFactorEnable"] => saving[1]["twoFactorToken"] \in proven
      BY <2>2, <2>7 DEF Proven, Unproven
    <3> QED
      BY <2>1, <2>4, <2>5, <2>7, <3>1, <1>2 DEF Unproven
  <2> QED
    BY <2>6, <2>7
<1>5. CASE updateTrafficMultiplier /\ store' = [store EXCEPT ![m] = posting[1]]
  <2>1. \A f \in {"twoFactorEnable", "twoFactorToken"} : store'[f] = store[f]
    BY <1>0, <1>5, FieldsAre DEF m
  <2>2. proven' = proven
    BY <1>5 DEF updateTrafficMultiplier
  <2> QED
    BY <2>1, <2>2, <1>2 DEF Unproven, Proven
<1>6. CASE /\ onUpdateUserClick \/ TwoFactorOk
           /\ ~left /\ left' /\ store' = [store EXCEPT !["twoFactorEnable"] = FALSE, !["twoFactorToken"] = ""] /\ UNCHANGED draft
  <2>1. store'["twoFactorEnable"] = FALSE
    BY <1>0, <1>6, FieldsAre
  <2>2. Unproven => store["twoFactorToken"] \in proven'
    <3>1. CASE onUpdateUserClick
      <4>1. ~draft["twoFactorEnable"] /\ draft \in Copies
        BY <1>6, <3>1 DEF onUpdateUserClick, Copies
      <4> QED
        BY <4>1 DEF Proven
    <3>2. CASE TwoFactorOk
      <4>1. prompt.of = "user" /\ ~left /\ proven' = proven \cup ({prompt.token} \ {""})
        BY <1>6, <3>2 DEF TwoFactorOk, TwoFactorOpen
      <4> QED
        BY <4>1 DEF Proven, Unproven
    <3> QED
      BY <1>6, <3>1, <3>2
  <2> QED
    BY <2>1, <2>2, <1>2 DEF Unproven
<1> QED
  BY <1>3, <1>4, <1>5, <1>6, StoreStep

\* The new draft has the login of a copy, or none, or one just proven.
LEMMA DraftLogin ==
  ASSUME CopiesOK, Proven, UnderWay, [SettingsNext]_settingsVars
  PROVE  \/ \E s \in Copies : draft'["twoFactorEnable"] = s["twoFactorEnable"] /\ draft'["twoFactorToken"] = s["twoFactorToken"]
         \/ ~Unproven' /\ (draft'["twoFactorEnable"] => draft'["twoFactorToken"] \in proven')
<1>0. draft \in Copies /\ IsSettings(draft) /\ (HasRead => reading[2] \in Copies)
  BY DEF CopiesOK, Copies
<1>1. CASE draft' = draft \/ (HasRead /\ draft' = reading[2])
  BY <1>0, <1>1
<1>2. CASE \E patch : Harmless(patch) /\ draft' = With(draft, patch)
  <2>1. PICK patch : Harmless(patch) /\ draft' = With(draft, patch)
    BY <1>2
  <2>2. "twoFactorEnable" \in Fields \ DOMAIN patch /\ "twoFactorToken" \in Fields \ DOMAIN patch
    BY <2>1, FieldsAre DEF Harmless
  <2>3. draft'["twoFactorEnable"] = draft["twoFactorEnable"] /\ draft'["twoFactorToken"] = draft["twoFactorToken"]
    BY <1>0, <2>1, <2>2, WithIs DEF IsSettings
  <2> QED
    BY <1>0, <2>3
<1>3. CASE draft' = With(draft, Paid(posting[1]))
  <2>1. \A f \in Fields \ {m} : With(draft, Paid(posting[1]))[f] = draft[f]
    BY <1>0, PaidIs
  <2>2. "twoFactorEnable" \in Fields \ {m} /\ "twoFactorToken" \in Fields \ {m}
    BY FieldsAre DEF m
  <2>3. draft'["twoFactorEnable"] = draft["twoFactorEnable"] /\ draft'["twoFactorToken"] = draft["twoFactorToken"]
    BY <1>3, <2>1, <2>2
  <2> QED
    BY <1>0, <2>3
<1>4. CASE TwoFactorOk /\ prompt.of = "set" /\ draft' = With(draft, SwitchedOn(prompt.token))
  <2>1. ~left /\ proven' = proven \cup ({prompt.token} \ {""})
    BY <1>4 DEF TwoFactorOk, TwoFactorOpen
  <2>2. ~Unproven /\ prompt.token # ""
    BY <1>4, <2>1 DEF Proven
  <2>3. ~Unproven'
    BY <2>2, LoginStep
  <2>4. draft'["twoFactorToken"] = prompt.token
    <3>1. With(draft, SwitchedOn(prompt.token))["twoFactorToken"] = prompt.token
      BY <1>0, SwitchedOnIs
    <3> QED
      BY <1>4, <3>1
  <2> QED
    BY <2>1, <2>2, <2>3, <2>4
<1>5. CASE TwoFactorOk /\ prompt.of = "delete" /\ draft' = With(draft, SwitchedOff)
  <2>1. ~left /\ proven' = proven \cup ({prompt.token} \ {""})
    BY <1>5 DEF TwoFactorOk, TwoFactorOpen
  <2>2. Unproven => store["twoFactorToken"] \in proven'
    BY <1>5, <2>1 DEF Proven, Unproven
  <2>3. ~Unproven'
    BY <2>2, LoginStep DEF Unproven
  <2>4. draft'["twoFactorEnable"] = FALSE
    BY <1>0, <1>5, SwitchedOffIs
  <2> QED
    BY <2>3, <2>4
<1>6. CASE TwoFactorCancel /\ prompt.of = "set" /\ draft' = With(draft, Cancelled)
  <2>1. ~left
    BY <1>6 DEF TwoFactorCancel, TwoFactorOpen
  <2>2. ~Unproven
    BY <1>6, <2>1 DEF Proven
  <2>3. ~Unproven'
    BY <2>2, LoginStep
  <2>4. draft'["twoFactorEnable"] = FALSE
    BY <1>0, <1>6, CancelledIs
  <2> QED
    BY <2>3, <2>4
<1> QED
  BY <1>1, <1>2, <1>3, <1>4, <1>5, <1>6, DraftStep

\* What the dialog asked a code of stays what it was, until it is closed.
LEMMA PromptStep ==
  ASSUME [SettingsNext]_settingsVars, ~left', prompt'.of \in {"set", "delete", "user"}
  PROVE  /\ ~left
         /\ \/ prompt' = prompt
            \/ prompt'.of = "set" /\ ~draft["twoFactorEnable"] /\ prompt'.token \in Secrets /\ UNCHANGED <<store, proven>>
            \/ prompt'.of \in {"delete", "user"} /\ prompt'.token = draft["twoFactorToken"] /\ UNCHANGED <<store, proven>>
<1>0. NoPrompt.of = "none"
  BY DEF NoPrompt
<1>1. CASE toggleTwoFactor
  <2>1. CASE \E token \in Secrets : ~draft["twoFactorEnable"] /\ prompt' = [of |-> "set", token |-> token]
    BY <1>1, <2>1 DEF toggleTwoFactor, Free
  <2>2. CASE prompt' = [of |-> "delete", token |-> draft["twoFactorToken"]]
    BY <1>1, <2>2 DEF toggleTwoFactor, Free
  <2> QED
    BY <1>1, <2>1, <2>2 DEF toggleTwoFactor
<1>2. CASE onUpdateUserClick
  <2>1. CASE prompt' = [of |-> "user", token |-> draft["twoFactorToken"]] /\ UNCHANGED <<store, left>>
    BY <1>2, <2>1 DEF onUpdateUserClick, Free
  <2> QED
    BY <1>2, <2>1 DEF onUpdateUserClick, sendUpdateUser
<1>3. CASE restartPanel
  BY <1>3 DEF restartPanel
<1>4. CASE TwoFactorOk \/ TwoFactorCancel \/ RestartCancel \/ SignedOut
  BY <1>0, <1>4 DEF TwoFactorOk, TwoFactorCancel, RestartCancel, SignedOut
<1>5. CASE \/ Change \/ onSave \/ UpdateAllSetting \/ SaveAnswered \/ ReadServed \/ ReadArrives
           \/ onMultiplierChange \/ updateTrafficMultiplier \/ MultiplierAnswered
           \/ confirmCreateToken \/ confirmDeleteToken \/ toggleTokenEnabled \/ LoadServed \/ loadApiTokens
           \/ RestartOk \/ UNCHANGED settingsVars
  BY <1>5 DEF Change, onSave, UpdateAllSetting, SaveAnswered, ReadServed, ReadArrives, onMultiplierChange, updateTrafficMultiplier,
           MultiplierAnswered, confirmCreateToken, confirmDeleteToken, toggleTokenEnabled, TokenStep, LoadServed, loadApiTokens,
           RestartOk, settingsVars, pageVars
<1> QED
  BY <1>1, <1>2, <1>3, <1>4, <1>5 DEF SettingsNext

\* Every step keeps a token that is in force proven.
LEMMA ProvenStays ==
  ASSUME CopiesOK, Proven, UnderWay, [SettingsNext]_settingsVars
  PROVE  Proven'
<1>0. Copies' \subseteq Copies \cup {store, draft'} /\ draft \in Copies
  BY CopiesStep DEF Copies
<1>1. "" \notin proven' /\ (store'["twoFactorEnable"] => store'["twoFactorToken"] # "")
  BY LoginStep
<1>2. ASSUME Unproven', NEW s \in Copies'
      PROVE  s["twoFactorEnable"] /\ s["twoFactorToken"] = store'["twoFactorToken"]
  <2>1. Unproven /\ store'["twoFactorToken"] = store["twoFactorToken"]
    BY <1>2, LoginStep
  <2>2. \A c \in Copies \cup {store} : c["twoFactorEnable"] /\ c["twoFactorToken"] = store["twoFactorToken"]
    BY <2>1 DEF Proven, Unproven
  <2>3. draft'["twoFactorEnable"] /\ draft'["twoFactorToken"] = store["twoFactorToken"]
    BY <1>2, <2>2, DraftLogin
  <2> QED
    BY <1>0, <2>1, <2>2, <2>3
<1>3. ASSUME NEW s \in Copies', s["twoFactorEnable"], s["twoFactorToken"] \notin proven'
      PROVE  store'["twoFactorEnable"] /\ s["twoFactorToken"] = store'["twoFactorToken"]
  <2>1. ASSUME NEW c \in Copies \cup {store}, c["twoFactorEnable"], c["twoFactorToken"] \notin proven'
        PROVE  store'["twoFactorEnable"] /\ c["twoFactorToken"] = store'["twoFactorToken"]
    <3>1. c["twoFactorToken"] \notin proven
      BY <2>1, LoginStep
    <3>2. store["twoFactorEnable"] /\ c["twoFactorToken"] = store["twoFactorToken"]
      BY <2>1, <3>1 DEF Proven
    <3>3. Unproven /\ store["twoFactorToken"] \notin proven'
      BY <2>1, <3>1, <3>2 DEF Unproven
    <3>4. Unproven' /\ store'["twoFactorToken"] = store["twoFactorToken"]
      BY <3>3, LoginStep
    <3> QED
      BY <3>2, <3>4 DEF Unproven
  <2>2. CASE s \in Copies \cup {store}
    BY <1>3, <2>1, <2>2
  <2>3. CASE s = draft'
    <3>1. PICK c \in Copies : draft'["twoFactorEnable"] = c["twoFactorEnable"] /\ draft'["twoFactorToken"] = c["twoFactorToken"]
      BY <1>3, <2>3, DraftLogin
    <3>2. store'["twoFactorEnable"] /\ c["twoFactorToken"] = store'["twoFactorToken"]
      BY <1>3, <2>1, <2>3, <3>1
    <3> QED
      BY <2>3, <3>1, <3>2
  <2> QED
    BY <1>0, <2>2, <2>3
<1>4. ASSUME ~left', prompt'.of = "set"
      PROVE  ~Unproven' /\ prompt'.token # ""
  <2>1. CASE prompt' = prompt
    <3>1. ~left
      BY <1>4, PromptStep
    <3> QED
      BY <1>4, <2>1, <3>1, LoginStep DEF Proven
  <2>2. CASE ~draft["twoFactorEnable"] /\ prompt'.token \in Secrets
    <3>1. ~Unproven
      BY <1>0, <2>2 DEF Proven
    <3> QED
      BY <2>2, <3>1, LoginStep, SettingsAssumption
  <2> QED
    BY <1>4, <2>1, <2>2, PromptStep
<1>5. ASSUME ~left', prompt'.of \in {"delete", "user"}, Unproven'
      PROVE  prompt'.token = store'["twoFactorToken"]
  <2>0. Unproven /\ store'["twoFactorToken"] = store["twoFactorToken"] /\ ~left
    BY <1>5, LoginStep, PromptStep
  <2>1. CASE prompt' = prompt
    BY <1>5, <2>0, <2>1 DEF Proven
  <2>2. CASE prompt'.token = draft["twoFactorToken"]
    BY <1>0, <2>0, <2>2 DEF Proven
  <2> QED
    BY <1>5, <2>1, <2>2, PromptStep
<1> QED
  BY <1>1, <1>2, <1>3, <1>4, <1>5 DEF Proven

-----------------------------------------------------------------------------
\* Nothing to save, nothing under way: what is shown is what is stored.
LEMMA ShownIsStored ==
  ASSUME CopiesOK, ReadBack, ~left, saveDisabled, ~Busy, ~missed
  PROVE  draft = store
<1>1. IsSettings(draft) /\ IsSettings(store)
  BY DEF CopiesOK, Copies
<1>2. AtEase /\ posting = <<>> /\ read = draft
  BY DEF Busy, AtEase, SaveDone, saveDisabled
<1>3. \A f \in Fields : draft[f] = store[f]
  BY <1>2 DEF ReadBack, Written_Multiplier
<1>4. draft = [f \in Fields |-> draft[f]] /\ store = [f \in Fields |-> store[f]]
  BY <1>1 DEF IsSettings
<1> QED
  BY <1>3, <1>4

\* Every step keeps a quiet restart heading for the saved address.
LEMMA RestartingStays ==
  ASSUME CopiesOK, UnderWay, ReadBack, Restarting, [SettingsNext]_settingsVars
  PROVE  Restarting'
<1>0. NoPrompt.of = "none"
  BY DEF NoPrompt
<1>1. SUFFICES ASSUME prompt'.of = "restart", prompt'.quiet
               PROVE  IF left' THEN location' = Reached(store', prompt'.from)
                               ELSE ~Busy' /\ prompt'.allSetting = store' /\ prompt'.from = location'
  BY DEF Restarting
<1>2. CASE restartPanel
  <2>1. /\ prompt' = [of |-> "restart", allSetting |-> draft, quiet |-> ~Busy /\ ~missed, from |-> location]
        /\ ~left /\ saveDisabled /\ UNCHANGED <<store, saving, reading, posting, location, left>>
    BY <1>2 DEF restartPanel, Free
  <2>2. ~Busy /\ ~missed /\ prompt'.allSetting = draft /\ prompt'.from = location
    BY <1>1, <2>1
  <2>3. draft = store
    BY <2>1, <2>2, ShownIsStored
  <2> QED
    BY <2>1, <2>2, <2>3 DEF Busy
<1>3. CASE RestartOk
  <2>1. /\ ~left /\ left' /\ prompt' = prompt /\ prompt.of = "restart" /\ store' = store
        /\ location' = rebuildUrlAfterRestart(prompt.allSetting)
    BY <1>3 DEF RestartOk
  <2>2. prompt.allSetting = store /\ prompt.from = location
    BY <1>1, <2>1 DEF Restarting
  <2>3. rebuildUrlAfterRestart(store) = Reached(store, location)
    BY DEF rebuildUrlAfterRestart, restartPort, Reached
  <2> QED
    BY <2>1, <2>2, <2>3
<1>4. CASE TwoFactorOk \/ TwoFactorCancel \/ RestartCancel \/ SignedOut \/ toggleTwoFactor
  <2>1. prompt' = NoPrompt \/ prompt'.of \in {"set", "delete"}
    <3>1. CASE toggleTwoFactor
      <4>1. (\E token : prompt' = [of |-> "set", token |-> token]) \/ prompt' = [of |-> "delete", token |-> draft["twoFactorToken"]]
        BY <3>1 DEF toggleTwoFactor
      <4> QED
        BY <4>1
    <3>2. CASE TwoFactorOk \/ TwoFactorCancel \/ RestartCancel \/ SignedOut
      BY <3>2 DEF TwoFactorOk, TwoFactorCancel, RestartCancel, SignedOut
    <3> QED
      BY <1>4, <3>1, <3>2
  <2> QED
    BY <1>0, <1>1, <2>1
<1>5. CASE onUpdateUserClick
  BY <1>0, <1>1, <1>5 DEF onUpdateUserClick, Free, NoPrompt
<1>6. CASE \/ Change \/ onSave \/ onMultiplierChange \/ confirmCreateToken \/ confirmDeleteToken \/ toggleTokenEnabled
  BY <1>0, <1>1, <1>6 DEF Change, onSave, onMultiplierChange, confirmCreateToken, confirmDeleteToken, toggleTokenEnabled, TokenStep, Free
<1>7. CASE \/ UpdateAllSetting \/ SaveAnswered \/ ReadServed \/ ReadArrives \/ updateTrafficMultiplier \/ MultiplierAnswered
  <2>1. Busy /\ ~left /\ prompt' = prompt
    <3>1. Len(reading) = 2 => reading # <<>>
      OBVIOUS
    <3> QED
      BY <1>7, <3>1 DEF UpdateAllSetting, SaveAnswered, ReadServed, ReadArrives, updateTrafficMultiplier, MultiplierAnswered, Busy
  <2> QED
    BY <1>1, <2>1 DEF Restarting
<1>8. CASE LoadServed \/ loadApiTokens \/ UNCHANGED settingsVars
  <2>1. UNCHANGED <<store, saving, reading, posting, location, left, prompt>>
    BY <1>8 DEF LoadServed, loadApiTokens, settingsVars, pageVars
  <2> QED
    BY <1>1, <2>1 DEF Restarting, Busy
<1> QED
  BY <1>2, <1>3, <1>4, <1>5, <1>6, <1>7, <1>8 DEF SettingsNext

-----------------------------------------------------------------------------
\* The inductive invariant holds in every state.
LEMMA InitInv ==
  ASSUME SettingsInit
  PROVE  SettingsInv
<1>1. /\ IsSettings(store) /\ (store["twoFactorEnable"] => store["twoFactorToken"] # "")
      /\ (store["webCertFile"] = "" <=> store["webKeyFile"] = "") /\ Slashed[store["webBasePath"]] = store["webBasePath"]
  BY SettingsAssumption DEF SettingsInit, IsSettings
<1>2. /\ read = store /\ draft = store /\ saving = <<>> /\ reading = <<>> /\ posting = <<>> /\ prompt = NoPrompt /\ proven = {}
      /\ tokens = [t \in {"first"} |-> TRUE] /\ tokenRows = tokens /\ loads = <<>>
  BY DEF SettingsInit
<1>3. tokens \in Tokens
  <2>1. tokens \in [{"first"} -> BOOLEAN] /\ {"first"} \in SUBSET {"first", "second"}
    BY <1>2
  <2> QED
    BY <2>1 DEF Tokens
<1>4. UnderWay /\ CopiesOK /\ StoredOK /\ ReadBack
  BY <1>1, <1>2 DEF UnderWay, CopiesOK, Copies, StoredOK, ReadBack, HasRead
<1>5. Rows
  BY <1>2, <1>3 DEF Rows
<1>6. prompt.of = "none"
  BY <1>2 DEF NoPrompt
<1>7. Proven
  <2>1. Copies = {store}
    BY <1>2 DEF Copies, HasRead
  <2> QED
    <3>1. \A s \in Copies : s = store
      BY <2>1
    <3>2. Unproven => store["twoFactorEnable"]
      BY DEF Unproven
    <3>3. "" \notin proven
      BY <1>2
    <3> QED
      BY <1>1, <1>6, <3>1, <3>2, <3>3 DEF Proven
<1>8. Restarting
  BY <1>6 DEF Restarting
<1> QED
  BY <1>4, <1>5, <1>7, <1>8 DEF SettingsInv

\* Every reachable state satisfies the invariant, whatever can be typed and
\* however many changes, saves and lost answers there are.
THEOREM Inductive == SettingsSpec => []SettingsInv
<1>1. SettingsInv /\ [SettingsNext]_settingsVars => SettingsInv'
  BY CopiesStep, SettingsStay, ReadBackStays, RowsStay, ProvenStays, RestartingStays DEF SettingsInv
<1> QED
  BY <1>1, InitInv, PTL DEF SettingsSpec

\* What the page offers no save for is what the panel has stored, and the API
\* tokens shown are those stored, however save, read, multiplier and reload cross.
THEOREM ShownIsTrue == SettingsSpec => []SettingsShown
<1>1. SettingsInv => SettingsShown
  BY ShownIsStored DEF SettingsInv, SettingsShown, Rows
<1> QED
  BY <1>1, Inductive, PTL

\* Two-factor login is stored with a new token, removed, or the credentials
\* changed, only by one who entered a code of the token in question.
THEOREM LoginIsProven == SettingsSpec => TwoFactorProven
<1> DEFINE Step ==
      /\ store'["twoFactorEnable"] /\ (~store["twoFactorEnable"] \/ store'["twoFactorToken"] # store["twoFactorToken"])
           => store'["twoFactorToken"] \in proven
      /\ store["twoFactorEnable"] /\ ~store'["twoFactorEnable"] => store["twoFactorToken"] \in proven'
      /\ ~renamed /\ renamed' /\ store["twoFactorEnable"] => store["twoFactorToken"] \in proven'
<1>1. SettingsInv /\ [SettingsNext]_settingsVars => [Step]_settingsVars
  <2> SUFFICES ASSUME SettingsInv, [SettingsNext]_settingsVars
               PROVE  Step
    OBVIOUS
  <2>0. UnderWay /\ CopiesOK /\ Proven
    BY DEF SettingsInv
  <2>1. ASSUME store'["twoFactorEnable"], ~store["twoFactorEnable"] \/ store'["twoFactorToken"] # store["twoFactorToken"]
        PROVE  store'["twoFactorToken"] \in proven
    <3>1. ~Unproven'
      BY <2>0, <2>1, LoginStep DEF Unproven
    <3>2. proven' = proven
      BY <2>0, <2>1, LoginStep
    <3> QED
      BY <2>1, <3>1, <3>2 DEF Unproven
  <2>2. ASSUME store["twoFactorEnable"], ~store'["twoFactorEnable"]
        PROVE  store["twoFactorToken"] \in proven'
    BY <2>0, <2>2, LoginStep DEF Unproven
  <2>3. ASSUME ~renamed, renamed', store["twoFactorEnable"]
        PROVE  store["twoFactorToken"] \in proven'
    <3>1. store = [f \in Fields |-> store[f]] /\ "twoFactorEnable" \in Fields /\ "twoFactorToken" \in Fields
      BY <2>0, FieldsAre DEF CopiesOK, IsSettings
    <3>2. sendUpdateUser
      <4>1. CASE onUpdateUserClick
        BY <2>3, <4>1 DEF onUpdateUserClick
      <4>2. CASE TwoFactorOk
        BY <2>3, <4>2 DEF TwoFactorOk, TwoFactorOpen
      <4>3. CASE \/ Change \/ onSave \/ UpdateAllSetting \/ SaveAnswered \/ ReadServed \/ ReadArrives
                 \/ onMultiplierChange \/ updateTrafficMultiplier \/ MultiplierAnswered \/ toggleTwoFactor \/ TwoFactorCancel
                 \/ confirmCreateToken \/ confirmDeleteToken \/ toggleTokenEnabled \/ LoadServed \/ loadApiTokens
                 \/ restartPanel \/ RestartOk \/ RestartCancel \/ SignedOut \/ UNCHANGED settingsVars
        <5>1. renamed' = renamed
          BY <4>3 DEF Change, onSave, UpdateAllSetting, SaveAnswered, ReadServed, ReadArrives, onMultiplierChange,
               updateTrafficMultiplier, MultiplierAnswered, toggleTwoFactor, TwoFactorCancel, confirmCreateToken, confirmDeleteToken,
               toggleTokenEnabled, TokenStep, LoadServed, loadApiTokens, restartPanel, RestartOk, RestartCancel, SignedOut, settingsVars
        <5> QED
          BY <2>3, <5>1
      <4> QED
        BY <4>1, <4>2, <4>3 DEF SettingsNext
    <3>3. store'["twoFactorEnable"] = FALSE
      BY <2>3, <3>1, <3>2 DEF sendUpdateUser
    <3> QED
      BY <2>2, <2>3, <3>3
  <2> QED
    BY <2>1, <2>2, <2>3
<1>2. SettingsSpec => [][Step]_settingsVars
  BY <1>1, Inductive, PTL DEF SettingsSpec
<1> QED
  BY <1>2 DEF TwoFactorProven

\* A restart asked for while nothing was under way leads to where the panel
\* listens, when the browser can know it.
THEOREM RestartIsFollowed == SettingsSpec => []RestartReaches
<1>1. SettingsInv => RestartReaches
  <2> SUFFICES ASSUME SettingsInv, left, prompt.of = "restart", prompt.quiet,
                      isIp(prompt.from.host) \/ store["webPort"] = prompt.from.port,
                      store["webDomain"] \in {"", prompt.from.host} \/ (isIp(prompt.from.host) /\ isIp(store["webDomain"]))
               PROVE  /\ location.scheme = (IF store["webCertFile"] # "" /\ store["webKeyFile"] # "" THEN "https" ELSE "http")
                      /\ location.port = store["webPort"] /\ location.path = store["webBasePath"]
                      /\ store["webDomain"] \in {"", location.host}
    BY DEF RestartReaches
  <2>1. location = Reached(store, prompt.from)
    BY DEF SettingsInv, Restarting
  <2>2. (store["webCertFile"] = "" <=> store["webKeyFile"] = "") /\ Slashed[store["webBasePath"]] = store["webBasePath"]
    BY DEF SettingsInv, StoredOK
  <2> QED
    BY <2>1, <2>2 DEF Reached
<1> QED
  BY <1>1, Inductive, PTL

-----------------------------------------------------------------------------
\* The outbounds of the template and their dialog: the inductive invariant.

FormKeys == {"protocol", "settings", "tag", "sendThrough", "mux", "stream"}
DialogKeys == {"open", "index", "existingTags", "form", "tab", "json", "dirty", "typed"}

\* A form with hysteria's transport where hysteria is, and, unless the user may
\* have brought it, nowhere else.
RidesOwn(f, brought) ==
  /\ f.protocol = "hysteria" => Network(f) = "hysteria" /\ Security(f) = "tls"
  /\ Network(f) = "hysteria" /\ ~brought => f.protocol = "hysteria"
IsOutboundForm(f) == DOMAIN f = FormKeys

\* What the dialog noted when it opened stays true until it closes.
DialogOK ==
  /\ dialog.open \in BOOLEAN
  /\ dialog.open =>
       /\ DOMAIN dialog = DialogKeys /\ dialog.typed \in BOOLEAN
       /\ dialog.index \in 0 .. Len(outbounds) /\ dialog.existingTags = TagsWithout(dialog.index)
       /\ IsOutboundForm(dialog.form) /\ RidesOwn(dialog.form, dialog.typed)
OutboundsInv == IsList(outbounds) /\ Distinct(outbounds) /\ DialogOK

-----------------------------------------------------------------------------
\* Objects: what a key of one laid over another is.

\* A stream that a slice without the network is laid over keeps its network.
LEMMA NetworkStays ==
  ASSUME NEW a, NEW b, "network" \notin DOMAIN a
  PROVE  Read(Over(a, b), "network", "") = Read(b, "network", "")
BY DEF Over, Read

-----------------------------------------------------------------------------
\* The streams the dialog starts from.

\* A new stream is on the network it was made for.
LEMMA SliceIs ==
  ASSUME NEW network
  PROVE  Read(newStreamSlice(network), "network", "") = network
<1>1. \A b : Read(Over([network |-> network], b), "network", "") = network
  BY DEF Over, Read
<1> QED BY <1>1 DEF newStreamSlice

\* Hysteria's own stream.
LEMMA HysteriaSliceIs ==
  /\ Read(hysteriaStreamSlice, "network", "") = "hysteria"
  /\ Read(hysteriaStreamSlice, "security", "none") = "tls"
<1> DEFINE secured == [security |-> "tls", tlsSettings |-> NewTls(<<"h3">>)]
<1>1. DOMAIN secured = {"security", "tlsSettings"} /\ secured["security"] = "tls"
  OBVIOUS
<1>2. hysteriaStreamSlice = Over(secured, newStreamSlice("hysteria"))
  BY DEF hysteriaStreamSlice
<1> HIDE DEF secured
<1>3. Read(newStreamSlice("hysteria"), "network", "") = "hysteria"
  BY SliceIs
<1>4. Read(hysteriaStreamSlice, "network", "") = "hysteria"
  BY <1>1, <1>2, <1>3, NetworkStays
<1> QED BY <1>1, <1>2, <1>4 DEF Over, Read

\* The stream every other protocol starts with.
LEMMA TcpSliceIs == Read(TcpSlice, "network", "") = "tcp"
<1>1. DOMAIN [security |-> "none"] = {"security"}
  OBVIOUS
<1> QED BY <1>1, NetworkStays, SliceIs DEF TcpSlice

\* The effects put every form on its own transport.
LEMMA SettledRides ==
  ASSUME NEW f, IsOutboundForm(f), NEW brought,
         Network(f) = "hysteria" /\ ~brought => f.protocol = "hysteria"
  PROVE  IsOutboundForm(Settled(f)) /\ RidesOwn(Settled(f), brought)
<1> DEFINE g == IF canEnableStream(f.protocol) /\ Network(f) = "" THEN [f EXCEPT !.stream = TcpSlice] ELSE f
           kept == [k \in DOMAIN g.stream \cap {"hysteriaSettings", "tlsSettings"} |-> g.stream[k]]
           own == Over(kept, hysteriaStreamSlice)
<1>1. IsOutboundForm(g) /\ g.protocol = f.protocol
  BY DEF IsOutboundForm, FormKeys
<1>2. Network(g) = "hysteria" /\ ~brought => g.protocol = "hysteria"
  <2>1. CASE g = f
    BY <2>1
  <2>2. CASE g = [f EXCEPT !.stream = TcpSlice]
    <3>1. Network(g) = "tcp"
      BY <2>2, TcpSliceIs DEF Network, IsOutboundForm, FormKeys
    <3> QED BY <3>1
  <2> QED BY <2>1, <2>2
<1>3. "network" \notin DOMAIN kept /\ "security" \notin DOMAIN kept
  OBVIOUS
<1>4. Read(own, "network", "") = "hysteria" /\ Read(own, "security", "none") = "tls"
  <2> HIDE DEF kept
  <2> QED BY <1>3, HysteriaSliceIs DEF Over, Read
<1>5. Settled(f) = Hysterical(g)
  BY DEF Settled
<1> HIDE DEF g
<1>6. CASE g.protocol # "hysteria" \/ (Network(g) = "hysteria" /\ Security(g) = "tls")
  BY <1>1, <1>2, <1>5, <1>6 DEF Hysterical, RidesOwn
<1>7. CASE ~(g.protocol # "hysteria" \/ (Network(g) = "hysteria" /\ Security(g) = "tls"))
  <2>1. Settled(f) = [g EXCEPT !.stream = own]
    BY <1>5, <1>7 DEF Hysterical
  <2> HIDE DEF own
  <2>2. Settled(f).stream = own /\ Settled(f).protocol = "hysteria" /\ IsOutboundForm(Settled(f))
    BY <1>1, <1>7, <2>1 DEF IsOutboundForm, FormKeys
  <2> QED BY <1>4, <2>2 DEF RidesOwn, Network, Security
<1> QED BY <1>6, <1>7

-----------------------------------------------------------------------------
\* Links: an imported outbound has the network its inbound was shared with.

\* What a link says is laid over a stream and leaves its network.
LEMMA ParamsLeaveNetwork ==
  ASSUME NEW stream, NEW params, NEW extra
  PROVE  /\ Read(applyTransportParams(stream, params, extra), "network", "") = Read(stream, "network", "")
         /\ Read(applySecurityParams(stream, params), "network", "") = Read(stream, "network", "")
         /\ Read(applyFinalMaskParam(stream, params), "network", "") = Read(stream, "network", "")
<1>1. "network" \notin DOMAIN TransportParams(stream, params, extra)
  <2>1. \A v : /\ "network" \notin DOMAIN [wsSettings |-> v] /\ "network" \notin DOMAIN [httpupgradeSettings |-> v]
               /\ "network" \notin DOMAIN [grpcSettings |-> v] /\ "network" \notin DOMAIN [xhttpSettings |-> v]
               /\ "network" \notin DOMAIN [tcpSettings |-> v] /\ "network" \notin DOMAIN NoKeys
    BY DEF NoKeys
  <2> QED BY <2>1 DEF TransportParams
<1>2. "network" \notin DOMAIN SecurityRead(stream, params)
  <2>1. \A v : "network" \notin DOMAIN [tlsSettings |-> v] /\ "network" \notin DOMAIN [realitySettings |-> v] /\ "network" \notin DOMAIN NoKeys
    BY DEF NoKeys
  <2> QED BY <2>1 DEF SecurityRead
<1>3. "network" \notin DOMAIN Keep("fm" \in DOMAIN params, "finalmask", Text(params, "fm", ""))
  BY DEF Keep
<1>4. Read(applyTransportParams(stream, params, extra), "network", "") = Read(stream, "network", "")
  BY <1>1, NetworkStays DEF applyTransportParams
<1>5. Read(applySecurityParams(stream, params), "network", "") = Read(stream, "network", "")
  BY <1>2, NetworkStays DEF applySecurityParams
<1>6. Read(applyFinalMaskParam(stream, params), "network", "") = Read(stream, "network", "")
  BY <1>3, NetworkStays DEF applyFinalMaskParam
<1> QED BY <1>4, <1>5, <1>6

\* A stream built for a network is on it.
LEMMA BuiltIs ==
  ASSUME NEW network, NEW security
  PROVE  Read(buildStream(network, security), "network", "") = network
<1>1. \A b : Read(Over([network |-> network, security |-> security], b), "network", "") = network
  BY DEF Over, Read
<1> QED BY <1>1 DEF buildStream

\* The stream of a link is on the network the link says.
LEMMA ParsedIsOn ==
  ASSUME NEW link, NEW security
  PROVE  Read(ParsedStream(link, security), "network", "") = Text(link.params, "type", "tcp")
<1> DEFINE built == buildStream(Text(link.params, "type", "tcp"), security)
           moved == applyTransportParams(built, link.params, link.extra)
           secured == applySecurityParams(moved, link.params)
<1>1. Read(built, "network", "") = Text(link.params, "type", "tcp")
  BY BuiltIs
<1>2. ParsedStream(link, security) = applyFinalMaskParam(secured, link.params)
  BY DEF ParsedStream
<1> HIDE DEF built
<1>3. Read(moved, "network", "") = Read(built, "network", "")
  BY ParamsLeaveNetwork
<1> HIDE DEF moved
<1>4. Read(secured, "network", "") = Read(moved, "network", "")
  BY ParamsLeaveNetwork
<1> HIDE DEF secured
<1>5. Read(applyFinalMaskParam(secured, link.params), "network", "") = Read(secured, "network", "")
  BY ParamsLeaveNetwork
<1> QED BY <1>1, <1>2, <1>3, <1>4, <1>5

\* The same for a vmess link, whose parameters are a JSON object.
LEMMA VmessIsOn ==
  ASSUME NEW json
  PROVE  Read(applySecurityParams(VmessStream(json), json), "network", "") = Text(json, "net", "tcp")
<1> DEFINE network == Text(json, "net", "tcp")
           base == buildStream(network, IF Text(json, "tls", "") = "tls" THEN "tls" ELSE "none")
           grpc == [grpcSettings |-> [serviceName |-> Text(json, "path", ""), authority |-> Text(json, "authority", ""),
                                      multiMode |-> Text(json, "type", "") = "multi"]]
           xhttp == [xhttpSettings |-> VmessXhttp(base["xhttpSettings"], json)]
           moved == applyTransportParams(base, json, NoKeys)
           stream == CASE network = "grpc" -> Over(grpc, base) [] network = "xhttp" -> Over(xhttp, base) [] OTHER -> moved
<1>1. VmessStream(json) = stream
  BY DEF VmessStream
<1>2. "network" \notin DOMAIN grpc /\ "network" \notin DOMAIN xhttp
  OBVIOUS
<1>3. Read(base, "network", "") = network
  BY BuiltIs
<1> HIDE DEF base, grpc, xhttp
<1>4. Read(Over(grpc, base), "network", "") = network
  BY <1>2, <1>3, NetworkStays
<1>5. Read(Over(xhttp, base), "network", "") = network
  BY <1>2, <1>3, NetworkStays
<1>6. Read(moved, "network", "") = network
  BY <1>3, ParamsLeaveNetwork
<1> HIDE DEF moved, network
<1>7. Read(stream, "network", "") = network
  BY <1>4, <1>5, <1>6
<1> HIDE DEF stream
<1>8. Read(applySecurityParams(stream, json), "network", "") = Read(stream, "network", "")
  BY ParamsLeaveNetwork
<1> QED BY <1>1, <1>7, <1>8 DEF network

\* The network a link of each protocol says.

\* A vless link says the inbound's network.
LEMMA VlessSays ==
  ASSUME NEW inb, NEW address, NEW port, NEW force, NEW remark, NEW client, NEW ep
  PROVE  LET link == genVlessLink(inb, address, port, force, remark, client, ep)
         IN  link.scheme = "vless" /\ Text(link.params, "type", "tcp") = inb.stream.network
<1>1. \A n, v, b : Text(Over([type |-> <<n>>, encryption |-> v], b), "type", "tcp") = n
  BY DEF Over, Text, One
<1> QED BY <1>1 DEF genVlessLink, Link

\* So does a trojan link.
LEMMA TrojanSays ==
  ASSUME NEW inb, NEW address, NEW port, NEW force, NEW remark, NEW client, NEW ep
  PROVE  LET link == genTrojanLink(inb, address, port, force, remark, client, ep)
         IN  link.scheme = "trojan" /\ Text(link.params, "type", "tcp") = inb.stream.network
<1>1. \A n, b : Text(Over([type |-> <<n>>], b), "type", "tcp") = n
  BY DEF Over, Text, One
<1> QED BY <1>1 DEF genTrojanLink, Link

\* So does a vmess link.
LEMMA VmessSays ==
  ASSUME NEW inb, NEW address, NEW port, NEW force, NEW remark, NEW client, NEW ep
  PROVE  LET link == genVmessLink(inb, address, port, force, remark, client, ep)
         IN  link.scheme = "vmess" /\ Text(link.params, "net", "tcp") = inb.stream.network
<1>1. ASSUME NEW n, NEW c, NEW t, NEW b
      PROVE  Text(Over([scy |-> c, net |-> <<n>>, tls |-> t], b), "net", "tcp") = n
  <2> DEFINE says == [scy |-> c, net |-> <<n>>, tls |-> t]
  <2>1. "net" \in DOMAIN says /\ says["net"] = <<n>> /\ One(<<n>>) = n
    BY DEF One
  <2> HIDE DEF says
  <2> QED BY <2>1 DEF Over, Text
<1> QED BY <1>1 DEF genVmessLink, Link

\* The forms an outbound of the template becomes keep its network.
LEMMA RawIs ==
  ASSUME NEW raw
  PROVE  /\ IsOutboundForm(rawOutboundToFormValues(raw))
         /\ rawOutboundToFormValues(raw).tag = Read(raw, "tag", "")
         /\ rawOutboundToFormValues(raw).protocol = OneOf(Read(raw, "protocol", "vless"), Protocols, "vless")
         /\ Network(rawOutboundToFormValues(raw)) = Read(Read(raw, "streamSettings", NoKeys), "network", "")
<1> DEFINE stream == Read(raw, "streamSettings", NoKeys)
<1>1. rawOutboundToFormValues(raw).stream = hydrateStreamForm(stream)
  BY DEF rawOutboundToFormValues
<1>2. hydrateStreamForm(stream) = stream \/ \E v : hydrateStreamForm(stream) = Over([xhttpSettings |-> v], stream)
  BY DEF hydrateStreamForm
<1>3. \A v : "network" \notin DOMAIN [xhttpSettings |-> v]
  OBVIOUS
<1>4. Read(hydrateStreamForm(stream), "network", "") = Read(stream, "network", "")
  <2> HIDE DEF stream
  <2> QED BY <1>2, <1>3, NetworkStays
<1>5. /\ IsOutboundForm(rawOutboundToFormValues(raw))
      /\ rawOutboundToFormValues(raw).tag = Read(raw, "tag", "")
      /\ rawOutboundToFormValues(raw).protocol = OneOf(Read(raw, "protocol", "vless"), Protocols, "vless")
  BY DEF rawOutboundToFormValues, IsOutboundForm, FormKeys
<1> QED BY <1>1, <1>4, <1>5 DEF Network

\* Of the links only those of hysteria are on its transport.
LEMMA OnlyHysteriaRides ==
  ASSUME NEW link,
         link.scheme \in {"vless", "trojan"} => Text(link.params, "type", "tcp") # "hysteria",
         link.scheme = "vmess" => Text(link.params, "net", "tcp") # "hysteria"
  PROVE  LET f == rawOutboundToFormValues(parseOutboundLink(link))
         IN  Network(f) = "hysteria" => f.protocol = "hysteria"
<1> DEFINE parsed == parseOutboundLink(link)
           f == rawOutboundToFormValues(parsed)
<1>1. Network(f) = Read(Read(parsed, "streamSettings", NoKeys), "network", "")
  BY RawIs
<1>2. f.protocol = OneOf(Read(parsed, "protocol", "vless"), Protocols, "vless")
  BY RawIs
<1>3. \A p, t, s, v : /\ Read(Streamed(p, t, s, v), "streamSettings", NoKeys) = v
                      /\ Read(Outbound(p, t, s), "streamSettings", NoKeys) = NoKeys
                      /\ Read(Streamed(p, t, s, v), "protocol", "vless") = p
                      /\ Streamed(p, t, s, v).streamSettings = v
  BY DEF Streamed, Outbound, Read
<1>4. Read(NoKeys, "network", "") = "" /\ Read(NoKeys, "streamSettings", NoKeys) = NoKeys
  BY DEF Read, NoKeys
<1> SUFFICES Network(f) = "hysteria" => f.protocol = "hysteria"
  OBVIOUS
<1> HIDE DEF f
<1>5. CASE link.scheme = "vless"
  <2>1. parsed = parseVlessLink(link)
    BY <1>5 DEF parseOutboundLink
  <2>2. PICK t, s, security : parsed = Streamed("vless", t, s, ParsedStream(link, security))
    BY <2>1 DEF parseVlessLink
  <2>3. Read(parsed, "streamSettings", NoKeys) = ParsedStream(link, security)
    BY <1>3, <2>2
  <2>4. Network(f) = Text(link.params, "type", "tcp")
    BY <1>1, <2>3, ParsedIsOn
  <2> QED BY <1>5, <2>4
<1>6. CASE link.scheme = "trojan"
  <2>1. parsed = parseTrojanLink(link)
    BY <1>6 DEF parseOutboundLink
  <2>2. PICK t, s, security : parsed = Streamed("trojan", t, s, ParsedStream(link, security))
    BY <2>1 DEF parseTrojanLink
  <2>3. Read(parsed, "streamSettings", NoKeys) = ParsedStream(link, security)
    BY <1>3, <2>2
  <2>4. Network(f) = Text(link.params, "type", "tcp")
    BY <1>1, <2>3, ParsedIsOn
  <2> QED BY <1>6, <2>4
<1>7. CASE link.scheme = "vmess"
  <2>1. parsed = parseVmessLink(link)
    BY <1>7 DEF parseOutboundLink
  <2>2. PICK t, s : parsed = Streamed("vmess", t, s, applySecurityParams(VmessStream(link.params), link.params))
    BY <2>1 DEF parseVmessLink
  <2>3. Read(parsed, "streamSettings", NoKeys) = applySecurityParams(VmessStream(link.params), link.params)
    BY <1>3, <2>2
  <2>4. Network(f) = Text(link.params, "net", "tcp")
    BY <1>1, <2>3, VmessIsOn
  <2> QED BY <1>7, <2>4
<1>8. CASE link.scheme = "ss"
  <2>1. parsed = parseShadowsocksLink(link)
    BY <1>8 DEF parseOutboundLink
  <2>2. PICK t, s : parsed = Outbound("shadowsocks", t, s)
    BY <2>1 DEF parseShadowsocksLink
  <2>3. Read(parsed, "streamSettings", NoKeys) = NoKeys
    BY <1>3, <2>2
  <2> QED BY <1>1, <1>4, <2>3
<1>9. CASE link.scheme = "wireguard"
  <2>1. parsed = parseWireguardLink(link)
    BY <1>9 DEF parseOutboundLink
  <2>2. PICK t, s : parsed = Outbound("wireguard", t, s)
    BY <2>1 DEF parseWireguardLink
  <2>3. Read(parsed, "streamSettings", NoKeys) = NoKeys
    BY <1>3, <2>2
  <2> QED BY <1>1, <1>4, <2>3
<1>10. CASE link.scheme = "hysteria2"
  <2>1. parsed = parseHysteria2Link(link)
    BY <1>10 DEF parseOutboundLink
  <2>2. PICK t, s, v : parsed = Streamed("hysteria", t, s, v)
    BY <2>1 DEF parseHysteria2Link
  <2>3. f.protocol = OneOf("hysteria", Protocols, "vless")
    BY <1>2, <1>3, <2>2
  <2> QED BY <2>3 DEF OneOf, Protocols
<1>11. CASE link.scheme \notin {"vless", "trojan", "vmess", "ss", "wireguard", "hysteria2"}
  <2>1. parsed = NoKeys
    BY <1>11 DEF parseOutboundLink, NotParsed
  <2> QED BY <1>1, <1>4, <2>1
<1> QED BY <1>5, <1>6, <1>7, <1>8, <1>9, <1>10, <1>11

\* Where the link of an item leads, and the security it says.
Forced(item) == IF Proxy(item) = Nothing THEN "same" ELSE Proxy(item).forceTls
Secured(item) == Effective(item.inbound.stream, Forced(item))
Leads(item, address, port) ==
  /\ port = (IF Proxy(item) = Nothing THEN item.inbound.port ELSE Proxy(item).port)
  /\ address = (IF Proxy(item) # Nothing THEN Proxy(item).dest
                ELSE IF item.inbound.listen \in NoHosts THEN Address ELSE item.inbound.listen)
Proxied(ep) == ep = Nothing \/ IsProxy(ep)
LinkTo(item, address, port) ==
  genLink(item.inbound, address, port, Forced(item), item.remark, item.client, Proxy(item))

\* A shared link is the inbound's own, or that of one of its external proxies.
LEMMA SharedLinkIs ==
  ASSUME NEW item \in Shared, item.inbound.protocol # "wireguard"
  PROVE  Proxied(Proxy(item)) /\ \E address : \E port \in Ports : SharedLink(item) = LinkTo(item, address, port) /\ Leads(item, address, port)
<1> DEFINE inb == item.inbound
           link == SharedLink(item)
           proxies == inb.stream.externalProxy
<1>1. link = genAllLinks(inb, item.remark, item.client, "", Address)[item.proxy]
  BY DEF SharedLink, Shareable, LinkOf
<1>2. /\ IsSharable(inb) /\ item.proxy \in IF proxies = <<>> THEN {1} ELSE DOMAIN proxies
  BY OutboundAssumption
<1>3. inb.port \in Ports /\ \A i \in DOMAIN proxies : IsProxy(proxies[i])
  BY <1>2 DEF IsSharable
<1> HIDE DEF link
<1>4. CASE proxies = <<>>
  <2> DEFINE address == resolveAddr(inb, "", Address)
  <2>1. Proxy(item) = Nothing /\ Forced(item) = "same"
    BY <1>4 DEF Proxy, Forced
  <2>2. address = IF inb.listen \in NoHosts THEN Address ELSE inb.listen
    BY DEF resolveAddr
  <2> HIDE DEF address
  <2>3. genAllLinks(inb, item.remark, item.client, "", Address)
        = <<genLink(inb, address, inb.port, "same", item.remark, item.client, NoKeys)>>
    BY <1>4 DEF genAllLinks, address
  <2>4. \A x : <<x>>[1] = x
    OBVIOUS
  <2>5. link = LinkTo(item, address, inb.port)
    BY <1>1, <1>2, <1>4, <2>1, <2>3, <2>4 DEF LinkTo, Nothing
  <2>6. Leads(item, address, inb.port) /\ Proxied(Proxy(item))
    BY <2>1, <2>2 DEF Leads, Proxied
  <2> QED BY <1>3, <2>5, <2>6 DEF link
<1>5. CASE proxies # <<>>
  <2> DEFINE ep == proxies[item.proxy]
  <2>1. item.proxy \in DOMAIN proxies
    BY <1>2, <1>5
  <2>2. Proxy(item) = ep
    BY <1>5 DEF Proxy
  <2>3. IsProxy(ep)
    BY <1>3, <2>1
  <2>4. ep # Nothing /\ ep.port \in Ports
    BY <2>3 DEF IsProxy
  <2>5. Forced(item) = ep.forceTls
    BY <2>2, <2>4 DEF Forced
  <2>6. link = genLink(inb, ep.dest, ep.port, ep.forceTls, item.remark, item.client, ep)
    <3>1. link = [i \in DOMAIN proxies |-> genLink(inb, proxies[i].dest, proxies[i].port, proxies[i].forceTls,
                                                   item.remark, item.client, proxies[i])][item.proxy]
      BY <1>1, <1>5 DEF genAllLinks
    <3> QED BY <2>1, <3>1
  <2> HIDE DEF ep
  <2>7. link = LinkTo(item, ep.dest, ep.port)
    BY <2>2, <2>5, <2>6 DEF LinkTo
  <2>8. Leads(item, ep.dest, ep.port) /\ Proxied(Proxy(item))
    BY <2>2, <2>3, <2>4 DEF Leads, Proxied
  <2> QED BY <2>4, <2>7, <2>8 DEF link
<1> QED BY <1>4, <1>5

\* A link that can be imported has no transport of hysteria but for hysteria.
LEMMA SharedRides ==
  ASSUME NEW item \in Shared
  PROVE  LET f == rawOutboundToFormValues(parseOutboundLink(SharedLink(item)))
         IN  Network(f) = "hysteria" => f.protocol = "hysteria"
<1> DEFINE inb == item.inbound
           link == SharedLink(item)
<1>1. CASE inb.protocol = "wireguard"
  <2>1. link = CHOOSE l \in genWireguardLinks(inb, item.remark, "", Address) : TRUE
    BY <1>1 DEF SharedLink, Shareable
  <2>2. genWireguardLinks(inb, item.remark, "", Address) # {}
    BY <1>1, OutboundAssumption DEF genWireguardLinks
  <2>3. link \in genWireguardLinks(inb, item.remark, "", Address)
    BY <2>1, <2>2
  <2> HIDE DEF link
  <2>5. PICK peer : link = genWireguardLink(inb, resolveAddr(inb, "", Address), inb.port, item.remark, peer)
    BY <2>3 DEF genWireguardLinks
  <2>4. link.scheme = "wireguard"
    BY <2>5 DEF genWireguardLink, Link
  <2> HIDE DEF link
  <2> QED BY <2>4, OnlyHysteriaRides DEF link
<1>2. CASE inb.protocol # "wireguard"
  <2>1. \E address : \E port \in Ports : link = LinkTo(item, address, port) /\ Leads(item, address, port)
    BY <1>2, SharedLinkIs
  <2>2. \E address, port, force, ep : link = genLink(inb, address, port, force, item.remark, item.client, ep)
    BY <2>1 DEF LinkTo
  <2>3. PICK address, port, force, ep : link = genLink(inb, address, port, force, item.remark, item.client, ep)
    BY <2>2
  <2>4. inb.stream.network = "hysteria" => inb.protocol = "hysteria"
    BY <1>2, OutboundAssumption DEF IsSharable, IsInboundStream
  <2> HIDE DEF link
  <2>5. CASE inb.protocol = "vless"
    <3>1. link = genVlessLink(inb, address, port, force, item.remark, item.client, ep)
      BY <2>3, <2>5 DEF genLink
    <3>2. link.scheme = "vless" /\ Text(link.params, "type", "tcp") # "hysteria"
      BY <2>4, <2>5, <3>1, VlessSays
    <3> QED BY <3>2, OnlyHysteriaRides DEF link
  <2>6. CASE inb.protocol = "trojan"
    <3>1. link = genTrojanLink(inb, address, port, force, item.remark, item.client, ep)
      BY <2>3, <2>6 DEF genLink
    <3>2. link.scheme = "trojan" /\ Text(link.params, "type", "tcp") # "hysteria"
      BY <2>4, <2>6, <3>1, TrojanSays
    <3> QED BY <3>2, OnlyHysteriaRides DEF link
  <2>7. CASE inb.protocol = "vmess"
    <3>1. link = genVmessLink(inb, address, port, force, item.remark, item.client, ep)
      BY <2>3, <2>7 DEF genLink
    <3>2. link.scheme = "vmess" /\ Text(link.params, "net", "tcp") # "hysteria"
      BY <2>4, <2>7, <3>1, VmessSays
    <3> QED BY <3>2, OnlyHysteriaRides DEF link
  <2>8. CASE inb.protocol \notin {"vless", "trojan", "vmess"}
    <3>1. link \in {genShadowsocksLink(inb, address, port, force, item.remark, item.client, ep),
                    genHysteriaLink(inb, address, port, item.remark, item.client), NoLink}
      BY <2>3, <2>8 DEF genLink
    <3>2. link.scheme \in {"ss", "", "hysteria", "hysteria2"}
      <4>1. genShadowsocksLink(inb, address, port, force, item.remark, item.client, ep).scheme = "ss"
        BY DEF genShadowsocksLink, Link
      <4>2. genHysteriaLink(inb, address, port, item.remark, item.client).scheme \in {"", "hysteria", "hysteria2"}
        BY DEF genHysteriaLink, NoLink, Link
      <4>3. NoLink.scheme = ""
        BY DEF NoLink, Link
      <4> QED BY <3>1, <4>1, <4>2, <4>3
    <3> QED BY <3>2, OnlyHysteriaRides DEF link
  <2> QED BY <2>5, <2>6, <2>7, <2>8
<1> QED BY <1>1, <1>2

-----------------------------------------------------------------------------
\* Lists of outbounds.

\* What a list is: a sequence of its own outbounds.
LEMMA ListIs ==
  ASSUME NEW list, IsList(list)
  PROVE  /\ list \in Seq(ToSet(list)) /\ Len(list) \in Nat /\ DOMAIN list = 1 .. Len(list)
         /\ \A i \in DOMAIN list : list[i] \in ToSet(list)
BY DEF IsList, ToSet

\* A sequence of anything is a list.
LEMMA SeqIsList ==
  ASSUME NEW S, NEW list \in Seq(S)
  PROVE  IsList(list)
<1>1. Len(list) \in Nat /\ DOMAIN list = 1 .. Len(list) /\ list = [i \in 1 .. Len(list) |-> list[i]]
  OBVIOUS
<1>2. \A i \in 1 .. Len(list) : list[i] \in ToSet(list)
  BY <1>1 DEF ToSet
<1>3. list \in [1 .. Len(list) -> ToSet(list)]
  BY <1>1, <1>2
<1> QED BY <1>1, <1>3 DEF IsList

\* A list of some outbounds is one of more.
LEMMA Widened ==
  ASSUME NEW S, NEW T, S \subseteq T, NEW list \in Seq(S)
  PROVE  list \in Seq(T)
<1>1. Len(list) \in Nat /\ list = [i \in 1 .. Len(list) |-> list[i]] /\ \A i \in 1 .. Len(list) : list[i] \in S
  OBVIOUS
<1>2. list \in [1 .. Len(list) -> T]
  BY <1>1
<1> QED BY <1>1, <1>2

\* One outbound less: those that are left are told apart as before.
LEMMA RemovedIs ==
  ASSUME NEW list, IsList(list), NEW at \in DOMAIN list
  PROVE  /\ RemoveAt(list, at) \in Seq(ToSet(list)) /\ Len(RemoveAt(list, at)) = Len(list) - 1
         /\ \A j \in 1 .. Len(list) - 1 : RemoveAt(list, at)[j] = IF j < at THEN list[j] ELSE list[j + 1]
<1>1. list \in Seq(ToSet(list)) /\ Len(list) \in Nat /\ at \in 1 .. Len(list)
  BY ListIs
<1>2. \A a \in 1 .. Len(list) + 1, b \in 0 .. Len(list) :
        SubSeq(list, a, b) \in Seq(ToSet(list)) /\ Len(SubSeq(list, a, b)) = (IF a <= b THEN b - a + 1 ELSE 0)
        /\ \A j \in 1 .. b - a + 1 : SubSeq(list, a, b)[j] = list[a + j - 1]
  BY <1>1
<1>3. RemoveAt(list, at) = SubSeq(list, 1, at - 1) \o SubSeq(list, at + 1, Len(list))
  BY DEF RemoveAt
<1> DEFINE before == SubSeq(list, 1, at - 1)
           after == SubSeq(list, at + 1, Len(list))
<1>4. before \in Seq(ToSet(list)) /\ Len(before) = at - 1 /\ \A j \in 1 .. at - 1 : before[j] = list[j]
  BY <1>1, <1>2
<1>5. /\ after \in Seq(ToSet(list)) /\ Len(after) = Len(list) - at
      /\ \A j \in 1 .. Len(list) - at : after[j] = list[at + j]
  BY <1>1, <1>2
<1> HIDE DEF before, after
<1>6. before \o after \in Seq(ToSet(list)) /\ Len(before \o after) = Len(list) - 1
  BY <1>1, <1>4, <1>5
<1>7. ASSUME NEW j \in 1 .. Len(list) - 1
      PROVE  (before \o after)[j] = IF j < at THEN list[j] ELSE list[j + 1]
  BY <1>1, <1>4, <1>5, <1>7
<1> QED BY <1>3, <1>6, <1>7 DEF before, after

\* Lists that hold the same outbounds, each where another list had it.
LEMMA MovedAreDistinct ==
  ASSUME NEW list, Distinct(list), NEW moved, NEW from,
         \A i \in DOMAIN moved : from[i] \in DOMAIN list /\ moved[i] = list[from[i]],
         \A i, j \in DOMAIN moved : i # j => from[i] # from[j]
  PROVE  Distinct(moved)
<1> SUFFICES ASSUME NEW i \in DOMAIN moved, NEW j \in DOMAIN moved
             PROVE  /\ Read(moved[i], "tag", "") # ""
                    /\ i # j /\ moved[i].tag = moved[j].tag => Trim[moved[i].tag] # moved[i].tag
  BY DEF Distinct
<1>1. from[i] \in DOMAIN list /\ from[j] \in DOMAIN list /\ moved[i] = list[from[i]] /\ moved[j] = list[from[j]]
  OBVIOUS
<1>2. i # j => from[i] # from[j]
  OBVIOUS
<1>3. /\ Read(list[from[i]], "tag", "") # ""
      /\ from[i] # from[j] /\ list[from[i]].tag = list[from[j]].tag => Trim[list[from[i]].tag] # list[from[i]].tag
  BY <1>1 DEF Distinct
<1> QED BY <1>1, <1>2, <1>3

\* A list from which one is deleted keeps its outbounds apart.
LEMMA RemovedAreDistinct ==
  ASSUME NEW list, IsList(list), Distinct(list), NEW at \in DOMAIN list
  PROVE  IsList(RemoveAt(list, at)) /\ Distinct(RemoveAt(list, at))
<1> DEFINE moved == RemoveAt(list, at)
           from == [j \in DOMAIN moved |-> IF j < at THEN j ELSE j + 1]
<1>1. moved \in Seq(ToSet(list)) /\ Len(moved) = Len(list) - 1
  BY RemovedIs
<1>2. Len(list) \in Nat /\ DOMAIN list = 1 .. Len(list) /\ at \in 1 .. Len(list)
  BY ListIs
<1>3. DOMAIN moved = 1 .. Len(list) - 1
  BY <1>1, <1>2
<1>4. \A j \in 1 .. Len(list) - 1 : moved[j] = IF j < at THEN list[j] ELSE list[j + 1]
  BY RemovedIs
<1> HIDE DEF moved
<1>5. \A i \in DOMAIN moved : from[i] \in DOMAIN list /\ moved[i] = list[from[i]]
  BY <1>2, <1>3, <1>4
<1>6. \A i, j \in DOMAIN moved : i # j => from[i] # from[j]
  BY <1>2, <1>3
<1> HIDE DEF from
<1> QED BY <1>1, <1>5, <1>6, SeqIsList, MovedAreDistinct DEF moved

\* The same when one is put first.
LEMMA FirstIsDistinct ==
  ASSUME NEW list, IsList(list), Distinct(list), NEW at \in DOMAIN list
  PROVE  IsList(<<list[at]>> \o RemoveAt(list, at)) /\ Distinct(<<list[at]>> \o RemoveAt(list, at))
<1> DEFINE rest == RemoveAt(list, at)
           moved == <<list[at]>> \o rest
           from == [j \in DOMAIN moved |-> IF j = 1 THEN at ELSE IF j - 1 < at THEN j - 1 ELSE j]
<1>1. rest \in Seq(ToSet(list)) /\ Len(rest) = Len(list) - 1
  BY RemovedIs
<1>2. Len(list) \in Nat /\ DOMAIN list = 1 .. Len(list) /\ at \in 1 .. Len(list) /\ list[at] \in ToSet(list)
  BY ListIs
<1>3. \A j \in 1 .. Len(list) - 1 : rest[j] = IF j < at THEN list[j] ELSE list[j + 1]
  BY RemovedIs
<1> HIDE DEF rest
<1>4. /\ moved \in Seq(ToSet(list)) /\ Len(moved) = Len(list) /\ moved[1] = list[at]
      /\ \A j \in 2 .. Len(list) : moved[j] = rest[j - 1]
  <2>1. <<list[at]>> \in Seq(ToSet(list)) /\ Len(<<list[at]>>) = 1
    BY <1>2
  <2> QED BY <1>1, <1>2, <2>1
<1>5. DOMAIN moved = 1 .. Len(list)
  BY <1>4, <1>2
<1> HIDE DEF moved
<1>6. \A i \in DOMAIN moved : from[i] \in DOMAIN list /\ moved[i] = list[from[i]]
  BY <1>2, <1>3, <1>4, <1>5
<1>7. \A i, j \in DOMAIN moved : i # j => from[i] # from[j]
  BY <1>2, <1>5
<1> HIDE DEF from
<1>8. IsList(moved)
  BY <1>4, SeqIsList
<1>9. Distinct(moved)
  BY <1>6, <1>7, MovedAreDistinct
<1> QED BY <1>8, <1>9 DEF moved, rest

\* The same when two neighbours change places.
LEMMA SwappedAreDistinct ==
  ASSUME NEW list, IsList(list), Distinct(list), NEW at \in 2 .. Len(list)
  PROVE  LET moved == [list EXCEPT ![at] = list[at - 1], ![at - 1] = list[at]]
         IN  IsList(moved) /\ Distinct(moved)
<1> DEFINE moved == [list EXCEPT ![at] = list[at - 1], ![at - 1] = list[at]]
           from == [j \in DOMAIN moved |-> IF j = at THEN at - 1 ELSE IF j = at - 1 THEN at ELSE j]
<1>1. Len(list) \in Nat /\ DOMAIN list = 1 .. Len(list) /\ list \in Seq(ToSet(list))
  BY ListIs
<1>2. /\ DOMAIN moved = 1 .. Len(list)
      /\ \A j \in 1 .. Len(list) : moved[j] = IF j = at - 1 THEN list[at] ELSE IF j = at THEN list[at - 1] ELSE list[j]
  BY <1>1
<1>3. moved \in Seq(ToSet(list))
  <2>1. \A i \in DOMAIN list : list[i] \in ToSet(list)
    BY ListIs
  <2> QED BY <1>1, <2>1
<1> HIDE DEF moved
<1>4. \A i \in DOMAIN moved : from[i] \in DOMAIN list /\ moved[i] = list[from[i]]
  BY <1>1, <1>2
<1>5. \A i, j \in DOMAIN moved : i # j => from[i] # from[j]
  BY <1>1, <1>2
<1> HIDE DEF from
<1>6. IsList(moved) /\ Distinct(moved)
  BY <1>3, <1>4, <1>5, SeqIsList, MovedAreDistinct
<1> QED BY <1>6 DEF moved

\* An outbound is saved with the tag of its form.
LEMMA PayloadTag ==
  ASSUME NEW values
  PROVE  LET o == formValuesToWirePayload(values)
         IN  Read(o, "tag", "") = values.tag /\ (values.tag # "" => o.tag = values.tag)
BY DEF formValuesToWirePayload, Read

\* One outbound more.
LEMMA AddedIs ==
  ASSUME NEW list, IsList(list), NEW o
  PROVE  /\ IsList(Append(list, o))
         /\ \A k \in DOMAIN Append(list, o) :
              IF k \in DOMAIN list THEN Append(list, o)[k] = list[k]
              ELSE k = Len(list) + 1 /\ Append(list, o)[k] = o
<1> DEFINE S == ToSet(list) \cup {o}
           added == Append(list, o)
<1>1. list \in Seq(ToSet(list)) /\ Len(list) \in Nat /\ DOMAIN list = 1 .. Len(list)
  BY ListIs
<1>2. ToSet(list) \subseteq S /\ o \in S
  OBVIOUS
<1> HIDE DEF S
<1>3. list \in Seq(S)
  BY <1>1, <1>2, Widened
<1>4. /\ added \in Seq(S) /\ Len(added) = Len(list) + 1 /\ added[Len(list) + 1] = o
      /\ \A j \in 1 .. Len(list) : added[j] = list[j]
  BY <1>2, <1>3, AppendProperties
<1> HIDE DEF added
<1>5. DOMAIN added = 1 .. Len(list) + 1
  BY <1>1, <1>4
<1>6. \A k \in DOMAIN added : IF k \in DOMAIN list THEN added[k] = list[k] ELSE k = Len(list) + 1 /\ added[k] = o
  BY <1>1, <1>4, <1>5
<1>7. IsList(added)
  BY <1>4, SeqIsList
<1> QED BY <1>6, <1>7 DEF added

\* One outbound in place of another.
LEMMA ReplacedIs ==
  ASSUME NEW list, IsList(list), NEW at \in DOMAIN list, NEW o
  PROVE  /\ IsList([list EXCEPT ![at] = o])
         /\ DOMAIN [list EXCEPT ![at] = o] = DOMAIN list
         /\ [list EXCEPT ![at] = o][at] = o
         /\ \A j \in DOMAIN list \ {at} : [list EXCEPT ![at] = o][j] = list[j]
<1> DEFINE S == ToSet(list) \cup {o}
           new == [list EXCEPT ![at] = o]
<1>1. list \in Seq(ToSet(list)) /\ Len(list) \in Nat /\ DOMAIN list = 1 .. Len(list)
  BY ListIs
<1>2. \A i \in DOMAIN list : list[i] \in ToSet(list)
  BY ListIs
<1>3. list = [i \in 1 .. Len(list) |-> list[i]]
  BY <1>1
<1>4. /\ new = [i \in 1 .. Len(list) |-> IF i = at THEN o ELSE list[i]]
      /\ DOMAIN new = DOMAIN list /\ new[at] = o /\ \A j \in DOMAIN list \ {at} : new[j] = list[j]
  BY <1>1, <1>3
<1>5. \A i \in DOMAIN list : (IF i = at THEN o ELSE list[i]) \in S
  BY <1>2
<1> HIDE DEF new, S
<1>6. new \in [1 .. Len(list) -> S]
  BY <1>1, <1>4, <1>5
<1>7. new \in Seq(S)
  BY <1>1, <1>6
<1>8. IsList(new)
  BY <1>7, SeqIsList
<1> QED BY <1>4, <1>8 DEF new

\* OK: an accepted outbound is told apart from those it joins.
LEMMA AddedIsDistinct ==
  ASSUME NEW list, IsList(list), Distinct(list), NEW o, Read(o, "tag", "") # "", o.tag = Read(o, "tag", ""),
         \A j \in DOMAIN list : Read(list[j], "tag", "") # Trim[o.tag]
  PROVE  Distinct(Append(list, o))
<1> DEFINE added == Append(list, o)
<1>1. \A k \in DOMAIN added : IF k \in DOMAIN list THEN added[k] = list[k] ELSE k = Len(list) + 1 /\ added[k] = o
  BY AddedIs
<1> HIDE DEF added
<1>2. \A j \in DOMAIN list : list[j].tag = o.tag => Trim[o.tag] # o.tag
  BY DEF Distinct, Read
<1>3. Distinct(added)
  <2> SUFFICES ASSUME NEW i \in DOMAIN added, NEW j \in DOMAIN added
               PROVE  /\ Read(added[i], "tag", "") # ""
                      /\ i # j /\ added[i].tag = added[j].tag => Trim[added[i].tag] # added[i].tag
    BY DEF Distinct
  <2>1. CASE i \in DOMAIN list /\ j \in DOMAIN list
    BY <1>1, <2>1 DEF Distinct
  <2>2. CASE i \in DOMAIN list /\ j \notin DOMAIN list
    BY <1>1, <1>2, <2>2 DEF Distinct
  <2>3. CASE i \notin DOMAIN list
    <3>1. added[i] = o /\ (i # j => j \in DOMAIN list /\ added[j] = list[j])
      BY <1>1, <2>3
    <3> QED BY <1>2, <3>1
  <2> QED BY <2>1, <2>2, <2>3
<1> QED BY <1>3 DEF added

\* The same where it takes the place of another.
LEMMA ReplacedIsDistinct ==
  ASSUME NEW list, IsList(list), Distinct(list), NEW at \in DOMAIN list,
         NEW o, Read(o, "tag", "") # "", o.tag = Read(o, "tag", ""),
         \/ \A j \in DOMAIN list \ {at} : Read(list[j], "tag", "") # Trim[o.tag]
         \/ Read(list[at], "tag", "") = Trim[o.tag]
  PROVE  Distinct([list EXCEPT ![at] = o])
<1> DEFINE new == [list EXCEPT ![at] = o]
<1>1. DOMAIN new = DOMAIN list /\ new[at] = o /\ \A j \in DOMAIN list \ {at} : new[j] = list[j]
  BY ReplacedIs
<1> HIDE DEF new
<1>2. \A j \in DOMAIN list : list[j].tag = Read(list[j], "tag", "")
  BY DEF Distinct, Read
\* Of two that are alike one is the new one, and its tag has blanks around it.
<1>3. ASSUME NEW j \in DOMAIN list \ {at}, list[j].tag = o.tag, Trim[o.tag] = o.tag
      PROVE  FALSE
  <2>1. Read(list[at], "tag", "") = o.tag
    BY <1>2, <1>3
  <2>2. list[at].tag = list[j].tag /\ Trim[list[at].tag] = list[at].tag
    BY <1>2, <1>3, <2>1
  <2> QED BY <1>3, <2>2 DEF Distinct
<1>4. Distinct(new)
  <2> SUFFICES ASSUME NEW i \in DOMAIN list, NEW j \in DOMAIN list
               PROVE  /\ Read(new[i], "tag", "") # ""
                      /\ i # j /\ new[i].tag = new[j].tag => Trim[new[i].tag] # new[i].tag
    BY <1>1 DEF Distinct
  <2>1. CASE i = at
    BY <1>1, <1>3, <2>1
  <2>2. CASE i # at /\ j = at
    BY <1>1, <1>3, <2>2 DEF Distinct
  <2>3. CASE i # at /\ j # at
    BY <1>1, <2>3 DEF Distinct
  <2> QED BY <2>1, <2>2, <2>3
<1> QED BY <1>4 DEF new

-----------------------------------------------------------------------------
\* The steps of the dialog.

\* A dialog that stays open keeps what it noted when it opened.
LEMMA DialogStays ==
  ASSUME OutboundsInv, dialog.open, outbounds' = outbounds, DOMAIN dialog' = DialogKeys, dialog'.open = TRUE,
         dialog'.index = dialog.index, dialog'.existingTags = dialog.existingTags,
         dialog'.typed \in BOOLEAN, IsOutboundForm(dialog'.form), RidesOwn(dialog'.form, dialog'.typed)
  PROVE  OutboundsInv'
<1>1. IsList(outbounds)' /\ Distinct(outbounds)'
  BY DEF OutboundsInv
<1>2. \A i : TagsWithout(i)' = TagsWithout(i)
  BY DEF TagsWithout
<1>3. DialogOK'
  BY <1>2 DEF OutboundsInv, DialogOK, IsOutboundForm, RidesOwn, Network, Security
<1> QED BY <1>1, <1>3 DEF OutboundsInv

\* A change of the form that brings hysteria's transport to hysteria only.
LEMMA FormChanges ==
  ASSUME OutboundsInv, dialog.open, NEW form, IsOutboundForm(form), Becomes(form),
         Network(form) = "hysteria" /\ ~dialog.typed => form.protocol = "hysteria"
  PROVE  OutboundsInv'
<1> DEFINE settled == Settled(form)
<1>1. IsOutboundForm(settled) /\ RidesOwn(settled, dialog.typed)
  BY SettledRides
<1>2. DOMAIN dialog = DialogKeys /\ dialog.typed \in BOOLEAN
  BY DEF OutboundsInv, DialogOK
<1>3. dialog' = [dialog EXCEPT !.form = settled] /\ outbounds' = outbounds
  BY DEF Becomes
<1> HIDE DEF settled
<1>4. /\ DOMAIN dialog' = DialogKeys /\ dialog'.open = dialog.open /\ dialog'.index = dialog.index
      /\ dialog'.existingTags = dialog.existingTags /\ dialog'.typed = dialog.typed /\ dialog'.form = settled
  BY <1>2, <1>3 DEF DialogKeys
<1>5. dialog.open = TRUE
  BY DEF OutboundsInv, DialogOK
<1> QED BY <1>1, <1>2, <1>3, <1>4, <1>5, DialogStays

\* The form's own stream, and one put in its place.
LEMMA OwnStream ==
  ASSUME OutboundsInv, dialog.open
  PROVE  /\ IsOutboundForm(dialog.form)
         /\ Network(dialog.form) = "hysteria" /\ ~dialog.typed => dialog.form.protocol = "hysteria"
         /\ Network(dialog.form) = Read(dialog.form.stream, "network", "")
         /\ \A stream : /\ IsOutboundForm(WithStream(stream)) /\ WithStream(stream).protocol = dialog.form.protocol
                        /\ Network(WithStream(stream)) = Read(stream, "network", "")
<1>1. IsOutboundForm(dialog.form) /\ RidesOwn(dialog.form, dialog.typed)
  BY DEF OutboundsInv, DialogOK
<1>2. ASSUME NEW stream
      PROVE  /\ DOMAIN WithStream(stream) = DOMAIN dialog.form /\ WithStream(stream).protocol = dialog.form.protocol
             /\ WithStream(stream).stream = stream
  BY <1>1 DEF IsOutboundForm, FormKeys, WithStream
<1> QED BY <1>1, <1>2 DEF IsOutboundForm, RidesOwn, Network

\* A change of the stream that keeps its network or takes an ordinary one.
LEMMA StreamChanges ==
  ASSUME OutboundsInv, dialog.open, NEW stream, Becomes(WithStream(stream)),
         Read(stream, "network", "") \in {Read(dialog.form.stream, "network", "")} \cup {"tcp", "kcp", "ws", "grpc", "httpupgrade", "xhttp"}
         \/ dialog.form.protocol = "hysteria"
  PROVE  OutboundsInv'
<1>1. /\ IsOutboundForm(WithStream(stream)) /\ WithStream(stream).protocol = dialog.form.protocol
      /\ Network(WithStream(stream)) = Read(stream, "network", "")
  BY OwnStream
<1>2. /\ Network(dialog.form) = "hysteria" /\ ~dialog.typed => dialog.form.protocol = "hysteria"
      /\ Network(dialog.form) = Read(dialog.form.stream, "network", "")
  BY OwnStream
<1> DEFINE form == WithStream(stream)
<1>3. Network(form) = "hysteria" /\ ~dialog.typed => form.protocol = "hysteria"
  BY <1>1, <1>2
<1>4. IsOutboundForm(form) /\ Becomes(form)
  BY <1>1
<1> HIDE DEF form
<1> QED BY <1>3, <1>4, FormChanges

\* Steps that leave the dialog closed.
LEMMA ListSteps ==
  ASSUME OutboundsInv, confirmDelete \/ setFirst \/ Move
  PROVE  OutboundsInv'
<1>1. IsList(outbounds) /\ Distinct(outbounds) /\ dialog.open = FALSE /\ dialog' = dialog
  BY DEF OutboundsInv, DialogOK, confirmDelete, setFirst, Move
<1>2. DialogOK'
  BY <1>1 DEF DialogOK
<1>3. CASE confirmDelete
  <2>1. PICK i \in DOMAIN outbounds : outbounds' = RemoveAt(outbounds, i)
    BY <1>3 DEF confirmDelete
  <2>2. IsList(RemoveAt(outbounds, i)) /\ Distinct(RemoveAt(outbounds, i))
    BY <1>1, RemovedAreDistinct
  <2>3. IsList(outbounds') /\ Distinct(outbounds')
    BY <2>1, <2>2
  <2> QED BY <1>2, <2>3 DEF OutboundsInv
<1>4. CASE setFirst
  <2>1. PICK i \in DOMAIN outbounds : outbounds' = <<outbounds[i]>> \o RemoveAt(outbounds, i)
    BY <1>4 DEF setFirst
  <2>2. IsList(<<outbounds[i]>> \o RemoveAt(outbounds, i)) /\ Distinct(<<outbounds[i]>> \o RemoveAt(outbounds, i))
    BY <1>1, FirstIsDistinct
  <2>3. IsList(outbounds') /\ Distinct(outbounds')
    BY <2>1, <2>2
  <2> QED BY <1>2, <2>3 DEF OutboundsInv
<1>5. CASE Move
  <2>1. PICK i \in 2 .. Len(outbounds) : outbounds' = [outbounds EXCEPT ![i] = outbounds[i-1], ![i-1] = outbounds[i]]
    BY <1>5 DEF Move
  <2> DEFINE moved == [outbounds EXCEPT ![i] = outbounds[i-1], ![i-1] = outbounds[i]]
  <2>2. IsList(moved) /\ Distinct(moved)
    BY <1>1, SwappedAreDistinct
  <2>3. outbounds' = moved
    BY <2>1
  <2> HIDE DEF moved
  <2>4. IsList(outbounds') /\ Distinct(outbounds')
    BY <2>2, <2>3
  <2> QED BY <1>2, <2>4 DEF OutboundsInv
<1> QED BY <1>3, <1>4, <1>5

\* The dialog opens on its own transport, with the tags of the others noted.
LEMMA OpenedIs ==
  ASSUME OutboundsInv, outbounds' = outbounds, NEW i \in 0 .. Len(outbounds), dialog' = Opened(i)
  PROVE  OutboundsInv'
<1> DEFINE form == IF i = 0 THEN buildAddModeValues ELSE rawOutboundToFormValues(outbounds[i])
           settled == Settled(form)
           json == Json(form)
           typed == i # 0
<1>1. IsOutboundForm(form)
  BY RawIs DEF buildAddModeValues
<1>2. i = 0 => Network(form) = ""
  <2>1. Network(rawOutboundToFormValues(NoKeys)) = Read(Read(NoKeys, "streamSettings", NoKeys), "network", "")
    BY RawIs
  <2>2. Read(NoKeys, "network", "") = "" /\ Read(NoKeys, "streamSettings", NoKeys) = NoKeys
    BY DEF Read, NoKeys
  <2> QED BY <2>1, <2>2 DEF buildAddModeValues
<1>3. dialog' = [open |-> TRUE, index |-> i, existingTags |-> TagsWithout(i), form |-> settled,
                 tab |-> "form", json |-> json, dirty |-> FALSE, typed |-> typed]
  BY DEF Opened
<1> HIDE DEF form, json
<1>4. Network(form) = "hysteria" /\ ~typed => form.protocol = "hysteria"
  BY <1>2
<1>5. typed \in BOOLEAN
  OBVIOUS
<1> HIDE DEF typed
<1>6. IsOutboundForm(settled) /\ RidesOwn(settled, typed)
  BY <1>1, <1>4, SettledRides
<1> HIDE DEF settled
<1>7. /\ DOMAIN dialog' = DialogKeys /\ dialog'.open = TRUE /\ dialog'.index = i /\ dialog'.existingTags = TagsWithout(i)
      /\ dialog'.form = settled /\ dialog'.typed = typed
  BY <1>3 DEF DialogKeys
<1>8. TagsWithout(i)' = TagsWithout(i)
  BY DEF TagsWithout
<1>9. DialogOK'
  <2>1. IsOutboundForm(dialog'.form) /\ RidesOwn(dialog'.form, dialog'.typed)
    BY <1>6, <1>7
  <2>2. dialog'.existingTags = TagsWithout(dialog.index)'
    BY <1>7 DEF TagsWithout
  <2> QED BY <1>5, <1>7, <2>1, <2>2 DEF DialogOK, IsOutboundForm, RidesOwn, Network, Security
<1> QED BY <1>9 DEF OutboundsInv

\* Steps that open and close the dialog.
LEMMA OpenSteps ==
  ASSUME OutboundsInv, openAdd \/ openEdit \/ onClose
  PROVE  OutboundsInv'
<1>1. outbounds' = outbounds
  BY DEF openAdd, openEdit, onClose
<1>2. Len(outbounds) \in Nat /\ DOMAIN outbounds = 1 .. Len(outbounds)
  BY ListIs DEF OutboundsInv
<1>3. CASE openAdd
  <2>1. dialog' = Opened(0) /\ 0 \in 0 .. Len(outbounds)
    BY <1>2, <1>3 DEF openAdd
  <2> QED BY <1>1, <2>1, OpenedIs
<1>4. CASE openEdit
  <2>1. PICK i \in DOMAIN outbounds : dialog' = Opened(i)
    BY <1>4 DEF openEdit
  <2>2. i \in 0 .. Len(outbounds)
    BY <1>2
  <2> QED BY <1>1, <2>1, <2>2, OpenedIs
<1>5. CASE onClose
  <2>1. dialog'.open = FALSE
    BY <1>5 DEF onClose, Closed
  <2> QED BY <1>1, <2>1 DEF OutboundsInv, DialogOK
<1> QED BY <1>3, <1>4, <1>5

\* Changes of other fields than the stream and the protocol.
LEMMA FieldSteps ==
  ASSUME OutboundsInv, EditTag \/ EditFlow \/ ToggleMux
  PROVE  OutboundsInv'
<1>1. dialog.open
  BY DEF EditTag, EditFlow, ToggleMux, CanEdit
<1>2. /\ IsOutboundForm(dialog.form)
      /\ Network(dialog.form) = "hysteria" /\ ~dialog.typed => dialog.form.protocol = "hysteria"
  BY <1>1, OwnStream
<1>3. PICK form : /\ Becomes(form) /\ DOMAIN form = DOMAIN dialog.form
                  /\ form.protocol = dialog.form.protocol /\ form.stream = dialog.form.stream
  <2>1. CASE EditTag
    <3>1. PICK tag \in Tags : Becomes([dialog.form EXCEPT !.tag = tag])
      BY <2>1 DEF EditTag
    <3>2. LET form == [dialog.form EXCEPT !.tag = tag]
          IN  /\ DOMAIN form = DOMAIN dialog.form
              /\ form.protocol = dialog.form.protocol /\ form.stream = dialog.form.stream
      BY <1>2 DEF IsOutboundForm, FormKeys
    <3> QED BY <3>1, <3>2
  <2>2. CASE EditFlow
    <3>1. PICK flow : Becomes([dialog.form EXCEPT !.settings.flow = flow])
      BY <2>2 DEF EditFlow
    <3>2. LET form == [dialog.form EXCEPT !.settings.flow = flow]
          IN  /\ DOMAIN form = DOMAIN dialog.form
              /\ form.protocol = dialog.form.protocol /\ form.stream = dialog.form.stream
      BY <1>2 DEF IsOutboundForm, FormKeys
    <3> QED BY <3>1, <3>2
  <2>3. CASE ToggleMux
    <3>1. Becomes([dialog.form EXCEPT !.mux.enabled = ~@])
      BY <2>3 DEF ToggleMux
    <3>2. LET form == [dialog.form EXCEPT !.mux.enabled = ~@]
          IN  /\ DOMAIN form = DOMAIN dialog.form
              /\ form.protocol = dialog.form.protocol /\ form.stream = dialog.form.stream
      BY <1>2 DEF IsOutboundForm, FormKeys
    <3> QED BY <3>1, <3>2
  <2> QED BY <2>1, <2>2, <2>3
<1>4. IsOutboundForm(form) /\ (Network(form) = "hysteria" /\ ~dialog.typed => form.protocol = "hysteria")
  BY <1>2, <1>3 DEF IsOutboundForm, Network
<1> QED BY <1>1, <1>3, <1>4, FormChanges

\* A new protocol leaves hysteria's transport and takes it along with hysteria.
LEMMA ProtocolStep ==
  ASSUME OutboundsInv, onValuesChange
  PROVE  OutboundsInv'
<1>1. dialog.open
  BY DEF onValuesChange, CanEdit
<1>2. PICK protocol : ChangeProtocol(protocol)
  BY DEF onValuesChange
<1> DEFINE stream == IF protocol = "hysteria" THEN hysteriaStreamSlice
                     ELSE IF Network(dialog.form) = "hysteria" THEN TcpSlice ELSE dialog.form.stream
           settings == SettingsFromWire(protocol, NoKeys)
           form == [dialog.form EXCEPT !.protocol = protocol, !.settings = settings, !.stream = stream]
<1>3. Becomes(form)
  BY <1>2 DEF ChangeProtocol
<1>4. Read(stream, "network", "") = "hysteria" => protocol = "hysteria"
  BY TcpSliceIs DEF Network
<1>5. IsOutboundForm(dialog.form)
  BY <1>1, OwnStream
<1> HIDE DEF stream, settings
<1>6. IsOutboundForm(form) /\ form.protocol = protocol /\ form.stream = stream
  BY <1>5 DEF IsOutboundForm, FormKeys
<1> HIDE DEF form
<1>7. Network(form) = "hysteria" => form.protocol = "hysteria"
  BY <1>4, <1>6 DEF Network
<1> QED BY <1>1, <1>3, <1>6, <1>7, FormChanges

\* Changes of the stream.
LEMMA StreamSteps ==
  ASSUME OutboundsInv, onNetworkChange \/ onSecurityChange \/ onXmuxToggle \/ ToggleSockopt
  PROVE  OutboundsInv'
<1>1. dialog.open
  BY DEF onNetworkChange, onSecurityChange, onXmuxToggle, ToggleSockopt, CanEdit
<1> DEFINE own == dialog.form.stream
           ordinary == {"tcp", "kcp", "ws", "grpc", "httpupgrade", "xhttp"}
<1>2. CASE onNetworkChange
  <2>1. PICK next, security :
          /\ next \in IF dialog.form.protocol = "hysteria" THEN {"hysteria"} ELSE ordinary
          /\ Becomes(WithStream(IF next = "hysteria" THEN hysteriaStreamSlice
                                ELSE Over([security |-> security], newStreamSlice(next))))
    BY <1>2 DEF onNetworkChange
  <2> DEFINE stream == IF next = "hysteria" THEN hysteriaStreamSlice ELSE Over([security |-> security], newStreamSlice(next))
  <2>2. Becomes(WithStream(stream))
    BY <2>1
  <2>3. next # "hysteria" => Read(stream, "network", "") = next
    <3>1. "network" \notin DOMAIN [security |-> security]
      OBVIOUS
    <3> QED BY <3>1, SliceIs, NetworkStays
  <2> HIDE DEF stream
  <2>4. Read(stream, "network", "") \in {Read(own, "network", "")} \cup ordinary \/ dialog.form.protocol = "hysteria"
    BY <2>1, <2>3
  <2> QED BY <1>1, <2>2, <2>4, StreamChanges
<1>3. CASE onSecurityChange
  <2>1. PICK fresh : /\ "network" \notin DOMAIN fresh
                     /\ Becomes(WithStream(Over(fresh, [k \in DOMAIN own \ {"tlsSettings", "realitySettings"} |-> own[k]])))
    <3>1. PICK next \in SecuritiesShown(dialog.form.protocol, Network(dialog.form)) :
            Becomes(WithStream(Over(CASE next = "tls" -> [security |-> next, tlsSettings |-> NewTls(<<>>)]
                                      [] next = "reality" -> [security |-> next, realitySettings |-> NoReality]
                                      [] OTHER -> [security |-> next],
                                    [k \in DOMAIN own \ {"tlsSettings", "realitySettings"} |-> own[k]])))
      BY <1>3 DEF onSecurityChange
    <3>2. \A v : /\ "network" \notin DOMAIN [security |-> next, tlsSettings |-> v]
                 /\ "network" \notin DOMAIN [security |-> next, realitySettings |-> v]
                 /\ "network" \notin DOMAIN [security |-> next]
      OBVIOUS
    <3> DEFINE fresh == CASE next = "tls" -> [security |-> next, tlsSettings |-> NewTls(<<>>)]
                          [] next = "reality" -> [security |-> next, realitySettings |-> NoReality]
                          [] OTHER -> [security |-> next]
    <3>3. "network" \notin DOMAIN fresh
      BY <3>2
    <3>4. Becomes(WithStream(Over(fresh, [k \in DOMAIN own \ {"tlsSettings", "realitySettings"} |-> own[k]])))
      BY <3>1
    <3> HIDE DEF fresh
    <3> QED BY <3>3, <3>4
  <2> DEFINE kept == [k \in DOMAIN own \ {"tlsSettings", "realitySettings"} |-> own[k]]
             stream == Over(fresh, kept)
  <2>2. Becomes(WithStream(stream))
    BY <2>1
  <2>3. Read(kept, "network", "") = Read(own, "network", "")
    BY DEF Read
  <2> HIDE DEF kept
  <2>4. Read(stream, "network", "") = Read(own, "network", "")
    BY <2>1, <2>3, NetworkStays
  <2> HIDE DEF stream
  <2> QED BY <1>1, <2>2, <2>4, StreamChanges
<1>4. CASE onXmuxToggle
  <2>1. PICK shown : Becomes(WithStream([own EXCEPT !.xhttpSettings = shown]))
    BY <1>4 DEF onXmuxToggle
  <2> DEFINE stream == [own EXCEPT !.xhttpSettings = shown]
  <2>2. Read(stream, "network", "") = Read(own, "network", "")
    BY DEF Read
  <2>3. Becomes(WithStream(stream))
    BY <2>1
  <2> HIDE DEF stream
  <2> QED BY <1>1, <2>2, <2>3, StreamChanges
<1>5. CASE ToggleSockopt
  <2> DEFINE off == [k \in DOMAIN own \ {"sockopt"} |-> own[k]]
             on == Over([sockopt |-> "default"], own)
             stream == IF "sockopt" \in DOMAIN own THEN off ELSE on
  <2>1. Becomes(WithStream(stream))
    BY <1>5 DEF ToggleSockopt
  <2>2. Read(off, "network", "") = Read(own, "network", "")
    BY DEF Read
  <2>3. "network" \notin DOMAIN [sockopt |-> "default"]
    OBVIOUS
  <2>4. Read(on, "network", "") = Read(own, "network", "")
    BY <2>3, NetworkStays
  <2> HIDE DEF on, off
  <2>5. Read(stream, "network", "") = Read(own, "network", "")
    BY <2>2, <2>4
  <2> HIDE DEF stream
  <2> QED BY <1>1, <2>1, <2>5, StreamChanges
<1> QED BY <1>2, <1>3, <1>4, <1>5

\* The tabs: what was typed may bring the transport, what is imported may not.
LEMMA TabSteps ==
  ASSUME OutboundsInv, ShowJson \/ EditJson \/ ShowForm \/ importLink
  PROVE  OutboundsInv'
<1>1. dialog.open = TRUE /\ outbounds' = outbounds
  BY DEF ShowJson, EditJson, ShowForm, importLink, OutboundsInv, DialogOK
<1>2. /\ DOMAIN dialog = DialogKeys /\ dialog.typed \in BOOLEAN
      /\ IsOutboundForm(dialog.form) /\ RidesOwn(dialog.form, dialog.typed)
  BY <1>1 DEF OutboundsInv, DialogOK
<1>3. SUFFICES \E form, typed : 
                 /\ DOMAIN dialog' = DialogKeys /\ dialog'.open = TRUE /\ dialog'.index = dialog.index
                 /\ dialog'.existingTags = dialog.existingTags /\ dialog'.form = form /\ dialog'.typed = typed
                 /\ typed \in BOOLEAN /\ IsOutboundForm(form) /\ RidesOwn(form, typed)
  <2>1. PICK form, typed :
                 /\ DOMAIN dialog' = DialogKeys /\ dialog'.open = TRUE /\ dialog'.index = dialog.index
                 /\ dialog'.existingTags = dialog.existingTags /\ dialog'.form = form /\ dialog'.typed = typed
                 /\ typed \in BOOLEAN /\ IsOutboundForm(form) /\ RidesOwn(form, typed)
    BY <1>3
  <2>2. IsOutboundForm(dialog'.form) /\ RidesOwn(dialog'.form, dialog'.typed) /\ dialog'.typed \in BOOLEAN
    BY <2>1
  <2> QED BY <1>1, <2>1, <2>2, DialogStays
<1>4. ASSUME NEW json, NEW tab, NEW dirty,
             dialog' = [dialog EXCEPT !.tab = tab, !.json = json, !.dirty = dirty]
      PROVE  \E form, typed : 
                 /\ DOMAIN dialog' = DialogKeys /\ dialog'.open = TRUE /\ dialog'.index = dialog.index
                 /\ dialog'.existingTags = dialog.existingTags /\ dialog'.form = form /\ dialog'.typed = typed
                 /\ typed \in BOOLEAN /\ IsOutboundForm(form) /\ RidesOwn(form, typed)
  <2>1. /\ DOMAIN dialog' = DialogKeys /\ dialog'.open = TRUE /\ dialog'.index = dialog.index
        /\ dialog'.existingTags = dialog.existingTags /\ dialog'.form = dialog.form /\ dialog'.typed = dialog.typed
    BY <1>1, <1>2, <1>4 DEF DialogKeys
  <2> QED BY <1>2, <2>1
<1>5. CASE ShowJson
  <2> DEFINE json == Json(dialog.form)
  <2>1. dialog' = [dialog EXCEPT !.tab = "json", !.json = json, !.dirty = FALSE]
    BY <1>5 DEF ShowJson
  <2> HIDE DEF json
  <2> QED BY <1>4, <2>1
<1>6. CASE EditJson
  <2>1. PICK json : dialog' = [dialog EXCEPT !.json = json, !.dirty = TRUE]
    BY <1>6 DEF EditJson
  <2>2. /\ DOMAIN dialog' = DialogKeys /\ dialog'.open = TRUE /\ dialog'.index = dialog.index
        /\ dialog'.existingTags = dialog.existingTags /\ dialog'.form = dialog.form /\ dialog'.typed = dialog.typed
    BY <1>1, <1>2, <2>1 DEF DialogKeys
  <2> QED BY <1>2, <2>2
<1>7. CASE ShowForm /\ ~(dialog.dirty /\ dialog.json # NoJson)
  <2>1. dialog' = [dialog EXCEPT !.tab = "form"]
    BY <1>7 DEF ShowForm
  <2>2. /\ DOMAIN dialog' = DialogKeys /\ dialog'.open = TRUE /\ dialog'.index = dialog.index
        /\ dialog'.existingTags = dialog.existingTags /\ dialog'.form = dialog.form /\ dialog'.typed = dialog.typed
    BY <1>1, <1>2, <2>1 DEF DialogKeys
  <2> QED BY <1>2, <2>2
<1>8. CASE ShowForm /\ dialog.dirty /\ dialog.json # NoJson
  <2> DEFINE raw == rawOutboundToFormValues(dialog.json.of)
             settled == Settled(raw)
  <2>1. dialog' = [dialog EXCEPT !.tab = "form", !.dirty = FALSE, !.typed = TRUE, !.form = settled]
    BY <1>8 DEF ShowForm
  <2>2. IsOutboundForm(raw)
    BY RawIs
  <2> HIDE DEF raw
  <2>3. IsOutboundForm(settled) /\ RidesOwn(settled, TRUE)
    BY <2>2, SettledRides
  <2> HIDE DEF settled
  <2>4. /\ DOMAIN dialog' = DialogKeys /\ dialog'.open = TRUE /\ dialog'.index = dialog.index
        /\ dialog'.existingTags = dialog.existingTags /\ dialog'.form = settled /\ dialog'.typed = TRUE
    BY <1>1, <1>2, <2>1 DEF DialogKeys
  <2> QED BY <2>3, <2>4
<1>9. CASE importLink
  <2>1. PICK item \in Shared :
          LET parsed == parseOutboundLink(SharedLink(item))
              next == [rawOutboundToFormValues(parsed) EXCEPT !.tag = IF @ = "" THEN dialog.form.tag ELSE @]
          IN  dialog' = [dialog EXCEPT !.form = Settled(next), !.json = Json(next), !.dirty = FALSE, !.tab = "form"]
    BY <1>9 DEF importLink
  <2> DEFINE raw == rawOutboundToFormValues(parseOutboundLink(SharedLink(item)))
             next == [raw EXCEPT !.tag = IF @ = "" THEN dialog.form.tag ELSE @]
             settled == Settled(next)
             json == Json(next)
  <2>2. dialog' = [dialog EXCEPT !.form = settled, !.json = json, !.dirty = FALSE, !.tab = "form"]
    BY <2>1
  <2>3. IsOutboundForm(raw)
    BY RawIs
  <2>4. Network(raw) = "hysteria" => raw.protocol = "hysteria"
    BY SharedRides
  <2> HIDE DEF raw
  <2>5. DOMAIN next = DOMAIN raw /\ next.protocol = raw.protocol /\ next.stream = raw.stream
    BY <2>3 DEF IsOutboundForm, FormKeys
  <2> HIDE DEF next, json
  <2>6. IsOutboundForm(next) /\ (Network(next) = "hysteria" => next.protocol = "hysteria")
    BY <2>3, <2>4, <2>5 DEF IsOutboundForm, Network
  <2>7. IsOutboundForm(settled) /\ RidesOwn(settled, dialog.typed)
    BY <2>6, SettledRides
  <2> HIDE DEF settled
  <2>8. /\ DOMAIN dialog' = DialogKeys /\ dialog'.open = TRUE /\ dialog'.index = dialog.index
        /\ dialog'.existingTags = dialog.existingTags /\ dialog'.form = settled /\ dialog'.typed = dialog.typed
    BY <1>1, <1>2, <2>2 DEF DialogKeys
  <2> QED BY <1>2, <2>7, <2>8
<1> QED BY <1>5, <1>6, <1>7, <1>8, <1>9

\* OK puts an outbound into the list only if no other has its tag.
LEMMA OkStep ==
  ASSUME OutboundsInv, onOk
  PROVE  OutboundsInv'
<1> DEFINE at == dialog.index
           values == IF dialog.tab = "json" THEN rawOutboundToFormValues(dialog.json.of) ELSE dialog.form
           o == formValuesToWirePayload(values)
           tag == values.tag
           added == Append(outbounds, o)
           new == [outbounds EXCEPT ![at] = o]
<1>1. /\ IsList(outbounds) /\ Distinct(outbounds) /\ at \in 0 .. Len(outbounds)
      /\ dialog.existingTags = TagsWithout(at)
  BY DEF OutboundsInv, DialogOK, onOk
<1>2. Accepted(values) /\ outbounds' = IF at = 0 THEN added ELSE new
  BY DEF onOk
<1>3. dialog'.open = FALSE
  BY DEF onOk, Closed
<1>4. Len(outbounds) \in Nat /\ DOMAIN outbounds = 1 .. Len(outbounds)
  BY <1>1, ListIs
<1> HIDE DEF values
<1>5. Trim[tag] # "" /\ tag # ""
  BY <1>2, OutboundAssumption DEF Accepted
<1>6. Read(o, "tag", "") = tag /\ o.tag = tag
  BY <1>5, PayloadTag
<1> HIDE DEF o
<1>7. \A i : Trim[tag] \notin TagsWithout(i) =>
               \A j \in DOMAIN outbounds \ {i} : Read(outbounds[j], "tag", "") # Trim[tag]
  BY <1>5 DEF TagsWithout
<1>8. \/ Trim[tag] \notin TagsWithout(at)
      \/ at # 0 /\ Trim[tag] = Read(outbounds[at], "tag", "")
  BY <1>1, <1>2 DEF Accepted
<1> HIDE DEF tag
<1>9. CASE at = 0
  <2>1. \A j \in DOMAIN outbounds : Read(outbounds[j], "tag", "") # Trim[o.tag]
    <3>1. DOMAIN outbounds \ {0} = DOMAIN outbounds
      BY <1>4
    <3>2. Trim[tag] \notin TagsWithout(0)
      BY <1>8, <1>9
    <3> QED BY <1>6, <1>7, <3>1, <3>2
  <2>2. Distinct(added)
    BY <1>1, <1>5, <1>6, <2>1, AddedIsDistinct
  <2>3. IsList(added)
    BY <1>1, AddedIs
  <2> HIDE DEF added
  <2> QED BY <1>2, <1>3, <1>9, <2>2, <2>3 DEF OutboundsInv, DialogOK
<1>10. CASE at # 0
  <2> HIDE DEF at
  <2>1. at \in DOMAIN outbounds
    BY <1>1, <1>4, <1>10
  <2>2. \/ \A j \in DOMAIN outbounds \ {at} : Read(outbounds[j], "tag", "") # Trim[o.tag]
        \/ Read(outbounds[at], "tag", "") = Trim[o.tag]
    BY <1>6, <1>7, <1>8
  <2>3. Distinct(new)
    BY <1>1, <1>5, <1>6, <2>1, <2>2, ReplacedIsDistinct
  <2>4. IsList(new)
    BY <1>1, <2>1, ReplacedIs
  <2> HIDE DEF new
  <2> QED BY <1>2, <1>3, <1>10, <2>3, <2>4 DEF OutboundsInv, DialogOK
<1> QED BY <1>9, <1>10

\* The list and the dialog agree in every reachable state.
THEOREM OutboundsInductive == Spec => []OutboundsInv
<1>1. Init => OutboundsInv
  <2> SUFFICES ASSUME Init PROVE OutboundsInv
    OBVIOUS
  <2>1. IsList(outbounds) /\ Distinct(outbounds)
    BY OutboundAssumption DEF Init
  <2>2. dialog.open = FALSE
    BY DEF Init, Closed
  <2> QED BY <2>1, <2>2 DEF OutboundsInv, DialogOK
<1>2. OutboundsInv /\ [Next]_vars => OutboundsInv'
  <2> SUFFICES ASSUME OutboundsInv, [Next]_vars PROVE OutboundsInv'
    OBVIOUS
  <2>1. CASE confirmDelete \/ setFirst \/ Move
    BY <2>1, ListSteps
  <2>2. CASE openAdd \/ openEdit \/ onClose
    BY <2>2, OpenSteps
  <2>3. CASE EditTag \/ EditFlow \/ ToggleMux
    BY <2>3, FieldSteps
  <2>4. CASE onValuesChange
    BY <2>4, ProtocolStep
  <2>5. CASE onNetworkChange \/ onSecurityChange \/ onXmuxToggle \/ ToggleSockopt
    BY <2>5, StreamSteps
  <2>6. CASE ShowJson \/ EditJson \/ ShowForm \/ importLink
    BY <2>6, TabSteps
  <2>7. CASE onOk
    BY <2>7, OkStep
  <2>8. CASE UNCHANGED vars
    <3>1. outbounds' = outbounds /\ dialog' = dialog
      BY <2>8 DEF vars
    <3> QED BY <3>1 DEF OutboundsInv, DialogOK, TagsWithout, IsOutboundForm, RidesOwn, Network, Security
  <2> QED BY <2>1, <2>2, <2>3, <2>4, <2>5, <2>6, <2>7, <2>8 DEF Next
<1> QED BY <1>1, <1>2, PTL DEF Spec

\* No two outbounds get the same tag, whatever is added, edited, moved or imported.
THEOREM OutboundTagsStayDistinct == Spec => []TagsDistinct
<1>1. OutboundsInv => TagsDistinct
  BY DEF OutboundsInv, TagsDistinct
<1> QED BY <1>1, OutboundsInductive, PTL

\* Hysteria has its own transport with TLS, and no other protocol gets it.
THEOREM HysteriaRidesItsOwn == Spec => []HysteriaTransport
<1>1. OutboundsInv => HysteriaTransport
  BY DEF OutboundsInv, DialogOK, RidesOwn, HysteriaTransport
<1> QED BY <1>1, OutboundsInductive, PTL

-----------------------------------------------------------------------------
\* Parameters: what a key of a link says.

\* The text and the list under a key, if any.
TextOf(params, k) == Text(params, k, "")
ListOf(params, k) == Read(params, k, <<>>)
SaysAlike(a, b, k) == (k \in DOMAIN a <=> k \in DOMAIN b) /\ (k \in DOMAIN a => a[k] = b[k])

\* Objects that say the same under a key are read alike.
LEMMA ReadAlike ==
  ASSUME NEW a, NEW b, NEW k, SaysAlike(a, b, k)
  PROVE  TextOf(a, k) = TextOf(b, k) /\ ListOf(a, k) = ListOf(b, k)
BY DEF SaysAlike, TextOf, ListOf, Text, Read

\* Of two objects laid over each other the upper one says what it has.
LEMMA OverSays ==
  ASSUME NEW a, NEW b, NEW k
  PROVE  /\ DOMAIN Over(a, b) = DOMAIN a \cup DOMAIN b
         /\ k \in DOMAIN a => SaysAlike(Over(a, b), a, k)
         /\ k \notin DOMAIN a => SaysAlike(Over(a, b), b, k)
         /\ k \notin DOMAIN b => SaysAlike(Over(a, b), a, k)
BY DEF Over, SaysAlike

\* What says nothing is read as nothing.
LEMMA SaidIs ==
  ASSUME NEW o, NEW k
  PROVE  /\ DOMAIN Said(o) \subseteq DOMAIN o
         /\ k \in DOMAIN o => TextOf(Said(o), k) = One(o[k]) /\ ListOf(Said(o), k) = o[k]
BY DEF Said, TextOf, ListOf, Text, Read, One

\* An object without keys.
LEMMA NoKeysIs == DOMAIN NoKeys = {}
BY DEF NoKeys

\* A text and its parts.
LEMMA PartIs ==
  \A text : One(Part(text)) = text /\ One(<<text>>) = text
<1>1. \A text : <<text>> # <<>> /\ <<text>>[1] = text
  OBVIOUS
<1> QED BY <1>1 DEF One, Part

\* Nothing says nothing.
LEMMA PartSaid ==
  ASSUME NEW text
  PROVE  text # "" <=> Part(text) # <<>>
<1>1. <<text>> # <<>>
  OBVIOUS
<1> QED BY <1>1 DEF Part

NetKeys == {"path", "host", "headerType", "mtu", "serviceName", "authority", "mode", "x_padding_bytes"}
SecKeys == {"security", "fp", "alpn", "ech", "sni", "pcs", "pbk", "sid", "spx", "pqv"}

\* The keys of each part of a link.
LEMMA NetworkKeys ==
  ASSUME NEW s
  PROVE  DOMAIN NetworkParams(s) \subseteq NetKeys
<1>1. DOMAIN NoKeys = {}
  BY DEF NoKeys
<1>2. \A v, w, o : DOMAIN Over([path |-> v, headerType |-> w], Said([host |-> o])) \subseteq NetKeys
  BY DEF Over, Said, NetKeys
<1>3. \A v, w, c, u : DOMAIN Over([serviceName |-> v, authority |-> w], Keep(c, "mode", u)) \subseteq NetKeys
  BY DEF Over, NetKeys, Keep
<1>4. \A v, w, u, o : DOMAIN Over([path |-> v, host |-> w, mode |-> u], Said([x_padding_bytes |-> o])) \subseteq NetKeys
  BY DEF Over, Said, NetKeys
<1>5. \A v, w : DOMAIN [path |-> v, host |-> w] \subseteq NetKeys /\ DOMAIN [mtu |-> v] \subseteq NetKeys
  BY DEF NetKeys
<1> QED BY <1>1, <1>2, <1>3, <1>4, <1>5 DEF NetworkParams

\* The keys the security of a stream writes into a link.
LEMMA SecurityKeys ==
  ASSUME NEW s, NEW security, NEW ep
  PROVE  DOMAIN SecurityParams(s, security, ep) \subseteq SecKeys
<1>1. DOMAIN NoKeys = {}
  BY DEF NoKeys
<1>2. DOMAIN TlsParams(s) \subseteq SecKeys
  <2>1. \A a, b, c, d, e : DOMAIN Over([fp |-> a, alpn |-> b], Said([ech |-> c, sni |-> d, pcs |-> e])) \subseteq SecKeys
    BY DEF Over, Said, SecKeys
  <2> QED BY <1>1, <2>1 DEF TlsParams
<1>3. DOMAIN RealityParams(s) \subseteq SecKeys
  <2>1. \A a, b, c, d, e, f : DOMAIN Over([pbk |-> a, fp |-> b], Said([sni |-> c, sid |-> d, spx |-> e, pqv |-> f])) \subseteq SecKeys
    BY DEF Over, Said, SecKeys
  <2> QED BY <1>1, <2>1 DEF RealityParams
<1>4. DOMAIN ProxyTls(ep, security) \subseteq SecKeys
  <2>1. \A a, b, c : DOMAIN Said([sni |-> a, fp |-> b, alpn |-> c]) \subseteq SecKeys
    BY DEF Said, SecKeys
  <2> QED BY <1>1, <2>1 DEF ProxyTls
<1>5. \A v : DOMAIN [security |-> v] \subseteq SecKeys
  BY DEF SecKeys
<1>6. \A v : /\ DOMAIN Over([security |-> v], Over(ProxyTls(ep, security), TlsParams(s))) \subseteq SecKeys
             /\ DOMAIN Over([security |-> v], RealityParams(s)) \subseteq SecKeys
  BY <1>2, <1>3, <1>4, <1>5 DEF Over
<1> QED BY <1>5, <1>6 DEF SecurityParams

\* The keys of the final mask and of the flow.
LEMMA OtherKeys ==
  ASSUME NEW s, NEW security, NEW flow
  PROVE  DOMAIN FinalMask(s) \subseteq {"fm"} /\ DOMAIN FlowParam(s, security, flow) \subseteq {"flow"}
<1>1. \A v : DOMAIN Said([fm |-> v]) \subseteq {"fm"}
  BY DEF Said
<1> QED BY <1>1 DEF FinalMask, FlowParam, Keep

\* The parts of a link do not touch each other.
LEMMA PartsApart ==
  ASSUME NEW top, DOMAIN top \subseteq {"type", "encryption"}, NEW net, DOMAIN net \subseteq NetKeys,
         NEW mask, DOMAIN mask \subseteq {"fm"}, NEW secured, NEW k
  PROVE  LET params == Over(top, Over(net, Over(mask, secured)))
         IN  /\ k \in DOMAIN top => SaysAlike(params, top, k)
             /\ k \in NetKeys /\ DOMAIN secured \cap NetKeys = {} => SaysAlike(params, net, k)
             /\ k \in SecKeys \cup {"flow"} => SaysAlike(params, secured, k)
<1> DEFINE low == Over(mask, secured)
           mid == Over(net, low)
           params == Over(top, mid)
<1>1. k \in DOMAIN top => SaysAlike(params, top, k)
  BY OverSays
<1>2. ASSUME k \in NetKeys, DOMAIN secured \cap NetKeys = {} PROVE SaysAlike(params, net, k)
  <2>1. k \notin DOMAIN top /\ k \notin DOMAIN mask /\ k \notin DOMAIN secured
    BY <1>2 DEF NetKeys
  <2>2. k \notin DOMAIN low
    BY <2>1, OverSays
  <2> HIDE DEF low
  <2>3. SaysAlike(mid, net, k)
    BY <2>2, OverSays
  <2> HIDE DEF mid
  <2>4. SaysAlike(params, mid, k)
    BY <2>1, OverSays
  <2> HIDE DEF params
  <2> QED BY <2>3, <2>4 DEF SaysAlike
<1>3. ASSUME k \in SecKeys \cup {"flow"} PROVE SaysAlike(params, secured, k)
  <2>1. k \notin DOMAIN top /\ k \notin DOMAIN mask /\ k \notin DOMAIN net
    BY <1>3 DEF NetKeys, SecKeys
  <2>2. SaysAlike(low, secured, k)
    BY <2>1, OverSays
  <2> HIDE DEF low
  <2>3. SaysAlike(mid, low, k)
    BY <2>1, OverSays
  <2> HIDE DEF mid
  <2>4. SaysAlike(params, mid, k)
    BY <2>1, OverSays
  <2> HIDE DEF params
  <2> QED BY <2>2, <2>3, <2>4 DEF SaysAlike
<1> QED BY <1>1, <1>2, <1>3

\* What is laid on top is read first, and what says nothing not at all.
LEMMA Layers ==
  \A a, b, k :
    /\ k \in DOMAIN a => TextOf(Over(a, b), k) = One(a[k]) /\ ListOf(Over(a, b), k) = a[k]
    /\ k \notin DOMAIN a => TextOf(Over(a, b), k) = TextOf(b, k) /\ ListOf(Over(a, b), k) = ListOf(b, k)
<1> TAKE a, b, k
<1>1. DOMAIN Over(a, b) = DOMAIN a \cup DOMAIN b
  BY DEF Over
<1>2. CASE k \in DOMAIN a
  <2>1. Over(a, b)[k] = a[k]
    BY <1>2 DEF Over
  <2> QED BY <1>1, <1>2, <2>1 DEF TextOf, ListOf, Text, Read
<1>3. CASE k \notin DOMAIN a
  <2>1. k \in DOMAIN b => Over(a, b)[k] = b[k]
    BY <1>3 DEF Over
  <2> QED BY <1>1, <1>3, <2>1 DEF TextOf, ListOf, Text, Read
<1> QED BY <1>2, <1>3

\* What the TLS settings of an inbound, and those of a proxy before it, amount to.
OwnTls(s) == IF s.security = "tls" THEN s.tls ELSE [sni |-> "", fp |-> "", alpn |-> <<>>]
TlsSaid(params, s, ep) ==
  /\ TextOf(params, "sni") = IF ep = Nothing THEN OwnTls(s).sni ELSE Or(ep.sni, ep.dest)
  /\ TextOf(params, "fp") = IF ep = Nothing THEN OwnTls(s).fp ELSE Or(ep.fp, OwnTls(s).fp)
  /\ ListOf(params, "alpn") = IF ep # Nothing /\ ep.alpn # <<>> THEN ep.alpn ELSE OwnTls(s).alpn

OwnSaid(params, s) ==
  /\ TextOf(params, "sni") = OwnTls(s).sni /\ TextOf(params, "fp") = OwnTls(s).fp
  /\ ListOf(params, "alpn") = OwnTls(s).alpn

\* An external proxy always has a name for TLS: its SNI, or else its address.
LEMMA ProxyIs ==
  ASSUME NEW ep, IsProxy(ep)
  PROVE  Or(ep.sni, ep.dest) # ""
<1>1. ep.dest # ""
  BY DEF IsProxy
<1> QED BY <1>1 DEF Or

\* A proxy's own settings, read before those of the inbound.
LEMMA ProxySays ==
  ASSUME NEW s, NEW ep, ep = Nothing \/ IsProxy(ep), NEW below, OwnSaid(below, s)
  PROVE  TlsSaid(Over(ProxyTls(ep, "tls"), below), s, ep)
<1>1. CASE ep = Nothing
  <2>1. ProxyTls(ep, "tls") = NoKeys
    BY <1>1 DEF ProxyTls, Nothing
  <2>3. TextOf(Over(NoKeys, below), "sni") = TextOf(below, "sni")
    BY NoKeysIs, Layers
  <2>4. TextOf(Over(NoKeys, below), "fp") = TextOf(below, "fp")
    BY NoKeysIs, Layers
  <2>5. ListOf(Over(NoKeys, below), "alpn") = ListOf(below, "alpn")
    BY NoKeysIs, Layers
  <2> QED BY <1>1, <2>1, <2>3, <2>4, <2>5 DEF TlsSaid, OwnSaid
<1>2. CASE ep # Nothing
  <2> DEFINE own == [sni |-> Part(Or(ep.sni, ep.dest)), fp |-> Part(ep.fp), alpn |-> ep.alpn]
  <2>1. ProxyTls(ep, "tls") = Said(own)
    BY <1>2 DEF ProxyTls, Nothing
  <2>2. Or(ep.sni, ep.dest) # ""
    BY <1>2, ProxyIs
  <2>3. DOMAIN own = {"sni", "fp", "alpn"} /\ own["sni"] = Part(Or(ep.sni, ep.dest)) /\ own["fp"] = Part(ep.fp) /\ own["alpn"] = ep.alpn
    OBVIOUS
  <2> HIDE DEF own
  <2>a. \A k \in DOMAIN own : /\ k \in DOMAIN Said(own) <=> own[k] # <<>>
                              /\ k \in DOMAIN Said(own) => Said(own)[k] = own[k]
    BY DEF Said
  <2>b. Part(Or(ep.sni, ep.dest)) # <<>>
    BY <2>2, PartSaid
  <2>4. /\ "sni" \in DOMAIN Said(own) /\ Said(own)["sni"] = Part(Or(ep.sni, ep.dest))
        /\ "fp" \in DOMAIN Said(own) <=> Part(ep.fp) # <<>>
        /\ "fp" \in DOMAIN Said(own) => Said(own)["fp"] = Part(ep.fp)
        /\ "alpn" \in DOMAIN Said(own) <=> ep.alpn # <<>>
        /\ "alpn" \in DOMAIN Said(own) => Said(own)["alpn"] = ep.alpn
    BY <2>3, <2>a, <2>b
  <2>5. TextOf(Over(Said(own), below), "sni") = Or(ep.sni, ep.dest)
    BY <2>4, Layers, PartIs
  <2>6. TextOf(Over(Said(own), below), "fp") = Or(ep.fp, OwnTls(s).fp)
    <3>1. CASE ep.fp # ""
      <4>1. "fp" \in DOMAIN Said(own) /\ Said(own)["fp"] = Part(ep.fp)
        BY <2>4, <3>1, PartSaid
      <4>2. Or(ep.fp, OwnTls(s).fp) = ep.fp
        BY <3>1 DEF Or
      <4> QED BY <4>1, <4>2, Layers, PartIs
    <3>2. CASE ep.fp = ""
      <4>1. "fp" \notin DOMAIN Said(own)
        BY <2>4, <3>2, PartSaid
      <4>2. Or(ep.fp, OwnTls(s).fp) = OwnTls(s).fp
        BY <3>2 DEF Or
      <4>3. TextOf(below, "fp") = OwnTls(s).fp
        BY DEF OwnSaid
      <4> QED BY <4>1, <4>2, <4>3, Layers
    <3> QED BY <3>1, <3>2
  <2>7. ListOf(Over(Said(own), below), "alpn") = IF ep.alpn # <<>> THEN ep.alpn ELSE OwnTls(s).alpn
    <3>1. ListOf(below, "alpn") = OwnTls(s).alpn
      BY DEF OwnSaid
    <3> QED BY <2>4, <3>1, Layers
  <2> QED BY <1>2, <2>1, <2>5, <2>6, <2>7 DEF TlsSaid
<1> QED BY <1>1, <1>2

\* The inbound's own settings.
LEMMA TlsSays ==
  ASSUME NEW s
  PROVE  OwnSaid(TlsParams(s), s)
<1>1. CASE s.security = "tls"
  <2> DEFINE top == [fp |-> Part(s.tls.fp), alpn |-> s.tls.alpn]
             low == [ech |-> Part(s.tls.ech), sni |-> Part(s.tls.sni), pcs |-> s.tls.pins]
  <2>1. TlsParams(s) = Over(top, Said(low)) /\ OwnTls(s) = s.tls
    BY <1>1 DEF TlsParams, OwnTls
  <2>2. DOMAIN top = {"fp", "alpn"} /\ top["fp"] = Part(s.tls.fp) /\ top["alpn"] = s.tls.alpn
    OBVIOUS
  <2>3. "sni" \in DOMAIN low /\ low["sni"] = Part(s.tls.sni)
    OBVIOUS
  <2> HIDE DEF top, low
  <2>4. TextOf(Said(low), "sni") = s.tls.sni
    BY <2>3, SaidIs, PartIs
  <2>5. TextOf(Over(top, Said(low)), "sni") = s.tls.sni
    BY <2>2, <2>4, Layers
  <2>6. TextOf(Over(top, Said(low)), "fp") = s.tls.fp
    BY <2>2, Layers, PartIs
  <2>7. ListOf(Over(top, Said(low)), "alpn") = s.tls.alpn
    BY <2>2, Layers
  <2> QED BY <2>1, <2>5, <2>6, <2>7 DEF OwnSaid
<1>2. CASE s.security # "tls"
  <2>1. TlsParams(s) = NoKeys /\ OwnTls(s).sni = "" /\ OwnTls(s).fp = "" /\ OwnTls(s).alpn = <<>>
    BY <1>2 DEF TlsParams, OwnTls
  <2>2. DOMAIN NoKeys = {}
    BY DEF NoKeys
  <2> QED BY <2>1, <2>2 DEF TextOf, ListOf, Text, Read, OwnSaid
<1> QED BY <1>1, <1>2

RealitySaid(params, r) ==
  /\ TextOf(params, "pbk") = r.pbk /\ TextOf(params, "spx") = r.spx /\ TextOf(params, "pqv") = r.pqv
  /\ TextOf(params, "sid") \in ToSet(r.shortIds)
  /\ TextOf(params, "sni") \in ToSet(r.serverNames) \cup {r.serverName}

\* What a link says of reality.
LEMMA RealitySays ==
  ASSUME NEW s, s.security = "reality", IsReality(s.reality)
  PROVE  RealitySaid(RealityParams(s), s.reality)
<1> DEFINE r == s.reality
           top == [pbk |-> Part(r.pbk), fp |-> Part(r.fp)]
           sid == IF r.shortIds = <<>> THEN <<>> ELSE <<One(r.shortIds)>>
           low == [sni |-> Part(RealitySni(r)), sid |-> sid, spx |-> Part(r.spx), pqv |-> Part(r.pqv)]
<1>1. RealityParams(s) = Over(top, Said(low))
  BY DEF RealityParams
<1>2. DOMAIN top = {"pbk", "fp"} /\ top["pbk"] = Part(r.pbk)
  OBVIOUS
<1>3. /\ DOMAIN low = {"sni", "sid", "spx", "pqv"} /\ low["sni"] = Part(RealitySni(r)) /\ low["sid"] = sid
      /\ low["spx"] = Part(r.spx) /\ low["pqv"] = Part(r.pqv)
  OBVIOUS
<1>4. r.shortIds # <<>> /\ r.serverNames # <<>>
  <2>1. DOMAIN <<>> = {}
    OBVIOUS
  <2> QED BY <2>1 DEF IsReality
<1>5. One(sid) = r.shortIds[1] /\ r.shortIds[1] \in ToSet(r.shortIds)
  BY <1>4, PartIs DEF One, ToSet, IsReality
<1>6. RealitySni(r) \in ToSet(r.serverNames) \cup {r.serverName}
  BY <1>4 DEF RealitySni, Or, One, ToSet, IsReality
<1> HIDE DEF r, top, sid, low
<1>7. /\ TextOf(Said(low), "sni") = RealitySni(r) /\ TextOf(Said(low), "sid") = One(sid)
      /\ TextOf(Said(low), "spx") = r.spx /\ TextOf(Said(low), "pqv") = r.pqv
  <2>1. \A k \in DOMAIN low : TextOf(Said(low), k) = One(low[k])
    BY SaidIs
  <2> QED BY <1>3, <2>1, PartIs
<1>8. \A k \in {"sni", "sid", "spx", "pqv"} : TextOf(Over(top, Said(low)), k) = TextOf(Said(low), k)
  BY <1>2, Layers
<1>9. TextOf(Over(top, Said(low)), "pbk") = r.pbk
  BY <1>2, Layers, PartIs
<1>10. RealitySaid(Over(top, Said(low)), r)
  BY <1>5, <1>6, <1>7, <1>8, <1>9 DEF RealitySaid
<1> QED BY <1>1, <1>10 DEF r

-----------------------------------------------------------------------------
\* What a link says of security, under the keys of a query.

SettingsSaid(params, s, security, ep) ==
  /\ security = "tls" => TlsSaid(params, s, ep)
  /\ security = "reality" => RealitySaid(params, s.reality)
SecuritySaid(params, s, security, ep) ==
  TextOf(params, "security") = security /\ SettingsSaid(params, s, security, ep)
\* An inbound's security, or what an external proxy has instead.
Allowed(s, security) ==
  /\ security \in {"none", "tls", "reality"}
  /\ security = "reality" => s.security = "reality" /\ IsReality(s.reality)

\* What the security of a link says.
LEMMA SecuritySays ==
  ASSUME NEW s, NEW security, Allowed(s, security), NEW ep, ep = Nothing \/ IsProxy(ep)
  PROVE  SecuritySaid(SecurityParams(s, security, ep), s, security, ep)
<1>1. \A v : DOMAIN [security |-> v] = {"security"} /\ [security |-> v]["security"] = v
  OBVIOUS
<1>2. \A v, below : /\ TextOf(Over([security |-> <<v>>], below), "security") = v
                    /\ \A k : k # "security" => /\ TextOf(Over([security |-> <<v>>], below), k) = TextOf(below, k)
                                                /\ ListOf(Over([security |-> <<v>>], below), k) = ListOf(below, k)
  BY <1>1, Layers, PartIs
<1>3. CASE security = "tls"
  <2> DEFINE below == Over(ProxyTls(ep, "tls"), TlsParams(s))
  <2>1. SecurityParams(s, security, ep) = Over([security |-> <<"tls">>], below)
    BY <1>3 DEF SecurityParams
  <2>2. TlsSaid(below, s, ep)
    BY TlsSays, ProxySays
  <2> HIDE DEF below
  <2>3. TlsSaid(Over([security |-> <<"tls">>], below), s, ep)
    BY <1>2, <2>2 DEF TlsSaid
  <2>4. TextOf(Over([security |-> <<"tls">>], below), "security") = "tls"
    BY <1>2
  <2> QED BY <1>3, <2>1, <2>3, <2>4 DEF SecuritySaid, SettingsSaid
<1>4. CASE security = "reality"
  <2> DEFINE below == RealityParams(s)
  <2>1. SecurityParams(s, security, ep) = Over([security |-> <<"reality">>], below)
    BY <1>4 DEF SecurityParams
  <2>2. RealitySaid(below, s.reality)
    BY <1>4, RealitySays DEF Allowed
  <2> HIDE DEF below
  <2>3. RealitySaid(Over([security |-> <<"reality">>], below), s.reality)
    BY <1>2, <2>2 DEF RealitySaid
  <2>4. TextOf(Over([security |-> <<"reality">>], below), "security") = "reality"
    BY <1>2
  <2> QED BY <1>4, <2>1, <2>3, <2>4 DEF SecuritySaid, SettingsSaid
<1>5. CASE security = "none"
  <2>1. SecurityParams(s, security, ep) = [security |-> <<"none">>]
    BY <1>5 DEF SecurityParams
  <2>2. TextOf([security |-> <<"none">>], "security") = "none"
    <3>1. "security" \in DOMAIN [security |-> <<"none">>] /\ [security |-> <<"none">>]["security"] = <<"none">>
      OBVIOUS
    <3> QED BY <3>1, PartIs DEF TextOf, Text
  <2> QED BY <1>5, <2>1, <2>2 DEF SecuritySaid, SettingsSaid
<1> QED BY <1>3, <1>4, <1>5 DEF Allowed

\* It is the same of parameters that say it under these keys.
LEMMA SecurityAlike ==
  ASSUME NEW a, NEW b, \A k \in SecKeys : SaysAlike(a, b, k),
         NEW s, NEW security, NEW ep, SecuritySaid(b, s, security, ep)
  PROVE  SecuritySaid(a, s, security, ep)
<1>1. \A k \in SecKeys : TextOf(a, k) = TextOf(b, k) /\ ListOf(a, k) = ListOf(b, k)
  BY ReadAlike
<1>2. TextOf(a, "security") = TextOf(b, "security")
  BY <1>1 DEF SecKeys
<1>3. TlsSaid(b, s, ep) => TlsSaid(a, s, ep)
  <2>1. "sni" \in SecKeys /\ "fp" \in SecKeys /\ "alpn" \in SecKeys
    BY DEF SecKeys
  <2> QED BY <1>1, <2>1 DEF TlsSaid
<1>4. RealitySaid(b, s.reality) => RealitySaid(a, s.reality)
  <2>1. "pbk" \in SecKeys /\ "spx" \in SecKeys /\ "pqv" \in SecKeys /\ "sid" \in SecKeys /\ "sni" \in SecKeys
    BY DEF SecKeys
  <2> QED BY <1>1, <2>1 DEF RealitySaid
<1> QED BY <1>2, <1>3, <1>4 DEF SecuritySaid, SettingsSaid

\* The value under a key that is there.
Holds(object, k, value) == k \in DOMAIN object /\ object[k] = value

\* What a stream keeps of it.
TlsKept(tls, s, ep) ==
  /\ tls.serverName = IF ep = Nothing THEN OwnTls(s).sni ELSE Or(ep.sni, ep.dest)
  /\ tls.fingerprint = IF ep = Nothing THEN OwnTls(s).fp ELSE Or(ep.fp, OwnTls(s).fp)
  /\ tls.alpn = IF ep # Nothing /\ ep.alpn # <<>> THEN ep.alpn ELSE OwnTls(s).alpn
RealityKept(kept, r) ==
  /\ kept.publicKey = r.pbk /\ kept.spiderX = r.spx /\ kept.mldsa65Verify = r.pqv
  /\ kept.shortId \in ToSet(r.shortIds)
  /\ kept.serverName \in ToSet(r.serverNames) \cup {r.serverName}
SecurityKept(stream, s, security, ep) ==
  /\ Holds(stream, "security", security)
  /\ security = "tls" => "tlsSettings" \in DOMAIN stream /\ TlsKept(stream["tlsSettings"], s, ep)
  /\ security = "reality" => "realitySettings" \in DOMAIN stream /\ RealityKept(stream["realitySettings"], s.reality)

TlsFields == {"serverName", "alpn", "fingerprint", "echConfigList", "pins"}
HasSecurity(stream, security) ==
  /\ Holds(stream, "security", security)
  /\ security = "tls" => "tlsSettings" \in DOMAIN stream /\ DOMAIN stream["tlsSettings"] = TlsFields

\* The security that a link says is the one its reader sets.
LEMMA SecurityReads ==
  ASSUME NEW stream, NEW security, HasSecurity(stream, security),
         NEW params, NEW s, NEW ep, SettingsSaid(params, s, security, ep)
  PROVE  SecurityKept(applySecurityParams(stream, params), s, security, ep)
<1> DEFINE got == SecurityRead(stream, params)
<1>1. applySecurityParams(stream, params) = Over(got, stream)
  BY DEF applySecurityParams
<1>2. "security" \notin DOMAIN got
  <2>1. \A v : "security" \notin DOMAIN [tlsSettings |-> v] /\ "security" \notin DOMAIN [realitySettings |-> v] /\ "security" \notin DOMAIN NoKeys
    BY DEF NoKeys
  <2> QED BY <2>1 DEF SecurityRead
<1>4. Holds(Over(got, stream), "security", security)
  <2> HIDE DEF got
  <2> QED BY <1>2 DEF Over, HasSecurity, Holds
<1>3. CASE security = "tls"
  <2> DEFINE tls == stream["tlsSettings"]
             now == [tls EXCEPT !.serverName = Text(params, "sni", ""), !.fingerprint = Text(params, "fp", ""),
                                !.alpn = Read(params, "alpn", <<>>)]
  <2>1. stream["security"] = "tls" /\ DOMAIN tls = TlsFields
    BY <1>3 DEF HasSecurity, Holds
  <2>2. got = [tlsSettings |-> now]
    BY <2>1 DEF SecurityRead
  <2>3. now.serverName = TextOf(params, "sni") /\ now.fingerprint = TextOf(params, "fp") /\ now.alpn = ListOf(params, "alpn")
    <3> HIDE DEF tls
    <3> QED BY <2>1 DEF TlsFields, TextOf, ListOf
  <2> HIDE DEF now
  <2>4. "tlsSettings" \in DOMAIN got /\ got["tlsSettings"] = now
    BY <2>2
  <2> HIDE DEF got
  <2>5. "tlsSettings" \in DOMAIN Over(got, stream) /\ Over(got, stream)["tlsSettings"] = now
    BY <2>4 DEF Over
  <2>6. TlsKept(now, s, ep)
    BY <1>3, <2>3 DEF SettingsSaid, TlsSaid, TlsKept
  <2> QED BY <1>1, <1>3, <1>4, <2>5, <2>6 DEF SecurityKept
<1>5. CASE security = "reality"
  <2> DEFINE now == [publicKey |-> Text(params, "pbk", ""), fingerprint |-> Text(params, "fp", "chrome"),
                     serverName |-> Text(params, "sni", ""), shortId |-> Text(params, "sid", ""),
                     spiderX |-> Text(params, "spx", ""), mldsa65Verify |-> Text(params, "pqv", "")]
  <2>1. stream["security"] = "reality"
    BY <1>5 DEF HasSecurity, Holds
  <2>2. got = [realitySettings |-> now]
    BY <2>1 DEF SecurityRead
  <2>3. /\ now.publicKey = TextOf(params, "pbk") /\ now.serverName = TextOf(params, "sni") /\ now.shortId = TextOf(params, "sid")
        /\ now.spiderX = TextOf(params, "spx") /\ now.mldsa65Verify = TextOf(params, "pqv")
    BY DEF TextOf
  <2> HIDE DEF now
  <2>4. "realitySettings" \in DOMAIN got /\ got["realitySettings"] = now
    BY <2>2
  <2> HIDE DEF got
  <2>5. "realitySettings" \in DOMAIN Over(got, stream) /\ Over(got, stream)["realitySettings"] = now
    BY <2>4 DEF Over
  <2>6. RealityKept(now, s.reality)
    BY <1>5, <2>3 DEF SettingsSaid, RealitySaid, RealityKept
  <2> QED BY <1>1, <1>4, <1>5, <2>5, <2>6 DEF SecurityKept
<1>6. CASE security \notin {"tls", "reality"}
  BY <1>1, <1>4, <1>6 DEF SecurityKept
<1> QED BY <1>3, <1>5, <1>6

-----------------------------------------------------------------------------
\* What a link says of its network, under the keys of a query.

\* The text under a key that is there.
Tells(params, k, text) == k \in DOMAIN params /\ One(params[k]) = text

PathSaid(params, s) == Tells(params, "path", s.path) /\ TextOf(params, "host") = HostOf(s)
GrpcSaid(params, s) ==
  /\ Tells(params, "serviceName", s.service) /\ TextOf(params, "authority") = s.authority
  /\ (TextOf(params, "mode") = "multi") = s.multi
XhttpSaid(params, s) ==
  PathSaid(params, s) /\ TextOf(params, "mode") = s.mode /\ TextOf(params, "x_padding_bytes") = s.pad
HttpSaid(params, s) ==
  /\ TextOf(params, "headerType") = "http" /\ "path" \in DOMAIN params /\ params["path"] = s.paths
  /\ ListOf(params, "host") = Part(Or(s.respHost, s.hdrHost))
NetworkSaid(params, s) ==
  /\ s.network \in {"ws", "httpupgrade"} => PathSaid(params, s)
  /\ s.network = "grpc" => GrpcSaid(params, s)
  /\ s.network = "xhttp" => XhttpSaid(params, s)
  /\ s.network = "tcp" /\ s.http => HttpSaid(params, s)
  /\ s.network = "tcp" /\ ~s.http => TextOf(params, "headerType") = ""

\* An object without keys says nothing.
LEMMA EmptyIs == DOMAIN NoKeys = {} /\ \A k : TextOf(NoKeys, k) = ""
BY NoKeysIs DEF TextOf, Text

\* What a link of grpc says of its transport.
LEMMA GrpcSays ==
  ASSUME NEW s, s.multi \in BOOLEAN
  PROVE  GrpcSaid(Over([serviceName |-> Part(s.service), authority |-> Part(s.authority)], Keep(s.multi, "mode", <<"multi">>)), s)
<1> DEFINE top == [serviceName |-> Part(s.service), authority |-> Part(s.authority)]
           low == Keep(s.multi, "mode", <<"multi">>)
<1>1. DOMAIN top = {"serviceName", "authority"} /\ top["serviceName"] = Part(s.service) /\ top["authority"] = Part(s.authority)
  OBVIOUS
<1>2. (TextOf(low, "mode") = "multi") = s.multi
  <2>1. CASE s.multi
    <3>1. "mode" \in DOMAIN low /\ low["mode"] = <<"multi">>
      BY <2>1 DEF Keep
    <3>2. TextOf(low, "mode") = "multi"
      BY <3>1, PartIs DEF TextOf, Text
    <3> QED BY <3>2, <2>1
  <2>2. CASE ~s.multi
    <3>1. "mode" \notin DOMAIN low
      BY <2>2 DEF Keep
    <3>2. TextOf(low, "mode") # "multi"
      BY <3>1 DEF TextOf, Text
    <3> QED BY <3>2, <2>2
  <2> QED BY <2>1, <2>2
<1> HIDE DEF top, low
<1>3. TextOf(Over(top, low), "mode") = TextOf(low, "mode")
  BY <1>1, Layers
<1>4. TextOf(Over(top, low), "authority") = s.authority
  BY <1>1, Layers, PartIs
<1>5. Tells(Over(top, low), "serviceName", s.service)
  BY <1>1, PartIs DEF Tells, Over
<1>6. GrpcSaid(Over(top, low), s)
  BY <1>2, <1>3, <1>4, <1>5 DEF GrpcSaid
<1> QED BY <1>6 DEF top, low

\* What a link of xhttp says of its transport, its extra object aside.
LEMMA XhttpSays ==
  ASSUME NEW s
  PROVE  XhttpSaid(Over([path |-> Part(s.path), host |-> Part(HostOf(s)), mode |-> Part(s.mode)],
                        Said([x_padding_bytes |-> Part(s.pad)])), s)
<1> DEFINE top == [path |-> Part(s.path), host |-> Part(HostOf(s)), mode |-> Part(s.mode)]
           pad == [x_padding_bytes |-> Part(s.pad)]
           low == Said(pad)
<1>1. DOMAIN top = {"path", "host", "mode"} /\ top["path"] = Part(s.path) /\ top["host"] = Part(HostOf(s)) /\ top["mode"] = Part(s.mode)
  OBVIOUS
<1>2. TextOf(low, "x_padding_bytes") = s.pad
  <2>1. "x_padding_bytes" \in DOMAIN pad /\ pad["x_padding_bytes"] = Part(s.pad)
    OBVIOUS
  <2> HIDE DEF pad
  <2> QED BY <2>1, SaidIs, PartIs
<1> HIDE DEF top, low
<1>3. TextOf(Over(top, low), "x_padding_bytes") = s.pad
  BY <1>1, <1>2, Layers
<1>4. TextOf(Over(top, low), "host") = HostOf(s) /\ TextOf(Over(top, low), "mode") = s.mode
  BY <1>1, Layers, PartIs
<1>5. Tells(Over(top, low), "path", s.path)
  BY <1>1, PartIs DEF Tells, Over
<1>6. XhttpSaid(Over(top, low), s)
  BY <1>3, <1>4, <1>5 DEF XhttpSaid, PathSaid
<1> QED BY <1>6 DEF top, low

\* What a link of tcp with http headers says of them.
LEMMA HttpSays ==
  ASSUME NEW s
  PROVE  HttpSaid(Over([path |-> s.paths, headerType |-> <<"http">>], Said([host |-> Part(Or(s.respHost, s.hdrHost))])), s)
<1> DEFINE top == [path |-> s.paths, headerType |-> <<"http">>]
           host == [host |-> Part(Or(s.respHost, s.hdrHost))]
           low == Said(host)
<1>1. DOMAIN top = {"path", "headerType"} /\ top["path"] = s.paths /\ top["headerType"] = <<"http">>
  OBVIOUS
<1>2. ListOf(low, "host") = Part(Or(s.respHost, s.hdrHost))
  <2>1. "host" \in DOMAIN host /\ host["host"] = Part(Or(s.respHost, s.hdrHost))
    OBVIOUS
  <2> HIDE DEF host
  <2> QED BY <2>1, SaidIs
<1> HIDE DEF top, low
<1>3. ListOf(Over(top, low), "host") = Part(Or(s.respHost, s.hdrHost))
  BY <1>1, <1>2, Layers
<1>4. TextOf(Over(top, low), "headerType") = "http"
  BY <1>1, Layers, PartIs
<1>5. "path" \in DOMAIN Over(top, low) /\ Over(top, low)["path"] = s.paths
  BY <1>1 DEF Over
<1>6. HttpSaid(Over(top, low), s)
  BY <1>3, <1>4, <1>5 DEF HttpSaid
<1> QED BY <1>6 DEF top, low

\* What a link of ws or httpupgrade says of its path and host.
LEMMA PathSays ==
  ASSUME NEW s
  PROVE  PathSaid([path |-> Part(s.path), host |-> Part(HostOf(s))], s)
<1> DEFINE top == [path |-> Part(s.path), host |-> Part(HostOf(s))]
<1>1. DOMAIN top = {"path", "host"} /\ top["path"] = Part(s.path) /\ top["host"] = Part(HostOf(s))
  OBVIOUS
<1> HIDE DEF top
<1>2. PathSaid(top, s)
  BY <1>1, PartIs DEF PathSaid, Tells, TextOf, Text
<1> QED BY <1>2 DEF top

\* What a link says of its network.
LEMMA NetworkSays ==
  ASSUME NEW s, s.http \in BOOLEAN, s.multi \in BOOLEAN
  PROVE  NetworkSaid(NetworkParams(s), s)
<1>1. CASE s.network \in {"ws", "httpupgrade"}
  <2>1. NetworkParams(s) = [path |-> Part(s.path), host |-> Part(HostOf(s))]
    BY <1>1 DEF NetworkParams
  <2>2. PathSaid(NetworkParams(s), s)
    BY <2>1, PathSays
  <2> QED BY <1>1, <2>2 DEF NetworkSaid
<1>2. CASE s.network = "grpc"
  <2>1. NetworkParams(s) = Over([serviceName |-> Part(s.service), authority |-> Part(s.authority)], Keep(s.multi, "mode", <<"multi">>))
    BY <1>2 DEF NetworkParams
  <2>2. GrpcSaid(NetworkParams(s), s)
    BY <2>1, GrpcSays
  <2> QED BY <1>2, <2>2 DEF NetworkSaid
<1>3. CASE s.network = "xhttp"
  <2>1. NetworkParams(s) = Over([path |-> Part(s.path), host |-> Part(HostOf(s)), mode |-> Part(s.mode)], Said([x_padding_bytes |-> Part(s.pad)]))
    BY <1>3 DEF NetworkParams
  <2>2. XhttpSaid(NetworkParams(s), s)
    BY <2>1, XhttpSays
  <2> QED BY <1>3, <2>2 DEF NetworkSaid
<1>4. CASE s.network = "tcp" /\ s.http
  <2>1. NetworkParams(s) = Over([path |-> s.paths, headerType |-> <<"http">>], Said([host |-> Part(Or(s.respHost, s.hdrHost))]))
    BY <1>4 DEF NetworkParams
  <2>2. HttpSaid(NetworkParams(s), s)
    BY <2>1, HttpSays
  <2> QED BY <1>4, <2>2 DEF NetworkSaid
<1>5. CASE s.network = "tcp" /\ ~s.http
  <2>1. NetworkParams(s) = NoKeys
    BY <1>5 DEF NetworkParams
  <2>2. TextOf(NetworkParams(s), "headerType") = ""
    BY <2>1, EmptyIs
  <2> QED BY <1>5, <2>2 DEF NetworkSaid
<1>6. CASE s.network \notin {"ws", "httpupgrade", "grpc", "xhttp", "tcp"}
  BY <1>6 DEF NetworkSaid
<1> QED BY <1>1, <1>2, <1>3, <1>4, <1>5, <1>6

\* It is the same of parameters that say it under these keys.
LEMMA NetworkAlike ==
  ASSUME NEW a, NEW b, \A k \in NetKeys : SaysAlike(a, b, k), NEW s, NetworkSaid(b, s)
  PROVE  NetworkSaid(a, s)
<1>1. \A k \in NetKeys : TextOf(a, k) = TextOf(b, k) /\ ListOf(a, k) = ListOf(b, k)
  BY ReadAlike
<1>2. \A k \in NetKeys : \A text : Tells(b, k, text) => Tells(a, k, text)
  BY DEF Tells, SaysAlike
<1>3. {"path", "host", "headerType", "serviceName", "authority", "mode", "x_padding_bytes"} \subseteq NetKeys
  BY DEF NetKeys
<1>4. PathSaid(b, s) => PathSaid(a, s)
  BY <1>1, <1>2, <1>3 DEF PathSaid
<1>5. GrpcSaid(b, s) => GrpcSaid(a, s)
  BY <1>1, <1>2, <1>3 DEF GrpcSaid
<1>6. XhttpSaid(b, s) => XhttpSaid(a, s)
  BY <1>1, <1>3, <1>4 DEF XhttpSaid
<1>7. HttpSaid(b, s) => HttpSaid(a, s)
  <2>1. "path" \in DOMAIN b => "path" \in DOMAIN a /\ a["path"] = b["path"]
    BY <1>3 DEF SaysAlike
  <2> QED BY <1>1, <1>3, <2>1 DEF HttpSaid
<1>8. TextOf(a, "headerType") = TextOf(b, "headerType")
  BY <1>1, <1>3
<1> QED BY <1>4, <1>5, <1>6, <1>7, <1>8 DEF NetworkSaid

-----------------------------------------------------------------------------
\* What a stream keeps of its network.

\* The value under a key, or no text.
ValueOf(object, k) == Read(object, k, "")

\* The value of a key of one object laid over another.
LEMMA ValueLayers ==
  ASSUME NEW a, NEW b, NEW k
  PROVE  /\ k \in DOMAIN a => ValueOf(Over(a, b), k) = a[k] /\ Holds(Over(a, b), k, a[k])
         /\ k \notin DOMAIN a => /\ ValueOf(Over(a, b), k) = ValueOf(b, k)
                                 /\ (k \in DOMAIN Over(a, b) <=> k \in DOMAIN b)
                                 /\ \A v : Holds(b, k, v) => Holds(Over(a, b), k, v)
<1>1. k \in DOMAIN a => k \in DOMAIN Over(a, b) /\ Over(a, b)[k] = a[k]
  BY DEF Over
<1>2. k \notin DOMAIN a => /\ (k \in DOMAIN Over(a, b) <=> k \in DOMAIN b)
                          /\ (k \in DOMAIN b => Over(a, b)[k] = b[k])
  BY DEF Over
<1>3. k \in DOMAIN a => ValueOf(Over(a, b), k) = a[k] /\ Holds(Over(a, b), k, a[k])
  BY <1>1 DEF ValueOf, Read, Holds
<1>4. ASSUME k \notin DOMAIN a PROVE ValueOf(Over(a, b), k) = ValueOf(b, k)
  BY <1>2, <1>4 DEF ValueOf, Read
<1>5. ASSUME k \notin DOMAIN a, NEW v, Holds(b, k, v) PROVE Holds(Over(a, b), k, v)
  BY <1>2, <1>5 DEF Holds
<1> QED BY <1>2, <1>3, <1>4, <1>5

\* An object of one key, if that key is kept at all.
LEMMA KeepIs ==
  \A k, v : /\ \A c : DOMAIN Keep(c, k, v) \subseteq {k}
            /\ DOMAIN Keep(TRUE, k, v) = {k} /\ Keep(TRUE, k, v)[k] = v
BY DEF Keep

ExtraKeys == XhttpKeys \cup {"headers"}

\* What the other fields of xhttp say.
ExtraSaid(o, s) ==
  /\ s.pad # "" => Tells(o, "xPaddingBytes", s.pad)
  /\ TextOf(o, "seqKey") = s.seqKey /\ ("xPaddingObfsMode" \in DOMAIN o) = s.obfs

\* What the extra object of xhttp says.
LEMMA ExtraSays ==
  ASSUME NEW s, s.obfs \in BOOLEAN
  PROVE  DOMAIN buildXhttpExtra(s) \subseteq ExtraKeys /\ ExtraSaid(buildXhttpExtra(s), s)
<1> DEFINE obfs == IF s.obfs THEN <<"true">> ELSE <<>>
           key == IF s.obfs THEN Part(s.obfsKey) ELSE <<>>
           o == [xPaddingBytes |-> Part(s.pad), xPaddingObfsMode |-> obfs, xPaddingKey |-> key,
                 seqKey |-> Part(s.seqKey), headers |-> Part(s.header)]
<1>1. buildXhttpExtra(s) = Said(o)
  BY DEF buildXhttpExtra
<1>2. obfs # <<>> <=> s.obfs
  <2>1. <<"true">> # <<>>
    OBVIOUS
  <2> QED BY <2>1
<1> HIDE DEF obfs, key
<1>3. /\ DOMAIN o = ExtraKeys /\ o["xPaddingBytes"] = Part(s.pad) /\ o["xPaddingObfsMode"] = obfs
      /\ o["seqKey"] = Part(s.seqKey)
  BY DEF ExtraKeys, XhttpKeys
<1>4. {"xPaddingBytes", "xPaddingObfsMode", "seqKey"} \subseteq ExtraKeys
  BY DEF ExtraKeys, XhttpKeys
<1> HIDE DEF o
<1>5. \A k \in DOMAIN o : /\ k \in DOMAIN Said(o) <=> o[k] # <<>>
                          /\ k \in DOMAIN Said(o) => Said(o)[k] = o[k]
  BY DEF Said
<1>10. DOMAIN Said(o) \subseteq ExtraKeys
  BY <1>3 DEF Said
<1>6. ("xPaddingObfsMode" \in DOMAIN Said(o)) = s.obfs
  <2>1. "xPaddingObfsMode" \in DOMAIN Said(o) <=> o["xPaddingObfsMode"] # <<>>
    BY <1>3, <1>4, <1>5
  <2> QED BY <1>2, <1>3, <2>1
<1>7. TextOf(Said(o), "seqKey") = s.seqKey
  BY <1>3, <1>4, SaidIs, PartIs
<1>8. ASSUME s.pad # "" PROVE Tells(Said(o), "xPaddingBytes", s.pad)
  <2>1. Part(s.pad) # <<>>
    BY <1>8, PartSaid
  <2>2. "xPaddingBytes" \in DOMAIN Said(o) /\ Said(o)["xPaddingBytes"] = Part(s.pad)
    BY <1>3, <1>4, <1>5, <2>1
  <2> QED BY <2>2, PartIs DEF Tells
<1>9. ExtraSaid(Said(o), s)
  BY <1>6, <1>7, <1>8 DEF ExtraSaid
<1> QED BY <1>1, <1>9, <1>10

\* What a stream keeps of xhttp; the mode is left out where the parser overlooks it.
XhttpKept(x, s, moded) ==
  /\ "xmux" \notin DOMAIN x /\ ValueOf(x, "path") = s.path /\ ValueOf(x, "host") = HostOf(s)
  /\ moded => Holds(x, "mode", s.mode)
  /\ s.pad # "" => Holds(x, "xPaddingBytes", s.pad)
  /\ ValueOf(x, "seqKey") = s.seqKey /\ ("xPaddingObfsMode" \in DOMAIN x) = s.obfs

\* The fields laid over what the parameters said.
LEMMA ExtraReads ==
  ASSUME NEW o, NEW s, ExtraSaid(o, s), NEW keys, XhttpKeys \subseteq keys, keys \subseteq ExtraKeys,
         NEW x, DOMAIN x \subseteq {"path", "host", "mode", "xPaddingBytes"},
         ValueOf(x, "path") = s.path, ValueOf(x, "host") = HostOf(s)
  PROVE  LET picked == [k \in DOMAIN o \cap keys |-> One(o[k])]
         IN  \A moded : (moded => Holds(x, "mode", s.mode)) => XhttpKept(Over(picked, x), s, moded)
<1> DEFINE picked == [k \in DOMAIN o \cap keys |-> One(o[k])]
<1> SUFFICES ASSUME NEW moded, moded => Holds(x, "mode", s.mode) PROVE XhttpKept(Over(picked, x), s, moded)
  OBVIOUS
<1>1. /\ "xPaddingBytes" \in keys /\ "seqKey" \in keys /\ "xPaddingObfsMode" \in keys
      /\ "xmux" \notin keys /\ "path" \notin keys /\ "host" \notin keys /\ "mode" \notin keys
  BY DEF XhttpKeys, ExtraKeys
<1>2. DOMAIN picked = DOMAIN o \cap keys /\ \A k \in DOMAIN picked : picked[k] = One(o[k])
  OBVIOUS
<1> HIDE DEF picked
<1>3. ValueOf(Over(picked, x), "path") = s.path /\ ValueOf(Over(picked, x), "host") = HostOf(s)
  BY <1>1, <1>2, ValueLayers
<1>4. moded => Holds(Over(picked, x), "mode", s.mode)
  BY <1>1, <1>2, ValueLayers
<1>5. "xmux" \notin DOMAIN Over(picked, x)
  BY <1>1, <1>2 DEF Over
<1>6. ASSUME s.pad # "" PROVE Holds(Over(picked, x), "xPaddingBytes", s.pad)
  <2>1. Tells(o, "xPaddingBytes", s.pad)
    BY <1>6 DEF ExtraSaid
  <2>2. "xPaddingBytes" \in DOMAIN picked /\ picked["xPaddingBytes"] = s.pad
    BY <1>1, <1>2, <2>1 DEF Tells
  <2> QED BY <2>2, ValueLayers
<1>7. ("xPaddingObfsMode" \in DOMAIN Over(picked, x)) = s.obfs
  <2>1. ("xPaddingObfsMode" \in DOMAIN o) = s.obfs
    BY DEF ExtraSaid
  <2> QED BY <1>1, <1>2, <2>1 DEF Over
<1>8. ValueOf(Over(picked, x), "seqKey") = s.seqKey
  <2>1. TextOf(o, "seqKey") = s.seqKey
    BY DEF ExtraSaid
  <2>2. CASE "seqKey" \in DOMAIN o
    <3>1. "seqKey" \in DOMAIN picked /\ picked["seqKey"] = One(o["seqKey"])
      BY <1>1, <1>2, <2>2
    <3>2. One(o["seqKey"]) = s.seqKey
      BY <2>1, <2>2 DEF TextOf, Text
    <3> QED BY <3>1, <3>2, ValueLayers
  <2>3. CASE "seqKey" \notin DOMAIN o
    <3>1. "seqKey" \notin DOMAIN Over(picked, x)
      BY <1>2, <2>3 DEF Over
    <3>2. ValueOf(Over(picked, x), "seqKey") = ""
      BY <3>1 DEF ValueOf, Read
    <3>3. TextOf(o, "seqKey") = ""
      BY <2>3 DEF TextOf, Text
    <3> QED BY <2>1, <3>2, <3>3
  <2> QED BY <2>2, <2>3
<1> QED BY <1>3, <1>4, <1>5, <1>6, <1>7, <1>8 DEF XhttpKept

HasMode(s) == s.mode # ""
IsNetwork(s) == s.http \in BOOLEAN /\ s.multi \in BOOLEAN /\ s.obfs \in BOOLEAN
XhttpFields == {"path", "host", "mode", "xPaddingBytes"}

\* What xhttp reads of the parameters and the extra fields.
LEMMA XhttpReads ==
  ASSUME NEW base, DOMAIN base = XhttpFields, NEW s, IsNetwork(s), HasMode(s),
         NEW params, DOMAIN params \cap XhttpKeys = {}, XhttpSaid(params, s)
  PROVE  XhttpKept(Xhttp(base, params, buildXhttpExtra(s)), s, TRUE)
<1> DEFINE extra == buildXhttpExtra(s)
           top == [host |-> Text(params, "host", ""), path |-> Text(params, "path", "/")]
           mode == Keep(Text(params, "mode", "") # "", "mode", Text(params, "mode", ""))
           x == Over(top, Over(mode, base))
           alias == Text(params, "x_padding_bytes", "")
           short == Keep(alias # "", "xPaddingBytes", alias)
           padded == Over(short, x)
           keys == XhttpKeys \cup {"headers"}
           picked == [k \in DOMAIN extra \cap keys |-> One(extra[k])]
           said == [k \in Nonempty(params, XhttpKeys) |-> One(params[k])]
<1>1. Xhttp(base, params, extra) = Over(said, Over(picked, padded))
  BY DEF Xhttp, applyXhttpStringFromParams
<1>2. DOMAIN said = {}
  BY DEF Nonempty
<1>3. DOMAIN top = {"host", "path"} /\ top["host"] = TextOf(params, "host") /\ top["path"] = Text(params, "path", "/")
  BY DEF TextOf
<1>4. top["host"] = HostOf(s) /\ top["path"] = s.path
  BY <1>3 DEF XhttpSaid, PathSaid, Tells, Text
<1>5. DOMAIN mode = {"mode"} /\ mode["mode"] = s.mode
  <2>1. Text(params, "mode", "") = s.mode
    BY DEF XhttpSaid, TextOf
  <2>2. mode = Keep(TRUE, "mode", s.mode)
    BY <2>1 DEF HasMode
  <2>3. DOMAIN Keep(TRUE, "mode", s.mode) = {"mode"} /\ Keep(TRUE, "mode", s.mode)["mode"] = s.mode
    BY KeepIs
  <2> HIDE DEF mode
  <2> QED BY <2>2, <2>3
<1>6. DOMAIN short \subseteq {"xPaddingBytes"}
  BY KeepIs
<1>7. ExtraSaid(extra, s)
  BY ExtraSays DEF IsNetwork
<1> HIDE DEF said, top, mode, short, extra
<1>8. DOMAIN x = XhttpFields
  BY <1>3, <1>5 DEF Over, XhttpFields
<1>9. ValueOf(x, "path") = s.path /\ ValueOf(x, "host") = HostOf(s)
  BY <1>3, <1>4, ValueLayers
<1>10. Holds(x, "mode", s.mode)
  <2>1. Holds(Over(mode, base), "mode", s.mode)
    BY <1>5, ValueLayers
  <2> QED BY <1>3, <2>1, ValueLayers
<1> HIDE DEF x
<1>11. DOMAIN padded \subseteq XhttpFields
  BY <1>6, <1>8 DEF Over, XhttpFields
<1>12. /\ ValueOf(padded, "path") = s.path /\ ValueOf(padded, "host") = HostOf(s) /\ Holds(padded, "mode", s.mode)
  <2>1. "path" \notin DOMAIN short /\ "host" \notin DOMAIN short /\ "mode" \notin DOMAIN short
    BY <1>6
  <2>2. ValueOf(padded, "path") = s.path /\ ValueOf(padded, "host") = HostOf(s)
    BY <1>9, <2>1, ValueLayers
  <2>3. Holds(padded, "mode", s.mode)
    BY <1>10, <2>1, ValueLayers
  <2> QED BY <2>2, <2>3
<1> HIDE DEF padded
<1>13. XhttpKept(Over(picked, padded), s, TRUE)
  <2>1. XhttpKeys \subseteq keys /\ keys \subseteq ExtraKeys
    BY DEF ExtraKeys
  <2>2. DOMAIN padded \subseteq {"path", "host", "mode", "xPaddingBytes"}
    BY <1>11 DEF XhttpFields
  <2> HIDE DEF keys
  <2> QED BY <1>7, <1>12, <2>1, <2>2, ExtraReads
<1> HIDE DEF picked
<1>14. ASSUME NEW y, XhttpKept(y, s, TRUE) PROVE XhttpKept(Over(said, y), s, TRUE)
  <2>1. \A k : ValueOf(Over(said, y), k) = ValueOf(y, k) /\ (k \in DOMAIN Over(said, y) <=> k \in DOMAIN y)
    BY <1>2, ValueLayers
  <2>2. \A k, v : Holds(y, k, v) => Holds(Over(said, y), k, v)
    BY <1>2, ValueLayers
  <2> QED BY <1>14, <2>1, <2>2 DEF XhttpKept
<1> QED BY <1>1, <1>13, <1>14 DEF extra

Http(s) == [header |-> "http", path |-> s.paths, host |-> Part(Or(s.respHost, s.hdrHost))]
NoHttp == [header |-> "none", path |-> <<>>, host |-> <<>>]
Grpc(s) == [serviceName |-> s.service, authority |-> s.authority, multiMode |-> s.multi]
Path(s) == [path |-> s.path, host |-> HostOf(s)]

TransportKept(stream, s, moded) ==
  /\ Holds(stream, "network", s.network)
  /\ s.network = "ws" => Holds(stream, "wsSettings", Path(s))
  /\ s.network = "httpupgrade" => Holds(stream, "httpupgradeSettings", Path(s))
  /\ s.network = "grpc" => Holds(stream, "grpcSettings", Grpc(s))
  /\ s.network = "tcp" => Holds(stream, "tcpSettings", IF s.http THEN Http(s) ELSE NoHttp)
  /\ IF s.network = "xhttp" THEN "xhttpSettings" \in DOMAIN stream /\ XhttpKept(stream["xhttpSettings"], s, moded)
     ELSE "xhttpSettings" \notin DOMAIN stream

\* A stream that was built for a network.
BuiltOn(stream, network) ==
  /\ Holds(stream, "network", network)
  /\ network = "tcp" => Holds(stream, "tcpSettings", NoHttp)
  /\ IF network = "xhttp" THEN "xhttpSettings" \in DOMAIN stream /\ DOMAIN stream["xhttpSettings"] = XhttpFields
     ELSE "xhttpSettings" \notin DOMAIN stream

\* The settings of a network that a new stream has.
LEMMA SlicesAre ==
  ASSUME NEW network
  PROVE  /\ {"network", "security", "tlsSettings", "realitySettings"} \cap DOMAIN NoSlice(network) = {}
         /\ network = "tcp" => Holds(NoSlice(network), "tcpSettings", NoHttp)
         /\ network = "xhttp" => "xhttpSettings" \in DOMAIN NoSlice(network) /\ DOMAIN NoSlice(network)["xhttpSettings"] = XhttpFields
         /\ network # "xhttp" => "xhttpSettings" \notin DOMAIN NoSlice(network)
<1>1. \A v : /\ DOMAIN [kcpSettings |-> v] = {"kcpSettings"} /\ DOMAIN [wsSettings |-> v] = {"wsSettings"}
             /\ DOMAIN [grpcSettings |-> v] = {"grpcSettings"} /\ DOMAIN [httpupgradeSettings |-> v] = {"httpupgradeSettings"}
             /\ DOMAIN [xhttpSettings |-> v] = {"xhttpSettings"} /\ [xhttpSettings |-> v]["xhttpSettings"] = v
             /\ DOMAIN [tcpSettings |-> v] = {"tcpSettings"} /\ [tcpSettings |-> v]["tcpSettings"] = v
  OBVIOUS
<1>2. CASE network = "tcp"
  <2>1. NoSlice(network) = [tcpSettings |-> NoHttp]
    BY <1>2 DEF NoSlice, NoHttp
  <2> QED BY <1>1, <1>2, <2>1 DEF Holds
<1>3. CASE network = "xhttp"
  <2> DEFINE x == [path |-> "/", host |-> "", mode |-> "auto", xPaddingBytes |-> "100-1000"]
  <2>1. NoSlice(network) = [xhttpSettings |-> x]
    BY <1>3 DEF NoSlice
  <2>2. DOMAIN x = XhttpFields
    BY DEF XhttpFields
  <2> HIDE DEF x
  <2> QED BY <1>1, <1>3, <2>1, <2>2
<1>4. CASE network = "kcp"
  <2>1. NoSlice(network) = [kcpSettings |-> [mtu |-> 1350]]
    BY <1>4 DEF NoSlice
  <2> QED BY <1>1, <1>4, <2>1
<1>5. CASE network = "ws"
  <2> DEFINE path == [path |-> "/", host |-> ""]
  <2>1. NoSlice(network) = [wsSettings |-> path]
    BY <1>5 DEF NoSlice
  <2> HIDE DEF path
  <2> QED BY <1>1, <1>5, <2>1
<1>8. CASE network = "httpupgrade"
  <2> DEFINE path == [path |-> "/", host |-> ""]
  <2>1. NoSlice(network) = [httpupgradeSettings |-> path]
    BY <1>8 DEF NoSlice
  <2> HIDE DEF path
  <2> QED BY <1>1, <1>8, <2>1
<1>6. CASE network = "grpc"
  <2> DEFINE grpc == [serviceName |-> "", authority |-> "", multiMode |-> FALSE]
  <2>1. NoSlice(network) = [grpcSettings |-> grpc]
    BY <1>6 DEF NoSlice
  <2> HIDE DEF grpc
  <2> QED BY <1>1, <1>6, <2>1
<1>7. CASE /\ network # "tcp" /\ network # "xhttp" /\ network # "kcp" /\ network # "ws"
           /\ network # "httpupgrade" /\ network # "grpc"
  <2>1. NoSlice(network) = [tcpSettings |-> NoHttp]
    BY <1>7 DEF NoSlice, NoHttp
  <2> QED BY <1>1, <1>7, <2>1
<1> QED BY <1>2, <1>3, <1>4, <1>5, <1>6, <1>7, <1>8

\* A new stream has its network and the settings of its security.
LEMMA BuiltHas ==
  ASSUME NEW network, NEW security
  PROVE  BuiltOn(buildStream(network, security), network) /\ HasSecurity(buildStream(network, security), security)
<1> DEFINE top == [network |-> network, security |-> security]
           slice == NoSlice(network)
           secured == NoSecurity(security)
           low == Over(slice, secured)
           built == Over(top, low)
<1>1. buildStream(network, security) = built
  BY DEF buildStream
<1>2. DOMAIN top = {"network", "security"} /\ top["network"] = network /\ top["security"] = security
  OBVIOUS
<1>3. /\ DOMAIN secured \subseteq {"tlsSettings", "realitySettings"}
      /\ security = "tls" => "tlsSettings" \in DOMAIN secured /\ DOMAIN secured["tlsSettings"] = TlsFields
  <2> DEFINE tls == [serverName |-> "", alpn |-> <<>>, fingerprint |-> "", echConfigList |-> "", pins |-> <<>>]
  <2>1. DOMAIN tls = TlsFields
    BY DEF TlsFields
  <2>2. security = "tls" => secured = [tlsSettings |-> tls]
    BY DEF NoSecurity
  <2> HIDE DEF tls
  <2>3. security = "tls" \/ secured = [realitySettings |-> NoReality] \/ secured = NoKeys
    BY DEF NoSecurity
  <2>4. DOMAIN [realitySettings |-> NoReality] = {"realitySettings"} /\ DOMAIN [tlsSettings |-> tls] = {"tlsSettings"}
        /\ [tlsSettings |-> tls]["tlsSettings"] = tls
    OBVIOUS
  <2> HIDE DEF secured
  <2> QED BY <2>1, <2>2, <2>3, <2>4, NoKeysIs
<1> HIDE DEF top, slice, secured
<1>4. Holds(built, "network", network) /\ Holds(built, "security", security)
  BY <1>2 DEF Over, Holds
<1>5. \A k : k \notin {"network", "security"} => /\ (k \in DOMAIN built <=> k \in DOMAIN low)
                                               /\ (k \in DOMAIN low => built[k] = low[k])
  BY <1>2 DEF Over
<1>6. \A k : /\ (k \in DOMAIN low <=> k \in DOMAIN slice \/ k \in DOMAIN secured)
             /\ (k \in DOMAIN slice => low[k] = slice[k])
             /\ (k \in DOMAIN secured /\ k \notin DOMAIN slice => low[k] = secured[k])
  BY DEF Over
<1> HIDE DEF low, built
<1>7. BuiltOn(built, network)
  <2>1. network = "tcp" => Holds(built, "tcpSettings", NoHttp)
    BY <1>5, <1>6, SlicesAre DEF slice, Holds
  <2>2. network = "xhttp" => "xhttpSettings" \in DOMAIN built /\ DOMAIN built["xhttpSettings"] = XhttpFields
    BY <1>5, <1>6, SlicesAre DEF slice
  <2>3. network # "xhttp" => "xhttpSettings" \notin DOMAIN built
    BY <1>3, <1>5, <1>6, SlicesAre DEF slice
  <2> QED BY <1>4, <2>1, <2>2, <2>3 DEF BuiltOn
<1>8. HasSecurity(built, security)
  <2>1. ASSUME security = "tls" PROVE "tlsSettings" \in DOMAIN built /\ DOMAIN built["tlsSettings"] = TlsFields
    <3>1. "tlsSettings" \notin DOMAIN slice
      BY SlicesAre DEF slice
    <3> QED BY <1>3, <1>5, <1>6, <2>1, <3>1
  <2> QED BY <1>4, <2>1 DEF HasSecurity
<1> QED BY <1>1, <1>7, <1>8

\* The slice a link's parameters amount to.
LEMMA SliceReads ==
  ASSUME NEW stream, NEW s, IsNetwork(s), BuiltOn(stream, s.network), NEW params, NetworkSaid(params, s), NEW extra
  PROVE  LET got == TransportParams(stream, params, extra)
         IN  /\ s.network = "ws" => got = [wsSettings |-> Path(s)]
             /\ s.network = "httpupgrade" => got = [httpupgradeSettings |-> Path(s)]
             /\ s.network = "grpc" => got = [grpcSettings |-> Grpc(s)]
             /\ s.network = "xhttp" => got = [xhttpSettings |-> Xhttp(stream["xhttpSettings"], params, extra)]
             /\ s.network = "tcp" /\ s.http => got = [tcpSettings |-> Http(s)]
             /\ s.network = "tcp" /\ ~s.http /\ TextOf(params, "type") # "http" => got = NoKeys
             /\ s.network \notin {"ws", "httpupgrade", "grpc", "xhttp", "tcp"} => got = NoKeys
<1> DEFINE got == TransportParams(stream, params, extra)
<1>1. stream["network"] = s.network
  BY DEF BuiltOn, Holds
<1>2. PathSaid(params, s) => [path |-> Text(params, "path", "/"), host |-> Text(params, "host", "")] = Path(s)
  <2>1. PathSaid(params, s) => Text(params, "path", "/") = s.path /\ Text(params, "host", "") = HostOf(s)
    BY DEF PathSaid, Tells, Text, TextOf
  <2> QED BY <2>1 DEF Path
<1>3. ASSUME s.network = "ws" PROVE got = [wsSettings |-> Path(s)]
  <2>1. got = [wsSettings |-> [path |-> Text(params, "path", "/"), host |-> Text(params, "host", "")]]
    BY <1>1, <1>3 DEF TransportParams
  <2> QED BY <1>2, <1>3, <2>1 DEF NetworkSaid
<1>4. ASSUME s.network = "httpupgrade" PROVE got = [httpupgradeSettings |-> Path(s)]
  <2>1. got = [httpupgradeSettings |-> [path |-> Text(params, "path", "/"), host |-> Text(params, "host", "")]]
    BY <1>1, <1>4 DEF TransportParams
  <2> QED BY <1>2, <1>4, <2>1 DEF NetworkSaid
<1>5. ASSUME s.network = "grpc" PROVE got = [grpcSettings |-> Grpc(s)]
  <2>1. GrpcSaid(params, s)
    BY <1>5 DEF NetworkSaid
  <2>2. got = [grpcSettings |-> [serviceName |-> Text(params, "serviceName", Text(params, "path", "")),
                                 authority |-> Text(params, "authority", ""), multiMode |-> Text(params, "mode", "") = "multi"]]
    BY <1>1, <1>5 DEF TransportParams
  <2>3. /\ Text(params, "serviceName", Text(params, "path", "")) = s.service
        /\ Text(params, "authority", "") = s.authority /\ (Text(params, "mode", "") = "multi") = s.multi
    <3>1. \A d : Text(params, "serviceName", d) = s.service
      BY <2>1 DEF GrpcSaid, Tells, Text
    <3> QED BY <2>1, <3>1 DEF GrpcSaid, TextOf
  <2> QED BY <2>2, <2>3 DEF Grpc
<1>6. ASSUME s.network = "xhttp" PROVE got = [xhttpSettings |-> Xhttp(stream["xhttpSettings"], params, extra)]
  BY <1>1, <1>6 DEF TransportParams
<1>7. ASSUME s.network = "tcp", s.http PROVE got = [tcpSettings |-> Http(s)]
  <2>1. HttpSaid(params, s)
    BY <1>7 DEF NetworkSaid
  <2>2. Text(params, "headerType", "") = "http"
    BY <2>1 DEF HttpSaid, TextOf
  <2>3. got = [tcpSettings |-> [header |-> "http", path |-> Read(params, "path", <<"/">>), host |-> Read(params, "host", <<>>)]]
    BY <1>1, <1>7, <2>2 DEF TransportParams
  <2>4. Read(params, "path", <<"/">>) = s.paths /\ Read(params, "host", <<>>) = Part(Or(s.respHost, s.hdrHost))
    <3>1. \A d : Read(params, "path", d) = s.paths
      BY <2>1 DEF HttpSaid, Read
    <3> QED BY <2>1, <3>1 DEF HttpSaid, ListOf
  <2> QED BY <2>3, <2>4 DEF Http
<1>8. ASSUME s.network = "tcp", ~s.http, TextOf(params, "type") # "http" PROVE got = NoKeys
  <2>1. Text(params, "headerType", "") # "http" /\ Text(params, "type", "") # "http"
    BY <1>8 DEF NetworkSaid, TextOf
  <2> QED BY <1>1, <1>8, <2>1 DEF TransportParams
<1>9. ASSUME s.network \notin {"ws", "httpupgrade", "grpc", "xhttp", "tcp"} PROVE got = NoKeys
  <2>1. /\ stream["network"] # "ws" /\ stream["network"] # "httpupgrade" /\ stream["network"] # "grpc"
        /\ stream["network"] # "xhttp" /\ stream["network"] # "tcp"
    BY <1>1, <1>9
  <2> QED BY <2>1 DEF TransportParams
<1> QED BY <1>3, <1>4, <1>5, <1>6, <1>7, <1>8, <1>9

\* What was laid over a stream of the network keeps it, and the security.
LEMMA SliceIsKept ==
  ASSUME NEW stream, NEW s, IsNetwork(s), BuiltOn(stream, s.network), NEW got, NEW moded,
         s.network = "ws" => got = [wsSettings |-> Path(s)],
         s.network = "httpupgrade" => got = [httpupgradeSettings |-> Path(s)],
         s.network = "grpc" => got = [grpcSettings |-> Grpc(s)],
         s.network = "xhttp" => \E x : got = [xhttpSettings |-> x] /\ XhttpKept(x, s, moded),
         s.network = "tcp" /\ s.http => got = [tcpSettings |-> Http(s)],
         s.network = "tcp" /\ ~s.http => got = NoKeys,
         s.network \notin {"ws", "httpupgrade", "grpc", "xhttp", "tcp"} => got = NoKeys
  PROVE  /\ TransportKept(Over(got, stream), s, moded)
         /\ \A security : HasSecurity(stream, security) => HasSecurity(Over(got, stream), security)
<1>1. \A v : /\ DOMAIN [wsSettings |-> v] = {"wsSettings"} /\ [wsSettings |-> v]["wsSettings"] = v
             /\ DOMAIN [httpupgradeSettings |-> v] = {"httpupgradeSettings"} /\ [httpupgradeSettings |-> v]["httpupgradeSettings"] = v
             /\ DOMAIN [grpcSettings |-> v] = {"grpcSettings"} /\ [grpcSettings |-> v]["grpcSettings"] = v
             /\ DOMAIN [xhttpSettings |-> v] = {"xhttpSettings"} /\ [xhttpSettings |-> v]["xhttpSettings"] = v
             /\ DOMAIN [tcpSettings |-> v] = {"tcpSettings"} /\ [tcpSettings |-> v]["tcpSettings"] = v
  OBVIOUS
<1>2. DOMAIN got \subseteq {"wsSettings", "httpupgradeSettings", "grpcSettings", "xhttpSettings", "tcpSettings"}
  BY <1>1, NoKeysIs DEF IsNetwork
<1>3. ASSUME NEW security, HasSecurity(stream, security) PROVE HasSecurity(Over(got, stream), security)
  <2>1. "security" \notin DOMAIN got /\ "tlsSettings" \notin DOMAIN got
    BY <1>2
  <2> QED BY <1>3, <2>1 DEF HasSecurity, Holds, Over
<1>4. Holds(Over(got, stream), "network", s.network)
  <2>1. "network" \notin DOMAIN got
    BY <1>2
  <2> QED BY <2>1 DEF BuiltOn, Holds, Over
<1>5. \A k, v : k \in DOMAIN got /\ got[k] = v => Holds(Over(got, stream), k, v)
  BY DEF Over, Holds
<1>6. s.network = "ws" => Holds(Over(got, stream), "wsSettings", Path(s))
  BY <1>1, <1>5
<1>7. s.network = "httpupgrade" => Holds(Over(got, stream), "httpupgradeSettings", Path(s))
  BY <1>1, <1>5
<1>8. s.network = "grpc" => Holds(Over(got, stream), "grpcSettings", Grpc(s))
  BY <1>1, <1>5
<1>9. s.network = "tcp" => Holds(Over(got, stream), "tcpSettings", IF s.http THEN Http(s) ELSE NoHttp)
  <2>1. CASE s.network = "tcp" /\ s.http
    BY <1>1, <1>5, <2>1
  <2>2. CASE s.network = "tcp" /\ ~s.http
    <3>1. DOMAIN got = {}
      BY <2>2, NoKeysIs
    <3>2. Holds(stream, "tcpSettings", NoHttp)
      BY <2>2 DEF BuiltOn
    <3> QED BY <2>2, <3>1, <3>2 DEF Holds, Over
  <2> QED BY <2>1, <2>2 DEF IsNetwork
<1>10. ASSUME s.network = "xhttp"
       PROVE  "xhttpSettings" \in DOMAIN Over(got, stream) /\ XhttpKept(Over(got, stream)["xhttpSettings"], s, moded)
  <2>1. PICK x : got = [xhttpSettings |-> x] /\ XhttpKept(x, s, moded)
    BY <1>10
  <2>2. Holds(Over(got, stream), "xhttpSettings", x)
    BY <1>1, <1>5, <2>1
  <2> QED BY <2>1, <2>2 DEF Holds
<1>11. ASSUME s.network # "xhttp" PROVE "xhttpSettings" \notin DOMAIN Over(got, stream)
  <2>1. "xhttpSettings" \notin DOMAIN got
    BY <1>1, <1>11, NoKeysIs DEF IsNetwork
  <2>2. "xhttpSettings" \notin DOMAIN stream
    BY <1>11 DEF BuiltOn
  <2> QED BY <2>1, <2>2 DEF Over
<1> QED BY <1>3, <1>4, <1>6, <1>7, <1>8, <1>9, <1>10, <1>11 DEF TransportKept

\* What the parameters of a link say of its network, its stream keeps.
LEMMA TransportReads ==
  ASSUME NEW s, IsNetwork(s), s.network = "xhttp" => HasMode(s), NEW stream, BuiltOn(stream, s.network),
         NEW params, NetworkSaid(params, s), DOMAIN params \cap XhttpKeys = {}, Tells(params, "type", s.network)
  PROVE  LET kept == applyTransportParams(stream, params, Extra(s))
         IN  /\ TransportKept(kept, s, TRUE)
             /\ \A security : HasSecurity(stream, security) => HasSecurity(kept, security)
<1> DEFINE got == TransportParams(stream, params, Extra(s))
<1>1. /\ s.network = "ws" => got = [wsSettings |-> Path(s)]
      /\ s.network = "httpupgrade" => got = [httpupgradeSettings |-> Path(s)]
      /\ s.network = "grpc" => got = [grpcSettings |-> Grpc(s)]
      /\ s.network = "xhttp" => got = [xhttpSettings |-> Xhttp(stream["xhttpSettings"], params, Extra(s))]
      /\ s.network = "tcp" /\ s.http => got = [tcpSettings |-> Http(s)]
      /\ s.network = "tcp" /\ ~s.http /\ TextOf(params, "type") # "http" => got = NoKeys
      /\ s.network \notin {"ws", "httpupgrade", "grpc", "xhttp", "tcp"} => got = NoKeys
  BY SliceReads
<1>2. TextOf(params, "type") = s.network
  BY DEF Tells, TextOf, Text
<1>3. ASSUME s.network = "xhttp" PROVE \E x : got = [xhttpSettings |-> x] /\ XhttpKept(x, s, TRUE)
  <2>1. Extra(s) = buildXhttpExtra(s)
    BY <1>3 DEF Extra
  <2>2. DOMAIN stream["xhttpSettings"] = XhttpFields
    BY <1>3 DEF BuiltOn
  <2>3. XhttpSaid(params, s) /\ HasMode(s)
    BY <1>3 DEF NetworkSaid
  <2>4. XhttpKept(Xhttp(stream["xhttpSettings"], params, buildXhttpExtra(s)), s, TRUE)
    <3>1. \A base : DOMAIN base = XhttpFields => XhttpKept(Xhttp(base, params, buildXhttpExtra(s)), s, TRUE)
      BY <2>3, XhttpReads
    <3> QED BY <2>2, <3>1
  <2> QED BY <1>1, <1>3, <2>1, <2>4
<1>4. s.network = "tcp" /\ ~s.http => got = NoKeys
  BY <1>1, <1>2
<1> HIDE DEF got
<1>5. /\ TransportKept(Over(got, stream), s, TRUE)
      /\ \A security : HasSecurity(stream, security) => HasSecurity(Over(got, stream), security)
  BY <1>1, <1>3, <1>4, SliceIsKept
<1>6. applyTransportParams(stream, params, Extra(s)) = Over(got, stream)
  BY DEF applyTransportParams, got
<1> QED BY <1>5, <1>6

\* What is laid over a stream beside these settings leaves them.
NetSlices == {"network", "wsSettings", "httpupgradeSettings", "grpcSettings", "tcpSettings", "xhttpSettings"}
SecuritySlices == {"security", "tlsSettings", "realitySettings"}

\* Transport settings stay under keys that are not theirs.
LEMMA TransportStays ==
  ASSUME NEW a, NEW b, NEW s, NEW moded, DOMAIN a \cap NetSlices = {}, TransportKept(b, s, moded)
  PROVE  TransportKept(Over(a, b), s, moded)
<1>1. \A k \in NetSlices : /\ (k \in DOMAIN Over(a, b) <=> k \in DOMAIN b)
                           /\ (k \in DOMAIN b => Over(a, b)[k] = b[k])
  BY DEF Over
<1>2. \A k \in NetSlices : \A v : Holds(b, k, v) => Holds(Over(a, b), k, v)
  BY <1>1 DEF Holds
<1>3. {"network", "wsSettings", "httpupgradeSettings", "grpcSettings", "tcpSettings", "xhttpSettings"} \subseteq NetSlices
  BY DEF NetSlices
<1>4. Holds(Over(a, b), "network", s.network)
  BY <1>2, <1>3 DEF TransportKept
<1>5. s.network = "ws" => Holds(Over(a, b), "wsSettings", Path(s))
  BY <1>2, <1>3 DEF TransportKept
<1>6. s.network = "httpupgrade" => Holds(Over(a, b), "httpupgradeSettings", Path(s))
  BY <1>2, <1>3 DEF TransportKept
<1>7. s.network = "grpc" => Holds(Over(a, b), "grpcSettings", Grpc(s))
  BY <1>2, <1>3 DEF TransportKept
<1>8. s.network = "tcp" => Holds(Over(a, b), "tcpSettings", IF s.http THEN Http(s) ELSE NoHttp)
  BY <1>2, <1>3 DEF TransportKept
<1>9. IF s.network = "xhttp" THEN "xhttpSettings" \in DOMAIN Over(a, b) /\ XhttpKept(Over(a, b)["xhttpSettings"], s, moded)
      ELSE "xhttpSettings" \notin DOMAIN Over(a, b)
  BY <1>1, <1>3 DEF TransportKept
<1> QED BY <1>4, <1>5, <1>6, <1>7, <1>8, <1>9 DEF TransportKept

\* Security settings stay under keys that are not theirs.
LEMMA SecurityStays ==
  ASSUME NEW a, NEW b, NEW s, NEW security, NEW ep, DOMAIN a \cap SecuritySlices = {}, SecurityKept(b, s, security, ep)
  PROVE  SecurityKept(Over(a, b), s, security, ep)
<1>1. \A k \in SecuritySlices : /\ (k \in DOMAIN Over(a, b) <=> k \in DOMAIN b)
                                /\ (k \in DOMAIN b => Over(a, b)[k] = b[k])
  BY DEF Over
<1>3. {"security", "tlsSettings", "realitySettings"} \subseteq SecuritySlices
  BY DEF SecuritySlices
<1> QED BY <1>1, <1>3 DEF SecurityKept, Holds

\* The settings of security, and the final mask, are none of the network's.
LEMMA ReadApart ==
  ASSUME NEW stream, NEW params
  PROVE  /\ DOMAIN SecurityRead(stream, params) \cap NetSlices = {}
         /\ \A v : LET mask == Keep("fm" \in DOMAIN params, "finalmask", v)
                   IN  DOMAIN mask \cap NetSlices = {} /\ DOMAIN mask \cap SecuritySlices = {}
<1>1. \A v : DOMAIN [tlsSettings |-> v] \cap NetSlices = {} /\ DOMAIN [realitySettings |-> v] \cap NetSlices = {}
  BY DEF NetSlices
<1>2. DOMAIN SecurityRead(stream, params) \cap NetSlices = {}
  BY <1>1, NoKeysIs DEF SecurityRead
<1>3. "finalmask" \notin NetSlices /\ "finalmask" \notin SecuritySlices
  BY DEF NetSlices, SecuritySlices
<1> QED BY <1>2, <1>3, KeepIs

\* The stream of a link keeps what its parameters say.
LEMMA ParsedKeeps ==
  ASSUME NEW s, IsNetwork(s), s.network = "xhttp" => HasMode(s), NEW link, link.extra = Extra(s),
         NetworkSaid(link.params, s), DOMAIN link.params \cap XhttpKeys = {}, Tells(link.params, "type", s.network),
         NEW security, NEW ep, SecuritySaid(link.params, s, security, ep)
  PROVE  TransportKept(ParsedStream(link, security), s, TRUE) /\ SecurityKept(ParsedStream(link, security), s, security, ep)
<1> DEFINE built == buildStream(s.network, security)
           moved == applyTransportParams(built, link.params, Extra(s))
           read1 == SecurityRead(moved, link.params)
           secured == applySecurityParams(moved, link.params)
           mask == Keep("fm" \in DOMAIN link.params, "finalmask", Text(link.params, "fm", ""))
<1>1. ParsedStream(link, security) = Over(mask, secured)
  <2>1. Text(link.params, "type", "tcp") = s.network
    BY DEF Tells, Text
  <2> QED BY <2>1 DEF ParsedStream, applyFinalMaskParam
<1>2. BuiltOn(built, s.network) /\ HasSecurity(built, security)
  BY BuiltHas
<1>3. secured = Over(read1, moved)
  BY DEF applySecurityParams
<1> HIDE DEF built
<1>4. TransportKept(moved, s, TRUE) /\ HasSecurity(moved, security)
  BY <1>2, TransportReads
<1>5. DOMAIN mask \cap NetSlices = {} /\ DOMAIN mask \cap SecuritySlices = {}
  BY ReadApart
<1>6. DOMAIN read1 \cap NetSlices = {}
  BY ReadApart
<1> HIDE DEF moved, mask
<1>7. SecurityKept(secured, s, security, ep)
  BY <1>4, SecurityReads DEF SecuritySaid
<1> HIDE DEF read1
<1>8. TransportKept(Over(read1, moved), s, TRUE)
  BY <1>4, <1>6, TransportStays
<1> HIDE DEF secured
<1>9. TransportKept(Over(mask, secured), s, TRUE)
  BY <1>3, <1>5, <1>8, TransportStays
<1>10. SecurityKept(Over(mask, secured), s, security, ep)
  BY <1>5, <1>7, SecurityStays
<1> QED BY <1>1, <1>9, <1>10

-----------------------------------------------------------------------------
\* The links of vless and trojan, whose parameters are a query.

\* What the parameters of a link say of the inbound.
QuerySaid(params, s, security, ep) ==
  /\ NetworkSaid(params, s) /\ DOMAIN params \cap XhttpKeys = {} /\ Tells(params, "type", s.network)
  /\ SecuritySaid(params, s, security, ep)

\* What the query of a link says, once its parts are laid over each other.
LEMMA QuerySays ==
  ASSUME NEW s, IsNetwork(s), NEW security, Allowed(s, security), NEW ep, ep = Nothing \/ IsProxy(ep),
         NEW top, DOMAIN top \subseteq {"type", "encryption"}, Tells(top, "type", s.network),
         NEW secured, DOMAIN secured \subseteq SecKeys \cup {"flow"},
         \A k \in SecKeys : SaysAlike(secured, SecurityParams(s, security, ep), k)
  PROVE  LET params == Over(top, Over(NetworkParams(s), Over(FinalMask(s), secured)))
         IN  QuerySaid(params, s, security, ep) /\ SaysAlike(params, secured, "flow")
<1> DEFINE net == NetworkParams(s)
           mask == FinalMask(s)
           params == Over(top, Over(net, Over(mask, secured)))
<1>1. DOMAIN net \subseteq NetKeys /\ DOMAIN mask \subseteq {"fm"}
  BY NetworkKeys, OtherKeys
<1>2. NetworkSaid(net, s)
  BY NetworkSays DEF IsNetwork
<1>3. SecuritySaid(SecurityParams(s, security, ep), s, security, ep)
  BY SecuritySays
<1>4. SecuritySaid(secured, s, security, ep)
  BY <1>3, SecurityAlike
<1>5. DOMAIN secured \cap NetKeys = {}
  BY DEF NetKeys, SecKeys
<1> HIDE DEF net, mask
<1>6. \A k : /\ k \in DOMAIN top => SaysAlike(params, top, k)
             /\ k \in NetKeys => SaysAlike(params, net, k)
             /\ k \in SecKeys \cup {"flow"} => SaysAlike(params, secured, k)
  BY <1>1, <1>5, PartsApart
<1>7. DOMAIN params \cap XhttpKeys = {}
  <2>1. DOMAIN params = DOMAIN top \cup DOMAIN net \cup DOMAIN mask \cup DOMAIN secured
    BY DEF Over
  <2>2. /\ NetKeys \cap XhttpKeys = {} /\ SecKeys \cap XhttpKeys = {}
        /\ {"type", "encryption", "fm", "flow"} \cap XhttpKeys = {}
    BY DEF NetKeys, SecKeys, XhttpKeys
  <2> HIDE DEF params
  <2> QED BY <1>1, <2>1, <2>2
<1> HIDE DEF params
<1>8. NetworkSaid(params, s)
  BY <1>2, <1>6, NetworkAlike
<1>9. SecuritySaid(params, s, security, ep)
  <2>1. \A k \in SecKeys : SaysAlike(params, secured, k)
    BY <1>6
  <2> QED BY <1>4, <2>1, SecurityAlike
<1>10. Tells(params, "type", s.network)
  BY <1>6 DEF Tells, SaysAlike
<1>11. SaysAlike(params, secured, "flow")
  BY <1>6
<1>12. QuerySaid(params, s, security, ep)
  BY <1>7, <1>8, <1>9, <1>10 DEF QuerySaid
<1> QED BY <1>11, <1>12 DEF params, net, mask

\* An inbound that runs has a network, and one that has its mode.
IsShared(s) == IsNetwork(s) /\ (s.network = "xhttp" => HasMode(s))

\* What is read of such a query has the transport and the security of the stream.
LEMMA QueryKeeps ==
  ASSUME NEW s, IsShared(s), NEW link, link.extra = Extra(s), NEW security, NEW ep, QuerySaid(link.params, s, security, ep)
  PROVE  TransportKept(ParsedStream(link, security), s, TRUE) /\ SecurityKept(ParsedStream(link, security), s, security, ep)
BY ParsedKeeps DEF QuerySaid, IsShared

\* The parameters of a trojan link.
LEMMA TrojanQuery ==
  ASSUME NEW inb, IsShared(inb.stream), NEW force, Allowed(inb.stream, Effective(inb.stream, force)),
         NEW ep, ep = Nothing \/ IsProxy(ep), NEW address, NEW port, NEW remark, NEW client
  PROVE  LET link == genTrojanLink(inb, address, port, force, remark, client, ep)
         IN  /\ QuerySaid(link.params, inb.stream, Effective(inb.stream, force), ep) /\ link.extra = Extra(inb.stream)
             /\ link.scheme = "trojan" /\ link.user = Encoded(client.password) /\ link.address = address /\ link.port = port
<1> DEFINE s == inb.stream
           security == Effective(s, force)
           top == [type |-> <<s.network>>]
           secured == SecurityParams(s, security, ep)
           params == Over(top, Over(NetworkParams(s), Over(FinalMask(s), secured)))
           link == genTrojanLink(inb, address, port, force, remark, client, ep)
<1>1. link = Link("trojan", Encoded(client.password), address, port, params, Extra(s), remark)
  BY DEF genTrojanLink
<1>2. DOMAIN top \subseteq {"type", "encryption"} /\ Tells(top, "type", s.network)
  <2>1. DOMAIN top = {"type"} /\ top["type"] = <<s.network>>
    OBVIOUS
  <2> HIDE DEF top
  <2> QED BY <2>1, PartIs DEF Tells
<1>3. DOMAIN secured \subseteq SecKeys \cup {"flow"} /\ \A k \in SecKeys : SaysAlike(secured, secured, k)
  <2>1. DOMAIN secured \subseteq SecKeys
    BY SecurityKeys
  <2> QED BY <2>1 DEF SaysAlike
<1>4. IsNetwork(s)
  BY DEF IsShared
<1> HIDE DEF top
<1>5. QuerySaid(params, s, security, ep)
  BY <1>2, <1>3, <1>4, QuerySays
<1> HIDE DEF params
<1>6. /\ link.params = params /\ link.extra = Extra(s) /\ link.scheme = "trojan" /\ link.user = Encoded(client.password)
      /\ link.address = address /\ link.port = port
  BY <1>1 DEF Link
<1> QED BY <1>5, <1>6

\* The parameters of a vless link, and its flow.
LEMMA VlessQuery ==
  ASSUME NEW inb, IsShared(inb.stream), NEW force, Allowed(inb.stream, Effective(inb.stream, force)),
         NEW ep, ep = Nothing \/ IsProxy(ep), NEW address, NEW port, NEW remark, NEW client
  PROVE  LET link == genVlessLink(inb, address, port, force, remark, client, ep)
             flow == FlowParam(inb.stream, Effective(inb.stream, force), client.flow)
         IN  /\ QuerySaid(link.params, inb.stream, Effective(inb.stream, force), ep) /\ link.extra = Extra(inb.stream)
             /\ TextOf(link.params, "flow") = TextOf(flow, "flow")
             /\ link.scheme = "vless" /\ link.user = Encoded(client.id) /\ link.address = address /\ link.port = port
<1> DEFINE s == inb.stream
           security == Effective(s, force)
           top == [type |-> <<s.network>>, encryption |-> Part(inb.encryption)]
           own == SecurityParams(s, security, ep)
           flow == FlowParam(s, security, client.flow)
           secured == Over(own, flow)
           params == Over(top, Over(NetworkParams(s), Over(FinalMask(s), secured)))
           link == genVlessLink(inb, address, port, force, remark, client, ep)
<1>1. link = Link("vless", Encoded(client.id), address, port, params, Extra(s), remark)
  BY DEF genVlessLink
<1>2. DOMAIN top \subseteq {"type", "encryption"} /\ Tells(top, "type", s.network)
  <2>1. DOMAIN top = {"type", "encryption"} /\ top["type"] = <<s.network>>
    OBVIOUS
  <2> HIDE DEF top
  <2> QED BY <2>1, PartIs DEF Tells
<1>3. DOMAIN own \subseteq SecKeys /\ DOMAIN flow \subseteq {"flow"}
  BY SecurityKeys, OtherKeys
<1>4. "flow" \notin SecKeys
  BY DEF SecKeys
<1>5. IsNetwork(s)
  BY DEF IsShared
<1> HIDE DEF top, flow
<1>6. \A k \in SecKeys : SaysAlike(secured, own, k)
  <2> HIDE DEF own
  <2>1. \A k \in SecKeys : k \notin DOMAIN flow
    BY <1>3, <1>4
  <2> QED BY <2>1, OverSays
<1>7. SaysAlike(secured, flow, "flow")
  <2> HIDE DEF own
  <2>1. "flow" \notin DOMAIN own
    BY <1>3, <1>4
  <2> QED BY <2>1, OverSays
<1>8. DOMAIN secured \subseteq SecKeys \cup {"flow"}
  BY <1>3 DEF Over
<1> HIDE DEF secured
<1>9. QuerySaid(params, s, security, ep) /\ SaysAlike(params, secured, "flow")
  BY <1>2, <1>5, <1>6, <1>8, QuerySays
<1> HIDE DEF params
<1>10. TextOf(params, "flow") = TextOf(flow, "flow")
  BY <1>7, <1>9, ReadAlike
<1>11. /\ link.params = params /\ link.extra = Extra(s) /\ link.scheme = "vless" /\ link.user = Encoded(client.id)
       /\ link.address = address /\ link.port = port
  BY <1>1 DEF Link
<1> QED BY <1>9, <1>10, <1>11 DEF flow

-----------------------------------------------------------------------------
\* An imported outbound, as the dialog shows and saves it.

\* The form an outbound is shown as, with some tag.
Shown(raw, tag) == Settled([rawOutboundToFormValues(raw) EXCEPT !.tag = tag])
Saved(raw, tag) == formValuesToWirePayload(Shown(raw, tag))

\* A stream the form shows as it is.
IsPlain(stream) ==
  /\ "network" \in DOMAIN stream /\ stream["network"] # ""
  /\ "xhttpSettings" \in DOMAIN stream => "xmux" \notin DOMAIN stream["xhttpSettings"]

\* Showing a stream without xmux leaves it as it is.
LEMMA PlainIs ==
  ASSUME NEW stream, IsPlain(stream)
  PROVE  /\ hydrateStreamForm(stream) = stream /\ Read(stream, "network", "") = stream["network"]
         /\ Read(stream, "network", "") # ""
         /\ "network" \in DOMAIN stripUiOnlyStreamFields(stream)
<1>1. "xmux" \notin DOMAIN Read(stream, "xhttpSettings", NoKeys)
  BY NoKeysIs DEF IsPlain, Read
<1>2. hydrateStreamForm(stream) = stream
  BY <1>1 DEF hydrateStreamForm
<1>3. Read(stream, "network", "") = stream["network"] /\ stream["network"] # "" /\ "network" \in DOMAIN stream
  BY DEF IsPlain, Read
<1>4. \A v : "network" \in DOMAIN [stream EXCEPT !.xhttpSettings = v]
  BY <1>3
<1>5. "network" \in DOMAIN stripUiOnlyStreamFields(stream)
  BY <1>3, <1>4 DEF stripUiOnlyStreamFields
<1> QED BY <1>2, <1>3, <1>5

\* What is saved of a form.
LEMMA PayloadIs ==
  ASSUME NEW f
  PROVE  LET o == formValuesToWirePayload(f)
         IN  /\ o.protocol = f.protocol /\ o.settings = SettingsToWire(f.protocol, f.settings)
             /\ canEnableStream(f.protocol) /\ "network" \in DOMAIN stripUiOnlyStreamFields(f.stream) =>
                  o.streamSettings = stripUiOnlyStreamFields(f.stream)
<1> DEFINE stored == IF canEnableStream(f.protocol) THEN stripUiOnlyStreamFields(f.stream)
                     ELSE [k \in DOMAIN f.stream \cap {"sockopt"} |-> f.stream[k]]
           settings == SettingsToWire(f.protocol, f.settings)
           wire == [protocol |-> f.protocol, settings |-> settings, tag |-> f.tag,
                    streamSettings |-> stored, sendThrough |-> f.sendThrough, mux |-> f.mux]
           muxed == f.mux.enabled /\ muxAllowed(f)
           said(k) == CASE k = "tag" -> f.tag # "" [] k = "streamSettings" -> DOMAIN stored # {}
                        [] k = "sendThrough" -> f.sendThrough # "" [] k = "mux" -> muxed [] OTHER -> TRUE
           keys == {j \in DOMAIN wire : said(j)}
<1>1. formValuesToWirePayload(f) = [k \in keys |-> wire[k]]
  BY DEF formValuesToWirePayload
<1>2. /\ DOMAIN wire = {"protocol", "settings", "tag", "streamSettings", "sendThrough", "mux"}
      /\ wire["protocol"] = f.protocol /\ wire["settings"] = settings /\ wire["streamSettings"] = stored
  OBVIOUS
<1>3. said("protocol") /\ said("settings") /\ (said("streamSettings") <=> DOMAIN stored # {})
  OBVIOUS
<1>4. "protocol" \in keys /\ "settings" \in keys /\ (DOMAIN stored # {} => "streamSettings" \in keys)
  BY <1>2, <1>3
<1>5. canEnableStream(f.protocol) => stored = stripUiOnlyStreamFields(f.stream)
  OBVIOUS
<1> HIDE DEF keys, wire, stored, settings
<1> QED BY <1>1, <1>2, <1>4, <1>5 DEF settings

\* An outbound with a stream is saved with its settings and its stream.
RidesWith(p, stream) ==
  p = "hysteria" => Read(stream, "network", "") = "hysteria" /\ Read(stream, "security", "none") = "tls"

\* An outbound with a stream is saved with its settings and its stream.
LEMMA SavedIs ==
  ASSUME NEW p \in {"vmess", "vless", "trojan", "hysteria"}, NEW t, NEW settings, NEW stream, IsPlain(stream),
         RidesWith(p, stream), NEW tag
  PROVE  LET o == Saved(Streamed(p, t, settings, stream), tag)
         IN  /\ o.protocol = p /\ o.settings = SettingsToWire(p, SettingsFromWire(p, settings))
             /\ o.streamSettings = stripUiOnlyStreamFields(stream)
<1> DEFINE raw == Streamed(p, t, settings, stream)
           g == rawOutboundToFormValues(raw)
           f == [g EXCEPT !.tag = tag]
<1>1. /\ Read(raw, "protocol", "vless") = p /\ Read(raw, "settings", NoKeys) = settings
      /\ Read(raw, "streamSettings", NoKeys) = stream
  BY DEF Streamed, Read
<1>2. OneOf(p, Protocols, "vless") = p
  BY DEF OneOf, Protocols
<1>3. g.protocol = p /\ g.settings = SettingsFromWire(p, settings) /\ g.stream = stream /\ IsOutboundForm(g)
  <2> HIDE DEF raw
  <2>1. IsOutboundForm(g) /\ g.protocol = p
    BY <1>1, <1>2, RawIs
  <2>2. g.settings = SettingsFromWire(p, settings) /\ g.stream = hydrateStreamForm(stream)
    BY <1>1, <1>2 DEF rawOutboundToFormValues
  <2> QED BY <2>1, <2>2, PlainIs
<1> HIDE DEF g
<1>4. f.protocol = p /\ f.settings = SettingsFromWire(p, settings) /\ f.stream = stream
  BY <1>3 DEF IsOutboundForm, FormKeys
<1> HIDE DEF f
<1>5. Network(f) # ""
  BY <1>4, PlainIs DEF Network
<1>6. Hysterical(f) = f
  BY <1>4 DEF Hysterical, Network, Security, RidesWith
<1>7. Settled(f) = f
  BY <1>5, <1>6 DEF Settled
<1>8. Saved(raw, tag) = formValuesToWirePayload(f)
  BY <1>7 DEF Saved, Shown, f, g
<1>9. canEnableStream(p)
  BY DEF canEnableStream
<1> HIDE DEF raw
<1>10. /\ Saved(raw, tag).protocol = p /\ Saved(raw, tag).settings = SettingsToWire(p, SettingsFromWire(p, settings))
       /\ Saved(raw, tag).streamSettings = stripUiOnlyStreamFields(stream)
  BY <1>4, <1>8, <1>9, PayloadIs, PlainIs
<1> QED BY <1>10 DEF raw

\* One without a stream is saved with its settings.
LEMMA SavedPlainly ==
  ASSUME NEW p \in Protocols \ {"hysteria"}, NEW t, NEW settings, NEW tag
  PROVE  LET o == Saved(Outbound(p, t, settings), tag)
         IN  o.protocol = p /\ o.settings = SettingsToWire(p, SettingsFromWire(p, settings))
<1> DEFINE raw == Outbound(p, t, settings)
           g == rawOutboundToFormValues(raw)
           f == [g EXCEPT !.tag = tag]
           h == IF canEnableStream(f.protocol) /\ Network(f) = "" THEN [f EXCEPT !.stream = TcpSlice] ELSE f
<1>1. Read(raw, "protocol", "vless") = p /\ Read(raw, "settings", NoKeys) = settings
  BY DEF Outbound, Read
<1>2. OneOf(p, Protocols, "vless") = p
  BY DEF OneOf
<1>3. g.protocol = p /\ g.settings = SettingsFromWire(p, settings) /\ IsOutboundForm(g)
  <2> HIDE DEF raw
  <2>1. IsOutboundForm(g) /\ g.protocol = p
    BY <1>1, <1>2, RawIs
  <2>2. g.settings = SettingsFromWire(p, settings)
    BY <1>1, <1>2 DEF rawOutboundToFormValues
  <2> QED BY <2>1, <2>2
<1> HIDE DEF g
<1>4. f.protocol = p /\ f.settings = SettingsFromWire(p, settings) /\ DOMAIN f = FormKeys
  BY <1>3 DEF IsOutboundForm, FormKeys
<1> HIDE DEF f
<1>5. h.protocol = p /\ h.settings = SettingsFromWire(p, settings)
  BY <1>4 DEF FormKeys
<1>6. Settled(f) = Hysterical(h)
  BY DEF Settled
<1> HIDE DEF h
<1>7. Hysterical(h) = h
  BY <1>5 DEF Hysterical
<1>8. Saved(raw, tag) = formValuesToWirePayload(h)
  BY <1>6, <1>7 DEF Saved, Shown, f, g
<1> HIDE DEF raw
<1>9. Saved(raw, tag).protocol = p /\ Saved(raw, tag).settings = SettingsToWire(p, SettingsFromWire(p, settings))
  BY <1>5, <1>8, PayloadIs
<1> QED BY <1>9 DEF raw

\* The fields of xhttp that are stored.
StoredFields(x) ==
  {k \in DOMAIN x \ {"enableXmux"} :
     /\ k = "xmux" => Read(x, "enableXmux", FALSE)
     /\ k \notin {"xmux", "xPaddingObfsMode"} => x[k] # ""}
Stripped(x) == [k \in StoredFields(x) |-> x[k]]

\* Storing xhttp settings drops the empty ones and the switch only.
LEMMA StrippedSays ==
  ASSUME NEW x
  PROVE  /\ \A k : k \notin {"xmux", "xPaddingObfsMode", "enableXmux"} =>
                     /\ ValueOf(Stripped(x), k) = ValueOf(x, k)
                     /\ k \in DOMAIN x /\ x[k] # "" => Holds(Stripped(x), k, x[k])
         /\ "xPaddingObfsMode" \in DOMAIN Stripped(x) <=> "xPaddingObfsMode" \in DOMAIN x
<1>1. DOMAIN Stripped(x) = StoredFields(x) /\ \A k \in StoredFields(x) : Stripped(x)[k] = x[k]
  BY DEF Stripped
<1>2. ASSUME NEW k, k \notin {"xmux", "xPaddingObfsMode", "enableXmux"}
      PROVE  k \in StoredFields(x) <=> k \in DOMAIN x /\ x[k] # ""
  BY <1>2 DEF StoredFields
<1>3. ASSUME NEW k, k \notin {"xmux", "xPaddingObfsMode", "enableXmux"}
      PROVE  /\ ValueOf(Stripped(x), k) = ValueOf(x, k)
             /\ k \in DOMAIN x /\ x[k] # "" => Holds(Stripped(x), k, x[k])
  <2>1. k \in StoredFields(x) <=> k \in DOMAIN x /\ x[k] # ""
    BY <1>2, <1>3
  <2> QED BY <1>1, <2>1 DEF ValueOf, Read, Holds
<1>4. "xPaddingObfsMode" \in StoredFields(x) <=> "xPaddingObfsMode" \in DOMAIN x
  BY DEF StoredFields
<1> QED BY <1>1, <1>3, <1>4

\* Storing a stream of xhttp changes its xhttp settings only.
LEMMA StrippedIs ==
  ASSUME NEW stream, "xhttpSettings" \in DOMAIN stream
  PROVE  stripUiOnlyStreamFields(stream) = [stream EXCEPT !.xhttpSettings = Stripped(stream["xhttpSettings"])]
BY DEF stripUiOnlyStreamFields, Stripped, StoredFields, Read

\* A transport that was kept is the same after saving.
LEMMA TransportIsSaved ==
  ASSUME NEW item, NEW stream, NEW moded,
         moded \/ item.inbound.protocol = "vmess", IsShared(item.inbound.stream),
         TransportKept(stream, item.inbound.stream, moded)
  PROVE  SameTransport(item, stripUiOnlyStreamFields(stream))
<1> DEFINE s == item.inbound.stream
           st == stripUiOnlyStreamFields(stream)
           kept(key) == Read(st, key, NoKeys)
           x == kept("xhttpSettings")
<1>1. \A k : k # "xhttpSettings" => \A v : Holds(stream, k, v) => st[k] = v /\ kept(k) = v
  <2>1. CASE "xhttpSettings" \in DOMAIN stream
    <3>1. st = [stream EXCEPT !.xhttpSettings = Stripped(stream["xhttpSettings"])]
      BY <2>1, StrippedIs
    <3> HIDE DEF st
    <3>2. DOMAIN st = DOMAIN stream /\ \A k \in DOMAIN stream : k # "xhttpSettings" => st[k] = stream[k]
      BY <3>1
    <3> QED BY <3>2 DEF Holds, Read
  <2>2. CASE "xhttpSettings" \notin DOMAIN stream
    <3>1. st = stream
      BY <2>2 DEF stripUiOnlyStreamFields
    <3> QED BY <3>1 DEF Holds, Read
  <2> QED BY <2>1, <2>2
<1>2. st["network"] = s.network
  BY <1>1 DEF TransportKept
<1>3. s.network = "ws" => kept("wsSettings") = Path(s)
  BY <1>1 DEF TransportKept
<1>4. s.network = "httpupgrade" => kept("httpupgradeSettings") = Path(s)
  BY <1>1 DEF TransportKept
<1>5. s.network = "grpc" => kept("grpcSettings") = Grpc(s)
  BY <1>1 DEF TransportKept
<1>6. s.network = "tcp" => kept("tcpSettings") = IF s.http THEN Http(s) ELSE NoHttp
  BY <1>1 DEF TransportKept
<1>7. ASSUME s.network = "xhttp"
      PROVE  /\ ValueOf(x, "path") = s.path /\ ValueOf(x, "host") = HostOf(s)
             /\ item.inbound.protocol # "vmess" => x["mode"] = s.mode
             /\ s.pad # "" => x["xPaddingBytes"] = s.pad
             /\ ValueOf(x, "seqKey") = s.seqKey /\ ("xPaddingObfsMode" \in DOMAIN x) = s.obfs
  <2> DEFINE y == stream["xhttpSettings"]
  <2>1. "xhttpSettings" \in DOMAIN stream /\ XhttpKept(y, s, moded)
    BY <1>7 DEF TransportKept
  <2>2. x = Stripped(y)
    <3>1. st = [stream EXCEPT !.xhttpSettings = Stripped(y)]
      BY <2>1, StrippedIs
    <3> HIDE DEF st, y
    <3> QED BY <2>1, <3>1 DEF Read
  <2> HIDE DEF x, y
  <2>3. \A k : k \notin {"xmux", "xPaddingObfsMode", "enableXmux"} =>
                     /\ ValueOf(x, k) = ValueOf(y, k)
                     /\ k \in DOMAIN y /\ y[k] # "" => Holds(x, k, y[k])
    BY <2>2, StrippedSays
  <2>4. "xPaddingObfsMode" \in DOMAIN x <=> "xPaddingObfsMode" \in DOMAIN y
    BY <2>2, StrippedSays
  <2>5. ValueOf(x, "path") = s.path /\ ValueOf(x, "host") = HostOf(s) /\ ValueOf(x, "seqKey") = s.seqKey
    BY <2>1, <2>3 DEF XhttpKept
  <2>6. ("xPaddingObfsMode" \in DOMAIN x) = s.obfs
    <3>1. ("xPaddingObfsMode" \in DOMAIN y) = s.obfs
      BY <2>1 DEF XhttpKept
    <3> QED BY <2>4, <3>1
  <2>7. ASSUME item.inbound.protocol # "vmess" PROVE x["mode"] = s.mode
    <3>1. s.mode # ""
      BY <1>7 DEF IsShared, HasMode
    <3>2. "mode" \in DOMAIN y /\ y["mode"] = s.mode
      BY <2>1, <2>7 DEF XhttpKept, Holds
    <3> QED BY <2>3, <3>1, <3>2 DEF Holds
  <2>8. ASSUME s.pad # "" PROVE x["xPaddingBytes"] = s.pad
    <3>1. "xPaddingBytes" \in DOMAIN y /\ y["xPaddingBytes"] = s.pad
      BY <2>1, <2>8 DEF XhttpKept, Holds
    <3> QED BY <2>3, <2>8, <3>1 DEF Holds
  <2> QED BY <2>5, <2>6, <2>7, <2>8
<1>8. /\ s.network = "ws" => kept("wsSettings") = [path |-> s.path, host |-> HostOf(s)]
      /\ s.network = "httpupgrade" => kept("httpupgradeSettings") = [path |-> s.path, host |-> HostOf(s)]
  BY <1>3, <1>4 DEF Path
<1>9. s.network = "grpc" => kept("grpcSettings") = [serviceName |-> s.service, authority |-> s.authority, multiMode |-> s.multi]
  BY <1>5 DEF Grpc
<1>10. s.network = "tcp" =>
         kept("tcpSettings") = IF s.http THEN [header |-> "http", path |-> s.paths, host |-> Part(Or(s.respHost, s.hdrHost))]
                               ELSE [header |-> "none", path |-> <<>>, host |-> <<>>]
  BY <1>6 DEF Http, NoHttp
<1>11. s.network = "xhttp" =>
         /\ Read(x, "path", "") = s.path /\ Read(x, "host", "") = HostOf(s)
         /\ item.inbound.protocol # "vmess" => x["mode"] = s.mode
         /\ s.pad # "" => x["xPaddingBytes"] = s.pad
         /\ Read(x, "seqKey", "") = s.seqKey /\ ("xPaddingObfsMode" \in DOMAIN x) = s.obfs
  BY <1>7 DEF ValueOf
<1> HIDE DEF st
<1>12. SameTransport(item, st)
  BY <1>2, <1>8, <1>9, <1>10, <1>11 DEF SameTransport
<1> QED BY <1>12 DEF st

\* A security that was kept is the same after saving.
LEMMA SecurityIsSaved ==
  ASSUME NEW item, item.inbound.protocol # "hysteria", NEW stream, NEW security,
         security = Effective(item.inbound.stream, IF Proxy(item) = Nothing THEN "same" ELSE Proxy(item).forceTls),
         SecurityKept(stream, item.inbound.stream, security, Proxy(item))
  PROVE  SameSecurity(item, stripUiOnlyStreamFields(stream)) /\ stripUiOnlyStreamFields(stream)["security"] = security
<1> DEFINE s == item.inbound.stream
           ep == Proxy(item)
           st == stripUiOnlyStreamFields(stream)
<1>1. \A k \in DOMAIN stream : k # "xhttpSettings" => k \in DOMAIN st /\ st[k] = stream[k]
  <2>1. CASE "xhttpSettings" \in DOMAIN stream
    BY <2>1, StrippedIs
  <2>2. CASE "xhttpSettings" \notin DOMAIN stream
    BY <2>2 DEF stripUiOnlyStreamFields
  <2> QED BY <2>1, <2>2
<1> HIDE DEF st
<1>2. st["security"] = security
  BY <1>1 DEF SecurityKept, Holds
<1>3. security = "tls" => TlsKept(st["tlsSettings"], s, ep)
  BY <1>1 DEF SecurityKept
<1>4. security = "reality" => RealityKept(st["realitySettings"], s.reality)
  BY <1>1 DEF SecurityKept
<1> HIDE DEF ep
<1>5. SameSecurity(item, st)
  BY <1>2, <1>3, <1>4 DEF SameSecurity, TlsKept, RealityKept, OwnTls, ep
<1> QED BY <1>2, <1>5 DEF st

-----------------------------------------------------------------------------
\* The settings of an imported outbound are saved as they were.

\* A port is read as it is.
LEMMA PortIs ==
  ASSUME NEW p \in Ports, NEW d
  PROVE  Port(p, d) = p
BY DEF Port

\* The first of a list of one.
LEMMA FirstIs ==
  ASSUME NEW v, NEW d
  PROVE  First(<<v>>, d) = v
BY DEF First

\* Settings of vless: shown and saved, they reach the same server as the same user.
LEMMA VlessSettings ==
  ASSUME NEW a, NEW p \in Ports, NEW i, NEW f, NEW e
  PROVE  LET raw == [address |-> a, port |-> p, id |-> i, flow |-> f, encryption |-> e]
             wire == SettingsToWire("vless", SettingsFromWire("vless", raw))
         IN  wire.address = a /\ wire.port = p /\ wire.id = i /\ wire.flow = f
<1> DEFINE raw == [address |-> a, port |-> p, id |-> i, flow |-> f, encryption |-> e]
           form == vlessFromWire(raw)
           wire == vlessToWire(form)
<1>1. /\ DOMAIN raw = {"address", "port", "id", "flow", "encryption"} /\ raw["address"] = a /\ raw["port"] = p
      /\ raw["id"] = i /\ raw["flow"] = f
  OBVIOUS
<1>2. Port(p, 443) = p
  BY PortIs
<1> HIDE DEF raw
<1>3. \A d : /\ Read(raw, "vnext", d) = d /\ Read(raw, "address", d) = a /\ Read(raw, "port", d) = p
             /\ Read(raw, "id", d) = i /\ Read(raw, "flow", d) = f
  BY <1>1 DEF Read
<1>4. form.address = a /\ form.port = p /\ form.id = i /\ form.flow = f
  BY <1>2, <1>3 DEF vlessFromWire
<1> HIDE DEF form
<1>5. wire.address = a /\ wire.port = p /\ wire.id = i /\ wire.flow = f
  <2> DEFINE top == [address |-> form.address, port |-> form.port, id |-> form.id, flow |-> form.flow,
                     encryption |-> Or(form.encryption, "none")]
  <2>1. PICK low : wire = Over(top, low)
    BY DEF vlessToWire
  <2>2. /\ DOMAIN top = {"address", "port", "id", "flow", "encryption"} /\ top["address"] = a /\ top["port"] = p
        /\ top["id"] = i /\ top["flow"] = f
    BY <1>4
  <2> HIDE DEF top, wire
  <2> QED BY <2>1, <2>2 DEF Over
<1>6. SettingsToWire("vless", SettingsFromWire("vless", raw)) = wire
  BY DEF SettingsToWire, SettingsFromWire, form
<1> HIDE DEF wire
<1> QED BY <1>5, <1>6 DEF raw

\* The same of trojan.
LEMMA TrojanSettings ==
  ASSUME NEW a, NEW p \in Ports, NEW w
  PROVE  LET raw == [servers |-> <<[address |-> a, port |-> p, password |-> w]>>]
             wire == SettingsToWire("trojan", SettingsFromWire("trojan", raw))
         IN  wire.servers[1].address = a /\ wire.servers[1].port = p /\ wire.servers[1].password = w
<1> DEFINE server == [address |-> a, port |-> p, password |-> w]
           raw == [servers |-> <<server>>]
           form == trojanFromWire(raw)
           wire == trojanToWire(form)
<1>1. DOMAIN server = {"address", "port", "password"} /\ server["address"] = a /\ server["port"] = p /\ server["password"] = w
  OBVIOUS
<1>2. Port(p, 443) = p
  BY PortIs
<1> HIDE DEF server
<1>3. Server(raw) = server
  <2>1. Read(raw, "servers", <<>>) = <<server>>
    BY DEF Read
  <2> QED BY <2>1, FirstIs DEF Server
<1> HIDE DEF raw
<1>4. \A d : Read(server, "address", d) = a /\ Read(server, "port", d) = p /\ Read(server, "password", d) = w
  BY <1>1 DEF Read
<1>5. form.address = a /\ form.port = p /\ form.password = w
  BY <1>2, <1>3, <1>4 DEF trojanFromWire
<1> HIDE DEF form
<1>6. wire.servers[1].address = a /\ wire.servers[1].port = p /\ wire.servers[1].password = w
  <2>1. wire.servers[1] = [k \in {"address", "port", "password"} |-> form[k]]
    BY DEF trojanToWire
  <2> HIDE DEF wire
  <2> QED BY <1>5, <2>1
<1>7. SettingsToWire("trojan", SettingsFromWire("trojan", raw)) = wire
  BY DEF SettingsToWire, SettingsFromWire, form
<1> HIDE DEF wire
<1> QED BY <1>6, <1>7 DEF raw, server

\* The same of shadowsocks, with its method.
LEMMA ShadowsocksSettings ==
  ASSUME NEW a, NEW p \in Ports, NEW w, NEW m1
  PROVE  LET raw == [servers |-> <<[address |-> a, port |-> p, password |-> w, method |-> m1]>>]
             wire == SettingsToWire("shadowsocks", SettingsFromWire("shadowsocks", raw))
         IN  wire.servers[1].address = a /\ wire.servers[1].port = p /\ wire.servers[1].method = m1
<1> DEFINE server == [address |-> a, port |-> p, password |-> w, method |-> m1]
           raw == [servers |-> <<server>>]
           top == [method |-> Read(Server(raw), "method", "2022-blake3-aes-128-gcm"),
                   uot |-> Read(Server(raw), "uot", FALSE), UoTVersion |-> Read(Server(raw), "UoTVersion", 1)]
           low == trojanFromWire(raw)
           form == Over(top, low)
           wire == shadowsocksToWire(form)
<1>1. /\ DOMAIN server = {"address", "port", "password", "method"} /\ server["address"] = a /\ server["port"] = p
      /\ server["password"] = w /\ server["method"] = m1
  OBVIOUS
<1>2. Port(p, 443) = p
  BY PortIs
<1> HIDE DEF server
<1>3. Server(raw) = server
  <2>1. Read(raw, "servers", <<>>) = <<server>>
    BY DEF Read
  <2> QED BY <2>1, FirstIs DEF Server
<1> HIDE DEF raw
<1>4. \A d : Read(server, "address", d) = a /\ Read(server, "port", d) = p /\ Read(server, "method", d) = m1
  BY <1>1 DEF Read
<1>5. DOMAIN low = {"address", "port", "password"} /\ low["address"] = a /\ low["port"] = p
  BY <1>2, <1>3, <1>4 DEF trojanFromWire
<1>6. DOMAIN top = {"method", "uot", "UoTVersion"} /\ top["method"] = m1
  BY <1>3, <1>4
<1> HIDE DEF top, low
<1>7. form["address"] = a /\ form["port"] = p /\ form["method"] = m1
  BY <1>5, <1>6 DEF Over
<1>8. shadowsocksFromWire(raw) = form
  BY DEF shadowsocksFromWire, top, low
<1> HIDE DEF form
<1>9. wire.servers[1].address = a /\ wire.servers[1].port = p /\ wire.servers[1].method = m1
  <2>1. wire.servers[1] = [k \in {"address", "port", "password", "method", "uot", "UoTVersion"} |-> form[k]]
    BY DEF shadowsocksToWire
  <2> HIDE DEF wire
  <2> QED BY <1>7, <2>1
<1>10. SettingsToWire("shadowsocks", SettingsFromWire("shadowsocks", raw)) = wire
  BY <1>8 DEF SettingsToWire, SettingsFromWire
<1> HIDE DEF wire
<1> QED BY <1>9, <1>10 DEF raw, server

\* The same of vmess.
LEMMA VmessSettings ==
  ASSUME NEW a, NEW p \in Ports, NEW i, NEW v
  PROVE  LET raw == [vnext |-> <<[address |-> a, port |-> p, users |-> <<[id |-> i, security |-> v]>>]>>]
             wire == SettingsToWire("vmess", SettingsFromWire("vmess", raw))
         IN  wire.vnext[1].address = a /\ wire.vnext[1].port = p /\ wire.vnext[1].users[1].id = i
<1> DEFINE user == [id |-> i, security |-> v]
           server == [address |-> a, port |-> p, users |-> <<user>>]
           raw == [vnext |-> <<server>>]
           form == vmessFromWire(raw)
           wire == vmessToWire(form)
<1>1. \A d : Read(user, "id", d) = i
  BY DEF Read
<1> HIDE DEF user
<1>2. \A d : Read(server, "address", d) = a /\ Read(server, "port", d) = p /\ Read(server, "users", d) = <<user>>
  BY DEF Read
<1>3. Port(p, 443) = p
  BY PortIs
<1> HIDE DEF server
<1>4. Read(raw, "vnext", <<>>) = <<server>>
  BY DEF Read
<1> HIDE DEF raw
<1>5. First(Read(raw, "vnext", <<>>), NoKeys) = server
  BY <1>4, FirstIs
<1>6. First(Read(server, "users", <<>>), NoKeys) = user
  BY <1>2, FirstIs
<1>7. form.address = a /\ form.port = p /\ form.id = i
  BY <1>1, <1>2, <1>3, <1>5, <1>6 DEF vmessFromWire
<1> HIDE DEF form
<1>8. wire.vnext[1].address = a /\ wire.vnext[1].port = p /\ wire.vnext[1].users[1].id = i
  BY <1>7 DEF vmessToWire
<1>9. SettingsToWire("vmess", SettingsFromWire("vmess", raw)) = wire
  BY DEF SettingsToWire, SettingsFromWire, form
<1> HIDE DEF wire
<1> QED BY <1>8, <1>9 DEF raw, server, user

\* The same of hysteria, whose credential is in its stream.
LEMMA HysteriaSettings ==
  ASSUME NEW a, NEW p \in Ports, NEW v
  PROVE  LET raw == [address |-> a, port |-> p, version |-> v]
             wire == SettingsToWire("hysteria", SettingsFromWire("hysteria", raw))
         IN  wire.address = a /\ wire.port = p
<1> DEFINE raw == [address |-> a, port |-> p, version |-> v]
           form == hysteriaFromWire(raw)
           wire == hysteriaToWire(form)
<1>1. Port(p, 443) = p
  BY PortIs
<1>2. \A d : Read(raw, "address", d) = a /\ Read(raw, "port", d) = p
  BY DEF Read
<1> HIDE DEF raw
<1>3. form.address = a /\ form.port = p
  BY <1>1, <1>2 DEF hysteriaFromWire
<1> HIDE DEF form
<1>4. wire.address = a /\ wire.port = p
  BY <1>3 DEF hysteriaToWire
<1>5. SettingsToWire("hysteria", SettingsFromWire("hysteria", raw)) = wire
  BY DEF SettingsToWire, SettingsFromWire, form
<1> HIDE DEF wire
<1> QED BY <1>4, <1>5 DEF raw

-----------------------------------------------------------------------------
\* The links of vmess, whose parameters are a JSON object.

VmessKeys == NetKeys \cup ExtraKeys \cup {"type"}

\* The keys of an extra object.
LEMMA ExtraKeysAre ==
  ASSUME NEW s
  PROVE  DOMAIN Extra(s) \subseteq ExtraKeys
<1>1. \A a, b, c, d, e : DOMAIN Said([xPaddingBytes |-> a, xPaddingObfsMode |-> b, xPaddingKey |-> c, seqKey |-> d, headers |-> e]) \subseteq ExtraKeys
  BY DEF Said, ExtraKeys, XhttpKeys
<1>2. DOMAIN buildXhttpExtra(s) \subseteq ExtraKeys
  BY <1>1 DEF buildXhttpExtra
<1> QED BY <1>2, NoKeysIs DEF Extra

\* The keys of a vmess link that tell its network.
LEMMA VmessKeysAre ==
  ASSUME NEW s
  PROVE  DOMAIN VmessNetwork(s) \subseteq VmessKeys
<1>1. DOMAIN NetworkParams(s) \subseteq VmessKeys
  BY NetworkKeys DEF VmessKeys
<1>2. \A v : DOMAIN [type |-> v] \subseteq VmessKeys
  BY DEF VmessKeys
<1>3. \A v : DOMAIN Over([type |-> v], [k \in DOMAIN NetworkParams(s) \ {"headerType"} |-> NetworkParams(s)[k]]) \subseteq VmessKeys
  <2>1. DOMAIN [k \in DOMAIN NetworkParams(s) \ {"headerType"} |-> NetworkParams(s)[k]] \subseteq VmessKeys
    BY <1>1
  <2> QED BY <1>2, <2>1 DEF Over
<1>4. \A v, w, c, u : DOMAIN Over([path |-> v, authority |-> w], Keep(c, "type", u)) \subseteq VmessKeys
  BY DEF Over, VmessKeys, NetKeys, Keep
<1>5. \A v, w, u, o : DOMAIN Over([path |-> v, host |-> w, type |-> u], Over(Said([x_padding_bytes |-> o]), Extra(s))) \subseteq VmessKeys
  <2>1. \A o : DOMAIN Said([x_padding_bytes |-> o]) \subseteq VmessKeys
    BY DEF Said, VmessKeys, NetKeys
  <2>2. DOMAIN Extra(s) \subseteq VmessKeys
    BY ExtraKeysAre DEF VmessKeys
  <2>3. \A v, w, u : DOMAIN [path |-> v, host |-> w, type |-> u] \subseteq VmessKeys
    BY DEF VmessKeys, NetKeys
  <2> QED BY <2>1, <2>2, <2>3 DEF Over
<1> QED BY <1>1, <1>2, <1>3, <1>4, <1>5 DEF VmessNetwork

\* What the JSON says of the network: other keys for grpc, and no mode.
VmessGrpcSaid(json, s) ==
  /\ TextOf(json, "path") = s.service /\ TextOf(json, "authority") = s.authority
  /\ (TextOf(json, "type") = "multi") = s.multi
VmessHttpSaid(json, s) ==
  /\ TextOf(json, "type") = "http" /\ "path" \in DOMAIN json /\ json["path"] = s.paths
  /\ ListOf(json, "host") = Part(Or(s.respHost, s.hdrHost))
VmessSaid(json, s) ==
  /\ s.network \in {"ws", "httpupgrade"} => PathSaid(json, s)
  /\ s.network = "grpc" => VmessGrpcSaid(json, s)
  /\ s.network = "xhttp" => PathSaid(json, s) /\ ExtraSaid(json, s)
  /\ s.network = "tcp" /\ s.http => VmessHttpSaid(json, s)
  /\ s.network = "tcp" /\ ~s.http => TextOf(json, "type") # "http" /\ TextOf(json, "headerType") # "http"

\* What a vmess link of grpc says: the service name as its path.
LEMMA VmessGrpcSays ==
  ASSUME NEW s, s.multi \in BOOLEAN
  PROVE  VmessGrpcSaid(Over([path |-> Part(s.service), authority |-> Part(s.authority)], Keep(s.multi, "type", <<"multi">>)), s)
<1> DEFINE top == [path |-> Part(s.service), authority |-> Part(s.authority)]
           low == Keep(s.multi, "type", <<"multi">>)
<1>1. DOMAIN top = {"path", "authority"} /\ top["path"] = Part(s.service) /\ top["authority"] = Part(s.authority)
  OBVIOUS
<1>2. (TextOf(low, "type") = "multi") = s.multi
  <2>1. CASE s.multi
    <3>1. "type" \in DOMAIN low /\ low["type"] = <<"multi">>
      BY <2>1 DEF Keep
    <3>2. TextOf(low, "type") = "multi"
      BY <3>1, PartIs DEF TextOf, Text
    <3> QED BY <3>2, <2>1
  <2>2. CASE ~s.multi
    <3>1. "type" \notin DOMAIN low
      BY <2>2 DEF Keep
    <3>2. TextOf(low, "type") # "multi"
      BY <3>1 DEF TextOf, Text
    <3> QED BY <3>2, <2>2
  <2> QED BY <2>1, <2>2
<1> HIDE DEF top, low
<1>3. TextOf(Over(top, low), "type") = TextOf(low, "type")
  BY <1>1, Layers
<1>4. TextOf(Over(top, low), "authority") = s.authority /\ TextOf(Over(top, low), "path") = s.service
  BY <1>1, Layers, PartIs
<1>6. VmessGrpcSaid(Over(top, low), s)
  BY <1>2, <1>3, <1>4 DEF VmessGrpcSaid
<1> QED BY <1>6 DEF top, low

\* What a vmess link of tcp with http headers says: http as its type.
LEMMA VmessHttpSays ==
  ASSUME NEW s, s.network = "tcp", s.http
  PROVE  VmessHttpSaid(Over([type |-> <<"http">>], [k \in DOMAIN NetworkParams(s) \ {"headerType"} |-> NetworkParams(s)[k]]), s)
<1> DEFINE net == NetworkParams(s)
           top == [type |-> <<"http">>]
           low == [k \in DOMAIN net \ {"headerType"} |-> net[k]]
<1>1. DOMAIN top = {"type"} /\ top["type"] = <<"http">>
  OBVIOUS
<1>2. HttpSaid(net, s)
  <2>1. net = Over([path |-> s.paths, headerType |-> <<"http">>], Said([host |-> Part(Or(s.respHost, s.hdrHost))]))
    BY DEF NetworkParams
  <2> HIDE DEF net
  <2> QED BY <2>1, HttpSays
<1> HIDE DEF net
<1>3. \A k : k # "headerType" => SaysAlike(low, net, k)
  BY DEF SaysAlike
<1> HIDE DEF top, low
<1>4. TextOf(Over(top, low), "type") = "http"
  BY <1>1, Layers, PartIs
<1>5. "path" \in DOMAIN Over(top, low) /\ Over(top, low)["path"] = s.paths
  <2>1. "path" \in DOMAIN low /\ low["path"] = s.paths
    BY <1>2, <1>3 DEF HttpSaid, SaysAlike
  <2> QED BY <1>1, <2>1 DEF Over
<1>6. ListOf(Over(top, low), "host") = Part(Or(s.respHost, s.hdrHost))
  <2>1. SaysAlike(low, net, "host")
    BY <1>3
  <2>2. ListOf(low, "host") = Part(Or(s.respHost, s.hdrHost))
    BY <1>2, <2>1, ReadAlike DEF HttpSaid
  <2> QED BY <1>1, <2>2, Layers
<1>7. VmessHttpSaid(Over(top, low), s)
  BY <1>4, <1>5, <1>6 DEF VmessHttpSaid
<1> QED BY <1>7 DEF top, low, net

\* What a vmess link of xhttp says: the extra fields are among its own.
LEMMA VmessXhttpSays ==
  ASSUME NEW s, IsNetwork(s), s.network = "xhttp"
  PROVE  LET o == Over([path |-> Part(s.path), host |-> Part(HostOf(s)), type |-> Part(s.mode)],
                       Over(Said([x_padding_bytes |-> Part(s.pad)]), Extra(s)))
         IN  PathSaid(o, s) /\ ExtraSaid(o, s)
<1> DEFINE top == [path |-> Part(s.path), host |-> Part(HostOf(s)), type |-> Part(s.mode)]
           pad == Said([x_padding_bytes |-> Part(s.pad)])
           extra == Extra(s)
           low == Over(pad, extra)
<1>1. DOMAIN top = {"path", "host", "type"} /\ top["path"] = Part(s.path) /\ top["host"] = Part(HostOf(s))
  OBVIOUS
<1>2. DOMAIN pad \subseteq {"x_padding_bytes"}
  BY DEF Said
<1>3. ExtraSaid(extra, s)
  BY ExtraSays DEF IsNetwork, Extra
<1> HIDE DEF top, pad, extra
<1>4. PathSaid(Over(top, low), s)
  <2>1. TextOf(Over(top, low), "host") = HostOf(s)
    BY <1>1, Layers, PartIs
  <2>2. Tells(Over(top, low), "path", s.path)
    BY <1>1, PartIs DEF Tells, Over
  <2> QED BY <2>1, <2>2 DEF PathSaid
<1>5. \A k \in XhttpKeys : SaysAlike(Over(top, low), extra, k)
  <2>1. \A k \in XhttpKeys : k \notin DOMAIN top /\ k \notin DOMAIN pad
    BY <1>1, <1>2 DEF XhttpKeys
  <2>2. \A k \in XhttpKeys : SaysAlike(low, extra, k)
    BY <2>1, OverSays
  <2> HIDE DEF low
  <2>3. \A k \in XhttpKeys : SaysAlike(Over(top, low), low, k)
    BY <2>1, OverSays
  <2> QED BY <2>2, <2>3 DEF SaysAlike
<1> HIDE DEF low
<1>6. ExtraSaid(Over(top, low), s)
  <2>1. "xPaddingBytes" \in XhttpKeys /\ "seqKey" \in XhttpKeys /\ "xPaddingObfsMode" \in XhttpKeys
    BY DEF XhttpKeys
  <2>2. TextOf(Over(top, low), "seqKey") = TextOf(extra, "seqKey")
    BY <1>5, <2>1, ReadAlike
  <2>3. \A text : Tells(extra, "xPaddingBytes", text) => Tells(Over(top, low), "xPaddingBytes", text)
    BY <1>5, <2>1 DEF Tells, SaysAlike
  <2>4. "xPaddingObfsMode" \in DOMAIN Over(top, low) <=> "xPaddingObfsMode" \in DOMAIN extra
    BY <1>5, <2>1 DEF SaysAlike
  <2>5. ("xPaddingObfsMode" \in DOMAIN extra) = s.obfs
    BY <1>3 DEF ExtraSaid
  <2>6. ("xPaddingObfsMode" \in DOMAIN Over(top, low)) = s.obfs
    BY <2>4, <2>5
  <2>7. s.pad # "" => Tells(Over(top, low), "xPaddingBytes", s.pad)
    BY <1>3, <2>3 DEF ExtraSaid
  <2>8. TextOf(Over(top, low), "seqKey") = s.seqKey
    BY <1>3, <2>2 DEF ExtraSaid
  <2> QED BY <2>6, <2>7, <2>8 DEF ExtraSaid
<1> QED BY <1>4, <1>6 DEF top, low, pad, extra

\* What a vmess link says of its network.
LEMMA VmessNetworkSays ==
  ASSUME NEW s, IsNetwork(s)
  PROVE  VmessSaid(VmessNetwork(s), s)
<1>1. CASE s.network \in {"ws", "httpupgrade"}
  <2>1. VmessNetwork(s) = [path |-> Part(s.path), host |-> Part(HostOf(s))]
    BY <1>1 DEF NetworkParams, VmessNetwork
  <2>2. PathSaid(VmessNetwork(s), s)
    BY <2>1, PathSays
  <2> QED BY <1>1, <2>2 DEF VmessSaid
<1>2. CASE s.network = "grpc"
  <2>1. VmessNetwork(s) = Over([path |-> Part(s.service), authority |-> Part(s.authority)], Keep(s.multi, "type", <<"multi">>))
    BY <1>2 DEF VmessNetwork
  <2>2. VmessGrpcSaid(VmessNetwork(s), s)
    BY <2>1, VmessGrpcSays DEF IsNetwork
  <2> QED BY <1>2, <2>2 DEF VmessSaid
<1>3. CASE s.network = "xhttp"
  <2>1. VmessNetwork(s) = Over([path |-> Part(s.path), host |-> Part(HostOf(s)), type |-> Part(s.mode)],
                               Over(Said([x_padding_bytes |-> Part(s.pad)]), Extra(s)))
    BY <1>3 DEF VmessNetwork
  <2>2. PathSaid(VmessNetwork(s), s) /\ ExtraSaid(VmessNetwork(s), s)
    BY <1>3, <2>1, VmessXhttpSays
  <2> QED BY <1>3, <2>2 DEF VmessSaid
<1>4. CASE s.network = "tcp" /\ s.http
  <2>1. VmessNetwork(s) = Over([type |-> <<"http">>], [k \in DOMAIN NetworkParams(s) \ {"headerType"} |-> NetworkParams(s)[k]])
    BY <1>4 DEF VmessNetwork
  <2>2. VmessHttpSaid(VmessNetwork(s), s)
    BY <1>4, <2>1, VmessHttpSays
  <2> QED BY <1>4, <2>2 DEF VmessSaid
<1>5. CASE s.network = "tcp" /\ ~s.http
  <2>1. VmessNetwork(s) = [type |-> <<"none">>]
    BY <1>5 DEF VmessNetwork
  <2>2. DOMAIN VmessNetwork(s) = {"type"} /\ VmessNetwork(s)["type"] = <<"none">>
    BY <2>1
  <2>3. TextOf(VmessNetwork(s), "type") = "none"
    BY <2>2, PartIs DEF TextOf, Text
  <2>4. TextOf(VmessNetwork(s), "headerType") # "http"
    BY <2>2 DEF TextOf, Text
  <2> QED BY <1>5, <2>3, <2>4 DEF VmessSaid
<1>6. CASE s.network \notin {"ws", "httpupgrade", "grpc", "xhttp", "tcp"}
  BY <1>6 DEF VmessSaid
<1> QED BY <1>1, <1>2, <1>3, <1>4, <1>5, <1>6 DEF IsNetwork

\* Two vmess objects alike in these keys say the same of the network.
LEMMA VmessAlike ==
  ASSUME NEW a, NEW b, \A k \in VmessKeys : SaysAlike(a, b, k), NEW s, VmessSaid(b, s)
  PROVE  VmessSaid(a, s)
<1>1. \A k \in VmessKeys : TextOf(a, k) = TextOf(b, k) /\ ListOf(a, k) = ListOf(b, k)
  BY ReadAlike
<1>2. \A k \in VmessKeys : \A text : Tells(b, k, text) => Tells(a, k, text)
  BY DEF Tells, SaysAlike
<1>3. {"path", "host", "headerType", "authority", "type", "xPaddingBytes", "xPaddingObfsMode", "seqKey"} \subseteq VmessKeys
  BY DEF VmessKeys, NetKeys, ExtraKeys, XhttpKeys
<1>4. PathSaid(b, s) => PathSaid(a, s)
  BY <1>1, <1>2, <1>3 DEF PathSaid
<1>5. VmessGrpcSaid(b, s) => VmessGrpcSaid(a, s)
  BY <1>1, <1>3 DEF VmessGrpcSaid
<1>6. ExtraSaid(b, s) => ExtraSaid(a, s)
  <2>1. "xPaddingObfsMode" \in DOMAIN a <=> "xPaddingObfsMode" \in DOMAIN b
    BY <1>3 DEF SaysAlike
  <2>2. TextOf(a, "seqKey") = TextOf(b, "seqKey")
    BY <1>1, <1>3
  <2>3. \A text : Tells(b, "xPaddingBytes", text) => Tells(a, "xPaddingBytes", text)
    BY <1>2, <1>3
  <2> SUFFICES ASSUME ExtraSaid(b, s) PROVE ExtraSaid(a, s)
    OBVIOUS
  <2>4. ("xPaddingObfsMode" \in DOMAIN b) = s.obfs
    BY DEF ExtraSaid
  <2>5. ("xPaddingObfsMode" \in DOMAIN a) = s.obfs
    BY <2>1, <2>4
  <2>6. s.pad # "" => Tells(a, "xPaddingBytes", s.pad)
    BY <2>3 DEF ExtraSaid
  <2>7. TextOf(a, "seqKey") = s.seqKey
    BY <2>2 DEF ExtraSaid
  <2> QED BY <2>5, <2>6, <2>7 DEF ExtraSaid
<1>7. VmessHttpSaid(b, s) => VmessHttpSaid(a, s)
  <2>1. "path" \in DOMAIN b => "path" \in DOMAIN a /\ a["path"] = b["path"]
    BY <1>3 DEF SaysAlike
  <2> QED BY <1>1, <1>3, <2>1 DEF VmessHttpSaid
<1>8. TextOf(a, "headerType") = TextOf(b, "headerType") /\ TextOf(a, "type") = TextOf(b, "type")
  BY <1>1, <1>3
<1> QED BY <1>4, <1>5, <1>6, <1>7, <1>8 DEF VmessSaid

\* The inbound's own settings, as a JSON object has them.
LEMMA VmessTlsSays ==
  ASSUME NEW s, NEW low, DOMAIN low \cap {"sni", "fp", "alpn"} = {}
  PROVE  OwnSaid(Over(VmessTls(s, "tls"), low), s)
<1>1. TextOf(low, "sni") = "" /\ TextOf(low, "fp") = "" /\ ListOf(low, "alpn") = <<>>
  BY DEF TextOf, ListOf, Text, Read
<1>2. CASE s.security = "tls"
  <2> DEFINE own == [sni |-> Part(s.tls.sni), fp |-> Part(s.tls.fp), alpn |-> s.tls.alpn, pcs |-> s.tls.pins]
  <2>1. VmessTls(s, "tls") = Said(own) /\ OwnTls(s) = s.tls
    BY <1>2 DEF VmessTls, OwnTls
  <2>2. /\ DOMAIN own = {"sni", "fp", "alpn", "pcs"} /\ own["sni"] = Part(s.tls.sni) /\ own["fp"] = Part(s.tls.fp)
        /\ own["alpn"] = s.tls.alpn
    OBVIOUS
  <2> HIDE DEF own
  <2>3. /\ TextOf(Said(own), "sni") = s.tls.sni /\ TextOf(Said(own), "fp") = s.tls.fp /\ ListOf(Said(own), "alpn") = s.tls.alpn
    BY <2>2, SaidIs, PartIs
  <2>4. \A k \in {"sni", "fp", "alpn"} : TextOf(Over(Said(own), low), k) = TextOf(Said(own), k)
                                         /\ ListOf(Over(Said(own), low), k) = ListOf(Said(own), k)
    <3>1. \A k \in {"sni", "fp", "alpn"} : SaysAlike(Over(Said(own), low), Said(own), k)
      BY OverSays
    <3> QED BY <3>1, ReadAlike
  <2> QED BY <2>1, <2>3, <2>4 DEF OwnSaid
<1>3. CASE s.security # "tls"
  <2>1. VmessTls(s, "tls") = NoKeys /\ OwnTls(s).sni = "" /\ OwnTls(s).fp = "" /\ OwnTls(s).alpn = <<>>
    BY <1>3 DEF VmessTls, OwnTls
  <2>2. \A k : TextOf(Over(NoKeys, low), k) = TextOf(low, k) /\ ListOf(Over(NoKeys, low), k) = ListOf(low, k)
    BY NoKeysIs, Layers
  <2> QED BY <1>1, <2>1, <2>2 DEF OwnSaid
<1> QED BY <1>2, <1>3

\* The keys of TLS in a vmess link.
LEMMA TlsKeysAre ==
  ASSUME NEW s, NEW security, NEW ep
  PROVE  DOMAIN ProxyTls(ep, security) \subseteq {"sni", "fp", "alpn"} /\ DOMAIN VmessTls(s, security) \subseteq {"sni", "fp", "alpn", "pcs"}
<1>1. \A a, b, c : DOMAIN Said([sni |-> a, fp |-> b, alpn |-> c]) \subseteq {"sni", "fp", "alpn"}
  BY DEF Said
<1>2. \A a, b, c, d : DOMAIN Said([sni |-> a, fp |-> b, alpn |-> c, pcs |-> d]) \subseteq {"sni", "fp", "alpn", "pcs"}
  BY DEF Said
<1> QED BY <1>1, <1>2, NoKeysIs DEF ProxyTls, VmessTls

\* What the JSON says of the inbound.
JsonSaid(json, s, security, ep) ==
  /\ VmessSaid(json, s) /\ Tells(json, "net", s.network) /\ TextOf(json, "tls") = security
  /\ SettingsSaid(json, s, security, ep)

\* What a vmess link says: network, security, user and server.
LEMMA VmessQuery ==
  ASSUME NEW inb, IsShared(inb.stream), NEW force, Effective(inb.stream, force) \in {"none", "tls"},
         NEW ep, ep = Nothing \/ IsProxy(ep), NEW address, NEW port, NEW remark, NEW client
  PROVE  LET link == genVmessLink(inb, address, port, force, remark, client, ep)
         IN  /\ JsonSaid(link.params, inb.stream, Effective(inb.stream, force), ep)
             /\ link.scheme = "vmess" /\ link.user = client.id /\ link.address = address /\ link.port = port
<1> DEFINE s == inb.stream
           security == Effective(s, force)
           top == [scy |-> Part(client.security), net |-> <<s.network>>, tls |-> <<security>>]
           proxied == ProxyTls(ep, security)
           own == VmessTls(s, security)
           mask == FinalMask(s)
           net == VmessNetwork(s)
           low == Over(mask, net)
           mid == Over(own, low)
           high == Over(proxied, mid)
           json == Over(top, high)
           link == genVmessLink(inb, address, port, force, remark, client, ep)
<1>1. link = Link("vmess", client.id, address, port, json, NoKeys, remark)
  BY DEF genVmessLink
<1>2. DOMAIN top = {"scy", "net", "tls"} /\ top["net"] = <<s.network>> /\ top["tls"] = <<security>>
  OBVIOUS
<1>3. DOMAIN proxied \subseteq {"sni", "fp", "alpn"} /\ DOMAIN own \subseteq {"sni", "fp", "alpn", "pcs"}
  BY TlsKeysAre
<1>4. DOMAIN mask \subseteq {"fm"} /\ DOMAIN net \subseteq VmessKeys
  BY OtherKeys, VmessKeysAre
<1>5. {"scy", "net", "tls", "sni", "fp", "alpn", "pcs", "fm"} \cap VmessKeys = {}
  BY DEF VmessKeys, NetKeys, ExtraKeys, XhttpKeys
<1>6. VmessSaid(net, s)
  BY VmessNetworkSays DEF IsShared
<1>7. security = "tls" => OwnSaid(mid, s)
  <2> HIDE DEF mask, net
  <2>1. DOMAIN low \cap {"sni", "fp", "alpn"} = {}
    BY <1>4, <1>5 DEF Over
  <2> HIDE DEF low
  <2> QED BY <2>1, VmessTlsSays
<1> HIDE DEF top, own, mask, net
<1>8. security = "tls" => TlsSaid(high, s, ep)
  <2> HIDE DEF mid
  <2> QED BY <1>7, ProxySays
<1> HIDE DEF proxied
<1>9. \A k \in VmessKeys : SaysAlike(json, net, k)
  <2> TAKE k \in VmessKeys
  <2>1. k \notin DOMAIN mask /\ k \notin DOMAIN own /\ k \notin DOMAIN proxied /\ k \notin DOMAIN top
    BY <1>2, <1>3, <1>4, <1>5
  <2>2. SaysAlike(low, net, k)
    BY <2>1, OverSays
  <2> HIDE DEF low
  <2>3. SaysAlike(mid, low, k)
    BY <2>1, OverSays
  <2> HIDE DEF mid
  <2>4. SaysAlike(high, mid, k)
    BY <2>1, OverSays
  <2> HIDE DEF high
  <2>5. SaysAlike(json, high, k)
    BY <2>1, OverSays
  <2> HIDE DEF json
  <2> QED BY <2>2, <2>3, <2>4, <2>5 DEF SaysAlike
<1> HIDE DEF high
<1>10. Tells(json, "net", s.network) /\ TextOf(json, "tls") = security
  <2>1. Tells(json, "net", s.network)
    BY <1>2, PartIs DEF Tells, Over
  <2>2. TextOf(json, "tls") = security
    BY <1>2, PartIs, Layers
  <2> QED BY <2>1, <2>2
<1>11. security = "tls" => TlsSaid(json, s, ep)
  <2>1. \A k \in {"sni", "fp", "alpn"} : TextOf(json, k) = TextOf(high, k) /\ ListOf(json, k) = ListOf(high, k)
    BY <1>2, Layers
  <2> HIDE DEF json
  <2> QED BY <1>8, <2>1 DEF TlsSaid
<1> HIDE DEF json
<1>12. VmessSaid(json, s)
  BY <1>6, <1>9, VmessAlike
<1>13. SettingsSaid(json, s, security, ep)
  <2>1. security # "reality"
    OBVIOUS
  <2> QED BY <1>11, <2>1 DEF SettingsSaid
<1>14. JsonSaid(json, s, security, ep)
  BY <1>10, <1>12, <1>13 DEF JsonSaid
<1>15. link.params = json /\ link.scheme = "vmess" /\ link.user = client.id /\ link.address = address /\ link.port = port
  BY <1>1 DEF Link
<1> QED BY <1>14, <1>15

\* What xhttp reads of the JSON, all but the mode.
LEMMA VmessXhttpReads ==
  ASSUME NEW base, DOMAIN base = XhttpFields, NEW s, NEW json, PathSaid(json, s), ExtraSaid(json, s)
  PROVE  XhttpKept(VmessXhttp(base, json), s, FALSE)
<1> DEFINE top == [host |-> Text(json, "host", ""), path |-> Text(json, "path", "/")]
           mode == Keep("mode" \in DOMAIN json, "mode", Text(json, "mode", ""))
           low == Over(mode, base)
           x == Over(top, low)
           keys == XhttpKeys
           picked == [k \in DOMAIN json \cap keys |-> One(json[k])]
<1>1. VmessXhttp(base, json) = Over(picked, x)
  BY DEF VmessXhttp
<1>2. DOMAIN top = {"host", "path"} /\ top["host"] = TextOf(json, "host") /\ top["path"] = Text(json, "path", "/")
  BY DEF TextOf
<1>3. top["host"] = HostOf(s) /\ top["path"] = s.path
  BY <1>2 DEF PathSaid, Tells, Text
<1>4. DOMAIN mode \subseteq {"mode"}
  BY KeepIs
<1> HIDE DEF top, mode
<1>5. DOMAIN x \subseteq {"path", "host", "mode", "xPaddingBytes"}
  BY <1>2, <1>4 DEF Over, XhttpFields
<1>6. ValueOf(x, "path") = s.path /\ ValueOf(x, "host") = HostOf(s)
  BY <1>2, <1>3, ValueLayers
<1> HIDE DEF x
<1>7. XhttpKeys \subseteq keys /\ keys \subseteq ExtraKeys
  BY DEF ExtraKeys
<1> HIDE DEF keys
<1>8. \A moded : (moded => Holds(x, "mode", s.mode)) => XhttpKept(Over(picked, x), s, moded)
  BY <1>5, <1>6, <1>7, ExtraReads
<1>9. XhttpKept(Over(picked, x), s, FALSE)
  <2> HIDE DEF picked
  <2> QED BY <1>8
<1> QED BY <1>1, <1>9

\* The slice the JSON amounts to for the other networks.
LEMMA VmessSliceReads ==
  ASSUME NEW stream, NEW s, IsNetwork(s), BuiltOn(stream, s.network), NEW json, VmessSaid(json, s)
  PROVE  LET got == TransportParams(stream, json, NoKeys)
         IN  /\ s.network = "ws" => got = [wsSettings |-> Path(s)]
             /\ s.network = "httpupgrade" => got = [httpupgradeSettings |-> Path(s)]
             /\ s.network = "tcp" /\ s.http => got = [tcpSettings |-> Http(s)]
             /\ s.network = "tcp" /\ ~s.http => got = NoKeys
             /\ s.network \notin {"ws", "httpupgrade", "grpc", "xhttp", "tcp"} => got = NoKeys
<1> DEFINE got == TransportParams(stream, json, NoKeys)
<1>1. stream["network"] = s.network
  BY DEF BuiltOn, Holds
<1>2. PathSaid(json, s) => [path |-> Text(json, "path", "/"), host |-> Text(json, "host", "")] = Path(s)
  <2>1. PathSaid(json, s) => Text(json, "path", "/") = s.path /\ Text(json, "host", "") = HostOf(s)
    BY DEF PathSaid, Tells, Text, TextOf
  <2> QED BY <2>1 DEF Path
<1>3. ASSUME s.network = "ws" PROVE got = [wsSettings |-> Path(s)]
  <2>1. got = [wsSettings |-> [path |-> Text(json, "path", "/"), host |-> Text(json, "host", "")]]
    BY <1>1, <1>3 DEF TransportParams
  <2> QED BY <1>2, <1>3, <2>1 DEF VmessSaid
<1>4. ASSUME s.network = "httpupgrade" PROVE got = [httpupgradeSettings |-> Path(s)]
  <2>1. got = [httpupgradeSettings |-> [path |-> Text(json, "path", "/"), host |-> Text(json, "host", "")]]
    BY <1>1, <1>4 DEF TransportParams
  <2> QED BY <1>2, <1>4, <2>1 DEF VmessSaid
<1>7. ASSUME s.network = "tcp", s.http PROVE got = [tcpSettings |-> Http(s)]
  <2>1. VmessHttpSaid(json, s)
    BY <1>7 DEF VmessSaid
  <2>2. Text(json, "type", "") = "http"
    BY <2>1 DEF VmessHttpSaid, TextOf
  <2>3. got = [tcpSettings |-> [header |-> "http", path |-> Read(json, "path", <<"/">>), host |-> Read(json, "host", <<>>)]]
    BY <1>1, <1>7, <2>2 DEF TransportParams
  <2>4. Read(json, "path", <<"/">>) = s.paths /\ Read(json, "host", <<>>) = Part(Or(s.respHost, s.hdrHost))
    <3>1. \A d : Read(json, "path", d) = s.paths
      BY <2>1 DEF VmessHttpSaid, Read
    <3> QED BY <2>1, <3>1 DEF VmessHttpSaid, ListOf
  <2> QED BY <2>3, <2>4 DEF Http
<1>8. ASSUME s.network = "tcp", ~s.http PROVE got = NoKeys
  <2>1. Text(json, "headerType", "") # "http" /\ Text(json, "type", "") # "http"
    BY <1>8 DEF VmessSaid, TextOf
  <2> QED BY <1>1, <1>8, <2>1 DEF TransportParams
<1>9. ASSUME s.network \notin {"ws", "httpupgrade", "grpc", "xhttp", "tcp"} PROVE got = NoKeys
  <2>1. /\ stream["network"] # "ws" /\ stream["network"] # "httpupgrade" /\ stream["network"] # "grpc"
        /\ stream["network"] # "xhttp" /\ stream["network"] # "tcp"
    BY <1>1, <1>9
  <2> QED BY <2>1 DEF TransportParams
<1> QED BY <1>3, <1>4, <1>7, <1>8, <1>9

\* The stream of a vmess link keeps what its JSON says.
LEMMA VmessKeeps ==
  ASSUME NEW s, IsShared(s), NEW security \in {"none", "tls"}, NEW ep, NEW json, JsonSaid(json, s, security, ep)
  PROVE  LET stream == applySecurityParams(VmessStream(json), json)
         IN  TransportKept(stream, s, FALSE) /\ SecurityKept(stream, s, security, ep)
<1> DEFINE base == buildStream(s.network, security)
           grpc == [grpcSettings |-> [serviceName |-> Text(json, "path", ""), authority |-> Text(json, "authority", ""),
                                      multiMode |-> Text(json, "type", "") = "multi"]]
           xhttp == [xhttpSettings |-> VmessXhttp(base["xhttpSettings"], json)]
           got == IF s.network = "grpc" THEN grpc ELSE IF s.network = "xhttp" THEN xhttp ELSE TransportParams(base, json, NoKeys)
<1>1. Text(json, "net", "tcp") = s.network
  BY DEF JsonSaid, Tells, Text
<1>2. (IF Text(json, "tls", "") = "tls" THEN "tls" ELSE "none") = security
  BY DEF JsonSaid, TextOf
<1>3. VmessStream(json) = Over(got, base)
  <2> DEFINE network == Text(json, "net", "tcp")
             secured == IF Text(json, "tls", "") = "tls" THEN "tls" ELSE "none"
             built == buildStream(network, secured)
             other == [xhttpSettings |-> VmessXhttp(built["xhttpSettings"], json)]
             moved == applyTransportParams(built, json, NoKeys)
  <2>1. VmessStream(json) = CASE network = "grpc" -> Over(grpc, built) [] network = "xhttp" -> Over(other, built) [] OTHER -> moved
    BY DEF VmessStream
  <2>2. network = s.network /\ secured = security
    BY <1>1, <1>2
  <2> HIDE DEF network, secured
  <2>3. built = base
    BY <2>2
  <2>4. other = xhttp
    BY <2>3
  <2>5. moved = Over(TransportParams(base, json, NoKeys), base)
    BY <2>3 DEF applyTransportParams
  <2> HIDE DEF grpc, xhttp, other, built, moved, base
  <2> QED BY <2>1, <2>2, <2>3, <2>4, <2>5
<1>4. BuiltOn(base, s.network) /\ HasSecurity(base, security)
  BY BuiltHas
<1> HIDE DEF base
<1>5. IsNetwork(s) /\ VmessSaid(json, s)
  BY DEF IsShared, JsonSaid
<1>6. s.network = "grpc" => got = [grpcSettings |-> Grpc(s)]
  <2> SUFFICES ASSUME s.network = "grpc" PROVE grpc = [grpcSettings |-> Grpc(s)]
    OBVIOUS
  <2>1. VmessGrpcSaid(json, s)
    BY <1>5 DEF VmessSaid
  <2>2. /\ Text(json, "path", "") = s.service /\ Text(json, "authority", "") = s.authority
        /\ (Text(json, "type", "") = "multi") = s.multi
    BY <2>1 DEF VmessGrpcSaid, TextOf
  <2> QED BY <2>2 DEF Grpc
<1>7. ASSUME s.network = "xhttp" PROVE \E x : got = [xhttpSettings |-> x] /\ XhttpKept(x, s, FALSE)
  <2>1. PathSaid(json, s) /\ ExtraSaid(json, s)
    BY <1>5, <1>7 DEF VmessSaid
  <2>2. DOMAIN base["xhttpSettings"] = XhttpFields
    BY <1>4, <1>7 DEF BuiltOn
  <2>3. XhttpKept(VmessXhttp(base["xhttpSettings"], json), s, FALSE)
    BY <2>1, <2>2, VmessXhttpReads
  <2> QED BY <1>7, <2>3
<1>8. LET read1 == TransportParams(base, json, NoKeys)
      IN  /\ s.network = "ws" => read1 = [wsSettings |-> Path(s)]
          /\ s.network = "httpupgrade" => read1 = [httpupgradeSettings |-> Path(s)]
          /\ s.network = "tcp" /\ s.http => read1 = [tcpSettings |-> Http(s)]
          /\ s.network = "tcp" /\ ~s.http => read1 = NoKeys
          /\ s.network \notin {"ws", "httpupgrade", "grpc", "xhttp", "tcp"} => read1 = NoKeys
  BY <1>4, <1>5, VmessSliceReads
<1> HIDE DEF grpc, xhttp
<1>9. /\ s.network = "ws" => got = [wsSettings |-> Path(s)]
      /\ s.network = "httpupgrade" => got = [httpupgradeSettings |-> Path(s)]
      /\ s.network = "tcp" /\ s.http => got = [tcpSettings |-> Http(s)]
      /\ s.network = "tcp" /\ ~s.http => got = NoKeys
      /\ s.network \notin {"ws", "httpupgrade", "grpc", "xhttp", "tcp"} => got = NoKeys
  BY <1>8
<1> HIDE DEF got
<1>10. /\ TransportKept(Over(got, base), s, FALSE)
       /\ \A sec : HasSecurity(base, sec) => HasSecurity(Over(got, base), sec)
  BY <1>4, <1>5, <1>6, <1>7, <1>9, SliceIsKept
<1> DEFINE stream == Over(got, base)
           laid == SecurityRead(stream, json)
<1>11. HasSecurity(stream, security) /\ TransportKept(stream, s, FALSE)
  BY <1>4, <1>10
<1> HIDE DEF stream
<1>12. SecurityKept(applySecurityParams(stream, json), s, security, ep)
  BY <1>11, SecurityReads DEF JsonSaid
<1>13. TransportKept(Over(laid, stream), s, FALSE)
  <2>1. DOMAIN laid \cap NetSlices = {}
    BY ReadApart
  <2> HIDE DEF laid
  <2> QED BY <1>11, <2>1, TransportStays
<1>14. applySecurityParams(stream, json) = Over(laid, stream)
  BY DEF applySecurityParams
<1> QED BY <1>3, <1>12, <1>13, <1>14 DEF stream

-----------------------------------------------------------------------------
\* The links of hysteria.

\* What the parameters of a hysteria link say.
LEMMA HysteriaSays ==
  ASSUME NEW s, s.security = "tls"
  PROVE  LET params == HysteriaParams(s)
         IN  /\ TextOf(params, "sni") = s.tls.sni /\ TextOf(params, "fp") = s.tls.fp
             /\ IF s.tls.alpn = <<>> THEN "alpn" \notin DOMAIN params ELSE Holds(params, "alpn", s.tls.alpn)
<1> DEFINE top == [security |-> <<"tls">>]
           own == [fp |-> Part(s.tls.fp), alpn |-> s.tls.alpn, ech |-> Part(s.tls.ech), sni |-> Part(s.tls.sni),
                   pinSHA256 |-> s.tls.pins]
           obfs == Keep(s.fm # "", "obfs", <<"salamander">>)
           mask == FinalMask(s)
           low == Over(mask, obfs)
           mid == Over(Said(own), low)
           params == Over(top, mid)
<1>1. HysteriaParams(s) = params
  BY DEF HysteriaParams
<1>2. DOMAIN top = {"security"}
  OBVIOUS
<1>3. /\ DOMAIN own = {"fp", "alpn", "ech", "sni", "pinSHA256"} /\ own["fp"] = Part(s.tls.fp) /\ own["alpn"] = s.tls.alpn
      /\ own["sni"] = Part(s.tls.sni)
  OBVIOUS
<1>4. DOMAIN mask \subseteq {"fm"} /\ DOMAIN obfs \subseteq {"obfs"}
  BY OtherKeys, KeepIs
<1> HIDE DEF top, own, mask, obfs
<1>5. DOMAIN low \subseteq {"fm", "obfs"}
  BY <1>4 DEF Over
<1> HIDE DEF low
<1>6. \A k \in {"fp", "alpn", "sni"} : k \notin DOMAIN low /\ k \notin DOMAIN top /\ k \in DOMAIN own
  BY <1>2, <1>3, <1>5
<1>7. \A k \in {"fp", "alpn", "sni"} : SaysAlike(mid, Said(own), k)
  BY <1>6, OverSays
<1> HIDE DEF mid
<1>8. \A k \in {"fp", "alpn", "sni"} : SaysAlike(params, mid, k)
  BY <1>6, OverSays
<1> HIDE DEF params
<1>9. \A k \in {"fp", "alpn", "sni"} : SaysAlike(params, Said(own), k)
  BY <1>7, <1>8 DEF SaysAlike
<1>10. TextOf(params, "sni") = s.tls.sni
  <2>1. TextOf(params, "sni") = TextOf(Said(own), "sni")
    BY <1>9, ReadAlike
  <2> QED BY <1>3, <2>1, SaidIs, PartIs
<1>11. TextOf(params, "fp") = s.tls.fp
  <2>1. TextOf(params, "fp") = TextOf(Said(own), "fp")
    BY <1>9, ReadAlike
  <2> QED BY <1>3, <2>1, SaidIs, PartIs
<1>12. /\ "alpn" \in DOMAIN Said(own) <=> own["alpn"] # <<>>
       /\ "alpn" \in DOMAIN Said(own) => Said(own)["alpn"] = own["alpn"]
  BY <1>3 DEF Said
<1>13. SaysAlike(params, Said(own), "alpn")
  BY <1>9
<1>14. IF s.tls.alpn = <<>> THEN "alpn" \notin DOMAIN params ELSE Holds(params, "alpn", s.tls.alpn)
  BY <1>3, <1>12, <1>13 DEF SaysAlike, Holds
<1> QED BY <1>1, <1>10, <1>11, <1>14

\* The stream of a hysteria outbound.
HysteriaKept(stream, s, auth) ==
  /\ "xhttpSettings" \notin DOMAIN stream /\ Holds(stream, "network", "hysteria") /\ Holds(stream, "security", "tls")
  /\ stream["hysteriaSettings"].auth = auth
  /\ LET tls == stream["tlsSettings"]
     IN tls.serverName = s.tls.sni /\ tls.fingerprint = s.tls.fp
        /\ tls.alpn = IF s.tls.alpn = <<>> THEN <<"h3">> ELSE s.tls.alpn

\* What is read of a link of hysteria version 2.
LEMMA HysteriaKeeps ==
  ASSUME NEW inb, inb.version = 2, inb.stream.security = "tls", NEW address, NEW port, NEW remark, NEW client
  PROVE  LET link == genHysteriaLink(inb, address, port, remark, client)
         IN  \E stream : /\ parseOutboundLink(link) = Streamed("hysteria", remark, [address |-> address, port |-> Port(port, 443), version |-> 2], stream)
                         /\ HysteriaKept(stream, inb.stream, Encoded(client.auth))
<1> DEFINE s == inb.stream
           link == genHysteriaLink(inb, address, port, remark, client)
           params == HysteriaParams(s)
           auth == Encoded(client.auth)
           mask == Keep("fm" \in DOMAIN params, "finalmask", Text(params, "fm", ""))
           tls == [serverName |-> Text(params, "sni", ""), alpn |-> Read(params, "alpn", <<"h3">>),
                   fingerprint |-> Text(params, "fp", ""), echConfigList |-> Text(params, "ech", ""),
                   pins |-> Read(params, "pinSHA256", <<>>)]
           settings == [version |-> 2, auth |-> auth]
           own == [network |-> "hysteria", security |-> "tls", hysteriaSettings |-> settings, tlsSettings |-> tls]
           stream == Over(mask, own)
<1>1. link = Link("hysteria2", auth, address, port, params, NoKeys, remark)
  BY DEF genHysteriaLink
<1>2. /\ link.scheme = "hysteria2" /\ link.user = auth /\ link.address = address /\ link.port = port
      /\ link.params = params /\ link.remark = remark
  BY <1>1 DEF Link
<1> HIDE DEF link
<1>3. parseOutboundLink(link) = parseHysteria2Link(link)
  BY <1>2 DEF parseOutboundLink
<1>4. parseHysteria2Link(link) = Streamed("hysteria", remark, [address |-> address, port |-> Port(port, 443), version |-> 2], stream)
  BY <1>2 DEF parseHysteria2Link, applyFinalMaskParam
<1>5. /\ tls.serverName = TextOf(params, "sni") /\ tls.fingerprint = TextOf(params, "fp")
      /\ tls.alpn = Read(params, "alpn", <<"h3">>)
  BY DEF TextOf
<1>6. settings.auth = auth
  OBVIOUS
<1> HIDE DEF tls, settings
<1>7. /\ DOMAIN own = {"network", "security", "hysteriaSettings", "tlsSettings"} /\ own["network"] = "hysteria"
      /\ own["security"] = "tls" /\ own["hysteriaSettings"] = settings /\ own["tlsSettings"] = tls
  OBVIOUS
<1>8. DOMAIN mask \subseteq {"finalmask"}
  BY KeepIs
<1> HIDE DEF mask, own
<1>9. /\ "xhttpSettings" \notin DOMAIN stream /\ Holds(stream, "network", "hysteria") /\ Holds(stream, "security", "tls")
      /\ stream["hysteriaSettings"] = settings /\ stream["tlsSettings"] = tls
  BY <1>7, <1>8 DEF Over, Holds
<1>10. tls.serverName = s.tls.sni /\ tls.fingerprint = s.tls.fp
  BY <1>5, HysteriaSays
<1>11. tls.alpn = IF s.tls.alpn = <<>> THEN <<"h3">> ELSE s.tls.alpn
  <2>1. IF s.tls.alpn = <<>> THEN "alpn" \notin DOMAIN params ELSE Holds(params, "alpn", s.tls.alpn)
    BY HysteriaSays
  <2> QED BY <1>5, <2>1 DEF Read, Holds
<1> HIDE DEF stream
<1>12. HysteriaKept(stream, s, auth)
  BY <1>6, <1>9, <1>10, <1>11 DEF HysteriaKept
<1> QED BY <1>3, <1>4, <1>12 DEF link

\* No other hysteria inbound has a link that can be imported.
LEMMA HysteriaIsParsed ==
  ASSUME NEW inb, NEW address, NEW port, NEW remark, NEW client,
         parseOutboundLink(genHysteriaLink(inb, address, port, remark, client)) # NotParsed
  PROVE  inb.version = 2 /\ inb.stream.security = "tls"
<1> DEFINE link == genHysteriaLink(inb, address, port, remark, client)
<1>1. ASSUME ~(inb.version = 2 /\ inb.stream.security = "tls") PROVE link.scheme \in {"", "hysteria"}
  BY <1>1 DEF genHysteriaLink, NoLink, Link
<1>2. link.scheme \in {"", "hysteria"} => parseOutboundLink(link) = NotParsed
  <2> HIDE DEF link
  <2> QED BY DEF parseOutboundLink
<1> QED BY <1>1, <1>2

\* Saving it keeps its TLS settings and its credential.
LEMMA HysteriaIsSaved ==
  ASSUME NEW item, item.inbound.protocol = "hysteria", item.inbound.stream.security = "tls", NEW stream, NEW auth,
         HysteriaKept(stream, item.inbound.stream, auth)
  PROVE  LET saved == stripUiOnlyStreamFields(stream)
         IN  SameSecurity(item, saved) /\ saved["hysteriaSettings"].auth = auth
<1> DEFINE s == item.inbound.stream
<1>1. stripUiOnlyStreamFields(stream) = stream
  BY DEF stripUiOnlyStreamFields, HysteriaKept
<1>2. Effective(s, "same") = "tls"
  BY DEF Effective
<1>3. SameSecurity(item, stream)
  <2> DEFINE tls == stream["tlsSettings"]
  <2>1. stream["security"] = "tls"
    BY DEF HysteriaKept, Holds
  <2>2. tls.serverName = s.tls.sni /\ tls.fingerprint = s.tls.fp /\ tls.alpn = IF s.tls.alpn = <<>> THEN <<"h3">> ELSE s.tls.alpn
    BY DEF HysteriaKept
  <2> HIDE DEF tls
  <2> QED BY <1>2, <2>1, <2>2 DEF SameSecurity, tls
<1> QED BY <1>1, <1>3 DEF HysteriaKept

-----------------------------------------------------------------------------
\* What is imported from a link, saved unchanged, agrees with what was shared.

\* What is known of the inbound that is shared.
LEMMA SharedStreamIs ==
  ASSUME NEW item \in Shared, item.inbound.protocol # "wireguard"
  PROVE  LET s == item.inbound.stream
         IN  /\ IsShared(s) /\ s.network # "" /\ Allowed(s, Secured(item))
             /\ item.inbound.protocol \notin {"vless", "trojan"} => Secured(item) \in {"none", "tls"}
<1> DEFINE s == item.inbound.stream
<1>1. IsSharable(item.inbound)
  BY OutboundAssumption
<1>2. IsInboundStream(s, item.inbound.protocol)
  BY <1>1 DEF IsSharable
<1>3. IsShared(s) /\ s.network # ""
  <2>1. s.network # "" /\ {s.http, s.multi, s.obfs} \subseteq BOOLEAN /\ (s.network = "xhttp" => s.mode # "")
    BY <1>2 DEF IsInboundStream
  <2> QED BY <2>1 DEF IsShared, IsNetwork, HasMode
<1>4. /\ s.security \in {"none", "tls", "reality"} /\ (s.security = "reality" => IsReality(s.reality))
      /\ item.inbound.protocol \notin {"vless", "trojan"} => s.security \in {"none", "tls"}
  BY <1>2 DEF IsInboundStream
<1>5. Forced(item) \in {"same", "none", "tls"}
  <2>1. Proxied(Proxy(item))
    BY SharedLinkIs
  <2> QED BY <2>1 DEF Forced, Proxied, IsProxy
<1>6. Secured(item) \in {s.security, "none", "tls"}
  BY <1>5 DEF Secured, Effective
<1> QED BY <1>3, <1>4, <1>6 DEF Allowed

\* What an outbound has of the item it was made from.
Agrees(item, outbound) ==
  LET protocol == item.inbound.protocol
      stream == outbound.streamSettings
  IN /\ SameServer(item, outbound)
     /\ IF protocol = "shadowsocks"
        THEN Server1(outbound).method = item.inbound.method
        ELSE /\ ClientCredential(item) # Reserved => Credential(outbound) = ClientCredential(item)
             /\ protocol # "hysteria" => SameTransport(item, stream)
             /\ SameSecurity(item, stream)
             /\ protocol = "vless" =>
                  (outbound.settings.flow # "" <=>
                     /\ item.client.flow # "" /\ item.inbound.stream.network = "tcp"
                     /\ stream["security"] \in {"tls", "reality"}
                     /\ stream["security"] = item.inbound.stream.security)

\* The security a link says is the one that is read.
LEMMA SecurityText ==
  ASSUME NEW params, NEW d, NEW security \in {"none", "tls", "reality"}, TextOf(params, "security") = security
  PROVE  Text(params, "security", d) = security
BY DEF TextOf, Text

\* A stream with the item's transport and security agrees once it is stored.
LEMMA StreamAgrees ==
  ASSUME NEW item \in Shared, item.inbound.protocol \notin {"wireguard", "hysteria"}, NEW stream, NEW moded,
         moded \/ item.inbound.protocol = "vmess", TransportKept(stream, item.inbound.stream, moded),
         SecurityKept(stream, item.inbound.stream, Secured(item), Proxy(item))
  PROVE  LET saved == stripUiOnlyStreamFields(stream)
         IN  IsPlain(stream) /\ SameTransport(item, saved) /\ SameSecurity(item, saved) /\ saved["security"] = Secured(item)
<1> DEFINE s == item.inbound.stream
           saved == stripUiOnlyStreamFields(stream)
<1>1. IsShared(s) /\ s.network # ""
  BY SharedStreamIs
<1>2. IsPlain(stream)
  BY <1>1 DEF IsPlain, TransportKept, Holds, XhttpKept
<1>3. SameTransport(item, saved)
  BY <1>1, TransportIsSaved
<1>4. Secured(item) = Effective(s, IF Proxy(item) = Nothing THEN "same" ELSE Proxy(item).forceTls)
  BY DEF Secured, Forced
<1>5. SameSecurity(item, saved) /\ saved["security"] = Secured(item)
  BY <1>4, SecurityIsSaved
<1> QED BY <1>2, <1>3, <1>5

\* What is saved of an outbound that was parsed and has a stream.
LEMMA SavedStream ==
  ASSUME NEW p \in {"vmess", "vless", "trojan"}, NEW t, NEW settings, NEW stream, IsPlain(stream), NEW tag
  PROVE  LET o == Saved(Streamed(p, t, settings, stream), tag)
         IN  /\ o.protocol = p /\ o.settings = SettingsToWire(p, SettingsFromWire(p, settings))
             /\ o.streamSettings = stripUiOnlyStreamFields(stream)
<1>1. p \in {"vmess", "vless", "trojan", "hysteria"} /\ p # "hysteria"
  OBVIOUS
<1>2. RidesWith(p, stream)
  BY <1>1 DEF RidesWith
<1> QED BY <1>1, <1>2, SavedIs

\* A trojan outbound agrees with the inbound or the proxy its link is for.
LEMMA TrojanAgrees ==
  ASSUME NEW item \in Shared, item.inbound.protocol = "trojan", NEW tag
  PROVE  Agrees(item, Saved(parseOutboundLink(SharedLink(item)), tag))
<1> DEFINE inb == item.inbound
           link == SharedLink(item)
           security == Secured(item)
<1>1. Proxied(Proxy(item)) /\ \E address : \E port \in Ports : link = LinkTo(item, address, port) /\ Leads(item, address, port)
  BY SharedLinkIs
<1>2. PICK address : \E port \in Ports : link = LinkTo(item, address, port) /\ Leads(item, address, port)
  BY <1>1
<1>3. PICK port \in Ports : link = LinkTo(item, address, port) /\ Leads(item, address, port)
  BY <1>2
<1>4. link = genTrojanLink(inb, address, port, Forced(item), item.remark, item.client, Proxy(item))
  BY <1>3 DEF LinkTo, genLink
<1>5. IsShared(inb.stream) /\ Allowed(inb.stream, security)
  BY SharedStreamIs
<1>6. Allowed(inb.stream, Effective(inb.stream, Forced(item))) /\ (Proxy(item) = Nothing \/ IsProxy(Proxy(item)))
  BY <1>1, <1>5 DEF Secured, Proxied
<1> HIDE DEF link
<1>7. /\ QuerySaid(link.params, inb.stream, security, Proxy(item)) /\ link.extra = Extra(inb.stream)
      /\ link.scheme = "trojan" /\ link.user = Encoded(item.client.password) /\ link.address = address /\ link.port = port
  BY <1>4, <1>5, <1>6, TrojanQuery DEF Secured
<1>8. Text(link.params, "security", "tls") = security
  BY <1>5, <1>7, SecurityText DEF QuerySaid, SecuritySaid, Allowed
<1> DEFINE stream == ParsedStream(link, security)
           saved == stripUiOnlyStreamFields(stream)
           raw == [servers |-> <<[address |-> address, port |-> port, password |-> link.user]>>]
           o == Saved(parseOutboundLink(link), tag)
<1>9. TransportKept(stream, inb.stream, TRUE) /\ SecurityKept(stream, inb.stream, security, Proxy(item))
  BY <1>5, <1>7, QueryKeeps
<1>10. IsPlain(stream) /\ SameTransport(item, saved) /\ SameSecurity(item, saved)
  BY <1>9, StreamAgrees
<1>11. parseOutboundLink(link) = Streamed("trojan", link.remark, raw, stream)
  <2>1. parseOutboundLink(link) = parseTrojanLink(link)
    BY <1>7 DEF parseOutboundLink
  <2>2. Port(link.port, 443) = port
    BY <1>7, PortIs
  <2> QED BY <1>7, <1>8, <2>1, <2>2 DEF parseTrojanLink
<1> HIDE DEF stream, raw
<1>12. o.protocol = "trojan" /\ o.settings = SettingsToWire("trojan", SettingsFromWire("trojan", raw)) /\ o.streamSettings = saved
  BY <1>10, <1>11, SavedStream
<1>13. /\ o.settings.servers[1].address = address /\ o.settings.servers[1].port = port
       /\ o.settings.servers[1].password = link.user
  BY <1>12, TrojanSettings DEF raw
<1> HIDE DEF saved, o
<1>14. Server1(o).address = address /\ Server1(o).port = port /\ Credential(o) = link.user
  BY <1>12, <1>13 DEF Server1, Credential
<1>15. SameServer(item, o)
  BY <1>3, <1>12, <1>14 DEF SameServer, Leads
<1>16. ClientCredential(item) # Reserved => Credential(o) = ClientCredential(item)
  BY <1>7, <1>14 DEF ClientCredential, Encoded
<1>17. Agrees(item, o)
  BY <1>10, <1>12, <1>15, <1>16 DEF Agrees
<1> QED BY <1>17 DEF o, link

\* When a vless link has a flow.
HasFlow(s, security, flow) ==
  security = s.security /\ security \in {"tls", "reality"} /\ s.network = "tcp" /\ flow # ""

\* A link says a flow exactly then.
LEMMA FlowSays ==
  ASSUME NEW s, NEW security, NEW flow
  PROVE  TextOf(FlowParam(s, security, flow), "flow") # "" <=> HasFlow(s, security, flow)
<1>1. CASE HasFlow(s, security, flow)
  <2>1. FlowParam(s, security, flow) = [k \in {"flow"} |-> Part(flow)]
    BY <1>1 DEF FlowParam, Keep, HasFlow
  <2>2. Text(FlowParam(s, security, flow), "flow", "") = One(Part(flow))
    BY <2>1 DEF Text
  <2>3. One(Part(flow)) = flow
    BY PartIs
  <2> QED BY <1>1, <2>2, <2>3 DEF TextOf, HasFlow
<1>2. CASE ~HasFlow(s, security, flow)
  <2>1. FlowParam(s, security, flow) = [k \in {} |-> Part(flow)]
    BY <1>2 DEF FlowParam, Keep, HasFlow
  <2>2. "flow" \notin DOMAIN FlowParam(s, security, flow)
    BY <2>1
  <2> QED BY <1>2, <2>2 DEF TextOf, Text
<1> QED BY <1>1, <1>2

\* So does a vless outbound, with its flow.
LEMMA VlessAgrees ==
  ASSUME NEW item \in Shared, item.inbound.protocol = "vless", NEW tag
  PROVE  Agrees(item, Saved(parseOutboundLink(SharedLink(item)), tag))
<1> DEFINE inb == item.inbound
           link == SharedLink(item)
           security == Secured(item)
<1>1. Proxied(Proxy(item)) /\ \E address : \E port \in Ports : link = LinkTo(item, address, port) /\ Leads(item, address, port)
  BY SharedLinkIs
<1>2. PICK address : \E port \in Ports : link = LinkTo(item, address, port) /\ Leads(item, address, port)
  BY <1>1
<1>3. PICK port \in Ports : link = LinkTo(item, address, port) /\ Leads(item, address, port)
  BY <1>2
<1>4. link = genVlessLink(inb, address, port, Forced(item), item.remark, item.client, Proxy(item))
  BY <1>3 DEF LinkTo, genLink
<1>5. IsShared(inb.stream) /\ Allowed(inb.stream, security)
  BY SharedStreamIs
<1>6. Allowed(inb.stream, Effective(inb.stream, Forced(item))) /\ (Proxy(item) = Nothing \/ IsProxy(Proxy(item)))
  BY <1>1, <1>5 DEF Secured, Proxied
<1> HIDE DEF link
<1>7. /\ QuerySaid(link.params, inb.stream, security, Proxy(item)) /\ link.extra = Extra(inb.stream)
      /\ TextOf(link.params, "flow") = TextOf(FlowParam(inb.stream, security, item.client.flow), "flow")
      /\ link.scheme = "vless" /\ link.user = Encoded(item.client.id) /\ link.address = address /\ link.port = port
  BY <1>4, <1>5, <1>6, VlessQuery DEF Secured
<1>8. Text(link.params, "security", "none") = security
  BY <1>5, <1>7, SecurityText DEF QuerySaid, SecuritySaid, Allowed
<1> DEFINE stream == ParsedStream(link, security)
           saved == stripUiOnlyStreamFields(stream)
           flow == TextOf(link.params, "flow")
           encryption == Text(link.params, "encryption", "none")
           raw == [address |-> address, port |-> port, id |-> link.user, flow |-> flow, encryption |-> encryption]
           o == Saved(parseOutboundLink(link), tag)
<1>9. TransportKept(stream, inb.stream, TRUE) /\ SecurityKept(stream, inb.stream, security, Proxy(item))
  BY <1>5, <1>7, QueryKeeps
<1>10. IsPlain(stream) /\ SameTransport(item, saved) /\ SameSecurity(item, saved) /\ saved["security"] = security
  BY <1>9, StreamAgrees
<1>11. parseOutboundLink(link) = Streamed("vless", link.remark, raw, stream)
  <2>1. parseOutboundLink(link) = parseVlessLink(link)
    BY <1>7 DEF parseOutboundLink
  <2>2. Port(link.port, 443) = port
    BY <1>7, PortIs
  <2>3. parseVlessLink(link) = Streamed("vless", link.remark,
           [address |-> link.address, port |-> Port(link.port, 443), id |-> link.user, flow |-> flow, encryption |-> encryption],
           ParsedStream(link, Text(link.params, "security", "none")))
    BY DEF parseVlessLink, TextOf
  <2> QED BY <1>7, <1>8, <2>1, <2>2, <2>3
<1> HIDE DEF stream, raw
<1>12. o.protocol = "vless" /\ o.settings = SettingsToWire("vless", SettingsFromWire("vless", raw)) /\ o.streamSettings = saved
  BY <1>10, <1>11, SavedStream
<1> HIDE DEF flow, encryption
<1>13. o.settings.address = address /\ o.settings.port = port /\ o.settings.id = link.user /\ o.settings.flow = flow
  BY <1>12, VlessSettings DEF raw
<1> HIDE DEF saved, o
<1>14. Server1(o).address = address /\ Server1(o).port = port /\ Credential(o) = link.user
  BY <1>12, <1>13 DEF Server1, Credential
<1>15. SameServer(item, o)
  BY <1>3, <1>12, <1>14 DEF SameServer, Leads
<1>16. ClientCredential(item) # Reserved => Credential(o) = ClientCredential(item)
  BY <1>7, <1>14 DEF ClientCredential, Encoded
<1>17. flow # "" <=> HasFlow(inb.stream, security, item.client.flow)
  BY <1>7, FlowSays DEF flow
<1>18. o.settings.flow # "" <=>
         /\ item.client.flow # "" /\ inb.stream.network = "tcp"
         /\ o.streamSettings["security"] \in {"tls", "reality"}
         /\ o.streamSettings["security"] = inb.stream.security
  BY <1>10, <1>12, <1>13, <1>17 DEF HasFlow
<1>19. Agrees(item, o)
  BY <1>10, <1>12, <1>15, <1>16, <1>18 DEF Agrees
<1> QED BY <1>19 DEF o, link

\* So does one of vmess, whose link has no mode of xhttp.
LEMMA VmessAgrees ==
  ASSUME NEW item \in Shared, item.inbound.protocol = "vmess", NEW tag
  PROVE  Agrees(item, Saved(parseOutboundLink(SharedLink(item)), tag))
<1> DEFINE inb == item.inbound
           link == SharedLink(item)
           security == Secured(item)
<1>1. Proxied(Proxy(item)) /\ \E address : \E port \in Ports : link = LinkTo(item, address, port) /\ Leads(item, address, port)
  BY SharedLinkIs
<1>2. PICK address : \E port \in Ports : link = LinkTo(item, address, port) /\ Leads(item, address, port)
  BY <1>1
<1>3. PICK port \in Ports : link = LinkTo(item, address, port) /\ Leads(item, address, port)
  BY <1>2
<1>4. link = genVmessLink(inb, address, port, Forced(item), item.remark, item.client, Proxy(item))
  BY <1>3 DEF LinkTo, genLink
<1>5. IsShared(inb.stream) /\ security \in {"none", "tls"}
  BY SharedStreamIs
<1>6. Effective(inb.stream, Forced(item)) \in {"none", "tls"} /\ (Proxy(item) = Nothing \/ IsProxy(Proxy(item)))
  BY <1>1, <1>5 DEF Secured, Proxied
<1> HIDE DEF link
<1>7. /\ JsonSaid(link.params, inb.stream, security, Proxy(item))
      /\ link.scheme = "vmess" /\ link.user = item.client.id /\ link.address = address /\ link.port = port
  BY <1>4, <1>5, <1>6, VmessQuery DEF Secured
<1> DEFINE json == link.params
           stream == applySecurityParams(VmessStream(json), json)
           saved == stripUiOnlyStreamFields(stream)
           scy == Or(Text(json, "scy", ""), "auto")
           raw == [vnext |-> <<[address |-> address, port |-> port, users |-> <<[id |-> link.user, security |-> scy]>>]>>]
           o == Saved(parseOutboundLink(link), tag)
<1>9. TransportKept(stream, inb.stream, FALSE) /\ SecurityKept(stream, inb.stream, security, Proxy(item))
  BY <1>5, <1>7, VmessKeeps
<1>10. IsPlain(stream) /\ SameTransport(item, saved) /\ SameSecurity(item, saved)
  BY <1>9, StreamAgrees
<1>11. parseOutboundLink(link) = Streamed("vmess", link.remark, raw, stream)
  <2>1. parseOutboundLink(link) = parseVmessLink(link)
    BY <1>7 DEF parseOutboundLink
  <2>2. Port(link.port, 443) = port
    BY <1>7, PortIs
  <2> QED BY <1>7, <2>1, <2>2 DEF parseVmessLink
<1> HIDE DEF stream, raw
<1>12. o.protocol = "vmess" /\ o.settings = SettingsToWire("vmess", SettingsFromWire("vmess", raw)) /\ o.streamSettings = saved
  BY <1>10, <1>11, SavedStream
<1> HIDE DEF scy
<1>13. /\ o.settings.vnext[1].address = address /\ o.settings.vnext[1].port = port
       /\ o.settings.vnext[1].users[1].id = link.user
  BY <1>12, VmessSettings DEF raw
<1> HIDE DEF saved, o
<1>14. Server1(o).address = address /\ Server1(o).port = port /\ Credential(o) = link.user
  BY <1>12, <1>13 DEF Server1, Credential
<1>15. SameServer(item, o)
  BY <1>3, <1>12, <1>14 DEF SameServer, Leads
<1>16. Credential(o) = ClientCredential(item)
  BY <1>7, <1>14 DEF ClientCredential
<1>17. Agrees(item, o)
  BY <1>10, <1>12, <1>15, <1>16 DEF Agrees
<1> QED BY <1>17 DEF o, link

\* One of shadowsocks has the server and the method.
LEMMA ShadowsocksAgrees ==
  ASSUME NEW item \in Shared, item.inbound.protocol = "shadowsocks", NEW tag
  PROVE  Agrees(item, Saved(parseOutboundLink(SharedLink(item)), tag))
<1> DEFINE inb == item.inbound
           link == SharedLink(item)
           user == ShadowsocksUser(inb, item.client)
<1>1. \E address : \E port \in Ports : link = LinkTo(item, address, port) /\ Leads(item, address, port)
  BY SharedLinkIs
<1>2. PICK address : \E port \in Ports : link = LinkTo(item, address, port) /\ Leads(item, address, port)
  BY <1>1
<1>3. PICK port \in Ports : link = LinkTo(item, address, port) /\ Leads(item, address, port)
  BY <1>2
<1>4. link = genShadowsocksLink(inb, address, port, Forced(item), item.remark, item.client, Proxy(item))
  BY <1>3 DEF LinkTo, genLink
<1> HIDE DEF link
<1>5. link.scheme = "ss" /\ link.user = user /\ link.address = address /\ link.port = port
  BY <1>4 DEF genShadowsocksLink, Link
<1>6. Head(user) = inb.method
  BY DEF ShadowsocksUser
<1> HIDE DEF user
<1> DEFINE raw == [servers |-> <<[address |-> address, port |-> port, password |-> Tail(user), method |-> inb.method]>>]
           o == Saved(parseOutboundLink(link), tag)
<1>7. parseOutboundLink(link) = Outbound("shadowsocks", link.remark, raw)
  <2>1. parseOutboundLink(link) = parseShadowsocksLink(link)
    BY <1>5 DEF parseOutboundLink
  <2>2. Port(link.port, 443) = port
    BY <1>5, PortIs
  <2> QED BY <1>5, <1>6, <2>1, <2>2 DEF parseShadowsocksLink
<1>8. "shadowsocks" \in Protocols \ {"hysteria"}
  BY DEF Protocols
<1> HIDE DEF raw
<1>9. o.protocol = "shadowsocks" /\ o.settings = SettingsToWire("shadowsocks", SettingsFromWire("shadowsocks", raw))
  BY <1>7, <1>8, SavedPlainly
<1>10. /\ o.settings.servers[1].address = address /\ o.settings.servers[1].port = port
       /\ o.settings.servers[1].method = inb.method
  BY <1>9, ShadowsocksSettings DEF raw
<1> HIDE DEF o
<1>11. Server1(o).address = address /\ Server1(o).port = port /\ Server1(o).method = inb.method
  BY <1>9, <1>10 DEF Server1
<1>12. SameServer(item, o)
  BY <1>3, <1>9, <1>11 DEF SameServer, Leads
<1>13. Agrees(item, o)
  BY <1>11, <1>12 DEF Agrees
<1> QED BY <1>13 DEF o, link

\* One of hysteria has the server, the credential and TLS.
LEMMA HysteriaAgrees ==
  ASSUME NEW item \in Shared, item.inbound.protocol = "hysteria", parseOutboundLink(SharedLink(item)) # NotParsed, NEW tag
  PROVE  Agrees(item, Saved(parseOutboundLink(SharedLink(item)), tag))
<1> DEFINE inb == item.inbound
           link == SharedLink(item)
           auth == Encoded(item.client.auth)
<1>1. \E address : \E port \in Ports : link = LinkTo(item, address, port) /\ Leads(item, address, port)
  BY SharedLinkIs
<1>2. PICK address : \E port \in Ports : link = LinkTo(item, address, port) /\ Leads(item, address, port)
  BY <1>1
<1>3. PICK port \in Ports : link = LinkTo(item, address, port) /\ Leads(item, address, port)
  BY <1>2
<1>4. link = genHysteriaLink(inb, address, port, item.remark, item.client)
  BY <1>3 DEF LinkTo, genLink
<1> HIDE DEF link
<1>5. parseOutboundLink(link) # NotParsed
  BY DEF link
<1>6. inb.version = 2 /\ inb.stream.security = "tls"
  BY <1>4, <1>5, HysteriaIsParsed
<1> DEFINE raw == [address |-> address, port |-> port, version |-> 2]
           o == Saved(parseOutboundLink(link), tag)
<1>7. \E stream : /\ parseOutboundLink(link) = Streamed("hysteria", item.remark, [address |-> address, port |-> Port(port, 443), version |-> 2], stream)
                  /\ HysteriaKept(stream, inb.stream, auth)
  BY <1>4, <1>6, HysteriaKeeps
<1>8. Port(port, 443) = port
  BY PortIs
<1>9. PICK stream : parseOutboundLink(link) = Streamed("hysteria", item.remark, raw, stream) /\ HysteriaKept(stream, inb.stream, auth)
  BY <1>7, <1>8
<1> DEFINE saved == stripUiOnlyStreamFields(stream)
<1>10. IsPlain(stream) /\ RidesWith("hysteria", stream)
  BY <1>9 DEF IsPlain, RidesWith, HysteriaKept, Holds, Read
<1>11. SameSecurity(item, saved) /\ saved["hysteriaSettings"].auth = auth
  BY <1>6, <1>9, HysteriaIsSaved
<1> HIDE DEF raw
<1>12. o.protocol = "hysteria" /\ o.settings = SettingsToWire("hysteria", SettingsFromWire("hysteria", raw)) /\ o.streamSettings = saved
  BY <1>9, <1>10, SavedIs
<1>13. o.settings.address = address /\ o.settings.port = port
  BY <1>12, HysteriaSettings DEF raw
<1> HIDE DEF saved, o
<1>14. Server1(o).address = address /\ Server1(o).port = port /\ Credential(o) = auth
  BY <1>11, <1>12, <1>13 DEF Server1, Credential
<1>15. SameServer(item, o)
  BY <1>3, <1>12, <1>14 DEF SameServer, Leads
<1>16. ClientCredential(item) # Reserved => Credential(o) = ClientCredential(item)
  BY <1>14 DEF ClientCredential, Encoded
<1>17. Agrees(item, o)
  BY <1>11, <1>12, <1>15, <1>16 DEF Agrees
<1> QED BY <1>17 DEF o, link

\* An inbound of another protocol has no link.
LEMMA LinkedProtocols ==
  ASSUME NEW item \in Shared, item.inbound.protocol # "wireguard", parseOutboundLink(SharedLink(item)) # NotParsed
  PROVE  item.inbound.protocol \in {"vmess", "vless", "trojan", "shadowsocks", "hysteria"}
<1> SUFFICES ASSUME item.inbound.protocol \notin {"vmess", "vless", "trojan", "shadowsocks", "hysteria"} PROVE FALSE
  OBVIOUS
<1>1. \E address : \E port \in Ports : SharedLink(item) = LinkTo(item, address, port) /\ Leads(item, address, port)
  BY SharedLinkIs
<1>2. PICK address, port : SharedLink(item) = LinkTo(item, address, port)
  BY <1>1
<1>3. LinkTo(item, address, port) = NoLink
  BY DEF LinkTo, genLink
<1>4. NoLink.scheme = ""
  BY DEF NoLink, Link
<1>5. parseOutboundLink(NoLink) = NotParsed
  <2> HIDE DEF NoLink
  <2> QED BY <1>4 DEF parseOutboundLink
<1> QED BY <1>2, <1>3, <1>5

\* Whatever can be imported and is saved unchanged agrees with what was shared.
LEMMA SavedAgrees ==
  ASSUME NEW item \in Shared, item.inbound.protocol # "wireguard", parseOutboundLink(SharedLink(item)) # NotParsed, NEW tag
  PROVE  Agrees(item, Saved(parseOutboundLink(SharedLink(item)), tag))
<1>1. item.inbound.protocol \in {"vmess", "vless", "trojan", "shadowsocks", "hysteria"}
  BY LinkedProtocols
<1>2. CASE item.inbound.protocol = "vmess"
  BY <1>2, VmessAgrees
<1>3. CASE item.inbound.protocol = "vless"
  BY <1>3, VlessAgrees
<1>4. CASE item.inbound.protocol = "trojan"
  BY <1>4, TrojanAgrees
<1>5. CASE item.inbound.protocol = "shadowsocks"
  BY <1>5, ShadowsocksAgrees
<1>6. CASE item.inbound.protocol = "hysteria"
  BY <1>6, HysteriaAgrees
<1> QED BY <1>1, <1>2, <1>3, <1>4, <1>5, <1>6

\* As long as the form is said to be imported, it is what the link was made into.
OriginInv ==
  origin # Nothing =>
    /\ dialog.open /\ origin \in Shared /\ parseOutboundLink(SharedLink(origin)) # NotParsed
    /\ \E tag : dialog.form = Shown(parseOutboundLink(SharedLink(origin)), tag)

\* Importing makes the form from the link; the other steps of the tabs keep it.
LEMMA OriginTabs ==
  ASSUME OutboundsInv, OriginInv, ShowJson \/ EditJson \/ ShowForm \/ importLink
  PROVE  OriginInv'
<1>1. dialog.open = TRUE /\ DOMAIN dialog = DialogKeys /\ IsOutboundForm(dialog.form)
  BY DEF ShowJson, EditJson, ShowForm, importLink, OutboundsInv, DialogOK
<1>2. ASSUME dialog'.open = TRUE, dialog'.form = dialog.form, origin' = origin
      PROVE  OriginInv'
  BY <1>2 DEF OriginInv
<1>3. ASSUME origin' = Nothing
      PROVE  OriginInv'
  BY <1>3 DEF OriginInv
<1>4. CASE ShowJson
  <2> DEFINE json == Json(dialog.form)
  <2>1. dialog' = [dialog EXCEPT !.tab = "json", !.json = json, !.dirty = FALSE] /\ origin' = origin
    BY <1>4 DEF ShowJson
  <2> HIDE DEF json
  <2>2. dialog'.open = TRUE /\ dialog'.form = dialog.form
    BY <1>1, <2>1 DEF DialogKeys
  <2> QED BY <1>2, <2>1, <2>2
<1>5. CASE EditJson
  <2>1. PICK json : dialog' = [dialog EXCEPT !.json = json, !.dirty = TRUE]
    BY <1>5 DEF EditJson
  <2>2. dialog'.open = TRUE /\ dialog'.form = dialog.form /\ origin' = origin
    BY <1>1, <1>5, <2>1 DEF DialogKeys, EditJson
  <2> QED BY <1>2, <2>2
<1>6. CASE ShowForm /\ ~(dialog.dirty /\ dialog.json # NoJson)
  <2>1. dialog' = [dialog EXCEPT !.tab = "form"] /\ origin' = origin
    BY <1>6 DEF ShowForm
  <2>2. dialog'.open = TRUE /\ dialog'.form = dialog.form
    BY <1>1, <2>1 DEF DialogKeys
  <2> QED BY <1>2, <2>1, <2>2
<1>7. CASE ShowForm /\ dialog.dirty /\ dialog.json # NoJson
  <2>1. origin' = Nothing
    BY <1>7 DEF ShowForm
  <2> QED BY <1>3, <2>1
<1>8. CASE importLink
  <2>1. PICK item \in Shared :
          LET parsed == parseOutboundLink(SharedLink(item))
              next == [rawOutboundToFormValues(parsed) EXCEPT !.tag = IF @ = "" THEN dialog.form.tag ELSE @]
          IN  /\ parsed # NotParsed /\ origin' = item
              /\ dialog' = [dialog EXCEPT !.form = Settled(next), !.json = Json(next), !.dirty = FALSE, !.tab = "form"]
    BY <1>8 DEF importLink
  <2> DEFINE parsed == parseOutboundLink(SharedLink(item))
             raw == rawOutboundToFormValues(parsed)
             tag == IF raw.tag = "" THEN dialog.form.tag ELSE raw.tag
             next == [raw EXCEPT !.tag = tag]
             settled == Settled(next)
             json == Json(next)
  <2>2. /\ dialog' = [dialog EXCEPT !.form = settled, !.json = json, !.dirty = FALSE, !.tab = "form"]
        /\ parsed # NotParsed /\ origin' = item
    BY <2>1
  <2>3. settled = Shown(parsed, tag)
    BY DEF Shown
  <2> HIDE DEF settled, json, tag, parsed
  <2>4. dialog'.open = TRUE /\ dialog'.form = settled
    BY <1>1, <2>2 DEF DialogKeys
  <2>5. \E t : dialog'.form = Shown(parsed, t)
    BY <2>3, <2>4
  <2> QED BY <2>2, <2>4, <2>5 DEF OriginInv, parsed
<1> QED BY <1>4, <1>5, <1>6, <1>7, <1>8

\* A change of the form forgets where it came from, and so does the dialog when it closes.
LEMMA OriginInductive == Spec => []OriginInv
<1>1. Init => OriginInv
  BY DEF Init, OriginInv
<1>2. OutboundsInv /\ OriginInv /\ [Next]_vars => OriginInv'
  <2> SUFFICES ASSUME OutboundsInv, OriginInv, [Next]_vars PROVE OriginInv'
    OBVIOUS
  <2>1. ASSUME origin' = Nothing PROVE OriginInv'
    BY <2>1 DEF OriginInv
  <2>2. ASSUME dialog' = dialog, origin' = origin PROVE OriginInv'
    BY <2>2 DEF OriginInv
  <2>3. CASE confirmDelete \/ setFirst \/ Move
    BY <2>2, <2>3 DEF confirmDelete, setFirst, Move
  <2>4. CASE openAdd \/ openEdit
    <3>1. ~dialog.open /\ origin' = origin
      BY <2>4 DEF openAdd, openEdit
    <3>2. origin = Nothing
      BY <3>1 DEF OriginInv
    <3> QED BY <2>1, <3>1, <3>2
  <2>5. CASE onClose \/ onOk
    BY <2>1, <2>5 DEF onClose, onOk
  <2>6. CASE EditTag \/ EditFlow \/ ToggleMux
    BY <2>1, <2>6 DEF EditTag, EditFlow, ToggleMux, Becomes
  <2>7. CASE onValuesChange
    BY <2>1, <2>7 DEF onValuesChange, ChangeProtocol, Becomes
  <2>8. CASE onNetworkChange \/ onSecurityChange \/ onXmuxToggle \/ ToggleSockopt
    BY <2>1, <2>8 DEF onNetworkChange, onSecurityChange, onXmuxToggle, ToggleSockopt, Becomes
  <2>9. CASE ShowJson \/ EditJson \/ ShowForm \/ importLink
    BY <2>9, OriginTabs
  <2>10. CASE UNCHANGED vars
    BY <2>2, <2>10 DEF vars
  <2> QED BY <2>3, <2>4, <2>5, <2>6, <2>7, <2>8, <2>9, <2>10 DEF Next
<1> QED BY <1>1, <1>2, OutboundsInductive, PTL DEF Spec

\* An outbound made from a shared link and saved unchanged reaches the same
\* server, as the same client, over the same transport and security.
THEOREM ImportedOutboundAgrees == Spec => []ImportAgrees
<1>1. OriginInv => ImportAgrees
  <2> SUFFICES ASSUME OriginInv, origin # Nothing, origin.inbound.protocol # "wireguard"
               PROVE  Agrees(origin, formValuesToWirePayload(dialog.form))
    BY DEF ImportAgrees, Agrees
  <2>1. PICK tag : dialog.form = Shown(parseOutboundLink(SharedLink(origin)), tag)
    BY DEF OriginInv
  <2>2. formValuesToWirePayload(dialog.form) = Saved(parseOutboundLink(SharedLink(origin)), tag)
    BY <2>1 DEF Saved
  <2>3. origin \in Shared /\ parseOutboundLink(SharedLink(origin)) # NotParsed
    BY DEF OriginInv
  <2> QED BY <2>2, <2>3, SavedAgrees
<1> QED BY <1>1, OriginInductive, PTL
=============================================================================
