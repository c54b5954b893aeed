---------------------------- MODULE MCPanelPages ----------------------------
(***************************************************************************)
(* One of two pages of the panel is open, the outbounds of the Xray page   *)
(* or the settings page.  They share nothing, so one run explores both.    *)
(***************************************************************************)
EXTENDS MCOutbounds, SettingsEditor

VARIABLE page

MCInitSettings ==
  {("webPort" :> 1) @@ ("subPort" :> 3) @@ ("webDomain" :> "") @@ ("webBasePath" :> "/") @@ ("webCertFile" :> "")
     @@ ("webKeyFile" :> "") @@ ("tgBotToken" :> "bot") @@ ("subJsonEnable" :> TRUE) @@ ("subPath" :> "/")
     @@ ("subJsonNoises" :> <<>>) @@ ("subJsonRules" :> <<>>) @@ ("trafficMultiplier" :> m)
     @@ ("twoFactorEnable" :> (token # "")) @@ ("twoFactorToken" :> token) : m \in {2}, token \in {"", "t0"}}
MCEntries == {[scheme |-> "http", host |-> e[1], port |-> e[2]] : e \in {<<"ip1", 2>>, <<"name", 1>>}}
MCSlashed == [p \in {"", "x", "/x", "/x/", "/"} |-> IF p \in {"", "/"} THEN "/" ELSE "/x/"]
MCDirectLists == {<<>>, <<"cn">>}

OnePage == CHOOSE s \in MCInitSettings : TRUE
OneEntry == [scheme |-> "http", host |-> "ip1", port |-> 1, path |-> "/"]
SettingsClosed ==
  /\ store = OnePage /\ read = OnePage /\ draft = OnePage /\ saving = <<>> /\ reading = <<>> /\ posting = <<>> /\ multiplier = 1
  /\ prompt = NoPrompt /\ location = OneEntry /\ tokens = <<>> /\ tokenRows = <<>> /\ loads = <<>> /\ expired = FALSE /\ left = TRUE
  /\ proven = {} /\ renamed = FALSE /\ missed = FALSE /\ behind = FALSE /\ changes = 0 /\ saves = 0 /\ lost = 0
OutboundsClosed == outbounds = <<>> /\ dialog = Closed /\ origin = Nothing /\ edits = MaxEdits

PagesInit ==
  \/ page = "xray" /\ Init /\ SettingsClosed
  \/ page = "settings" /\ SettingsInit /\ OutboundsClosed
PagesNext ==
  \/ page = "xray" /\ Next /\ UNCHANGED <<page, settingsVars>>
  \/ page = "settings" /\ SettingsNext /\ UNCHANGED <<page, vars>>
PagesSpec == PagesInit /\ [][PagesNext]_<<page, vars, settingsVars>>
=============================================================================
