----------------------------- MODULE ClientQuota -----------------------------
(***************************************************************************)
(* The life of a client's quota on one panel: web/service/inbound.go       *)
(* counts its traffic, disables it when it is depleted or expired and      *)
(* renews it; administrators edit and reset it through web/service/        *)
(* client.go.  Whether a client is enabled is written in three places, its *)
(* traffic row, its record and the settings of each of its inbounds, and   *)
(* Xray has a list of users for each inbound.                              *)
(*                                                                         *)
(* The traffic writer runs one function at a time; edits do not go through *)
(* it, and hold only the mutex of the inbound they are at.  A restart of   *)
(* Xray is one step here: what can happen during it is the subject of      *)
(* XrayLifecycle.                                                          *)
(***************************************************************************)
EXTENDS Naturals, FiniteSets

CONSTANTS
  Clients,
  Inbounds,     \* ids of local inbounds
  Attached,     \* Attached[c]: the inbounds of client c
  Owner,        \* Owner[c]: the inbound_id of c's traffic row
  Limit,        \* of every client, in units of traffic
  Expiring,     \* clients with an expiry time
  Renewing,     \* those of them with reset > 0
  Resetting,    \* clients that administrators reset one by one
  Editors,      \* goroutines serving edits of clients
  HasNodes,     \* whether NodeTrafficSyncJob gets as far as AddTraffic
  RestartOnDisable, \* the setting restartXrayOnClientDisable
  NoClient

ASSUME QuotaAssumption ==
  /\ Inbounds \subseteq Nat /\ IsFiniteSet(Inbounds)
  /\ Attached \in [Clients -> SUBSET Inbounds]
  /\ Owner \in [Clients -> Inbounds]
  /\ \A c \in Clients : Owner[c] \in Attached[c]
  /\ Limit \in Nat \ {0}
  /\ Expiring \subseteq Clients /\ Renewing \subseteq Expiring
  /\ Resetting \subseteq Clients
  /\ HasNodes \in BOOLEAN /\ RestartOnDisable \in BOOLEAN
  /\ NoClient \notin Clients

VARIABLES
  use,        \* use[c]: up + down of c's row, Limit standing for more
  expired,    \* clients whose expiry time has passed
  stat,       \* clients whose traffic row is enabled
  rec,        \* clients whose record is enabled
  listed,     \* listed[i]: clients enabled in the settings of inbound i
  users,      \* users[i]: users of inbound i in the running Xray
  needRestart, \* isNeedXrayRestart
  forced,     \* a job or a handler is about to call RestartXray(true)
  edit,       \* edit[e]: the edit e is serving
  reset,      \* ResetTrafficByEmail under way
  doubtful,   \* clients edited while something else worked on them, or not to
              \* the end, or that a restart not made would have put right (history)
  revived     \* clients that a stale copy of the settings enabled again (history)

database == <<use, expired, stat, rec, listed>>
history == <<doubtful, revived>>
flags == <<needRestart, forced>>
vars == <<database, users, flags, edit, reset, history>>

NoEdit ==
  [pc |-> "idle", c |-> NoClient, on |-> FALSE, todo |-> {}, at |-> 0, copy |-> {}, need |-> FALSE]
NoReset ==
  [pc |-> "idle", c |-> NoClient, todo |-> {}, at |-> 0, enabled |-> FALSE, need |-> FALSE]

Init ==
  /\ use = [c \in Clients |-> 0] /\ expired = {}
  /\ stat \in SUBSET Clients /\ rec = stat
  /\ listed = [i \in Inbounds |-> {c \in stat : i \in Attached[c]}]
  /\ users = listed
  /\ needRestart = FALSE /\ forced = FALSE
  /\ edit = [e \in Editors |-> NoEdit]
  /\ reset = NoReset
  /\ doubtful = {} /\ revived = {}

On(i) == {c \in Clients : i \in Attached[c]}
Served == {c \in Clients : \E i \in Inbounds : c \in users[i]}

BeingEdited(c) == \E e \in Editors : edit[e].c = c
Busy(c) == BeingEdited(c) \/ reset.c = c

(* The inbounds of c differ in their settings.                              *)
Uneven(c) == \E i, j \in Attached[c] : c \in listed[i] /\ c \notin listed[j]

(* Functions handed to the traffic writer wait for the one it is running.   *)
WriterFree == reset.pc \notin {"add", "save"}

First(is) == CHOOSE i \in is : \A j \in is : i <= j
Last(is) == CHOOSE i \in is : \A j \in is : j <= i

(* SyncInbound for each inbound of is in turn: the record of a client takes *)
(* the flag of the settings.                                                *)
SyncInbounds(is, settings) ==
  {c \in Clients : LET t == is \cap Attached[c]
                   IN IF t = {} THEN c \in rec ELSE c \in settings[Last(t)]}

-----------------------------------------------------------------------------
(* AddTraffic: one transaction that counts the traffic u of the clients that *)
(* used some, renews and disables.                                           *)

Due == expired \cap Renewing
Back == Due \ stat

CountUse(u) ==
  [c \in Clients |-> IF c \in Due THEN 0
                     ELSE IF c \in u /\ use[c] < Limit THEN use[c] + 1 ELSE use[c]]

Depleted(u) ==
  {c \in stat \cup Due : CountUse(u)[c] >= Limit \/ c \in expired \ Due}

(* The renewal goes through the inbounds that own a row that is due, and     *)
(* enables a client only in the first of them that lists it.                 *)
RenewedInbounds == {Owner[c] : c \in Due}
RenewedIn(c) == First(RenewedInbounds \cap Attached[c])
RenewedSettings == [i \in Inbounds |-> listed[i] \cup {c \in Back : RenewedIn(c) = i}]

RenewedBusy == {c \in Due : Busy(c)}

(* Mutant: the record of a disabled client is not updated.                  *)
AddTrafficKeepsRecord(u) ==
  /\ use' = CountUse(u)
  /\ expired' = expired \ Due
  /\ stat' = (stat \cup Due) \ Depleted(u)
  /\ rec' = SyncInbounds(RenewedInbounds, RenewedSettings)
  /\ listed' = [i \in Inbounds |-> RenewedSettings[i] \ Depleted(u)]

AddTraffic(u) ==
  /\ use' = CountUse(u)
  /\ expired' = expired \ Due
  /\ stat' = (stat \cup Due) \ Depleted(u)
  /\ rec' = SyncInbounds(RenewedInbounds, RenewedSettings) \ Depleted(u)
  /\ listed' = [i \in Inbounds |-> RenewedSettings[i] \ Depleted(u)]

(* The calls of Xray's API, <<i, c>> for client c in inbound i, of which bad  *)
(* fail.                                                                     *)
Added == {<<RenewedIn(c), c>> : c \in Back}
Removed(u) == {p \in Inbounds \X Clients : p[2] \in Depleted(u) /\ p[1] \in Attached[p[2]]}

(* Mutant: a disabled client is removed from the inbound that owns its row. *)
ApiUsersOwner(u, bad) ==
  [i \in Inbounds |->
    (users[i] \cup {c \in Clients : <<i, c>> \in Added \ bad})
      \ {c \in Clients : <<i, c>> \in Removed(u) \ bad /\ Owner[c] = i}]

ApiUsers(u, bad) ==
  [i \in Inbounds |->
    (users[i] \cup {c \in Clients : <<i, c>> \in Added \ bad})
      \ {c \in Clients : <<i, c>> \in Removed(u) \ bad}]

(* Mutant: the job drops the news that a call of the API failed.            *)
TrafficJobDrops ==
  /\ WriterFree
  /\ \E u \in SUBSET Clients : \E bad \in SUBSET (Added \cup Removed(u)) :
       /\ AddTraffic(u)
       /\ users' = ApiUsers(u, bad)
       /\ forced' = (forced \/ (RestartOnDisable /\ Depleted(u) # {}))
  /\ doubtful' = doubtful \cup RenewedBusy
  /\ UNCHANGED <<needRestart, edit, reset, revived>>

(* XrayTrafficJob.  Xray counts users that have left since, too.  A call of  *)
(* the API that failed asks for a restart; with the setting a disabled client *)
(* is followed by RestartXray(true).                                         *)
TrafficJob ==
  /\ WriterFree
  /\ \E u \in SUBSET Clients : \E bad \in SUBSET (Added \cup Removed(u)) :
       /\ AddTraffic(u)
       /\ users' = ApiUsers(u, bad)
       /\ needRestart' = (needRestart \/ bad # {})
       /\ forced' = (forced \/ (RestartOnDisable /\ Depleted(u) # {}))
  /\ doubtful' = doubtful \cup RenewedBusy
  /\ UNCHANGED <<edit, reset, revived>>

(* NodeTrafficSyncJob drops the first result of AddTraffic(nil, nil), which  *)
(* says that an API call failed.                                            *)
NodeJob ==
  /\ HasNodes /\ WriterFree
  /\ \E bad \in SUBSET (Added \cup Removed({})) :
       /\ AddTraffic({})
       /\ users' = ApiUsers({}, bad)
  /\ forced' = (forced \/ (RestartOnDisable /\ Depleted({}) # {}))
  /\ doubtful' = doubtful \cup RenewedBusy
  /\ UNCHANGED <<needRestart, edit, reset, revived>>

Expire(c) ==
  /\ c \in Expiring \ expired
  /\ expired' = expired \cup {c}
  /\ UNCHANGED <<use, stat, rec, listed, users, flags, edit, reset, history>>

-----------------------------------------------------------------------------
(* RestartXray: GetXrayConfig runs AddTraffic(nil, nil), then lets in the    *)
(* clients whose record is enabled and whose row, found in any inbound that  *)
(* lists the client, is not disabled.                                       *)

Config == [i \in Inbounds |-> {c \in On(i) : c \in rec' /\ c \in stat'}]

(* RestartXray(true), of a job that disabled clients or of an administrator. *)
Restart ==
  /\ WriterFree
  /\ AddTraffic({})
  /\ users' = Config
  /\ forced' = FALSE
  /\ doubtful' = {c \in Clients : Busy(c)}
  /\ UNCHANGED <<needRestart, edit, reset, revived>>

(* The timer clears the request and calls RestartXray(false), which compares *)
(* the configuration with the one Xray was started with, whatever its API    *)
(* was told since.  That one is not kept here: they may be equal or not.     *)
TimerRestart ==
  /\ WriterFree /\ needRestart
  /\ needRestart' = FALSE
  /\ AddTraffic({})
  /\ \/ users' = Config /\ doubtful' = {c \in Clients : Busy(c)}
     \/ /\ \E bad \in SUBSET (Added \cup Removed({})) : users' = ApiUsers({}, bad)
        /\ doubtful' = doubtful \cup RenewedBusy \cup
             {c \in Clients : \E i \in Inbounds : (c \in users'[i]) # (c \in Config[i])}
  /\ UNCHANGED <<forced, edit, reset, revived>>

-----------------------------------------------------------------------------
(* ClientService.Update: UpdateInboundClient for each inbound of the client. *)

EditStart(e) ==
  /\ edit[e].pc = "idle"
  /\ \E c \in Clients, on \in BOOLEAN :
       /\ edit' = [edit EXCEPT ![e] =
            [NoEdit EXCEPT !.pc = "next", !.c = c, !.on = on, !.todo = Attached[c]]]
       /\ doubtful' = IF Busy(c) \/ Uneven(c) THEN doubtful \cup {c} ELSE doubtful
  /\ UNCHANGED <<database, users, flags, reset, revived>>

(* lockInbound, and the settings are read.                                  *)
EditRead(e) ==
  /\ edit[e].pc = "next"
  /\ \E i \in edit[e].todo :
       /\ \A x \in Editors : ~(edit[x].pc = "save" /\ edit[x].at = i)
       /\ edit' = [edit EXCEPT ![e].pc = "save", ![e].at = i, ![e].copy = listed[i]]
  /\ UNCHANGED <<database, users, flags, reset, history>>

Write(s, c, on) == IF on THEN s \cup {c} ELSE s \ {c}

(* The calls of Xray, each of which may fail: the client is removed if the    *)
(* settings enabled it and added, which fails if it is there, if the edit does.*)
EditUsers(e, removed, added) ==
  LET kept == IF edit[e].c \in edit[e].copy /\ removed
                THEN users[edit[e].at] \ {edit[e].c} ELSE users[edit[e].at]
  IN [users EXCEPT ![edit[e].at] =
       IF edit[e].on /\ added THEN kept \cup {edit[e].c} ELSE kept]

(* Mutant: only a removal that failed asks for a restart.                    *)
EditNeedRemoval(e, removed, added) ==
  edit[e].need \/ (edit[e].c \in edit[e].copy /\ ~removed)

EditNeed(e, removed, added) ==
  \/ edit[e].need
  \/ edit[e].c \in edit[e].copy /\ ~removed
  \/ edit[e].on /\ ~added
  \/ edit[e].on /\ edit[e].c \in users[edit[e].at] /\ ~(edit[e].c \in edit[e].copy /\ removed)

(* The transaction: the row, the calls of Xray, and the settings as they were *)
(* read but for this client.                                                *)
EditSave(e) ==
  LET c == edit[e].c
      i == edit[e].at
      left == edit[e].todo \ {i}
      settings == [listed EXCEPT ![i] = Write(edit[e].copy, c, edit[e].on)]
  IN /\ edit[e].pc = "save"
     /\ stat' = Write(stat, c, edit[e].on)
     /\ listed' = settings
     /\ rec' = SyncInbounds({i}, settings)
     /\ \E removed \in BOOLEAN, added \in BOOLEAN :
          LET need == EditNeed(e, removed, added)
          IN /\ users' = EditUsers(e, removed, added)
             /\ edit' = [edit EXCEPT ![e] =
                  IF left = {} THEN NoEdit
                  ELSE [@ EXCEPT !.pc = "next", !.todo = left, !.at = 0, !.copy = {}, !.need = need]]
             /\ needRestart' = (needRestart \/ (left = {} /\ need))
     /\ doubtful' = doubtful \cup (listed[i] \ edit[e].copy)
                             \cup {d \in edit[e].copy \ (listed[i] \cup {c}) : Busy(d)}
     /\ revived' = (revived \cup (edit[e].copy \ listed[i])) \ {c}
     /\ UNCHANGED <<use, expired, forced, reset>>

(* UpdateInboundClient returns an error, before or after it talked to Xray,   *)
(* and its transaction is rolled back: the loop ends there, and a needed      *)
(* restart is not asked for either.                                          *)
EditFail(e) ==
  /\ edit[e].pc = "save"
  /\ edit' = [edit EXCEPT ![e] = NoEdit]
  /\ doubtful' = doubtful \cup {edit[e].c}
  /\ \/ UNCHANGED users
     \/ \E removed \in BOOLEAN, added \in BOOLEAN : users' = EditUsers(e, removed, added)
  /\ UNCHANGED <<database, flags, reset, revived>>

-----------------------------------------------------------------------------
(* ClientService.ResetTrafficByEmail: ResetClientTraffic, a function of the  *)
(* traffic writer, for each inbound of the client.                          *)

ResetStart(c) ==
  /\ reset.pc = "idle" /\ c \in Resetting
  /\ reset' = [NoReset EXCEPT !.pc = "next", !.c = c, !.todo = Attached[c]]
  /\ doubtful' = IF BeingEdited(c) THEN doubtful \cup {c} ELSE doubtful
  /\ UNCHANGED <<database, users, flags, edit, revived>>

(* The row and the settings are read: a disabled row of a client that the    *)
(* settings enable makes the reset add the user.                            *)
ResetRead ==
  /\ reset.pc = "next"
  /\ \E i \in reset.todo :
       reset' = [reset EXCEPT !.pc = "add", !.at = i,
                              !.enabled = reset.c \notin stat /\ reset.c \in listed[i]]
  /\ UNCHANGED <<database, users, flags, edit, history>>

ResetAdd ==
  LET i == reset.at
  IN /\ reset.pc = "add"
     /\ IF reset.enabled
          THEN \E added \in BOOLEAN :
                 /\ users' = IF added THEN [users EXCEPT ![i] = @ \cup {reset.c}] ELSE users
                 /\ reset' = [reset EXCEPT !.pc = "save",
                                           !.need = @ \/ ~added \/ reset.c \in users[i]]
          ELSE UNCHANGED users /\ reset' = [reset EXCEPT !.pc = "save"]
     /\ UNCHANGED <<database, flags, edit, history>>

ResetSave ==
  LET left == reset.todo \ {reset.at}
  IN /\ reset.pc = "save"
     /\ use' = [use EXCEPT ![reset.c] = 0]
     /\ stat' = stat \cup {reset.c}
     /\ reset' = IF left = {} THEN NoReset
                 ELSE [reset EXCEPT !.pc = "next", !.todo = left, !.at = 0, !.enabled = FALSE]
     /\ needRestart' = (needRestart \/ (left = {} /\ reset.need))
     /\ UNCHANGED <<expired, rec, listed, users, forced, edit, history>>

(* ResetClientTraffic returns an error: the loop ends there.                 *)
ResetFail ==
  /\ reset.pc \in {"add", "save"}
  /\ reset' = NoReset
  /\ doubtful' = doubtful \cup {reset.c}
  /\ UNCHANGED <<database, users, flags, edit, revived>>

(* ResetClientTrafficByEmail of the Telegram bot, and ResetAllClientTraffics *)
(* of PeriodicTrafficResetJob for the rows of one inbound.                  *)
ResetRows ==
  /\ WriterFree
  /\ \E cs \in {{c} : c \in Clients} \cup {{c \in Clients : Owner[c] = i} : i \in Inbounds} :
       /\ use' = [c \in Clients |-> IF c \in cs THEN 0 ELSE use[c]]
       /\ stat' = stat \cup cs
       /\ doubtful' = doubtful \cup {c \in cs : Busy(c)}
  /\ UNCHANGED <<expired, rec, listed, users, flags, edit, reset, revived>>

(* ClientService.ResetAllTraffics, outside the traffic writer.              *)
ResetAllTraffics ==
  /\ use' = [c \in Clients |-> 0]
  /\ needRestart' = TRUE
  /\ UNCHANGED <<expired, stat, rec, listed, users, forced, edit, reset, history>>

-----------------------------------------------------------------------------
Jobs == TrafficJob \/ NodeJob \/ Restart \/ TimerRestart
Edit(e) == EditStart(e) \/ EditRead(e) \/ EditSave(e) \/ EditFail(e)
Reset == (\E c \in Clients : ResetStart(c)) \/ ResetRead \/ ResetAdd \/ ResetSave \/ ResetFail

Next ==
  \/ Jobs \/ Reset \/ ResetRows \/ ResetAllTraffics
  \/ \E e \in Editors : Edit(e)
  \/ \E c \in Clients : Expire(c)

Spec == Init /\ [][Next]_vars

(* The traffic job runs every 5 s and the restart timer every 30 s; an edit  *)
(* or a reset that has begun comes to its end.                               *)
LiveSpec ==
  /\ Spec
  /\ SF_vars(TrafficJob) /\ SF_vars(forced /\ Restart) /\ SF_vars(TimerRestart)
  /\ \A e \in Editors : WF_vars(EditRead(e) \/ EditSave(e) \/ EditFail(e))
  /\ WF_vars(ResetRead \/ ResetAdd \/ ResetSave \/ ResetFail)

-----------------------------------------------------------------------------
Edits ==
  [pc : {"idle", "next", "save"}, c : Clients \cup {NoClient}, on : BOOLEAN,
   todo : SUBSET Inbounds, at : Inbounds \cup {0}, copy : SUBSET Clients, need : BOOLEAN]
Resets ==
  [pc : {"idle", "next", "add", "save"}, c : Clients \cup {NoClient}, todo : SUBSET Inbounds,
   at : Inbounds \cup {0}, enabled : BOOLEAN, need : BOOLEAN]

(* Every variable has its type, and an inbound has flags and users only for *)
(* its own clients.                                                         *)
TypeOK ==
  /\ use \in [Clients -> 0..Limit]
  /\ expired \subseteq Clients /\ stat \subseteq Clients /\ rec \subseteq Clients
  /\ listed \in [Inbounds -> SUBSET Clients] /\ \A i \in Inbounds : listed[i] \subseteq On(i)
  /\ users \in [Inbounds -> SUBSET Clients] /\ \A i \in Inbounds : users[i] \subseteq On(i)
  /\ needRestart \in BOOLEAN /\ forced \in BOOLEAN
  /\ edit \in [Editors -> Edits]
  /\ reset \in Resets
  /\ doubtful \subseteq Clients /\ revived \subseteq Clients

RestartDue == needRestart \/ forced

(* A client whose row is disabled, by depletion, expiry or an administrator, *)
(* has no user in Xray, or Xray is about to be restarted: even though a       *)
(* stale edit of another client of the inbound may have enabled it again in   *)
(* the settings and in its record.  While the client is edited or reset, and  *)
(* after such work overlapped or failed half-way, nothing is claimed.         *)
OutWhenDisabled ==
  \A c \in Clients \ (stat \cup doubtful) :
    c \in Served => RestartDue \/ Busy(c)

(* The record of a client with one inbound says what the settings of that    *)
(* inbound say.                                                              *)
RecordMirrors ==
  \A c \in Clients : Attached[c] = {Owner[c]} => (c \in rec <=> c \in listed[Owner[c]])

(* A client with one inbound whose row and record are enabled has its user   *)
(* in Xray, or a restart is due.                                             *)
EnabledIsServed ==
  \A c \in (stat \cap rec) \ (doubtful \cup revived) :
    Attached[c] = {Owner[c]} =>
      c \in users[Owner[c]] \/ RestartDue \/ Busy(c)

(* A depleted or expired client leaves Xray, or is given more, even when the *)
(* API refuses to remove it; unless edits of it overlapped with other work,  *)
(* or the restart asked for was not made.                                    *)
DepletedLeaves ==
  \A c \in Clients :
    (c \in stat /\ (use[c] >= Limit \/ c \in expired))
      ~> (c \notin Served \/ (use[c] < Limit /\ c \notin expired) \/ c \in doubtful)

=============================================================================
