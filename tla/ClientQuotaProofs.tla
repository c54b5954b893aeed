------------------------- MODULE ClientQuotaProofs -------------------------
(***************************************************************************)
(* What ClientQuota says of any number of clients, inbounds and editors,   *)
(* any limit and any setting, proved: its types, the agreement of records  *)
(* and settings, that a disabled client is out of Xray, and that an        *)
(* enabled one is in it.                                                   *)
(***************************************************************************)
EXTENDS ClientQuota, FiniteSetTheorems, WellFoundedInduction, TLAPS

-----------------------------------------------------------------------------
(* The inductive invariant, in parts.                                      *)

(* An edit is idle and empty, or has inbounds of its client left to do; one  *)
(* that has read its inbound holds a copy of that inbound's flags.           *)
EditShape ==
  \A e \in Editors :
    /\ edit[e].pc = "idle" => edit[e] = NoEdit
    /\ edit[e].pc # "idle" =>
         /\ edit[e].c \in Clients
         /\ edit[e].todo # {} /\ edit[e].todo \subseteq Attached[edit[e].c]
    /\ edit[e].pc = "save" =>
         edit[e].at \in edit[e].todo /\ edit[e].copy \subseteq On(edit[e].at)

(* The same of the reset.                                                   *)
ResetShape ==
  /\ reset.pc = "idle" => reset = NoReset
  /\ reset.pc # "idle" => reset.c \in Clients /\ reset.todo \subseteq Attached[reset.c]
  /\ reset.pc \in {"add", "save"} => reset.at \in reset.todo

(* An enabled record is backed by the settings of some inbound.             *)
RecordIsListed == \A c \in rec : \E i \in Attached[c] : c \in listed[i]

(* A client that is not doubtful has one edit or reset at a time.           *)
OneAtATime ==
  \A e \in Editors : edit[e].c \in Clients \ doubtful =>
    /\ reset.c # edit[e].c
    /\ \A x \in Editors \ {e} : edit[x].c # edit[e].c

(* An edit finds its client with the same flag in all inbounds it has left,  *)
(* its copy shows the client where the settings do, and when it disables the  *)
(* client the row is disabled from the first inbound on.                     *)
Consistent(e) ==
  /\ \A i, j \in edit[e].todo : edit[e].c \in listed[i] => edit[e].c \in listed[j]
  /\ (edit[e].pc = "save" /\ edit[e].c \in listed[edit[e].at]) => edit[e].c \in edit[e].copy
  /\ (~edit[e].on /\ edit[e].todo # Attached[edit[e].c]) => edit[e].c \notin stat

(* When it disables the client, a user that it will not remove any more is    *)
(* one that a restart will.                                                  *)
Removing(e) ==
  ~edit[e].on =>
    \A i \in Inbounds : edit[e].c \in users[i] =>
      RestartDue \/ edit[e].need \/ (i \in edit[e].todo /\ edit[e].c \in listed[i])

EditSound ==
  \A e \in Editors : edit[e].c \in Clients \ doubtful => Consistent(e) /\ Removing(e)

(* A reset adds its client only where the settings enable it.               *)
ResetSound ==
  reset.pc = "add" /\ reset.enabled /\ reset.c \notin doubtful =>
    reset.c \in listed[reset.at]

(* A client that no inbound enables is out of Xray or a restart is due.     *)
UnlistedIsOut ==
  \A c \in Clients \ doubtful :
    (c \in Served /\ \A i \in Attached[c] : c \notin listed[i]) =>
      RestartDue \/ BeingEdited(c)

Shape == TypeOK /\ EditShape /\ ResetShape /\ RecordIsListed

OutInv ==
  /\ Shape /\ OneAtATime /\ EditSound /\ ResetSound
  /\ UnlistedIsOut /\ OutWhenDisabled

(* The row of a client with one inbound is enabled if its record is, unless  *)
(* a stale copy of the settings revived it.                                 *)
RowFollows ==
  \A c \in rec \ revived : Attached[c] = {Owner[c]} => c \in stat

(* EnabledIsServed, in the middle of a reset, too.                          *)
ServedInReset ==
  \A c \in (stat \cap rec) \ (doubtful \cup revived) :
    Attached[c] = {Owner[c]} =>
      c \in users[Owner[c]] \/ RestartDue \/ BeingEdited(c)

InInv == Shape /\ OneAtATime /\ RecordMirrors /\ RowFollows /\ ServedInReset

-----------------------------------------------------------------------------
(* The operators of the model.                                             *)

(* A set of inbounds that is not empty has a first and a last one.          *)
Bounded(is) == (\E i \in is : \A j \in is : i <= j) /\ (\E i \in is : \A j \in is : j <= i)

\* A set of inbounds that is not empty has a last one.
LEMMA SetsAreBounded ==
  ASSUME NEW is, is \subseteq Inbounds, is # {}
  PROVE  Bounded(is)
<1>1. is \subseteq Nat /\ IsFiniteSet(is)
  BY QuotaAssumption, FS_Subset DEF QuotaAssumption
<1> DEFINE Endless == {t \in FiniteSubsetsOf(is) : t # {} /\ ~Bounded(t)}
<1>2. SUFFICES ASSUME Endless # {} PROVE FALSE
  BY <1>1 DEF FiniteSubsetsOf
<1>3. PICK t \in Endless : \A r \in Endless : ~(<<r, t>> \in StrictSubsetOrdering(is))
  <2>1. IsWellFoundedOn(StrictSubsetOrdering(is), FiniteSubsetsOf(is)) /\ Endless \subseteq FiniteSubsetsOf(is)
    BY FS_StrictSubsetOrderingWellFounded
  <2> HIDE DEF Endless
  <2> QED BY <1>2, <2>1, WFMin
<1>4. PICK a : a \in t
  OBVIOUS
<1> DEFINE r == t \ {a}
<1>5. t \subseteq is /\ r \in FiniteSubsetsOf(is) /\ <<r, t>> \in StrictSubsetOrdering(is)
  <2>1. t \subseteq is /\ IsFiniteSet(t)
    BY DEF FiniteSubsetsOf
  <2>2. IsFiniteSet(r)
    BY <2>1, FS_Subset
  <2> QED BY <1>4, <2>1, <2>2 DEF FiniteSubsetsOf, StrictSubsetOrdering
<1>6. r \notin Endless /\ ~Bounded(t)
  BY <1>3, <1>5
<1>7. CASE r = {}
  <2>1. a \in Nat /\ \A j \in t : j = a
    BY <1>1, <1>4, <1>5, <1>7
  <2> QED BY <1>4, <1>6, <2>1 DEF Bounded
<1>8. CASE r # {}
  <2>1. PICK m \in r, n \in r : \A j \in r : m <= j /\ j <= n
    BY <1>5, <1>6, <1>8 DEF Bounded
  <2>2. {a, m, n} \subseteq Nat /\ t \subseteq Nat /\ {m, n} \subseteq t
    BY <1>1, <1>4, <1>5, <2>1
  <2>3. (\A j \in t : m <= j) \/ (\A j \in t : a <= j)
    BY <2>1, <2>2
  <2>4. (\A j \in t : j <= n) \/ (\A j \in t : j <= a)
    BY <2>1, <2>2
  <2> QED BY <1>4, <1>6, <2>2, <2>3, <2>4 DEF Bounded
<1> QED BY <1>7, <1>8

(* First and Last choose an inbound of the set.                             *)
LEMMA FirstIn ==
  ASSUME NEW is, is \subseteq Inbounds, is # {}
  PROVE  First(is) \in is
BY SetsAreBounded DEF Bounded, First

\* The last inbound of a set is one of it.
LEMMA LastIn ==
  ASSUME NEW is, is \subseteq Inbounds, is # {}
  PROVE  Last(is) \in is
BY SetsAreBounded DEF Bounded, Last

(* A renewal enables a client in one of its inbounds.                       *)
LEMMA RenewedInOwn ==
  ASSUME expired \subseteq Clients
  PROVE  /\ RenewedInbounds \subseteq Inbounds
         /\ \A c \in Due : c \in Clients /\ RenewedIn(c) \in Attached[c]
         /\ \A c \in Due : Attached[c] = {Owner[c]} => RenewedIn(c) = Owner[c]
<1>1. RenewedInbounds \subseteq Inbounds
  BY QuotaAssumption DEF QuotaAssumption, RenewedInbounds, Due
<1>2. ASSUME NEW c \in Due
      PROVE  /\ c \in Clients /\ RenewedIn(c) \in Attached[c]
             /\ Attached[c] = {Owner[c]} => RenewedIn(c) = Owner[c]
  <2>1. c \in Clients /\ Owner[c] \in RenewedInbounds \cap Attached[c]
    BY QuotaAssumption DEF QuotaAssumption, RenewedInbounds, Due
  <2>2. RenewedIn(c) \in RenewedInbounds \cap Attached[c]
    BY <1>1, <2>1, FirstIn DEF RenewedIn
  <2> QED BY <2>1, <2>2
<1> QED BY <1>1, <1>2

(* What one run of AddTraffic does to the database, client by client: those   *)
(* due are back, those depleted are out of the row, the record and every      *)
(* inbound.                                                                   *)
LEMMA AddTrafficIs ==
  ASSUME Shape, NEW u, AddTraffic(u)
  PROVE  /\ Depleted(u) \subseteq stat \cup Due /\ Due \subseteq Clients
         /\ stat' = (stat \cup Due) \ Depleted(u)
         /\ listed' \in [Inbounds -> SUBSET Clients]
         /\ \A c \in Clients, i \in Inbounds :
              c \in listed'[i] <=> c \notin Depleted(u) /\ (c \in listed[i] \/ <<i, c>> \in Added)
         /\ RecordIsListed'
         /\ use' \in [Clients -> 0 .. Limit]
         /\ expired' \subseteq Clients /\ stat' \subseteq Clients /\ rec' \subseteq Clients
         /\ \A i \in Inbounds : listed'[i] \subseteq On(i)
         /\ \A p \in Added : p[2] \in Back /\ p[1] \in Attached[p[2]] /\ p = <<p[1], p[2]>>
<1>1. Due \subseteq Clients /\ Depleted(u) \subseteq stat \cup Due
  BY DEF Shape, TypeOK, Due, Depleted
<1>2. stat' = (stat \cup Due) \ Depleted(u)
  BY DEF AddTraffic
<1>3. \A c \in Back : c \in Clients /\ RenewedIn(c) \in Attached[c] /\ RenewedIn(c) \in Inbounds
  BY RenewedInOwn, QuotaAssumption DEF QuotaAssumption, Shape, TypeOK, Back
<1>4. \A c \in Clients, i \in Inbounds : <<i, c>> \in Added <=> c \in Back /\ RenewedIn(c) = i
  BY DEF Added
<1>5. listed' = [i \in Inbounds |-> (listed[i] \cup {c \in Back : RenewedIn(c) = i}) \ Depleted(u)]
  BY DEF AddTraffic, RenewedSettings
<1>6. /\ listed' \in [Inbounds -> SUBSET Clients]
      /\ \A c \in Clients, i \in Inbounds :
           c \in listed'[i] <=> c \notin Depleted(u) /\ (c \in listed[i] \/ <<i, c>> \in Added)
  BY <1>3, <1>4, <1>5 DEF Shape, TypeOK
<1>7. \A i \in Inbounds : listed'[i] \subseteq On(i)
  BY <1>3, <1>5 DEF Shape, TypeOK, On
<1>8. rec' \subseteq Clients
  BY DEF AddTraffic, SyncInbounds
<1>9. RecordIsListed'
  <2> SUFFICES ASSUME NEW c \in rec' PROVE \E i \in Attached[c] : c \in listed'[i]
    BY DEF RecordIsListed
  <2> DEFINE t == RenewedInbounds \cap Attached[c]
  <2>1. c \in Clients /\ c \notin Depleted(u) /\ (IF t = {} THEN c \in rec ELSE c \in RenewedSettings[Last(t)])
    BY DEF AddTraffic, SyncInbounds
  <2>2. CASE t = {}
    BY <1>6, <2>1, <2>2, QuotaAssumption DEF QuotaAssumption, Shape, RecordIsListed
  <2>3. CASE t # {}
    <3>1. Last(t) \in t /\ t \subseteq Inbounds
      BY <2>3, LastIn, RenewedInOwn DEF Shape, TypeOK
    <3> QED BY <2>1, <2>3, <3>1 DEF AddTraffic
  <2> QED BY <2>2, <2>3
<1>10. use' \in [Clients -> 0 .. Limit] /\ expired' \subseteq Clients /\ stat' \subseteq Clients
  <2>1. expired' \subseteq Clients /\ stat' \subseteq Clients
    BY <1>1, <1>2 DEF AddTraffic, Shape, TypeOK
  <2>2. Limit \in Nat /\ \A c \in Clients : use[c] \in 0 .. Limit
    BY QuotaAssumption DEF QuotaAssumption, Shape, TypeOK
  <2>3. \A c \in Clients : CountUse(u)[c] \in 0 .. Limit
    BY <2>2 DEF CountUse
  <2> QED BY <2>1, <2>3 DEF AddTraffic, CountUse
<1>11. \A p \in Added : p[2] \in Back /\ p[1] \in Attached[p[2]] /\ p = <<p[1], p[2]>>
  BY <1>3 DEF Added
<1> QED BY <1>1, <1>2, <1>6, <1>7, <1>8, <1>9, <1>10, <1>11

(* What the calls of Xray's API after it do: a user stays that is not        *)
(* depleted, and a depleted one only where the call failed.                  *)
LEMMA ApiUsersIs ==
  ASSUME Shape, NEW u, NEW bad, AddTraffic(u), users' = ApiUsers(u, bad)
  PROVE  /\ users' \in [Inbounds -> SUBSET Clients] /\ \A i \in Inbounds : users'[i] \subseteq On(i)
         /\ \A c \in Clients, i \in Inbounds :
              /\ c \in users'[i] => c \in users[i] \/ <<i, c>> \in Added
              /\ c \in users[i] \ Depleted(u) => c \in users'[i]
              /\ c \in users'[i] /\ c \in Depleted(u) => <<i, c>> \in bad
              /\ <<i, c>> \in Added \ bad /\ c \notin Depleted(u) => c \in users'[i]
<1>1. \A p \in Added : p[2] \in Clients /\ p[1] \in Attached[p[2]] /\ p = <<p[1], p[2]>>
  BY AddTrafficIs DEF Back
<1>2. \A c \in Clients, i \in Inbounds : <<i, c>> \in Removed(u) <=> c \in Depleted(u) /\ i \in Attached[c]
  BY DEF Removed
<1>3. \A i \in Inbounds : users[i] \subseteq On(i)
  BY DEF Shape, TypeOK
<1>4. users' \in [Inbounds -> SUBSET Clients] /\ \A i \in Inbounds : users'[i] \subseteq On(i)
  BY <1>1, <1>3 DEF ApiUsers, On, Shape, TypeOK
<1>5. ASSUME NEW c \in Clients, NEW i \in Inbounds
      PROVE  c \in users'[i] <=> (c \in users[i] \/ <<i, c>> \in Added \ bad) /\ <<i, c>> \notin Removed(u) \ bad
  BY DEF ApiUsers
<1>6. ASSUME NEW c \in Clients, NEW i \in Inbounds, c \in users'[i], c \in Depleted(u) PROVE <<i, c>> \in bad
  <2>1. i \in Attached[c]
    BY <1>4, <1>6 DEF On
  <2> QED BY <1>2, <1>5, <1>6, <2>1
<1> QED BY <1>2, <1>4, <1>5, <1>6

-----------------------------------------------------------------------------
(* Types and shapes.                                                       *)

\* The state at the start has its shape.
LEMMA ShapeInit == Init => Shape
<1> SUFFICES ASSUME Init PROVE Shape
  OBVIOUS
<1>1. TypeOK
  <2>1. NoEdit \in Edits /\ NoReset \in Resets
    BY DEF NoEdit, NoReset, Edits, Resets
  <2>2. use \in [Clients -> 0 .. Limit]
    BY QuotaAssumption DEF Init, QuotaAssumption
  <2> QED BY <2>1, <2>2 DEF Init, TypeOK, On
<1>2. EditShape /\ ResetShape
  BY DEF Init, EditShape, ResetShape, NoEdit, NoReset
<1>3. RecordIsListed
  BY QuotaAssumption DEF Init, RecordIsListed, QuotaAssumption
<1> QED BY <1>1, <1>2, <1>3 DEF Shape

(* The jobs, whatever they do to the users and the flags.                   *)
LEMMA ShapeTraffic ==
  ASSUME Shape, NEW u, AddTraffic(u), UNCHANGED <<edit, reset>>,
         users' \in [Inbounds -> SUBSET Clients], \A i \in Inbounds : users'[i] \subseteq On(i),
         needRestart' \in BOOLEAN, forced' \in BOOLEAN,
         doubtful' \subseteq Clients, revived' \subseteq Clients
  PROVE  Shape'
<1>1. TypeOK' /\ RecordIsListed'
  BY AddTrafficIs DEF Shape, TypeOK, On
<1>2. EditShape' /\ ResetShape'
  BY DEF Shape, EditShape, ResetShape, On
<1> QED BY <1>1, <1>2 DEF Shape

\* The jobs keep the shape.
LEMMA ShapeJobs == Shape /\ Jobs => Shape'
<1> SUFFICES ASSUME Shape, Jobs PROVE Shape'
  OBVIOUS
<1>1. needRestart \in BOOLEAN /\ forced \in BOOLEAN /\ doubtful \subseteq Clients /\ revived \subseteq Clients
      /\ RenewedBusy \subseteq Clients /\ RestartOnDisable \in BOOLEAN
  BY QuotaAssumption DEF QuotaAssumption, Shape, TypeOK, RenewedBusy, Due
<1>2. Config \in [Inbounds -> SUBSET Clients] /\ \A i \in Inbounds : Config[i] \subseteq On(i)
  BY DEF Config, On
<1>3. CASE TrafficJob
  <2>1. PICK u, bad : AddTraffic(u) /\ users' = ApiUsers(u, bad) /\ needRestart' = (needRestart \/ bad # {})
                      /\ forced' = (forced \/ (RestartOnDisable /\ Depleted(u) # {}))
    BY <1>3 DEF TrafficJob
  <2>2. UNCHANGED <<edit, reset>> /\ doubtful' \subseteq Clients /\ revived' \subseteq Clients
    BY <1>1, <1>3 DEF TrafficJob
  <2>3. needRestart' \in BOOLEAN /\ forced' \in BOOLEAN
    BY <2>1
  <2> QED BY <2>1, <2>2, <2>3, ApiUsersIs, ShapeTraffic
<1>4. CASE NodeJob
  <2>1. PICK bad : AddTraffic({}) /\ users' = ApiUsers({}, bad)
    BY <1>4 DEF NodeJob
  <2>2. UNCHANGED <<edit, reset>> /\ doubtful' \subseteq Clients /\ revived' \subseteq Clients
        /\ needRestart' \in BOOLEAN /\ forced' \in BOOLEAN
    BY <1>1, <1>4 DEF NodeJob
  <2> QED BY <2>1, <2>2, ApiUsersIs, ShapeTraffic
<1>5. CASE Restart
  <2>1. AddTraffic({}) /\ users' = Config /\ UNCHANGED <<edit, reset>> /\ doubtful' \subseteq Clients
        /\ revived' \subseteq Clients /\ needRestart' \in BOOLEAN /\ forced' \in BOOLEAN
    BY <1>1, <1>5 DEF Restart
  <2> QED BY <1>2, <2>1, ShapeTraffic
<1>6. CASE TimerRestart
  <2>1. AddTraffic({}) /\ UNCHANGED <<edit, reset>> /\ doubtful' \subseteq Clients
        /\ revived' \subseteq Clients /\ needRestart' \in BOOLEAN /\ forced' \in BOOLEAN
    BY <1>1, <1>6 DEF TimerRestart
  <2>2. CASE users' = Config
    BY <1>2, <2>1, <2>2, ShapeTraffic
  <2>3. CASE \E bad : users' = ApiUsers({}, bad)
    BY <2>1, <2>3, ApiUsersIs, ShapeTraffic
  <2> QED BY <1>6, <2>2, <2>3 DEF TimerRestart
<1> QED BY <1>3, <1>4, <1>5, <1>6 DEF Jobs

(* What the save of an edit e of client c at inbound i writes: the flags of c,  *)
(* and those of the other clients of i as the copy has them.                *)
LEMMA EditSaveIs ==
  ASSUME Shape, NEW e \in Editors, EditSave(e),
         NEW c, c = edit[e].c, NEW i, i = edit[e].at
  PROVE  /\ c \in Clients /\ i \in Inbounds /\ i \in Attached[c] /\ edit[e].pc = "save"
         /\ i \in edit[e].todo /\ edit[e].todo \subseteq Attached[c] /\ edit[e].copy \subseteq On(i)
         /\ stat' \subseteq Clients /\ \A d \in Clients : d \in stat' <=> IF d = c THEN edit[e].on ELSE d \in stat
         /\ listed' \in [Inbounds -> SUBSET Clients] /\ \A j \in Inbounds : listed'[j] \subseteq On(j)
         /\ c \in listed'[i] <=> edit[e].on
         /\ \A d \in Clients \ {c} : d \in listed'[i] <=> d \in edit[e].copy
         /\ \A j \in Inbounds \ {i} : listed'[j] = listed[j]
         /\ rec' \subseteq Clients
         /\ \A d \in Clients : d \in rec' <=> IF i \in Attached[d] THEN d \in listed'[i] ELSE d \in rec
<1>1. /\ c \in Clients /\ i \in Inbounds /\ i \in Attached[c] /\ edit[e].pc = "save"
      /\ i \in edit[e].todo /\ edit[e].todo \subseteq Attached[c] /\ edit[e].copy \subseteq On(i)
  BY QuotaAssumption DEF QuotaAssumption, EditSave, Shape, EditShape
<1>2. /\ stat' = Write(stat, c, edit[e].on)
      /\ listed' = [listed EXCEPT ![i] = Write(edit[e].copy, c, edit[e].on)]
      /\ rec' = SyncInbounds({i}, listed')
  BY DEF EditSave
<1>3. listed \in [Inbounds -> SUBSET Clients] /\ stat \subseteq Clients /\ \A j \in Inbounds : listed[j] \subseteq On(j)
  BY DEF Shape, TypeOK
<1>4. stat' \subseteq Clients /\ \A d \in Clients : d \in stat' <=> IF d = c THEN edit[e].on ELSE d \in stat
  BY <1>1, <1>2, <1>3 DEF Write
<1>5. listed'[i] = Write(edit[e].copy, c, edit[e].on) /\ \A j \in Inbounds \ {i} : listed'[j] = listed[j]
  BY <1>1, <1>2, <1>3
<1>6. /\ c \in listed'[i] <=> edit[e].on
      /\ \A d \in Clients \ {c} : d \in listed'[i] <=> d \in edit[e].copy
  BY <1>5 DEF Write
<1>7. listed'[i] \subseteq On(i) /\ On(i) \subseteq Clients
  BY <1>1, <1>5 DEF Write, On
<1>8. listed' \in [Inbounds -> SUBSET Clients] /\ \A j \in Inbounds : listed'[j] \subseteq On(j)
  BY <1>2, <1>3, <1>5, <1>7
<1>9. \A d \in Clients : i \in Attached[d] => {i} \cap Attached[d] = {i} /\ Last({i} \cap Attached[d]) = i
  BY <1>1, LastIn
<1>10. rec' \subseteq Clients /\ \A d \in Clients : d \in rec' <=> IF i \in Attached[d] THEN d \in listed'[i] ELSE d \in rec
  BY <1>2, <1>9 DEF SyncInbounds
<1> QED BY <1>1, <1>4, <1>5, <1>6, <1>8, <1>10

(* The edit e after its save at i.                                          *)
EditAfter(e, i, need) ==
  IF edit[e].todo \ {i} = {} THEN NoEdit
  ELSE [edit[e] EXCEPT !.pc = "next", !.todo = edit[e].todo \ {i}, !.at = 0, !.copy = {}, !.need = need]

(* What its calls of Xray leave behind: a user that should be gone is one the *)
(* copy did not show, or is known to need a restart.                         *)
LEMMA EditSaveUsers ==
  ASSUME Shape, NEW e \in Editors, EditSave(e),
         NEW c, c = edit[e].c, NEW i, i = edit[e].at
  PROVE  \E need \in BOOLEAN :
         /\ edit' = [edit EXCEPT ![e] = EditAfter(e, i, need)]
         /\ needRestart' = (needRestart \/ (edit[e].todo \ {i} = {} /\ need))
         /\ edit[e].need => need
         /\ users' \in [Inbounds -> SUBSET Clients] /\ \A j \in Inbounds : users'[j] \subseteq On(j)
         /\ \A d \in Clients, j \in Inbounds : d # c \/ j # i => (d \in users'[j] <=> d \in users[j])
         /\ c \in users'[i] /\ ~edit[e].on => c \in users[i] /\ (c \in edit[e].copy => need)
         /\ c \notin users'[i] /\ edit[e].on => need
<1>1. c \in Clients /\ i \in Inbounds /\ i \in Attached[c] /\ c \in On(i)
  BY EditSaveIs DEF On
<1>2. users \in [Inbounds -> SUBSET Clients] /\ \A j \in Inbounds : users[j] \subseteq On(j)
  BY DEF Shape, TypeOK
<1>3. PICK removed \in BOOLEAN, added \in BOOLEAN :
        /\ users' = EditUsers(e, removed, added)
        /\ edit' = [edit EXCEPT ![e] = EditAfter(e, i, EditNeed(e, removed, added))]
        /\ needRestart' = (needRestart \/ (edit[e].todo \ {i} = {} /\ EditNeed(e, removed, added)))
  BY DEF EditSave, EditAfter
<1>4. edit[e] \in Edits
  BY DEF Shape, TypeOK
<1>5. EditNeed(e, removed, added) \in BOOLEAN /\ (edit[e].need => EditNeed(e, removed, added))
  BY <1>4 DEF EditNeed, Edits
<1>6. /\ users' \in [Inbounds -> SUBSET Clients] /\ \A j \in Inbounds : users'[j] \subseteq On(j)
      /\ \A d \in Clients, j \in Inbounds : d # c \/ j # i => (d \in users'[j] <=> d \in users[j])
  BY <1>1, <1>2, <1>3 DEF EditUsers
<1>7. c \in users'[i] /\ ~edit[e].on => c \in users[i] /\ ~(c \in edit[e].copy /\ removed)
  BY <1>1, <1>2, <1>3 DEF EditUsers
<1>8. c \notin users'[i] /\ edit[e].on => ~added
  BY <1>1, <1>2, <1>3 DEF EditUsers
<1> QED BY <1>3, <1>5, <1>6, <1>7, <1>8 DEF EditNeed

(* Edits.                                                                  *)
LEMMA ShapeEdit == ASSUME Shape, NEW e \in Editors, Edit(e) PROVE Shape'
<1>a. /\ edit[e] \in Edits /\ edit \in [Editors -> Edits] /\ TypeOK /\ EditShape /\ ResetShape /\ RecordIsListed
      /\ NoEdit \in Edits /\ NoEdit.pc = "idle"
  BY DEF Shape, TypeOK, NoEdit, Edits
<1>b. \A c \in Clients : Attached[c] \subseteq Inbounds /\ Attached[c] # {}
  BY QuotaAssumption DEF QuotaAssumption
<1>1. CASE EditStart(e)
  <2>1. PICK c \in Clients, on \in BOOLEAN :
          /\ edit' = [edit EXCEPT ![e] = [NoEdit EXCEPT !.pc = "next", !.c = c, !.on = on, !.todo = Attached[c]]]
          /\ doubtful' \subseteq doubtful \cup {c}
    BY <1>1 DEF EditStart
  <2>2. UNCHANGED <<database, users, flags, reset, revived>>
    BY <1>1 DEF EditStart
  <2>3. /\ edit'[e] \in Edits /\ edit'[e].pc = "next" /\ edit'[e].c = c /\ edit'[e].todo = Attached[c]
        /\ \A x \in Editors \ {e} : edit'[x] = edit[x]
        /\ edit' \in [Editors -> Edits]
    BY <1>a, <1>b, <2>1 DEF NoEdit, Edits
  <2>4. TypeOK'
    BY <1>a, <2>1, <2>2, <2>3 DEF TypeOK, database, flags, On
  <2>5. EditShape'
    BY <1>a, <1>b, <2>3 DEF EditShape, On
  <2>6. ResetShape' /\ RecordIsListed'
    BY <1>a, <2>2 DEF ResetShape, RecordIsListed, database
  <2> QED BY <2>4, <2>5, <2>6 DEF Shape
<1>2. CASE EditRead(e)
  <2>1. PICK i \in edit[e].todo : edit' = [edit EXCEPT ![e].pc = "save", ![e].at = i, ![e].copy = listed[i]]
    BY <1>2 DEF EditRead
  <2>2. UNCHANGED <<database, users, flags, reset, history>> /\ edit[e].pc = "next"
    BY <1>2 DEF EditRead
  <2>3. i \in Inbounds /\ listed[i] \subseteq On(i) /\ listed[i] \subseteq Clients
    BY <1>a, <2>1 DEF Edits, TypeOK, On
  <2>4. /\ edit'[e] \in Edits /\ edit'[e].pc = "save" /\ edit'[e].c = edit[e].c /\ edit'[e].todo = edit[e].todo
        /\ edit'[e].at = i /\ edit'[e].copy = listed[i]
        /\ \A x \in Editors \ {e} : edit'[x] = edit[x]
        /\ edit' \in [Editors -> Edits]
    BY <1>a, <2>1, <2>3 DEF Edits
  <2>5. TypeOK'
    BY <1>a, <2>2, <2>4 DEF TypeOK, database, flags, history, On
  <2>6. EditShape'
    BY <1>a, <2>1, <2>2, <2>3, <2>4 DEF EditShape, On
  <2>7. ResetShape' /\ RecordIsListed'
    BY <1>a, <2>2 DEF ResetShape, RecordIsListed, database
  <2> QED BY <2>5, <2>6, <2>7 DEF Shape
<1>3. CASE EditFail(e)
  <2>1. edit' = [edit EXCEPT ![e] = NoEdit] /\ doubtful' = doubtful \cup {edit[e].c} /\ edit[e].pc = "save"
        /\ UNCHANGED <<database, flags, reset, revived>>
    BY <1>3 DEF EditFail
  <2>2. /\ edit'[e] = NoEdit /\ \A x \in Editors \ {e} : edit'[x] = edit[x]
        /\ edit' \in [Editors -> Edits] /\ edit[e].c \in Clients
        /\ edit[e].at \in Inbounds /\ edit[e].c \in On(edit[e].at)
    BY <1>a, <1>b, <2>1 DEF EditShape, On
  <2>3. users' \in [Inbounds -> SUBSET Clients] /\ \A i \in Inbounds : users'[i] \subseteq On(i)
    <3>1. CASE UNCHANGED users
      BY <1>a, <3>1 DEF TypeOK
    <3>2. CASE \E removed \in BOOLEAN, added \in BOOLEAN : users' = EditUsers(e, removed, added)
      BY <1>a, <2>2, <3>2 DEF TypeOK, EditUsers
    <3> QED BY <1>3, <3>1, <3>2 DEF EditFail
  <2>4. TypeOK'
    BY <1>a, <2>1, <2>2, <2>3 DEF TypeOK, database, flags, On
  <2>5. EditShape'
    BY <1>a, <2>2 DEF EditShape, On
  <2>6. ResetShape' /\ RecordIsListed'
    BY <1>a, <2>1 DEF ResetShape, RecordIsListed, database
  <2> QED BY <2>4, <2>5, <2>6 DEF Shape
<1>4. CASE EditSave(e)
  <2>1. PICK c : c = edit[e].c
    OBVIOUS
  <2>2. PICK i : i = edit[e].at
    OBVIOUS
  <2>3. PICK need \in BOOLEAN :
          /\ edit' = [edit EXCEPT ![e] = EditAfter(e, i, need)]
          /\ needRestart' = (needRestart \/ (edit[e].todo \ {i} = {} /\ need))
          /\ users' \in [Inbounds -> SUBSET Clients] /\ \A j \in Inbounds : users'[j] \subseteq On(j)
    BY <1>4, <2>1, <2>2, EditSaveUsers
  <2>4. /\ c \in Clients /\ i \in Inbounds /\ edit[e].pc = "save"
        /\ edit[e].todo \subseteq Attached[c] /\ edit[e].copy \subseteq Clients
        /\ stat' \subseteq Clients /\ rec' \subseteq Clients
        /\ listed' \in [Inbounds -> SUBSET Clients] /\ \A j \in Inbounds : listed'[j] \subseteq On(j)
    BY <1>4, <2>1, <2>2, EditSaveIs DEF On
  <2>5. /\ edit'[e] \in Edits
        /\ edit'[e] = NoEdit \/ (/\ edit'[e].pc = "next" /\ edit'[e].c = c
                                 /\ edit'[e].todo # {} /\ edit'[e].todo \subseteq Attached[c])
        /\ \A x \in Editors \ {e} : edit'[x] = edit[x]
        /\ edit' \in [Editors -> Edits]
    BY <1>a, <2>1, <2>3, <2>4 DEF Edits, EditAfter
  <2>6. /\ UNCHANGED <<use, expired, forced, reset>>
        /\ doubtful' \subseteq Clients /\ revived' \subseteq Clients /\ needRestart' \in BOOLEAN
    BY <1>a, <1>4, <2>2, <2>3, <2>4 DEF EditSave, TypeOK
  <2>7. TypeOK'
    BY <1>a, <2>3, <2>4, <2>5, <2>6 DEF TypeOK, On
  <2>8. EditShape'
    BY <1>a, <2>4, <2>5 DEF EditShape, On, NoEdit
  <2>9. ResetShape'
    BY <1>a, <2>6 DEF ResetShape
  <2>10. RecordIsListed'
    <3> SUFFICES ASSUME NEW d \in rec' PROVE \E j \in Attached[d] : d \in listed'[j]
      BY DEF RecordIsListed
    <3>1. CASE i \in Attached[d]
      BY <1>4, <2>1, <2>2, <2>4, <3>1, EditSaveIs
    <3>2. CASE i \notin Attached[d]
      <4>1. d \in rec /\ d \in Clients
        BY <1>4, <2>1, <2>2, <2>4, <3>2, EditSaveIs
      <4>2. PICK j \in Attached[d] : d \in listed[j]
        BY <1>a, <4>1 DEF RecordIsListed
      <4> QED BY <1>4, <1>b, <2>1, <2>2, <3>2, <4>1, <4>2, EditSaveIs
    <3> QED BY <3>1, <3>2
  <2> QED BY <2>7, <2>8, <2>9, <2>10 DEF Shape
<1> QED BY <1>1, <1>2, <1>3, <1>4 DEF Edit

(* Resets, and what else changes rows.                                     *)
LEMMA ShapeReset == Shape /\ Reset => Shape'
<1> SUFFICES ASSUME Shape, Reset PROVE Shape'
  OBVIOUS
<1>a. /\ reset \in Resets /\ TypeOK /\ EditShape /\ ResetShape /\ RecordIsListed /\ NoReset \in Resets /\ NoReset.pc = "idle"
  BY DEF Shape, TypeOK, NoReset, Resets
<1>b. \A c \in Clients : Attached[c] \subseteq Inbounds /\ Attached[c] # {}
  BY QuotaAssumption DEF QuotaAssumption
<1>c. Limit \in Nat \ {0}
  BY QuotaAssumption DEF QuotaAssumption
<1>d. reset' \in Resets /\ ResetShape'
  <2>1. CASE \E c \in Clients : ResetStart(c)
    BY <1>b, <2>1 DEF ResetStart, ResetShape, NoReset, Resets
  <2>2. CASE ResetRead
    <3>1. PICK i \in reset.todo :
            reset' = [reset EXCEPT !.pc = "add", !.at = i, !.enabled = (reset.c \notin stat /\ reset.c \in listed[i])]
      BY <2>2 DEF ResetRead
    <3>2. i \in Inbounds /\ reset.pc = "next"
      BY <1>a, <2>2, <3>1 DEF Resets, ResetRead
    <3> QED BY <1>a, <3>1, <3>2 DEF ResetShape, Resets
  <2>3. CASE ResetAdd
    <3>1. PICK need \in BOOLEAN : reset' = [reset EXCEPT !.pc = "save", !.need = need]
      BY <1>a, <2>3 DEF ResetAdd, Resets
    <3>2. reset.pc = "add"
      BY <2>3 DEF ResetAdd
    <3> QED BY <1>a, <3>1, <3>2 DEF ResetShape, Resets
  <2>4. CASE ResetSave
    <3>1. \/ reset' = NoReset
          \/ reset' = [reset EXCEPT !.pc = "next", !.todo = reset.todo \ {reset.at}, !.at = 0, !.enabled = FALSE]
      BY <2>4 DEF ResetSave
    <3>2. reset.pc = "save"
      BY <2>4 DEF ResetSave
    <3>3. CASE reset' = NoReset
      BY <1>a, <3>3 DEF ResetShape
    <3>4. CASE reset' = [reset EXCEPT !.pc = "next", !.todo = reset.todo \ {reset.at}, !.at = 0, !.enabled = FALSE]
      BY <1>a, <3>2, <3>4 DEF ResetShape, Resets
    <3> QED BY <3>1, <3>3, <3>4
  <2>5. CASE ResetFail
    BY <1>a, <2>5 DEF ResetFail, ResetShape
  <2> QED BY <2>1, <2>2, <2>3, <2>4, <2>5 DEF Reset
<1>1. CASE \E c \in Clients : ResetStart(c)
  <2>1. UNCHANGED <<database, users, flags, edit, revived>> /\ doubtful' \subseteq Clients
    BY <1>a, <1>1 DEF ResetStart, TypeOK
  <2> QED BY <1>a, <1>d, <2>1 DEF Shape, TypeOK, EditShape, RecordIsListed, On, database, flags
<1>2. CASE ResetRead
  BY <1>a, <1>d, <1>2 DEF ResetRead, Shape, TypeOK, EditShape, RecordIsListed, On, database, flags, history
<1>3. CASE ResetAdd
  <2>1. reset.at \in Attached[reset.c] /\ reset.c \in Clients /\ reset.c \in On(reset.at)
    BY <1>a, <1>3 DEF ResetAdd, ResetShape, On
  <2>2. users' \in [Inbounds -> SUBSET Clients] /\ \A i \in Inbounds : users'[i] \subseteq On(i)
    <3>1. users' = users \/ users' = [users EXCEPT ![reset.at] = @ \cup {reset.c}]
      BY <1>3 DEF ResetAdd
    <3> QED BY <1>a, <2>1, <3>1 DEF TypeOK
  <2>3. UNCHANGED <<database, flags, edit, history>>
    BY <1>3 DEF ResetAdd
  <2> QED BY <1>a, <1>d, <2>2, <2>3 DEF Shape, TypeOK, EditShape, RecordIsListed, On, database, flags, history
<1>4. CASE ResetSave
  <2>1. reset.c \in Clients
    BY <1>a, <1>4 DEF ResetSave, ResetShape
  <2>2. use' \in [Clients -> 0 .. Limit]
    <3>1. 0 \in 0 .. Limit /\ use \in [Clients -> 0 .. Limit]
      BY <1>a, <1>c DEF TypeOK
    <3> QED BY <1>4, <3>1 DEF ResetSave
  <2>3. /\ UNCHANGED <<expired, rec, listed, users, forced, edit, history>> /\ stat' = stat \cup {reset.c}
        /\ needRestart' \in BOOLEAN
    BY <1>4 DEF ResetSave
  <2> QED BY <1>a, <1>d, <2>1, <2>2, <2>3 DEF Shape, TypeOK, EditShape, RecordIsListed, On, history
<1>5. CASE ResetFail
  <2>1. UNCHANGED <<database, users, flags, edit, revived>> /\ doubtful' \subseteq Clients
    BY <1>a, <1>5 DEF ResetFail, ResetShape, TypeOK
  <2> QED BY <1>a, <1>d, <2>1 DEF Shape, TypeOK, EditShape, RecordIsListed, On, database, flags
<1> QED BY <1>1, <1>2, <1>3, <1>4, <1>5 DEF Reset

\* Every step keeps the shape.
LEMMA ShapeStep == Shape /\ [Next]_vars => Shape'
<1> SUFFICES ASSUME Shape, [Next]_vars PROVE Shape'
  OBVIOUS
<1>a. TypeOK /\ EditShape /\ ResetShape /\ RecordIsListed /\ Limit \in Nat \ {0}
  BY QuotaAssumption DEF Shape, QuotaAssumption
<1>1. CASE ResetRows
  <2>1. PICK cs \in SUBSET Clients :
          /\ use' = [c \in Clients |-> IF c \in cs THEN 0 ELSE use[c]]
          /\ stat' = stat \cup cs /\ doubtful' = doubtful \cup {c \in cs : Busy(c)}
    BY <1>1 DEF ResetRows
  <2>2. UNCHANGED <<expired, rec, listed, users, flags, edit, reset, revived>>
    BY <1>1 DEF ResetRows
  <2>3. use' \in [Clients -> 0 .. Limit] /\ stat' \subseteq Clients /\ doubtful' \subseteq Clients
    BY <1>a, <2>1 DEF TypeOK
  <2> QED BY <1>a, <2>2, <2>3 DEF Shape, TypeOK, EditShape, ResetShape, RecordIsListed, On, flags
<1>2. CASE ResetAllTraffics
  BY <1>a, <1>2 DEF ResetAllTraffics, Shape, TypeOK, EditShape, ResetShape, RecordIsListed, On, history
<1>3. CASE \E c \in Clients : Expire(c)
  BY <1>a, <1>3, QuotaAssumption
  DEF QuotaAssumption, Expire, Shape, TypeOK, EditShape, ResetShape, RecordIsListed, On, flags, history
<1>4. CASE UNCHANGED vars
  BY <1>a, <1>4 DEF vars, database, flags, history, Shape, TypeOK, EditShape, ResetShape, RecordIsListed, On
<1> QED BY <1>1, <1>2, <1>3, <1>4, ShapeJobs, ShapeReset, ShapeEdit DEF Next

-----------------------------------------------------------------------------
(* One edit or reset of a client at a time.                                *)

(* It stays so while nothing begins and no busy client is cleared of doubt.  *)
LEMMA OneKept ==
  ASSUME OneAtATime, \A c \in doubtful : Busy(c) => c \in doubtful',
         \A x \in Editors : edit'[x].c \in {edit[x].c, NoClient}, reset'.c \in {reset.c, NoClient}
  PROVE  OneAtATime'
<1> SUFFICES ASSUME NEW e \in Editors, edit'[e].c \in Clients \ doubtful'
             PROVE  reset'.c # edit'[e].c /\ \A x \in Editors \ {e} : edit'[x].c # edit'[e].c
  BY DEF OneAtATime
<1>1. edit'[e].c = edit[e].c /\ edit[e].c # NoClient
  BY QuotaAssumption DEF QuotaAssumption
<1>2. edit[e].c \in Clients \ doubtful
  BY <1>1 DEF Busy, BeingEdited
<1> QED BY <1>1, <1>2 DEF OneAtATime

\* Every step leaves a client that is not doubtful one edit or reset at a time.
LEMMA OneStep == Shape /\ OneAtATime /\ [Next]_vars => OneAtATime'
<1> SUFFICES ASSUME Shape, OneAtATime, [Next]_vars PROVE OneAtATime'
  OBVIOUS
<1>a. NoEdit.c = NoClient /\ NoReset.c = NoClient /\ edit \in [Editors -> Edits] /\ reset \in Resets
      /\ RenewedBusy \subseteq Clients /\ doubtful \subseteq Clients
  BY DEF NoEdit, NoReset, Shape, TypeOK, RenewedBusy, Due
<1>1. CASE UNCHANGED <<edit, reset>> /\ \A c \in doubtful : Busy(c) => c \in doubtful'
  BY <1>1, OneKept
<1>2. CASE Jobs
  <2>1. UNCHANGED <<edit, reset>>
    BY <1>2 DEF Jobs, TrafficJob, NodeJob, Restart, TimerRestart
  <2>2. CASE TrafficJob \/ NodeJob
    BY <1>1, <2>1, <2>2 DEF TrafficJob, NodeJob
  <2>3. CASE Restart
    BY <1>1, <1>a, <2>1, <2>3 DEF Restart
  <2>4. CASE TimerRestart
    BY <1>1, <1>a, <2>1, <2>4 DEF TimerRestart
  <2> QED BY <1>2, <2>2, <2>3, <2>4 DEF Jobs
<1>3. ASSUME NEW e \in Editors, EditStart(e) PROVE OneAtATime'
  <2>1. PICK c \in Clients, on \in BOOLEAN :
          /\ edit' = [edit EXCEPT ![e] = [NoEdit EXCEPT !.pc = "next", !.c = c, !.on = on, !.todo = Attached[c]]]
          /\ doubtful' = IF Busy(c) \/ Uneven(c) THEN doubtful \cup {c} ELSE doubtful
    BY <1>3 DEF EditStart
  <2>2. edit'[e].c = c /\ (\A x \in Editors \ {e} : edit'[x] = edit[x]) /\ reset' = reset
    BY <1>3, <1>a, <2>1 DEF NoEdit, EditStart
  <2>3. ~Busy(c) \/ c \in doubtful'
    BY <2>1
  <2>4. reset.c = c \/ (\E x \in Editors \ {e} : edit[x].c = c) => Busy(c)
    BY DEF Busy, BeingEdited
  <2>5. doubtful \subseteq doubtful'
    BY <2>1
  <2> QED BY <2>2, <2>3, <2>4, <2>5 DEF OneAtATime
<1>4. ASSUME NEW e \in Editors, EditRead(e) \/ EditSave(e) \/ EditFail(e) PROVE OneAtATime'
  <2>1. \A x \in Editors : edit'[x].c \in {edit[x].c, NoClient}
    <3>1. CASE EditRead(e)
      BY <1>a, <3>1 DEF EditRead, Edits
    <3>2. CASE EditSave(e)
      <4>1. PICK need \in BOOLEAN : edit' = [edit EXCEPT ![e] = EditAfter(e, edit[e].at, need)]
        BY <3>2, EditSaveUsers
      <4>2. EditAfter(e, edit[e].at, need).c \in {edit[e].c, NoClient}
        BY <1>a DEF EditAfter, Edits
      <4> QED BY <1>a, <4>1, <4>2
    <3>3. CASE EditFail(e)
      BY <1>a, <3>3 DEF EditFail
    <3> QED BY <1>4, <3>1, <3>2, <3>3
  <2>2. reset' = reset /\ doubtful \subseteq doubtful'
    BY <1>4 DEF EditRead, EditSave, EditFail, history
  <2> QED BY <2>1, <2>2, OneKept
<1>5. ASSUME NEW c \in Clients, ResetStart(c) PROVE OneAtATime'
  <2>1. reset'.c = c /\ edit' = edit /\ doubtful \subseteq doubtful' /\ (BeingEdited(c) => c \in doubtful')
    BY <1>5 DEF ResetStart, NoReset
  <2> QED BY <2>1 DEF OneAtATime, BeingEdited
<1>6. CASE ResetRead \/ ResetAdd \/ ResetSave \/ ResetFail
  <2>1. reset'.c \in {reset.c, NoClient}
    BY <1>a, <1>6 DEF ResetRead, ResetAdd, ResetSave, ResetFail, Resets
  <2>2. edit' = edit /\ doubtful \subseteq doubtful'
    BY <1>6 DEF ResetRead, ResetAdd, ResetSave, ResetFail, history
  <2> QED BY <2>1, <2>2, OneKept
<1>7. CASE ResetRows \/ ResetAllTraffics \/ (\E c \in Clients : Expire(c)) \/ UNCHANGED vars
  BY <1>1, <1>7 DEF ResetRows, ResetAllTraffics, Expire, vars, history
<1> QED BY <1>2, <1>3, <1>4, <1>5, <1>6, <1>7 DEF Next, Edit, Reset

-----------------------------------------------------------------------------
(* Records, rows and settings of a client with one inbound.                *)

(* AddTraffic leaves its record as its settings, and no record without a row. *)
LEMMA SingleTraffic ==
  ASSUME Shape, RecordMirrors, NEW u, AddTraffic(u)
  PROVE  RecordMirrors' /\ (RowFollows /\ revived' = revived => RowFollows')
<1> SUFFICES ASSUME NEW c \in Clients, Attached[c] = {Owner[c]}
             PROVE  /\ c \in rec' <=> c \in listed'[Owner[c]]
                    /\ c \in rec' => c \in stat' \/ (c \in rec \ stat)
  BY AddTrafficIs DEF RecordMirrors, RowFollows
<1> DEFINE o == Owner[c]  t == RenewedInbounds \cap Attached[c]
<1>1. o \in Inbounds /\ (t = {} \/ t = {o})
  BY QuotaAssumption DEF QuotaAssumption
<1>2. c \in Due => t # {} /\ RenewedIn(c) = o
  BY <1>1, RenewedInOwn DEF Shape, TypeOK, RenewedInbounds
<1>3. c \in RenewedSettings[o] <=> c \in listed[o] \/ c \in Back
  BY <1>1, <1>2 DEF RenewedSettings, Back
<1>4. c \in SyncInbounds(RenewedInbounds, RenewedSettings) <=> c \in RenewedSettings[o]
  <2>1. CASE t = {}
    BY <1>2, <1>3, <2>1 DEF SyncInbounds, RecordMirrors, Back
  <2>2. CASE t = {o}
    BY <1>1, <2>2, LastIn DEF SyncInbounds
  <2> QED BY <1>1, <2>1, <2>2
<1>5. c \in rec' <=> c \in RenewedSettings[o] /\ c \notin Depleted(u)
  BY <1>4 DEF AddTraffic
<1>6. c \in listed'[o] <=> c \in RenewedSettings[o] /\ c \notin Depleted(u)
  BY <1>1 DEF AddTraffic
<1>7. c \in rec' => c \in stat' \/ (c \in rec \ stat)
  BY <1>3, <1>5 DEF AddTraffic, Back, RecordMirrors
<1> QED BY <1>5, <1>6, <1>7

\* Every step keeps the settings and the rows of the clients agreed.
LEMMA SingleStep ==
  Shape /\ RecordMirrors /\ [Next]_vars => RecordMirrors' /\ (RowFollows => RowFollows')
<1> SUFFICES ASSUME Shape, RecordMirrors, [Next]_vars
             PROVE  RecordMirrors' /\ (RowFollows => RowFollows')
  OBVIOUS
<1>1. CASE Jobs
  <2>1. (\E u : AddTraffic(u)) /\ revived' = revived
    BY <1>1 DEF Jobs, TrafficJob, NodeJob, Restart, TimerRestart
  <2> QED BY <2>1, SingleTraffic
<1>2. ASSUME NEW e \in Editors, EditSave(e) PROVE RecordMirrors' /\ (RowFollows => RowFollows')
  <2> DEFINE c == edit[e].c  i == edit[e].at
  <2>1. /\ c \in Clients /\ i \in Inbounds
        /\ \A d \in Clients : d \in stat' <=> IF d = c THEN edit[e].on ELSE d \in stat
        /\ c \in listed'[i] <=> edit[e].on
        /\ \A d \in Clients \ {c} : d \in listed'[i] <=> d \in edit[e].copy
        /\ \A j \in Inbounds \ {i} : listed'[j] = listed[j]
        /\ \A d \in Clients : d \in rec' <=> IF i \in Attached[d] THEN d \in listed'[i] ELSE d \in rec
    BY <1>2, EditSaveIs
  <2>2. i \in Attached[c]
    BY <1>2, EditSaveIs
  <2>a. revived' = (revived \cup (edit[e].copy \ listed[i])) \ {c}
    BY <1>2 DEF EditSave
  <2> HIDE DEF c, i
  <2>3. ASSUME NEW d \in Clients, Attached[d] = {Owner[d]}
        PROVE  /\ d \in rec' <=> d \in listed'[Owner[d]]
               /\ d \in rec' \ revived' => d \in stat' \/ (d \in (rec \ stat) \ revived)
    <3>1. Owner[d] \in Inbounds
      BY QuotaAssumption DEF QuotaAssumption
    <3>2. CASE Owner[d] = i
      BY <2>1, <2>2, <2>a, <2>3, <3>1, <3>2 DEF RecordMirrors
    <3>3. CASE Owner[d] # i
      BY <2>1, <2>2, <2>a, <2>3, <3>1, <3>3 DEF RecordMirrors
    <3> QED BY <3>2, <3>3
  <2>4. rec' \subseteq Clients
    BY <1>2, EditSaveIs
  <2> QED BY <2>3, <2>4 DEF RecordMirrors, RowFollows
<1>3. CASE UNCHANGED <<rec, listed, revived>> /\ stat \subseteq stat'
  BY <1>3 DEF RecordMirrors, RowFollows
<1>4. ASSUME NEW e \in Editors, EditStart(e) \/ EditRead(e) \/ EditFail(e)
      PROVE  UNCHANGED <<rec, listed, revived, stat>>
  BY <1>4 DEF EditStart, EditRead, EditFail, database, history
<1>5. ASSUME Reset PROVE UNCHANGED <<rec, listed, revived>> /\ stat \subseteq stat'
  BY <1>5 DEF Reset, ResetStart, ResetRead, ResetAdd, ResetSave, ResetFail, database, history
<1>6. ASSUME ResetRows \/ ResetAllTraffics \/ (\E c \in Clients : Expire(c)) \/ UNCHANGED vars
      PROVE  UNCHANGED <<rec, listed, revived>> /\ stat \subseteq stat'
  BY <1>6 DEF ResetRows, ResetAllTraffics, Expire, vars, database, history
<1> QED BY <1>1, <1>2, <1>3, <1>4, <1>5, <1>6 DEF Next, Edit

-----------------------------------------------------------------------------
(* An enabled client with one inbound is in Xray.                          *)

\* Clients put back over the API are served, or a restart is due.
LEMMA ServedApi ==
  ASSUME InInv, NEW u, NEW bad, AddTraffic(u), users' = ApiUsers(u, bad),
         UNCHANGED <<edit, revived>>, doubtful \subseteq doubtful',
         RestartDue => RestartDue', bad \cap Added # {} => RestartDue'
  PROVE  ServedInReset'
<1> SUFFICES ASSUME NEW c \in (stat' \cap rec') \ (doubtful' \cup revived'), Attached[c] = {Owner[c]}
             PROVE  c \in users'[Owner[c]] \/ RestartDue' \/ BeingEdited(c)'
  BY DEF ServedInReset
<1>1. c \in Clients /\ Owner[c] \in Inbounds /\ c \in stat \cup Due /\ c \notin Depleted(u)
  BY QuotaAssumption, AddTrafficIs DEF QuotaAssumption, InInv
<1>2. c \in listed'[Owner[c]]
  BY <1>1, SingleTraffic DEF InInv, RecordMirrors
<1>3. c \in listed[Owner[c]] \/ <<Owner[c], c>> \in Added
  BY <1>1, <1>2, AddTrafficIs DEF InInv
<1>4. CASE <<Owner[c], c>> \in Added
  BY <1>1, <1>4, ApiUsersIs DEF InInv
<1>5. CASE <<Owner[c], c>> \notin Added
  <2>1. c \notin Back
    BY <1>5, RenewedInOwn DEF Added, Back, InInv, Shape, TypeOK
  <2>2. c \in stat \cap rec /\ c \notin doubtful /\ c \notin revived
    BY <1>1, <1>3, <1>5, <2>1 DEF Back, InInv, RecordMirrors
  <2>3. c \in users[Owner[c]] \/ RestartDue \/ BeingEdited(c)
    BY <2>2 DEF InInv, ServedInReset
  <2> QED BY <1>1, <2>3, ApiUsersIs DEF InInv, BeingEdited
<1> QED BY <1>4, <1>5

(* Where the users are those of the configuration.                          *)
LEMMA ServedConfig ==
  ASSUME InInv, Shape', \A c \in Clients \ doubtful' : c \in users'[Owner[c]] <=> c \in Config[Owner[c]]
  PROVE  ServedInReset'
<1> SUFFICES ASSUME NEW c \in (stat' \cap rec') \ doubtful'
             PROVE  c \in users'[Owner[c]]
  BY DEF ServedInReset
<1>1. c \in Clients /\ Owner[c] \in Inbounds /\ Owner[c] \in Attached[c]
  BY QuotaAssumption DEF QuotaAssumption, Shape, TypeOK
<1> QED BY <1>1 DEF Config, On

\* Every step keeps who is enabled served.
LEMMA ServedStep == (HasNodes => Renewing = {}) /\ InInv /\ [Next]_vars => ServedInReset'
<1> SUFFICES ASSUME HasNodes => Renewing = {}, InInv, [Next]_vars PROVE ServedInReset'
  OBVIOUS
<1>a. Shape /\ OneAtATime /\ RecordMirrors /\ RowFollows /\ ServedInReset /\ TypeOK /\ EditShape /\ ResetShape
  BY DEF InInv, Shape
<1>b. Shape' /\ \A c \in Clients : Owner[c] \in Inbounds /\ Attached[c] # {}
  BY <1>a, ShapeStep, QuotaAssumption DEF QuotaAssumption
<1>1. CASE TrafficJob
  <2>1. PICK u, bad : AddTraffic(u) /\ users' = ApiUsers(u, bad) /\ needRestart' = (needRestart \/ bad # {})
                      /\ forced' = (forced \/ (RestartOnDisable /\ Depleted(u) # {}))
    BY <1>1 DEF TrafficJob
  <2>2. UNCHANGED <<edit, revived>> /\ doubtful \subseteq doubtful'
    BY <1>1 DEF TrafficJob
  <2>3. (RestartDue => RestartDue') /\ (bad \cap Added # {} => RestartDue')
    BY <2>1 DEF RestartDue
  <2> QED BY <2>1, <2>2, <2>3, ServedApi
<1>2. CASE NodeJob
  <2>1. PICK bad : AddTraffic({}) /\ users' = ApiUsers({}, bad)
    BY <1>2 DEF NodeJob
  <2>2. UNCHANGED <<edit, revived>> /\ doubtful \subseteq doubtful' /\ (RestartDue => RestartDue')
    BY <1>2 DEF NodeJob, RestartDue
  <2>3. Added = {}
    BY <1>2 DEF NodeJob, Added, Back, Due
  <2> QED BY <2>1, <2>2, <2>3, ServedApi
<1>3. CASE Restart
  BY <1>3, <1>b, ServedConfig DEF Restart
<1>4. CASE TimerRestart
  <2>1. \A c \in Clients \ doubtful' : c \in users'[Owner[c]] <=> c \in Config[Owner[c]]
    BY <1>4, <1>b DEF TimerRestart
  <2> QED BY <2>1, <1>b, ServedConfig
<1>5. ASSUME NEW e \in Editors, EditStart(e) PROVE ServedInReset'
  <2>1. UNCHANGED <<stat, rec, users, revived, needRestart, forced>> /\ doubtful \subseteq doubtful'
    BY <1>5 DEF EditStart, database, flags
  <2>2. edit[e].c = NoClient /\ \A x \in Editors \ {e} : edit'[x] = edit[x]
    BY <1>a, <1>5 DEF EditStart, EditShape, TypeOK, NoEdit
  <2>3. \A c \in Clients : BeingEdited(c) => BeingEdited(c)'
    BY <2>2, QuotaAssumption DEF BeingEdited, QuotaAssumption
  <2> QED BY <1>a, <2>1, <2>3 DEF ServedInReset, RestartDue, TypeOK
<1>6. ASSUME NEW e \in Editors, EditRead(e) PROVE ServedInReset'
  <2>1. UNCHANGED <<stat, rec, users, revived, doubtful, needRestart, forced>>
    BY <1>6 DEF EditRead, database, flags, history
  <2>2. \A x \in Editors : edit'[x].c = edit[x].c
    BY <1>a, <1>6 DEF EditRead, TypeOK, Edits
  <2> QED BY <1>a, <2>1, <2>2 DEF ServedInReset, RestartDue, BeingEdited
<1>7. ASSUME NEW e \in Editors, EditFail(e) PROVE ServedInReset'
  <2>1. UNCHANGED <<stat, rec, revived, needRestart, forced>> /\ doubtful' = doubtful \cup {edit[e].c}
    BY <1>7 DEF EditFail, database, flags
  <2>2. \A x \in Editors \ {e} : edit'[x] = edit[x]
    BY <1>7, <1>a DEF EditFail, TypeOK
  <2>3. \A c \in Clients \ {edit[e].c}, i \in Inbounds : c \in users[i] => c \in users'[i]
    <3>1. CASE users' = users
      BY <3>1
    <3>2. ASSUME NEW removed \in BOOLEAN, NEW added \in BOOLEAN, users' = EditUsers(e, removed, added)
          PROVE  \A c \in Clients \ {edit[e].c}, i \in Inbounds : c \in users[i] => c \in users'[i]
      BY <1>a, <3>2 DEF EditUsers, TypeOK
    <3> QED BY <1>7, <3>1, <3>2 DEF EditFail
  <2>4. \A c \in Clients \ {edit[e].c} : BeingEdited(c) => BeingEdited(c)'
    BY <2>2 DEF BeingEdited
  <2> QED BY <1>a, <1>b, <2>1, <2>3, <2>4 DEF ServedInReset, RestartDue, TypeOK
<1>8. ASSUME NEW e \in Editors, EditSave(e) PROVE ServedInReset'
  <2>1. PICK c : c = edit[e].c
    OBVIOUS
  <2>2. PICK i : i = edit[e].at
    OBVIOUS
  <2>3. PICK need \in BOOLEAN :
          /\ edit' = [edit EXCEPT ![e] = EditAfter(e, i, need)]
          /\ needRestart' = (needRestart \/ (edit[e].todo \ {i} = {} /\ need))
          /\ \A d \in Clients, j \in Inbounds : d # c \/ j # i => (d \in users'[j] <=> d \in users[j])
          /\ c \notin users'[i] /\ edit[e].on => need
    BY <1>8, <1>a, <2>1, <2>2, EditSaveUsers
  <2>4. /\ c \in Clients /\ i \in Inbounds /\ i \in Attached[c] /\ edit[e].todo \subseteq Attached[c] /\ i \in edit[e].todo
        /\ \A d \in Clients : d \in stat' <=> IF d = c THEN edit[e].on ELSE d \in stat
        /\ \A d \in Clients \ {c} : d \in listed'[i] <=> d \in edit[e].copy
        /\ \A d \in Clients : d \in rec' <=> IF i \in Attached[d] THEN d \in listed'[i] ELSE d \in rec
    BY <1>8, <1>a, <2>1, <2>2, EditSaveIs
  <2>5. forced' = forced /\ doubtful \subseteq doubtful'
        /\ revived' = (revived \cup (edit[e].copy \ listed[i])) \ {c}
    BY <1>8, <2>1, <2>2 DEF EditSave
  <2> SUFFICES ASSUME NEW d \in (stat' \cap rec') \ (doubtful' \cup revived'), Attached[d] = {Owner[d]}
               PROVE  d \in users'[Owner[d]] \/ RestartDue' \/ BeingEdited(d)'
    BY DEF ServedInReset
  <2>6. d \in Clients /\ Owner[d] \in Inbounds
    BY <1>b DEF Shape, TypeOK
  <2>7. CASE d = c
    <3>1. edit[e].todo \ {i} = {} /\ Owner[d] = i /\ edit[e].on
      BY <2>4, <2>6, <2>7
    <3> QED BY <2>3, <2>7, <3>1 DEF RestartDue
  <2>8. CASE d # c
    <3>1. d \in stat /\ d \notin doubtful /\ d \notin revived
      BY <2>4, <2>5, <2>6, <2>8
    <3>2. d \in rec
      BY <1>a, <2>4, <2>5, <2>6, <2>8 DEF RecordMirrors
    <3>3. d \in users[Owner[d]] \/ RestartDue \/ BeingEdited(d)
      BY <1>a, <3>1, <3>2 DEF ServedInReset
    <3>4. BeingEdited(d) => BeingEdited(d)'
      BY <1>a, <2>1, <2>3, <2>8 DEF BeingEdited, TypeOK
    <3> QED BY <2>3, <2>5, <2>6, <2>8, <3>3, <3>4 DEF RestartDue
  <2> QED BY <2>7, <2>8
<1>9. CASE Reset
  <2>1. UNCHANGED <<rec, edit, revived, forced>> /\ doubtful \subseteq doubtful' /\ (needRestart => needRestart')
    <3>1. UNCHANGED <<rec, edit, revived, forced>>
      BY <1>9 DEF Reset, ResetStart, ResetRead, ResetAdd, ResetSave, ResetFail, database, flags, history
    <3>2. doubtful \subseteq doubtful'
      BY <1>9 DEF Reset, ResetStart, ResetRead, ResetAdd, ResetSave, ResetFail, history
    <3>3. needRestart' = needRestart \/ ResetSave
      BY <1>9 DEF Reset, ResetStart, ResetRead, ResetAdd, ResetFail, flags
    <3>4. ResetSave => needRestart' = (needRestart \/ (reset.todo \ {reset.at} = {} /\ reset.need))
      BY DEF ResetSave
    <3>5. needRestart \in BOOLEAN
      BY <1>a DEF TypeOK
    <3> QED BY <3>1, <3>2, <3>3, <3>4, <3>5
  <2>2. \A c \in Clients, i \in Inbounds : c \in users[i] => c \in users'[i]
    <3>1. users' = users \/ users' = [users EXCEPT ![reset.at] = @ \cup {reset.c}]
      BY <1>9 DEF Reset, ResetStart, ResetRead, ResetAdd, ResetSave, ResetFail
    <3> QED BY <1>a, <3>1 DEF TypeOK
  <2>3. stat' = stat \/ stat' = stat \cup {reset.c}
    BY <1>9 DEF Reset, ResetStart, ResetRead, ResetAdd, ResetSave, ResetFail, database
  <2>4. \A c \in rec' \ revived' : Attached[c] = {Owner[c]} /\ c \in stat' => c \in stat
    BY <1>a, <2>1, <2>3 DEF RowFollows
  <2> QED BY <1>a, <1>b, <2>1, <2>2, <2>4 DEF ServedInReset, RestartDue, BeingEdited, TypeOK
<1>10. CASE ResetRows \/ ResetAllTraffics \/ (\E c \in Clients : Expire(c)) \/ UNCHANGED vars
  <2>1. UNCHANGED <<rec, users, edit, revived, forced>> /\ doubtful \subseteq doubtful' /\ (needRestart => needRestart')
    BY <1>10 DEF ResetRows, ResetAllTraffics, Expire, vars, database, flags, history
  <2> QED BY <1>a, <2>1 DEF ServedInReset, RestartDue, BeingEdited, RowFollows
<1> QED BY <1>1, <1>2, <1>3, <1>4, <1>5, <1>6, <1>7, <1>8, <1>9, <1>10 DEF Next, Jobs, Edit

-----------------------------------------------------------------------------
(* The records and the served clients of every reachable state.            *)

(* A record is what the settings say, whatever jobs, edits and resets        *)
(* overlap: SyncInbound follows every write of settings (web/service/        *)
(* client.go), the renewal and the disabling update both.                   *)
THEOREM RecordsMirror == Spec => []RecordMirrors
<1>1. Init => Shape /\ RecordMirrors
  <2>1. Init => RecordMirrors
    BY QuotaAssumption DEF QuotaAssumption, Init, RecordMirrors
  <2> QED BY <2>1, ShapeInit
<1>2. (Shape /\ RecordMirrors) /\ [Next]_vars => (Shape /\ RecordMirrors)'
  BY ShapeStep, SingleStep
<1> QED BY <1>1, <1>2, PTL DEF Spec

(* Every variable has its type.                                            *)
THEOREM TypeCorrect == Spec => []TypeOK
<1>1. Shape => TypeOK
  BY DEF Shape
<1> QED BY <1>1, ShapeInit, ShapeStep, PTL DEF Spec

(* An enabled client is in Xray or a restart is due, if no renewal can fail   *)
(* in the node job, which drops the news (job/node_traffic_sync_job.go).     *)
THEOREM EnabledAreServed == (HasNodes => Renewing = {}) => (Spec => []EnabledIsServed)
<1> SUFFICES ASSUME HasNodes => Renewing = {} PROVE Spec => []EnabledIsServed
  OBVIOUS
<1>1. Init => InInv
  <2> SUFFICES ASSUME Init PROVE InInv
    OBVIOUS
  <2>1. OneAtATime
    BY QuotaAssumption DEF QuotaAssumption, Init, OneAtATime, NoEdit
  <2>2. RecordMirrors /\ RowFollows /\ ServedInReset
    BY QuotaAssumption DEF QuotaAssumption, Init, RecordMirrors, RowFollows, ServedInReset
  <2> QED BY <2>1, <2>2, ShapeInit DEF InInv
<1>2. InInv /\ [Next]_vars => InInv'
  BY ShapeStep, OneStep, SingleStep, ServedStep DEF InInv
<1>3. InInv => EnabledIsServed
  BY DEF InInv, ServedInReset, EnabledIsServed, Busy
<1> QED BY <1>1, <1>2, <1>3, PTL DEF Spec

-----------------------------------------------------------------------------
(* A disabled client is out of Xray.                                       *)

(* AddTraffic takes the client of an edit out of all its inbounds or none.   *)
LEMMA SoundTraffic ==
  ASSUME OutInv, NEW u, AddTraffic(u), UNCHANGED edit,
         RenewedBusy \subseteq doubtful', \A c \in doubtful : Busy(c) => c \in doubtful',
         NEW e \in Editors, edit[e].c \in Clients \ doubtful'
  PROVE  /\ Consistent(e)' /\ edit[e].c \notin doubtful /\ edit[e].c \notin Due
         /\ \A i \in Inbounds : edit[e].c \in listed'[i] <=> edit[e].c \in listed[i] \ Depleted(u)
<1> DEFINE c == edit[e].c
<1>1. Busy(c) /\ c \notin doubtful /\ c \notin Due
  BY DEF Busy, BeingEdited, RenewedBusy
<1>2. Consistent(e)
  BY <1>1 DEF OutInv, EditSound
<1>3. /\ \A i \in Inbounds : c \in listed'[i] <=> c \in listed[i] \ Depleted(u)
      /\ c \in stat' => c \in stat
  <2>1. \A i \in Inbounds : <<i, c>> \notin Added
    BY <1>1, AddTrafficIs DEF OutInv, Back
  <2>2. \A i \in Inbounds : c \in listed'[i] <=> c \notin Depleted(u) /\ (c \in listed[i] \/ <<i, c>> \in Added)
    BY AddTrafficIs DEF OutInv
  <2>3. stat' = (stat \cup Due) \ Depleted(u)
    BY AddTrafficIs DEF OutInv
  <2> QED BY <1>1, <2>1, <2>2, <2>3
<1>4. edit[e].pc # "idle" /\ edit[e].todo \subseteq Inbounds /\ (edit[e].pc = "save" => edit[e].at \in edit[e].todo)
  BY QuotaAssumption DEF QuotaAssumption, OutInv, Shape, EditShape, TypeOK, Edits, NoEdit
<1> QED BY <1>1, <1>2, <1>3, <1>4 DEF Consistent

(* The jobs that count on Xray's API: a client that was disabled and is still *)
(* a user is one of which a restart will take care.                          *)
LEMMA OutApi ==
  ASSUME OutInv, NEW u, NEW bad, AddTraffic(u), users' = ApiUsers(u, bad), UNCHANGED <<edit, reset>>,
         doubtful \cup RenewedBusy \subseteq doubtful', RestartDue => RestartDue',
         \A c \in Depleted(u), i \in Inbounds : c \in users'[i] => RestartDue'
  PROVE  EditSound' /\ UnlistedIsOut' /\ OutWhenDisabled'
<1>a. Shape /\ \A c \in Clients : Attached[c] \subseteq Inbounds
  BY QuotaAssumption DEF OutInv, QuotaAssumption
<1>1. EditSound'
  <2> SUFFICES ASSUME NEW e \in Editors, edit[e].c \in Clients \ doubtful' PROVE Consistent(e)' /\ Removing(e)'
    BY DEF EditSound
  <2>1. Consistent(e)' /\ edit[e].c \notin doubtful /\ edit[e].c \notin Due
        /\ \A i \in Inbounds : edit[e].c \in listed'[i] <=> edit[e].c \in listed[i] \ Depleted(u)
    BY SoundTraffic
  <2>2. Removing(e)
    BY <2>1 DEF OutInv, EditSound
  <2>3. \A i \in Inbounds : edit[e].c \in users'[i] => edit[e].c \in users[i] \/ <<i, edit[e].c>> \in Added
    BY <1>a, ApiUsersIs
  <2>4. \A i \in Inbounds : <<i, edit[e].c>> \notin Added
    BY <1>a, <2>1, AddTrafficIs DEF Back
  <2> QED BY <2>1, <2>2, <2>3, <2>4 DEF Removing
<1>2. ASSUME NEW c \in Clients \ doubtful', c \in Served', c \notin stat' \/ \A i \in Attached[c] : c \notin listed'[i]
      PROVE  RestartDue' \/ (/\ c \in Served /\ c \notin doubtful
                             /\ c \notin stat' => c \notin stat
                             /\ \A i \in Attached[c] : c \in listed[i] => c \in listed'[i])
  <2>1. PICK i \in Inbounds : c \in users'[i]
    BY <1>2 DEF Served
  <2>2. CASE c \in Depleted(u)
    BY <2>1, <2>2
  <2>3. CASE c \notin Depleted(u)
    <3>1. c \in stat \cup Due => c \in stat'
      BY <1>a, <2>3, AddTrafficIs
    <3>2. \A j \in Attached[c] : c \in listed[j] \/ <<j, c>> \in Added => c \in listed'[j]
      BY <1>a, <2>3, AddTrafficIs
    <3>3. <<i, c>> \notin Added
      BY <1>2, <1>a, <3>1, <3>2, AddTrafficIs DEF Back
    <3>4. c \in users[i]
      BY <1>a, <2>1, <3>3, ApiUsersIs
    <3> QED BY <2>1, <3>1, <3>2, <3>4 DEF Served
  <2> QED BY <2>2, <2>3
<1>3. UnlistedIsOut'
  BY <1>2 DEF OutInv, UnlistedIsOut, BeingEdited
<1>4. OutWhenDisabled'
  BY <1>2 DEF OutInv, OutWhenDisabled, Busy, BeingEdited
<1> QED BY <1>1, <1>3, <1>4

(* The restarts, and the timer's choice not to make one: the users of a client *)
(* that is not doubtful are those of the configuration.                      *)
LEMMA OutConfig ==
  ASSUME OutInv, Shape', AddTraffic({}), UNCHANGED <<edit, reset>>,
         RenewedBusy \subseteq doubtful', \A c \in doubtful : Busy(c) => c \in doubtful',
         \A c \in Clients \ doubtful', i \in Inbounds : c \in users'[i] <=> c \in Config[i]
  PROVE  EditSound' /\ UnlistedIsOut' /\ OutWhenDisabled'
<1>1. ASSUME NEW c \in Clients \ doubtful', NEW i \in Inbounds, c \in users'[i]
      PROVE  c \in stat' /\ i \in Attached[c] /\ \E j \in Attached[c] : c \in listed'[j]
  BY <1>1 DEF Config, On, Shape, RecordIsListed
<1>2. UnlistedIsOut' /\ OutWhenDisabled'
  BY <1>1 DEF UnlistedIsOut, OutWhenDisabled, Served
<1>3. EditSound'
  <2> SUFFICES ASSUME NEW e \in Editors, edit[e].c \in Clients \ doubtful' PROVE Consistent(e)' /\ Removing(e)'
    BY DEF EditSound
  <2>1. Consistent(e)'
    BY SoundTraffic
  <2> QED BY <1>1, <2>1 DEF Consistent, Removing
<1> QED BY <1>2, <1>3

\* The jobs keep who is disabled out.
LEMMA OutJobs ==
  ASSUME HasNodes => RestartOnDisable, OutInv, Shape', Jobs
  PROVE  EditSound' /\ ResetSound' /\ UnlistedIsOut' /\ OutWhenDisabled'
<1>a. Shape
  BY DEF OutInv
<1>1. ResetSound'
  <2>1. reset' = reset /\ reset.pc # "add"
    BY DEF Jobs, TrafficJob, NodeJob, Restart, TimerRestart, WriterFree
  <2> QED BY <2>1 DEF ResetSound
<1>2. CASE TrafficJob
  <2>1. PICK u, bad : AddTraffic(u) /\ users' = ApiUsers(u, bad) /\ needRestart' = (needRestart \/ bad # {})
                      /\ forced' = (forced \/ (RestartOnDisable /\ Depleted(u) # {}))
    BY <1>2 DEF TrafficJob
  <2>2. UNCHANGED <<edit, reset>> /\ doubtful \cup RenewedBusy \subseteq doubtful'
    BY <1>2 DEF TrafficJob
  <2>3. RestartDue => RestartDue'
    BY <2>1 DEF RestartDue
  <2>4. \A c \in Depleted(u), i \in Inbounds : c \in users'[i] => RestartDue'
    <3>1. Depleted(u) \subseteq Clients
      BY <1>a, <2>1, AddTrafficIs DEF Shape, TypeOK
    <3>2. \A c \in Depleted(u), i \in Inbounds : c \in users'[i] => <<i, c>> \in bad
      BY <1>a, <2>1, <3>1, ApiUsersIs
    <3> QED BY <2>1, <3>2 DEF RestartDue
  <2> QED BY <1>1, <2>1, <2>2, <2>3, <2>4, OutApi
<1>3. CASE NodeJob
  <2>1. PICK bad : AddTraffic({}) /\ users' = ApiUsers({}, bad)
    BY <1>3 DEF NodeJob
  <2>2. UNCHANGED <<edit, reset, needRestart>> /\ doubtful \cup RenewedBusy \subseteq doubtful'
        /\ forced' = (forced \/ (RestartOnDisable /\ Depleted({}) # {})) /\ HasNodes
    BY <1>3 DEF NodeJob
  <2>3. (RestartDue => RestartDue') /\ (Depleted({}) # {} => RestartDue')
    BY <2>2 DEF RestartDue
  <2> QED BY <1>1, <2>1, <2>2, <2>3, OutApi
<1>4. CASE Restart
  <2>1. AddTraffic({}) /\ UNCHANGED <<edit, reset>> /\ users' = Config /\ doubtful' = {c \in Clients : Busy(c)}
    BY <1>4 DEF Restart
  <2>2. RenewedBusy \subseteq doubtful' /\ \A c \in doubtful : Busy(c) => c \in doubtful'
    BY <1>a, <2>1 DEF RenewedBusy, Due, Shape, TypeOK
  <2> QED BY <1>1, <2>1, <2>2, OutConfig
<1>5. CASE TimerRestart
  <2>1. AddTraffic({}) /\ UNCHANGED <<edit, reset>>
    BY <1>5 DEF TimerRestart
  <2>2. RenewedBusy \subseteq doubtful' /\ \A c \in doubtful : Busy(c) => c \in doubtful'
    BY <1>a, <1>5 DEF TimerRestart, RenewedBusy, Due, Shape, TypeOK
  <2>3. \A c \in Clients \ doubtful', i \in Inbounds : c \in users'[i] <=> c \in Config[i]
    BY <1>5 DEF TimerRestart
  <2> QED BY <1>1, <2>1, <2>2, <2>3, OutConfig
<1> QED BY <1>2, <1>3, <1>4, <1>5 DEF Jobs

(* Steps that leave settings, users and edits alone, and enable a row at most. *)
LEMMA OutKept ==
  ASSUME OutInv, UNCHANGED <<listed, users, edit>>, stat \subseteq stat', doubtful \subseteq doubtful',
         RestartDue => RestartDue', \A c \in stat' \ stat : BeingEdited(c) => c \in doubtful',
         \A c \in Clients \ doubtful' : Busy(c) => Busy(c)' \/ c \in stat'
  PROVE  EditSound' /\ UnlistedIsOut' /\ OutWhenDisabled'
<1>1. EditSound'
  <2> SUFFICES ASSUME NEW e \in Editors, edit[e].c \in Clients \ doubtful' PROVE Consistent(e)' /\ Removing(e)'
    BY DEF EditSound
  <2>1. Consistent(e) /\ Removing(e)
    BY DEF OutInv, EditSound
  <2>2. edit[e].c \in stat' => edit[e].c \in stat
    BY DEF BeingEdited
  <2> QED BY <2>1, <2>2 DEF Consistent, Removing
<1>2. UnlistedIsOut'
  BY DEF OutInv, UnlistedIsOut, BeingEdited, Served
<1>3. OutWhenDisabled'
  BY DEF OutInv, OutWhenDisabled, Served
<1> QED BY <1>1, <1>2, <1>3

\* So does a reset,
LEMMA OutReset ==
  ASSUME OutInv, Reset
  PROVE  EditSound' /\ ResetSound' /\ UnlistedIsOut' /\ OutWhenDisabled'
<1>a. /\ Shape /\ TypeOK /\ ResetShape /\ OneAtATime /\ reset \in Resets /\ needRestart \in BOOLEAN
      /\ NoReset.pc = "idle" /\ NoReset.c = NoClient /\ NoClient \notin Clients
  BY QuotaAssumption DEF OutInv, Shape, TypeOK, NoReset, QuotaAssumption
<1>b. reset.c \in Clients /\ BeingEdited(reset.c) => reset.c \in doubtful
  BY <1>a DEF OneAtATime, BeingEdited
<1>1. ASSUME NEW c \in Clients, ResetStart(c) PROVE EditSound' /\ ResetSound' /\ UnlistedIsOut' /\ OutWhenDisabled'
  <2>1. UNCHANGED <<listed, users, edit, stat>> /\ doubtful \subseteq doubtful' /\ (RestartDue => RestartDue')
    BY <1>1 DEF ResetStart, database, flags, RestartDue
  <2>2. reset'.pc = "next" /\ reset.c = NoClient
    BY <1>1, <1>a DEF ResetStart, NoReset, ResetShape
  <2>3. \A d \in Clients : Busy(d) => Busy(d)'
    BY <1>a, <2>1, <2>2 DEF Busy, BeingEdited
  <2>4. ResetSound'
    BY <2>2 DEF ResetSound
  <2> QED BY <2>1, <2>3, <2>4, OutKept
<1>2. CASE ResetRead
  <2>1. UNCHANGED <<listed, users, edit, stat, doubtful>> /\ (RestartDue => RestartDue')
    BY <1>2 DEF ResetRead, database, flags, history, RestartDue
  <2>2. PICK i \in reset.todo :
          reset' = [reset EXCEPT !.pc = "add", !.at = i, !.enabled = (reset.c \notin stat /\ reset.c \in listed[i])]
    BY <1>2 DEF ResetRead
  <2>3. /\ reset'.c = reset.c /\ reset'.at = i
        /\ reset'.enabled = (reset.c \notin stat /\ reset.c \in listed[i])
    BY <1>a, <2>2 DEF Resets
  <2>4. ResetSound'
    BY <2>1, <2>3 DEF ResetSound
  <2>5. \A d \in Clients : Busy(d) => Busy(d)'
    BY <2>1, <2>3 DEF Busy, BeingEdited
  <2> QED BY <2>1, <2>4, <2>5, OutKept
<1>3. CASE ResetAdd
  <2>1. UNCHANGED <<listed, edit, stat, doubtful>> /\ (RestartDue => RestartDue') /\ reset.pc = "add"
    BY <1>3 DEF ResetAdd, database, flags, history, RestartDue
  <2>2. reset'.c = reset.c /\ reset'.pc = "save"
    BY <1>3, <1>a DEF ResetAdd, Resets
  <2>3. reset.c \in Clients /\ reset.at \in Attached[reset.c] /\ reset.at \in Inbounds
    BY <1>a, <2>1, QuotaAssumption DEF ResetShape, QuotaAssumption
  <2>4. users' = users \/ (reset.enabled /\ users' = [users EXCEPT ![reset.at] = @ \cup {reset.c}])
    BY <1>3 DEF ResetAdd
  <2>5. \A d \in Clients, j \in Inbounds : d \in users'[j] =>
          d \in users[j] \/ (d = reset.c /\ (d \in listed[reset.at] \/ d \in doubtful))
    BY <1>a, <2>1, <2>3, <2>4 DEF OutInv, ResetSound, TypeOK
  <2>6. EditSound'
    <3> SUFFICES ASSUME NEW e \in Editors, edit[e].c \in Clients \ doubtful PROVE Consistent(e)' /\ Removing(e)'
      BY <2>1 DEF EditSound
    <3>1. Consistent(e) /\ Removing(e) /\ edit[e].c # reset.c
      BY <1>a DEF OutInv, EditSound, OneAtATime
    <3> QED BY <2>1, <2>5, <3>1 DEF Consistent, Removing
  <2>7. UnlistedIsOut'
    <3> SUFFICES ASSUME NEW c \in Clients \ doubtful, c \in Served', \A i \in Attached[c] : c \notin listed[i]
                 PROVE  RestartDue' \/ BeingEdited(c)
      BY <2>1 DEF UnlistedIsOut, BeingEdited
    <3>1. c \in Served
      BY <2>3, <2>5 DEF Served
    <3> QED BY <2>1, <3>1 DEF OutInv, UnlistedIsOut
  <2>8. OutWhenDisabled'
    <3> SUFFICES ASSUME NEW c \in Clients \ (stat \cup doubtful), c \in Served' PROVE RestartDue' \/ Busy(c)
      BY <2>1, <2>2 DEF OutWhenDisabled, Busy, BeingEdited
    <3>1. c \in Served \/ c = reset.c
      BY <2>5 DEF Served
    <3> QED BY <2>1, <3>1 DEF OutInv, OutWhenDisabled, Busy
  <2>9. ResetSound'
    BY <2>2 DEF ResetSound
  <2> QED BY <2>6, <2>7, <2>8, <2>9
<1>4. CASE ResetSave
  <2>1. UNCHANGED <<listed, users, edit, doubtful, forced>> /\ stat' = stat \cup {reset.c}
        /\ needRestart' = (needRestart \/ (reset.todo \ {reset.at} = {} /\ reset.need)) /\ reset.pc = "save"
    BY <1>4 DEF ResetSave, history
  <2>2. RestartDue => RestartDue'
    BY <1>a, <2>1 DEF RestartDue
  <2>3. \A c \in stat' \ stat : BeingEdited(c) => c \in doubtful'
    BY <1>a, <1>b, <2>1 DEF ResetShape
  <2>4. \A c \in Clients : Busy(c) => Busy(c)' \/ c \in stat'
    BY <2>1 DEF Busy, BeingEdited
  <2>5. reset'.pc # "add"
    <3>1. \/ reset' = NoReset
          \/ reset' = [reset EXCEPT !.pc = "next", !.todo = reset.todo \ {reset.at}, !.at = 0, !.enabled = FALSE]
      BY <1>4 DEF ResetSave
    <3> QED BY <1>a, <3>1 DEF Resets
  <2>6. ResetSound'
    BY <2>5 DEF ResetSound
  <2> QED BY <2>1, <2>2, <2>3, <2>4, <2>6, OutKept
<1>5. CASE ResetFail
  <2>1. UNCHANGED <<listed, users, edit, stat>> /\ doubtful' = doubtful \cup {reset.c} /\ (RestartDue => RestartDue')
        /\ reset'.pc = "idle"
    BY <1>5, <1>a DEF ResetFail, database, flags, RestartDue
  <2>2. \A c \in Clients \ doubtful' : Busy(c) => Busy(c)'
    BY <2>1 DEF Busy, BeingEdited
  <2>3. ResetSound'
    BY <2>1 DEF ResetSound
  <2> QED BY <2>1, <2>2, <2>3, OutKept
<1> QED BY <1>1, <1>2, <1>3, <1>4, <1>5 DEF Reset

(* Steps of an edit that write nothing: another edit keeps what it relied on. *)
LEMMA OutBegins ==
  ASSUME OutInv, NEW e \in Editors, UNCHANGED <<stat, listed, users, reset>>, doubtful \subseteq doubtful',
         needRestart' = needRestart, forced' = forced,
         \A x \in Editors \ {e} : edit'[x] = edit[x], edit[e].c \in {edit'[e].c, NoClient},
         edit'[e].c \in Clients \ doubtful' => Consistent(e)' /\ Removing(e)'
  PROVE  EditSound' /\ ResetSound' /\ UnlistedIsOut' /\ OutWhenDisabled'
<1>1. \A c \in Clients : BeingEdited(c) => BeingEdited(c)'
  BY QuotaAssumption DEF BeingEdited, QuotaAssumption
<1>2. UnlistedIsOut' /\ OutWhenDisabled' /\ ResetSound'
  BY <1>1 DEF OutInv, UnlistedIsOut, OutWhenDisabled, ResetSound, Served, RestartDue, Busy
<1>3. EditSound'
  <2> SUFFICES ASSUME NEW x \in Editors \ {e}, edit[x].c \in Clients \ doubtful' PROVE Consistent(x)' /\ Removing(x)'
    BY DEF EditSound
  <2> QED BY DEF OutInv, EditSound, Consistent, Removing, RestartDue
<1> QED BY <1>2, <1>3

\* so do the first steps of an edit,
LEMMA OutEditBegins ==
  ASSUME OutInv, NEW e \in Editors, EditStart(e) \/ EditRead(e)
  PROVE  EditSound' /\ ResetSound' /\ UnlistedIsOut' /\ OutWhenDisabled'
<1>a. Shape /\ TypeOK /\ EditShape /\ edit[e] \in Edits /\ edit \in [Editors -> Edits]
      /\ \A c \in Clients : Attached[c] \subseteq Inbounds
  BY QuotaAssumption DEF OutInv, Shape, TypeOK, QuotaAssumption
<1>1. UNCHANGED <<stat, listed, users, reset, needRestart, forced>> /\ doubtful \subseteq doubtful'
  BY DEF EditStart, EditRead, database, flags, history
<1>2. CASE EditStart(e)
  <2>1. PICK c \in Clients, on \in BOOLEAN :
          /\ edit' = [edit EXCEPT ![e] = [NoEdit EXCEPT !.pc = "next", !.c = c, !.on = on, !.todo = Attached[c]]]
          /\ doubtful' = IF Busy(c) \/ Uneven(c) THEN doubtful \cup {c} ELSE doubtful
    BY <1>2 DEF EditStart
  <2>2. /\ edit'[e].pc = "next" /\ edit'[e].c = c /\ edit'[e].todo = Attached[c]
        /\ \A x \in Editors \ {e} : edit'[x] = edit[x]
    BY <1>a, <2>1 DEF NoEdit
  <2>3. edit[e].c = NoClient
    <3>1. edit[e] = NoEdit
      BY <1>2, <1>a DEF EditStart, EditShape
    <3> QED BY <3>1 DEF NoEdit
  <2>4. ASSUME c \notin doubtful' PROVE Consistent(e)' /\ Removing(e)'
    <3>1. ~Busy(c) /\ ~Uneven(c) /\ c \notin doubtful
      BY <2>1, <2>4
    <3>2. \A i, j \in Attached[c] : c \in listed[i] => c \in listed[j]
      BY <3>1 DEF Uneven
    <3>3. \A i \in Inbounds : c \in users[i] => i \in Attached[c] /\ c \in Served
      BY <1>a DEF TypeOK, On, Served
    <3>4. c \in Served => RestartDue \/ \E j \in Attached[c] : c \in listed[j]
      BY <3>1 DEF OutInv, UnlistedIsOut, Busy
    <3>5. Consistent(e)'
      BY <1>1, <2>2, <3>2 DEF Consistent
    <3>6. Removing(e)'
      BY <1>1, <2>2, <3>2, <3>3, <3>4 DEF Removing, RestartDue
    <3> QED BY <3>5, <3>6
  <2> QED BY <1>1, <2>2, <2>3, <2>4, OutBegins
<1>3. CASE EditRead(e)
  <2>1. PICK i \in edit[e].todo : edit' = [edit EXCEPT ![e].pc = "save", ![e].at = i, ![e].copy = listed[i]]
    BY <1>3 DEF EditRead
  <2>2. /\ edit'[e].c = edit[e].c /\ edit'[e].todo = edit[e].todo /\ edit'[e].on = edit[e].on
        /\ edit'[e].need = edit[e].need /\ edit'[e].at = i /\ edit'[e].copy = listed[i]
        /\ \A x \in Editors \ {e} : edit'[x] = edit[x]
    BY <1>a, <2>1 DEF Edits
  <2>3. ASSUME edit[e].c \in Clients \ doubtful' PROVE Consistent(e)' /\ Removing(e)'
    <3>1. Consistent(e) /\ Removing(e)
      BY <1>1, <2>3 DEF OutInv, EditSound
    <3> QED BY <1>1, <2>2, <3>1 DEF Consistent, Removing, RestartDue
  <2> QED BY <1>1, <2>2, <2>3, OutBegins
<1> QED BY <1>2, <1>3

\* an edit that fails
LEMMA OutEditFail ==
  ASSUME OutInv, NEW e \in Editors, EditFail(e)
  PROVE  EditSound' /\ ResetSound' /\ UnlistedIsOut' /\ OutWhenDisabled'
<1>a. Shape /\ TypeOK /\ EditShape /\ edit \in [Editors -> Edits] /\ NoEdit.c = NoClient /\ NoClient \notin Clients
  BY QuotaAssumption DEF OutInv, Shape, TypeOK, NoEdit, QuotaAssumption
<1>1. /\ UNCHANGED <<stat, listed, reset, needRestart, forced>> /\ doubtful' = doubtful \cup {edit[e].c}
      /\ edit'[e] = NoEdit /\ \A x \in Editors \ {e} : edit'[x] = edit[x]
  BY <1>a DEF EditFail, database, flags
<1>2. \A c \in Clients \ doubtful', i \in Inbounds : c \in users'[i] <=> c \in users[i]
  <2>1. CASE users' = users
    BY <2>1
  <2>2. ASSUME NEW removed \in BOOLEAN, NEW added \in BOOLEAN, users' = EditUsers(e, removed, added)
        PROVE  \A c \in Clients \ doubtful', i \in Inbounds : c \in users'[i] <=> c \in users[i]
    BY <1>a, <1>1, <2>2 DEF EditUsers, TypeOK
  <2> QED BY <2>1, <2>2 DEF EditFail
<1>3. \A c \in Clients \ doubtful' : (BeingEdited(c)' <=> BeingEdited(c)) /\ (c \in Served' <=> c \in Served)
  BY <1>a, <1>1, <1>2 DEF BeingEdited, Served
<1>4. EditSound'
  <2> SUFFICES ASSUME NEW x \in Editors \ {e}, edit[x].c \in Clients \ doubtful' PROVE Consistent(x)' /\ Removing(x)'
    BY <1>a, <1>1 DEF EditSound
  <2>1. Consistent(x) /\ Removing(x)
    BY <1>1 DEF OutInv, EditSound
  <2> QED BY <1>1, <1>2, <2>1 DEF Consistent, Removing, RestartDue
<1>5. UnlistedIsOut' /\ OutWhenDisabled' /\ ResetSound'
  BY <1>1, <1>3 DEF OutInv, UnlistedIsOut, OutWhenDisabled, ResetSound, RestartDue, Busy
<1> QED BY <1>4, <1>5

\* and one that is saved.
LEMMA OutEditSave ==
  ASSUME OutInv, NEW e \in Editors, EditSave(e)
  PROVE  EditSound' /\ ResetSound' /\ UnlistedIsOut' /\ OutWhenDisabled'
<1>a. /\ Shape /\ TypeOK /\ EditShape /\ OneAtATime /\ edit \in [Editors -> Edits] /\ edit[e] \in Edits
      /\ NoEdit.c = NoClient /\ NoClient \notin Clients
      /\ \A d \in Clients : Attached[d] \subseteq Inbounds
  BY QuotaAssumption DEF OutInv, Shape, TypeOK, NoEdit, QuotaAssumption
<1>1. PICK c : c = edit[e].c
  OBVIOUS
<1>2. PICK i : i = edit[e].at
  OBVIOUS
<1> DEFINE left == edit[e].todo \ {i}
<1>3. PICK need \in BOOLEAN :
        /\ edit' = [edit EXCEPT ![e] = EditAfter(e, i, need)]
        /\ needRestart' = (needRestart \/ (left = {} /\ need))
        /\ edit[e].need => need
        /\ \A d \in Clients, j \in Inbounds : d # c \/ j # i => (d \in users'[j] <=> d \in users[j])
        /\ c \in users'[i] /\ ~edit[e].on => c \in users[i] /\ (c \in edit[e].copy => need)
  BY <1>a, <1>1, <1>2, EditSaveUsers
<1>4. /\ c \in Clients /\ i \in Inbounds /\ i \in Attached[c] /\ edit[e].pc = "save"
      /\ i \in edit[e].todo /\ edit[e].todo \subseteq Attached[c]
      /\ \A d \in Clients : d \in stat' <=> IF d = c THEN edit[e].on ELSE d \in stat
      /\ c \in listed'[i] <=> edit[e].on
      /\ \A d \in Clients \ {c} : d \in listed'[i] <=> d \in edit[e].copy
      /\ \A j \in Inbounds \ {i} : listed'[j] = listed[j]
  BY <1>a, <1>1, <1>2, EditSaveIs
<1>5. /\ forced' = forced /\ reset' = reset
      /\ doubtful' = doubtful \cup (listed[i] \ edit[e].copy)
                              \cup {d \in edit[e].copy \ (listed[i] \cup {c}) : Busy(d)}
  BY <1>1, <1>2 DEF EditSave
<1>6. (RestartDue => RestartDue') /\ (left = {} /\ need => RestartDue')
  BY <1>3, <1>5 DEF RestartDue
<1>7. /\ left # {} => /\ edit'[e].pc = "next" /\ edit'[e].c = c /\ edit'[e].todo = left
                      /\ edit'[e].on = edit[e].on /\ edit'[e].need = need
      /\ left = {} => edit'[e].c = NoClient
      /\ \A x \in Editors \ {e} : edit'[x] = edit[x]
  BY <1>a, <1>1, <1>3 DEF EditAfter, Edits
<1> HIDE DEF left
<1>b. left = edit[e].todo \ {i}
  BY DEF left
\* Another client that is not doubtful finds its flags as they were, or one more.
<1>8. ASSUME NEW d \in Clients \ doubtful', d # c
      PROVE  /\ d \notin doubtful /\ (d \in stat' <=> d \in stat) /\ (BeingEdited(d)' <=> BeingEdited(d))
             /\ \A j \in Inbounds : d \in listed[j] => d \in listed'[j]
             /\ Busy(d) => \A j \in Inbounds : d \in listed'[j] => d \in listed[j]
             /\ \A j \in Inbounds : d \in users'[j] <=> d \in users[j]
  <2>1. d \notin doubtful /\ (d \in stat' <=> d \in stat) /\ \A j \in Inbounds : d \in users'[j] <=> d \in users[j]
    BY <1>3, <1>4, <1>5, <1>8
  <2>2. BeingEdited(d)' <=> BeingEdited(d)
    BY <1>a, <1>1, <1>7, <1>8 DEF BeingEdited
  <2>3. (d \in listed[i] => d \in listed'[i]) /\ (Busy(d) /\ d \in listed'[i] => d \in listed[i])
    BY <1>4, <1>5, <1>8
  <2> QED BY <1>4, <2>1, <2>2, <2>3
\* The client of the edit, when the last inbound is done.
<1>9. ASSUME c \notin doubtful', left = {}, ~edit[e].on, c \in Served' PROVE RestartDue'
  <2>1. c \notin doubtful /\ Consistent(e) /\ Removing(e)
    BY <1>1, <1>4, <1>5, <1>9 DEF OutInv, EditSound
  <2>2. PICK j \in Inbounds : c \in users'[j]
    BY <1>9 DEF Served
  <2>3. CASE j = i
    BY <1>1, <1>2, <1>3, <1>4, <1>6, <1>9, <2>1, <2>2, <2>3 DEF Consistent, Removing
  <2>4. CASE j # i
    BY <1>b, <1>1, <1>3, <1>4, <1>6, <1>9, <2>1, <2>2, <2>4 DEF Removing
  <2> QED BY <2>3, <2>4
<1>10. EditSound'
  <2> SUFFICES ASSUME NEW x \in Editors, edit'[x].c \in Clients \ doubtful' PROVE Consistent(x)' /\ Removing(x)'
    BY DEF EditSound
  <2>1. CASE x = e
    <3>1. left # {} /\ c \notin doubtful'
      BY <1>a, <1>7, <2>1
    <3>2. Consistent(e) /\ Removing(e)
      BY <1>1, <1>4, <1>5, <3>1 DEF OutInv, EditSound
    <3>3. \A j \in left : j \in Inbounds /\ j # i /\ j \in edit[e].todo /\ listed'[j] = listed[j]
      BY <1>a, <1>b, <1>4
    <3>4. Consistent(e)'
      BY <1>1, <1>4, <1>7, <3>1, <3>2, <3>3 DEF Consistent
    <3>5. ASSUME NEW j \in Inbounds, c \in users'[j], ~edit[e].on
          PROVE  RestartDue' \/ need \/ (j \in left /\ c \in listed'[j])
      <4>1. CASE j = i
        BY <1>1, <1>2, <1>3, <1>4, <1>6, <3>2, <3>5, <4>1 DEF Consistent, Removing
      <4>2. CASE j # i
        BY <1>b, <1>1, <1>3, <1>4, <1>6, <3>2, <3>5, <4>2 DEF Removing
      <4> QED BY <4>1, <4>2
    <3>6. Removing(e)'
      BY <1>7, <3>1, <3>5 DEF Removing
    <3> QED BY <2>1, <3>4, <3>6
  <2>2. CASE x # e
    <3> DEFINE d == edit[x].c
    <3>1. edit'[x] = edit[x] /\ d \in Clients \ doubtful' /\ Busy(d)
      BY <1>7, <2>2 DEF Busy, BeingEdited
    <3>2. d \notin doubtful
      BY <1>5, <3>1
    <3>3. d # c
      BY <1>a, <1>1, <2>2, <3>1, <3>2 DEF OneAtATime
    <3>4. Consistent(x) /\ Removing(x)
      BY <3>1, <3>2 DEF OutInv, EditSound
    <3>5. edit[x].todo \subseteq Inbounds /\ (edit[x].pc = "save" => edit[x].at \in Inbounds)
      BY <1>a, <3>1 DEF EditShape, Edits
    <3>6. /\ d \in stat' <=> d \in stat
          /\ \A j \in Inbounds : (d \in listed'[j] <=> d \in listed[j]) /\ (d \in users'[j] <=> d \in users[j])
      BY <1>8, <3>1, <3>3
    <3>7. Consistent(x)'
      BY <3>1, <3>4, <3>5, <3>6 DEF Consistent
    <3>8. Removing(x)'
      BY <1>6, <3>1, <3>4, <3>6 DEF Removing
    <3> QED BY <3>7, <3>8
  <2> QED BY <2>1, <2>2
<1>11. ASSUME NEW d \in Clients \ doubtful', d \in Served', d # c \/ left = {}
       PROVE  RestartDue' \/ (d = c /\ edit[e].on) \/ (d # c /\ d \in Served)
  <2>1. CASE d = c
    BY <1>9, <1>11, <2>1
  <2>2. CASE d # c
    BY <1>8, <1>11, <2>2 DEF Served
  <2> QED BY <2>1, <2>2
<1>12. left # {} => BeingEdited(c)'
  BY <1>7 DEF BeingEdited
<1>13. UnlistedIsOut'
  <2> SUFFICES ASSUME NEW d \in Clients \ doubtful', d \in Served', \A j \in Attached[d] : d \notin listed'[j]
               PROVE  RestartDue' \/ BeingEdited(d)'
    BY DEF UnlistedIsOut
  <2>1. CASE d = c
    BY <1>4, <1>11, <1>12, <2>1
  <2>2. CASE d # c
    <3>1. d \notin doubtful /\ \A j \in Attached[d] : d \notin listed[j]
      BY <1>a, <1>8, <2>2
    <3>2. RestartDue' \/ RestartDue \/ BeingEdited(d)
      BY <1>11, <2>2, <3>1 DEF OutInv, UnlistedIsOut
    <3> QED BY <1>6, <1>8, <2>2, <3>2
  <2> QED BY <2>1, <2>2
<1>14. OutWhenDisabled'
  <2> SUFFICES ASSUME NEW d \in Clients \ doubtful', d \notin stat', d \in Served' PROVE RestartDue' \/ Busy(d)'
    BY DEF OutWhenDisabled
  <2>1. CASE d = c
    BY <1>4, <1>11, <1>12, <2>1 DEF Busy
  <2>2. CASE d # c
    <3>1. d \notin stat /\ d \notin doubtful
      BY <1>8, <2>2
    <3>2. RestartDue' \/ RestartDue \/ Busy(d)
      BY <1>11, <2>2, <3>1 DEF OutInv, OutWhenDisabled
    <3> QED BY <1>5, <1>6, <1>8, <2>2, <3>2 DEF Busy
  <2> QED BY <2>1, <2>2
<1>15. ResetSound'
  <2> SUFFICES ASSUME reset.pc = "add", reset.enabled, reset.c \notin doubtful' PROVE reset.c \in listed'[reset.at]
    BY <1>5 DEF ResetSound
  <2>1. reset.c \in Clients /\ reset.at \in Inbounds
    BY <1>a DEF Shape, ResetShape
  <2>2. reset.c \in listed[reset.at] /\ reset.c \notin doubtful
    BY <1>5 DEF OutInv, ResetSound
  <2>3. reset.c # c
    BY <1>a, <1>1, <1>4, <2>1, <2>2 DEF OneAtATime
  <2> QED BY <1>8, <2>1, <2>2, <2>3
<1> QED BY <1>10, <1>13, <1>14, <1>15

(* Unless the node job can drop the news of a call that failed, a client whose *)
(* row is disabled, by its quota, its expiry or an administrator, has no user  *)
(* in Xray, or a restart is due: for any number of inbounds, editors and jobs  *)
(* in any order.                                                            *)
THEOREM DisabledIsOut == (HasNodes => RestartOnDisable) => (Spec => []OutWhenDisabled)
<1> SUFFICES ASSUME HasNodes => RestartOnDisable PROVE Spec => []OutWhenDisabled
  OBVIOUS
<1>1. Init => OutInv
  <2> SUFFICES ASSUME Init PROVE OutInv
    OBVIOUS
  <2>1. OneAtATime /\ EditSound
    BY QuotaAssumption DEF QuotaAssumption, Init, OneAtATime, EditSound, NoEdit
  <2>2. ResetSound /\ UnlistedIsOut /\ OutWhenDisabled
    BY QuotaAssumption DEF QuotaAssumption, Init, ResetSound, UnlistedIsOut, OutWhenDisabled, Served, NoReset
  <2> QED BY <2>1, <2>2, ShapeInit DEF OutInv
<1>2. OutInv /\ [Next]_vars => OutInv'
  <2> SUFFICES ASSUME OutInv, [Next]_vars PROVE OutInv'
    OBVIOUS
  <2>1. Shape' /\ OneAtATime'
    BY ShapeStep, OneStep DEF OutInv
  <2>2. CASE Jobs
    BY <2>1, <2>2, OutJobs DEF OutInv
  <2>3. CASE Reset
    BY <2>1, <2>3, OutReset DEF OutInv
  <2>4. ASSUME NEW e \in Editors, Edit(e) PROVE OutInv'
    BY <2>1, <2>4, OutEditBegins, OutEditSave, OutEditFail DEF Edit, OutInv
  <2>5. CASE ResetRows \/ ResetAllTraffics \/ (\E c \in Clients : Expire(c)) \/ UNCHANGED vars
    <3>1. UNCHANGED <<listed, users, edit, reset, forced>> /\ stat \subseteq stat' /\ doubtful \subseteq doubtful'
      BY <2>5 DEF ResetRows, ResetAllTraffics, Expire, vars, database, flags, history
    <3>2. RestartDue => RestartDue'
      BY <2>5 DEF ResetRows, ResetAllTraffics, Expire, vars, flags, RestartDue
    <3>3. \A c \in stat' \ stat : BeingEdited(c) => c \in doubtful'
      BY <2>5 DEF ResetRows, ResetAllTraffics, Expire, vars, database, Busy
    <3>4. \A c \in Clients : Busy(c)' = Busy(c)
      BY <3>1 DEF Busy, BeingEdited
    <3>5. EditSound' /\ UnlistedIsOut' /\ OutWhenDisabled'
      BY <3>1, <3>2, <3>3, <3>4, OutKept
    <3>6. ResetSound'
      BY <3>1 DEF OutInv, ResetSound
    <3> QED BY <2>1, <3>5, <3>6 DEF OutInv
  <2> QED BY <2>2, <2>3, <2>4, <2>5 DEF Next
<1>3. OutInv => OutWhenDisabled
  BY DEF OutInv
<1> QED BY <1>1, <1>2, <1>3, PTL DEF Spec

=============================================================================
