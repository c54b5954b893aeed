---------------------------- MODULE XrayLifecycle ----------------------------
(***************************************************************************)
(* The Xray process under the panel: web/service/xray.go with its package  *)
(* variables p, lock, isNeedXrayRestart and isManuallyStopped, the process *)
(* of xray/process.go, the health check and the restart timer, and what    *)
(* they race with: edits of clients (client.go) and the expiry of clients  *)
(* (inbound.go), which change the database and, through the API, the       *)
(* running Xray.                                                           *)
(*                                                                         *)
(* A configuration is the set of users it lets in: db is what GetXrayConfig*)
(* would build from the committed database.  A process has the             *)
(* configuration it was started with, cfg, which edits through the API do  *)
(* not touch, and the users it really serves, live.                        *)
(***************************************************************************)
EXTENDS Naturals, FiniteSets

CONSTANTS
  Users,
  Slots,        \* identities of processes, reused once dead and forgotten
  Admins,       \* goroutines of the panel calling RestartXray(true) or StopXray
  Cron,         \* the timer of web.go, every 30 s
  Checkers,     \* runs of CheckXrayRunningJob; cron does not wait for the last one
  Jobs,         \* XrayTrafficJob
  Editors,      \* goroutines editing clients of one inbound
  NoOne,
  StopTimesOut, \* whether a killed process may outlive both deadlines of Stop
  MaxFaults     \* bound on the failures of a behaviour; not in the code

Restarters == Admins \cup {Cron} \cup Checkers \cup Jobs
Actors == Restarters \cup Editors

ASSUME LifecycleAssumption ==
  /\ NoOne \notin Actors \cup Slots \cup Users
  /\ Editors \cap Restarters = {}
  /\ Jobs \cap (Admins \cup {Cron} \cup Checkers) = {}
  /\ StopTimesOut \in BOOLEAN /\ MaxFaults \in Nat

(* The model never runs out of identities: one for p, one for the process   *)
(* to be started, and one for each that has outlived its stop.              *)
ASSUME SlotsAssumption ==
  IsFiniteSet(Slots) /\ Cardinality(Slots) >= 2 + (IF StopTimesOut THEN MaxFaults ELSE 0)

VARIABLES
  pc,          \* control state of each actor
  edit,        \* edit[x]: the client change x is making
  snap,        \* snap[x]: the configuration x's RestartXray has built
  lock,        \* holder of lock
  inboundLock, \* holder of the inbound's mutation lock
  dbLock,      \* holder of the database's write transaction
  needRestart, \* isNeedXrayRestart
  manuallyStopped,
  checkTime,   \* of CheckXrayRunningJob, 2 standing for more
  p,           \* the current process, NoOne before the first
  proc,        \* proc[i]: process i
  db,          \* users the committed database enables
  faults,
  suspect      \* users whose service may differ from the database (history)

locks == <<lock, inboundLock, dbLock>>
flags == <<needRestart, manuallyStopped>>
vars == <<pc, edit, snap, locks, flags, checkTime, p, proc, db, faults, suspect>>

Dead == [alive |-> FALSE, stopping |-> FALSE, port |-> FALSE, cfg |-> {}, live |-> {}]
NoEdit == [u |-> NoOne, remove |-> FALSE, add |-> FALSE, tx |-> FALSE, need |-> FALSE]

Init ==
  /\ pc = [x \in Actors |-> "idle"]
  /\ edit = [x \in Actors |-> NoEdit]
  /\ snap = [x \in Actors |-> {}]
  /\ lock = NoOne /\ inboundLock = NoOne /\ dbLock = NoOne
  /\ needRestart = FALSE /\ manuallyStopped = FALSE /\ checkTime = 0
  /\ p = NoOne
  /\ proc = [i \in Slots |-> Dead]
  /\ db \in SUBSET Users
  /\ faults = 0 /\ suspect = {}

IsXrayRunning == p # NoOne /\ proc[p].alive

Goto(x, l) == pc' = [pc EXCEPT ![x] = l]

Fault == faults < MaxFaults /\ faults' = faults + 1

-----------------------------------------------------------------------------
(* Edits of a client.  UpdateInboundClient and addInboundClient open a      *)
(* transaction, talk to Xray inside it and commit; DelInboundClient talks   *)
(* to Xray and saves at the end without one.                                *)

EditBegin(x) ==
  /\ x \in Editors /\ pc[x] = "idle" /\ inboundLock = NoOne
  /\ inboundLock' = x
  /\ \E u \in Users, enable \in BOOLEAN, tx \in BOOLEAN :
       /\ u \in db \/ enable
       /\ ~tx => ~enable
       /\ edit' = [edit EXCEPT ![x] =
            [u |-> u, remove |-> u \in db, add |-> enable, tx |-> tx, need |-> FALSE]]
       /\ Goto(x, IF tx THEN "begin" ELSE "remove")
  /\ UNCHANGED <<snap, lock, dbLock, flags, checkTime, p, proc, db, faults, suspect>>

(* Mutant: the transaction is not taken before Xray is told.                *)
EditTxUnlocked(x) ==
  /\ pc[x] = "begin"
  /\ Goto(x, "remove")
  /\ UNCHANGED <<edit, snap, locks, flags, checkTime, p, proc, db, faults, suspect>>

EditTx(x) ==
  /\ pc[x] = "begin" /\ dbLock = NoOne
  /\ dbLock' = x
  /\ Goto(x, "remove")
  /\ UNCHANGED <<edit, snap, lock, inboundLock, flags, checkTime, p, proc, db, faults, suspect>>

Listening == {i \in Slots : proc[i].alive /\ proc[i].port}

Put(u, on, s) == IF on THEN s \cup {u} ELSE s \ {u}

(* A call of Xray's API that adds or removes the user x edits.  Editors go  *)
(* through Local, which fails without a running Xray; the call itself       *)
(* reaches whatever listens, and may fail before or after taking effect.    *)
ApiAccepts(x) == p # NoOne /\ proc[p].port /\ (x \in Editors => proc[p].alive)

ApiCall(x, on) ==
  \/ /\ ApiAccepts(x)
     /\ \E i \in Listening : proc' = [proc EXCEPT ![i].live = Put(edit[x].u, on, @)]
     /\ UNCHANGED <<edit, faults, suspect>>
  \/ /\ ~ApiAccepts(x) \/ Listening = {}
     /\ edit' = [edit EXCEPT ![x].need = TRUE]
     /\ suspect' = suspect \cup {edit[x].u}
     /\ UNCHANGED <<proc, faults>>
  \/ /\ ApiAccepts(x) /\ Fault
     /\ edit' = [edit EXCEPT ![x].need = TRUE]
     /\ suspect' = suspect \cup {edit[x].u}
     /\ \/ UNCHANGED proc
        \/ \E i \in Listening : proc' = [proc EXCEPT ![i].live = Put(edit[x].u, on, @)]

(* Mutant: GetXrayAPIPort takes lock.                                       *)
EditRemoveLocks(x) ==
  /\ pc[x] = "remove" /\ lock = NoOne
  /\ x \in Jobs => proc[p].port
  /\ Goto(x, "add")
  /\ IF edit[x].remove
       THEN ApiCall(x, FALSE)
       ELSE UNCHANGED <<edit, proc, faults, suspect>>
  /\ UNCHANGED <<snap, locks, flags, checkTime, p, db>>

EditRemove(x) ==
  /\ pc[x] = "remove"
  /\ x \in Jobs => proc[p].port
  /\ Goto(x, "add")
  /\ IF edit[x].remove
       THEN ApiCall(x, FALSE)
       ELSE UNCHANGED <<edit, proc, faults, suspect>>
  /\ UNCHANGED <<snap, locks, flags, checkTime, p, db>>

EditAdd(x) ==
  /\ pc[x] = "add"
  /\ Goto(x, "commit")
  /\ IF edit[x].add
       THEN ApiCall(x, TRUE)
       ELSE UNCHANGED <<edit, proc, faults, suspect>>
  /\ UNCHANGED <<snap, locks, flags, checkTime, p, db>>

(* The handler's answer: (needRestart, nil), or (false, err) when the save   *)
(* fails and the transaction is rolled back, Xray's part being done.        *)
EditCommit(x) ==
  /\ pc[x] = "commit"
  /\ edit[x].tx \/ dbLock = NoOne
  /\ \/ /\ db' = Put(edit[x].u, edit[x].add, db)
        /\ Goto(x, IF x \in Jobs THEN "disabled" ELSE IF edit[x].need THEN "flag" ELSE "idle")
        /\ edit' = [edit EXCEPT ![x] = [NoEdit EXCEPT !.need = edit[x].need]]
        /\ UNCHANGED <<faults, suspect>>
     \/ /\ Fault
        /\ suspect' = suspect \cup {edit[x].u}
        /\ Goto(x, "idle")
        /\ edit' = [edit EXCEPT ![x] = NoEdit]
        /\ UNCHANGED db
  /\ dbLock' = IF edit[x].tx THEN NoOne ELSE dbLock
  /\ inboundLock' = IF inboundLock = x THEN NoOne ELSE inboundLock
  /\ UNCHANGED <<snap, lock, flags, checkTime, p, proc>>

SetToNeedRestart(x) ==
  /\ pc[x] = "flag"
  /\ needRestart' = TRUE
  /\ Goto(x, "idle")
  /\ edit' = [edit EXCEPT ![x] = NoEdit]
  /\ UNCHANGED <<snap, locks, manuallyStopped, checkTime, p, proc, db, faults, suspect>>

-----------------------------------------------------------------------------
(* disableInvalidClients, run by XrayTrafficJob and by GetXrayConfig: a     *)
(* client that has expired is removed from Xray, whatever p's state, and    *)
(* then from the database.                                                  *)

JobBegin(x) ==
  /\ x \in Jobs /\ pc[x] = "idle"
  /\ IsXrayRunning /\ proc[p].port
  /\ dbLock = NoOne
  /\ \E u \in db :
       /\ dbLock' = x
       /\ edit' = [edit EXCEPT ![x] =
            [u |-> u, remove |-> TRUE, add |-> FALSE, tx |-> TRUE, need |-> FALSE]]
       /\ Goto(x, "remove")
  /\ UNCHANGED <<snap, lock, inboundLock, flags, checkTime, p, proc, db, faults, suspect>>

(* Without an API port (Xray is being restarted) the removal panics: the    *)
(* traffic writer recovers, and the client stays enabled until next time.   *)
JobPanic(x) ==
  /\ x \in Jobs /\ pc[x] = "remove" /\ ~proc[p].port
  /\ dbLock' = NoOne
  /\ edit' = [edit EXCEPT ![x] = NoEdit]
  /\ Goto(x, "idle")
  /\ UNCHANGED <<snap, lock, inboundLock, flags, checkTime, p, proc, db, faults, suspect>>

(* The job may restart Xray for the disabled client (restartXrayOnClientDisable), *)
(* and asks for a restart if the API failed.                                *)
JobDisabled(x) ==
  /\ pc[x] = "disabled"
  /\ Goto(x, "lock") \/ Goto(x, IF edit[x].need THEN "flag" ELSE "idle")
  /\ UNCHANGED <<edit, snap, locks, flags, checkTime, p, proc, db, faults, suspect>>

-----------------------------------------------------------------------------
(* Who calls RestartXray                                                    *)

AdminRestart(x) ==
  /\ x \in Admins /\ pc[x] = "idle"
  /\ Goto(x, "lock")
  /\ UNCHANGED <<edit, snap, locks, flags, checkTime, p, proc, db, faults, suspect>>

AdminStop(x) ==
  /\ x \in Admins /\ pc[x] = "idle"
  /\ Goto(x, "stoplock")
  /\ UNCHANGED <<edit, snap, locks, flags, checkTime, p, proc, db, faults, suspect>>

CronTick(x) ==
  /\ x = Cron /\ pc[x] = "idle" /\ needRestart
  /\ needRestart' = FALSE
  /\ Goto(x, "lock")
  /\ UNCHANGED <<edit, snap, locks, manuallyStopped, checkTime, p, proc, db, faults, suspect>>

DidXrayCrash == ~IsXrayRunning /\ ~manuallyStopped

(* Mutant: three misses, of which only two are counted.                     *)
CheckTickNever(x) ==
  /\ x \in Checkers /\ pc[x] = "idle"
  /\ checkTime' = IF DidXrayCrash THEN IF checkTime < 2 THEN checkTime + 1 ELSE 2 ELSE 0
  /\ Goto(x, IF checkTime' > 2 THEN "lock" ELSE "idle")
  /\ UNCHANGED <<edit, snap, locks, flags, p, proc, db, faults, suspect>>

CheckTick(x) ==
  /\ x \in Checkers /\ pc[x] = "idle"
  /\ checkTime' = IF DidXrayCrash THEN IF checkTime < 2 THEN checkTime + 1 ELSE 2 ELSE 0
  /\ Goto(x, IF checkTime' > 1 THEN "lock" ELSE "idle")
  /\ UNCHANGED <<edit, snap, locks, flags, p, proc, db, faults, suspect>>

Forced(x) == x \in Admins \cup Jobs

-----------------------------------------------------------------------------
(* RestartXray                                                              *)

(* Mutant: the mark of a manual stop outlives the restart.                  *)
RestartLockKeeps(x) ==
  /\ pc[x] = "lock" /\ lock = NoOne
  /\ lock' = x
  /\ Goto(x, "settle")
  /\ UNCHANGED <<edit, snap, inboundLock, dbLock, flags, checkTime, p, proc, db, faults, suspect>>

RestartLock(x) ==
  /\ pc[x] = "lock" /\ lock = NoOne
  /\ lock' = x
  /\ manuallyStopped' = FALSE
  /\ Goto(x, "settle")
  /\ UNCHANGED <<edit, snap, inboundLock, dbLock, needRestart, checkTime, p, proc, db, faults, suspect>>

(* GetXrayConfig first runs AddTraffic(nil, nil) and ignores all it returns: *)
(* nothing has expired, or a client has and is removed from Xray and from   *)
(* the database, a failure of the API being forgotten.  On a process that   *)
(* never got as far as its API port the removal panics; the traffic writer  *)
(* recovers and the client stays enabled.  A busy database is an error too. *)
Settle(x) ==
  /\ pc[x] = "settle"
  /\ \/ dbLock = NoOne /\ UNCHANGED <<proc, db, faults, suspect>>
     \/ Fault /\ UNCHANGED <<proc, db, suspect>>
     \/ /\ dbLock = NoOne
        /\ \E u \in db :
             \/ /\ p # NoOne => proc[p].port
                /\ db' = db \ {u}
                /\ \/ /\ \E i \in Listening : proc' = [proc EXCEPT ![i].live = @ \ {u}]
                      /\ UNCHANGED <<faults, suspect>>
                   \/ /\ \/ Listening = {} /\ UNCHANGED faults
                         \/ Listening # {} /\ Fault
                      /\ suspect' = suspect \cup {u}
                      /\ UNCHANGED proc
             \/ /\ p # NoOne /\ ~proc[p].port
                /\ UNCHANGED <<proc, db, faults, suspect>>
  /\ Goto(x, "config")
  /\ UNCHANGED <<edit, snap, locks, flags, checkTime, p>>

Return(x) ==
  /\ lock' = NoOne
  /\ Goto(x, IF x \in Jobs /\ edit[x].need THEN "flag" ELSE "idle")
  /\ UNCHANGED <<inboundLock, dbLock>>

(* An error of RestartXray is only logged, except by XrayTrafficJob.        *)
ReturnError(x) ==
  /\ lock' = NoOne
  /\ Goto(x, IF x \in Jobs THEN "flag" ELSE "idle")
  /\ UNCHANGED <<inboundLock, dbLock>>

ReadConfig(x) ==
  /\ pc[x] = "config"
  /\ \/ snap' = [snap EXCEPT ![x] = db] /\ Goto(x, "decide") /\ UNCHANGED <<locks, faults>>
     \/ Fault /\ ReturnError(x) /\ UNCHANGED snap
  /\ UNCHANGED <<edit, flags, checkTime, p, proc, db, suspect>>

Decide(x) ==
  /\ pc[x] = "decide"
  /\ IF ~IsXrayRunning THEN Goto(x, "start") /\ UNCHANGED <<lock, inboundLock, dbLock, proc, snap>>
     ELSE IF ~Forced(x) /\ proc[p].cfg = snap[x] /\ ~needRestart
     THEN Return(x) /\ UNCHANGED proc /\ snap' = [snap EXCEPT ![x] = {}]
     ELSE /\ proc' = [proc EXCEPT ![p].stopping = TRUE]
          /\ Goto(x, "stopping") /\ UNCHANGED <<locks, snap>>
  /\ UNCHANGED <<edit, flags, checkTime, p, db, faults, suspect>>

(* Mutant: Stop does not wait for the process.                              *)
StoppedEarly(x) ==
  /\ pc[x] = "stopping"
  /\ Goto(x, "start")
  /\ UNCHANGED <<edit, snap, locks, flags, checkTime, p, proc, db, faults, suspect>>

(* Stop waits for the end of the process, 5 s after SIGTERM and 2 s after a *)
(* kill; its error is ignored.                                              *)
Stopped(x) ==
  /\ pc[x] = "stopping"
  /\ Goto(x, "start")
  /\ \/ ~proc[p].alive /\ UNCHANGED faults
     \/ proc[p].alive /\ StopTimesOut /\ Fault
  /\ UNCHANGED <<edit, snap, locks, flags, checkTime, p, proc, db, suspect>>

Differ(s, t) == (s \ t) \cup (t \ s)
Editing == {edit[x].u : x \in Actors} \ {NoOne}

(* A new process, which has no API port until startCommand and the version  *)
(* query are over; or the binary does not start.                            *)
Start(x) ==
  /\ pc[x] = "start"
  /\ \E i \in {j \in Slots : ~proc[j].alive /\ j # p} :
       /\ p' = i
       /\ \/ /\ proc' = [j \in Slots |->
                   IF j = i THEN [Dead EXCEPT !.alive = TRUE, !.cfg = snap[x], !.live = snap[x]]
                   ELSE IF proc[j].alive THEN proc[j] ELSE Dead]
             /\ suspect' = Differ(snap[x], db) \cup Editing
             /\ Goto(x, "port") /\ UNCHANGED <<lock, inboundLock, dbLock, faults>>
          \/ /\ Fault
             /\ proc' = [j \in Slots |-> IF proc[j].alive THEN proc[j] ELSE Dead]
             /\ ReturnError(x)
             /\ UNCHANGED suspect
  /\ snap' = [snap EXCEPT ![x] = {}]
  /\ UNCHANGED <<edit, flags, checkTime, db>>

RefreshPort(x) ==
  /\ pc[x] = "port"
  /\ proc' = [proc EXCEPT ![p].port = TRUE]
  /\ Return(x)
  /\ UNCHANGED <<edit, snap, flags, checkTime, p, db, faults, suspect>>

-----------------------------------------------------------------------------
(* StopXray                                                                 *)

StopLock(x) ==
  /\ pc[x] = "stoplock" /\ lock = NoOne
  /\ manuallyStopped' = TRUE
  /\ IF IsXrayRunning
       THEN /\ lock' = x /\ Goto(x, "awaitstop")
            /\ proc' = [proc EXCEPT ![p].stopping = TRUE]
       ELSE Goto(x, "idle") /\ UNCHANGED <<lock, proc>>
  /\ UNCHANGED <<edit, snap, inboundLock, dbLock, needRestart, checkTime, p, db, faults, suspect>>

StopAwait(x) ==
  /\ pc[x] = "awaitstop"
  /\ \/ ~proc[p].alive /\ UNCHANGED faults
     \/ proc[p].alive /\ StopTimesOut /\ Fault
  /\ Return(x)
  /\ UNCHANGED <<edit, snap, flags, checkTime, p, proc, db, suspect>>

-----------------------------------------------------------------------------
(* The process: it ends when told to, or by itself.                         *)

Exit(i) ==
  /\ proc[i].alive
  /\ IF proc[i].stopping THEN UNCHANGED faults ELSE Fault
  /\ proc' = [proc EXCEPT ![i] = [Dead EXCEPT !.port = (i = p) /\ proc[i].port]]
  /\ UNCHANGED <<pc, edit, snap, locks, flags, checkTime, p, db, suspect>>

-----------------------------------------------------------------------------
Handler(x) ==
  \/ EditTx(x) \/ EditRemove(x) \/ EditAdd(x) \/ EditCommit(x) \/ SetToNeedRestart(x)
  \/ JobDisabled(x) \/ JobPanic(x)

Restart(x) ==
  \/ RestartLock(x) \/ Settle(x) \/ ReadConfig(x) \/ Decide(x) \/ Stopped(x) \/ Start(x)
  \/ RefreshPort(x) \/ StopLock(x) \/ StopAwait(x)

Next ==
  \/ \E x \in Actors : Handler(x) \/ Restart(x)
  \/ \E x \in Actors :
       EditBegin(x) \/ JobBegin(x) \/ AdminRestart(x) \/ AdminStop(x) \/ CronTick(x) \/ CheckTick(x)
  \/ \E i \in Slots : Exit(i)

Spec == Init /\ [][Next]_vars

(* Goroutines in a handler go on, mutexes and the database's lock are       *)
(* granted in turn, timers tick, and a process that has been killed ends.   *)
(* Nobody has to edit, to press a button, or to let a client expire.        *)
Fairness ==
  /\ \A x \in Editors \cup Jobs : SF_vars(Handler(x))
  /\ \A x \in Restarters : SF_vars(Restart(x))
  /\ \A x \in Checkers : WF_vars(CheckTick(x))
  /\ SF_vars(CronTick(Cron))
  /\ \A i \in Slots : WF_vars(proc[i].stopping /\ Exit(i))

FairSpec == Spec /\ Fairness

-----------------------------------------------------------------------------
(* Properties *)

EditSteps == {"begin", "remove", "add", "commit"}
RestartSteps == {"settle", "config", "decide", "stopping", "start", "port"}

TypeOK ==
  /\ pc \in [Actors -> EditSteps \cup RestartSteps \cup
       {"idle", "flag", "disabled", "lock", "stoplock", "awaitstop"}]
  /\ edit \in [Actors -> [u : Users \cup {NoOne}, remove : BOOLEAN, add : BOOLEAN,
                          tx : BOOLEAN, need : BOOLEAN]]
  /\ snap \in [Actors -> SUBSET Users]
  /\ lock \in Restarters \cup {NoOne}
  /\ inboundLock \in Editors \cup {NoOne} /\ dbLock \in Editors \cup Jobs \cup {NoOne}
  /\ needRestart \in BOOLEAN /\ manuallyStopped \in BOOLEAN /\ checkTime \in 0 .. 2
  /\ p \in Slots \cup {NoOne}
  /\ proc \in [Slots -> [alive : BOOLEAN, stopping : BOOLEAN, port : BOOLEAN,
                         cfg : SUBSET Users, live : SUBSET Users]]
  /\ db \subseteq Users /\ suspect \subseteq Users
  /\ faults \in 0 .. MaxFaults
  /\ \A x \in Actors : pc[x] \in RestartSteps \cup {"awaitstop"} <=> lock = x
  /\ \A x \in Actors : (pc[x] \in EditSteps \ {"begin"} /\ edit[x].tx) <=> dbLock = x

(* However restarts, stops and health checks overlap, two Xray processes    *)
(* never run at once: the second could not bind its ports, and API calls    *)
(* would reach the wrong one.                                               *)
OneXray == \A i, j \in Slots : proc[i].alive /\ proc[j].alive => i = j

(* Outside lock, the mark of a manual stop and the process agree: what was  *)
(* stopped by hand is down, so the health check leaves alone exactly that.  *)
StopMarkIsTrue == manuallyStopped /\ lock = NoOne => ~IsXrayRunning

(* Xray serves exactly the users the database enables, except those whose   *)
(* API call failed, whose save failed, or whose edit overlapped a restart   *)
(* from a configuration read before it; and a restart clears those.         *)
ServesDatabase ==
  IsXrayRunning =>
    \A u \in Users \ (suspect \cup Editing) : u \in proc[p].live <=> u \in db

(* The inductive invariant behind these: which actor is at which step, ...  *)
StageInv ==
  \A x \in Actors :
    /\ x \in Editors => (pc[x] \in EditSteps <=> inboundLock = x)
    /\ pc[x] \in EditSteps =>
         /\ x \in Editors \cup Jobs
         /\ edit[x].u \in Users
         /\ edit[x].remove \/ edit[x].add
         /\ ~edit[x].tx => ~edit[x].add
         /\ x \in Jobs => edit[x].tx /\ ~edit[x].add
    /\ pc[x] = "begin" => x \in Editors /\ edit[x].tx
    /\ pc[x] = "disabled" => x \in Jobs
    /\ pc[x] \in RestartSteps \cup {"lock", "stoplock", "awaitstop"} => x \in Restarters

(* ... that no process but p is alive, and p is not when one is started, ... *)
ProcessInv ==
  /\ \A i \in Slots : proc[i].alive => i = p
  /\ \A x \in Actors :
       /\ pc[x] \in {"stopping", "port", "awaitstop"} => p \in Slots
       /\ pc[x] = "start" => ~IsXrayRunning
       /\ pc[x] \in RestartSteps => ~manuallyStopped
  /\ StopMarkIsTrue

(* ... and what an edit has done to Xray once it has begun to talk to it.   *)
Touched == {edit[x].u : x \in {y \in Actors : pc[y] \in {"add", "commit"}}}
ServeInv ==
  IsXrayRunning =>
    /\ \A u \in Users \ (suspect \cup Touched) : u \in proc[p].live <=> u \in db
    /\ \A x \in Actors :
         edit[x].u \notin suspect =>
           /\ pc[x] = "add" /\ ~edit[x].add => edit[x].u \notin proc[p].live
           /\ pc[x] = "commit" => (edit[x].u \in proc[p].live <=> edit[x].add)

IInv == TypeOK /\ StageInv /\ (~StopTimesOut => ProcessInv /\ ServeInv)

(* The process a goroutine waits for has been told to end, and there is      *)
(* always an identity left for the next one.                                *)
Alive == {i \in Slots : proc[i].alive}
SlotInv ==
  /\ \A x \in Actors : pc[x] \in {"stopping", "awaitstop"} => p \in Slots /\ (proc[p].alive => proc[p].stopping)
  /\ Cardinality(Alive \ {p}) <= faults
  /\ \A x \in Actors : pc[x] = "start" => Cardinality(Alive) <= faults

(* What the step of x waits for is there.                                   *)
Unblocked(x) ==
  /\ pc[x] \in {"begin", "settle"} \/ (pc[x] = "commit" /\ ~edit[x].tx) => dbLock = NoOne
  /\ pc[x] \in {"lock", "stoplock"} => lock = NoOne
  /\ pc[x] \in {"stopping", "awaitstop"} => ~proc[p].alive
  /\ pc[x] = "start" => \E i \in Slots : ~proc[i].alive /\ i # p

NoCircle ==
  (\E x \in Actors : pc[x] # "idle") =>
    \/ \E x \in Actors : pc[x] # "idle" /\ Unblocked(x)
    \/ \E i \in Slots : proc[i].alive /\ proc[i].stopping

(* Whatever RestartXray, StopXray, edits and jobs hold and wait for, one of  *)
(* those under way can go on, if only once the process it has told to end    *)
(* does: lock, the inbound's lock and the database's are never waited for    *)
(* in a circle, and nothing else is waited for.                             *)
CallsGoOn ==
  /\ NoCircle
  /\ \A x \in Actors : pc[x] # "idle" /\ Unblocked(x) => ENABLED (Handler(x) \/ Restart(x))

(* After finitely many failures an Xray that is down runs again, unless it  *)
(* was stopped by hand.                                                     *)
CrashRecovers == DidXrayCrash ~> ~DidXrayCrash

=============================================================================
