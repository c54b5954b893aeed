------------------------ MODULE XrayLifecycleProofs ------------------------
(***************************************************************************)
(* Proofs about XrayLifecycle for any sets of users, administrators, health*)
(* checks, jobs and editors and any number of failures.  IInv is inductive.*)
(* What it says of processes and of the users served needs that a killed   *)
(* process ends within Stop's deadlines; types and locks do not.           *)
(***************************************************************************)
EXTENDS XrayLifecycle, FiniteSetTheorems, TLAPS

ProcType == [alive : BOOLEAN, stopping : BOOLEAN, port : BOOLEAN,
             cfg : SUBSET Users, live : SUBSET Users]
EditType == [u : Users \cup {NoOne}, remove : BOOLEAN, add : BOOLEAN,
             tx : BOOLEAN, need : BOOLEAN]

(* What an API call, a SIGTERM and refreshAPIPort leave of a process.       *)
LEMMA ProcSet ==
  ASSUME proc \in [Slots -> ProcType], NEW i \in Slots, NEW s \in SUBSET Users, NEW b \in BOOLEAN
  PROVE  /\ [proc EXCEPT ![i].live = s] \in [Slots -> ProcType]
         /\ [proc EXCEPT ![i].stopping = b] \in [Slots -> ProcType]
         /\ [proc EXCEPT ![i].port = b] \in [Slots -> ProcType]
<1>1. proc[i] \in ProcType
  OBVIOUS
<1>2. /\ [proc[i] EXCEPT !.live = s] \in ProcType
      /\ [proc[i] EXCEPT !.stopping = b] \in ProcType
      /\ [proc[i] EXCEPT !.port = b] \in ProcType
  BY <1>1 DEF ProcType
<1> QED BY <1>2

(* A failed API call marks the edit and changes nothing else of it.         *)
LEMMA EditNeed ==
  ASSUME edit \in [Actors -> EditType], NEW x \in Actors
  PROVE  [edit EXCEPT ![x].need = TRUE] \in [Actors -> EditType]
<1>1. [edit[x] EXCEPT !.need = TRUE] \in EditType
  BY DEF EditType
<1> QED BY <1>1

(* Whatever becomes of an API call, it keeps the types and the edit itself. *)
LEMMA ApiCallType ==
  ASSUME TypeOK, NEW x \in Actors, NEW on \in BOOLEAN, edit[x].u \in Users, ApiCall(x, on)
  PROVE  /\ proc' \in [Slots -> ProcType]
         /\ edit' \in [Actors -> EditType]
         /\ suspect' \subseteq Users
         /\ faults' \in 0 .. MaxFaults
         /\ \A y \in Actors : /\ edit'[y].u = edit[y].u /\ edit'[y].remove = edit[y].remove
                              /\ edit'[y].add = edit[y].add /\ edit'[y].tx = edit[y].tx
<1>0. proc \in [Slots -> ProcType] /\ edit \in [Actors -> EditType]
  BY DEF TypeOK, ProcType, EditType
<1>1. \A i \in Listening : i \in Slots /\ Put(edit[x].u, on, proc[i].live) \in SUBSET Users
  BY DEF TypeOK, Listening, Put
<1>2. proc' \in [Slots -> ProcType]
  <2>1. \A i \in Listening : [proc EXCEPT ![i].live = Put(edit[x].u, on, @)] \in [Slots -> ProcType]
    BY <1>0, <1>1, ProcSet
  <2> QED BY <1>0, <2>1 DEF ApiCall
<1>3. edit' \in [Actors -> EditType]
  BY <1>0, EditNeed DEF ApiCall
<1>4. suspect' \subseteq Users /\ faults' \in 0 .. MaxFaults
  BY LifecycleAssumption DEF TypeOK, ApiCall, Fault
<1>5. \A y \in Actors : /\ edit'[y].u = edit[y].u /\ edit'[y].remove = edit[y].remove
                        /\ edit'[y].add = edit[y].add /\ edit'[y].tx = edit[y].tx
  BY <1>0 DEF ApiCall, EditType
<1> QED BY <1>2, <1>3, <1>4, <1>5

(* Before the first start there is no process and nobody holds a lock.      *)
LEMMA InitInv == Init => IInv
<1> USE LifecycleAssumption DEF Actors, Restarters, EditSteps, RestartSteps
<1>0. ASSUME Init PROVE IInv
  <2>1. proc \in [Slots -> ProcType] /\ edit \in [Actors -> EditType]
    BY <1>0 DEF Init, ProcType, EditType, Dead, NoEdit
  <2>2. pc \in [Actors -> {"idle"}] /\ snap \in [Actors -> SUBSET Users]
    BY <1>0 DEF Init
  <2>3. /\ lock = NoOne /\ inboundLock = NoOne /\ dbLock = NoOne /\ p = NoOne
        /\ needRestart = FALSE /\ manuallyStopped = FALSE /\ checkTime \in 0 .. 2
        /\ db \subseteq Users /\ suspect \subseteq Users
    BY <1>0 DEF Init
  <2>5. faults \in 0 .. MaxFaults
    BY <1>0 DEF Init
  <2>4. TypeOK
    BY <2>1, <2>2, <2>3, <2>5 DEF TypeOK, ProcType, EditType
  <2>6. StageInv
    BY <2>2, <2>3 DEF StageInv
  <2>7. ProcessInv /\ ServeInv
    BY <1>0 DEF Init, ProcessInv, ServeInv, StopMarkIsTrue, IsXrayRunning, Dead
  <2> QED BY <2>4, <2>6, <2>7 DEF IInv
<1> QED BY <1>0
(* Each step of an editor, of the traffic job, of a restart or a stop, and  *)
(* each end of a process, preserves IInv.                                   *)
LEMMA StepInv == IInv /\ [Next]_vars => IInv'
<1> SUFFICES ASSUME IInv, [Next]_vars PROVE IInv'
  OBVIOUS
<1> USE LifecycleAssumption DEF Actors, Restarters, EditSteps, RestartSteps, Goto, locks, flags
<1>1. ASSUME NEW x \in Actors, EditBegin(x) PROVE IInv'
  <2>1. TypeOK'
    BY <1>1 DEF IInv, TypeOK, StageInv, EditBegin, NoEdit
  <2>2. StageInv'
    <3>1. PICK u \in Users, enable \in BOOLEAN, tx \in BOOLEAN :
            /\ u \in db \/ enable
            /\ ~tx => ~enable
            /\ edit' = [edit EXCEPT ![x] =
                 [u |-> u, remove |-> u \in db, add |-> enable, tx |-> tx, need |-> FALSE]]
            /\ pc' = [pc EXCEPT ![x] = IF tx THEN "begin" ELSE "remove"]
      BY <1>1 DEF EditBegin
    <3>2. /\ edit'[x].u = u /\ edit'[x].remove = (u \in db)
          /\ edit'[x].add = enable /\ edit'[x].tx = tx
      BY <3>1 DEF IInv, TypeOK
    <3>3. \A y \in Actors \ {x} : edit'[y] = edit[y] /\ pc'[y] = pc[y]
      BY <3>1 DEF IInv, TypeOK
    <3>4. inboundLock = NoOne /\ inboundLock' = x /\ x \in Editors /\ pc'[x] \in {"begin", "remove"}
      BY <1>1, <3>1 DEF EditBegin, IInv, TypeOK
    <3>5. ASSUME NEW y \in Actors
          PROVE  /\ y \in Editors => (pc'[y] \in EditSteps <=> inboundLock' = y)
                 /\ y = x => pc'[y] \in {"begin", "remove"} /\ y \in Editors /\ y \notin Jobs
      BY <3>3, <3>4 DEF IInv, StageInv
    <3>6. pc'[x] = "begin" => edit'[x].tx
      BY <3>1, <3>2 DEF IInv, TypeOK
    <3>7. /\ edit'[x].u \in Users /\ (edit'[x].remove \/ edit'[x].add)
          /\ (~edit'[x].tx => ~edit'[x].add)
      BY <3>1, <3>2
    <3> QED BY <3>3, <3>4, <3>5, <3>6, <3>7 DEF IInv, StageInv
  <2>3. ASSUME ~StopTimesOut PROVE ProcessInv'
    BY <1>1, <2>3 DEF IInv, TypeOK, StageInv, ProcessInv, StopMarkIsTrue,
       IsXrayRunning, EditBegin, NoEdit
  <2>4. ASSUME ~StopTimesOut PROVE ServeInv'
    BY <1>1, <2>4 DEF IInv, TypeOK, StageInv, ProcessInv, ServeInv, Touched,
       IsXrayRunning, EditBegin, NoEdit
  <2> QED BY <2>1, <2>2, <2>3, <2>4 DEF IInv
<1>2. ASSUME NEW x \in Actors, EditTx(x) PROVE IInv'
  <2>1. TypeOK'
    BY <1>2 DEF IInv, TypeOK, StageInv, EditTx
  <2>2. StageInv'
    BY <1>2 DEF IInv, TypeOK, StageInv, EditTx
  <2>3. ASSUME ~StopTimesOut PROVE ProcessInv'
    BY <1>2, <2>3 DEF IInv, TypeOK, StageInv, ProcessInv, StopMarkIsTrue,
       IsXrayRunning, EditTx
  <2>4. ASSUME ~StopTimesOut PROVE ServeInv'
    BY <1>2, <2>4 DEF IInv, TypeOK, StageInv, ProcessInv, ServeInv, Touched,
       IsXrayRunning, EditTx
  <2> QED BY <2>1, <2>2, <2>3, <2>4 DEF IInv
<1>3. ASSUME NEW x \in Actors, EditRemove(x) PROVE IInv'
  <2>1. TypeOK'
    <3>1. edit[x].u \in Users
      BY <1>3 DEF EditRemove, IInv, StageInv
    <3>2. /\ proc' \in [Slots -> ProcType] /\ edit' \in [Actors -> EditType]
          /\ suspect' \subseteq Users /\ faults' \in 0 .. MaxFaults
          /\ \A y \in Actors : edit'[y].tx = edit[y].tx
      <4>1. CASE edit[x].remove
        BY <1>3, <3>1, <4>1, ApiCallType DEF EditRemove, IInv
      <4>2. CASE ~edit[x].remove
        BY <1>3, <4>2 DEF EditRemove, IInv, TypeOK, ProcType, EditType
      <4> QED BY <4>1, <4>2
    <3> QED BY <1>3, <3>2 DEF EditRemove, IInv, TypeOK, ProcType, EditType
  <2>2. StageInv'
    BY <1>3 DEF IInv, TypeOK, StageInv, EditRemove, ApiCall, Put, Fault, Listening, ApiAccepts
  <2>3. ASSUME ~StopTimesOut PROVE ProcessInv'
    BY <1>3, <2>3 DEF IInv, TypeOK, StageInv, ProcessInv, StopMarkIsTrue,
       IsXrayRunning, EditRemove, ApiCall, Put, Fault, Listening, ApiAccepts
  <2>4. ASSUME ~StopTimesOut PROVE ServeInv'
    BY <1>3, <2>4 DEF IInv, TypeOK, StageInv, ProcessInv, ServeInv, Touched,
       IsXrayRunning, EditRemove, ApiCall, Put, Fault, Listening, ApiAccepts
  <2> QED BY <2>1, <2>2, <2>3, <2>4 DEF IInv
<1>4. ASSUME NEW x \in Actors, EditAdd(x) PROVE IInv'
  <2>1. TypeOK'
    <3>1. edit[x].u \in Users
      BY <1>4 DEF EditAdd, IInv, StageInv
    <3>2. /\ proc' \in [Slots -> ProcType] /\ edit' \in [Actors -> EditType]
          /\ suspect' \subseteq Users /\ faults' \in 0 .. MaxFaults
          /\ \A y \in Actors : edit'[y].tx = edit[y].tx
      <4>1. CASE edit[x].add
        BY <1>4, <3>1, <4>1, ApiCallType DEF EditAdd, IInv
      <4>2. CASE ~edit[x].add
        BY <1>4, <4>2 DEF EditAdd, IInv, TypeOK, ProcType, EditType
      <4> QED BY <4>1, <4>2
    <3> QED BY <1>4, <3>2 DEF EditAdd, IInv, TypeOK, ProcType, EditType
  <2>2. StageInv'
    BY <1>4 DEF IInv, TypeOK, StageInv, EditAdd, ApiCall, Put, Fault, Listening, ApiAccepts
  <2>3. ASSUME ~StopTimesOut PROVE ProcessInv'
    BY <1>4, <2>3 DEF IInv, TypeOK, StageInv, ProcessInv, StopMarkIsTrue,
       IsXrayRunning, EditAdd, ApiCall, Put, Fault, Listening, ApiAccepts
  <2>4. ASSUME ~StopTimesOut PROVE ServeInv'
    BY <1>4, <2>4 DEF IInv, TypeOK, StageInv, ProcessInv, ServeInv, Touched,
       IsXrayRunning, EditAdd, ApiCall, Put, Fault, Listening, ApiAccepts
  <2> QED BY <2>1, <2>2, <2>3, <2>4 DEF IInv
<1>5. ASSUME NEW x \in Actors, EditCommit(x) PROVE IInv'
  <2>1. TypeOK'
    <3>1. edit[x].u \in Users
      BY <1>5 DEF EditCommit, IInv, StageInv
    <3>2. edit' \in [Actors -> EditType]
      <4>1. edit \in [Actors -> EditType] /\ NoEdit \in EditType
        BY DEF IInv, TypeOK, EditType, NoEdit
      <4>2. [NoEdit EXCEPT !.need = edit[x].need] \in EditType
        BY <4>1 DEF EditType
      <4> QED BY <1>5, <4>1, <4>2 DEF EditCommit
    <3>3. db' \subseteq Users /\ suspect' \subseteq Users /\ faults' \in 0 .. MaxFaults
      BY <1>5, <3>1 DEF EditCommit, Put, Fault, IInv, TypeOK
    <3>4. /\ pc' \in [Actors -> {"idle", "flag", "disabled"} \cup EditSteps \cup RestartSteps
                             \cup {"lock", "stoplock", "awaitstop"}]
          /\ pc'[x] \in {"idle", "flag", "disabled"}
          /\ \A y \in Actors \ {x} : pc'[y] = pc[y] /\ edit'[y] = edit[y]
      BY <1>5 DEF EditCommit, IInv, TypeOK
    <3>5. lock # x /\ dbLock' # x
      BY <1>5 DEF EditCommit, IInv, TypeOK
    <3> QED BY <1>5, <3>2, <3>3, <3>4, <3>5 DEF EditCommit, IInv, TypeOK, EditType
  <2>2. StageInv'
    BY <1>5 DEF IInv, TypeOK, StageInv, EditCommit, NoEdit, Put, Fault
  <2>3. ASSUME ~StopTimesOut PROVE ProcessInv'
    BY <1>5, <2>3 DEF IInv, TypeOK, StageInv, ProcessInv, StopMarkIsTrue,
       IsXrayRunning, EditCommit, NoEdit, Put, Fault
  <2>4. ASSUME ~StopTimesOut PROVE ServeInv'
    BY <1>5, <2>4 DEF IInv, TypeOK, StageInv, ProcessInv, ServeInv, Touched,
       IsXrayRunning, EditCommit, NoEdit, Put, Fault
  <2> QED BY <2>1, <2>2, <2>3, <2>4 DEF IInv
<1>6. ASSUME NEW x \in Actors, SetToNeedRestart(x) PROVE IInv'
  <2>1. TypeOK'
    BY <1>6 DEF IInv, TypeOK, StageInv, SetToNeedRestart, NoEdit
  <2>2. StageInv'
    BY <1>6 DEF IInv, TypeOK, StageInv, SetToNeedRestart, NoEdit
  <2>3. ASSUME ~StopTimesOut PROVE ProcessInv'
    BY <1>6, <2>3 DEF IInv, TypeOK, StageInv, ProcessInv, StopMarkIsTrue,
       IsXrayRunning, SetToNeedRestart, NoEdit
  <2>4. ASSUME ~StopTimesOut PROVE ServeInv'
    BY <1>6, <2>4 DEF IInv, TypeOK, StageInv, ProcessInv, ServeInv, Touched,
       IsXrayRunning, SetToNeedRestart, NoEdit
  <2> QED BY <2>1, <2>2, <2>3, <2>4 DEF IInv
<1>7. ASSUME NEW x \in Actors, JobBegin(x) PROVE IInv'
  <2>1. TypeOK'
    BY <1>7 DEF IInv, TypeOK, StageInv, JobBegin
  <2>2. StageInv'
    BY <1>7 DEF IInv, TypeOK, StageInv, JobBegin
  <2>3. ASSUME ~StopTimesOut PROVE ProcessInv'
    BY <1>7, <2>3 DEF IInv, TypeOK, StageInv, ProcessInv, StopMarkIsTrue,
       IsXrayRunning, JobBegin
  <2>4. ASSUME ~StopTimesOut PROVE ServeInv'
    BY <1>7, <2>4 DEF IInv, TypeOK, StageInv, ProcessInv, ServeInv, Touched,
       IsXrayRunning, JobBegin
  <2> QED BY <2>1, <2>2, <2>3, <2>4 DEF IInv
<1>8. ASSUME NEW x \in Actors, JobPanic(x) PROVE IInv'
  <2>1. TypeOK'
    BY <1>8 DEF IInv, TypeOK, StageInv, JobPanic, NoEdit
  <2>2. StageInv'
    BY <1>8 DEF IInv, TypeOK, StageInv, JobPanic, NoEdit
  <2>3. ASSUME ~StopTimesOut PROVE ProcessInv'
    BY <1>8, <2>3 DEF IInv, TypeOK, StageInv, ProcessInv, StopMarkIsTrue,
       IsXrayRunning, JobPanic, NoEdit
  <2>4. ASSUME ~StopTimesOut PROVE ServeInv'
    BY <1>8, <2>4 DEF IInv, TypeOK, StageInv, ProcessInv, ServeInv, Touched,
       IsXrayRunning, JobPanic, NoEdit
  <2> QED BY <2>1, <2>2, <2>3, <2>4 DEF IInv
<1>9. ASSUME NEW x \in Actors, JobDisabled(x) PROVE IInv'
  <2>1. TypeOK'
    BY <1>9 DEF IInv, TypeOK, StageInv, JobDisabled
  <2>2. StageInv'
    BY <1>9 DEF IInv, TypeOK, StageInv, JobDisabled
  <2>3. ASSUME ~StopTimesOut PROVE ProcessInv'
    BY <1>9, <2>3 DEF IInv, TypeOK, StageInv, ProcessInv, StopMarkIsTrue,
       IsXrayRunning, JobDisabled
  <2>4. ASSUME ~StopTimesOut PROVE ServeInv'
    BY <1>9, <2>4 DEF IInv, TypeOK, StageInv, ProcessInv, ServeInv, Touched,
       IsXrayRunning, JobDisabled
  <2> QED BY <2>1, <2>2, <2>3, <2>4 DEF IInv
<1>10. ASSUME NEW x \in Actors, AdminRestart(x) PROVE IInv'
  <2>1. TypeOK'
    BY <1>10 DEF IInv, TypeOK, StageInv, AdminRestart
  <2>2. StageInv'
    BY <1>10 DEF IInv, TypeOK, StageInv, AdminRestart
  <2>3. ASSUME ~StopTimesOut PROVE ProcessInv'
    BY <1>10, <2>3 DEF IInv, TypeOK, StageInv, ProcessInv, StopMarkIsTrue,
       IsXrayRunning, AdminRestart
  <2>4. ASSUME ~StopTimesOut PROVE ServeInv'
    BY <1>10, <2>4 DEF IInv, TypeOK, StageInv, ProcessInv, ServeInv, Touched,
       IsXrayRunning, AdminRestart
  <2> QED BY <2>1, <2>2, <2>3, <2>4 DEF IInv
<1>11. ASSUME NEW x \in Actors, AdminStop(x) PROVE IInv'
  <2>1. TypeOK'
    BY <1>11 DEF IInv, TypeOK, StageInv, AdminStop
  <2>2. StageInv'
    BY <1>11 DEF IInv, TypeOK, StageInv, AdminStop
  <2>3. ASSUME ~StopTimesOut PROVE ProcessInv'
    BY <1>11, <2>3 DEF IInv, TypeOK, StageInv, ProcessInv, StopMarkIsTrue,
       IsXrayRunning, AdminStop
  <2>4. ASSUME ~StopTimesOut PROVE ServeInv'
    BY <1>11, <2>4 DEF IInv, TypeOK, StageInv, ProcessInv, ServeInv, Touched,
       IsXrayRunning, AdminStop
  <2> QED BY <2>1, <2>2, <2>3, <2>4 DEF IInv
<1>12. ASSUME NEW x \in Actors, CronTick(x) PROVE IInv'
  <2>1. TypeOK'
    BY <1>12 DEF IInv, TypeOK, StageInv, CronTick
  <2>2. StageInv'
    BY <1>12 DEF IInv, TypeOK, StageInv, CronTick
  <2>3. ASSUME ~StopTimesOut PROVE ProcessInv'
    BY <1>12, <2>3 DEF IInv, TypeOK, StageInv, ProcessInv, StopMarkIsTrue,
       IsXrayRunning, CronTick
  <2>4. ASSUME ~StopTimesOut PROVE ServeInv'
    BY <1>12, <2>4 DEF IInv, TypeOK, StageInv, ProcessInv, ServeInv, Touched,
       IsXrayRunning, CronTick
  <2> QED BY <2>1, <2>2, <2>3, <2>4 DEF IInv
<1>13. ASSUME NEW x \in Actors, CheckTick(x) PROVE IInv'
  <2>1. TypeOK'
    BY <1>13 DEF IInv, TypeOK, StageInv, CheckTick
  <2>2. StageInv'
    BY <1>13 DEF IInv, TypeOK, StageInv, CheckTick
  <2>3. ASSUME ~StopTimesOut PROVE ProcessInv'
    BY <1>13, <2>3 DEF IInv, TypeOK, StageInv, ProcessInv, StopMarkIsTrue,
       IsXrayRunning, CheckTick
  <2>4. ASSUME ~StopTimesOut PROVE ServeInv'
    BY <1>13, <2>4 DEF IInv, TypeOK, StageInv, ProcessInv, ServeInv, Touched,
       IsXrayRunning, CheckTick
  <2> QED BY <2>1, <2>2, <2>3, <2>4 DEF IInv
<1>14. ASSUME NEW x \in Actors, RestartLock(x) PROVE IInv'
  <2>1. TypeOK'
    BY <1>14 DEF IInv, TypeOK, StageInv, RestartLock
  <2>2. StageInv'
    BY <1>14 DEF IInv, TypeOK, StageInv, RestartLock
  <2>3. ASSUME ~StopTimesOut PROVE ProcessInv'
    BY <1>14, <2>3 DEF IInv, TypeOK, StageInv, ProcessInv, StopMarkIsTrue,
       IsXrayRunning, RestartLock
  <2>4. ASSUME ~StopTimesOut PROVE ServeInv'
    BY <1>14, <2>4 DEF IInv, TypeOK, StageInv, ProcessInv, ServeInv, Touched,
       IsXrayRunning, RestartLock
  <2> QED BY <2>1, <2>2, <2>3, <2>4 DEF IInv
<1>15. ASSUME NEW x \in Actors, Settle(x) PROVE IInv'
  <2>1. TypeOK'
    BY <1>15 DEF IInv, TypeOK, StageInv, Settle, Fault, Listening
  <2>2. StageInv'
    BY <1>15 DEF IInv, TypeOK, StageInv, Settle, Fault, Listening
  <2>3. ASSUME ~StopTimesOut PROVE ProcessInv'
    BY <1>15, <2>3 DEF IInv, TypeOK, StageInv, ProcessInv, StopMarkIsTrue,
       IsXrayRunning, Settle, Fault, Listening
  <2>4. ASSUME ~StopTimesOut PROVE ServeInv'
    BY <1>15, <2>4 DEF IInv, TypeOK, StageInv, ProcessInv, ServeInv, Touched,
       IsXrayRunning, Settle, Fault, Listening
  <2> QED BY <2>1, <2>2, <2>3, <2>4 DEF IInv
<1>16. ASSUME NEW x \in Actors, ReadConfig(x) PROVE IInv'
  <2>1. TypeOK'
    BY <1>16 DEF IInv, TypeOK, StageInv, ReadConfig, Fault, ReturnError
  <2>2. StageInv'
    BY <1>16 DEF IInv, TypeOK, StageInv, ReadConfig, Fault, ReturnError
  <2>3. ASSUME ~StopTimesOut PROVE ProcessInv'
    BY <1>16, <2>3 DEF IInv, TypeOK, StageInv, ProcessInv, StopMarkIsTrue,
       IsXrayRunning, ReadConfig, Fault, ReturnError
  <2>4. ASSUME ~StopTimesOut PROVE ServeInv'
    BY <1>16, <2>4 DEF IInv, TypeOK, StageInv, ProcessInv, ServeInv, Touched,
       IsXrayRunning, ReadConfig, Fault, ReturnError
  <2> QED BY <2>1, <2>2, <2>3, <2>4 DEF IInv
<1>17. ASSUME NEW x \in Actors, Decide(x) PROVE IInv'
  <2>1. TypeOK'
    <3>1. proc' \in [Slots -> ProcType]
      <4>1. proc \in [Slots -> ProcType]
        BY DEF IInv, TypeOK, ProcType
      <4>2. p \in Slots => [proc EXCEPT ![p].stopping = TRUE] \in [Slots -> ProcType]
        BY <4>1, ProcSet
      <4> QED BY <1>17, <4>1, <4>2 DEF Decide, IsXrayRunning, IInv, TypeOK
    <3> QED BY <1>17, <3>1 DEF IInv, TypeOK, StageInv, ProcType, Decide, Return
  <2>2. StageInv'
    BY <1>17 DEF IInv, TypeOK, StageInv, Decide, Return
  <2>3. ASSUME ~StopTimesOut PROVE ProcessInv'
    BY <1>17, <2>3 DEF IInv, TypeOK, StageInv, ProcessInv, StopMarkIsTrue,
       IsXrayRunning, Decide, Return
  <2>4. ASSUME ~StopTimesOut PROVE ServeInv'
    BY <1>17, <2>4 DEF IInv, TypeOK, StageInv, ProcessInv, ServeInv, Touched,
       IsXrayRunning, Decide, Return
  <2> QED BY <2>1, <2>2, <2>3, <2>4 DEF IInv
<1>18. ASSUME NEW x \in Actors, Stopped(x) PROVE IInv'
  <2>1. TypeOK'
    BY <1>18 DEF IInv, TypeOK, StageInv, Stopped, Fault
  <2>2. StageInv'
    BY <1>18 DEF IInv, TypeOK, StageInv, Stopped, Fault
  <2>3. ASSUME ~StopTimesOut PROVE ProcessInv'
    BY <1>18, <2>3 DEF IInv, TypeOK, StageInv, ProcessInv, StopMarkIsTrue,
       IsXrayRunning, Stopped, Fault
  <2>4. ASSUME ~StopTimesOut PROVE ServeInv'
    BY <1>18, <2>4 DEF IInv, TypeOK, StageInv, ProcessInv, ServeInv, Touched,
       IsXrayRunning, Stopped, Fault
  <2> QED BY <2>1, <2>2, <2>3, <2>4 DEF IInv
<1>19. ASSUME NEW x \in Actors, Start(x) PROVE IInv'
  <2>1. TypeOK'
    <3>1. proc' \in [Slots -> ProcType]
      <4>1. /\ proc \in [Slots -> ProcType] /\ snap[x] \in SUBSET Users /\ Dead \in ProcType
        BY DEF IInv, TypeOK, ProcType, Dead
      <4>2. [Dead EXCEPT !.alive = TRUE, !.cfg = snap[x], !.live = snap[x]] \in ProcType
        BY <4>1 DEF ProcType
      <4>3. PICK i \in Slots :
              \/ proc' = [j \in Slots |->
                   IF j = i THEN [Dead EXCEPT !.alive = TRUE, !.cfg = snap[x], !.live = snap[x]]
                   ELSE IF proc[j].alive THEN proc[j] ELSE Dead]
              \/ proc' = [j \in Slots |-> IF proc[j].alive THEN proc[j] ELSE Dead]
        BY <1>19 DEF Start
      <4> QED BY <4>1, <4>2, <4>3
    <3>2. suspect' \subseteq Users
      BY <1>19 DEF Start, Differ, Editing, IInv, TypeOK
    <3> QED BY <1>19, <3>1, <3>2 DEF Start, Fault, ReturnError, IInv, TypeOK, StageInv, ProcType
  <2>2. StageInv'
    BY <1>19 DEF IInv, TypeOK, StageInv, Start, Fault, ReturnError, Dead, Differ, Editing
  <2>3. ASSUME ~StopTimesOut PROVE ProcessInv'
    BY <1>19, <2>3 DEF IInv, TypeOK, StageInv, ProcessInv, StopMarkIsTrue,
       IsXrayRunning, Start, Fault, ReturnError, Dead, Differ, Editing
  <2>4. ASSUME ~StopTimesOut PROVE ServeInv'
    <3> SUFFICES ASSUME IsXrayRunning' PROVE ServeInv'
      BY DEF ServeInv
    <3>1. /\ proc'[p'].live = snap[x] /\ suspect' = Differ(snap[x], db) \cup Editing
          /\ db' = db /\ edit' = edit
      <4>1. PICK i \in {j \in Slots : ~proc[j].alive /\ j # p} :
              /\ p' = i
              /\ \/ /\ proc' = [j \in Slots |->
                     IF j = i THEN [Dead EXCEPT !.alive = TRUE, !.cfg = snap[x], !.live = snap[x]]
                     ELSE IF proc[j].alive THEN proc[j] ELSE Dead]
                    /\ suspect' = Differ(snap[x], db) \cup Editing
                 \/ proc' = [j \in Slots |-> IF proc[j].alive THEN proc[j] ELSE Dead]
        BY <1>19 DEF Start
      <4>2. ~Dead.alive /\ ~proc[i].alive /\ i \in Slots
        BY <4>1 DEF Dead
      <4>3. proc'[i].alive
        BY <4>1 DEF IsXrayRunning
      <4>4. /\ proc'[i] = [Dead EXCEPT !.alive = TRUE, !.cfg = snap[x], !.live = snap[x]]
            /\ suspect' = Differ(snap[x], db) \cup Editing
        BY <4>1, <4>2, <4>3
      <4>5. proc'[i].live = snap[x]
        BY <4>4 DEF Dead
      <4> QED BY <1>19, <4>1, <4>4, <4>5 DEF Start
    <3>2. \A y \in Actors : edit'[y].u # NoOne => edit'[y].u \in suspect'
      BY <3>1 DEF Editing
    <3>3. \A y \in Actors : pc'[y] \in {"add", "commit"} => edit'[y].u \in suspect'
      BY <2>2, <3>2 DEF StageInv
    <3> QED BY <3>1, <3>3 DEF ServeInv, Differ, IInv, TypeOK
  <2> QED BY <2>1, <2>2, <2>3, <2>4 DEF IInv
<1>20. ASSUME NEW x \in Actors, RefreshPort(x) PROVE IInv'
  <2>1. TypeOK'
    <3>1. proc' \in [Slots -> ProcType]
      BY <1>20, ProcSet DEF RefreshPort, IInv, TypeOK, ProcType
    <3> QED BY <1>20, <3>1 DEF IInv, TypeOK, StageInv, ProcType, RefreshPort, Return
  <2>2. StageInv'
    BY <1>20 DEF IInv, TypeOK, StageInv, RefreshPort, Return
  <2>3. ASSUME ~StopTimesOut PROVE ProcessInv'
    BY <1>20, <2>3 DEF IInv, TypeOK, StageInv, ProcessInv, StopMarkIsTrue,
       IsXrayRunning, RefreshPort, Return
  <2>4. ASSUME ~StopTimesOut PROVE ServeInv'
    BY <1>20, <2>4 DEF IInv, TypeOK, StageInv, ProcessInv, ServeInv, Touched,
       IsXrayRunning, RefreshPort, Return
  <2> QED BY <2>1, <2>2, <2>3, <2>4 DEF IInv
<1>21. ASSUME NEW x \in Actors, StopLock(x) PROVE IInv'
  <2>1. TypeOK'
    <3>1. proc' \in [Slots -> ProcType]
      <4>1. proc \in [Slots -> ProcType]
        BY DEF IInv, TypeOK, ProcType
      <4>2. p \in Slots => [proc EXCEPT ![p].stopping = TRUE] \in [Slots -> ProcType]
        BY <4>1, ProcSet
      <4> QED BY <1>21, <4>1, <4>2 DEF StopLock, IsXrayRunning, IInv, TypeOK
    <3> QED BY <1>21, <3>1 DEF IInv, TypeOK, StageInv, ProcType, StopLock
  <2>2. StageInv'
    BY <1>21 DEF IInv, TypeOK, StageInv, StopLock
  <2>3. ASSUME ~StopTimesOut PROVE ProcessInv'
    BY <1>21, <2>3 DEF IInv, TypeOK, StageInv, ProcessInv, StopMarkIsTrue,
       IsXrayRunning, StopLock
  <2>4. ASSUME ~StopTimesOut PROVE ServeInv'
    BY <1>21, <2>4 DEF IInv, TypeOK, StageInv, ProcessInv, ServeInv, Touched,
       IsXrayRunning, StopLock
  <2> QED BY <2>1, <2>2, <2>3, <2>4 DEF IInv
<1>22. ASSUME NEW x \in Actors, StopAwait(x) PROVE IInv'
  <2>1. TypeOK'
    BY <1>22 DEF IInv, TypeOK, StageInv, StopAwait, Return, Fault
  <2>2. StageInv'
    BY <1>22 DEF IInv, TypeOK, StageInv, StopAwait, Return, Fault
  <2>3. ASSUME ~StopTimesOut PROVE ProcessInv'
    BY <1>22, <2>3 DEF IInv, TypeOK, StageInv, ProcessInv, StopMarkIsTrue,
       IsXrayRunning, StopAwait, Return, Fault
  <2>4. ASSUME ~StopTimesOut PROVE ServeInv'
    BY <1>22, <2>4 DEF IInv, TypeOK, StageInv, ProcessInv, ServeInv, Touched,
       IsXrayRunning, StopAwait, Return, Fault
  <2> QED BY <2>1, <2>2, <2>3, <2>4 DEF IInv
<1>23. ASSUME NEW i \in Slots, Exit(i) PROVE IInv'
  <2>1. TypeOK'
    <3>1. proc' \in [Slots -> ProcType]
      BY <1>23 DEF Exit, Dead, IInv, TypeOK, ProcType
    <3> QED BY <1>23, <3>1 DEF IInv, TypeOK, StageInv, ProcType, Exit, Fault
  <2>2. StageInv'
    BY <1>23 DEF IInv, TypeOK, StageInv, Exit, Fault, Dead
  <2>3. ASSUME ~StopTimesOut PROVE ProcessInv'
    BY <1>23, <2>3 DEF IInv, TypeOK, StageInv, ProcessInv, StopMarkIsTrue,
       IsXrayRunning, Exit, Fault, Dead
  <2>4. ASSUME ~StopTimesOut PROVE ServeInv'
    BY <1>23, <2>4 DEF IInv, TypeOK, StageInv, ProcessInv, ServeInv, Touched,
       IsXrayRunning, Exit, Fault, Dead
  <2> QED BY <2>1, <2>2, <2>3, <2>4 DEF IInv
<1>24. CASE UNCHANGED vars
  BY <1>24 DEF IInv, TypeOK, StageInv, ProcessInv, ServeInv, StopMarkIsTrue, Touched,
     IsXrayRunning, vars
<1> QED
  BY <1>1, <1>2, <1>3, <1>4, <1>5, <1>6, <1>7, <1>8, <1>9, <1>10, <1>11, <1>12,
     <1>13, <1>14, <1>15, <1>16, <1>17, <1>18, <1>19, <1>20, <1>21, <1>22, <1>23, <1>24 DEF Next, Handler, Restart

(* IInv holds in every reachable state.                                     *)
THEOREM Inductive == Spec => []IInv
BY InitInv, StepInv, PTL DEF Spec

(* Locks are held by the actors whose step says so, and every variable has  *)
(* its type.                                                                *)
THEOREM TypeCorrect == Spec => []TypeOK
<1>1. IInv => TypeOK
  BY DEF IInv
<1> QED BY <1>1, Inductive, PTL

(* Provided that Stop's deadlines are met, two processes never run at once. *)
THEOREM SingleXray == ~StopTimesOut => (Spec => []OneXray)
<1> SUFFICES ASSUME ~StopTimesOut PROVE Spec => []OneXray
  OBVIOUS
<1>1. IInv => OneXray
  BY DEF IInv, ProcessInv, OneXray
<1> QED BY <1>1, Inductive, PTL

(* Likewise the mark of a manual stop is true whenever lock is free.        *)
THEOREM MarkTrue == ~StopTimesOut => (Spec => []StopMarkIsTrue)
<1> SUFFICES ASSUME ~StopTimesOut PROVE Spec => []StopMarkIsTrue
  OBVIOUS
<1>1. IInv => StopMarkIsTrue
  BY DEF IInv, ProcessInv
<1> QED BY <1>1, Inductive, PTL

(* Likewise Xray and the database differ only in the users whose call or    *)
(* save failed, whose edit overlapped a restart, or is under way.           *)
THEOREM Serves == ~StopTimesOut => (Spec => []ServesDatabase)
<1> SUFFICES ASSUME ~StopTimesOut PROVE Spec => []ServesDatabase
  OBVIOUS
<1>1. IInv => ServesDatabase
  <2> SUFFICES ASSUME IInv, IsXrayRunning, NEW u \in Users \ (suspect \cup Editing)
               PROVE  u \in proc[p].live <=> u \in db
    BY DEF ServesDatabase
  <2>1. u \notin Touched
    BY LifecycleAssumption DEF Touched, Editing
  <2> QED BY <2>1 DEF IInv, ServeInv
<1> QED BY <1>1, Inductive, PTL

-----------------------------------------------------------------------------
(* Nobody waits in a circle.                                                *)

(* The processes alive are finitely many, and a subset has no more.         *)
LEMMA FewerAlive ==
  ASSUME NEW S, NEW T \in SUBSET Slots, S \subseteq T
  PROVE  Cardinality(S) \in Nat /\ Cardinality(T) \in Nat /\ Cardinality(S) <= Cardinality(T)
<1>1. IsFiniteSet(T) /\ IsFiniteSet(S)
  BY SlotsAssumption, FS_Subset
<1> QED
  BY <1>1, FS_Subset, FS_CardinalityType

(* One more process makes the number at most one greater.                   *)
LEMMA OneMoreAlive ==
  ASSUME NEW T \in SUBSET Slots, NEW i
  PROVE  Cardinality(T) <= Cardinality(T \ {i}) + 1
<1>1. IsFiniteSet(T)
  BY SlotsAssumption, FS_Subset
<1>2. Cardinality(T) \in Nat
  BY <1>1, FS_CardinalityType
<1>3. CASE i \in T
  <2>1. Cardinality(T \ {i}) = Cardinality(T) - 1
    BY <1>1, <1>3, FS_RemoveElement
  <2> QED
    BY <1>2, <2>1
<1>4. CASE i \notin T
  <2>1. T \ {i} = T
    BY <1>4
  <2> QED
    BY <1>2, <2>1
<1> QED
  BY <1>3, <1>4

(* A step that starts no process, tells one to end at most, and lets nobody *)
(* begin to wait for an end or to start one, keeps SlotInv.                 *)
LEMMA NothingStarted ==
  ASSUME TypeOK, SlotInv, p' = p, faults \in Nat, faults' \in Nat, faults <= faults',
         \A i \in Slots : proc'[i].alive => proc[i].alive /\ (proc[i].stopping => proc'[i].stopping),
         \A x \in Actors : pc'[x] \in {"stopping", "awaitstop"} =>
           pc[x] = pc'[x] \/ (p \in Slots /\ (proc'[p].alive => proc'[p].stopping)),
         \A x \in Actors : pc'[x] = "start" => pc[x] = "start" \/ Cardinality(Alive) <= faults'
  PROVE  SlotInv'
<1>1. Alive' \subseteq Alive /\ Alive' \subseteq Slots /\ Alive \subseteq Slots
  BY DEF Alive
<1>2. /\ Cardinality(Alive') \in Nat /\ Cardinality(Alive) \in Nat
      /\ Cardinality(Alive') <= Cardinality(Alive)
  BY <1>1, FewerAlive
<1>3. /\ Cardinality(Alive' \ {p}) \in Nat /\ Cardinality(Alive \ {p}) \in Nat
      /\ Cardinality(Alive' \ {p}) <= Cardinality(Alive \ {p})
  <2>1. Alive' \ {p} \subseteq Alive \ {p} /\ Alive \ {p} \in SUBSET Slots
    BY <1>1
  <2> QED
    BY <2>1, FewerAlive
<1>4. ASSUME NEW x \in Actors, pc'[x] \in {"stopping", "awaitstop"}
      PROVE  p \in Slots /\ (proc'[p].alive => proc'[p].stopping)
  <2>1. CASE pc[x] = pc'[x]
    <3>1. p \in Slots /\ (proc[p].alive => proc[p].stopping)
      BY <1>4, <2>1 DEF SlotInv
    <3> QED
      BY <3>1
  <2> QED
    BY <1>4, <2>1
<1>5. Cardinality(Alive' \ {p'}) <= faults'
  BY <1>3 DEF SlotInv
<1>6. ASSUME NEW x \in Actors, pc'[x] = "start"
      PROVE  Cardinality(Alive') <= faults'
  <2>1. Cardinality(Alive) <= faults'
    BY <1>2, <1>6 DEF SlotInv
  <2> QED
    BY <1>2, <2>1
<1> QED
  BY <1>4, <1>5, <1>6 DEF SlotInv

(* An API call starts and ends no process.                                  *)
LEMMA ApiCallQuiet ==
  ASSUME TypeOK, NEW x \in Actors, NEW on, ApiCall(x, on)
  PROVE  /\ \A i \in Slots : proc'[i].alive = proc[i].alive /\ proc'[i].stopping = proc[i].stopping
         /\ faults' \in {faults, faults + 1}
<1>1. ASSUME NEW k \in Slots, NEW s, proc' = [proc EXCEPT ![k].live = s]
      PROVE  \A i \in Slots : proc'[i].alive = proc[i].alive /\ proc'[i].stopping = proc[i].stopping
  BY <1>1 DEF TypeOK
<1>2. \A k \in Listening : k \in Slots /\ [proc EXCEPT ![k].live = Put(edit[x].u, on, @)] = [proc EXCEPT ![k].live = Put(edit[x].u, on, proc[k].live)]
  BY DEF Listening
<1>3. \/ UNCHANGED proc
      \/ \E k \in Listening : proc' = [proc EXCEPT ![k].live = Put(edit[x].u, on, @)]
  BY DEF ApiCall
<1>4. faults' \in {faults, faults + 1}
  BY DEF ApiCall, Fault
<1> QED
  BY <1>1, <1>2, <1>3, <1>4


(* Before the first start no process is alive.                              *)
LEMMA SlotInit == Init => SlotInv
<1> SUFFICES ASSUME Init PROVE SlotInv
  OBVIOUS
<1>1. Alive = {} /\ Alive \ {p} = {}
  BY DEF Init, Alive, Dead
<1>2. Cardinality({}) = 0
  BY FS_EmptySet
<1> QED
  BY <1>1, <1>2 DEF SlotInv, Init

(* Most steps leave the processes alone, or change only whom they serve.    *)
LEMMA Quiet ==
  ASSUME TypeOK, SlotInv, p' = p, faults' \in {faults, faults + 1},
         \A i \in Slots : proc'[i].alive = proc[i].alive /\ proc'[i].stopping = proc[i].stopping,
         \A x \in Actors : pc'[x] \in {"stopping", "awaitstop", "start"} => pc'[x] = pc[x]
  PROVE  SlotInv'
<1>1. faults \in Nat /\ faults' \in Nat /\ faults <= faults'
  BY LifecycleAssumption DEF TypeOK
<1> QED
  BY <1>1, NothingStarted

(* Each step keeps SlotInv.                                                 *)
LEMMA SlotStep == IInv /\ SlotInv /\ [Next]_vars => SlotInv'
<1> SUFFICES ASSUME IInv, SlotInv, [Next]_vars PROVE SlotInv'
  OBVIOUS
<1>0. TypeOK /\ faults \in Nat
  BY LifecycleAssumption DEF IInv, TypeOK
<1>1. ASSUME NEW x \in Actors, EditBegin(x) PROVE SlotInv'
  <2>1. /\ p' = p /\ proc' = proc /\ faults' \in {faults, faults + 1}
        /\ \A y \in Actors : pc'[y] \in {"stopping", "awaitstop", "start"} => pc'[y] = pc[y]
    BY <1>0, <1>1 DEF EditBegin, Goto, TypeOK
  <2> QED
    BY <1>0, <2>1, Quiet
<1>2. ASSUME NEW x \in Actors, EditTx(x) PROVE SlotInv'
  <2>1. /\ p' = p /\ proc' = proc /\ faults' \in {faults, faults + 1}
        /\ \A y \in Actors : pc'[y] \in {"stopping", "awaitstop", "start"} => pc'[y] = pc[y]
    BY <1>0, <1>2 DEF EditTx, Goto, TypeOK
  <2> QED
    BY <1>0, <2>1, Quiet
<1>3. ASSUME NEW x \in Actors, EditCommit(x) PROVE SlotInv'
  <2>1. /\ p' = p /\ proc' = proc /\ faults' \in {faults, faults + 1}
        /\ \A y \in Actors : pc'[y] \in {"stopping", "awaitstop", "start"} => pc'[y] = pc[y]
    BY <1>0, <1>3 DEF EditCommit, Goto, Fault, TypeOK
  <2> QED
    BY <1>0, <2>1, Quiet
<1>4. ASSUME NEW x \in Actors, SetToNeedRestart(x) PROVE SlotInv'
  <2>1. /\ p' = p /\ proc' = proc /\ faults' \in {faults, faults + 1}
        /\ \A y \in Actors : pc'[y] \in {"stopping", "awaitstop", "start"} => pc'[y] = pc[y]
    BY <1>0, <1>4 DEF SetToNeedRestart, Goto, TypeOK
  <2> QED
    BY <1>0, <2>1, Quiet
<1>5. ASSUME NEW x \in Actors, JobBegin(x) PROVE SlotInv'
  <2>1. /\ p' = p /\ proc' = proc /\ faults' \in {faults, faults + 1}
        /\ \A y \in Actors : pc'[y] \in {"stopping", "awaitstop", "start"} => pc'[y] = pc[y]
    BY <1>0, <1>5 DEF JobBegin, Goto, TypeOK
  <2> QED
    BY <1>0, <2>1, Quiet
<1>6. ASSUME NEW x \in Actors, JobPanic(x) PROVE SlotInv'
  <2>1. /\ p' = p /\ proc' = proc /\ faults' \in {faults, faults + 1}
        /\ \A y \in Actors : pc'[y] \in {"stopping", "awaitstop", "start"} => pc'[y] = pc[y]
    BY <1>0, <1>6 DEF JobPanic, Goto, TypeOK
  <2> QED
    BY <1>0, <2>1, Quiet
<1>7. ASSUME NEW x \in Actors, JobDisabled(x) PROVE SlotInv'
  <2>1. /\ p' = p /\ proc' = proc /\ faults' \in {faults, faults + 1}
        /\ \A y \in Actors : pc'[y] \in {"stopping", "awaitstop", "start"} => pc'[y] = pc[y]
    BY <1>0, <1>7 DEF JobDisabled, Goto, TypeOK
  <2> QED
    BY <1>0, <2>1, Quiet
<1>8. ASSUME NEW x \in Actors, AdminRestart(x) PROVE SlotInv'
  <2>1. /\ p' = p /\ proc' = proc /\ faults' \in {faults, faults + 1}
        /\ \A y \in Actors : pc'[y] \in {"stopping", "awaitstop", "start"} => pc'[y] = pc[y]
    BY <1>0, <1>8 DEF AdminRestart, Goto, TypeOK
  <2> QED
    BY <1>0, <2>1, Quiet
<1>9. ASSUME NEW x \in Actors, AdminStop(x) PROVE SlotInv'
  <2>1. /\ p' = p /\ proc' = proc /\ faults' \in {faults, faults + 1}
        /\ \A y \in Actors : pc'[y] \in {"stopping", "awaitstop", "start"} => pc'[y] = pc[y]
    BY <1>0, <1>9 DEF AdminStop, Goto, TypeOK
  <2> QED
    BY <1>0, <2>1, Quiet
<1>10. ASSUME NEW x \in Actors, CronTick(x) PROVE SlotInv'
  <2>1. /\ p' = p /\ proc' = proc /\ faults' \in {faults, faults + 1}
        /\ \A y \in Actors : pc'[y] \in {"stopping", "awaitstop", "start"} => pc'[y] = pc[y]
    BY <1>0, <1>10 DEF CronTick, Goto, TypeOK
  <2> QED
    BY <1>0, <2>1, Quiet
<1>11. ASSUME NEW x \in Actors, CheckTick(x) PROVE SlotInv'
  <2>1. /\ p' = p /\ proc' = proc /\ faults' \in {faults, faults + 1}
        /\ \A y \in Actors : pc'[y] \in {"stopping", "awaitstop", "start"} => pc'[y] = pc[y]
    BY <1>0, <1>11 DEF CheckTick, Goto, TypeOK
  <2> QED
    BY <1>0, <2>1, Quiet
<1>12. ASSUME NEW x \in Actors, RestartLock(x) PROVE SlotInv'
  <2>1. /\ p' = p /\ proc' = proc /\ faults' \in {faults, faults + 1}
        /\ \A y \in Actors : pc'[y] \in {"stopping", "awaitstop", "start"} => pc'[y] = pc[y]
    BY <1>0, <1>12 DEF RestartLock, Goto, TypeOK
  <2> QED
    BY <1>0, <2>1, Quiet
<1>13. ASSUME NEW x \in Actors, ReadConfig(x) PROVE SlotInv'
  <2>1. /\ p' = p /\ proc' = proc /\ faults' \in {faults, faults + 1}
        /\ \A y \in Actors : pc'[y] \in {"stopping", "awaitstop", "start"} => pc'[y] = pc[y]
    BY <1>0, <1>13 DEF ReadConfig, Goto, Fault, ReturnError, TypeOK
  <2> QED
    BY <1>0, <2>1, Quiet
<1>14. ASSUME NEW x \in Actors, StopAwait(x) PROVE SlotInv'
  <2>1. /\ p' = p /\ proc' = proc /\ faults' \in {faults, faults + 1}
        /\ \A y \in Actors : pc'[y] \in {"stopping", "awaitstop", "start"} => pc'[y] = pc[y]
    BY <1>0, <1>14 DEF StopAwait, Goto, Return, Fault, TypeOK
  <2> QED
    BY <1>0, <2>1, Quiet
<1>15. ASSUME NEW x \in Actors, EditRemove(x) PROVE SlotInv'
  <2>1. p' = p /\ \A y \in Actors : pc'[y] \in {"stopping", "awaitstop", "start"} => pc'[y] = pc[y]
    BY <1>0, <1>15 DEF EditRemove, Goto, TypeOK
  <2>2. /\ faults' \in {faults, faults + 1}
        /\ \A i \in Slots : proc'[i].alive = proc[i].alive /\ proc'[i].stopping = proc[i].stopping
    <3>1. CASE edit[x].remove
      <4>1. ApiCall(x, FALSE)
        BY <1>15, <3>1 DEF EditRemove
      <4> QED
        BY <1>0, <4>1, ApiCallQuiet
    <3>2. CASE ~edit[x].remove
      BY <1>15, <3>2 DEF EditRemove
    <3> QED
      BY <3>1, <3>2
  <2> QED
    BY <1>0, <2>1, <2>2, Quiet
<1>16. ASSUME NEW x \in Actors, EditAdd(x) PROVE SlotInv'
  <2>1. p' = p /\ \A y \in Actors : pc'[y] \in {"stopping", "awaitstop", "start"} => pc'[y] = pc[y]
    BY <1>0, <1>16 DEF EditAdd, Goto, TypeOK
  <2>2. /\ faults' \in {faults, faults + 1}
        /\ \A i \in Slots : proc'[i].alive = proc[i].alive /\ proc'[i].stopping = proc[i].stopping
    <3>1. CASE edit[x].add
      <4>1. ApiCall(x, TRUE)
        BY <1>16, <3>1 DEF EditAdd
      <4> QED
        BY <1>0, <4>1, ApiCallQuiet
    <3>2. CASE ~edit[x].add
      BY <1>16, <3>2 DEF EditAdd
    <3> QED
      BY <3>1, <3>2
  <2> QED
    BY <1>0, <2>1, <2>2, Quiet
<1>17. ASSUME NEW x \in Actors, Settle(x) PROVE SlotInv'
  <2>1. /\ p' = p /\ faults' \in {faults, faults + 1}
        /\ \A y \in Actors : pc'[y] \in {"stopping", "awaitstop", "start"} => pc'[y] = pc[y]
    BY <1>0, <1>17 DEF Settle, Fault, Goto, TypeOK
  <2>2. \A i \in Slots : proc'[i].alive = proc[i].alive /\ proc'[i].stopping = proc[i].stopping
    <3>1. ASSUME NEW k \in Slots, NEW u, proc' = [proc EXCEPT ![k].live = @ \ {u}]
          PROVE  \A i \in Slots : proc'[i].alive = proc[i].alive /\ proc'[i].stopping = proc[i].stopping
      BY <1>0, <3>1 DEF TypeOK
    <3>2. UNCHANGED proc \/ \E k \in Slots, u \in db : proc' = [proc EXCEPT ![k].live = @ \ {u}]
      BY <1>17 DEF Settle, Listening
    <3> QED
      BY <3>1, <3>2
  <2> QED
    BY <1>0, <2>1, <2>2, Quiet
<1>18. ASSUME NEW x \in Actors, RefreshPort(x) PROVE SlotInv'
  <2>1. /\ p' = p /\ faults' = faults
        /\ \A y \in Actors : pc'[y] \in {"stopping", "awaitstop", "start"} => pc'[y] = pc[y]
    BY <1>0, <1>18 DEF RefreshPort, Return, Goto, TypeOK
  <2>2. \A i \in Slots : proc'[i].alive = proc[i].alive /\ proc'[i].stopping = proc[i].stopping
    BY <1>0, <1>18 DEF RefreshPort, TypeOK
  <2> QED
    BY <1>0, <2>1, <2>2, Quiet
<1>19. ASSUME NEW x \in Actors, Decide(x) PROVE SlotInv'
  <2>1. p' = p /\ faults' = faults /\ \A y \in Actors \ {x} : pc'[y] = pc[y]
    BY <1>0, <1>19 DEF Decide, Return, Goto, TypeOK
  <2>2. CASE ~IsXrayRunning
    <3>1. proc' = proc /\ pc'[x] = "start"
      BY <1>0, <1>19, <2>2 DEF Decide, Goto, TypeOK
    <3>2. Alive \ {p} = Alive
      BY <1>0, <2>2, LifecycleAssumption DEF IsXrayRunning, Alive, TypeOK
    <3>3. Cardinality(Alive) <= faults'
      BY <2>1, <3>2 DEF SlotInv
    <3>4. \A y \in Actors : pc'[y] \in {"stopping", "awaitstop"} => pc[y] = pc'[y]
      BY <2>1, <3>1
    <3> QED
      BY <1>0, <2>1, <3>1, <3>3, <3>4, NothingStarted
  <2>3. CASE IsXrayRunning /\ ~Forced(x) /\ proc[p].cfg = snap[x] /\ ~needRestart
    <3>1. proc' = proc /\ pc'[x] \in {"idle", "flag"}
      BY <1>0, <1>19, <2>3 DEF Decide, Return, Goto, TypeOK
    <3>2. \A y \in Actors : pc'[y] \in {"stopping", "awaitstop", "start"} => pc'[y] = pc[y]
      BY <2>1, <3>1
    <3> QED
      BY <1>0, <2>1, <3>1, <3>2, Quiet
  <2>4. CASE IsXrayRunning /\ ~(~Forced(x) /\ proc[p].cfg = snap[x] /\ ~needRestart)
    <3>1. proc' = [proc EXCEPT ![p].stopping = TRUE] /\ pc'[x] = "stopping" /\ p \in Slots
      BY <1>0, <1>19, <2>4 DEF Decide, Goto, TypeOK, IsXrayRunning
    <3>2. /\ proc'[p].stopping
          /\ \A i \in Slots : proc'[i].alive = proc[i].alive /\ (proc[i].stopping => proc'[i].stopping)
      BY <1>0, <3>1 DEF TypeOK
    <3>3. \A y \in Actors : pc'[y] = "start" => pc[y] = "start"
      BY <2>1, <3>1
    <3> QED
      BY <1>0, <2>1, <3>1, <3>2, <3>3, NothingStarted
  <2> QED
    BY <2>2, <2>3, <2>4
<1>20. ASSUME NEW x \in Actors, StopLock(x) PROVE SlotInv'
  <2>1. p' = p /\ faults' = faults /\ \A y \in Actors \ {x} : pc'[y] = pc[y]
    BY <1>0, <1>20 DEF StopLock, Goto, TypeOK
  <2>2. CASE ~IsXrayRunning
    <3>1. proc' = proc /\ pc'[x] = "idle"
      BY <1>0, <1>20, <2>2 DEF StopLock, Goto, TypeOK
    <3>2. \A y \in Actors : pc'[y] \in {"stopping", "awaitstop", "start"} => pc'[y] = pc[y]
      BY <2>1, <3>1
    <3> QED
      BY <1>0, <2>1, <3>1, <3>2, Quiet
  <2>3. CASE IsXrayRunning
    <3>1. proc' = [proc EXCEPT ![p].stopping = TRUE] /\ pc'[x] = "awaitstop" /\ p \in Slots
      BY <1>0, <1>20, <2>3 DEF StopLock, Goto, TypeOK, IsXrayRunning
    <3>2. /\ proc'[p].stopping
          /\ \A i \in Slots : proc'[i].alive = proc[i].alive /\ (proc[i].stopping => proc'[i].stopping)
      BY <1>0, <3>1 DEF TypeOK
    <3>3. \A y \in Actors : pc'[y] = "start" => pc[y] = "start"
      BY <2>1, <3>1
    <3> QED
      BY <1>0, <2>1, <3>1, <3>2, <3>3, NothingStarted
  <2> QED
    BY <2>2, <2>3
<1>21. ASSUME NEW x \in Actors, Stopped(x) PROVE SlotInv'
  <2>1. p' = p /\ proc' = proc /\ faults' \in {faults, faults + 1} /\ pc'[x] = "start"
        /\ \A y \in Actors \ {x} : pc'[y] = pc[y]
    BY <1>0, <1>21 DEF Stopped, Fault, Goto, TypeOK
  <2>2. p \in Slots
    BY <1>21 DEF SlotInv, Stopped
  <2>3. Cardinality(Alive) <= faults'
    <3>1. CASE ~proc[p].alive
      <4>1. Alive \ {p} = Alive
        BY <3>1 DEF Alive
      <4>2. Alive \in SUBSET Slots
        BY DEF Alive
      <4>3. Cardinality(Alive) \in Nat
        BY <4>2, FewerAlive
      <4> QED
        BY <1>0, <2>1, <4>1, <4>3 DEF SlotInv
    <3>2. CASE proc[p].alive
      <4>1. faults' = faults + 1
        BY <1>21, <3>2 DEF Stopped, Fault
      <4>2. Alive \in SUBSET Slots /\ Alive \ {p} \in SUBSET Slots
        BY DEF Alive
      <4>3. Cardinality(Alive) \in Nat /\ Cardinality(Alive \ {p}) \in Nat
        BY <4>2, FewerAlive
      <4>4. Cardinality(Alive) <= Cardinality(Alive \ {p}) + 1
        BY <4>2, OneMoreAlive
      <4> QED
        BY <1>0, <4>1, <4>3, <4>4 DEF SlotInv
    <3> QED
      BY <3>1, <3>2
  <2>4. faults <= faults' /\ faults' \in Nat
    BY <1>0, <2>1
  <2>5. \A y \in Actors : pc'[y] \in {"stopping", "awaitstop"} => pc[y] = pc'[y]
    BY <2>1
  <2> QED
    BY <1>0, <2>1, <2>3, <2>4, <2>5, NothingStarted
<1>22. ASSUME NEW x \in Actors, Start(x) PROVE SlotInv'
  <2>1. faults' \in {faults, faults + 1} /\ \A y \in Actors \ {x} : pc'[y] = pc[y]
    BY <1>0, <1>22 DEF Start, Fault, ReturnError, Goto, TypeOK
  <2>2. pc'[x] \in {"port", "idle", "flag"}
    BY <1>0, <1>22 DEF Start, Fault, ReturnError, Goto, TypeOK
  <2>3. \A y \in Actors : pc'[y] \notin {"start", "stopping", "awaitstop"}
    <3>1. lock = x /\ pc[x] = "start"
      BY <1>0, <1>22 DEF Start, TypeOK, RestartSteps
    <3>2. \A y \in Actors \ {x} : pc[y] \notin {"start", "stopping", "awaitstop"}
      BY <1>0, <3>1 DEF TypeOK, RestartSteps
    <3> QED
      BY <2>1, <2>2, <3>2
  <2>4. PICK i \in {j \in Slots : ~proc[j].alive /\ j # p} :
          /\ p' = i
          /\ \/ proc' = [j \in Slots |->
                 IF j = i THEN [Dead EXCEPT !.alive = TRUE, !.cfg = snap[x], !.live = snap[x]]
                 ELSE IF proc[j].alive THEN proc[j] ELSE Dead]
             \/ proc' = [j \in Slots |-> IF proc[j].alive THEN proc[j] ELSE Dead]
    BY <1>22 DEF Start
  <2>5. Alive' \ {p'} \subseteq Alive
    BY <1>0, <2>4 DEF Alive, Dead, TypeOK
  <2>6. /\ Cardinality(Alive' \ {p'}) \in Nat /\ Cardinality(Alive) \in Nat
        /\ Cardinality(Alive' \ {p'}) <= Cardinality(Alive)
    <3>1. Alive \in SUBSET Slots
      BY DEF Alive
    <3> QED
      BY <2>5, <3>1, FewerAlive
  <2>7. Cardinality(Alive) <= faults
    BY <1>22 DEF Start, SlotInv
  <2>8. Cardinality(Alive' \ {p'}) <= faults'
    BY <1>0, <2>1, <2>6, <2>7
  <2> QED
    BY <2>3, <2>8 DEF SlotInv
<1>23. ASSUME NEW i \in Slots, Exit(i) PROVE SlotInv'
  <2>1. p' = p /\ pc' = pc /\ faults' \in {faults, faults + 1}
    BY <1>23 DEF Exit, Fault
  <2>2. \A j \in Slots : proc'[j].alive => proc[j].alive /\ (proc[j].stopping => proc'[j].stopping)
    BY <1>0, <1>23 DEF Exit, Dead, TypeOK
  <2>3. faults' \in Nat /\ faults <= faults'
    BY <1>0, <2>1
  <2> QED
    BY <1>0, <2>1, <2>2, <2>3, NothingStarted
<1>24. CASE UNCHANGED vars
  BY <1>24 DEF SlotInv, Alive, vars
<1> QED
  BY <1>1, <1>2, <1>3, <1>4, <1>5, <1>6, <1>7, <1>8, <1>9, <1>10, <1>11, <1>12, <1>13, <1>14, <1>15,
     <1>16, <1>17, <1>18, <1>19, <1>20, <1>21, <1>22, <1>23, <1>24 DEF Next, Handler, Restart

(* Who holds the database's transaction waits for nothing; with it free, who *)
(* holds lock waits at most for a process it has told to end; and with both  *)
(* free, nobody waits.                                                      *)
LEMMA NobodyCircles == IInv /\ SlotInv => NoCircle
<1> SUFFICES ASSUME IInv, SlotInv, NEW x \in Actors, pc[x] # "idle"
             PROVE  \/ \E y \in Actors : pc[y] # "idle" /\ Unblocked(y)
                    \/ \E i \in Slots : proc[i].alive /\ proc[i].stopping
  BY DEF NoCircle
<1>0. TypeOK /\ faults \in 0 .. MaxFaults /\ MaxFaults \in Nat
  BY LifecycleAssumption DEF IInv, TypeOK
<1>1. CASE dbLock # NoOne
  <2>1. dbLock \in Actors
    BY <1>0, <1>1 DEF TypeOK, Actors, Restarters
  <2>2. pc[dbLock] \in EditSteps \ {"begin"} /\ edit[dbLock].tx
    BY <1>0, <2>1 DEF TypeOK
  <2>3. Unblocked(dbLock)
    BY <2>2 DEF Unblocked, EditSteps
  <2> QED
    BY <2>1, <2>2, <2>3 DEF EditSteps
<1>2. CASE dbLock = NoOne /\ lock # NoOne
  <2>1. lock \in Actors
    BY <1>0, <1>2 DEF TypeOK, Actors
  <2>2. pc[lock] \in RestartSteps \cup {"awaitstop"}
    BY <1>0, <2>1 DEF TypeOK
  <2>3. CASE pc[lock] \in {"stopping", "awaitstop"}
    <3>1. p \in Slots /\ (proc[p].alive => proc[p].stopping)
      BY <2>1, <2>3 DEF SlotInv
    <3>2. ~proc[p].alive => Unblocked(lock)
      BY <2>3 DEF Unblocked
    <3> QED
      BY <2>1, <2>3, <3>1, <3>2
  <2>4. CASE pc[lock] = "start"
    <3>1. \E i \in Slots : ~proc[i].alive /\ i # p
      <4> SUFFICES ASSUME \A i \in Slots : proc[i].alive \/ i = p PROVE FALSE
        OBVIOUS
      <4>1. /\ Cardinality(Slots) \in Nat /\ Cardinality(Slots \ {p}) \in Nat
            /\ Cardinality(Slots) <= Cardinality(Slots \ {p}) + 1
        BY FewerAlive, OneMoreAlive
      <4>2. /\ Cardinality(Alive) \in Nat
            /\ Cardinality(Slots \ {p}) <= Cardinality(Alive)
        <5>1. Slots \ {p} \subseteq Alive /\ Alive \in SUBSET Slots
          BY DEF Alive
        <5> QED
          BY <5>1, FewerAlive
      <4>3. CASE StopTimesOut
        <5>1. Cardinality(Alive) <= faults
          BY <2>1, <2>4 DEF SlotInv
        <5>2. Cardinality(Slots) >= 2 + MaxFaults
          BY <4>3, SlotsAssumption
        <5> HIDE DEF Alive
        <5> QED
          BY <1>0, <4>1, <4>2, <5>1, <5>2
      <4>4. CASE ~StopTimesOut
        <5>1. Alive = {}
          BY <1>0, <2>1, <2>4, <4>4, LifecycleAssumption
             DEF IInv, ProcessInv, IsXrayRunning, Alive, TypeOK
        <5>2. Cardinality(Alive) = 0
          BY <5>1, FS_EmptySet
        <5>3. Cardinality(Slots) >= 2
          BY <4>4, SlotsAssumption
        <5> QED
          BY <4>1, <4>2, <5>2, <5>3
      <4> QED
        BY <4>3, <4>4
    <3>2. Unblocked(lock)
      BY <2>4, <3>1 DEF Unblocked
    <3> QED
      BY <2>1, <2>4, <3>2
  <2>5. CASE pc[lock] \in {"settle", "config", "decide", "port"}
    <3>1. Unblocked(lock)
      BY <1>2, <2>5 DEF Unblocked
    <3> QED
      BY <2>1, <2>5, <3>1
  <2> QED
    BY <2>2, <2>3, <2>4, <2>5 DEF RestartSteps
<1>3. CASE dbLock = NoOne /\ lock = NoOne
  <2>1. lock # x
    BY <1>3, LifecycleAssumption
  <2>2. pc[x] \notin RestartSteps \cup {"awaitstop"}
    BY <1>0, <2>1 DEF TypeOK
  <2>3. Unblocked(x)
    BY <1>3, <2>2 DEF Unblocked, RestartSteps
  <2> QED
    BY <2>3
<1> QED
  BY <1>1, <1>2, <1>3

(* Whatever restarts, stops, edits and jobs are under way, one of them waits *)
(* for nothing, or a process that has been told to end is still to do so:    *)
(* lock, the database's transaction and the inbound's lock are never held in *)
(* a circle, and the wait for a killed process is never for one nobody has   *)
(* signalled.                                                               *)
THEOREM NobodyWaitsInACircle == Spec => []NoCircle
<1>1. Init => IInv /\ SlotInv
  BY InitInv, SlotInit
<1>2. IInv /\ SlotInv /\ [Next]_vars => (IInv /\ SlotInv)'
  BY StepInv, SlotStep
<1>3. IInv /\ SlotInv => NoCircle
  BY NobodyCircles
<1> QED
  BY <1>1, <1>2, <1>3, PTL DEF Spec

=============================================================================
