------------------------ MODULE TrafficWriterProofs ------------------------
(***************************************************************************)
(* Proofs about TrafficWriter for any sets of submissions and controllers, *)
(* any queue size and any number of writer generations.  IInv is inductive;*)
(* the safety properties and the safety part of the refinement follow.     *)
(***************************************************************************)
EXTENDS TrafficWriter, TLAPS

(* Before the first Start nothing is queued, applied or answered.           *)
LEMMA InitInv == Init => IInv
BY QueueSizeAssumption, MaxGenAssumption, NoWriteAssumption
   DEF Init, IInv, TypeOK, LockInv, GenInv, LifeOK, StopInv, QueuedInv, QueuedOK, InHandInv, WaitInv, AnswerInv, Gens, Alive, Closed, InQueue, ApplyResults

(* A step of one caller that has no request in a queue disturbs no queue.   *)
LEMMA QueuedStable ==
  ASSUME NEW w \in Writes, TypeOK, QueuedInv,
         pc[w] # "wait" \/ reply[w] # "none",
         \A v \in Writes \ {w} : pc'[v] = pc[v] /\ gen'[v] = gen[v] /\ reply'[v] = reply[v],
         queue' = queue, cur' = cur
  PROVE  QueuedInv'
<1> SUFFICES ASSUME NEW g \in Gens, NEW i \in 1 .. Len(queue[g]) PROVE QueuedOK(g, i)'
  BY DEF QueuedInv
<1>1. QueuedOK(g, i) /\ queue[g][i] \in Writes
  BY DEF QueuedInv, TypeOK
<1>2. queue[g][i] # w
  BY <1>1 DEF QueuedOK
<1> QED BY <1>1, <1>2 DEF QueuedOK

(* Every step of a controller, a writer or a submission preserves IInv.     *)
LEMMA StepInv == IInv /\ [Next]_tvars => IInv'
<1> SUFFICES ASSUME IInv, [Next]_tvars PROVE IInv'
    OBVIOUS
<1> USE QueueSizeAssumption, MaxGenAssumption, NoWriteAssumption DEF Gens, IInv, ApplyResults
<1>1. ASSUME NEW c \in Controllers, StartSpawn(c) PROVE IInv'
  <2>0. /\ spawned + 1 \in Gens /\ spawned' = spawned + 1 /\ tw' = spawned + 1
        /\ wpc' = [wpc EXCEPT ![spawned + 1] = "select"]
        /\ \A g \in Gens : wpc[g] \in {"unborn", "exited"}
    BY <1>1 DEF TypeOK, GenInv, LifeOK, Alive, Closed, WriterPresent, StartSpawn
  <2>1. TypeOK'
    BY <1>1, <2>0 DEF TypeOK, StartSpawn, submitVars, controlVars
  <2>2. LockInv'
    BY <1>1, <2>0 DEF TypeOK, LockInv, GenInv, LifeOK, StartSpawn, submitVars, controlVars
  <2>3. GenInv'
    <3>1. ASSUME NEW h \in Gens PROVE LifeOK(h)'
      <4>1. CASE h = spawned + 1
        BY <1>1, <2>0, <4>1 DEF TypeOK, GenInv, LifeOK, Alive, StartSpawn
      <4>2. CASE h # spawned + 1
        <5>1. wpc'[h] = wpc[h] /\ (h > spawned' <=> h > spawned)
          BY <2>0, <4>2 DEF TypeOK
        <5> QED BY <1>1, <2>0, <5>1 DEF GenInv, LifeOK, Alive, StartSpawn
      <4> QED BY <4>1, <4>2
    <3> QED BY <2>0, <3>1 DEF TypeOK, GenInv
  <2>4. StopInv'
    <3>1. \A h \in Gens : Closed(h) => Closed(h)'
      BY <2>0 DEF TypeOK, GenInv, LifeOK, Closed
    <3> QED BY <1>1, <2>0, <3>1 DEF TypeOK, StopInv, StartSpawn, controlVars
  <2>5. QueuedInv'
    BY <1>1, <2>0 DEF TypeOK, QueuedInv, QueuedOK, StartSpawn, submitVars, controlVars
  <2>6. InHandInv'
    BY <1>1, <2>0 DEF TypeOK, InHandInv, StartSpawn, submitVars, controlVars
  <2>7. WaitInv'
    BY <1>1, <2>0 DEF TypeOK, WaitInv, InQueue, StartSpawn, submitVars, controlVars
  <2>8. AnswerInv'
    BY <1>1, <2>0 DEF TypeOK, AnswerInv, StartSpawn, submitVars, controlVars
  <2> QED BY <2>1, <2>2, <2>3, <2>4, <2>5, <2>6, <2>7, <2>8
<1>2. ASSUME NEW c \in Controllers, StopCancel(c) PROVE IInv'
  <2>1. TypeOK'
    BY <1>2 DEF TypeOK, StopCancel, submitVars
  <2>2. LockInv'
    BY <1>2 DEF TypeOK, LockInv, StopCancel, submitVars
  <2>3. GenInv'
    BY <1>2 DEF TypeOK, GenInv, LifeOK, Alive, Closed, StopCancel, submitVars
  <2>4. StopInv'
    BY <1>2 DEF TypeOK, GenInv, LifeOK, StopInv, Closed, StopCancel, submitVars
  <2>5. QueuedInv'
    BY <1>2 DEF TypeOK, QueuedInv, QueuedOK, StopCancel, submitVars
  <2>6. InHandInv'
    BY <1>2 DEF TypeOK, InHandInv, StopCancel, submitVars
  <2>7. WaitInv'
    BY <1>2 DEF TypeOK, WaitInv, InQueue, StopCancel, submitVars
  <2>8. AnswerInv'
    BY <1>2 DEF TypeOK, AnswerInv, StopCancel, submitVars
  <2> QED BY <2>1, <2>2, <2>3, <2>4, <2>5, <2>6, <2>7, <2>8
<1>3. ASSUME NEW c \in Controllers, StopAwait(c) PROVE IInv'
  <2>1. TypeOK'
    BY <1>3 DEF TypeOK, StopAwait, writerVars, submitVars
  <2>2. LockInv'
    BY <1>3 DEF TypeOK, LockInv, StopAwait, writerVars, submitVars
  <2>3. GenInv'
    BY <1>3 DEF TypeOK, GenInv, LifeOK, Alive, Closed, StopAwait, writerVars, submitVars
  <2>4. StopInv'
    BY <1>3 DEF TypeOK, GenInv, LifeOK, StopInv, Closed, StopAwait, writerVars, submitVars
  <2>5. QueuedInv'
    BY <1>3 DEF TypeOK, QueuedInv, QueuedOK, StopAwait, writerVars, submitVars
  <2>6. InHandInv'
    BY <1>3 DEF TypeOK, InHandInv, StopAwait, writerVars, submitVars
  <2>7. WaitInv'
    BY <1>3 DEF TypeOK, WaitInv, InQueue, StopAwait, writerVars, submitVars
  <2>8. AnswerInv'
    BY <1>3 DEF TypeOK, AnswerInv, StopAwait, writerVars, submitVars
  <2> QED BY <2>1, <2>2, <2>3, <2>4, <2>5, <2>6, <2>7, <2>8
<1>4. ASSUME NEW c \in Controllers, StopClear(c) PROVE IInv'
  <2>1. TypeOK'
    <3>1. tw' \in 0..MaxGen
      BY <1>4 DEF TypeOK, StopClear
    <3>2. cpc' \in [Controllers -> {"idle", "stopWait", "stopClear"}]
      BY <1>4 DEF TypeOK, StopClear
    <3> QED BY <1>4, <3>1, <3>2 DEF TypeOK, StopClear, writerVars, submitVars
  <2>2. LockInv'
    BY <1>4 DEF TypeOK, LockInv, StopClear, writerVars, submitVars
  <2>3. GenInv'
    BY <1>4 DEF TypeOK, GenInv, LifeOK, Alive, Closed, StopInv, StopClear, writerVars,
        submitVars
  <2>4. StopInv'
    BY <1>4 DEF TypeOK, GenInv, LifeOK, StopInv, Closed, StopClear, writerVars, submitVars
  <2>5. QueuedInv'
    BY <1>4 DEF TypeOK, QueuedInv, QueuedOK, StopClear, writerVars, submitVars
  <2>6. InHandInv'
    BY <1>4 DEF TypeOK, InHandInv, StopClear, writerVars, submitVars
  <2>7. WaitInv'
    BY <1>4 DEF TypeOK, WaitInv, InQueue, StopClear, writerVars, submitVars
  <2>8. AnswerInv'
    BY <1>4 DEF TypeOK, AnswerInv, StopClear, writerVars, submitVars
  <2> QED BY <2>1, <2>2, <2>3, <2>4, <2>5, <2>6, <2>7, <2>8
<1>5. ASSUME NEW g \in Gens, WriterReceive(g) PROVE IInv'
  <2>0. /\ Head(queue[g]) \in Writes /\ Head(queue[g]) = queue[g][1]
        /\ Tail(queue[g]) \in Seq(Writes)
        /\ Len(Tail(queue[g])) = Len(queue[g]) - 1 /\ Len(queue[g]) \in Nat \ {0}
        /\ \A i \in 1 .. Len(queue[g]) - 1 : Tail(queue[g])[i] = queue[g][i + 1]
    BY <1>5 DEF TypeOK, WriterReceive
  <2>1. TypeOK'
    BY <1>5, <2>0 DEF TypeOK, WriterReceive, submitVars, controlVars
  <2>2. LockInv'
    BY <1>5, <2>0 DEF TypeOK, LockInv, WriterReceive, submitVars, controlVars
  <2>3. GenInv'
    BY <1>5, <2>0 DEF TypeOK, GenInv, LifeOK, Alive, Closed, WriterReceive, submitVars,
        controlVars
  <2>4. StopInv'
    BY <1>5, <2>0 DEF TypeOK, GenInv, LifeOK, StopInv, Closed, WriterReceive, submitVars,
        controlVars
  <2>5. QueuedInv'
    <3> SUFFICES ASSUME NEW h \in Gens, NEW i \in 1 .. Len(queue'[h]) PROVE QueuedOK(h, i)'
      BY DEF QueuedInv
    <3>1. CASE h = g
      <4>1. /\ i + 1 \in 1 .. Len(queue[g]) /\ queue'[g][i] = queue[g][i + 1]
            /\ 1 \in 1 .. Len(queue[g]) /\ cur'[g] = queue[g][1]
        BY <1>5, <2>0, <3>1 DEF TypeOK, WriterReceive
      <4>2. QueuedOK(g, i + 1) /\ queue[g][i + 1] # queue[g][1]
        BY <4>1 DEF QueuedInv, QueuedOK
      <4>3. \A j \in 1 .. Len(queue'[g]) : j + 1 \in 1 .. Len(queue[g]) /\ queue'[g][j] = queue[g][j + 1]
        BY <1>5, <2>0 DEF TypeOK, WriterReceive
      <4> QED BY <1>5, <3>1, <4>1, <4>2, <4>3 DEF QueuedOK, WriterReceive, submitVars
    <3>2. CASE h # g
      <4>1. queue'[h] = queue[h] /\ cur'[h] = cur[h]
        BY <1>5, <3>2 DEF TypeOK, WriterReceive
      <4> QED BY <1>5, <4>1 DEF QueuedInv, QueuedOK, WriterReceive, submitVars
    <3> QED BY <3>1, <3>2
  <2>6. InHandInv'
    <3>1. cur' = [cur EXCEPT ![g] = queue[g][1]] /\ QueuedOK(g, 1)
      BY <1>5, <2>0 DEF QueuedInv, WriterReceive
    <3> QED BY <1>5, <3>1 DEF TypeOK, InHandInv, QueuedOK, WriterReceive, submitVars
  <2>7. WaitInv'
    <3> SUFFICES ASSUME NEW w \in Writes, pc[w] = "wait", reply[w] = "none"
                 PROVE  gen[w] \in Gens /\ (cur'[gen[w]] = w \/ InQueue(w, gen[w])')
      BY <1>5 DEF WaitInv, WriterReceive, submitVars, InQueue
    <3>1. gen[w] \in Gens /\ (cur[gen[w]] = w \/ InQueue(w, gen[w]))
      BY DEF WaitInv
    <3>2. CASE gen[w] # g
      BY <1>5, <3>1, <3>2 DEF TypeOK, InQueue, WriterReceive, submitVars
    <3>3. CASE gen[w] = g
      <4>1. PICK i \in 1 .. Len(queue[g]) : queue[g][i] = w
        BY <1>5, <3>1, <3>3, NoWriteAssumption DEF GenInv, LifeOK, InQueue, WriterReceive
      <4>2. CASE i = 1
        BY <1>5, <2>0, <3>3, <4>1, <4>2 DEF TypeOK, WriterReceive
      <4>3. CASE i # 1
        <5>1. i - 1 \in 1 .. Len(queue'[g]) /\ queue'[g][i - 1] = w
          BY <1>5, <2>0, <4>1, <4>3 DEF TypeOK, WriterReceive
        <5> QED BY <1>5, <3>1, <3>3, <5>1 DEF InQueue, WriterReceive, submitVars
      <4> QED BY <4>2, <4>3
    <3> QED BY <3>2, <3>3
  <2>8. AnswerInv'
    BY <1>5, <2>0 DEF TypeOK, AnswerInv, WriterReceive, submitVars, controlVars
  <2> QED BY <2>1, <2>2, <2>3, <2>4, <2>5, <2>6, <2>7, <2>8
<1>6. ASSUME NEW g \in Gens, WriterCancelled(g) PROVE IInv'
  <2>1. TypeOK'
    BY <1>6 DEF TypeOK, WriterCancelled, submitVars, controlVars
  <2>2. LockInv'
    BY <1>6 DEF TypeOK, LockInv, WriterCancelled, submitVars, controlVars
  <2>3. GenInv'
    BY <1>6 DEF TypeOK, GenInv, LifeOK, Alive, Closed, WriterCancelled, submitVars, controlVars
  <2>4. StopInv'
    BY <1>6 DEF TypeOK, GenInv, LifeOK, StopInv, Closed, WriterCancelled, submitVars,
        controlVars
  <2>5. QueuedInv'
    BY <1>6 DEF TypeOK, QueuedInv, QueuedOK, WriterCancelled, submitVars, controlVars
  <2>6. InHandInv'
    BY <1>6 DEF TypeOK, InHandInv, WriterCancelled, submitVars, controlVars
  <2>7. WaitInv'
    BY <1>6 DEF TypeOK, WaitInv, InQueue, WriterCancelled, submitVars, controlVars
  <2>8. AnswerInv'
    BY <1>6 DEF TypeOK, AnswerInv, WriterCancelled, submitVars, controlVars
  <2> QED BY <2>1, <2>2, <2>3, <2>4, <2>5, <2>6, <2>7, <2>8
<1>7. ASSUME NEW g \in Gens, WriterApply(g) PROVE IInv'
  <2>0. cur[g] \in Writes
    BY <1>7 DEF TypeOK, GenInv, LifeOK, WriterApply
  <2>1. TypeOK'
    <3>1. applied' \in [Writes -> Nat] /\ reply' \in [Writes -> {"none"} \cup ApplyResults]
      BY <1>7, <2>0 DEF TypeOK, WriterApply
    <3> QED BY <1>7, <3>1 DEF TypeOK, WriterApply, controlVars
  <2>2. LockInv'
    BY <1>7, <2>0 DEF TypeOK, LockInv, WriterApply, controlVars
  <2>3. GenInv'
    BY <1>7, <2>0 DEF TypeOK, GenInv, LifeOK, Alive, Closed, WriterApply, controlVars
  <2>4. StopInv'
    BY <1>7, <2>0 DEF TypeOK, GenInv, LifeOK, StopInv, Closed, WriterApply, controlVars
  <2>5. QueuedInv'
    <3> SUFFICES ASSUME NEW h \in Gens, NEW i \in 1 .. Len(queue[h]) PROVE QueuedOK(h, i)'
      BY <1>7 DEF QueuedInv, WriterApply
    <3>1. QueuedOK(h, i) /\ queue[h][i] \in Writes
      BY DEF QueuedInv, TypeOK
    <3>2. queue[h][i] # cur[g]
      BY <2>0, <3>1, NoWriteAssumption DEF QueuedOK, InHandInv
    <3>3. reply'[queue[h][i]] = "none" /\ cur'[h] # queue[h][i]
      BY <1>7, <3>1, <3>2, NoWriteAssumption DEF TypeOK, QueuedOK, WriterApply
    <3> QED BY <1>7, <3>1, <3>3 DEF QueuedOK, WriterApply
  <2>6. InHandInv'
    BY <1>7, <2>0 DEF TypeOK, InHandInv, WriterApply, controlVars
  <2>7. WaitInv'
    BY <1>7, <2>0 DEF TypeOK, WaitInv, InQueue, InHandInv, WriterApply, controlVars
  <2>8. AnswerInv'
    BY <1>7, <2>0 DEF TypeOK, AnswerInv, GenInv, LifeOK, InHandInv, WriterApply, controlVars
  <2> QED BY <2>1, <2>2, <2>3, <2>4, <2>5, <2>6, <2>7, <2>8
<1>8. ASSUME NEW g \in Gens, WriterExit(g) PROVE IInv'
  <2>0. /\ wpc[g] = "drain" /\ queue[g] = <<>> /\ g \in cancelled /\ cur[g] = NoWrite
    BY <1>8 DEF TypeOK, GenInv, LifeOK, WriterExit
  <2>1. TypeOK'
    BY <1>8, <2>0 DEF TypeOK, WriterExit, submitVars, controlVars
  <2>2. LockInv'
    BY <1>8, <2>0 DEF TypeOK, LockInv, WriterExit, submitVars, controlVars
  <2>3. GenInv'
    BY <1>8, <2>0 DEF TypeOK, GenInv, LifeOK, Alive, Closed, WriterExit, submitVars, controlVars
  <2>4. StopInv'
    <3>1. \A h \in Gens : Closed(h) => Closed(h)'
      BY <1>8 DEF TypeOK, Closed, WriterExit
    <3>2. cpc' = cpc /\ cgen' = cgen /\ spawned' = spawned /\ spawned <= MaxGen
      BY <1>8 DEF TypeOK, WriterExit, controlVars
    <3> QED BY <3>1, <3>2 DEF TypeOK, StopInv, Closed
  <2>5. QueuedInv'
    BY <1>8 DEF QueuedInv, QueuedOK, WriterExit, submitVars
  <2>6. InHandInv'
    BY <1>8, <2>0 DEF TypeOK, InHandInv, WriterExit, submitVars, controlVars
  <2>7. WaitInv'
    BY <1>8, <2>0 DEF TypeOK, WaitInv, InQueue, WriterExit, submitVars, controlVars
  <2>8. AnswerInv'
    BY <1>8, <2>0 DEF TypeOK, AnswerInv, WriterExit, submitVars, controlVars
  <2> QED BY <2>1, <2>2, <2>3, <2>4, <2>5, <2>6, <2>7, <2>8
<1>9. ASSUME NEW w \in Writes, SubmitInline(w) PROVE IInv'
  <2>1. TypeOK'
    BY <1>9 DEF TypeOK, SubmitInline, writerVars, controlVars
  <2>2. LockInv'
    BY <1>9 DEF TypeOK, LockInv, SubmitInline, writerVars, controlVars
  <2>3. GenInv'
    BY <1>9 DEF TypeOK, GenInv, LifeOK, Alive, Closed, SubmitInline, writerVars, controlVars
  <2>4. StopInv'
    BY <1>9 DEF TypeOK, GenInv, LifeOK, StopInv, Closed, SubmitInline, writerVars, controlVars
  <2>5. QueuedInv'
    BY <1>9, QueuedStable DEF TypeOK, SubmitInline, writerVars
  <2>6. InHandInv'
    BY <1>9 DEF TypeOK, InHandInv, SubmitInline, writerVars, controlVars
  <2>7. WaitInv'
    BY <1>9 DEF TypeOK, WaitInv, InQueue, SubmitInline, writerVars, controlVars
  <2>8. AnswerInv'
    BY <1>9 DEF TypeOK, AnswerInv, SubmitInline, writerVars, controlVars
  <2> QED BY <2>1, <2>2, <2>3, <2>4, <2>5, <2>6, <2>7, <2>8
<1>10. ASSUME NEW w \in Writes, SubmitLock(w) PROVE IInv'
  <2>1. TypeOK'
    BY <1>10 DEF TypeOK, SubmitLock, writerVars, controlVars
  <2>2. LockInv'
    BY <1>10 DEF TypeOK, LockInv, RunsInline, SubmitLock, writerVars, controlVars
  <2>3. GenInv'
    BY <1>10 DEF TypeOK, GenInv, LifeOK, Alive, Closed, SubmitLock, writerVars, controlVars
  <2>4. StopInv'
    BY <1>10 DEF TypeOK, GenInv, LifeOK, StopInv, Closed, SubmitLock, writerVars, controlVars
  <2>5. QueuedInv'
    BY <1>10, QueuedStable DEF TypeOK, SubmitLock, writerVars
  <2>6. InHandInv'
    BY <1>10 DEF TypeOK, InHandInv, SubmitLock, writerVars, controlVars
  <2>7. WaitInv'
    BY <1>10 DEF TypeOK, WaitInv, InQueue, SubmitLock, writerVars, controlVars
  <2>8. AnswerInv'
    BY <1>10 DEF TypeOK, AnswerInv, SubmitLock, writerVars, controlVars
  <2> QED BY <2>1, <2>2, <2>3, <2>4, <2>5, <2>6, <2>7, <2>8
<1>11. ASSUME NEW w \in Writes, SubmitSend(w) PROVE IInv'
  <2>0. /\ gen[w] \in Gens
        /\ Append(queue[gen[w]], w) \in Seq(Writes)
        /\ Len(Append(queue[gen[w]], w)) = Len(queue[gen[w]]) + 1 /\ Len(queue[gen[w]]) \in Nat
        /\ Append(queue[gen[w]], w)[Len(queue[gen[w]]) + 1] = w
        /\ \A i \in 1 .. Len(queue[gen[w]]) : Append(queue[gen[w]], w)[i] = queue[gen[w]][i]
    BY <1>11 DEF TypeOK, LockInv, SubmitSend
  <2>1. TypeOK'
    BY <1>11, <2>0 DEF TypeOK, SubmitSend, writerVars, controlVars
  <2>2. LockInv'
    BY <1>11, <2>0 DEF TypeOK, LockInv, SubmitSend, writerVars, controlVars
  <2>3. GenInv'
    BY <1>11, <2>0 DEF TypeOK, GenInv, LifeOK, Alive, Closed, LockInv, SubmitSend, writerVars,
        controlVars
  <2>4. StopInv'
    BY <1>11, <2>0 DEF TypeOK, GenInv, LifeOK, StopInv, Closed, SubmitSend, writerVars,
        controlVars
  <2>5. QueuedInv'
    <3> SUFFICES ASSUME NEW h \in Gens, NEW i \in 1 .. Len(queue'[h]) PROVE QueuedOK(h, i)'
      BY DEF QueuedInv
    <3>0. \A k \in Gens : \A j \in 1 .. Len(queue[k]) : QueuedOK(k, j) /\ queue[k][j] # w
      BY <1>11 DEF QueuedInv, QueuedOK, SubmitSend
    <3>1. CASE h # gen[w]
      <4>1. queue'[h] = queue[h] /\ gen' = gen /\ reply' = reply /\ cur' = cur
        BY <1>11, <3>1 DEF TypeOK, SubmitSend, writerVars
      <4>2. QueuedOK(h, i) /\ queue[h][i] # w
        BY <3>0, <4>1
      <4>3. pc'[queue[h][i]] = pc[queue[h][i]]
        BY <1>11, <4>2 DEF TypeOK, SubmitSend
      <4> QED BY <4>1, <4>2, <4>3 DEF QueuedOK
    <3>2. CASE h = gen[w] /\ i = Len(queue[gen[w]]) + 1
      <4>1. queue'[h][i] = w /\ \A j \in 1 .. Len(queue'[h]) : j # i => queue'[h][j] # w
        BY <1>11, <2>0, <3>0, <3>2 DEF TypeOK, SubmitSend
      <4>2. cur[h] # w
        BY <1>11, NoWriteAssumption DEF InHandInv, SubmitSend
      <4> QED BY <1>11, <3>2, <4>1, <4>2 DEF TypeOK, QueuedOK, AnswerInv, SubmitSend, writerVars
    <3>3. CASE h = gen[w] /\ i # Len(queue[gen[w]]) + 1
      <4>0. queue'[h] = Append(queue[gen[w]], w)
        BY <1>11, <3>3 DEF TypeOK, SubmitSend
      <4>1. i \in 1 .. Len(queue[h]) /\ queue'[h][i] = queue[h][i]
        BY <2>0, <3>3, <4>0
      <4>2. \A j \in 1 .. Len(queue'[h]) :
              \/ j \in 1 .. Len(queue[h]) /\ queue'[h][j] = queue[h][j]
              \/ queue'[h][j] = w
        BY <2>0, <3>3, <4>0
      <4>3. QueuedOK(h, i) /\ queue[h][i] # w
        BY <3>0, <4>1
      <4>4. \A j \in 1 .. Len(queue'[h]) : queue'[h][i] = queue'[h][j] => i = j
        BY <4>1, <4>2, <4>3 DEF QueuedOK
      <4>5. /\ pc'[queue[h][i]] = pc[queue[h][i]]
            /\ gen' = gen /\ reply' = reply /\ cur' = cur
        BY <1>11, <4>3 DEF TypeOK, SubmitSend, writerVars
      <4> QED BY <4>1, <4>4, <4>3, <4>5 DEF QueuedOK
    <3> QED BY <3>1, <3>2, <3>3
  <2>6. InHandInv'
    BY <1>11, <2>0 DEF TypeOK, InHandInv, SubmitSend, writerVars, controlVars
  <2>7. WaitInv'
    <3>1. \A v \in Writes, h \in Gens : InQueue(v, h) => InQueue(v, h)'
      <4> SUFFICES ASSUME NEW v \in Writes, NEW h \in Gens, NEW i \in 1 .. Len(queue[h]), queue[h][i] = v
                   PROVE  i \in 1 .. Len(queue'[h]) /\ queue'[h][i] = v
        BY DEF InQueue
      <4> QED BY <1>11, <2>0 DEF TypeOK, SubmitSend
    <3>2. InQueue(w, gen[w])'
      BY <1>11, <2>0 DEF TypeOK, InQueue, SubmitSend
    <3> QED BY <1>11, <2>0, <3>1, <3>2 DEF TypeOK, WaitInv, SubmitSend, writerVars
  <2>8. AnswerInv'
    BY <1>11, <2>0 DEF TypeOK, AnswerInv, SubmitSend, writerVars, controlVars
  <2> QED BY <2>1, <2>2, <2>3, <2>4, <2>5, <2>6, <2>7, <2>8
<1>12. ASSUME NEW w \in Writes, SubmitTimeout(w) PROVE IInv'
  <2>1. TypeOK'
    BY <1>12 DEF TypeOK, SubmitTimeout, writerVars, controlVars
  <2>2. LockInv'
    BY <1>12 DEF TypeOK, LockInv, SubmitTimeout, writerVars, controlVars
  <2>3. GenInv'
    BY <1>12 DEF TypeOK, GenInv, LifeOK, Alive, Closed, SubmitTimeout, writerVars, controlVars
  <2>4. StopInv'
    BY <1>12 DEF TypeOK, GenInv, LifeOK, StopInv, Closed, SubmitTimeout, writerVars, controlVars
  <2>5. QueuedInv'
    BY <1>12, QueuedStable DEF TypeOK, SubmitTimeout, writerVars
  <2>6. InHandInv'
    BY <1>12 DEF TypeOK, InHandInv, SubmitTimeout, writerVars, controlVars
  <2>7. WaitInv'
    BY <1>12 DEF TypeOK, WaitInv, InQueue, SubmitTimeout, writerVars, controlVars
  <2>8. AnswerInv'
    BY <1>12 DEF TypeOK, AnswerInv, SubmitTimeout, writerVars, controlVars
  <2> QED BY <2>1, <2>2, <2>3, <2>4, <2>5, <2>6, <2>7, <2>8
<1>13. ASSUME NEW w \in Writes, InlineApply(w) PROVE IInv'
  <2>1. TypeOK'
    BY <1>13 DEF TypeOK, InlineApply, writerVars, controlVars
  <2>2. LockInv'
    BY <1>13 DEF TypeOK, LockInv, InlineApply, writerVars, controlVars
  <2>3. GenInv'
    BY <1>13 DEF TypeOK, GenInv, LifeOK, Alive, Closed, InlineApply, writerVars, controlVars
  <2>4. StopInv'
    BY <1>13 DEF TypeOK, GenInv, LifeOK, StopInv, Closed, InlineApply, writerVars, controlVars
  <2>5. QueuedInv'
    BY <1>13, QueuedStable DEF TypeOK, InlineApply, writerVars
  <2>6. InHandInv'
    BY <1>13 DEF TypeOK, InHandInv, InlineApply, writerVars, controlVars
  <2>7. WaitInv'
    BY <1>13 DEF TypeOK, WaitInv, InQueue, InlineApply, writerVars, controlVars
  <2>8. AnswerInv'
    BY <1>13 DEF TypeOK, AnswerInv, InlineApply, writerVars, controlVars
  <2> QED BY <2>1, <2>2, <2>3, <2>4, <2>5, <2>6, <2>7, <2>8
<1>14. ASSUME NEW w \in Writes, SubmitReturn(w) PROVE IInv'
  <2>0. reply[w] # "none" /\ result' = [result EXCEPT ![w] = reply[w]]
    <3>1. SUFFICES ASSUME reply[w] = "none" PROVE FALSE
      BY <1>14 DEF SubmitReturn
    <3>2. gen[w] \in Gens /\ (cur[gen[w]] = w \/ InQueue(w, gen[w]))
      BY <1>14, <3>1 DEF WaitInv, SubmitReturn
    <3>3. wpc[gen[w]] = "exited"
      BY <1>14, <3>1 DEF SubmitReturn, Closed
    <3>4. queue[gen[w]] = <<>> /\ cur[gen[w]] = NoWrite
      BY <3>2, <3>3 DEF GenInv, LifeOK
    <3> QED BY <3>2, <3>4, NoWriteAssumption DEF InQueue
  <2>1. TypeOK'
    BY <1>14, <2>0 DEF TypeOK, SubmitReturn, writerVars, controlVars
  <2>2. LockInv'
    BY <1>14, <2>0 DEF TypeOK, LockInv, SubmitReturn, writerVars, controlVars
  <2>3. GenInv'
    BY <1>14, <2>0 DEF TypeOK, GenInv, LifeOK, Alive, Closed, SubmitReturn, writerVars,
        controlVars
  <2>4. StopInv'
    BY <1>14, <2>0 DEF TypeOK, GenInv, LifeOK, StopInv, Closed, SubmitReturn, writerVars,
        controlVars
  <2>5. QueuedInv'
    BY <1>14, <2>0, QueuedStable DEF TypeOK, SubmitReturn, writerVars
  <2>6. InHandInv'
    BY <1>14, <2>0 DEF TypeOK, InHandInv, SubmitReturn, writerVars, controlVars
  <2>7. WaitInv'
    BY <1>14, <2>0 DEF TypeOK, WaitInv, InQueue, SubmitReturn, writerVars, controlVars
  <2>8. AnswerInv'
    BY <1>14, <2>0 DEF TypeOK, AnswerInv, SubmitReturn, writerVars, controlVars
  <2> QED BY <2>1, <2>2, <2>3, <2>4, <2>5, <2>6, <2>7, <2>8
<1>15. CASE UNCHANGED tvars
  BY <1>15 DEF TypeOK, LockInv, GenInv, LifeOK, StopInv, QueuedInv, QueuedOK, InHandInv, WaitInv, AnswerInv, Alive, Closed, InQueue, Closed, tvars
<1> QED
  BY <1>1, <1>2, <1>3, <1>4, <1>5, <1>6, <1>7, <1>8, <1>9, <1>10, <1>11, <1>12, <1>13, <1>14, <1>15 DEF Next, Controller, Writer, Submit

(* IInv holds in every reachable state.                                     *)
THEOREM Inductive == Spec => []IInv
<1>1. IInv /\ [Next]_tvars => IInv'
  BY StepInv
<1> QED BY <1>1, InitInv, PTL DEF Spec

(* The variables keep their types.                                          *)
THEOREM TypeCorrect == Spec => []TypeOK
<1>1. IInv => TypeOK
  BY DEF IInv
<1> QED BY <1>1, Inductive, PTL

(* No interleaving of Start, Stop and submissions makes submitTrafficWrite  *)
(* return "traffic writer stopped before write completed".                  *)
THEOREM NeverAbandoned == Spec => []NoWriteAbandoned
<1>1. IInv => NoWriteAbandoned
  BY DEF IInv, AnswerInv, TypeOK, NoWriteAbandoned, ApplyResults
<1> QED BY <1>1, Inductive, PTL

(* The answer of submitTrafficWrite tells whether the write was executed,   *)
(* and a refused write is in no queue that could still execute it.          *)
THEOREM Truthful == Spec => []AnswerIsTruth
<1>1. IInv => AnswerIsTruth
  <2> SUFFICES ASSUME IInv, NEW w \in Writes
               PROVE /\ result[w] \in ApplyResults => applied[w] = 1
                     /\ result[w] = "full" =>
                          /\ applied[w] = 0
                          /\ \A g \in Gens : cur[g] # w /\ \A i \in 1 .. Len(queue[g]) : queue[g][i] # w
    BY DEF AnswerIsTruth
  <2>1. (result[w] \in ApplyResults => applied[w] = 1) /\ (result[w] = "full" => applied[w] = 0)
    BY DEF IInv, AnswerInv
  <2>2. ASSUME result[w] = "full", NEW g \in Gens
        PROVE  cur[g] # w /\ \A i \in 1 .. Len(queue[g]) : queue[g][i] # w
    <3>1. pc[w] # "wait"
      BY <2>2 DEF IInv, AnswerInv
    <3>2. cur[g] # w
      BY <3>1, NoWriteAssumption DEF IInv, InHandInv
    <3>3. \A i \in 1 .. Len(queue[g]) : queue[g][i] # w
      BY <3>1 DEF IInv, QueuedInv, QueuedOK
    <3> QED BY <3>2, <3>3
  <2> QED BY <2>1, <2>2
<1> QED BY <1>1, Inductive, PTL

(* Two writer goroutines never coexist, not even while one drains.          *)
THEOREM SingleWriter == Spec => []OneWriter
<1>1. IInv => OneWriter
  BY DEF IInv, GenInv, LifeOK, OneWriter
<1> QED BY <1>1, Inductive, PTL

(* A caller that still waits for its answer waits on a live writer.         *)
THEOREM NoOrphan == Spec => []NoOrphanedRequest
<1>1. IInv => NoOrphanedRequest
  BY NoWriteAssumption DEF IInv, GenInv, LifeOK, WaitInv, InQueue, Alive, NoOrphanedRequest
<1> QED BY <1>1, Inductive, PTL

(* Start and Stop replace or clear the package variables only when the      *)
(* generation they let go has nothing queued and nothing in hand.           *)
THEOREM QueueKept == Spec => NoQueueDropped
<1>1. IInv /\ [Next]_tvars =>
        [\A g \in Gens : tw = g /\ tw' # g => queue[g] = <<>> /\ cur[g] = NoWrite]_tvars
  <2> SUFFICES ASSUME IInv, Next, NEW g \in Gens, tw = g, tw' # g
               PROVE queue[g] = <<>> /\ cur[g] = NoWrite
    OBVIOUS
  <2>1. wpc[g] = "exited"
    <3>1. ASSUME NEW c \in Controllers, StartSpawn(c) PROVE wpc[g] = "exited"
      BY <3>1, MaxGenAssumption DEF StartSpawn, WriterPresent, Closed, Gens
    <3>2. ASSUME NEW c \in Controllers, StopClear(c) PROVE wpc[g] = "exited"
      BY <3>2 DEF StopClear, IInv, StopInv, Closed
    <3>3. (\E c \in Controllers : StartSpawn(c)) \/ (\E c \in Controllers : StopClear(c))
      BY DEF Next, Controller, Writer, Submit, StopCancel, StopAwait, WriterReceive, WriterCancelled,
             WriterApply, WriterExit, SubmitInline, SubmitLock, SubmitSend, SubmitTimeout,
             InlineApply, SubmitReturn
    <3> QED BY <3>1, <3>2, <3>3
  <2> QED BY <2>1 DEF IInv, GenInv, LifeOK
<1> QED BY <1>1, Inductive, PTL DEF Spec, NoQueueDropped

-----------------------------------------------------------------------------
(* The refinement.  A step that leaves pc, reply and result alone is a      *)
(* stuttering step of the service.                                          *)
LEMMA Stutter ==
  ASSUME UNCHANGED <<pc, reply, result>>
  PROVE  UNCHANGED <<phaseBar, answerBar>>
BY DEF phaseBar, answerBar

(* The service's view of one submission when only that submission changes.  *)
LEMMA ViewOfOne ==
  ASSUME NEW w \in Writes, NEW p, NEW a,
         \A v \in Writes \ {w} : pc'[v] = pc[v] /\ reply'[v] = reply[v] /\ result'[v] = result[v],
         phaseBar'[w] = p, answerBar'[w] = a
  PROVE  /\ phaseBar' = [phaseBar EXCEPT ![w] = p]
         /\ answerBar' = [answerBar EXCEPT ![w] = a]
<1>1. \A v \in Writes \ {w} : phaseBar'[v] = phaseBar[v] /\ answerBar'[v] = answerBar[v]
  BY DEF phaseBar, answerBar
<1>2. /\ phaseBar = [v \in Writes |-> phaseBar[v]] /\ phaseBar' = [v \in Writes |-> phaseBar'[v]]
      /\ answerBar = [v \in Writes |-> answerBar[v]] /\ answerBar' = [v \in Writes |-> answerBar'[v]]
  BY DEF phaseBar, answerBar
<1> QED BY <1>1, <1>2

\* The initial states are initial states of the service.
LEMMA RefinesInit == Init => Service!Init
BY DEF Init, Service!Init, phaseBar, answerBar

(* Every step of the detailed specification is a step of the service: the   *)
(* effect of a queued write is the writer's step, not its caller's.         *)
LEMMA RefinesStep == IInv /\ [Next]_tvars => [Service!Next]_<<phaseBar, answerBar>>
<1> SUFFICES ASSUME IInv, [Next]_tvars PROVE [Service!Next]_<<phaseBar, answerBar>>
    OBVIOUS
<1> USE DEF ApplyResults
<1>1. ASSUME NEW c \in Controllers, Controller(c) PROVE UNCHANGED <<phaseBar, answerBar>>
  BY <1>1, Stutter DEF Controller, StartSpawn, StopCancel, StopAwait, StopClear, submitVars
<1>2. ASSUME NEW g \in Gens, WriterReceive(g) \/ WriterCancelled(g) \/ WriterExit(g)
      PROVE UNCHANGED <<phaseBar, answerBar>>
  BY <1>2, Stutter DEF WriterReceive, WriterCancelled, WriterExit, submitVars
<1>3. ASSUME NEW g \in Gens, WriterApply(g) PROVE Service!Next
  <2>1. /\ cur[g] \in Writes /\ pc[cur[g]] = "wait" /\ reply[cur[g]] = "none"
        /\ pc' = pc /\ result' = result
    BY <1>3, NoWriteAssumption DEF IInv, TypeOK, GenInv, LifeOK, InHandInv, WriterApply
  <2>2. PICK r \in ApplyResults : reply' = [reply EXCEPT ![cur[g]] = r]
    BY <1>3 DEF WriterApply
  <2>3. phaseBar[cur[g]] = "pending" /\ phaseBar'[cur[g]] = "applied" /\ answerBar'[cur[g]] = r
    BY <2>1, <2>2 DEF phaseBar, answerBar, IInv, TypeOK
  <2>4. \A v \in Writes \ {cur[g]} : pc'[v] = pc[v] /\ reply'[v] = reply[v] /\ result'[v] = result[v]
    BY <2>1, <2>2 DEF IInv, TypeOK
  <2>5. Service!Apply(cur[g])
    BY <2>1, <2>3, <2>4, ViewOfOne DEF Service!Apply, Service!Outcomes
  <2> QED BY <2>1, <2>5 DEF Service!Next, Service!Complete
<1>4. ASSUME NEW w \in Writes, SubmitInline(w) \/ SubmitLock(w) PROVE Service!Next
  <2>1. /\ phaseBar[w] = "idle" /\ phaseBar'[w] = "pending"
        /\ answerBar'[w] = answerBar[w]
        /\ \A v \in Writes \ {w} : pc'[v] = pc[v] /\ reply'[v] = reply[v] /\ result'[v] = result[v]
    BY <1>4 DEF SubmitInline, SubmitLock, phaseBar, answerBar, IInv, TypeOK
  <2>2. answerBar' = answerBar
    <3>1. answerBar' = [answerBar EXCEPT ![w] = answerBar[w]]
      BY <2>1, ViewOfOne
    <3> QED BY <3>1 DEF answerBar
  <2>3. Service!Call(w)
    BY <2>1, <2>2, ViewOfOne DEF Service!Call
  <2> QED BY <2>3 DEF Service!Next
<1>5. ASSUME NEW w \in Writes, SubmitSend(w) PROVE UNCHANGED <<phaseBar, answerBar>>
  <2>1. /\ pc[w] = "send" /\ reply[w] = "none" /\ result[w] = "none"
        /\ pc' = [pc EXCEPT ![w] = "wait"] /\ reply' = reply /\ result' = result
    BY <1>5 DEF SubmitSend, IInv, AnswerInv
  <2>2. /\ phaseBar[w] = "pending" /\ phaseBar'[w] = "pending"
        /\ answerBar[w] = "none" /\ answerBar'[w] = "none"
    BY <2>1 DEF phaseBar, answerBar, IInv, TypeOK
  <2>3. \A v \in Writes : phaseBar'[v] = phaseBar[v] /\ answerBar'[v] = answerBar[v]
    BY <2>1, <2>2 DEF phaseBar, answerBar, IInv, TypeOK
  <2> QED BY <2>3 DEF phaseBar, answerBar
<1>6. ASSUME NEW w \in Writes, SubmitTimeout(w) PROVE Service!Next
  <2>1. /\ phaseBar[w] = "pending" /\ phaseBar'[w] = "returned" /\ answerBar'[w] = "full"
        /\ \A v \in Writes \ {w} : pc'[v] = pc[v] /\ reply'[v] = reply[v] /\ result'[v] = result[v]
    BY <1>6 DEF SubmitTimeout, phaseBar, answerBar, IInv, TypeOK
  <2>2. Service!Refuse(w)
    BY <2>1, ViewOfOne DEF Service!Refuse
  <2> QED BY <2>2 DEF Service!Next, Service!Complete
<1>7. ASSUME NEW w \in Writes, InlineApply(w) PROVE Service!Next
  <2>1. PICK r \in ApplyResults : result' = [result EXCEPT ![w] = r]
    BY <1>7 DEF InlineApply
  <2>2. /\ phaseBar[w] = "pending" /\ phaseBar'[w] = "returned" /\ answerBar'[w] = r
        /\ \A v \in Writes \ {w} : pc'[v] = pc[v] /\ reply'[v] = reply[v] /\ result'[v] = result[v]
    BY <1>7, <2>1 DEF InlineApply, phaseBar, answerBar, IInv, TypeOK
  <2>3. Service!Apply(w)
    BY <2>2, ViewOfOne DEF Service!Apply, Service!Outcomes
  <2> QED BY <2>3 DEF Service!Next, Service!Complete
<1>8. ASSUME NEW w \in Writes, SubmitReturn(w) PROVE Service!Next
  <2>1. /\ pc[w] = "wait" /\ reply[w] # "none" /\ reply' = reply
        /\ pc' = [pc EXCEPT ![w] = "returned"] /\ result' = [result EXCEPT ![w] = reply[w]]
    <3>1. reply[w] # "none"
      <4> SUFFICES ASSUME reply[w] = "none" PROVE FALSE
        OBVIOUS
      <4>1. pc[w] = "wait" /\ Closed(gen[w])
        BY <1>8 DEF SubmitReturn
      <4>2. Alive(gen[w])
        BY <4>1, NoWriteAssumption DEF IInv, GenInv, LifeOK, WaitInv, InQueue, Alive
      <4> QED BY <4>1, <4>2 DEF Closed, Alive
    <3> QED BY <1>8, <3>1 DEF SubmitReturn
  <2>2. /\ phaseBar[w] = "applied" /\ phaseBar'[w] = "returned" /\ answerBar'[w] = answerBar[w]
        /\ \A v \in Writes \ {w} : pc'[v] = pc[v] /\ reply'[v] = reply[v] /\ result'[v] = result[v]
    BY <2>1 DEF phaseBar, answerBar, IInv, TypeOK
  <2>3. answerBar' = answerBar
    <3>1. answerBar' = [answerBar EXCEPT ![w] = answerBar[w]]
      BY <2>2, ViewOfOne
    <3> QED BY <3>1 DEF answerBar
  <2>4. Service!Return(w)
    BY <2>2, <2>3, ViewOfOne DEF Service!Return
  <2> QED BY <2>4 DEF Service!Next, Service!Complete
<1>9. CASE UNCHANGED tvars
  BY <1>9, Stutter DEF tvars
<1> QED
  BY <1>1, <1>2, <1>3, <1>4, <1>5, <1>6, <1>7, <1>8, <1>9 DEF Next, Writer, Submit

(* Queue, mutex, timer, cancellation and draining implement one atomic      *)
(* effect per call; TLC adds the liveness half of ImplementsWriteService.   *)
THEOREM Refinement == Spec => Service!Safety
<1>1. IInv /\ [Next]_tvars => [Service!Next]_Service!svars
  BY RefinesStep DEF Service!svars
<1> QED BY <1>1, RefinesInit, Inductive, PTL DEF Spec, Service!Safety

=============================================================================
