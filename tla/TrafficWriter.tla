---------------------------- MODULE TrafficWriter ----------------------------
(***************************************************************************)
(* web/service/traffic_writer.go: the serial writer through which every    *)
(* traffic-accounting transaction is funnelled.                            *)
(*                                                                         *)
(* Goroutines: one per submission (a member of Writes), the callers of     *)
(* StartTrafficWriter and StopTrafficWriter (Controllers), and one writer  *)
(* per Start that spawns one.  A Start allocates a queue, a context and a  *)
(* done channel; those three live and die together, so a spawn is one      *)
(* number, its generation, and the four package variables twQueue, twCtx,  *)
(* twCancel and twDone are the single variable tw: a generation, or 0 for  *)
(* nil.  A section of code between twMu.Lock and twMu.Unlock that cannot   *)
(* block is one step; the only one that can is the send of a submission.   *)
(***************************************************************************)
EXTENDS Naturals, Sequences

CONSTANTS
  Writes,        \* submissions, each made by a goroutine of its own
  Controllers,   \* goroutines that call Start and Stop
  QueueSize,     \* trafficWriterQueueSize, 256 in the code
  MaxGen,        \* bound on the writers spawned; not in the code
  NoWrite        \* no submission: nobody holds twMu, a writer has nothing in hand

ASSUME QueueSizeAssumption == QueueSize \in Nat \ {0}
ASSUME MaxGenAssumption == MaxGen \in Nat \ {0}
ASSUME NoWriteAssumption == NoWrite \notin Writes

Gens == 1 .. MaxGen

VARIABLES
  twMu,       \* the submission that holds twMu while it blocks on the queue
  tw,         \* current generation, 0 when the package variables are nil
  spawned,    \* generations created so far
  queue,      \* queue[g]: the buffered channel of generation g
  cancelled,  \* the generations whose ctx is done
  wpc,        \* wpc[g]: control state of the writer goroutine of g
  cur,        \* cur[g]: the request that writer is applying
  pc,         \* pc[w]: control state of submission w
  gen,        \* gen[w]: the generation whose channels w holds in locals
  reply,      \* reply[w]: content of req.done, a channel of capacity one
  result,     \* result[w]: what submitTrafficWrite returned
  applied,    \* applied[w]: how many times req.apply ran (history)
  cpc,        \* cpc[c]: control state of controller c
  cgen        \* cgen[c]: the generation a Stop of c is waiting for

tvars == <<twMu, tw, spawned, queue, cancelled, wpc, cur, pc, gen, reply,
           result, applied, cpc, cgen>>
writerVars == <<spawned, cancelled, wpc, cur>>
submitVars == <<pc, gen, reply, result, applied>>
controlVars == <<cpc, cgen>>

(* safeApply turns a panic into an error, so fn either succeeds or fails.   *)
ApplyResults == {"ok", "err"}

Init ==
  /\ twMu = NoWrite
  /\ tw = 0
  /\ spawned = 0
  /\ queue = [g \in Gens |-> <<>>]
  /\ cancelled = {}
  /\ wpc = [g \in Gens |-> "unborn"]
  /\ cur = [g \in Gens |-> NoWrite]
  /\ pc = [w \in Writes |-> "idle"]
  /\ gen = [w \in Writes |-> 0]
  /\ reply = [w \in Writes |-> "none"]
  /\ result = [w \in Writes |-> "none"]
  /\ applied = [w \in Writes |-> 0]
  /\ cpc = [c \in Controllers |-> "idle"]
  /\ cgen = [c \in Controllers |-> 0]

-----------------------------------------------------------------------------
(* StartTrafficWriter *)

(* The done channel of a generation is closed by its writer's last step.    *)
Closed(g) == wpc[g] = "exited"

(* Mutant: Start looks at the context instead of the done channel.          *)
WriterPresentByContext == tw # 0 /\ tw \notin cancelled

(* A writer exists and has not finished: Start returns without effect.      *)
WriterPresent == tw # 0 /\ ~Closed(tw)

StartSpawn(c) ==
  /\ cpc[c] = "idle" /\ twMu = NoWrite
  /\ ~WriterPresent
  /\ spawned < MaxGen
  /\ spawned' = spawned + 1
  /\ tw' = spawned'
  /\ wpc' = [wpc EXCEPT ![spawned'] = "select"]
  /\ UNCHANGED <<twMu, queue, cancelled, cur, submitVars, controlVars>>

-----------------------------------------------------------------------------
(* StopTrafficWriter *)

(* First critical section: with no writer there is nothing to stop.         *)
StopCancel(c) ==
  /\ cpc[c] = "idle" /\ twMu = NoWrite
  /\ tw # 0
  /\ cancelled' = cancelled \cup {tw}
  /\ cgen' = [cgen EXCEPT ![c] = tw]
  /\ cpc' = [cpc EXCEPT ![c] = "stopWait"]
  /\ UNCHANGED <<twMu, tw, spawned, queue, wpc, cur, submitVars>>

(* <-done *)
StopAwait(c) ==
  /\ cpc[c] = "stopWait"
  /\ Closed(cgen[c])
  /\ cpc' = [cpc EXCEPT ![c] = "stopClear"]
  /\ UNCHANGED <<twMu, tw, queue, writerVars, submitVars, cgen>>

(* Second critical section: a Start may have replaced the generation.       *)
StopClear(c) ==
  /\ cpc[c] = "stopClear" /\ twMu = NoWrite
  /\ tw' = IF tw = cgen[c] THEN 0 ELSE tw
  /\ cpc' = [cpc EXCEPT ![c] = "idle"]
  /\ UNCHANGED <<twMu, queue, writerVars, submitVars, cgen>>

-----------------------------------------------------------------------------
(* runTrafficWriter *)

(* The first select: with both channels ready, Go picks either.             *)
WriterReceive(g) ==
  /\ wpc[g] \in {"select", "drain"}
  /\ queue[g] # <<>>
  /\ cur' = [cur EXCEPT ![g] = Head(queue[g])]
  /\ queue' = [queue EXCEPT ![g] = Tail(queue[g])]
  /\ wpc' = [wpc EXCEPT ![g] = IF wpc[g] = "select" THEN "apply" ELSE "drainApply"]
  /\ UNCHANGED <<twMu, tw, spawned, cancelled, submitVars, controlVars>>

WriterCancelled(g) ==
  /\ wpc[g] = "select"
  /\ g \in cancelled
  /\ wpc' = [wpc EXCEPT ![g] = "drain"]
  /\ UNCHANGED <<twMu, tw, spawned, queue, cancelled, cur, submitVars, controlVars>>

(* req.done <- safeApply(req.apply): the channel has room for the answer.   *)
WriterApply(g) ==
  /\ wpc[g] \in {"apply", "drainApply"}
  /\ applied' = [applied EXCEPT ![cur[g]] = @ + 1]
  /\ \E r \in ApplyResults : reply' = [reply EXCEPT ![cur[g]] = r]
  /\ cur' = [cur EXCEPT ![g] = NoWrite]
  /\ wpc' = [wpc EXCEPT ![g] = IF wpc[g] = "apply" THEN "select" ELSE "drain"]
  /\ UNCHANGED <<twMu, tw, spawned, queue, cancelled, pc, gen, result, controlVars>>

(* Mutant: the writer returns on cancellation without draining.             *)
WriterExitUndrained(g) ==
  /\ wpc[g] = "drain"
  /\ wpc' = [wpc EXCEPT ![g] = "exited"]
  /\ UNCHANGED <<twMu, tw, spawned, queue, cancelled, cur, submitVars, controlVars>>

(* Mutant: the drain loop polls for ever instead of returning.              *)
WriterExitNever(g) ==
  /\ wpc[g] = "drain"
  /\ queue[g] = <<>>
  /\ UNCHANGED tvars

(* The drain loop finds the queue empty; the deferred close(done) runs.     *)
WriterExit(g) ==
  /\ wpc[g] = "drain"
  /\ queue[g] = <<>>
  /\ wpc' = [wpc EXCEPT ![g] = "exited"]
  /\ UNCHANGED <<twMu, tw, spawned, queue, cancelled, cur, submitVars, controlVars>>

-----------------------------------------------------------------------------
(* submitTrafficWrite *)

(* Mutant: the context is not looked at before queueing.                    *)
RunsInlineIfNil == tw = 0

(* No writer, or one that is being stopped: fn runs in the caller.          *)
RunsInline == tw # 0 => tw \in cancelled

SubmitInline(w) ==
  /\ pc[w] = "idle" /\ twMu = NoWrite
  /\ RunsInline
  /\ pc' = [pc EXCEPT ![w] = "inline"]
  /\ UNCHANGED <<twMu, tw, queue, writerVars, gen, reply, result, applied, controlVars>>

(* Otherwise w keeps twMu and enters the select on the send and the timer.  *)
SubmitLock(w) ==
  /\ pc[w] = "idle" /\ twMu = NoWrite
  /\ ~RunsInline
  /\ twMu' = w
  /\ gen' = [gen EXCEPT ![w] = tw]
  /\ pc' = [pc EXCEPT ![w] = "send"]
  /\ UNCHANGED <<tw, queue, writerVars, reply, result, applied, controlVars>>

SubmitSend(w) ==
  /\ pc[w] = "send"
  /\ Len(queue[gen[w]]) < QueueSize
  /\ queue' = [queue EXCEPT ![gen[w]] = Append(@, w)]
  /\ twMu' = NoWrite
  /\ pc' = [pc EXCEPT ![w] = "wait"]
  /\ UNCHANGED <<tw, writerVars, gen, reply, result, applied, controlVars>>

(* Mutant: the request is already in the channel when the timer gives up.   *)
SubmitTimeoutQueued(w) ==
  /\ pc[w] = "send"
  /\ Len(queue[gen[w]]) < QueueSize
  /\ queue' = [queue EXCEPT ![gen[w]] = Append(@, w)]
  /\ twMu' = NoWrite
  /\ pc' = [pc EXCEPT ![w] = "returned"]
  /\ result' = [result EXCEPT ![w] = "full"]
  /\ UNCHANGED <<tw, writerVars, gen, reply, applied, controlVars>>

(* The five second timer fires.  The queue is usually full then, but a      *)
(* caller that is descheduled before the select can find both cases ready.  *)
SubmitTimeout(w) ==
  /\ pc[w] = "send"
  /\ twMu' = NoWrite
  /\ pc' = [pc EXCEPT ![w] = "returned"]
  /\ result' = [result EXCEPT ![w] = "full"]
  /\ UNCHANGED <<tw, queue, writerVars, gen, reply, applied, controlVars>>

InlineApply(w) ==
  /\ pc[w] = "inline"
  /\ applied' = [applied EXCEPT ![w] = @ + 1]
  /\ \E r \in ApplyResults : result' = [result EXCEPT ![w] = r]
  /\ pc' = [pc EXCEPT ![w] = "returned"]
  /\ UNCHANGED <<twMu, tw, queue, writerVars, gen, reply, controlVars>>

(* The final select.  When the done channel wins, req.done is looked at     *)
(* once more before the caller is told that its write was not completed.    *)
SubmitReturn(w) ==
  /\ pc[w] = "wait"
  /\ reply[w] # "none" \/ Closed(gen[w])
  /\ result' = [result EXCEPT ![w] = IF reply[w] # "none" THEN reply[w] ELSE "stopped"]
  /\ pc' = [pc EXCEPT ![w] = "returned"]
  /\ UNCHANGED <<twMu, tw, queue, writerVars, gen, reply, applied, controlVars>>

-----------------------------------------------------------------------------
Controller(c) == StartSpawn(c) \/ StopCancel(c) \/ StopAwait(c) \/ StopClear(c)

Writer(g) ==
  WriterReceive(g) \/ WriterCancelled(g) \/ WriterApply(g) \/ WriterExit(g)

Submit(w) ==
  \/ SubmitInline(w) \/ SubmitLock(w) \/ SubmitSend(w)
  \/ SubmitTimeout(w) \/ InlineApply(w) \/ SubmitReturn(w)

Next ==
  \/ \E c \in Controllers : Controller(c)
  \/ \E g \in Gens : Writer(g)
  \/ \E w \in Writes : Submit(w)

Spec == Init /\ [][Next]_tvars

(* Goroutines that can run do run: the writer, a caller past its first      *)
(* lock, and a Stop under way.  sync.Mutex hands the lock to a waiter that  *)
(* has starved for 1 ms, hence strong fairness of the step that takes it.   *)
(* Nothing makes anybody call Start, Stop or submitTrafficWrite.  An apply  *)
(* that never returned would hang the writer: fairness of WriterApply is    *)
(* the assumption that database transactions end.                           *)
Fairness ==
  /\ \A g \in Gens : WF_tvars(Writer(g))
  /\ \A w \in Writes : WF_tvars(SubmitSend(w) \/ SubmitTimeout(w) \/ InlineApply(w) \/ SubmitReturn(w))
  /\ \A c \in Controllers : WF_tvars(StopAwait(c)) /\ SF_tvars(StopClear(c))

FairSpec == Spec /\ Fairness

-----------------------------------------------------------------------------
(* Properties *)

TypeOK ==
  /\ twMu \in Writes \cup {NoWrite}
  /\ tw \in 0 .. MaxGen
  /\ spawned \in 0 .. MaxGen
  /\ queue \in [Gens -> Seq(Writes)]
  /\ cancelled \in SUBSET Gens
  /\ wpc \in [Gens -> {"unborn", "select", "apply", "drain", "drainApply", "exited"}]
  /\ cur \in [Gens -> Writes \cup {NoWrite}]
  /\ pc \in [Writes -> {"idle", "inline", "send", "wait", "returned"}]
  /\ gen \in [Writes -> 0 .. MaxGen]
  /\ reply \in [Writes -> {"none"} \cup ApplyResults]
  /\ result \in [Writes -> {"none", "full", "stopped"} \cup ApplyResults]
  /\ applied \in [Writes -> Nat]
  /\ cpc \in [Controllers -> {"idle", "stopWait", "stopClear"}]
  /\ cgen \in [Controllers -> 0 .. MaxGen]

(* The caller is never told "traffic writer stopped before write            *)
(* completed": whatever was queued before the cancellation is drained, and  *)
(* nothing is queued after it.  Lines 154-160 are a branch that no          *)
(* interleaving of Start, Stop and submissions reaches.                     *)
NoWriteAbandoned == \A w \in Writes : result[w] # "stopped"

(* What a caller is told is what happened, whichever way its write went:    *)
(* an answer of the function means exactly one execution, a refusal means   *)
(* none, now or later, although the queue outlives the caller.              *)
AnswerIsTruth ==
  \A w \in Writes :
    /\ result[w] \in ApplyResults => applied[w] = 1
    /\ result[w] = "full" =>
         /\ applied[w] = 0
         /\ \A g \in Gens : cur[g] # w /\ \A i \in 1 .. Len(queue[g]) : queue[g][i] # w

(* At most one writer goroutine exists at any moment, a draining one        *)
(* included: a Start during a Stop never puts a second one beside it.       *)
Alive(g) == wpc[g] \notin {"unborn", "exited"}
OneWriter == \A g, h \in Gens : Alive(g) /\ Alive(h) => g = h

(* The deadlock that the comment on StartTrafficWriter describes: a caller  *)
(* with a request in a queue that no goroutine will ever read.              *)
NoOrphanedRequest ==
  \A w \in Writes : pc[w] = "wait" /\ reply[w] = "none" => Alive(gen[w])

(* A generation can be replaced, but not while its queue holds requests:    *)
(* clearing the package variables never discards a queue in use.            *)
NoQueueDropped ==
  [][\A g \in Gens : tw = g /\ tw' # g => queue[g] = <<>> /\ cur[g] = NoWrite]_tvars

(* Every Stop returns although submissions keep arriving meanwhile.         *)
StopReturns == \A c \in Controllers : cpc[c] = "stopWait" ~> cpc[c] = "idle"

-----------------------------------------------------------------------------
(* The inductive strengthening of the safety properties *)

InQueue(w, g) == \E i \in 1 .. Len(queue[g]) : queue[g][i] = w

(* twMu is held across a step only by the submission that is sending, which *)
(* therefore sends to the current generation before anybody can cancel it.  *)
LockInv ==
  /\ twMu # NoWrite => pc[twMu] = "send"
  /\ \A w \in Writes : pc[w] = "send" =>
       twMu = w /\ tw # 0 /\ gen[w] = tw /\ tw \notin cancelled

(* The life of a generation: only the current one can be alive, it drains   *)
(* only when cancelled, and it has nothing left when it exits.              *)
LifeOK(g) ==
  /\ wpc[g] = "unborn" <=> g > spawned
  /\ wpc[g] = "unborn" => g \notin cancelled
  /\ wpc[g] \in {"drain", "drainApply", "exited"} => g \in cancelled
  /\ wpc[g] \in {"unborn", "exited"} => queue[g] = <<>>
  /\ cur[g] # NoWrite <=> wpc[g] \in {"apply", "drainApply"}
  /\ Alive(g) => tw = g

GenInv == tw <= spawned /\ \A g \in Gens : LifeOK(g)

StopInv ==
  \A c \in Controllers :
    /\ cpc[c] # "idle" => cgen[c] \in 1 .. spawned
    /\ cpc[c] = "stopClear" => Closed(cgen[c])

(* Where a request is: in one place of one queue or in one writer's hand,   *)
(* its caller waiting; and a caller that waits has a request somewhere.     *)
QueuedOK(g, i) ==
  /\ pc[queue[g][i]] = "wait"
  /\ gen[queue[g][i]] = g
  /\ reply[queue[g][i]] = "none"
  /\ cur[g] # queue[g][i]
  /\ \A j \in 1 .. Len(queue[g]) : queue[g][i] = queue[g][j] => i = j

QueuedInv == \A g \in Gens : \A i \in 1 .. Len(queue[g]) : QueuedOK(g, i)

InHandInv ==
  \A g \in Gens : cur[g] # NoWrite =>
    pc[cur[g]] = "wait" /\ gen[cur[g]] = g /\ reply[cur[g]] = "none"

WaitInv ==
  \A w \in Writes : pc[w] = "wait" /\ reply[w] = "none" =>
    gen[w] \in Gens /\ (cur[gen[w]] = w \/ InQueue(w, gen[w]))

(* What has happened to a write, by the control state of its caller.        *)
AnswerInv ==
  \A w \in Writes :
    /\ pc[w] # "returned" => result[w] = "none"
    /\ pc[w] \in {"idle", "inline", "send"} => applied[w] = 0 /\ reply[w] = "none"
    /\ pc[w] = "wait" => applied[w] = IF reply[w] = "none" THEN 0 ELSE 1
    /\ pc[w] = "returned" => result[w] \in ApplyResults \cup {"full"}
    /\ result[w] = "full" => applied[w] = 0
    /\ result[w] \in ApplyResults => applied[w] = 1

IInv ==
  /\ TypeOK /\ LockInv /\ GenInv /\ StopInv
  /\ QueuedInv /\ InHandInv /\ WaitInv /\ AnswerInv

-----------------------------------------------------------------------------
(* TrafficWriter implements WriteService: a queued call is pending until    *)
(* the writer puts the answer into req.done.                                *)
phaseBar == [w \in Writes |->
  CASE pc[w] = "idle" -> "idle"
    [] pc[w] = "returned" -> "returned"
    [] pc[w] = "wait" /\ reply[w] # "none" -> "applied"
    [] OTHER -> "pending"]

answerBar == [w \in Writes |-> IF pc[w] = "wait" THEN reply[w] ELSE result[w]]

Service == INSTANCE WriteService WITH phase <- phaseBar, answer <- answerBar

(* Queue, mutex, timer, cancellation and draining together behave as one    *)
(* atomic effect per call, and every call completes.                        *)
ImplementsWriteService == Service!Spec

=============================================================================
