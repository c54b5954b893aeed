--------------------------------- MODULE Hub ---------------------------------
(***************************************************************************)
(* web/websocket/hub.go and the connection pumps of web/service/websocket.go: *)
(* one hub goroutine fans broadcasts out to the clients it has registered; *)
(* every accepted connection has a read pump, which unregisters when the   *)
(* peer is gone, and a write pump, which empties the client's Send channel *)
(* into the socket.  Registrations and unregistrations share one bounded   *)
(* ordered channel, broadcasts have another, and Send is a third.          *)
(*                                                                         *)
(* A message is the broadcaster that made it: whether it carries the       *)
(* payload or, when that is too large, an invalidate signal is not told    *)
(* apart.  A client's Send channel is the tail of the sequence got of all  *)
(* that was ever put into it, from the read[c] messages already taken.     *)
(***************************************************************************)
EXTENDS Naturals, Sequences

CONSTANTS
  Clients,       \* connections, each accepted at most once
  Broadcasters,  \* calls of Hub.Broadcast, each by a goroutine of its own
  Types,         \* message types
  Throttled,     \* throttledMessageTypes
  OpsCap,        \* hubOpsQueue, 128 in the code
  BroadcastCap,  \* hubBroadcastQueue, 2048 in the code
  SendCap,       \* clientSendQueue, 512 in the code
  Attempts,      \* hubRestartAttempts, 3 in the code
  MaxPanics      \* bound on the panics inside the loop; not in the code

ASSUME HubAssumption ==
  /\ Throttled \subseteq Types
  /\ {OpsCap, BroadcastCap, SendCap, Attempts} \subseteq Nat \ {0}
  /\ MaxPanics \in Nat

VARIABLES
  hub,        \* "run", "fanout", "backoff", "down" (attempts used up), "stopped"
  attempt,    \* completed iterations of the loop in Run
  panics,     \* panics so far (bounds the model)
  ctxDone,    \* h.ctx is cancelled
  clients,    \* h.clients
  ops,        \* h.ops
  broadcast,  \* h.broadcast
  msg,        \* <<m>> while fanout delivers m, else <<>>
  targets,    \* clients fanout has still to try
  dead,       \* clients fanout will evict
  recent,     \* throttled types broadcast less than minBroadcastInterval ago
  sendClosed, \* clients whose Send channel is closed
  got,        \* got[c]: everything ever sent on c.Send
  read,       \* read[c]: how much of it the write pump has taken
  conn,       \* conn[c]: "none", "open", "closed": the socket
  rpc,        \* rpc[c]: handler, then read pump
  wpc,        \* wpc[c]: write pump
  bpc,        \* bpc[b]: control state of a call of Broadcast
  log,        \* every message fanned out, in order (history)
  joined      \* joined[c]: Len(log) when c was registered (history)

hubVars == <<hub, attempt, panics, clients, msg, targets, dead, sendClosed, log, joined>>
connVars == <<conn, rpc, wpc>>
hvars == <<hubVars, connVars, ctxDone, ops, broadcast, recent, got, read, bpc>>

SendLen(c) == Len(got[c]) - read[c]

Init ==
  /\ hub = "run" /\ attempt = 0 /\ panics = 0 /\ ctxDone = FALSE
  /\ clients = {} /\ ops = <<>> /\ broadcast = <<>>
  /\ msg = <<>> /\ targets = {} /\ dead = {} /\ recent = {} /\ sendClosed = {}
  /\ got = [c \in Clients |-> <<>>] /\ read = [c \in Clients |-> 0]
  /\ conn = [c \in Clients |-> "none"]
  /\ rpc = [c \in Clients |-> "none"] /\ wpc = [c \in Clients |-> "none"]
  /\ bpc = [b \in Broadcasters |-> "idle"]
  /\ log = <<>> /\ joined = [c \in Clients |-> 0]

-----------------------------------------------------------------------------
(* The hub goroutine: runOnce.  Its select takes any ready case.            *)

HubOp ==
  /\ hub = "run" /\ ops # <<>>
  /\ LET c == Head(ops).c IN
       \/ /\ Head(ops).kind = "register"
          /\ clients' = clients \cup {c}
          /\ joined' = [joined EXCEPT ![c] = Len(log)]
          /\ UNCHANGED sendClosed
       \/ /\ Head(ops).kind = "unregister"
          /\ clients' = clients \ {c}
          /\ sendClosed' = IF c \in clients THEN sendClosed \cup {c} ELSE sendClosed
          /\ UNCHANGED joined
  /\ ops' = Tail(ops)
  /\ UNCHANGED <<hub, attempt, panics, msg, targets, dead, log, connVars, ctxDone,
                 broadcast, recent, got, read, bpc>>

(* fanout copies the registry under the read lock, then sends without it.   *)
FanoutBegin ==
  /\ hub = "run" /\ broadcast # <<>>
  /\ broadcast' = Tail(broadcast)
  /\ IF clients = {}
       THEN UNCHANGED <<hub, msg, targets, log>>
       ELSE /\ hub' = "fanout"
            /\ msg' = <<Head(broadcast)>>
            /\ targets' = clients
            /\ log' = Append(log, Head(broadcast))
  /\ UNCHANGED <<attempt, panics, clients, dead, sendClosed, joined, connVars, ctxDone,
                 ops, recent, got, read, bpc>>

(* Mutant: a full client just misses the message.                           *)
FanoutSendSkips(c) ==
  /\ hub = "fanout" /\ c \in targets
  /\ targets' = targets \ {c}
  /\ got' = IF SendLen(c) < SendCap THEN [got EXCEPT ![c] = @ \o msg] ELSE got
  /\ UNCHANGED <<hub, attempt, panics, clients, msg, dead, sendClosed, log, joined, connVars,
                 ctxDone, ops, broadcast, recent, read, bpc>>

(* trySend: a full buffer, or a closed channel, condemns the client.        *)
FanoutSend(c) ==
  /\ hub = "fanout" /\ c \in targets
  /\ targets' = targets \ {c}
  /\ IF SendLen(c) < SendCap /\ c \notin sendClosed
       THEN got' = [got EXCEPT ![c] = @ \o msg] /\ UNCHANGED dead
       ELSE dead' = dead \cup {c} /\ UNCHANGED got
  /\ UNCHANGED <<hub, attempt, panics, clients, msg, sendClosed, log, joined, connVars,
                 ctxDone, ops, broadcast, recent, read, bpc>>

(* Mutant: the channel of an evicted client is closed, its entry kept.      *)
FanoutEndKeeps ==
  /\ hub = "fanout" /\ targets = {}
  /\ sendClosed' = sendClosed \cup (dead \cap clients)
  /\ dead' = {} /\ msg' = <<>> /\ hub' = "run"
  /\ UNCHANGED <<attempt, panics, clients, targets, log, joined, connVars, ctxDone, ops, broadcast,
                 recent, got, read, bpc>>

(* Mutant: the early return without dead clients leaves h.mu locked.        *)
FanoutEndLocked ==
  /\ hub = "fanout" /\ targets = {} /\ dead # {}
  /\ sendClosed' = sendClosed \cup (dead \cap clients)
  /\ clients' = clients \ dead
  /\ dead' = {} /\ msg' = <<>> /\ hub' = "run"
  /\ UNCHANGED <<attempt, panics, targets, log, joined, connVars, ctxDone, ops, broadcast,
                 recent, got, read, bpc>>

FanoutEnd ==
  /\ hub = "fanout" /\ targets = {}
  /\ sendClosed' = sendClosed \cup (dead \cap clients)
  /\ clients' = clients \ dead
  /\ dead' = {} /\ msg' = <<>> /\ hub' = "run"
  /\ UNCHANGED <<attempt, panics, targets, log, joined, connVars, ctxDone, ops, broadcast,
                 recent, got, read, bpc>>

(* shutdown, then Run returns.                                              *)
HubShutdown ==
  /\ hub = "run" /\ ctxDone
  /\ sendClosed' = sendClosed \cup clients
  /\ clients' = {}
  /\ hub' = "stopped"
  /\ UNCHANGED <<attempt, panics, msg, targets, dead, log, joined, connVars, ctxDone,
                 ops, broadcast, recent, got, read, bpc>>

(* A panic while an operation or a message is handled: it is consumed and   *)
(* lost, and Run tries again after a pause, Attempts times in all.          *)
HubPanic ==
  /\ hub = "run" /\ panics < MaxPanics
  /\ \/ ops # <<>> /\ ops' = Tail(ops) /\ UNCHANGED broadcast
     \/ broadcast # <<>> /\ broadcast' = Tail(broadcast) /\ UNCHANGED ops
  /\ panics' = panics + 1
  /\ attempt' = attempt + 1
  /\ hub' = IF attempt' < Attempts THEN "backoff" ELSE "down"
  /\ UNCHANGED <<clients, msg, targets, dead, sendClosed, log, joined, connVars, ctxDone,
                 recent, got, read, bpc>>

(* After the pause the loop runs again, unless the context ended first: Run *)
(* then returns without shutdown.                                           *)
HubRetry ==
  /\ hub = "backoff"
  /\ \/ hub' = "run"
     \/ ctxDone /\ hub' = "stopped"
  /\ UNCHANGED <<attempt, panics, clients, msg, targets, dead, sendClosed, log, joined,
                 connVars, ctxDone, ops, broadcast, recent, got, read, bpc>>

HubStep ==
  \/ HubOp \/ FanoutBegin \/ (\E c \in Clients : FanoutSend(c)) \/ FanoutEnd
  \/ HubShutdown \/ HubRetry

Stop ==
  /\ ~ctxDone
  /\ ctxDone' = TRUE
  /\ UNCHANGED <<hubVars, connVars, ops, broadcast, recent, got, read, bpc>>

-----------------------------------------------------------------------------
(* HandleConnection: Register, which has no timeout, then the two pumps.    *)

Accept(c) ==
  /\ rpc[c] = "none"
  /\ conn' = [conn EXCEPT ![c] = "open"]
  /\ rpc' = [rpc EXCEPT ![c] = "registering"]
  /\ UNCHANGED <<hubVars, wpc, ctxDone, ops, broadcast, recent, got, read, bpc>>

StartPumps(c) ==
  /\ rpc' = [rpc EXCEPT ![c] = "reading"]
  /\ wpc' = [wpc EXCEPT ![c] = "writing"]

RegisterSend(c) ==
  /\ rpc[c] = "registering"
  /\ Len(ops) < OpsCap
  /\ ops' = Append(ops, [kind |-> "register", c |-> c])
  /\ StartPumps(c)
  /\ UNCHANGED <<hubVars, conn, ctxDone, broadcast, recent, got, read, bpc>>

RegisterStopped(c) ==
  /\ rpc[c] = "registering"
  /\ ctxDone
  /\ StartPumps(c)
  /\ UNCHANGED <<hubVars, conn, ctxDone, ops, broadcast, recent, got, read, bpc>>

-----------------------------------------------------------------------------
(* readPump: the read fails when the socket is closed on this side, or at   *)
(* any moment because the peer left or missed the pong deadline.            *)

ReadFail(c) ==
  /\ rpc[c] = "reading"
  /\ rpc' = [rpc EXCEPT ![c] = "unregistering"]
  /\ UNCHANGED <<hubVars, conn, wpc, ctxDone, ops, broadcast, recent, got, read, bpc>>

(* Mutant: a direct removal from the registry instead of an ordered request.*)
UnregisterDirect(c) ==
  /\ rpc[c] = "unregistering"
  /\ clients' = clients \ {c}
  /\ sendClosed' = IF c \in clients THEN sendClosed \cup {c} ELSE sendClosed
  /\ rpc' = [rpc EXCEPT ![c] = "left"]
  /\ conn' = [conn EXCEPT ![c] = "closed"]
  /\ UNCHANGED <<hub, attempt, panics, msg, targets, dead, log, joined, wpc, ctxDone, ops,
                 broadcast, recent, got, read, bpc>>

(* Unregister, then conn.Close.  "left" and "gone" remember whether the     *)
(* request was queued or given up, which no later step depends on.          *)
UnregisterSend(c) ==
  /\ rpc[c] = "unregistering"
  /\ Len(ops) < OpsCap
  /\ ops' = Append(ops, [kind |-> "unregister", c |-> c])
  /\ rpc' = [rpc EXCEPT ![c] = "left"]
  /\ conn' = [conn EXCEPT ![c] = "closed"]
  /\ UNCHANGED <<hubVars, wpc, ctxDone, broadcast, recent, got, read, bpc>>

(* Mutant: the read pump returns without closing the socket.                *)
UnregisterDropOpen(c) ==
  /\ rpc[c] = "unregistering"
  /\ rpc' = [rpc EXCEPT ![c] = "gone"]
  /\ UNCHANGED <<hubVars, conn, wpc, ctxDone, ops, broadcast, recent, got, read, bpc>>

(* The context is done, or enqueueTimeout is over: as a rule the channel is *)
(* full then, but a caller descheduled before the select can find both      *)
(* cases ready.                                                             *)
UnregisterDrop(c) ==
  /\ rpc[c] = "unregistering"
  /\ rpc' = [rpc EXCEPT ![c] = "gone"]
  /\ conn' = [conn EXCEPT ![c] = "closed"]
  /\ UNCHANGED <<hubVars, wpc, ctxDone, ops, broadcast, recent, got, read, bpc>>

-----------------------------------------------------------------------------
(* writePump *)

PumpEnds(c) ==
  /\ wpc' = [wpc EXCEPT ![c] = "done"]
  /\ conn' = [conn EXCEPT ![c] = "closed"]

(* A message is taken and written; the write fails on a closed socket and   *)
(* may fail on an open one (write deadline, broken connection).             *)
PumpMessage(c) ==
  /\ wpc[c] = "writing" /\ SendLen(c) > 0
  /\ read' = [read EXCEPT ![c] = @ + 1]
  /\ \/ conn[c] = "open" /\ UNCHANGED <<wpc, conn>>
     \/ PumpEnds(c)
  /\ UNCHANGED <<hubVars, rpc, ctxDone, ops, broadcast, recent, got, bpc>>

(* Mutant: the write pump returns without closing the socket.               *)
PumpClosedOpen(c) ==
  /\ wpc[c] = "writing" /\ SendLen(c) = 0 /\ c \in sendClosed
  /\ wpc' = [wpc EXCEPT ![c] = "done"]
  /\ UNCHANGED <<hubVars, conn, rpc, ctxDone, ops, broadcast, recent, got, read, bpc>>

(* Send is closed and empty: a close frame, and the pump returns.           *)
PumpClosed(c) ==
  /\ wpc[c] = "writing" /\ SendLen(c) = 0 /\ c \in sendClosed
  /\ PumpEnds(c)
  /\ UNCHANGED <<hubVars, rpc, ctxDone, ops, broadcast, recent, got, read, bpc>>

(* The periodic ping fails, certainly once the socket is closed.            *)
PumpPingFails(c) ==
  /\ wpc[c] = "writing"
  /\ PumpEnds(c)
  /\ UNCHANGED <<hubVars, rpc, ctxDone, ops, broadcast, recent, got, read, bpc>>

-----------------------------------------------------------------------------
(* Broadcast.  The throttle is charged before the message is marshalled and *)
(* queued, so a message that then fails or times out has used the interval. *)

BroadcastCheck(b) ==
  /\ bpc[b] = "idle"
  /\ \E t \in Types :
       IF clients = {} \/ t \in recent
         THEN bpc' = [bpc EXCEPT ![b] = "dropped"] /\ UNCHANGED recent
         ELSE /\ recent' = IF t \in Throttled THEN recent \cup {t} ELSE recent
              /\ \E next \in {"enqueue", "dropped"} : bpc' = [bpc EXCEPT ![b] = next]
  /\ UNCHANGED <<hubVars, connVars, ctxDone, ops, broadcast, got, read>>

EnqueueSend(b) ==
  /\ bpc[b] = "enqueue"
  /\ Len(broadcast) < BroadcastCap
  /\ broadcast' = Append(broadcast, b)
  /\ bpc' = [bpc EXCEPT ![b] = "queued"]
  /\ UNCHANGED <<hubVars, connVars, ctxDone, ops, recent, got, read>>

(* Mutant: no timeout on the broadcast channel.                             *)
EnqueueDropStopped(b) ==
  /\ bpc[b] = "enqueue"
  /\ ctxDone
  /\ bpc' = [bpc EXCEPT ![b] = "dropped"]
  /\ UNCHANGED <<hubVars, connVars, ctxDone, ops, broadcast, recent, got, read>>

(* As for UnregisterDrop.                                                   *)
EnqueueDrop(b) ==
  /\ bpc[b] = "enqueue"
  /\ bpc' = [bpc EXCEPT ![b] = "dropped"]
  /\ UNCHANGED <<hubVars, connVars, ctxDone, ops, broadcast, recent, got, read>>

(* minBroadcastInterval passes for one type.                                *)
IntervalEnds ==
  /\ \E t \in recent : recent' = recent \ {t}
  /\ UNCHANGED <<hubVars, connVars, ctxDone, ops, broadcast, got, read, bpc>>

-----------------------------------------------------------------------------
Handler(c) == RegisterSend(c) \/ RegisterStopped(c)
Reader(c) == UnregisterSend(c) \/ UnregisterDrop(c)
Pump(c) == PumpMessage(c) \/ PumpClosed(c) \/ PumpPingFails(c)
Caller(b) == EnqueueSend(b) \/ EnqueueDrop(b)

Next ==
  \/ HubStep \/ HubPanic \/ Stop \/ IntervalEnds
  \/ \E c \in Clients : Accept(c) \/ Handler(c) \/ ReadFail(c) \/ Reader(c) \/ Pump(c)
  \/ \E b \in Broadcasters : BroadcastCheck(b) \/ Caller(b)

Spec == Init /\ [][Next]_hvars

(* What must run: the hub goroutine, callers blocked on a channel (Go wakes *)
(* the longest waiting sender, hence strong fairness), the timers, the pump *)
(* of a channel with messages or a close to deliver, and, once the socket   *)
(* is closed, the failing read and the failing ping.  No peer has to leave, *)
(* nobody has to broadcast, and Stop need not be called.                    *)
Fairness ==
  /\ WF_hvars(HubStep)
  /\ \A c \in Clients :
       /\ SF_hvars(Handler(c))
       /\ SF_hvars(Reader(c))
       /\ WF_hvars(PumpMessage(c) \/ PumpClosed(c))
       /\ WF_hvars(conn[c] = "closed" /\ ReadFail(c))
       /\ WF_hvars(conn[c] = "closed" /\ PumpPingFails(c))
  /\ \A b \in Broadcasters : SF_hvars(Caller(b))

FairSpec == Spec /\ Fairness

-----------------------------------------------------------------------------
(* Properties *)

ClientOps == [kind : {"register", "unregister"}, c : Clients]

TypeOK ==
  /\ hub \in {"run", "fanout", "backoff", "down", "stopped"}
  /\ attempt \in 0 .. Attempts /\ panics \in 0 .. MaxPanics
  /\ ctxDone \in BOOLEAN
  /\ clients \subseteq Clients /\ targets \subseteq Clients /\ dead \subseteq Clients
  /\ sendClosed \subseteq Clients
  /\ ops \in Seq(ClientOps) /\ Len(ops) <= OpsCap
  /\ broadcast \in Seq(Broadcasters) /\ Len(broadcast) <= BroadcastCap
  /\ msg \in Seq(Broadcasters) /\ Len(msg) = IF hub = "fanout" THEN 1 ELSE 0
  /\ recent \subseteq Throttled
  /\ got \in [Clients -> Seq(Broadcasters)]
  /\ read \in [Clients -> Nat]
  /\ \A c \in Clients : read[c] <= Len(got[c]) /\ SendLen(c) <= SendCap
  /\ conn \in [Clients -> {"none", "open", "closed"}]
  /\ rpc \in [Clients -> {"none", "registering", "reading", "unregistering", "left", "gone"}]
  /\ wpc \in [Clients -> {"none", "writing", "done"}]
  /\ bpc \in [Broadcasters -> {"idle", "enqueue", "queued", "dropped"}]
  /\ log \in Seq(Broadcasters)
  /\ joined \in [Clients -> Nat]

(* trySend never meets a closed channel and close is never called twice:    *)
(* the recover in trySend and closeOnce guard against what the hub's own    *)
(* ordering of registry and channel already excludes.                       *)
NoSendOnClosed == (clients \cup targets) \cap sendClosed = {}

(* A client that stays registered has been sent every message fanned out    *)
(* since it joined, in order and once; one that falls behind is cut off, it *)
(* never skips a message and goes on.                                       *)
Since(c) == SubSeq(log, joined[c] + 1, Len(log))
IsPrefixOf(s, t) == Len(s) <= Len(t) /\ s = SubSeq(t, 1, Len(s))
NoSilentGap ==
  \A c \in Clients :
    /\ got[c] # <<>> => IsPrefixOf(got[c], Since(c))
    /\ c \in clients \ (targets \cup dead) => got[c] = Since(c)

(* Register and Unregister of a connection share one ordered channel, so    *)
(* once both are processed the client is out of the registry for good: an   *)
(* unregistration never overtakes the registration it undoes.               *)
NoLeakedClient ==
  \A c \in Clients :
    rpc[c] = "left" /\ (\A i \in 1 .. Len(ops) : ops[i].c # c) => c \notin clients

(* Closing Send, for whatever reason, ends the connection: the write pump   *)
(* drains and closes the socket, the read pump fails and leaves.  A Stop    *)
(* brings that about for every client in the registry.                      *)
ClosedConnectionEnds ==
  \A c \in Clients :
    (c \in sendClosed \/ (ctxDone /\ c \in clients)) ~>
      (wpc[c] = "done" /\ rpc[c] \in {"left", "gone"})

(* A connection whose read pump gave up is released by its write pump too,  *)
(* although nobody closes its Send channel when the unregistration is lost. *)
DisconnectReleases ==
  \A c \in Clients : rpc[c] \in {"left", "gone"} ~> wpc[c] = "done"

(* Register has no timeout: with a live hub every handshake still completes.*)
RegisterCompletes ==
  \A c \in Clients : rpc[c] = "registering" ~> rpc[c] # "registering"

(* Broadcast returns whatever state the hub is in, crashed or stopped.      *)
BroadcastReturns ==
  \A b \in Broadcasters : bpc[b] = "enqueue" ~> bpc[b] # "enqueue"

=============================================================================
