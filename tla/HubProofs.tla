------------------------------ MODULE HubProofs ------------------------------
(***************************************************************************)
(* Proofs about Hub for any connections, broadcasters and message types,   *)
(* any capacities, attempts and panics.  IInv is inductive; the safety     *)
(* properties follow.                                                      *)
(***************************************************************************)
EXTENDS Hub, TLAPS, SequenceTheorems

(* Between two fan-outs nothing is left over from the last; during one the  *)
(* hub alone owns the registry, so whom it still tries or condemned is in.  *)
(* A loop that runs, or is about to, has an attempt left.                   *)
PhaseInv ==
  /\ hub \in {"run", "fanout", "backoff"} => attempt < Attempts
  /\ hub # "fanout" => targets = {} /\ dead = {} /\ msg = <<>>
  /\ hub = "fanout" => /\ targets \cup dead \subseteq clients /\ targets \cap dead = {}
                       /\ log # <<>> /\ msg = <<log[Len(log)]>>

(* Whoever has not yet asked to be registered has left no trace.            *)
Fresh(c) == c \notin clients \cup sendClosed /\ got[c] = <<>> /\ read[c] = 0

(* What is queued for a connection: one registration that nothing has       *)
(* preceded, and behind it one unregistration, the last of its requests.    *)
OpsInv ==
  \A c \in Clients : \A i \in 1 .. Len(ops) : ops[i].c = c =>
    /\ rpc[c] \notin {"none", "registering"}
    /\ ops[i].kind = "register" => /\ Fresh(c)
                                   /\ \A j \in 1 .. Len(ops) : j < i => ops[j].c # c
    /\ ops[i].kind = "unregister" => /\ rpc[c] = "left"
                                     /\ \A j \in 1 .. Len(ops) : i < j => ops[j].c # c

ClosedInv == clients \cap sendClosed = {}

NewInv == \A c \in Clients : rpc[c] \in {"none", "registering"} => Fresh(c)

(* Message k of a client is the k-th fanned out since it joined, and only   *)
(* those the current fan-out has still to reach are one behind.             *)
Behind(c) == IF c \in targets THEN 1 ELSE 0
FeedInv ==
  \A c \in Clients :
    /\ joined[c] + Len(got[c]) <= Len(log)
    /\ \A k \in 1 .. Len(got[c]) : got[c][k] = log[joined[c] + k]
    /\ c \in clients \ dead => joined[c] + Len(got[c]) + Behind(c) = Len(log)

(* As long as no panic swallowed a request, a connection that asked to      *)
(* leave is out, or its request is still queued.                            *)
LeaveInv ==
  panics = 0 =>
    \A c \in Clients :
      rpc[c] = "left" =>
        \/ c \notin clients /\ \A i \in 1 .. Len(ops) : ops[i].c # c
        \/ \E i \in 1 .. Len(ops) : ops[i].kind = "unregister" /\ ops[i].c = c

IInv == TypeOK /\ PhaseInv /\ OpsInv /\ ClosedInv /\ NewInv /\ FeedInv /\ LeaveInv

-----------------------------------------------------------------------------
(* At the start nobody is registered and nothing is queued.                 *)
LEMMA InitInv == Init => IInv
<1> SUFFICES ASSUME Init PROVE IInv
  OBVIOUS
<1> USE HubAssumption
<1>1. TypeOK
  <2>1. /\ attempt \in 0 .. Attempts /\ panics \in 0 .. MaxPanics
        /\ Len(ops) <= OpsCap /\ Len(broadcast) <= BroadcastCap
        /\ \A c \in Clients : read[c] <= Len(got[c]) /\ SendLen(c) <= SendCap
    BY DEF Init, SendLen
  <2>2. /\ ops \in Seq(ClientOps) /\ broadcast \in Seq(Broadcasters) /\ log \in Seq(Broadcasters)
        /\ msg \in Seq(Broadcasters) /\ Len(msg) = IF hub = "fanout" THEN 1 ELSE 0
        /\ got \in [Clients -> Seq(Broadcasters)]
    BY DEF Init
  <2> QED BY <2>1, <2>2 DEF Init, TypeOK
<1>2. PhaseInv /\ OpsInv /\ ClosedInv /\ NewInv
  BY DEF Init, PhaseInv, OpsInv, ClosedInv, NewInv, Fresh
<1>3. FeedInv /\ LeaveInv
  BY DEF Init, FeedInv, LeaveInv, Behind
<1> QED BY <1>1, <1>2, <1>3 DEF IInv

(* What the first request, or the first message, of a queue leaves behind.  *)
LEMMA TailIs ==
  ASSUME NEW S, NEW q \in Seq(S), q # << >>
  PROVE  /\ Head(q) = q[1] /\ q[1] \in S /\ Len(q) \in Nat \ {0}
         /\ Tail(q) \in Seq(S) /\ Len(Tail(q)) = Len(q) - 1
         /\ \A i \in 1 .. Len(q) - 1 : Tail(q)[i] = q[i + 1]
OBVIOUS

(* A step outside the registry, the requests and the feeds keeps all but    *)
(* the types.                                                               *)
LEMMA QuietInv ==
  ASSUME IInv, UNCHANGED <<hubVars, rpc, ops, got, read>>
  PROVE  PhaseInv' /\ OpsInv' /\ ClosedInv' /\ NewInv' /\ FeedInv' /\ LeaveInv'
BY DEF IInv, hubVars, PhaseInv, OpsInv, ClosedInv, NewInv, FeedInv, LeaveInv, Fresh, Behind

(* Once the first request is taken the others are queued as before.         *)
LEMMA OpsTail ==
  ASSUME TypeOK, OpsInv, ops # << >>, ops' = Tail(ops), rpc' = rpc,
         \A d \in Clients : Fresh(d) /\ d # ops[1].c => Fresh(d)'
  PROVE  OpsInv'
<1> SUFFICES ASSUME NEW d \in Clients, NEW i \in 1 .. Len(ops'), ops'[i].c = d
             PROVE  /\ rpc[d] \notin {"none", "registering"}
                    /\ ops'[i].kind = "register" => /\ Fresh(d)'
                                                    /\ \A j \in 1 .. Len(ops') : j < i => ops'[j].c # d
                    /\ ops'[i].kind = "unregister" => /\ rpc[d] = "left"
                                                      /\ \A j \in 1 .. Len(ops') : i < j => ops'[j].c # d
  BY DEF OpsInv
<1>1. /\ Len(ops) \in Nat \ {0} /\ Len(ops') = Len(ops) - 1
      /\ \A j \in 1 .. Len(ops) - 1 : ops'[j] = ops[j + 1]
  BY TailIs DEF TypeOK
<1>2. /\ i + 1 \in 1 .. Len(ops) /\ 1 \in 1 .. Len(ops) /\ 1 < i + 1
      /\ ops[i + 1].c = d /\ ops'[i] = ops[i + 1]
  BY <1>1
<1>3. /\ rpc[d] \notin {"none", "registering"}
      /\ ops[i + 1].kind = "register" => /\ Fresh(d)
                                         /\ \A j \in 1 .. Len(ops) : j < i + 1 => ops[j].c # d
      /\ ops[i + 1].kind = "unregister" => /\ rpc[d] = "left"
                                           /\ \A j \in 1 .. Len(ops) : i + 1 < j => ops[j].c # d
  BY <1>2 DEF OpsInv
<1>4. ASSUME NEW j \in 1 .. Len(ops')
      PROVE  /\ j + 1 \in 1 .. Len(ops) /\ ops'[j] = ops[j + 1]
             /\ (j < i <=> j + 1 < i + 1) /\ (i < j <=> i + 1 < j + 1)
  BY <1>1
<1> QED BY <1>2, <1>3, <1>4

(* A connection moves on without a request or a message.                    *)
LEMMA RpcStep ==
  ASSUME IInv, NEW c \in Clients, NEW next \in {"registering", "reading", "unregistering", "gone"},
         rpc[c] # "left", next = "registering" => rpc[c] = "none",
         rpc' = [rpc EXCEPT ![c] = next], UNCHANGED <<hubVars, ops, got, read>>
  PROVE  PhaseInv' /\ OpsInv' /\ ClosedInv' /\ NewInv' /\ FeedInv' /\ LeaveInv'
<1>1. PhaseInv' /\ ClosedInv' /\ FeedInv'
  BY DEF IInv, PhaseInv, ClosedInv, FeedInv, Behind, hubVars
<1>2. rpc'[c] = next /\ \A d \in Clients : d # c => rpc'[d] = rpc[d]
  BY DEF IInv, TypeOK
<1>3. \A d \in Clients : Fresh(d)' = Fresh(d)
  BY DEF Fresh, hubVars
<1>4. NewInv'
  BY <1>2, <1>3 DEF IInv, NewInv
<1>5. LeaveInv'
  BY <1>2 DEF IInv, LeaveInv, hubVars
<1>6. OpsInv'
  <2>1. ASSUME NEW d \in Clients, NEW i \in 1 .. Len(ops), ops[i].c = d
        PROVE  rpc'[d] \notin {"none", "registering"} /\ (ops[i].kind = "unregister" => rpc'[d] = "left")
    BY <1>2, <2>1 DEF IInv, OpsInv
  <2> QED BY <1>3, <2>1 DEF IInv, OpsInv
<1> QED BY <1>1, <1>4, <1>5, <1>6

(* Every step of the hub, a connection or a broadcaster preserves IInv.     *)
LEMMA StepInv == IInv /\ [Next]_hvars => IInv'
<1> SUFFICES ASSUME IInv, [Next]_hvars PROVE IInv'
  OBVIOUS
<1> USE HubAssumption
<1>a. TypeOK /\ PhaseInv /\ OpsInv /\ ClosedInv /\ NewInv /\ FeedInv /\ LeaveInv
  BY DEF IInv
<1>b. /\ {OpsCap, BroadcastCap, SendCap, Attempts, MaxPanics} \subseteq Nat /\ 1 <= OpsCap /\ 1 <= BroadcastCap
      /\ \A c \in Clients : Len(got[c]) \in Nat /\ joined[c] \in Nat /\ read[c] \in Nat
  BY <1>a DEF TypeOK
<1>1. ASSUME HubOp PROVE IInv'
  <2>0. /\ Head(ops) = ops[1] /\ ops[1] \in ClientOps /\ Len(ops) \in Nat \ {0}
        /\ Tail(ops) \in Seq(ClientOps) /\ Len(Tail(ops)) = Len(ops) - 1
        /\ \A i \in 1 .. Len(ops) - 1 : Tail(ops)[i] = ops[i + 1]
    BY <1>1, <1>a, TailIs DEF HubOp, TypeOK
  <2>1. PICK c \in Clients : c = ops[1].c
    BY <2>0 DEF ClientOps
  <2>2. /\ hub = "run" /\ hub' = "run" /\ ops' = Tail(ops)
        /\ UNCHANGED <<attempt, panics, msg, targets, dead, log, connVars, ctxDone, broadcast, recent, got, read, bpc>>
    BY <1>1 DEF HubOp
  <2>3. \/ /\ ops[1].kind = "register" /\ clients' = clients \cup {c} /\ sendClosed' = sendClosed
           /\ joined' = [joined EXCEPT ![c] = Len(log)] /\ Fresh(c)
        \/ /\ ops[1].kind = "unregister" /\ clients' = clients \ {c} /\ joined' = joined
           /\ sendClosed' = IF c \in clients THEN sendClosed \cup {c} ELSE sendClosed
    BY <1>1, <1>a, <2>0, <2>1 DEF HubOp, OpsInv
  <2>4. \A i \in 1 .. Len(ops') : ops'[i] = ops[i + 1] /\ i + 1 \in 1 .. Len(ops)
    BY <2>0, <2>2
  <2>5. TypeOK'
    <3>1. clients' \subseteq Clients /\ sendClosed' \subseteq Clients /\ joined' \in [Clients -> Nat]
      <4>1. Len(log) \in Nat
        BY <1>a DEF TypeOK
      <4>2. clients' \subseteq Clients /\ sendClosed' \subseteq Clients
        BY <1>a, <2>1, <2>3 DEF TypeOK
      <4>3. joined' \in [Clients -> Nat]
        BY <1>a, <2>3, <4>1 DEF TypeOK
      <4> QED BY <4>2, <4>3
    <3>2. ops' \in Seq(ClientOps) /\ Len(ops') <= OpsCap
      BY <1>a, <1>b, <2>0, <2>2 DEF TypeOK
    <3> QED BY <1>a, <2>2, <3>1, <3>2 DEF TypeOK, connVars, SendLen
  <2>6. PhaseInv' /\ ClosedInv' /\ NewInv'
    <3>1. rpc[c] \notin {"none", "registering"}
      BY <1>a, <2>0, <2>1 DEF OpsInv
    <3> QED BY <1>a, <2>1, <2>2, <2>3, <3>1 DEF PhaseInv, ClosedInv, NewInv, Fresh, connVars
  <2>7. OpsInv'
    <3>1. \A d \in Clients : Fresh(d) /\ d # ops[1].c => Fresh(d)'
      BY <2>1, <2>2, <2>3 DEF Fresh
    <3> QED BY <1>a, <1>1, <2>2, <3>1, OpsTail DEF HubOp, connVars
  <2>8. FeedInv'
    <3>1. targets = {} /\ dead = {} /\ Len(log) \in Nat
      BY <1>a, <2>2 DEF TypeOK, PhaseInv
    <3>2. ASSUME NEW d \in Clients
          PROVE  \/ joined'[d] = joined[d] /\ (d \in clients' => d \in clients)
                 \/ joined'[d] = Len(log) /\ got[d] = << >>
      <4>1. CASE clients' = clients \ {c} /\ joined' = joined
        BY <4>1
      <4>2. CASE clients' = clients \cup {c} /\ joined' = [joined EXCEPT ![c] = Len(log)] /\ Fresh(c)
        <5>1. joined'[c] = Len(log) /\ \A e \in Clients \ {c} : joined'[e] = joined[e]
          BY <1>a, <4>2 DEF TypeOK
        <5> QED BY <4>2, <5>1 DEF Fresh
      <4> QED BY <2>3, <4>1, <4>2
    <3>3. ASSUME NEW d \in Clients
          PROVE  /\ joined'[d] + Len(got[d]) <= Len(log)
                 /\ \A k \in 1 .. Len(got[d]) : got[d][k] = log[joined'[d] + k]
                 /\ d \in clients' => joined'[d] + Len(got[d]) = Len(log)
      <4>1. CASE joined'[d] = joined[d] /\ (d \in clients' => d \in clients)
        <5>1. /\ joined[d] + Len(got[d]) <= Len(log)
              /\ \A k \in 1 .. Len(got[d]) : got[d][k] = log[joined[d] + k]
          BY <1>a DEF FeedInv
        <5>2. d \in clients => joined[d] + Len(got[d]) = Len(log)
          BY <1>a, <1>b, <3>1 DEF FeedInv, Behind
        <5> QED BY <4>1, <5>1, <5>2
      <4>2. CASE joined'[d] = Len(log) /\ got[d] = << >>
        BY <3>1, <4>2
      <4> QED BY <3>2, <4>1, <4>2
    <3> QED BY <2>2, <3>1, <3>3 DEF FeedInv, Behind
  <2>9. LeaveInv'
    <3> SUFFICES ASSUME panics = 0, NEW d \in Clients, rpc[d] = "left"
                 PROVE  \/ d \notin clients' /\ \A i \in 1 .. Len(ops') : ops'[i].c # d
                        \/ \E i \in 1 .. Len(ops') : ops'[i].kind = "unregister" /\ ops'[i].c = d
      BY <2>2 DEF LeaveInv, connVars
    <3>1. 1 \in 1 .. Len(ops) /\ ops[1].c = c /\ (ops[1].kind = "register" \/ ops[1].kind = "unregister")
      BY <2>0, <2>1 DEF ClientOps
    <3>2. CASE d \notin clients /\ \A i \in 1 .. Len(ops) : ops[i].c # d
      BY <2>3, <2>4, <3>1, <3>2
    <3>3. CASE \E i \in 1 .. Len(ops) : ops[i].kind = "unregister" /\ ops[i].c = d
      <4>1. PICK i \in 1 .. Len(ops) : ops[i].kind = "unregister" /\ ops[i].c = d
        BY <3>3
      <4>2. CASE i = 1
        <5>1. d = c /\ d \notin clients'
          BY <2>3, <3>1, <4>1, <4>2
        <5>2. \A j \in 1 .. Len(ops') : ops'[j].c # d
          BY <1>a, <2>0, <2>2, <2>4, <4>1, <4>2 DEF OpsInv
        <5> QED BY <5>1, <5>2
      <4>3. CASE i # 1
        <5>1. i - 1 \in 1 .. Len(ops') /\ ops'[i - 1] = ops[i]
          BY <2>0, <2>2, <4>3
        <5> QED BY <4>1, <5>1
      <4> QED BY <4>2, <4>3
    <3> QED BY <1>a, <3>2, <3>3 DEF LeaveInv
  <2> QED BY <2>0, <2>1, <2>2, <2>3, <2>4, <2>5, <2>6, <2>7, <2>8, <2>9 DEF IInv
<1>2. ASSUME FanoutBegin PROVE IInv'
  <2>0. /\ Head(broadcast) \in Broadcasters /\ Tail(broadcast) \in Seq(Broadcasters)
        /\ Len(Tail(broadcast)) = Len(broadcast) - 1 /\ Len(broadcast) \in Nat
    BY <1>2, <1>a, TailIs DEF FanoutBegin, TypeOK
  <2>1. /\ hub = "run" /\ targets = {} /\ dead = {} /\ msg = << >> /\ Len(log) \in Nat
        /\ UNCHANGED <<attempt, panics, clients, dead, sendClosed, joined, connVars, ctxDone, ops, recent, got, read, bpc>>
    BY <1>2, <1>a DEF FanoutBegin, PhaseInv, TypeOK
  <2>2. broadcast' \in Seq(Broadcasters) /\ Len(broadcast') <= BroadcastCap
    BY <1>2, <1>a, <1>b, <2>0 DEF FanoutBegin, TypeOK
  <2>3. CASE clients = {}
    <3>1. UNCHANGED <<hub, msg, targets, log>>
      BY <1>2, <2>3 DEF FanoutBegin
    <3>2. TypeOK'
      BY <1>a, <2>1, <2>2, <3>1 DEF TypeOK, connVars, SendLen
    <3> QED BY <2>1, <3>1, <3>2, QuietInv DEF IInv, hubVars, connVars
  <2>4. CASE clients # {}
    <3>1. /\ hub' = "fanout" /\ msg' = <<Head(broadcast)>> /\ targets' = clients
          /\ log' = Append(log, Head(broadcast))
      BY <1>2, <2>4 DEF FanoutBegin
    <3>2. /\ log' \in Seq(Broadcasters) /\ Len(log') = Len(log) + 1 /\ log'[Len(log')] = Head(broadcast)
          /\ \A k \in 1 .. Len(log) : log'[k] = log[k]
      BY <1>a, <2>0, <3>1 DEF TypeOK
    <3>3. TypeOK'
      BY <1>a, <2>0, <2>1, <2>2, <3>1, <3>2 DEF TypeOK, connVars, SendLen
    <3>4. PhaseInv'
      BY <1>a, <2>1, <3>1, <3>2 DEF PhaseInv
    <3>5. OpsInv' /\ ClosedInv' /\ NewInv' /\ LeaveInv'
      BY <1>a, <2>1 DEF OpsInv, ClosedInv, NewInv, LeaveInv, Fresh, connVars
    <3>6. FeedInv'
      <4> SUFFICES ASSUME NEW c \in Clients
                   PROVE  /\ joined[c] + Len(got[c]) <= Len(log')
                          /\ \A k \in 1 .. Len(got[c]) : got[c][k] = log'[joined[c] + k]
                          /\ c \in clients => joined[c] + Len(got[c]) + 1 = Len(log')
        BY <2>1, <3>1 DEF FeedInv, Behind
      <4>1. /\ joined[c] + Len(got[c]) <= Len(log)
            /\ \A k \in 1 .. Len(got[c]) : got[c][k] = log[joined[c] + k]
            /\ c \in clients => joined[c] + Len(got[c]) = Len(log)
        BY <1>a, <1>b, <2>1 DEF FeedInv, Behind
      <4>2. \A k \in 1 .. Len(got[c]) : joined[c] + k \in 1 .. Len(log)
        BY <1>b, <2>1, <4>1
      <4>3. \A k \in 1 .. Len(got[c]) : got[c][k] = log'[joined[c] + k]
        BY <3>2, <4>1, <4>2
      <4>4. Len(log') = Len(log) + 1 /\ Len(log) \in Nat /\ Len(got[c]) \in Nat /\ joined[c] \in Nat
        BY <1>b, <2>1, <3>2
      <4> QED BY <4>1, <4>3, <4>4
    <3> QED BY <3>3, <3>4, <3>5, <3>6 DEF IInv
  <2> QED BY <2>3, <2>4
<1>3. ASSUME NEW c \in Clients, FanoutSend(c) PROVE IInv'
  <2>0. /\ hub = "fanout" /\ c \in targets /\ c \in clients /\ c \notin sendClosed
        /\ targets' = targets \ {c} /\ msg \in Seq(Broadcasters) /\ msg = <<log[Len(log)]>> /\ Len(log) \in Nat \ {0}
        /\ UNCHANGED <<hub, attempt, panics, clients, msg, sendClosed, log, joined, connVars, ctxDone, ops, broadcast, recent, read, bpc>>
    BY <1>3, <1>a DEF FanoutSend, PhaseInv, ClosedInv, TypeOK
  <2>1. CASE SendLen(c) < SendCap
    <3>1. got' = [got EXCEPT ![c] = @ \o msg] /\ dead' = dead
      BY <1>3, <2>0, <2>1 DEF FanoutSend
    <3>2. /\ got'[c] \in Seq(Broadcasters) /\ Len(got'[c]) = Len(got[c]) + 1
          /\ got'[c][Len(got[c]) + 1] = log[Len(log)]
          /\ \A k \in 1 .. Len(got[c]) : got'[c][k] = got[c][k]
      BY <1>a, <2>0, <3>1 DEF TypeOK
    <3>3. \A d \in Clients \ {c} : got'[d] = got[d]
      BY <1>a, <3>1 DEF TypeOK
    <3>4. TypeOK'
      <4>1. got' \in [Clients -> Seq(Broadcasters)]
        BY <1>a, <3>1, <3>2 DEF TypeOK
      <4>2. \A d \in Clients : read'[d] <= Len(got'[d]) /\ SendLen(d)' <= SendCap
        <5>1. ASSUME NEW d \in Clients PROVE read[d] <= Len(got'[d]) /\ Len(got'[d]) - read[d] <= SendCap
          <6>1. read[d] <= Len(got[d]) /\ Len(got[d]) - read[d] <= SendCap
            BY <1>a DEF TypeOK, SendLen
          <6>2. CASE d = c
            BY <1>b, <2>1, <3>2, <6>1, <6>2 DEF SendLen
          <6> QED BY <3>3, <6>1, <6>2
        <5> QED BY <2>0, <5>1 DEF SendLen
      <4> QED BY <1>a, <2>0, <3>1, <4>1, <4>2 DEF TypeOK, connVars
    <3>5. PhaseInv' /\ ClosedInv' /\ LeaveInv'
      BY <1>a, <2>0, <3>1 DEF PhaseInv, ClosedInv, LeaveInv, connVars
    <3>6. OpsInv' /\ NewInv'
      <4>1. \A d \in Clients : Fresh(d) => Fresh(d)'
        BY <2>0, <3>3 DEF Fresh
      <4> QED BY <1>a, <2>0, <4>1 DEF OpsInv, NewInv, connVars
    <3>7. FeedInv'
      <4>1. ASSUME NEW d \in Clients
            PROVE  /\ joined[d] + Len(got'[d]) <= Len(log)
                   /\ \A k \in 1 .. Len(got'[d]) : got'[d][k] = log[joined[d] + k]
                   /\ d \in clients \ dead => joined[d] + Len(got'[d]) + (IF d \in targets' THEN 1 ELSE 0) = Len(log)
        <5>1. CASE d # c
          BY <1>a, <2>0, <3>3, <5>1 DEF FeedInv, Behind
        <5>2. CASE d = c
          <6>1. joined[c] + Len(got[c]) + 1 = Len(log)
            BY <1>a, <2>0 DEF FeedInv, Behind, PhaseInv
          <6>2. \A k \in 1 .. Len(got[c]) : got[c][k] = log[joined[c] + k]
            BY <1>a DEF FeedInv
          <6>3. ASSUME NEW k \in 1 .. Len(got'[c]) PROVE got'[c][k] = log[joined[c] + k]
            <7>1. k \in 1 .. Len(got[c]) \/ k = Len(got[c]) + 1
              BY <1>b, <3>2
            <7>2. CASE k \in 1 .. Len(got[c])
              BY <3>2, <6>2, <7>2
            <7>3. CASE k = Len(got[c]) + 1
              <8>1. joined[c] + k = Len(log)
                BY <1>b, <6>1, <7>3
              <8> QED BY <3>2, <7>3, <8>1
            <7> QED BY <7>1, <7>2, <7>3
          <6>4. joined[c] + Len(got'[c]) = Len(log) /\ c \notin targets'
            BY <1>b, <2>0, <3>2, <6>1
          <6> QED BY <1>b, <2>0, <5>2, <6>3, <6>4
        <5> QED BY <5>1, <5>2
      <4> QED BY <2>0, <3>1, <4>1 DEF FeedInv, Behind
    <3> QED BY <3>4, <3>5, <3>6, <3>7 DEF IInv
  <2>2. CASE ~(SendLen(c) < SendCap)
    <3>1. got' = got /\ dead' = dead \cup {c}
      BY <1>3, <2>0, <2>2 DEF FanoutSend
    <3>2. TypeOK'
      BY <1>a, <2>0, <3>1 DEF TypeOK, connVars, SendLen
    <3>3. PhaseInv' /\ ClosedInv' /\ LeaveInv' /\ OpsInv' /\ NewInv'
      BY <1>a, <2>0, <3>1 DEF PhaseInv, ClosedInv, LeaveInv, OpsInv, NewInv, Fresh, connVars
    <3>4. FeedInv'
      BY <1>a, <2>0, <3>1 DEF FeedInv, Behind
    <3> QED BY <3>2, <3>3, <3>4 DEF IInv
  <2> QED BY <2>1, <2>2
<1>4. ASSUME FanoutEnd PROVE IInv'
  <2>1. TypeOK'
    <3>1. msg' \in Seq(Broadcasters) /\ Len(msg') = 0 /\ hub' = "run" /\ dead' \subseteq Clients
      BY <1>4 DEF FanoutEnd
    <3>2. clients' \subseteq Clients /\ sendClosed' \subseteq Clients
      BY <1>4, <1>a DEF FanoutEnd, TypeOK
    <3> QED BY <1>4, <1>a, <3>1, <3>2 DEF FanoutEnd, TypeOK, connVars, SendLen
  <2>2. PhaseInv' /\ ClosedInv' /\ LeaveInv' /\ OpsInv' /\ NewInv'
    BY <1>4, <1>a DEF FanoutEnd, PhaseInv, ClosedInv, LeaveInv, OpsInv, NewInv, Fresh, connVars
  <2>3. FeedInv'
    BY <1>4, <1>a DEF FanoutEnd, FeedInv, Behind
  <2> QED BY <2>1, <2>2, <2>3 DEF IInv
<1>5. ASSUME HubShutdown PROVE IInv'
  <2>1. TypeOK'
    BY <1>5, <1>a DEF HubShutdown, TypeOK, connVars, SendLen
  <2>2. PhaseInv' /\ ClosedInv' /\ LeaveInv' /\ OpsInv' /\ NewInv'
    BY <1>5, <1>a DEF HubShutdown, PhaseInv, ClosedInv, LeaveInv, OpsInv, NewInv, Fresh, connVars
  <2>3. FeedInv'
    BY <1>5, <1>a DEF HubShutdown, FeedInv, Behind
  <2> QED BY <2>1, <2>2, <2>3 DEF IInv
<1>6. ASSUME HubPanic PROVE IInv'
  <2>0. /\ hub = "run" /\ panics < MaxPanics /\ panics' = panics + 1 /\ attempt' = attempt + 1
        /\ hub' = IF attempt' < Attempts THEN "backoff" ELSE "down"
        /\ UNCHANGED <<clients, msg, targets, dead, sendClosed, log, joined, connVars, ctxDone, recent, got, read, bpc>>
    BY <1>6 DEF HubPanic
  <2>1. \/ ops # << >> /\ ops' = Tail(ops) /\ broadcast' = broadcast
        \/ broadcast # << >> /\ broadcast' = Tail(broadcast) /\ ops' = ops
    BY <1>6 DEF HubPanic
  <2>2. /\ ops' \in Seq(ClientOps) /\ Len(ops') <= Len(ops)
        /\ broadcast' \in Seq(Broadcasters) /\ Len(broadcast') <= Len(broadcast)
    <3>1. ops # << >> => Tail(ops) \in Seq(ClientOps) /\ Len(Tail(ops)) <= Len(ops)
      BY <1>a, TailIs DEF TypeOK
    <3>2. broadcast # << >> => Tail(broadcast) \in Seq(Broadcasters) /\ Len(Tail(broadcast)) <= Len(broadcast)
      BY <1>a, TailIs DEF TypeOK
    <3>3. Len(ops) \in Nat /\ Len(broadcast) \in Nat
      BY <1>a DEF TypeOK
    <3>4. ops \in Seq(ClientOps) /\ broadcast \in Seq(Broadcasters)
      BY <1>a DEF TypeOK
    <3>5. CASE ops # << >> /\ ops' = Tail(ops) /\ broadcast' = broadcast
      BY <3>1, <3>3, <3>4, <3>5
    <3>6. CASE broadcast # << >> /\ broadcast' = Tail(broadcast) /\ ops' = ops
      BY <3>2, <3>3, <3>4, <3>6
    <3> QED BY <2>1, <3>5, <3>6
  <2>3. TypeOK'
    <3>1. attempt' \in 0 .. Attempts /\ panics' \in 0 .. MaxPanics
      <4>1. attempt \in 0 .. Attempts /\ panics \in 0 .. MaxPanics
        BY <1>a DEF TypeOK
      <4>2. panics' \in 0 .. MaxPanics
        BY <1>b, <2>0, <4>1
      <4>3. attempt < Attempts
        BY <1>a, <2>0 DEF PhaseInv
      <4> QED BY <1>b, <2>0, <4>1, <4>2, <4>3
    <3>2. Len(ops') <= OpsCap /\ Len(broadcast') <= BroadcastCap
      BY <1>a, <1>b, <2>2 DEF TypeOK
    <3> QED BY <1>a, <2>0, <2>2, <3>1, <3>2 DEF TypeOK, connVars, SendLen
  <2>4. OpsInv'
    <3>1. \A d \in Clients : Fresh(d) => Fresh(d)'
      BY <2>0 DEF Fresh
    <3>2. CASE ops' = ops
      BY <1>a, <2>0, <3>1, <3>2 DEF OpsInv, connVars
    <3>3. CASE ops' # ops
      BY <1>a, <2>0, <2>1, <3>1, <3>3, OpsTail DEF connVars
    <3> QED BY <3>2, <3>3
  <2>5. PhaseInv' /\ ClosedInv' /\ NewInv' /\ FeedInv'
    BY <1>a, <2>0 DEF PhaseInv, ClosedInv, NewInv, FeedInv, Behind, Fresh, connVars
  <2>6. LeaveInv'
    BY <1>a, <2>0 DEF TypeOK, LeaveInv
  <2> QED BY <2>3, <2>4, <2>5, <2>6 DEF IInv
<1>7. ASSUME HubRetry PROVE IInv'
  <2>1. TypeOK'
    BY <1>7, <1>a DEF HubRetry, TypeOK, connVars, SendLen
  <2>2. PhaseInv'
    BY <1>7, <1>a DEF HubRetry, PhaseInv
  <2>3. ClosedInv' /\ LeaveInv' /\ OpsInv' /\ NewInv' /\ FeedInv'
    BY <1>7, <1>a DEF HubRetry, ClosedInv, LeaveInv, OpsInv, NewInv, FeedInv, Behind, Fresh, connVars
  <2> QED BY <2>1, <2>2, <2>3 DEF IInv
<1>8. ASSUME Stop PROVE IInv'
  BY <1>8, <1>a, QuietInv DEF IInv, Stop, TypeOK, hubVars, connVars, SendLen
<1>9. ASSUME IntervalEnds PROVE IInv'
  BY <1>9, <1>a, QuietInv DEF IInv, IntervalEnds, TypeOK, hubVars, connVars, SendLen
<1>10. ASSUME NEW c \in Clients, Accept(c) PROVE IInv'
  <2>1. TypeOK'
    BY <1>10, <1>a DEF Accept, TypeOK, hubVars, SendLen
  <2>2. rpc[c] # "left" /\ rpc' = [rpc EXCEPT ![c] = "registering"] /\ UNCHANGED <<hubVars, ops, got, read>>
    BY <1>10 DEF Accept
  <2>3. rpc[c] = "none"
    BY <1>10 DEF Accept
  <2> QED BY <1>a, <2>1, <2>2, <2>3, RpcStep DEF IInv
<1>11. ASSUME NEW c \in Clients, RegisterSend(c) PROVE IInv'
  <2>0. /\ rpc[c] = "registering" /\ rpc' = [rpc EXCEPT ![c] = "reading"] /\ wpc' = [wpc EXCEPT ![c] = "writing"]
        /\ ops' = Append(ops, [kind |-> "register", c |-> c]) /\ Len(ops) < OpsCap
        /\ UNCHANGED <<hubVars, conn, ctxDone, broadcast, recent, got, read, bpc>>
    BY <1>11 DEF RegisterSend, StartPumps
  <2>1. [kind |-> "register", c |-> c] \in ClientOps
    BY DEF ClientOps
  <2>2. /\ ops' \in Seq(ClientOps) /\ Len(ops') = Len(ops) + 1 /\ Len(ops) \in Nat
        /\ ops'[Len(ops) + 1] = [kind |-> "register", c |-> c]
        /\ \A i \in 1 .. Len(ops) : ops'[i] = ops[i]
    BY <1>a, <2>0, <2>1 DEF TypeOK
  <2>3. Fresh(c) /\ \A i \in 1 .. Len(ops) : ops[i].c # c
    BY <1>a, <2>0 DEF NewInv, OpsInv
  <2>4. TypeOK'
    <3>1. Len(ops') <= OpsCap
      BY <1>b, <2>0, <2>2
    <3>2. /\ rpc' \in [Clients -> {"none", "registering", "reading", "unregistering", "left", "gone"}]
          /\ wpc' \in [Clients -> {"none", "writing", "done"}]
      BY <1>a, <2>0 DEF TypeOK
    <3> QED BY <1>a, <2>0, <2>2, <3>1, <3>2 DEF TypeOK, hubVars, SendLen
  <2>5. PhaseInv' /\ ClosedInv' /\ FeedInv'
    BY <1>a, <2>0 DEF PhaseInv, ClosedInv, FeedInv, Behind, hubVars
  <2>6. NewInv' /\ \A d \in Clients : Fresh(d) <=> Fresh(d)'
    BY <1>a, <2>0 DEF TypeOK, NewInv, Fresh, hubVars
  <2>7. OpsInv'
    <3>1. ASSUME NEW d \in Clients, NEW i \in 1 .. Len(ops'), ops'[i].c = d
          PROVE  /\ rpc'[d] \notin {"none", "registering"}
                 /\ ops'[i].kind = "register" => /\ Fresh(d)
                                                 /\ \A j \in 1 .. Len(ops') : j < i => ops'[j].c # d
                 /\ ops'[i].kind = "unregister" => /\ rpc'[d] = "left"
                                                   /\ \A j \in 1 .. Len(ops') : i < j => ops'[j].c # d
      <4>0. \A j \in 1 .. Len(ops') : j \in 1 .. Len(ops) \/ j = Len(ops) + 1
        BY <2>2
      <4>1. CASE i = Len(ops) + 1
        <5>1. \A j \in 1 .. Len(ops') : j < i => j \in 1 .. Len(ops)
          BY <2>2, <4>1
        <5>2. ops'[i].kind = "register" /\ d = c
          BY <2>2, <3>1, <4>1
        <5> QED BY <1>a, <2>0, <2>2, <2>3, <5>1, <5>2 DEF TypeOK
      <4>2. CASE i \in 1 .. Len(ops)
        <5>1. ops'[i] = ops[i] /\ d # c /\ rpc'[d] = rpc[d]
          BY <1>a, <2>0, <2>2, <2>3, <3>1, <4>2 DEF TypeOK
        <5>2. \A j \in 1 .. Len(ops') : j < i => j \in 1 .. Len(ops)
          BY <2>2, <4>2
        <5>3. /\ rpc[d] \notin {"none", "registering"}
              /\ ops[i].kind = "register" => /\ Fresh(d)
                                             /\ \A j \in 1 .. Len(ops) : j < i => ops[j].c # d
              /\ ops[i].kind = "unregister" => /\ rpc[d] = "left"
                                               /\ \A j \in 1 .. Len(ops) : i < j => ops[j].c # d
          BY <1>a, <3>1, <4>2, <5>1 DEF OpsInv
        <5>4. ASSUME NEW j \in 1 .. Len(ops') PROVE ops'[j].c = c \/ (j \in 1 .. Len(ops) /\ ops'[j] = ops[j])
          <6>1. CASE j \in 1 .. Len(ops)
            BY <2>2, <6>1
          <6>2. CASE j = Len(ops) + 1
            BY <2>2, <6>2
          <6> QED BY <4>0, <6>1, <6>2
        <5> QED BY <5>1, <5>2, <5>3, <5>4
      <4> QED BY <4>0, <4>1, <4>2
    <3> QED BY <2>6, <3>1 DEF OpsInv
  <2>8. LeaveInv'
    <3> SUFFICES ASSUME panics = 0, NEW d \in Clients, rpc'[d] = "left"
                 PROVE  \/ d \notin clients /\ \A i \in 1 .. Len(ops') : ops'[i].c # d
                        \/ \E i \in 1 .. Len(ops') : ops'[i].kind = "unregister" /\ ops'[i].c = d
      BY <2>0 DEF LeaveInv, hubVars
    <3>1. d # c /\ rpc[d] = "left"
      BY <1>a, <2>0 DEF TypeOK
    <3>2. \A i \in 1 .. Len(ops') : (i \in 1 .. Len(ops) /\ ops'[i] = ops[i]) \/ ops'[i].c = c
      BY <2>2
    <3>3. \A i \in 1 .. Len(ops) : i \in 1 .. Len(ops') /\ ops'[i] = ops[i]
      BY <2>2
    <3> QED BY <1>a, <3>1, <3>2, <3>3 DEF LeaveInv
  <2> QED BY <2>4, <2>5, <2>6, <2>7, <2>8 DEF IInv
<1>12. ASSUME NEW c \in Clients, RegisterStopped(c) PROVE IInv'
  <2>1. TypeOK'
    BY <1>12, <1>a DEF RegisterStopped, StartPumps, TypeOK, hubVars, SendLen
  <2>2. rpc[c] # "left" /\ rpc' = [rpc EXCEPT ![c] = "reading"] /\ UNCHANGED <<hubVars, ops, got, read>>
    BY <1>12 DEF RegisterStopped, StartPumps
  <2> QED BY <1>a, <2>1, <2>2, RpcStep DEF IInv
<1>13. ASSUME NEW c \in Clients, ReadFail(c) PROVE IInv'
  <2>1. TypeOK'
    BY <1>13, <1>a DEF ReadFail, TypeOK, hubVars, SendLen
  <2>2. rpc[c] # "left" /\ rpc' = [rpc EXCEPT ![c] = "unregistering"] /\ UNCHANGED <<hubVars, ops, got, read>>
    BY <1>13 DEF ReadFail
  <2> QED BY <1>a, <2>1, <2>2, RpcStep DEF IInv
<1>14. ASSUME NEW c \in Clients, UnregisterSend(c) PROVE IInv'
  <2>0. /\ rpc[c] = "unregistering" /\ rpc' = [rpc EXCEPT ![c] = "left"] /\ conn' = [conn EXCEPT ![c] = "closed"]
        /\ ops' = Append(ops, [kind |-> "unregister", c |-> c]) /\ Len(ops) < OpsCap
        /\ UNCHANGED <<hubVars, wpc, ctxDone, broadcast, recent, got, read, bpc>>
    BY <1>14 DEF UnregisterSend
  <2>1. [kind |-> "unregister", c |-> c] \in ClientOps
    BY DEF ClientOps
  <2>2. /\ ops' \in Seq(ClientOps) /\ Len(ops') = Len(ops) + 1 /\ Len(ops) \in Nat
        /\ ops'[Len(ops) + 1] = [kind |-> "unregister", c |-> c]
        /\ \A i \in 1 .. Len(ops) : ops'[i] = ops[i]
    BY <1>a, <2>0, <2>1 DEF TypeOK
  <2>3. \A i \in 1 .. Len(ops) : ops[i].c = c => ops[i].kind = "register"
    <3>1. \A i \in 1 .. Len(ops) : ops[i].kind \in {"register", "unregister"}
      <4>1. \A i \in 1 .. Len(ops) : ops[i] \in ClientOps
        BY <1>a DEF TypeOK
      <4> QED BY <4>1 DEF ClientOps
    <3> QED BY <1>a, <2>0, <3>1 DEF OpsInv
  <2>4. TypeOK'
    <3>1. Len(ops') <= OpsCap
      BY <1>b, <2>0, <2>2
    <3>2. /\ rpc' \in [Clients -> {"none", "registering", "reading", "unregistering", "left", "gone"}]
          /\ conn' \in [Clients -> {"none", "open", "closed"}]
      BY <1>a, <2>0 DEF TypeOK
    <3> QED BY <1>a, <2>0, <2>2, <3>1, <3>2 DEF TypeOK, hubVars, SendLen
  <2>5. PhaseInv' /\ ClosedInv' /\ FeedInv'
    BY <1>a, <2>0 DEF PhaseInv, ClosedInv, FeedInv, Behind, hubVars
  <2>6. NewInv' /\ \A d \in Clients : Fresh(d) <=> Fresh(d)'
    BY <1>a, <2>0 DEF TypeOK, NewInv, Fresh, hubVars
  <2>7. OpsInv'
    <3>1. ASSUME NEW d \in Clients, NEW i \in 1 .. Len(ops'), ops'[i].c = d
          PROVE  /\ rpc'[d] \notin {"none", "registering"}
                 /\ ops'[i].kind = "register" => /\ Fresh(d)
                                                 /\ \A j \in 1 .. Len(ops') : j < i => ops'[j].c # d
                 /\ ops'[i].kind = "unregister" => /\ rpc'[d] = "left"
                                                   /\ \A j \in 1 .. Len(ops') : i < j => ops'[j].c # d
      <4>0. \A j \in 1 .. Len(ops') : j \in 1 .. Len(ops) \/ j = Len(ops) + 1
        BY <2>2
      <4>1. CASE i = Len(ops) + 1
        <5>1. \A j \in 1 .. Len(ops') : ~(i < j)
          BY <2>2, <4>1
        <5>2. ops'[i].kind = "unregister" /\ d = c /\ rpc'[d] = "left"
          BY <1>a, <2>0, <2>2, <3>1, <4>1 DEF TypeOK
        <5> QED BY <5>1, <5>2
      <4>2. CASE i \in 1 .. Len(ops)
        <5>1. ops'[i] = ops[i]
          BY <2>2, <4>2
        <5>2. /\ rpc[d] \notin {"none", "registering"}
              /\ ops[i].kind = "register" => /\ Fresh(d)
                                             /\ \A j \in 1 .. Len(ops) : j < i => ops[j].c # d
              /\ ops[i].kind = "unregister" => /\ rpc[d] = "left"
                                               /\ \A j \in 1 .. Len(ops) : i < j => ops[j].c # d
          BY <1>a, <3>1, <4>2, <5>1 DEF OpsInv
        <5>3. rpc'[d] \notin {"none", "registering"} /\ (rpc[d] = "left" => rpc'[d] = "left" /\ d # c)
          BY <1>a, <2>0, <5>2 DEF TypeOK
        <5>4. ASSUME NEW j \in 1 .. Len(ops')
              PROVE  \/ j \in 1 .. Len(ops) /\ ops'[j] = ops[j]
                     \/ ops'[j].c = c /\ ~(j < i)
          BY <2>2, <4>0, <4>2
        <5> QED BY <5>1, <5>2, <5>3, <5>4
      <4> QED BY <4>0, <4>1, <4>2
    <3> QED BY <2>6, <3>1 DEF OpsInv
  <2>8. LeaveInv'
    <3> SUFFICES ASSUME panics = 0, NEW d \in Clients, rpc'[d] = "left"
                 PROVE  \/ d \notin clients /\ \A i \in 1 .. Len(ops') : ops'[i].c # d
                        \/ \E i \in 1 .. Len(ops') : ops'[i].kind = "unregister" /\ ops'[i].c = d
      BY <2>0 DEF LeaveInv, hubVars
    <3>1. CASE d = c
      <4>1. Len(ops) + 1 \in 1 .. Len(ops')
        BY <2>2
      <4> QED BY <2>2, <3>1, <4>1
    <3>2. CASE d # c
      <4>1. rpc[d] = "left"
        BY <1>a, <2>0, <3>2 DEF TypeOK
      <4>2. \A i \in 1 .. Len(ops') : (i \in 1 .. Len(ops) /\ ops'[i] = ops[i]) \/ ops'[i].c = c
        BY <2>2
      <4>3. \A i \in 1 .. Len(ops) : i \in 1 .. Len(ops') /\ ops'[i] = ops[i]
        BY <2>2
      <4> QED BY <1>a, <3>2, <4>1, <4>2, <4>3 DEF LeaveInv
    <3> QED BY <3>1, <3>2
  <2> QED BY <2>4, <2>5, <2>6, <2>7, <2>8 DEF IInv
<1>15. ASSUME NEW c \in Clients, UnregisterDrop(c) PROVE IInv'
  <2>1. TypeOK'
    BY <1>15, <1>a DEF UnregisterDrop, TypeOK, hubVars, SendLen
  <2>2. rpc[c] # "left" /\ rpc' = [rpc EXCEPT ![c] = "gone"] /\ UNCHANGED <<hubVars, ops, got, read>>
    BY <1>15 DEF UnregisterDrop
  <2> QED BY <1>a, <2>1, <2>2, RpcStep DEF IInv
<1>16. ASSUME NEW c \in Clients, PumpMessage(c) PROVE IInv'
  <2>0. /\ 0 < Len(got[c]) - read[c] /\ read' = [read EXCEPT ![c] = @ + 1]
        /\ UNCHANGED <<hubVars, rpc, ctxDone, ops, broadcast, recent, got, bpc>>
    BY <1>16 DEF PumpMessage, SendLen
  <2>1. TypeOK'
    <3>1. /\ wpc' \in [Clients -> {"none", "writing", "done"}] /\ conn' \in [Clients -> {"none", "open", "closed"}]
      BY <1>16, <1>a DEF PumpMessage, PumpEnds, TypeOK
    <3>2. read' \in [Clients -> Nat]
      BY <1>a, <2>0 DEF TypeOK
    <3>3. ASSUME NEW d \in Clients PROVE read'[d] <= Len(got[d]) /\ Len(got[d]) - read'[d] <= SendCap
      <4>1. read[d] <= Len(got[d]) /\ Len(got[d]) - read[d] <= SendCap
        BY <1>a DEF TypeOK, SendLen
      <4>2. read'[d] = IF d = c THEN read[d] + 1 ELSE read[d]
        BY <1>a, <2>0 DEF TypeOK
      <4> QED BY <1>b, <2>0, <4>1, <4>2
    <3> QED BY <1>a, <2>0, <3>1, <3>2, <3>3 DEF TypeOK, hubVars, SendLen
  <2>2. PhaseInv' /\ ClosedInv' /\ FeedInv' /\ LeaveInv'
    BY <1>a, <2>0 DEF PhaseInv, ClosedInv, FeedInv, LeaveInv, Behind, hubVars
  <2>3. NewInv' /\ OpsInv'
    <3>1. \A d \in Clients : Fresh(d) => Fresh(d)'
      <4>1. \A d \in Clients : d # c => read'[d] = read[d]
        BY <1>a, <2>0 DEF TypeOK
      <4>2. ~Fresh(c)
        BY <2>0 DEF Fresh
      <4> QED BY <2>0, <4>1, <4>2 DEF Fresh, hubVars
    <3> QED BY <1>a, <2>0, <3>1 DEF NewInv, OpsInv
  <2> QED BY <2>1, <2>2, <2>3 DEF IInv
<1>17. ASSUME NEW c \in Clients, PumpClosed(c) PROVE IInv'
  BY <1>17, <1>a, QuietInv DEF IInv, PumpClosed, PumpEnds, TypeOK, hubVars, SendLen
<1>18. ASSUME NEW c \in Clients, PumpPingFails(c) PROVE IInv'
  BY <1>18, <1>a, QuietInv DEF IInv, PumpPingFails, PumpEnds, TypeOK, hubVars, SendLen
<1>19. ASSUME NEW b \in Broadcasters, BroadcastCheck(b) PROVE IInv'
  BY <1>19, <1>a, QuietInv DEF IInv, BroadcastCheck, TypeOK, hubVars, connVars, SendLen
<1>20. ASSUME NEW b \in Broadcasters, EnqueueSend(b) PROVE IInv'
  <2>1. broadcast' \in Seq(Broadcasters) /\ Len(broadcast') <= BroadcastCap
    BY <1>20, <1>a, <1>b DEF EnqueueSend, TypeOK
  <2>2. bpc' \in [Broadcasters -> {"idle", "enqueue", "queued", "dropped"}]
    BY <1>20, <1>a DEF EnqueueSend, TypeOK
  <2> QED BY <1>20, <1>a, <2>1, <2>2, QuietInv DEF IInv, EnqueueSend, TypeOK, hubVars, connVars, SendLen
<1>21. ASSUME NEW b \in Broadcasters, EnqueueDrop(b) PROVE IInv'
  BY <1>21, <1>a, QuietInv DEF IInv, EnqueueDrop, TypeOK, hubVars, connVars, SendLen
<1>22. CASE UNCHANGED hvars
  BY <1>22, <1>a, QuietInv DEF IInv, hvars, TypeOK, hubVars, connVars, SendLen
<1> QED
  BY <1>1, <1>2, <1>3, <1>4, <1>5, <1>6, <1>7, <1>8, <1>9, <1>10, <1>11, <1>12, <1>13, <1>14,
     <1>15, <1>16, <1>17, <1>18, <1>19, <1>20, <1>21, <1>22
     DEF Next, HubStep, Handler, Reader, Pump, Caller
(* Whatever the capacities, the attempts and the panics, IInv holds.        *)
THEOREM Inductive == Spec => []IInv
BY InitInv, StepInv, PTL DEF Spec

(* The variables keep their types, and no channel exceeds its capacity.     *)
THEOREM TypeCorrect == Spec => []TypeOK
<1>1. IInv => TypeOK
  BY DEF IInv
<1> QED BY <1>1, Inductive, PTL

(* trySend never meets a closed channel and close is never called twice,    *)
(* also after panics and retries of the loop.                               *)
THEOREM SendsToOpen == Spec => []NoSendOnClosed
<1>1. IInv => NoSendOnClosed
  BY DEF IInv, PhaseInv, ClosedInv, NoSendOnClosed
<1> QED BY <1>1, Inductive, PTL

(* A client is fed a part of the log without a gap, and all of it while it  *)
(* is registered, also when panics swallow messages.                        *)
THEOREM FeedIsGapless == Spec => []NoSilentGap
<1>1. ASSUME IInv, NEW c \in Clients
      PROVE  /\ IsPrefixOf(got[c], Since(c))
             /\ c \in clients \ (targets \cup dead) => got[c] = Since(c)
  <2>1. /\ log \in Seq(Broadcasters) /\ got[c] \in Seq(Broadcasters)
        /\ joined[c] \in Nat /\ Len(got[c]) \in Nat /\ Len(log) \in Nat
    BY <1>1 DEF IInv, TypeOK
  <2>2. /\ joined[c] + Len(got[c]) <= Len(log)
        /\ \A k \in 1 .. Len(got[c]) : got[c][k] = log[joined[c] + k]
        /\ c \in clients \ (targets \cup dead) => joined[c] + Len(got[c]) = Len(log)
    BY <1>1, <2>1 DEF IInv, FeedInv, Behind
  <2>3. /\ Since(c) \in Seq(Broadcasters) /\ Len(Since(c)) = Len(log) - joined[c]
        /\ \A k \in 1 .. Len(log) - joined[c] : Since(c)[k] = log[joined[c] + k]
    <3>1. joined[c] + 1 \in Nat \ {0} /\ joined[c] + 1 <= Len(log) + 1
      BY <2>1, <2>2
    <3>2. /\ SubSeq(log, joined[c] + 1, Len(log)) \in Seq(Broadcasters)
          /\ Len(SubSeq(log, joined[c] + 1, Len(log))) = Len(log) - joined[c]
      BY <2>1, <3>1
    <3>3. \A k \in 1 .. Len(log) - joined[c] : SubSeq(log, joined[c] + 1, Len(log))[k] = log[joined[c] + k]
      BY <2>1, <2>2, <3>1, SubSeqProperties
    <3> QED BY <3>2, <3>3 DEF Since
  <2>4. /\ SubSeq(Since(c), 1, Len(got[c])) \in Seq(Broadcasters)
        /\ Len(SubSeq(Since(c), 1, Len(got[c]))) = Len(got[c])
        /\ \A k \in 1 .. Len(got[c]) : SubSeq(Since(c), 1, Len(got[c]))[k] = Since(c)[k]
    BY <2>1, <2>2, <2>3
  <2>5. \A k \in 1 .. Len(got[c]) : k \in 1 .. Len(log) - joined[c] /\ got[c][k] = Since(c)[k]
    BY <2>1, <2>2, <2>3
  <2>6. got[c] = SubSeq(Since(c), 1, Len(got[c]))
    BY <2>1, <2>4, <2>5, SeqEqual
  <2>7. c \in clients \ (targets \cup dead) => got[c] = Since(c)
    BY <2>1, <2>2, <2>3, <2>5, SeqEqual
  <2> QED BY <2>1, <2>2, <2>3, <2>6, <2>7 DEF IsPrefixOf
<1>2. IInv => NoSilentGap
  BY <1>1 DEF NoSilentGap
<1> QED BY <1>2, Inductive, PTL

(* A connection that asked to leave is out of the registry once its request *)
(* is processed, unless a panic of the loop swallowed the request.          *)
THEOREM LeaversAreOut == Spec => [](panics = 0 => NoLeakedClient)
<1>1. IInv => (panics = 0 => NoLeakedClient)
  BY DEF IInv, LeaveInv, NoLeakedClient
<1> QED BY <1>1, Inductive, PTL
=============================================================================
