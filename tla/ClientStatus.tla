---------------------------- MODULE ClientStatus ----------------------------
(***************************************************************************)
(* What the panel says of a client: the cards and the filters the server   *)
(* computes, the cards the clients page computes again from the websocket, *)
(* the tag in its row, the counts in the rows of the inbounds page, the    *)
(* information dialog, and the colours of what is left.  The record, its   *)
(* row of traffic and its copy in the inbound are taken to agree.          *)
(***************************************************************************)
EXTENDS Integers

CONSTANTS Amounts,      \* quotas and usage; a quota of 0 is unlimited
          Times,        \* expiry: 0 never, negative counted from the first use
          Now, ExpireDiff, TrafficDiff

\* entity.go accepts no negative thresholds.
ASSUME StatusAssumption ==
  /\ Amounts \subseteq Int /\ Times \subseteq Int /\ Now \in Nat
  /\ ExpireDiff \in Nat /\ TrafficDiff \in Nat

Clients == [enable : BOOLEAN, online : BOOLEAN, total : Amounts, used : Amounts, expiry : Times]

Exhausted(c) == c.total > 0 /\ c.used >= c.total
Expired(c) == c.expiry > 0 /\ c.expiry <= Now
NearExpiry(c) == c.expiry > 0 /\ c.expiry - Now < ExpireDiff
NearLimit(c) == c.total > 0 /\ c.total - c.used < TrafficDiff

-----------------------------------------------------------------------------
\* The server: the cards of a page and the filters of the list.

buildClientsSummary(all) ==
  LET depleted == {c \in all : Exhausted(c) \/ Expired(c)}
      deactive == {c \in all \ depleted : ~c.enable}
      expiring == {c \in all \ (depleted \cup deactive) : NearExpiry(c) \/ NearLimit(c)}
  IN [online |-> {c \in all : c.enable /\ c.online}, depleted |-> depleted, deactive |-> deactive,
      expiring |-> expiring, active |-> all \ (depleted \cup deactive \cup expiring)]

clientMatchesBucket(c, bucket) ==
  CASE bucket = "online"   -> c.online /\ c.enable
    [] bucket = "depleted" -> Exhausted(c) \/ Expired(c)
    [] bucket = "deactive" -> ~c.enable
    [] bucket = "active"   -> c.enable /\ ~Exhausted(c) /\ ~Expired(c)
    [] bucket = "expiring" -> c.enable /\ ~Exhausted(c) /\ ~Expired(c) /\ (NearExpiry(c) \/ NearLimit(c))

-----------------------------------------------------------------------------
\* The clients page: the cards, again, and the tag of a row.

computeClientsSummary(stats) ==
  LET over == {c \in stats : Exhausted(c) \/ Expired(c)}
      near == {c \in stats \ over : c.enable /\ (NearExpiry(c) \/ NearLimit(c))}
  IN [online |-> {c \in stats : c.enable /\ c.online}, depleted |-> over,
      deactive |-> {c \in stats \ over : ~c.enable}, expiring |-> near,
      active |-> {c \in stats \ over : c.enable} \ near]

clientBucket_EnableFirst(c) ==
  CASE ~c.enable                                            -> "deactive"
    [] c.enable /\ (Expired(c) \/ Exhausted(c))             -> "depleted"
    [] c.enable /\ ~Expired(c) /\ ~Exhausted(c) /\ (NearExpiry(c) \/ NearLimit(c)) -> "expiring"
    [] OTHER                                                -> "active"
clientBucket(c) ==
  CASE Expired(c) \/ Exhausted(c)                           -> "depleted"
    [] ~Expired(c) /\ ~Exhausted(c) /\ ~c.enable            -> "deactive"
    [] ~Expired(c) /\ ~Exhausted(c) /\ c.enable /\ (NearExpiry(c) \/ NearLimit(c)) -> "expiring"
    [] OTHER                                                -> "active"

\* The tag in the column "online".
onlineTag(c) ==
  CASE clientBucket(c) = "depleted"                                       -> "depleted"
    [] clientBucket(c) # "depleted" /\ c.enable /\ c.online               -> "online"
    [] clientBucket(c) # "depleted" /\ ~c.enable                          -> "disabled"
    [] clientBucket(c) = "expiring" /\ ~c.online                          -> "depletingSoon"
    [] OTHER                                                              -> "offline"

\* A card of the mobile list.
cardTags(c) == {clientBucket(c)} \cap {"depleted", "expiring"}
bucketBadgeStatus(c) ==
  CASE clientBucket(c) = "depleted" -> "error"
    [] clientBucket(c) = "expiring" -> "warning"
    [] clientBucket(c) = "active"   -> "success"
    [] OTHER                        -> "default"

\* What is left of the quota; sizes are written out in full.
remainingLabel(c) ==
  CASE c.total <= 0                     -> "unlimited"
    [] c.total > 0 /\ c.used >= c.total -> "nothing"
    [] OTHER                            -> "some"
trafficLabel(c) == [used |-> c.used, limited |-> c.total > 0]
remainingColor(c) ==
  CASE c.total <= 0                                          -> "purple"
    [] c.total > 0 /\ c.used >= c.total                      -> "red"
    [] c.total > 0 /\ c.used < c.total /\ 100 * c.used >= 85 * c.total -> "orange"
    [] OTHER                                                 -> "green"
\* Orange within three days: here Soon, the same for every client.
Soon == 3
expiryLabel(c) ==
  CASE c.expiry = 0 -> "never"
    [] c.expiry < 0 -> "delayed"
    [] OTHER        -> "date"
expiryColor(c) ==
  CASE c.expiry = 0                               -> "purple"
    [] c.expiry < 0                               -> "blue"
    [] c.expiry > 0 /\ c.expiry <= Now            -> "red"
    [] c.expiry > Now /\ c.expiry - Now < Soon    -> "orange"
    [] OTHER                                      -> "green"

\* The cards, and which of them list their clients.
SummaryCards(cards) == {k \in {"online", "depleted", "expiring", "deactive"} : cards[k] # {}}

\* The information dialog of the clients page.
infoStatus(c) == [online |-> c.enable /\ c.online, enabled |-> c.enable]
infoRemaining(c) ==
  CASE c.total <= 0                     -> "purple"
    [] c.total > 0 /\ c.used >= c.total -> "red"
    [] OTHER                            -> ""
infoExpiry(c) == IF c.expiry = 0 THEN "purple" ELSE IF c.expiry < 0 THEN "blue" ELSE ""

-----------------------------------------------------------------------------
\* The inbounds page: the panel inside the row of an inbound.

panelBar(c) ==
  CASE c.total <= 0                                   -> "none"
    [] c.total > 0 /\ 10 * c.used > 9 * c.total       -> "error"
    [] c.total > 0 /\ 10 * c.used <= 9 * c.total /\ 10 * c.used > 7 * c.total -> "warning"
    [] OTHER                                          -> "primary"
\* Less than 1 GB left is orange: here Little.  A client above its quota
\* is taken for one without any.
Little == 1
panelRemaining(c) ==
  CASE c.total <= 0 \/ c.used > c.total                       -> "purple"
    [] c.total > 0 /\ c.used <= c.total /\ c.total - c.used < Little -> "orange"
    [] OTHER                                                  -> "default"
panelStatus(c) == IF c.enable THEN "enabled" ELSE "disabled"

-----------------------------------------------------------------------------
\* The counts of an inbound, and its information dialog, which shows a client
\* only where a single-user inbound still holds one.

rollupClients(enabled, clients) ==
  LET depleted == {c \in clients : Expired(c) \/ Exhausted(c)}
  IN IF enabled
       THEN [active |-> {c \in clients : c.enable}, deactive |-> {c \in clients : ~c.enable},
             online |-> {c \in clients : c.enable /\ c.online}, depleted |-> depleted,
             expiring |-> {c \in clients \ depleted : NearExpiry(c) \/ NearLimit(c)}]
       ELSE [active |-> {}, deactive |-> clients, online |-> {}, depleted |-> {}, expiring |-> {}]

isDepleted(c) == (c.total > 0 /\ c.used >= c.total) \/ (c.expiry > 0 /\ Now >= c.expiry)
\* The tags of the table and of the statistics dialog, where there is anything
\* to count.
columnCounts(rows) == {k \in {"active", "deactive", "depleted", "online"} : rows[k] # {}}
statsCounts(rows) == {k \in {"online", "depleted", "expiring"} : rows[k] # {}}
statusTag(c) == IF isDepleted(c) THEN "depleted" ELSE IF c.enable THEN "enabled" ELSE "disabled"

usageColor(data, threshold, total) ==
  CASE total < 0                                        -> "green"
    [] total = 0                                        -> "purple"
    [] total > 0 /\ data < total - threshold            -> "green"
    [] total > 0 /\ data >= total - threshold /\ data < total -> "orange"
    [] OTHER                                            -> "red"
statsColor(c) == usageColor(c.used, TrafficDiff, c.total)
\* An inbound has a quota and an expiry of its own, which is never negative.
columnTraffic(r) == usageColor(r.used, TrafficDiff, r.total)
columnExpiry(r) == IF r.expiry > 0 THEN usageColor(Now, ExpireDiff, r.expiry) ELSE "purple"
remainingStats(c) == IF c.total - c.used > 0 THEN "some" ELSE "nothing"
expiryTag(c) ==
  CASE c.expiry > 0 -> usageColor(Now, ExpireDiff, c.expiry)
    [] c.expiry < 0 -> "green"
    [] c.expiry = 0 -> "purple"

-----------------------------------------------------------------------------
\* Every place of the panel says the same of a client: the two computations
\* of the cards (which the comment on computeClientsSummary wants in
\* lockstep), the tags, the counts of an enabled inbound, the dialogs and the
\* colours name the same clients depleted, and the filters list what the
\* cards count; every label of what is left turns with the quota.  The filter "active" lists the expiring ones too, and the
\* inbounds page counts a disabled client twice: that is how they are written.
\* So is the panel of the inbounds page, which shows no limit to a client above
\* its quota.
StatusAgrees ==
  LET cards == buildClientsSummary(Clients)
      rows == rollupClients(TRUE, Clients)
      In(bucket) == {c \in Clients : clientMatchesBucket(c, bucket)}
      Tagged(bucket) == {c \in Clients : clientBucket(c) = bucket}
  IN /\ computeClientsSummary(Clients) = cards
     /\ \A b \in {"depleted", "deactive", "expiring", "active"} : Tagged(b) = cards[b]
     /\ \A b \in {"depleted", "expiring", "online"} : In(b) = cards[b]
     /\ In("active") = cards.active \cup cards.expiring
     /\ In("deactive") \ In("depleted") = cards.deactive
     /\ rows.depleted = cards.depleted /\ rows.online = cards.online
     /\ rows.active \cap rows.expiring = cards.expiring
     /\ \A b \in {"depleted", "expiring", "online"} : b \in SummaryCards(cards) <=> In(b) # {}
     /\ "deactive" \in SummaryCards(cards) <=> In("deactive") \ In("depleted") # {}
     /\ columnCounts(rollupClients(FALSE, Clients)) \subseteq {"deactive"}
     /\ \A two \in SUBSET {c \in Clients : c.total = 2 /\ c.used \in 1 .. 2 /\ c.expiry = 0} :
          statsCounts(rollupClients(TRUE, two)) \ {"expiring"} = columnCounts(rollupClients(TRUE, two)) \ {"active", "deactive"}
     /\ \A c \in Clients :
          /\ onlineTag(c) = "depleted" <=> c \in cards.depleted
          /\ statusTag(c) = "depleted" <=> c \in cards.depleted
          /\ remainingColor(c) = "red" \/ expiryColor(c) = "red" <=> c \in cards.depleted
          /\ statsColor(c) = "red" \/ expiryTag(c) = "red" <=> c \in cards.depleted
          /\ remainingColor(c) = "red" <=> remainingLabel(c) = "nothing"
          /\ remainingLabel(c) = "unlimited" <=> ~trafficLabel(c).limited
          /\ infoRemaining(c) = "red" <=> remainingColor(c) = "red"
          /\ c.total > 0 => remainingStats(c) = remainingLabel(c)
          /\ c.used <= c.total => (panelRemaining(c) = "purple" <=> remainingLabel(c) = "unlimited")
          /\ remainingColor(c) = "orange" \/ panelRemaining(c) = "orange" => panelBar(c) \in {"warning", "error"}
          /\ infoExpiry(c) \in {"purple", "blue"} => infoExpiry(c) = expiryColor(c)
          /\ infoExpiry(c) = "" <=> expiryLabel(c) = "date"
          /\ infoStatus(c).online <=> c \in cards.online
          /\ panelStatus(c) = "enabled" <=> infoStatus(c).enabled
          /\ c.expiry >= 0 => columnTraffic(c) = statsColor(c) /\ columnExpiry(c) = expiryTag(c)
          /\ onlineTag(c) = "online" => c \in cards.online
          /\ "expiring" \in cardTags(c) <=> c \in cards.expiring
          /\ bucketBadgeStatus(c) = "success" <=> c \in cards.active
=============================================================================
