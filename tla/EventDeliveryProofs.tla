------------------------- MODULE EventDeliveryProofs -------------------------
(***************************************************************************)
(* Proofs about EventDelivery, for every value of the constants: the types *)
(* of its tables and the bound of its fences, that nothing is sent again   *)
(* blindly, that a second recipient is at the operator's risk, that a      *)
(* cursor covers only what was accepted, that only operators restart what  *)
(* has stopped, and that the delivery implements the abstract notification.*)
(*                                                                         *)
(* None of the properties is inductive. What a row says of the Agent is    *)
(* right only because of the handler that holds its fence, the requests    *)
(* that nobody waits for and the history of operator recoveries; Settled   *)
(* says how these hang together.                                           *)
(***************************************************************************)
EXTENDS EventDelivery, TLAPS

------------------------------------------------------------------------------
(* The tables *)

\* What one recovery cycle may add to a fence.
Stride == 2 * MaxAttempts + 1

\* The fence counts the recoveries, and at most two steps of each attempt.
Counted(r) ==
    /\ r.cycle <= MaxAttempts
    /\ r.recoveries <= MaxRecoveries
    /\ r.fence + (IF r.state = "delivering" THEN 1 ELSE 0)
           <= r.recoveries * Stride + 2 * r.cycle

Tables ==
    /\ TypeOK
    /\ Len(subscriptions) <= MaxSubscriptions
    /\ \A d \in DOMAIN delivery : Counted(delivery[d])
    /\ \A h \in DOMAIN handlers : h = <<h[1], h[2]>>
    /\ \A d \in Id : copy[d] # "absent" => Exists(d)

------------------------------------------------------------------------------
(* Routing *)

\* Only the last subscription is enabled, and nothing is owed or acknowledged
\* past the end of the log.
Routed ==
    /\ \A s \in DOMAIN subscriptions : /\ subscriptions[s].enabled => s = Len(subscriptions)
                                       /\ subscriptions[s].cursor <= log
    /\ \A d \in DOMAIN delivery : EventOf(d) <= log

\* A recipient added without the risk is the first of its event: none was sent
\* to before, and the former one, being disabled, is not sent to any more.
FirstRecipient ==
    \A d, k \in DOMAIN delivery :
        EventOf(d) = EventOf(k) /\ d[2] < k[2] /\ delivery[k].origin # "retarget_at_risk"
            => ~delivery[d].sent

Routing == Routed /\ FirstRecipient /\ CursorCovers

------------------------------------------------------------------------------
(* The Agent's side *)

\* The Agent has nothing of the delivery and nothing is on its way.
Clean(d) == copy[d] = "absent" /\ d \notin late /\ Waiting(d) = {}

Fresh(r) == ~r.remote_outcome_uncertain /\ ~r.accepted
Sending(r) == r.state = "delivering" /\ r.action = "receive"

\* A receive that needs no one's leave for the risk.
Careful(d) == ~SubscriptionOf(d).idempotent /\ ~delivery[d].risk

\* The row says that nothing reached the Agent, or is about to send as if so.
Denies(d) ==
    LET r == delivery[d] IN
    \/ Fresh(r) /\ ~Sending(r)
    \/ ~r.sent
    \/ Careful(d) /\ r.state \in {"pending", "retry_wait"}

\* What is known of a first receive while its handler h still has the fence.
FirstCall(d, h) ==
    /\ handlers[h].outcome = "waiting" =>
           copy[d] = "absent" /\ d \notin late /\ Waiting(d) \subseteq {h}
    /\ handlers[h].outcome \in Refusals => Clean(d)

Rightly(d) ==
    LET r == delivery[d]
        h == <<d, r.fence>>
    IN  /\ Denies(d) => Clean(d)
        /\ Sending(r) /\ (Fresh(r) \/ Careful(d)) /\ h \in DOMAIN handlers => FirstCall(d, h)
        /\ r.accepted => copy[d] \in {"durable", "final"}

\* A handler's outcome is one its call can have, and a durable receipt is true.
Heard(h) ==
    /\ h[2] = delivery[h[1]].fence => handlers[h].action = delivery[h[1]].action
    /\ handlers[h].outcome \in {"durable", "final"} => copy[h[1]] \in {"durable", "final"}
    /\ handlers[h].outcome = "not_found" => handlers[h].action = "status"

Settled ==
    /\ \A d \in DOMAIN delivery : Rightly(d)
    /\ \A h \in DOMAIN handlers : Heard(h)

------------------------------------------------------------------------------
(* What the helpers make of a row *)

\* What no step but a claim, a settlement or a report changes.
SamePast(r, q) ==
    /\ q.action = r.action
    /\ q.sent = r.sent
    /\ q.accepted = r.accepted
    /\ q.origin = r.origin

LEMMA RowTyped ==
  ASSUME NEW r \in Row
  PROVE  /\ r.state \in State /\ r.action \in {"none", "receive", "status"}
         /\ r.sent \in BOOLEAN /\ r.cycle \in Nat /\ r.wait \in Nat /\ r.fence \in Nat
         /\ r.lease \in Nat /\ r.renewal \in Nat /\ r.epoch \in Nat
         /\ r.accepted \in BOOLEAN /\ r.remote_outcome_uncertain \in BOOLEAN
         /\ r.risk \in BOOLEAN /\ r.recoveries \in Nat
         /\ r.origin \in {"append", "retarget", "retarget_at_risk"}
  BY DEF Row

LEMMA ExpiredRow ==
  ASSUME NEW r \in Row
  PROVE  LET q == Expired(r) IN
         /\ q \in Row /\ SamePast(r, q)
         /\ q.state = "reconciling" /\ q.remote_outcome_uncertain
         /\ q.fence = r.fence + 1 /\ q.wait = 0
         /\ q.cycle = r.cycle /\ q.risk = r.risk /\ q.recoveries = r.recoveries
  <1>1. "reconciling" \in State /\ r.fence + 1 \in Nat
    BY DEF State, Ready, Row
  <1>2. Expired(r) \in Row
    BY <1>1 DEF Expired, Row
  <1>3. Expired(r).remote_outcome_uncertain
    BY DEF Expired, Row
  <1> QED BY <1>2, <1>3 DEF Expired, Row, SamePast

\* The row a claim writes.
Claimed(r, a, f, e) ==
    [r EXCEPT !.state = "delivering", !.action = a,
              !.sent = TRUE, !.cycle = r.cycle + 1, !.fence = f,
              !.lease = LeaseTTL, !.renewal = RenewTTL, !.epoch = e]

LEMMA ClaimedTyped ==
  ASSUME NEW r \in Row, NEW e \in Nat,
         NEW a \in {"receive", "status"}, NEW f \in Nat
  PROVE  Claimed(r, a, f, e) \in Row
  <1>1. /\ "delivering" \in State /\ LeaseTTL \in Nat /\ RenewTTL \in Nat
        /\ a \in {"none", "receive", "status"} /\ r.cycle + 1 \in Nat
    BY DeliveryAssumption DEF State, Row
  <1> QED BY <1>1 DEF Claimed, Row

LEMMA ClaimedRow ==
  ASSUME NEW r \in Row, NEW e, NEW a, NEW f
  PROVE  LET q == Claimed(r, a, f, e) IN
         /\ q.state = "delivering" /\ q.action = a /\ q.sent
         /\ q.cycle = r.cycle + 1 /\ q.fence = f
         /\ q.accepted = r.accepted /\ q.origin = r.origin
         /\ q.remote_outcome_uncertain = r.remote_outcome_uncertain
         /\ q.risk = r.risk /\ q.recoveries = r.recoveries
  <1> DEFINE q == Claimed(r, a, f, e)
  <1> USE DEF Claimed
  <1>1. /\ q.state = "delivering" /\ q.action = a /\ q.cycle = r.cycle + 1 /\ q.fence = f
        /\ q.origin = r.origin /\ q.recoveries = r.recoveries
    BY DEF Row
  <1>2. q.sent /\ q.accepted = r.accepted /\ q.risk = r.risk
        /\ q.remote_outcome_uncertain = r.remote_outcome_uncertain
    BY DEF Row
  <1> QED BY <1>1, <1>2

LEMMA StoppedRow ==
  ASSUME NEW r \in Row, NEW st \in State, NEW u \in BOOLEAN
  PROVE  LET q == Stopped(r, st, u) IN
         /\ q \in Row /\ SamePast(r, q)
         /\ q.state = st /\ q.remote_outcome_uncertain = u
         /\ q.fence = r.fence /\ q.cycle = r.cycle /\ q.risk = r.risk
         /\ q.recoveries = r.recoveries
  <1>1. Stopped(r, st, u) \in Row
    BY DEF Stopped, Row
  <1>2. Stopped(r, st, u).remote_outcome_uncertain = u
    BY DEF Stopped, Row
  <1> QED BY <1>1, <1>2 DEF Stopped, Row, SamePast

LEMMA AcknowledgedRow ==
  ASSUME NEW r \in Row, NEW outcome \in Receipts, NEW w \in Nat
  PROVE  LET q == Acknowledged(r, outcome, w) IN
         /\ q \in Row
         /\ q.action = r.action /\ q.sent = r.sent /\ q.origin = r.origin
         /\ q.fence = r.fence /\ q.cycle = r.cycle /\ q.risk = r.risk
         /\ q.recoveries = r.recoveries
         /\ q.state \in {"completed", "accepted", "uncertain", "reconciling"}
         /\ outcome = "received" => q.state \in {"uncertain", "reconciling"}
         /\ outcome = "received" =>
                q.remote_outcome_uncertain /\ q.accepted = r.accepted
         /\ outcome # "received" =>
                ~q.remote_outcome_uncertain /\ q.accepted
                /\ q.state \in {"completed", "accepted"}
  <1> DEFINE st == AcknowledgedState(r, outcome)
             wait == IF st = "reconciling" THEN w ELSE 0
  <1>1. /\ st \in {"completed", "accepted", "uncertain", "reconciling"}
        /\ outcome = "received" => st \in {"uncertain", "reconciling"}
        /\ outcome # "received" => st \in {"completed", "accepted"}
    BY DEF AcknowledgedState, Durable, Receipts
  <1>2. wait \in Nat /\ st \in State
    BY <1>1 DEF State, Ready, Terminal
  <1>3. Acknowledged(r, outcome, w) =
            [r EXCEPT !.state = st, !.accepted = r.accepted \/ Durable(outcome),
                      !.remote_outcome_uncertain = ~Durable(outcome),
                      !.wait = wait, !.lease = 0, !.renewal = 0]
    BY DEF Acknowledged
  <1>4. Durable(outcome) <=> outcome # "received"
    BY DEF Durable, Receipts
  <1> DEFINE ok == r.accepted \/ Durable(outcome)
             u == ~Durable(outcome)
             q == [r EXCEPT !.state = st, !.accepted = ok, !.remote_outcome_uncertain = u,
                            !.wait = wait, !.lease = 0, !.renewal = 0]
  <1>5. ok \in BOOLEAN /\ u \in BOOLEAN
    BY DEF Durable, Row
  <1> HIDE DEF st, wait, ok, u
  <1>6. q \in Row
    BY <1>2, <1>5 DEF Row
  <1>7. q.accepted = ok
    BY <1>5 DEF Row
  <1>8. q.remote_outcome_uncertain = u
    BY <1>5 DEF Row
  <1>9. /\ q.action = r.action /\ q.sent = r.sent /\ q.origin = r.origin
        /\ q.fence = r.fence /\ q.cycle = r.cycle /\ q.risk = r.risk
        /\ q.recoveries = r.recoveries /\ q.state = st
    BY DEF Row
  <1>10. Acknowledged(r, outcome, w) = q
    BY <1>3 DEF ok, u
  <1>11. r.accepted \in BOOLEAN
    BY DEF Row
  <1> HIDE DEF q
  <1> QED BY <1>1, <1>4, <1>6, <1>7, <1>8, <1>9, <1>10, <1>11 DEF ok, u

LEMMA FailedRow ==
  ASSUME NEW r \in Row, NEW outcome \in Outcomes \ Receipts, NEW i \in BOOLEAN,
         NEW w \in Nat
  PROVE  LET q == Failed(r, outcome, i, w) IN
         /\ q \in Row /\ SamePast(r, q)
         /\ q.fence = r.fence /\ q.cycle = r.cycle /\ q.risk = r.risk
         /\ q.recoveries = r.recoveries
         /\ q.state \notin {"delivering", "accepted", "pending"}
         /\ r.remote_outcome_uncertain \/ outcome = "ambiguous" =>
                q.remote_outcome_uncertain
         /\ q.state = "retry_wait" =>
                \/ outcome = "not_found" /\ i
                \/ outcome = "retryable" /\ r.action # "status"
                       /\ ~r.remote_outcome_uncertain
  <1> DEFINE unknown == Unknown(r, outcome)
             wanted == FailureState(r, outcome, i, unknown)
             st == IF wanted \in Ready /\ CycleExhausted(r)
                     THEN IF unknown THEN "uncertain" ELSE "dead_letter"
                     ELSE wanted
             u == unknown \/ st = "uncertain"
             wait == IF st \in Ready THEN w ELSE 0
  <1>1. unknown <=> r.remote_outcome_uncertain \/ outcome = "ambiguous"
    BY DEF Unknown
  <1>2. /\ wanted \in {"authentication_failed", "retry_wait", "uncertain", "dead_letter",
                       "reconciling"}
        /\ wanted = "retry_wait" =>
               \/ outcome = "not_found" /\ i
               \/ outcome = "retryable" /\ r.action # "status" /\ ~unknown
    <2> HIDE DEF unknown
    <2>1. outcome \in {"retryable", "permanent", "authentication", "not_found", "ambiguous"}
      BY DEF Outcomes, Receipts, Refusals
    <2> QED BY <1>1, <2>1 DEF FailureState
  <1> HIDE DEF wanted
  <1>3. /\ st \in State /\ st \notin {"delivering", "accepted", "pending"}
        /\ st = "retry_wait" => wanted = "retry_wait"
        /\ wait \in Nat
    BY <1>2 DEF State, Ready, Terminal
  <1>4. u \in BOOLEAN /\ unknown \in BOOLEAN
    BY DEF Unknown, Row
  <1>5. Failed(r, outcome, i, w) =
            [r EXCEPT !.state = st, !.remote_outcome_uncertain = u,
                      !.wait = wait, !.lease = 0, !.renewal = 0]
    BY DEF Failed, wanted
  <1>6. unknown => u
    OBVIOUS
  <1> HIDE DEF st, u, wait, unknown
  <1> DEFINE q == [r EXCEPT !.state = st, !.remote_outcome_uncertain = u,
                            !.wait = wait, !.lease = 0, !.renewal = 0]
  <1>7. q \in Row
    BY <1>3, <1>4 DEF Row
  <1>8. q.remote_outcome_uncertain = u
    BY <1>4 DEF Row
  <1>9. /\ q.fence = r.fence /\ q.cycle = r.cycle /\ q.risk = r.risk
        /\ q.recoveries = r.recoveries /\ q.state = st /\ SamePast(r, q)
    BY DEF Row, SamePast
  <1> HIDE DEF q
  <1> QED BY <1>1, <1>2, <1>3, <1>5, <1>6, <1>7, <1>8, <1>9 DEF q

LEMMA RestartedRow ==
  ASSUME NEW r \in Row, NEW st \in State, NEW risk \in BOOLEAN
  PROVE  LET q == Restarted(r, st, risk) IN
         /\ q \in Row /\ SamePast(r, q)
         /\ q.state = st /\ q.risk = risk /\ q.cycle = 0
         /\ q.fence = r.fence + 1 /\ q.recoveries = r.recoveries + 1
         /\ q.remote_outcome_uncertain = r.remote_outcome_uncertain
  <1>0. r.fence + 1 \in Nat /\ r.recoveries + 1 \in Nat
    BY DEF Row
  <1>1. Restarted(r, st, risk) \in Row
    BY <1>0 DEF Restarted, Row
  <1>2. Restarted(r, st, risk).risk = risk
    BY DEF Restarted, Row
  <1> QED BY <1>1, <1>2 DEF Restarted, Row, SamePast

LEMMA PendingRow ==
  ASSUME NEW origin \in {"append", "retarget", "retarget_at_risk"}
  PROVE  LET q == Pending(origin) IN
         /\ q \in Row
         /\ q.state = "pending" /\ ~q.sent /\ ~q.accepted
         /\ ~q.remote_outcome_uncertain /\ q.origin = origin
         /\ q.fence = 0 /\ q.cycle = 0 /\ q.recoveries = 0
  BY DEF Pending, Row, State, Ready

------------------------------------------------------------------------------
(* Counting *)

LEMMA StrideNat == Stride \in Nat /\ Stride = 2 * MaxAttempts + 1 /\ MaxAttempts \in Nat
                   /\ MaxRecoveries \in Nat
  BY DeliveryAssumption DEF Stride

\* Another recovery is worth one stride.
LEMMA StrideStep ==
  ASSUME NEW n \in Nat
  PROVE  /\ n * Stride \in Nat
         /\ (n + 1) * Stride = n * Stride + Stride
  BY StrideNat

LEMMA StrideMonotone ==
  ASSUME NEW m \in Nat, NEW n \in Nat, m <= n
  PROVE  m * Stride <= n * Stride
  <1>1. PICK k \in Nat : n = m + k
    <2>1. n - m \in Nat /\ n = m + (n - m)
      OBVIOUS
    <2> QED BY <2>1
  <1>2. n * Stride = m * Stride + k * Stride
    BY <1>1, StrideNat
  <1>3. k * Stride \in Nat /\ m * Stride \in Nat
    BY StrideStep
  <1> QED BY <1>2, <1>3

\* So the fence of a delivery stays below its bound.
LEMMA FenceBound ==
  ASSUME NEW r \in Row, Counted(r)
  PROVE  r.fence <= MaxFence
  <1>1. r.fence \in Nat /\ r.cycle \in Nat /\ r.recoveries \in Nat
    BY RowTyped
  <1>2. r.recoveries * Stride <= MaxRecoveries * Stride
    BY <1>1, StrideNat, StrideMonotone DEF Counted
  <1>3. /\ r.recoveries * Stride \in Nat /\ MaxRecoveries * Stride \in Nat
        /\ (MaxRecoveries + 1) * Stride = MaxRecoveries * Stride + Stride
    BY <1>1, StrideNat, StrideStep
  <1>4. MaxFence = MaxRecoveries * Stride + Stride
    BY <1>3 DEF MaxFence, Stride
  <1>5. r.fence <= r.recoveries * Stride + 2 * r.cycle
    <2>1. CASE r.state = "delivering"
      BY <1>1, <1>3, <2>1 DEF Counted
    <2>2. CASE r.state # "delivering"
      BY <1>1, <1>3, <2>2 DEF Counted
    <2> QED BY <2>1, <2>2
  <1>6. r.cycle <= MaxAttempts
    BY DEF Counted
  <1> HIDE DEF Stride
  <1> QED BY <1>1, <1>2, <1>3, <1>4, <1>5, <1>6, StrideNat

\* Giving a handler up raises the fence by the step its claim left room for.
LEMMA ExpiredCounted ==
  ASSUME NEW r \in Row, Counted(r), r.state = "delivering"
  PROVE  Counted(Expired(r))
  <1>1. r.recoveries * Stride \in Nat /\ r.fence \in Nat /\ r.cycle \in Nat
    BY RowTyped, StrideStep
  <1> DEFINE q == Expired(r)
  <1>2. /\ q.state = "reconciling" /\ q.fence = r.fence + 1 /\ q.cycle = r.cycle
        /\ q.recoveries = r.recoveries
    BY ExpiredRow
  <1> HIDE DEF q
  <1>3. Counted(q)
    BY <1>1, <1>2 DEF Counted
  <1> QED BY <1>3 DEF q

\* A row whose lease is over is given up before anything else is done with it.
LEMMA GivenUp ==
  ASSUME NEW r \in Row, Counted(r)
  PROVE  LET q == ExpireIfLapsed(r) IN
         /\ q \in Row /\ Counted(q) /\ SamePast(r, q)
         /\ q.risk = r.risk /\ q.recoveries = r.recoveries /\ q.cycle = r.cycle
         /\ \/ q = r
            \/ /\ r.state = "delivering" /\ q.state = "reconciling"
               /\ q.remote_outcome_uncertain /\ q.fence = r.fence + 1
  <1>1. CASE Lapsed(r)
    <2>1. r.state = "delivering" /\ ExpireIfLapsed(r) = Expired(r)
      BY <1>1 DEF Lapsed, ExpireIfLapsed
    <2> QED BY <2>1, ExpiredRow, ExpiredCounted
  <1>2. CASE ~Lapsed(r)
    BY <1>2 DEF ExpireIfLapsed, SamePast
  <1> QED BY <1>1, <1>2

------------------------------------------------------------------------------
(* Steps that rewrite rows and leave the network alone *)

\* What such a step may make of the row of d. A doubt is never dropped, a
\* handler is never given the fence anew, and nothing becomes ready to be sent
\* again unless it was, was never sent, or may be.
Lawful(d, q) ==
    LET r == delivery[d] IN
    /\ q \in Row
    /\ Counted(q)
    /\ SamePast(r, q)
    /\ q.fence >= r.fence
    /\ q.recoveries >= r.recoveries
    /\ r.state \in Terminal \cup {"accepted"} /\ q.state \in Ready \cup {"delivering"} =>
           q.recoveries > r.recoveries
    /\ Fresh(q) => Fresh(r) /\ (Sending(r) => Sending(q))
    /\ q.state = "delivering" =>
           /\ r.state = "delivering" /\ q.fence = r.fence /\ q.risk = r.risk
           /\ q.remote_outcome_uncertain = r.remote_outcome_uncertain
    /\ ~SubscriptionOf(d).idempotent /\ ~q.risk /\ q.state \in {"pending", "retry_wait"} =>
           ~r.sent \/ (~r.risk /\ r.state \in {"pending", "retry_wait"})

Rewrites ==
    /\ UNCHANGED <<routing, network>>
    /\ active' \in BOOLEAN
    /\ authority' \in [open: BOOLEAN, epoch: 1..MaxEpoch]
    /\ DOMAIN delivery' = DOMAIN delivery
    /\ jobs' \subseteq DOMAIN delivery
    /\ \A d \in DOMAIN delivery : Lawful(d, delivery'[d])

\* What has stopped or was accepted starts again only by a recovery.
Restarts ==
    \A d \in DOMAIN delivery :
        /\ delivery[d].state \in Terminal \cup {"accepted"}
        /\ delivery'[d].state \in Ready \cup {"delivering"}
        => delivery'[d].recoveries > delivery[d].recoveries

\* The types these proofs need of the tables.
LEMMA TableFields ==
  ASSUME Tables
  PROVE  /\ \A d \in DOMAIN delivery :
                /\ d \in Id /\ delivery[d] \in Row /\ Counted(delivery[d])
                /\ delivery[d].fence \in Nat
                /\ delivery[d].recoveries \in Nat
                /\ d[2] \in DOMAIN subscriptions
                /\ copy[d] \in Copies
         /\ \A h \in DOMAIN handlers :
                /\ h[1] \in DOMAIN delivery /\ h = <<h[1], h[2]>>
                /\ h[2] \in Nat /\ h[2] <= delivery[h[1]].fence
                /\ handlers[h] \in Handler
  <1>1. \A d \in DOMAIN delivery :
            /\ d \in Id /\ delivery[d] \in Row /\ Counted(delivery[d])
            /\ d[2] \in DOMAIN subscriptions
            /\ copy[d] \in Copies
    BY DEF Tables, TypeOK
  <1>2. \A d \in DOMAIN delivery : delivery[d].fence \in Nat /\ delivery[d].recoveries \in Nat
    BY <1>1, RowTyped
  <1>3. \A h \in DOMAIN handlers :
            /\ h[1] \in DOMAIN delivery /\ h = <<h[1], h[2]>>
            /\ h[2] \in 1..delivery[h[1]].fence
            /\ handlers[h] \in Handler
    BY DEF Tables, TypeOK
  <1> QED BY <1>1, <1>2, <1>3

LEMMA RewritesTables ==
  ASSUME Tables, Rewrites
  PROVE  Tables' /\ Restarts
  <1> USE DEF Rewrites, routing, network
  <1>1. \A d \in DOMAIN delivery : /\ delivery'[d] \in Row /\ Counted(delivery'[d])
                                   /\ delivery'[d].fence <= MaxFence
                                   /\ delivery'[d].fence \in Nat
                                   /\ delivery'[d].fence >= delivery[d].fence
    BY FenceBound, RowTyped DEF Lawful
  <1>2. \A h \in DOMAIN handlers : h[2] \in 1..delivery'[h[1]].fence
    <2> SUFFICES ASSUME NEW h \in DOMAIN handlers
                 PROVE  h[2] \in 1..delivery'[h[1]].fence
      OBVIOUS
    <2>1. h[1] \in DOMAIN delivery /\ h[2] \in 1..delivery[h[1]].fence
      BY DEF Tables, TypeOK
    <2>2. delivery[h[1]].fence \in Nat
      BY <2>1, TableFields
    <2> QED BY <1>1, <2>1, <2>2
  <1>3. TypeOK'
    BY <1>1, <1>2 DEF Tables, TypeOK
  <1>4. Tables'
    BY <1>1, <1>3 DEF Tables, Exists
  <1>5. Restarts
    BY DEF Restarts, Lawful
  <1> QED BY <1>4, <1>5

LEMMA RewritesRouting ==
  ASSUME Tables, Routing, Rewrites
  PROVE  Routing'
  <1> USE DEF Rewrites, routing
  <1>1. \A d \in DOMAIN delivery : /\ delivery'[d].sent = delivery[d].sent
                                   /\ delivery'[d].origin = delivery[d].origin
                                   /\ delivery'[d].accepted = delivery[d].accepted
    BY DEF Lawful, SamePast
  <1>2. Routed'
    BY DEF Routing, Routed
  <1>3. FirstRecipient'
    BY <1>1 DEF Routing, FirstRecipient
  <1>4. CursorCovers'
    BY <1>1 DEF Routing, CursorCovers, SubscriptionOf
  <1> QED BY <1>2, <1>3, <1>4 DEF Routing

LEMMA RewritesSettled ==
  ASSUME Tables, Settled, Rewrites
  PROVE  Settled'
  <1> USE DEF Rewrites, routing, network
  <1>1. \A d : Clean(d)' <=> Clean(d)
    BY DEF Clean, Waiting
  <1>2. ASSUME NEW d \in DOMAIN delivery
        PROVE  Rightly(d)'
    <2> DEFINE r == delivery[d]
               q == delivery'[d]
    <2>1. Lawful(d, q) /\ Rightly(d)
      BY DEF Settled
    <2>2. SubscriptionOf(d)' = SubscriptionOf(d)
      BY DEF SubscriptionOf
    <2>3. r.sent \in BOOLEAN /\ r.risk \in BOOLEAN /\ q.risk \in BOOLEAN
      BY <2>1, TableFields, RowTyped DEF Lawful
    <2>4. ASSUME Denies(d)'
          PROVE  Denies(d)
      <3>1. CASE Fresh(q) /\ ~Sending(q)
        BY <2>1, <3>1 DEF Lawful, Denies
      <3>2. CASE ~q.sent
        BY <2>1, <3>2 DEF Lawful, SamePast, Denies
      <3>3. CASE Careful(d)' /\ q.state \in {"pending", "retry_wait"}
        BY <2>1, <2>2, <2>3, <3>3 DEF Lawful, Denies, Careful
      <3> QED BY <2>4, <3>1, <3>2, <3>3 DEF Denies
    <2>5. ASSUME NEW h \in DOMAIN handlers, h = <<d, q.fence>>,
                 Sending(q), Fresh(q) \/ Careful(d)'
          PROVE  FirstCall(d, h)'
      <3>1. /\ Sending(r) /\ q.fence = r.fence /\ q.risk = r.risk
        BY <2>1, <2>5 DEF Lawful, Sending, SamePast
      <3>2. Fresh(r) \/ Careful(d)
        BY <2>1, <2>2, <2>5, <3>1 DEF Lawful, Careful
      <3>3. FirstCall(d, h)
        BY <2>1, <2>5, <3>1, <3>2 DEF Rightly
      <3> QED BY <1>1, <3>3 DEF FirstCall, Waiting
    <2>6. q.accepted = r.accepted
      BY <2>1 DEF Lawful, SamePast
    <2> HIDE DEF r, q
    <2> QED BY <1>1, <2>1, <2>4, <2>5, <2>6 DEF Rightly, r, q
  <1>3. ASSUME NEW h \in DOMAIN handlers
        PROVE  Heard(h)'
    <2>1. Heard(h) /\ h[1] \in DOMAIN delivery /\ Lawful(h[1], delivery'[h[1]])
          /\ h[2] \in Nat /\ h[2] <= delivery[h[1]].fence /\ delivery[h[1]].fence \in Nat
      BY TableFields DEF Settled
    <2>2. delivery'[h[1]].fence \in Nat /\ delivery'[h[1]].fence >= delivery[h[1]].fence
      BY <2>1, RowTyped DEF Lawful
    <2>3. h[2] = delivery'[h[1]].fence => h[2] = delivery[h[1]].fence
      BY <2>1, <2>2
    <2> QED BY <2>1, <2>3 DEF Heard, Lawful, SamePast
  <1> QED BY <1>2, <1>3 DEF Settled

------------------------------------------------------------------------------
(* What a step is in the abstract notification *)

Wire == late \cup {d \in Id : Waiting(d) # {}}

\* What a step leaves alone of a delivery, seen from the abstract notification.
SameHas == \A d \in Id : AgentHas(d)' = AgentHas(d)
SameWire == \A d \in Id : d \in Wire' <=> d \in Wire
SameBelief == \A d \in Id : Belief(d)' = Belief(d)

LEMMA WireEqual ==
  ASSUME SameWire, late \subseteq Id, late' \subseteq Id
  PROVE  Wire' = Wire
  <1>1. Wire \subseteq Id
    BY DEF Wire
  <1>2. Wire' \subseteq Id
    BY DEF Wire
  <1> HIDE DEF Wire
  <1> QED BY <1>1, <1>2 DEF SameWire

\* Nothing but doubt comes up; nothing at all when S is empty.
LEMMA AsDoubt ==
  ASSUME SameHas, Wire' = Wire,
         \A d \in Id : \/ Belief(d)' = Belief(d)
                       \/ Belief(d) = "none" /\ Belief(d)' = "maybe"
  PROVE  N!Next
  <1> DEFINE S == {d \in Id : Belief(d) = "none" /\ Belief(d)' = "maybe"}
  <1>1. S \in SUBSET Id
    OBVIOUS
  <1>2. \A d \in S : d \in Id /\ Belief(d) = "none"
    OBVIOUS
  <1>3. \A d \in Id : Belief(d)' = IF d \in S THEN "maybe" ELSE Belief(d)
    OBVIOUS
  <1> HIDE DEF S
  <1>4. N!Doubt(S)
    BY <1>2, <1>3 DEF N!Doubt, SameHas, Wire
  <1> QED BY <1>1, <1>4 DEF N!Next

LEMMA RewritesNotify ==
  ASSUME Tables, Rewrites
  PROVE  N!Next
  <1> USE DEF Rewrites, routing, network
  <1>1. SameHas /\ Wire' = Wire
    BY DEF SameHas, AgentHas, Wire, Waiting
  <1>2. ASSUME NEW d \in Id
        PROVE  \/ Belief(d)' = Belief(d)
               \/ Belief(d) = "none" /\ Belief(d)' = "maybe"
    <2>1. CASE d \notin DOMAIN delivery
      BY <2>1 DEF Belief, Exists
    <2>2. CASE d \in DOMAIN delivery
      <3> DEFINE r == delivery[d]
                 q == delivery'[d]
      <3>1. Lawful(d, q)
        BY <2>2
      <3>2. Belief(d) = IF r.accepted THEN "durable"
                        ELSE IF r.remote_outcome_uncertain \/ Sending(r) THEN "maybe" ELSE "none"
        BY <2>2 DEF Belief, Exists, Sending
      <3>3. Belief(d)' = IF q.accepted THEN "durable"
                         ELSE IF q.remote_outcome_uncertain \/ Sending(q) THEN "maybe" ELSE "none"
        BY <2>2 DEF Belief, Exists, Sending
      <3>4. q.accepted = r.accepted
        BY <3>1 DEF Lawful, SamePast
      <3>5. Fresh(q) => Fresh(r) /\ (Sending(r) => Sending(q))
        BY <3>1 DEF Lawful
      <3> HIDE DEF r, q
      <3>6. CASE r.accepted
        BY <3>2, <3>3, <3>4, <3>6
      <3>7. CASE ~r.accepted /\ Fresh(q)
        <4>1. ~r.remote_outcome_uncertain /\ ~q.remote_outcome_uncertain /\ ~q.accepted
          BY <3>5, <3>7 DEF Fresh
        <4> QED BY <3>2, <3>3, <3>5, <3>7, <4>1
      <3>8. CASE ~r.accepted /\ ~Fresh(q)
        <4>1. q.remote_outcome_uncertain /\ ~q.accepted
          BY <3>4, <3>8 DEF Fresh
        <4> QED BY <3>2, <3>3, <3>8, <4>1
      <3> QED BY <3>6, <3>7, <3>8
    <2> QED BY <2>1, <2>2
  <1> QED BY <1>1, <1>2, AsDoubt

------------------------------------------------------------------------------
(* Which steps those are *)

LEMMA LawfulSame ==
  ASSUME Tables, NEW d \in DOMAIN delivery
  PROVE  Lawful(d, delivery[d])
  <1>1. delivery[d] \in Row /\ Counted(delivery[d])
        /\ delivery[d].fence \in Nat /\ delivery[d].recoveries \in Nat
    BY TableFields
  <1> QED BY <1>1 DEF Lawful, SamePast, Terminal, Ready

LEMMA OneRow ==
  ASSUME Tables, NEW d \in DOMAIN delivery, NEW row, Lawful(d, row),
         delivery' = [delivery EXCEPT ![d] = row],
         UNCHANGED <<hub, routing, network>>, jobs' \subseteq DOMAIN delivery
  PROVE  Rewrites
  <1>1. DOMAIN delivery' = DOMAIN delivery /\ delivery'[d] = row
        /\ \A k \in DOMAIN delivery : k # d => delivery'[k] = delivery[k]
    OBVIOUS
  <1>2. \A k \in DOMAIN delivery : Lawful(k, delivery'[k])
    BY <1>1, LawfulSame
  <1>3. active' \in BOOLEAN /\ authority' \in [open: BOOLEAN, epoch: 1..MaxEpoch]
    BY DEF Tables, TypeOK, hub
  <1> QED BY <1>1, <1>2, <1>3 DEF Rewrites

\* Stopping a delivery whose handler, if it had one, was given up.
LEMMA StoppedLawful ==
  ASSUME Tables, NEW d \in DOMAIN delivery, NEW st \in {"uncertain", "dead_letter"},
         NEW u \in BOOLEAN, NEW g, g = ExpireIfLapsed(delivery[d]), g.state \in Ready,
         g.remote_outcome_uncertain => u
  PROVE  Lawful(d, Stopped(g, st, u))
  <1> DEFINE r == delivery[d]
             q == Stopped(g, st, u)
  <1>1. r \in Row /\ Counted(r)
    BY TableFields
  <1>2. /\ g \in Row /\ Counted(g) /\ SamePast(r, g)
        /\ g.risk = r.risk /\ g.recoveries = r.recoveries /\ g.cycle = r.cycle
        /\ \/ g = r
           \/ /\ r.state = "delivering" /\ g.state = "reconciling"
              /\ g.remote_outcome_uncertain /\ g.fence = r.fence + 1
    BY <1>1, GivenUp
  <1>3. st \in State
    BY DEF State, Terminal
  <1>4. /\ q \in Row /\ SamePast(g, q)
        /\ q.state = st /\ q.remote_outcome_uncertain = u
        /\ q.fence = g.fence /\ q.cycle = g.cycle /\ q.recoveries = g.recoveries
    BY <1>2, <1>3, StoppedRow
  <1> HIDE DEF r, q
  <1>5. /\ r.fence \in Nat /\ r.recoveries \in Nat /\ r.cycle \in Nat /\ g.fence \in Nat
        /\ r.recoveries * Stride \in Nat
    BY <1>1, <1>2, RowTyped, StrideStep
  <1>6. Counted(q)
    BY <1>2, <1>4, <1>5 DEF Counted, Ready
  <1>7. q.fence >= r.fence
    BY <1>2, <1>4, <1>5
  <1>8. Fresh(q) => Fresh(r) /\ ~Sending(r)
    <2> SUFFICES ASSUME Fresh(q)
                 PROVE  Fresh(r) /\ ~Sending(r)
      OBVIOUS
    <2>1. ~g.remote_outcome_uncertain /\ ~q.accepted
      BY <1>4 DEF Fresh
    <2>2. g = r
      BY <1>2, <2>1
    <2> QED BY <1>4, <2>1, <2>2 DEF Fresh, Sending, SamePast, Ready
  <1>9. SamePast(r, q) /\ q.state \notin Ready \cup {"delivering"}
    BY <1>2, <1>4 DEF SamePast, Ready
  <1>10. Lawful(d, q)
    BY <1>4, <1>2, <1>5, <1>6, <1>7, <1>8, <1>9 DEF Lawful, Ready, r
  <1> QED BY <1>10 DEF q

LEMMA StopRewrites ==
  ASSUME Tables, NEW d \in DOMAIN delivery, NEW u \in BOOLEAN,
         NEW g, g = ExpireIfLapsed(delivery[d]), g.state \in Ready,
         g.remote_outcome_uncertain => u,
         delivery' = [delivery EXCEPT ![d] =
                          Stopped(g, IF u THEN "uncertain" ELSE "dead_letter", u)],
         UNCHANGED <<hub, routing, network>>, jobs' = jobs \ {d}
  PROVE  Rewrites
  <1> DEFINE st == IF u THEN "uncertain" ELSE "dead_letter"
             row == Stopped(g, st, u)
  <1>1. st \in {"uncertain", "dead_letter"}
    OBVIOUS
  <1> HIDE DEF st
  <1>2. Lawful(d, row)
    BY <1>1, StoppedLawful
  <1>3. delivery' = [delivery EXCEPT ![d] = row]
    BY DEF st
  <1>4. jobs' \subseteq DOMAIN delivery
    BY DEF Tables, TypeOK
  <1> HIDE DEF row
  <1> QED BY <1>2, <1>3, <1>4, OneRow

LEMMA BlockTargetRewrites ==
  ASSUME Tables, NEW d, BlockTarget(d)
  PROVE  Rewrites
  <1> DEFINE g == ExpireIfLapsed(delivery[d])
             u == g.remote_outcome_uncertain \/ g.accepted
  <1>1. d \in DOMAIN delivery /\ g.state \in Ready
    BY DEF BlockTarget, Exists, Wakes
  <1>2. u \in BOOLEAN /\ (g.remote_outcome_uncertain => u)
    OBVIOUS
  <1>3. /\ delivery' = [delivery EXCEPT ![d] =
                            Stopped(g, IF u THEN "uncertain" ELSE "dead_letter", u)]
        /\ UNCHANGED <<hub, routing, network>> /\ jobs' = jobs \ {d}
    BY DEF BlockTarget
  <1> HIDE DEF g, u
  <1>4. g = ExpireIfLapsed(delivery[d])
    BY DEF g
  <1> QED BY <1>1, <1>2, <1>3, <1>4, StopRewrites

LEMMA ExhaustRewrites ==
  ASSUME Tables, NEW d, Exhaust(d)
  PROVE  Rewrites
  <1> DEFINE g == ExpireIfLapsed(delivery[d])
             u == g.remote_outcome_uncertain
  <1>1. d \in DOMAIN delivery /\ g.state \in Ready
    BY DEF Exhaust, Exists, Wakes
  <1>2. u \in BOOLEAN /\ (g.remote_outcome_uncertain => u)
    BY <1>1, TableFields, GivenUp, RowTyped
  <1>3. /\ delivery' = [delivery EXCEPT ![d] =
                            Stopped(g, IF u THEN "uncertain" ELSE "dead_letter", u)]
        /\ UNCHANGED <<hub, routing, network>> /\ jobs' = jobs \ {d}
    BY DEF Exhaust
  <1> HIDE DEF g, u
  <1>4. g = ExpireIfLapsed(delivery[d])
    BY DEF g
  <1> QED BY <1>1, <1>2, <1>3, <1>4, StopRewrites

LEMMA MaintainRewrites ==
  ASSUME Tables, NEW d, Maintain(d)
  PROVE  Rewrites
  <1> DEFINE r == delivery[d]
             q == ExpireIfLapsed(r)
  <1>1. d \in DOMAIN delivery
    BY DEF Maintain, Exists
  <1>2. r \in Row /\ Counted(r) /\ r.fence \in Nat /\ r.recoveries \in Nat
    BY <1>1, TableFields
  <1>3. /\ q \in Row /\ Counted(q) /\ SamePast(r, q)
        /\ q.risk = r.risk /\ q.recoveries = r.recoveries /\ q.cycle = r.cycle
        /\ \/ q = r
           \/ /\ r.state = "delivering" /\ q.state = "reconciling"
              /\ q.remote_outcome_uncertain /\ q.fence = r.fence + 1
    BY <1>2, GivenUp
  <1>4. delivery' = [delivery EXCEPT ![d] = q]
        /\ UNCHANGED <<hub, routing, network>> /\ jobs' = jobs \cup {d}
    BY DEF Maintain
  <1> HIDE DEF q
  <1>5. Lawful(d, q)
    <2>1. CASE q = r
      BY <1>1, <2>1, LawfulSame
    <2>2. CASE q # r
      BY <1>2, <1>3, <2>2 DEF Lawful, Fresh, Terminal
    <2> QED BY <2>1, <2>2
  <1>6. jobs' \subseteq DOMAIN delivery
    BY <1>1, <1>4 DEF Tables, TypeOK
  <1> QED BY <1>1, <1>4, <1>5, <1>6, OneRow

LEMMA CloseRewrites ==
  ASSUME Tables, ClosePlatform
  PROVE  Rewrites
  <1>1. ASSUME NEW d \in DOMAIN delivery
        PROVE  Lawful(d, delivery'[d])
    <2> DEFINE r == delivery[d]
               q == Fenced(r)
    <2>1. r \in Row /\ Counted(r) /\ r.fence \in Nat /\ r.recoveries \in Nat
      BY TableFields
    <2>2. delivery'[d] = q
      BY DEF ClosePlatform
    <2>3. CASE r.state = "delivering"
      <3>1. q = Expired(r)
        BY <2>3 DEF Fenced
      <3>2. Counted(q)
        BY <2>1, <2>3, <3>1, ExpiredCounted
      <3>3. /\ q \in Row /\ SamePast(r, q)
            /\ q.state = "reconciling" /\ q.remote_outcome_uncertain
            /\ q.fence = r.fence + 1 /\ q.risk = r.risk /\ q.recoveries = r.recoveries
        BY <2>1, <3>1, ExpiredRow
      <3> HIDE DEF q
      <3> QED BY <2>1, <2>2, <2>3, <3>2, <3>3 DEF Lawful, Fresh, Terminal
    <2>4. CASE r.state # "delivering"
      BY <2>2, <2>4, LawfulSame DEF Fenced
    <2> QED BY <2>3, <2>4
  <1>2. authority' \in [open: BOOLEAN, epoch: 1..MaxEpoch]
    <2>1. authority.epoch \in 1..MaxEpoch /\ MaxEpoch \in Nat
      BY DeliveryAssumption DEF Tables, TypeOK
    <2>2. authority.epoch + 1 \in 1..MaxEpoch
      BY <2>1 DEF ClosePlatform
    <2> QED BY <2>2 DEF ClosePlatform
  <1>3. /\ UNCHANGED <<active, routing, jobs, network>>
        /\ DOMAIN delivery' = DOMAIN delivery
    BY DEF ClosePlatform
  <1> QED BY <1>1, <1>2, <1>3 DEF Rewrites, Tables, TypeOK

\* Only the time left of leases, renewals and backoffs changes.
LEMMA TimersLawful ==
  ASSUME Tables, NEW d \in DOMAIN delivery, NEW w \in Nat, NEW l \in Nat, NEW n \in Nat,
         NEW q, q = [delivery[d] EXCEPT !.wait = w, !.lease = l, !.renewal = n]
  PROVE  Lawful(d, q)
  <1> DEFINE r == delivery[d]
  <1>1. r \in Row /\ Counted(r) /\ r.fence \in Nat /\ r.recoveries \in Nat
    BY TableFields
  <1>2. q \in Row
    BY <1>1 DEF Row
  <1>3. /\ SamePast(r, q) /\ q.state = r.state /\ q.fence = r.fence /\ q.cycle = r.cycle
        /\ q.recoveries = r.recoveries /\ q.risk = r.risk
        /\ q.remote_outcome_uncertain = r.remote_outcome_uncertain
    BY <1>1 DEF Row, SamePast
  <1>4. Counted(q) /\ (Fresh(q) <=> Fresh(r)) /\ (Sending(q) <=> Sending(r))
    BY <1>1, <1>3 DEF Counted, Fresh, Sending, SamePast
  <1> QED BY <1>1, <1>2, <1>3, <1>4 DEF Lawful, Terminal, Ready

LEMMA TickRewrites ==
  ASSUME Tables, Tick
  PROVE  Rewrites
  <1>1. ASSUME NEW d \in DOMAIN delivery
        PROVE  Lawful(d, delivery'[d])
    <2>1. delivery[d].wait \in Nat /\ delivery[d].lease \in Nat /\ delivery[d].renewal \in Nat
      BY TableFields, RowTyped
    <2>2. /\ Less(delivery[d].wait) \in Nat /\ Less(delivery[d].lease) \in Nat
          /\ Less(delivery[d].renewal) \in Nat
      BY <2>1 DEF Less
    <2>3. delivery'[d] = [delivery[d] EXCEPT !.wait = Less(delivery[d].wait),
                                             !.lease = Less(delivery[d].lease),
                                             !.renewal = Less(delivery[d].renewal)]
      BY DEF Tick
    <2> DEFINE w == Less(delivery[d].wait)
               l == Less(delivery[d].lease)
               n == Less(delivery[d].renewal)
    <2> HIDE DEF w, l, n
    <2>4. delivery'[d] = [delivery[d] EXCEPT !.wait = w, !.lease = l, !.renewal = n]
      BY <2>3 DEF w, l, n
    <2>5. w \in Nat /\ l \in Nat /\ n \in Nat
      BY <2>2 DEF w, l, n
    <2> QED BY <2>4, <2>5, TimersLawful
  <1>2. /\ UNCHANGED <<hub, routing, jobs, network>>
        /\ DOMAIN delivery' = DOMAIN delivery
    BY DEF Tick
  <1> QED BY <1>1, <1>2 DEF Rewrites, Tables, TypeOK, hub

LEMMA RenewRewrites ==
  ASSUME Tables, NEW h, Renew(h)
  PROVE  Rewrites
  <1> DEFINE d == h[1]
             lease == Earlier(LeaseTTL, delivery[d].renewal)
             row == [delivery[d] EXCEPT !.lease = lease]
             alt == [delivery[d] EXCEPT !.wait = delivery[d].wait, !.lease = lease,
                                        !.renewal = delivery[d].renewal]
  <1>1. d \in DOMAIN delivery
    BY TableFields DEF Renew
  <1>2. delivery[d] \in Row /\ delivery[d].wait \in Nat /\ delivery[d].renewal \in Nat
    BY <1>1, TableFields, RowTyped
  <1>3. lease \in Nat
    BY <1>2, DeliveryAssumption DEF Earlier
  <1>4. row = alt
    <2> HIDE DEF lease
    <2> QED BY <1>2 DEF Row
  <1>5. delivery' = [delivery EXCEPT ![d] = row] /\ UNCHANGED <<hub, routing, jobs, network>>
    BY <1>1 DEF Renew
  <1>6. Lawful(d, row)
    <2> HIDE DEF lease, row
    <2> DEFINE w == delivery[d].wait
               n == delivery[d].renewal
    <2>1. row = [delivery[d] EXCEPT !.wait = w, !.lease = lease, !.renewal = n]
      BY <1>4
    <2>2. w \in Nat /\ n \in Nat
      BY <1>2
    <2> HIDE DEF w, n
    <2> QED BY <1>1, <1>3, <2>1, <2>2, TimersLawful
  <1>7. jobs' \subseteq DOMAIN delivery
    BY <1>5 DEF Tables, TypeOK
  <1> HIDE DEF row, d
  <1> QED BY <1>1, <1>5, <1>6, <1>7, OneRow

LEMMA CancelRewrites ==
  ASSUME Tables, NEW d, Cancel(d)
  PROVE  Rewrites
  <1> DEFINE r == delivery[d]
             u == r.remote_outcome_uncertain
                    \/ r.state \in {"delivering", "accepted", "reconciling"}
             row == [r EXCEPT !.state = "cancelled", !.remote_outcome_uncertain = u,
                              !.fence = r.fence + 1, !.lease = 0, !.renewal = 0, !.wait = 0,
                              !.recoveries = r.recoveries + 1]
  <1>1. d \in DOMAIN delivery /\ r.recoveries < MaxRecoveries
    BY DEF Cancel, Exists
  <1>2. /\ r \in Row /\ Counted(r) /\ r.fence \in Nat /\ r.recoveries \in Nat
        /\ r.cycle \in Nat /\ r.remote_outcome_uncertain \in BOOLEAN
    BY <1>1, TableFields, RowTyped
  <1>3. u \in BOOLEAN
    OBVIOUS
  <1>4. delivery' = [delivery EXCEPT ![d] = row] /\ UNCHANGED <<hub, routing, jobs, network>>
    BY DEF Cancel
  <1>5. u <=> r.remote_outcome_uncertain
                \/ r.state \in {"delivering", "accepted", "reconciling"}
    OBVIOUS
  <1> HIDE DEF r, u
  <1>6. "cancelled" \in State /\ r.fence + 1 \in Nat /\ r.recoveries + 1 \in Nat
    BY <1>2 DEF State, Terminal
  <1>7. row \in Row
    BY <1>2, <1>3, <1>6 DEF Row
  <1>8. row.remote_outcome_uncertain = u
    BY <1>2, <1>3 DEF Row
  <1>9. /\ SamePast(r, row) /\ row.state = "cancelled" /\ row.fence = r.fence + 1
        /\ row.recoveries = r.recoveries + 1 /\ row.cycle = r.cycle
    BY <1>2 DEF Row, SamePast
  <1> HIDE DEF row
  <1>10. Counted(row)
    <2>1. /\ r.recoveries * Stride \in Nat
          /\ (r.recoveries + 1) * Stride = r.recoveries * Stride + Stride
      BY <1>2, StrideStep
    <2>2. r.fence <= r.recoveries * Stride + 2 * r.cycle
      BY <1>2, <2>1 DEF Counted
    <2>3. row.fence <= (r.recoveries + 1) * Stride + 2 * r.cycle
      <3> HIDE DEF Stride
      <3> QED BY <1>2, <1>9, <2>1, <2>2, StrideNat
    <2>4. row.recoveries <= MaxRecoveries /\ r.cycle <= MaxAttempts
      BY <1>1, <1>2, <1>9, StrideNat DEF Counted, r
    <2>5. row.fence + 0 = row.fence
      BY <1>2, <1>9
    <2> QED BY <1>9, <2>3, <2>4, <2>5 DEF Counted
  <1>11. Fresh(row) => Fresh(r) /\ ~Sending(r)
    BY <1>5, <1>8, <1>9 DEF Fresh, Sending, SamePast
  <1>12. Lawful(d, row)
    BY <1>2, <1>7, <1>9, <1>10, <1>11 DEF Lawful, Ready, r
  <1>13. jobs' \subseteq DOMAIN delivery
    BY <1>4 DEF Tables, TypeOK
  <1> QED BY <1>1, <1>4, <1>12, <1>13, OneRow

\* A recovery starts a delivery that is not being delivered.
LEMMA RestartRewrites ==
  ASSUME Tables, NEW d, Recoverable(d), NEW st \in {"pending", "reconciling"},
         NEW risk \in BOOLEAN,
         st = "pending" => RiskTaken(d, risk),
         delivery' = [delivery EXCEPT ![d] = Restarted(delivery[d], st, risk)],
         UNCHANGED <<hub, routing, network>>, jobs' = jobs \cup {d}
  PROVE  Rewrites
  <1> DEFINE r == delivery[d]
             row == Restarted(r, st, risk)
  <1>1. d \in DOMAIN delivery /\ r.recoveries < MaxRecoveries /\ r.state # "delivering"
    BY DEF Recoverable, Exists
  <1>2. /\ r \in Row /\ Counted(r) /\ r.fence \in Nat /\ r.recoveries \in Nat
        /\ r.cycle \in Nat
    BY <1>1, TableFields, RowTyped
  <1>3. st \in State
    BY DEF State, Ready
  <1>4. /\ row \in Row /\ SamePast(r, row)
        /\ row.state = st /\ row.risk = risk /\ row.cycle = 0
        /\ row.fence = r.fence + 1 /\ row.recoveries = r.recoveries + 1
        /\ row.remote_outcome_uncertain = r.remote_outcome_uncertain
    BY <1>2, <1>3, RestartedRow
  <1> HIDE DEF row
  <1>5. Counted(row)
    <2>1. /\ r.recoveries * Stride \in Nat
          /\ (r.recoveries + 1) * Stride = r.recoveries * Stride + Stride
      BY <1>2, StrideStep
    <2>2. r.fence <= r.recoveries * Stride + 2 * r.cycle /\ r.cycle <= MaxAttempts
      BY <1>1, <1>2, <2>1 DEF Counted
    <2>3. row.fence + 0 <= (r.recoveries + 1) * Stride + 2 * 0
      <3>1. r.fence + 1 <= r.recoveries * Stride + Stride
        <4> HIDE DEF Stride
        <4> QED BY <1>2, <2>1, <2>2, StrideNat
      <3> HIDE DEF Stride
      <3> QED BY <1>2, <1>4, <2>1, <3>1, StrideNat
    <2>4. row.recoveries <= MaxRecoveries /\ 0 <= MaxAttempts
      BY <1>1, <1>2, <1>4, StrideNat
    <2> QED BY <1>4, <2>3, <2>4 DEF Counted
  <1>6. (Fresh(row) <=> Fresh(r)) /\ ~Sending(r)
    BY <1>1, <1>4 DEF Fresh, Sending, SamePast
  <1>7. ~SubscriptionOf(d).idempotent /\ ~row.risk /\ row.state \in {"pending", "retry_wait"} =>
            ~r.sent
    BY <1>4 DEF RiskTaken
  <1>8. Lawful(d, row)
    BY <1>2, <1>4, <1>5, <1>6, <1>7 DEF Lawful
  <1>9. delivery' = [delivery EXCEPT ![d] = row]
    BY DEF row
  <1>10. jobs' \subseteq DOMAIN delivery
    BY <1>1 DEF Tables, TypeOK
  <1> QED BY <1>1, <1>8, <1>9, <1>10, OneRow

LEMMA RecoverRewrites ==
  ASSUME Tables, NEW d, Reconcile(d) \/ \E risk \in BOOLEAN : Redeliver(d, risk)
  PROVE  Rewrites
  <1>1. CASE Reconcile(d)
    BY <1>1, RestartRewrites DEF Reconcile
  <1>2. ASSUME NEW risk \in BOOLEAN, Redeliver(d, risk)
        PROVE  Rewrites
    BY <1>2, RestartRewrites DEF Redeliver
  <1> QED BY <1>1, <1>2

\* A step that writes no row.
LEMMA SameRowsRewrites ==
  ASSUME Tables, UNCHANGED <<routing, delivery, network>>,
         active' \in BOOLEAN, authority' \in [open: BOOLEAN, epoch: 1..MaxEpoch],
         jobs' \subseteq jobs
  PROVE  Rewrites
  BY LawfulSame DEF Rewrites, Tables, TypeOK

LEMMA IdleRewrites ==
  ASSUME Tables,
         \/ \E to \in BOOLEAN : SetProject(to)
         \/ ActivatePlatform
         \/ \E d \in Id : DropWakeup(d) \/ LoseWakeup(d)
         \/ UNCHANGED vars
  PROVE  Rewrites
  <1>1. active \in BOOLEAN /\ authority \in [open: BOOLEAN, epoch: 1..MaxEpoch]
    BY DEF Tables, TypeOK
  <1>2. ASSUME NEW to \in BOOLEAN, SetProject(to)
        PROVE  Rewrites
    BY <1>1, <1>2, SameRowsRewrites DEF SetProject
  <1>3. CASE ActivatePlatform
    <2>1. authority.epoch \in 1..MaxEpoch /\ MaxEpoch \in Nat
      BY <1>1, DeliveryAssumption
    <2>2. authority.epoch + 1 \in 1..MaxEpoch
      BY <1>3, <2>1 DEF ActivatePlatform
    <2> QED BY <1>1, <1>3, <2>2, SameRowsRewrites DEF ActivatePlatform
  <1>4. ASSUME NEW d \in Id, DropWakeup(d) \/ LoseWakeup(d)
        PROVE  Rewrites
    BY <1>1, <1>4, SameRowsRewrites DEF DropWakeup, LoseWakeup, hub
  <1>5. CASE UNCHANGED vars
    BY <1>1, <1>5, SameRowsRewrites DEF vars, routing, network
  <1> QED BY <1>2, <1>3, <1>4, <1>5

------------------------------------------------------------------------------
(* Steps that change what is subscribed to *)

\* Such a step writes neither rows nor the network.
LEMMA RoutesKeep ==
  ASSUME Tables, Settled, UNCHANGED <<delivery, network>>,
         \A d \in DOMAIN delivery :
             SubscriptionOf(d)'.idempotent = SubscriptionOf(d).idempotent
  PROVE  Settled' /\ Restarts /\ N!Next
  <1> USE DEF network
  <1>1. \A d : Clean(d)' <=> Clean(d)
    BY DEF Clean, Waiting
  <1>2. ASSUME NEW d \in DOMAIN delivery
        PROVE  Rightly(d)'
    <2>1. Rightly(d)
      BY DEF Settled
    <2>2. Careful(d)' <=> Careful(d)
      BY DEF Careful
    <2>3. \A h : FirstCall(d, h)' <=> FirstCall(d, h)
      BY <1>1 DEF FirstCall, Waiting
    <2>4. Denies(d)' <=> Denies(d)
      BY <2>2 DEF Denies
    <2> QED BY <1>1, <2>1, <2>2, <2>3, <2>4 DEF Rightly
  <1>3. Settled'
    BY <1>2 DEF Settled, Heard
  <1>4. Restarts
    BY DEF Restarts, Terminal, Ready
  <1>5. SameHas /\ Wire' = Wire /\ SameBelief
    BY DEF SameHas, AgentHas, Wire, Waiting, SameBelief, Belief, Exists
  <1> QED BY <1>3, <1>4, <1>5, AsDoubt DEF SameBelief

LEMMA SubscriptionFields ==
  ASSUME Tables
  PROVE  /\ log \in Nat /\ DOMAIN subscriptions = 1..Len(subscriptions)
         /\ Len(subscriptions) \in Nat
         /\ \A s \in DOMAIN subscriptions :
                /\ subscriptions[s] \in Subscription
                /\ subscriptions[s].cursor \in Nat
                /\ subscriptions[s].idempotent \in BOOLEAN
                /\ subscriptions[s].enabled \in BOOLEAN
                /\ subscriptions[s].agent \in Agents
  <1>1. subscriptions \in Seq(Subscription)
    BY DEF Tables, TypeOK
  <1>2. log \in Nat
    BY DeliveryAssumption DEF Tables, TypeOK
  <1>3. ASSUME NEW s \in DOMAIN subscriptions
        PROVE  subscriptions[s] \in Subscription
    BY <1>1
  <1>4. \A x \in Subscription : /\ x.cursor \in Nat /\ x.idempotent \in BOOLEAN
                                 /\ x.enabled \in BOOLEAN /\ x.agent \in Agents
    BY DEF Subscription
  <1> QED BY <1>1, <1>2, <1>3, <1>4

LEMMA DisabledSubscription ==
  ASSUME NEW s \in Subscription
  PROVE  /\ Disabled(s) \in Subscription
         /\ ~Disabled(s).enabled
         /\ Disabled(s).idempotent = s.idempotent /\ Disabled(s).cursor = s.cursor
  BY DEF Disabled, Subscription

\* The new subscription comes last and is the only one enabled.
LEMMA ConfigureStep ==
  ASSUME Tables, NEW g \in Agents, NEW i \in BOOLEAN, Configure(g, i)
  PROVE  /\ subscriptions' \in Seq(Subscription)
         /\ Len(subscriptions') = Len(subscriptions) + 1
         /\ DOMAIN subscriptions \subseteq DOMAIN subscriptions'
         /\ \A s \in DOMAIN subscriptions : /\ ~subscriptions'[s].enabled
                                            /\ subscriptions'[s].cursor = subscriptions[s].cursor
                                            /\ subscriptions'[s].idempotent = subscriptions[s].idempotent
         /\ \A s \in DOMAIN subscriptions' : s \notin DOMAIN subscriptions =>
                s = Len(subscriptions') /\ subscriptions'[s].cursor = 0
  <1> DEFINE n == Len(subscriptions)
             F == [s \in DOMAIN subscriptions |-> Disabled(subscriptions[s])]
             row == [agent |-> g, target |-> agent[g].target, idempotent |-> i,
                     enabled |-> TRUE, cursor |-> 0]
  <1>1. subscriptions \in Seq(Subscription) /\ n \in Nat /\ DOMAIN subscriptions = 1..n
    BY DEF Tables, TypeOK
  <1>2. row \in Subscription /\ row.cursor = 0
    <2>1. agent[g].target \in Digests
      BY DEF Tables, TypeOK
    <2> QED BY <2>1 DEF Subscription
  <1>3. \A s \in 1..n : /\ Disabled(subscriptions[s]) \in Subscription
                        /\ ~Disabled(subscriptions[s]).enabled
                        /\ Disabled(subscriptions[s]).idempotent = subscriptions[s].idempotent
                        /\ Disabled(subscriptions[s]).cursor = subscriptions[s].cursor
    <2> SUFFICES ASSUME NEW s \in 1..n
                 PROVE  /\ Disabled(subscriptions[s]) \in Subscription
                        /\ ~Disabled(subscriptions[s]).enabled
                        /\ Disabled(subscriptions[s]).idempotent = subscriptions[s].idempotent
                        /\ Disabled(subscriptions[s]).cursor = subscriptions[s].cursor
      OBVIOUS
    <2>1. subscriptions[s] \in Subscription
      BY <1>1
    <2> QED BY <2>1, DisabledSubscription
  <1> HIDE DEF row
  <1>4. F \in Seq(Subscription) /\ Len(F) = n /\ \A s \in 1..n : F[s] = Disabled(subscriptions[s])
    <2>1. F \in [1..n -> Subscription]
      BY <1>1, <1>3
    <2>2. F \in Seq(Subscription) /\ Len(F) = n
      BY <1>1, <2>1
    <2> QED BY <1>1, <2>2
  <1> HIDE DEF F
  <1>5. subscriptions' = Append(F, row)
    BY DEF Configure, F, row
  <1>6. /\ subscriptions' \in Seq(Subscription) /\ Len(subscriptions') = n + 1
        /\ DOMAIN subscriptions' = 1..(n + 1)
        /\ \A s \in 1..n : subscriptions'[s] = F[s]
        /\ subscriptions'[n + 1] = row
    BY <1>1, <1>2, <1>4, <1>5
  <1> QED BY <1>1, <1>2, <1>3, <1>4, <1>6

\* What every step has to keep.
Sound == Tables /\ Routing /\ Settled

LEMMA RewritesKeep ==
  ASSUME Sound, Rewrites
  PROVE  Sound' /\ Restarts /\ N!Next
  BY RewritesTables, RewritesRouting, RewritesSettled, RewritesNotify DEF Sound

LEMMA ConfigureKeeps ==
  ASSUME Sound, NEW g \in Agents, NEW i \in BOOLEAN, Configure(g, i)
  PROVE  Sound' /\ Restarts /\ N!Next
  <1> USE DEF Sound
  <1>1. /\ UNCHANGED <<authority, active, agent, delivery, jobs, handlers, copy, late>>
        /\ log' = log + 1 /\ log < MaxEvents /\ Len(subscriptions) < MaxSubscriptions
    BY DEF Configure
  <1>2. /\ subscriptions' \in Seq(Subscription)
        /\ Len(subscriptions') = Len(subscriptions) + 1
        /\ DOMAIN subscriptions \subseteq DOMAIN subscriptions'
        /\ \A s \in DOMAIN subscriptions : /\ ~subscriptions'[s].enabled
                                           /\ subscriptions'[s].cursor = subscriptions[s].cursor
                                           /\ subscriptions'[s].idempotent = subscriptions[s].idempotent
        /\ \A s \in DOMAIN subscriptions' : s \notin DOMAIN subscriptions =>
               s = Len(subscriptions') /\ subscriptions'[s].cursor = 0
    BY ConfigureStep
  <1>3. log \in 0..MaxEvents /\ MaxEvents \in Nat /\ MaxSubscriptions \in Nat
        /\ Len(subscriptions) \in Nat
    BY DeliveryAssumption DEF Tables, TypeOK
  <1>4. Tables'
    BY <1>1, <1>2, <1>3 DEF Tables, TypeOK, Exists
  <1>5. \A d \in DOMAIN delivery : d[2] \in DOMAIN subscriptions
    BY TableFields
  <1>6. Routed'
    <2>1. ASSUME NEW s \in DOMAIN subscriptions'
          PROVE  /\ subscriptions'[s].enabled => s = Len(subscriptions')
                 /\ subscriptions'[s].cursor <= log'
      <3>1. CASE s \in DOMAIN subscriptions
        <4>1. subscriptions[s].cursor \in Nat /\ log \in Nat
              /\ subscriptions[s].cursor <= log
          BY <3>1, SubscriptionFields DEF Routing, Routed
        <4> QED BY <1>1, <1>2, <3>1, <4>1
      <3>2. CASE s \notin DOMAIN subscriptions
        BY <1>1, <1>2, <1>3, <3>2
      <3> QED BY <3>1, <3>2
    <2>2. ASSUME NEW d \in DOMAIN delivery
          PROVE  EventOf(d) <= log'
      <3>1. EventOf(d) \in Nat /\ log \in Nat /\ EventOf(d) <= log
        BY TableFields, SubscriptionFields DEF Id, EventOf, Routing, Routed
      <3> QED BY <1>1, <3>1
    <2> QED BY <1>1, <2>1, <2>2 DEF Routed
  <1>7. FirstRecipient' /\ CursorCovers'
    BY <1>1, <1>2, <1>5 DEF Routing, FirstRecipient, CursorCovers, SubscriptionOf
  <1>8. Settled' /\ Restarts /\ N!Next
    BY <1>1, <1>2, <1>5, RoutesKeep DEF network, SubscriptionOf
  <1> QED BY <1>4, <1>6, <1>7, <1>8 DEF Routing

LEMMA AckCursorKeeps ==
  ASSUME Sound, NEW s, NEW c \in 1..MaxEvents, AckCursor(s, c)
  PROVE  Sound' /\ Restarts /\ N!Next
  <1> USE DEF Sound
  <1>1. /\ UNCHANGED <<authority, active, agent, log, delivery, jobs, network>>
        /\ s \in DOMAIN subscriptions /\ c <= log /\ c > subscriptions[s].cursor
        /\ NoGap(s, subscriptions[s].cursor, c)
        /\ subscriptions' = [subscriptions EXCEPT ![s].cursor = c]
    <2>1. subscriptions[s].cursor \in Nat /\ log \in Nat
      BY SubscriptionFields DEF AckCursor, Enabled
    <2> QED BY <2>1 DEF AckCursor, Enabled
  <1>2. /\ subscriptions \in Seq(Subscription) /\ subscriptions[s] \in Subscription
        /\ DOMAIN subscriptions = 1..Len(subscriptions)
    BY <1>1 DEF Tables, TypeOK
  <1> DEFINE row == [subscriptions[s] EXCEPT !.cursor = c]
  <1>3. /\ row \in Subscription /\ row.enabled = subscriptions[s].enabled
        /\ row.idempotent = subscriptions[s].idempotent /\ row.cursor = c
    <2>1. c \in Nat
      BY DeliveryAssumption
    <2>2. row \in Subscription
      BY <1>2, <2>1 DEF Subscription
    <2>3. row.enabled = subscriptions[s].enabled
      BY <1>2 DEF Subscription
    <2>4. row.idempotent = subscriptions[s].idempotent
      BY <1>2 DEF Subscription
    <2>5. row.cursor = c
      BY <1>2 DEF Subscription
    <2> QED BY <2>2, <2>3, <2>4, <2>5
  <1> HIDE DEF row
  <1>4. subscriptions' = [subscriptions EXCEPT ![s] = row]
    BY <1>1 DEF row
  <1>5. /\ subscriptions' \in Seq(Subscription)
        /\ Len(subscriptions') = Len(subscriptions)
        /\ DOMAIN subscriptions' = DOMAIN subscriptions
        /\ subscriptions'[s] = row
        /\ \A x \in DOMAIN subscriptions : x # s => subscriptions'[x] = subscriptions[x]
    BY <1>1, <1>2, <1>3, <1>4
  <1>6. Tables'
    BY <1>1, <1>5 DEF Tables, TypeOK, Exists, network
  <1>7. Routed'
    BY <1>1, <1>3, <1>5 DEF Routing, Routed
  <1>8. FirstRecipient'
    BY <1>1 DEF Routing, FirstRecipient
  <1>9. CursorCovers'
    <2> SUFFICES ASSUME NEW d \in DOMAIN delivery, delivery[d].origin = "append",
                        EventOf(d) <= subscriptions'[d[2]].cursor
                 PROVE  delivery[d].accepted
      BY <1>1 DEF CursorCovers, SubscriptionOf
    <2>1. d \in Id /\ d[2] \in DOMAIN subscriptions
      BY TableFields
    <2>2. CASE d[2] # s
      BY <1>5, <2>1, <2>2 DEF Routing, CursorCovers, SubscriptionOf
    <2>3. CASE d[2] = s /\ EventOf(d) <= subscriptions[s].cursor
      BY <2>3 DEF Routing, CursorCovers, SubscriptionOf
    <2>4. CASE d[2] = s /\ ~(EventOf(d) <= subscriptions[s].cursor)
      <3>1. EventOf(d) \in Nat /\ subscriptions[s].cursor \in Nat /\ c \in Nat
        BY <1>2, <2>1, DeliveryAssumption DEF Id, EventOf, Subscription
      <3>2. EventOf(d) <= c
        BY <1>3, <1>5, <2>4
      <3>3. EventOf(d) \in (subscriptions[s].cursor + 1)..c
        BY <2>4, <3>1, <3>2
      <3> QED BY <1>1, <2>4, <3>3 DEF NoGap
    <2> QED BY <2>2, <2>3, <2>4
  <1>10. Settled' /\ Restarts /\ N!Next
    <2>1. \A d \in DOMAIN delivery :
              SubscriptionOf(d)'.idempotent = SubscriptionOf(d).idempotent
      BY <1>3, <1>5, TableFields DEF SubscriptionOf
    <2> QED BY <1>1, <2>1, RoutesKeep
  <1> QED BY <1>6, <1>7, <1>8, <1>9, <1>10 DEF Routing

LEMMA ChangeAgentKeeps ==
  ASSUME Sound, NEW g \in Agents, NEW t \in Digests, NEW s \in Standings, ChangeAgent(g, t, s)
  PROVE  Sound' /\ Restarts /\ N!Next
  <1> USE DEF Sound
  <1>1. UNCHANGED <<authority, active, log, subscriptions, delivery, jobs, network>>
    BY DEF ChangeAgent
  <1>2. agent' \in [Agents -> [target: Digests, standing: Standings]]
    BY DEF ChangeAgent, Tables, TypeOK
  <1>3. Tables'
    BY <1>1, <1>2 DEF Tables, TypeOK, Exists, network
  <1>4. Routing'
    BY <1>1 DEF Routing, Routed, FirstRecipient, CursorCovers, SubscriptionOf
  <1>5. Settled' /\ Restarts /\ N!Next
    BY <1>1, RoutesKeep DEF SubscriptionOf
  <1> QED BY <1>3, <1>4, <1>5

------------------------------------------------------------------------------
(* Steps that add rows *)

\* The new deliveries, of origin, are those in owed; none of them was sent to the
\* Agent or covered by a cursor, and no risk is taken without saying so.
LEMMA NewRows ==
  ASSUME Sound, NEW owed \in SUBSET Id, owed \cap DOMAIN delivery = {},
         NEW origin \in {"append", "retarget", "retarget_at_risk"},
         delivery' = Inserted(delivery, owed, Pending(origin)),
         jobs' = jobs \cup owed,
         log' \in 0..MaxEvents, log <= log',
         UNCHANGED <<authority, active, agent, subscriptions, network>>,
         \A d \in owed : d[2] \in DOMAIN subscriptions /\ EventOf(d) <= log',
         origin = "append" =>
             \A d \in owed : ~(EventOf(d) <= SubscriptionOf(d).cursor),
         origin # "retarget_at_risk" =>
             \A k \in owed, d \in DOMAIN delivery :
                 EventOf(d) = EventOf(k) => ~delivery[d].sent
  PROVE  Sound' /\ Restarts /\ N!Next
  <1> USE DEF Sound
  <1> DEFINE new == Pending(origin)
  <1>1. /\ DOMAIN delivery' = DOMAIN delivery \cup owed
        /\ \A d \in owed : delivery'[d] = new
        /\ \A d \in DOMAIN delivery : delivery'[d] = delivery[d]
    BY DEF Inserted
  <1>2. /\ new \in Row
        /\ new.state = "pending" /\ ~new.sent /\ ~new.accepted
        /\ ~new.remote_outcome_uncertain /\ new.origin = origin
        /\ new.fence = 0 /\ new.cycle = 0 /\ new.recoveries = 0
    BY PendingRow
  <1> HIDE DEF new
  <1>3. Counted(new) /\ new.fence <= MaxFence
    <2>1. Counted(new)
      <3>1. 0 * Stride = 0
        BY StrideNat
      <3> QED BY <1>2, <3>1, StrideNat DEF Counted
    <2> QED BY <1>2, <2>1, FenceBound
  <1>4. Tables'
    <2>1. \A d \in DOMAIN delivery' : /\ delivery'[d] \in Row /\ delivery'[d].fence <= MaxFence
                                      /\ Counted(delivery'[d])
                                      /\ d[2] \in DOMAIN subscriptions /\ d \in Id
      <3>1. \A d \in DOMAIN delivery : delivery[d].fence <= MaxFence
        BY TableFields, FenceBound
      <3> QED BY <1>1, <1>2, <1>3, <3>1, TableFields
    <2>2. \A h \in DOMAIN handlers : /\ h[1] \in DOMAIN delivery'
                                     /\ h[2] \in 1..delivery'[h[1]].fence
                                     /\ handlers[h] \in Handler
      BY <1>1 DEF Tables, TypeOK
    <2>3. TypeOK'
      BY <1>1, <2>1, <2>2 DEF Tables, TypeOK, network
    <2> QED BY <1>1, <2>1, <2>3 DEF Tables, Exists, network
  <1>5. Routing'
    <2>1. Routed'
      <3>1. ASSUME NEW s \in DOMAIN subscriptions
            PROVE  subscriptions[s].cursor <= log'
        <4>1. subscriptions[s].cursor \in Nat /\ log \in Nat /\ subscriptions[s].cursor <= log
          BY SubscriptionFields DEF Routing, Routed
        <4> QED BY <4>1, DeliveryAssumption
      <3>2. ASSUME NEW d \in DOMAIN delivery
            PROVE  EventOf(d) <= log'
        <4>1. EventOf(d) \in Nat /\ log \in Nat /\ EventOf(d) <= log
          BY TableFields, SubscriptionFields DEF Id, EventOf, Routing, Routed
        <4> QED BY <4>1, DeliveryAssumption
      <3> QED BY <1>1, <3>1, <3>2 DEF Routing, Routed
    <2>2. FirstRecipient'
      <3> SUFFICES ASSUME NEW d \in DOMAIN delivery', NEW k \in DOMAIN delivery',
                          EventOf(d) = EventOf(k), d[2] < k[2],
                          delivery'[k].origin # "retarget_at_risk"
                   PROVE  ~delivery'[d].sent
        BY DEF FirstRecipient
      <3>1. CASE d \in owed
        BY <1>1, <1>2, <3>1
      <3>2. CASE d \in DOMAIN delivery /\ k \in owed
        BY <1>1, <1>2, <3>2
      <3>3. CASE d \in DOMAIN delivery /\ k \in DOMAIN delivery
        BY <1>1, <3>3 DEF Routing, FirstRecipient
      <3> QED BY <1>1, <3>1, <3>2, <3>3
    <2>3. CursorCovers'
      <3> SUFFICES ASSUME NEW d \in DOMAIN delivery', delivery'[d].origin = "append",
                          EventOf(d) <= SubscriptionOf(d).cursor
                   PROVE  delivery'[d].accepted
        BY DEF CursorCovers, SubscriptionOf
      <3>1. CASE d \in owed
        BY <1>1, <1>2, <3>1
      <3>2. CASE d \in DOMAIN delivery
        BY <1>1, <3>2 DEF Routing, CursorCovers
      <3> QED BY <1>1, <3>1, <3>2
    <2> QED BY <2>1, <2>2, <2>3 DEF Routing
  <1>6. \A d : (Clean(d)' <=> Clean(d)) /\ Waiting(d)' = Waiting(d)
    BY DEF Clean, Waiting, network
  <1>7. ASSUME NEW d \in owed
        PROVE  Rightly(d)'
    <2>1. Clean(d)
      <3>1. copy[d] = "absent"
        BY DEF Tables, Exists
      <3>2. d \notin late /\ Waiting(d) = {}
        BY DEF Tables, TypeOK, Waiting
      <3> QED BY <3>1, <3>2 DEF Clean
    <2> QED BY <1>1, <1>2, <1>6, <2>1 DEF Rightly, Sending
  <1>8. ASSUME NEW d \in DOMAIN delivery
        PROVE  Rightly(d)'
    <2>1. Rightly(d) /\ delivery'[d] = delivery[d]
      BY <1>1 DEF Settled
    <2>2. (Careful(d)' <=> Careful(d)) /\ (Denies(d)' <=> Denies(d))
      BY <2>1 DEF Careful, Denies, SubscriptionOf
    <2>3. \A h : FirstCall(d, h)' <=> FirstCall(d, h)
      BY <1>6 DEF FirstCall, network
    <2> QED BY <1>6, <2>1, <2>2, <2>3 DEF Rightly, network
  <1>9. Settled'
    <2>1. ASSUME NEW h \in DOMAIN handlers
          PROVE  Heard(h)'
      <3>1. Heard(h) /\ h[1] \in DOMAIN delivery
        BY TableFields DEF Settled
      <3> QED BY <1>1, <3>1 DEF Heard, network
    <2> QED BY <1>1, <1>7, <1>8, <2>1 DEF Settled, network
  <1>10. Restarts
    BY <1>1 DEF Restarts, Terminal, Ready
  <1>11. N!Next
    <2>1. SameHas /\ Wire' = Wire
      BY DEF SameHas, AgentHas, Wire, Waiting, network
    <2>2. ASSUME NEW d \in Id
          PROVE  Belief(d)' = Belief(d)
      <3>1. CASE d \in owed
        BY <1>1, <1>2, <3>1 DEF Belief, Exists
      <3>2. CASE d \in DOMAIN delivery
        BY <1>1, <3>2 DEF Belief, Exists
      <3>3. CASE d \notin owed /\ d \notin DOMAIN delivery
        BY <1>1, <3>3 DEF Belief, Exists
      <3> QED BY <3>1, <3>2, <3>3
    <2> QED BY <2>1, <2>2, AsDoubt
  <1> QED BY <1>4, <1>5, <1>9, <1>10, <1>11

LEMMA AppendEventKeeps ==
  ASSUME Sound, NEW m \in BOOLEAN, AppendEvent(m)
  PROVE  Sound' /\ Restarts /\ N!Next
  <1> DEFINE owed == {<<log + 1, s>> : s \in {x \in DOMAIN subscriptions : m /\ Enabled(x)}}
  <1>1. /\ log < MaxEvents /\ log' = log + 1
        /\ delivery' = Inserted(delivery, owed, Pending("append"))
        /\ jobs' = jobs \cup owed
        /\ UNCHANGED <<authority, active, agent, subscriptions, network>>
    BY DEF AppendEvent, network
  <1>2. Tables
    BY DEF Sound
  <1>3. /\ log \in Nat /\ MaxEvents \in Nat /\ MaxSubscriptions \in Nat
        /\ log' \in 0..MaxEvents /\ log <= log' /\ log' \in 1..MaxEvents
    BY <1>1, <1>2, SubscriptionFields, DeliveryAssumption
  <1>4. \A d \in owed : /\ d = <<log', d[2]>> /\ d[2] \in DOMAIN subscriptions
                        /\ EventOf(d) = log'
    BY <1>1 DEF EventOf
  <1>5. DOMAIN subscriptions \subseteq 1..MaxSubscriptions
    BY <1>2, <1>3, SubscriptionFields DEF Tables
  <1>6. owed \subseteq Id
    BY <1>3, <1>4, <1>5 DEF Id
  <1>7. \A d \in DOMAIN delivery : EventOf(d) \in Nat /\ EventOf(d) <= log
    BY <1>2, TableFields DEF Id, EventOf, Sound, Routing, Routed
  <1>8. \A k \in owed, d \in DOMAIN delivery : EventOf(d) # EventOf(k)
    BY <1>1, <1>3, <1>4, <1>7
  <1>9. owed \cap DOMAIN delivery = {}
    BY <1>8
  <1>10. \A d \in owed : ~(EventOf(d) <= SubscriptionOf(d).cursor)
    <2> SUFFICES ASSUME NEW d \in owed
                 PROVE  ~(EventOf(d) <= SubscriptionOf(d).cursor)
      OBVIOUS
    <2>1. d[2] \in DOMAIN subscriptions /\ EventOf(d) = log + 1
      BY <1>1, <1>4
    <2> HIDE DEF owed
    <2>2. subscriptions[d[2]].cursor \in Nat /\ subscriptions[d[2]].cursor <= log
      BY <1>2, <2>1, SubscriptionFields DEF Sound, Routing, Routed
    <2> QED BY <1>3, <2>1, <2>2 DEF SubscriptionOf
  <1>11. \A d \in owed : d[2] \in DOMAIN subscriptions /\ EventOf(d) <= log'
    BY <1>3, <1>4
  <1> HIDE DEF owed
  <1> QED BY <1>1, <1>3, <1>6, <1>8, <1>9, <1>10, <1>11, NewRows

LEMMA RetargetKeeps ==
  ASSUME Sound, NEW e \in 1..MaxEvents, NEW s \in 1..MaxSubscriptions, NEW risk \in BOOLEAN,
         Retarget(e, s, risk)
  PROVE  Sound' /\ Restarts /\ N!Next
  <1> DEFINE origin == IF risk THEN "retarget_at_risk" ELSE "retarget"
             d == <<e, s>>
  <1>1. /\ e \in 1..log /\ Enabled(s) /\ (SentBefore(e) => risk) /\ ~Exists(d)
        /\ delivery' = Inserted(delivery, {d}, Pending(origin))
        /\ jobs' = jobs \cup {d}
        /\ UNCHANGED <<authority, active, routing, network>>
    BY DEF Retarget
  <1>2. Tables
    BY DEF Sound
  <1>3. log \in 0..MaxEvents /\ log \in Nat
    BY <1>2, SubscriptionFields DEF Tables, TypeOK
  <1>4. {d} \in SUBSET Id /\ {d} \cap DOMAIN delivery = {}
    BY <1>1 DEF Id, Exists
  <1>5. log' \in 0..MaxEvents /\ log <= log'
    BY <1>1, <1>3 DEF routing
  <1>6. \A k \in {d} : k[2] \in DOMAIN subscriptions /\ EventOf(k) <= log'
    BY <1>1, <1>3 DEF Enabled, EventOf, routing
  <1>7. origin # "retarget_at_risk" =>
            \A k \in {d}, x \in DOMAIN delivery : EventOf(x) = EventOf(k) => ~delivery[x].sent
    BY <1>1 DEF SentBefore, EventOf
  <1>8. origin \in {"append", "retarget", "retarget_at_risk"} /\ origin # "append"
    OBVIOUS
  <1>9. UNCHANGED <<authority, active, agent, subscriptions, network>>
    BY <1>1 DEF routing
  <1> HIDE DEF d, origin
  <1>10. \A S : S = {d} => Sound' /\ Restarts /\ N!Next
    BY <1>1, <1>4, <1>5, <1>6, <1>7, <1>8, <1>9, NewRows
  <1> QED BY <1>10

------------------------------------------------------------------------------
(* Steps of one delivery *)

\* Such a step leaves every other delivery as it is.
SameElsewhere(d) ==
    /\ DOMAIN delivery' = DOMAIN delivery
    /\ UNCHANGED subscriptions
    /\ \A k \in Id : k # d => /\ k \in DOMAIN delivery => delivery'[k] = delivery[k]
                              /\ copy'[k] = copy[k]
                              /\ k \in late' <=> k \in late
    /\ \A h \in DOMAIN handlers \cup DOMAIN handlers' :
           h[1] # d => /\ h \in DOMAIN handlers /\ h \in DOMAIN handlers'
                       /\ handlers'[h] = handlers[h]

LEMMA Elsewhere ==
  ASSUME Tables, Settled, NEW d, SameElsewhere(d)
  PROVE  /\ \A k \in DOMAIN delivery : k # d => Rightly(k)'
         /\ \A h \in DOMAIN handlers' : h[1] # d => Heard(h)'
         /\ \A k \in Id : k # d => /\ AgentHas(k)' = AgentHas(k)
                                   /\ Belief(k)' = Belief(k)
                                   /\ k \in Wire' <=> k \in Wire
  <1> USE DEF SameElsewhere
  <1>1. ASSUME NEW k \in Id, k # d
        PROVE  Waiting(k)' = Waiting(k) /\ copy'[k] = copy[k] /\ (k \in late' <=> k \in late)
    BY <1>1 DEF Waiting
  <1>2. ASSUME NEW k \in DOMAIN delivery, k # d
        PROVE  Rightly(k)'
    <2>1. k \in Id /\ Rightly(k)
      BY TableFields DEF Settled
    <2>2. delivery'[k] = delivery[k]
      BY <1>2, <2>1
    <2>3. (Careful(k)' <=> Careful(k)) /\ (Denies(k)' <=> Denies(k)) /\ (Clean(k)' <=> Clean(k))
      BY <1>1, <1>2, <2>1, <2>2 DEF Careful, Denies, SubscriptionOf, Clean
    <2>4. ASSUME NEW h \in DOMAIN handlers', h = <<k, delivery'[k].fence>>,
                 Sending(delivery'[k]), Fresh(delivery'[k]) \/ Careful(k)'
          PROVE  FirstCall(k, h)'
      <3>1. h[1] # d
        BY <1>2, <2>4
      <3>2. h \in DOMAIN handlers /\ handlers'[h] = handlers[h]
        BY <3>1
      <3>3. FirstCall(k, h)
        BY <2>1, <2>2, <2>3, <2>4, <3>2 DEF Rightly
      <3> QED BY <1>1, <1>2, <2>1, <2>3, <3>2, <3>3 DEF FirstCall
    <2> QED BY <1>1, <1>2, <2>1, <2>2, <2>3, <2>4 DEF Rightly
  <1>3. ASSUME NEW h \in DOMAIN handlers', h[1] # d
        PROVE  Heard(h)'
    <2>1. h \in DOMAIN handlers /\ handlers'[h] = handlers[h]
      BY <1>3
    <2>2. Heard(h) /\ h[1] \in DOMAIN delivery /\ h[1] \in Id
      BY <2>1, TableFields DEF Settled
    <2>3. delivery'[h[1]] = delivery[h[1]] /\ copy'[h[1]] = copy[h[1]]
      BY <1>3, <2>2
    <2> QED BY <2>1, <2>2, <2>3 DEF Heard
  <1>4. ASSUME NEW k \in Id, k # d
        PROVE  /\ AgentHas(k)' = AgentHas(k) /\ Belief(k)' = Belief(k)
               /\ k \in Wire' <=> k \in Wire
    <2>1. AgentHas(k)' = AgentHas(k) /\ (k \in Wire' <=> k \in Wire)
      BY <1>1, <1>4 DEF AgentHas, Wire
    <2>2. Belief(k)' = Belief(k)
      BY <1>4 DEF Belief, Exists
    <2> QED BY <2>1, <2>2
  <1> QED BY <1>2, <1>3, <1>4

LEMMA BeliefOf ==
  ASSUME NEW d \in DOMAIN delivery
  PROVE  Belief(d) = IF delivery[d].accepted THEN "durable"
                     ELSE IF delivery[d].remote_outcome_uncertain \/ Sending(delivery[d])
                       THEN "maybe" ELSE "none"
  BY DEF Belief, Exists, Sending

------------------------------------------------------------------------------
(* The claim *)

\* What a claim makes of the row of d, whose handler, if it had one, was given up.
LEMMA ClaimStep ==
  ASSUME Sound, NEW d, Claim(d)
  PROVE  LET r == delivery[d]
             g == ExpireIfLapsed(r)
             q == delivery'[d]
             h == <<d, q.fence>>
         IN  /\ d \in DOMAIN delivery
             /\ DOMAIN delivery' = DOMAIN delivery
             /\ \A k \in DOMAIN delivery : k # d => delivery'[k] = delivery[k]
             /\ jobs' = jobs \ {d}
             /\ UNCHANGED <<hub, routing, copy, late>>
             /\ TargetCurrent(d)
             /\ q \in Row /\ Counted(q)
             /\ q.state = "delivering" /\ q.sent
             /\ q.accepted = r.accepted /\ q.origin = r.origin /\ q.risk = r.risk
             /\ q.remote_outcome_uncertain = g.remote_outcome_uncertain
             /\ q.recoveries = r.recoveries
             /\ q.fence > r.fence /\ q.fence \in Nat
             /\ \/ q.action = "receive" /\ g = r /\ r.state \in {"pending", "retry_wait"}
                \/ q.action = "status" /\ g = r /\ r.state = "reconciling"
                \/ /\ q.action = "status" /\ r.state = "delivering"
                   /\ g.remote_outcome_uncertain
             /\ DOMAIN handlers' = DOMAIN handlers \cup {h}
             /\ handlers'[h] = [action |-> q.action, outcome |-> "waiting"]
             /\ \A k \in DOMAIN handlers : k # h /\ handlers'[k] = handlers[k]
  <1> DEFINE r == delivery[d]
             g == ExpireIfLapsed(r)
             f == g.fence + 1
             a == ActionFor(g)
             row == Claimed(g, a, f, authority.epoch)
  <1>1. d \in DOMAIN delivery /\ Tables
    BY DEF Claim, Exists, Sound
  <1>2. /\ g.state \in Ready /\ TargetCurrent(d) /\ ~CycleExhausted(g)
        /\ delivery' = [delivery EXCEPT ![d] = row]
        /\ handlers' = Inserted(handlers, {<<d, f>>}, [action |-> a, outcome |-> "waiting"])
        /\ jobs' = jobs \ {d}
        /\ UNCHANGED <<hub, routing, copy, late>>
    BY DEF Claim, Wakes, Claimed
  <1>3. r \in Row /\ Counted(r) /\ r.fence \in Nat /\ authority.epoch \in Nat
    BY <1>1, TableFields DEF Tables, TypeOK
  <1>4. /\ g \in Row /\ Counted(g) /\ SamePast(r, g)
        /\ g.risk = r.risk /\ g.recoveries = r.recoveries /\ g.cycle = r.cycle
        /\ \/ g = r
           \/ /\ r.state = "delivering" /\ g.state = "reconciling"
              /\ g.remote_outcome_uncertain /\ g.fence = r.fence + 1
    BY <1>3, GivenUp
  <1>5. a \in {"receive", "status"} /\ (a = "status" <=> g.state = "reconciling")
    BY DEF ActionFor
  <1> HIDE DEF g, a
  <1>6. /\ g.fence \in Nat /\ f \in Nat /\ f > r.fence /\ g.cycle \in Nat
        /\ g.recoveries * Stride \in Nat
    BY <1>3, <1>4, RowTyped, StrideStep
  <1> HIDE DEF f
  <1>7. /\ row \in Row
        /\ row.state = "delivering" /\ row.action = a /\ row.sent
        /\ row.cycle = g.cycle + 1 /\ row.fence = f
        /\ row.accepted = g.accepted /\ row.origin = g.origin
        /\ row.remote_outcome_uncertain = g.remote_outcome_uncertain
        /\ row.risk = g.risk /\ row.recoveries = g.recoveries
    <2>1. g \in Row /\ authority.epoch \in Nat /\ f \in Nat /\ a \in {"receive", "status"}
      BY <1>3, <1>4, <1>5, <1>6
    <2>2. row \in Row
      BY <2>1, ClaimedTyped
    <2>3. /\ row.state = "delivering" /\ row.action = a /\ row.sent
          /\ row.cycle = g.cycle + 1 /\ row.fence = f
          /\ row.accepted = g.accepted /\ row.origin = g.origin
          /\ row.remote_outcome_uncertain = g.remote_outcome_uncertain
          /\ row.risk = g.risk /\ row.recoveries = g.recoveries
      <3>1. g \in Row
        BY <2>1
      <3> QED BY <3>1, ClaimedRow
    <2> QED BY <2>2, <2>3
  <1> HIDE DEF row
  <1>8. Counted(row)
    <2>1. row.cycle <= MaxAttempts
      BY <1>2, <1>6, <1>7, StrideNat DEF CycleExhausted
    <2>2. row.recoveries <= MaxRecoveries
      BY <1>4, <1>7 DEF Counted
    <2>3. row.fence + 1 <= row.recoveries * Stride + 2 * row.cycle
      <3>1. g.fence <= g.recoveries * Stride + 2 * g.cycle
        BY <1>2, <1>4, <1>6 DEF Counted, Ready
      <3> QED BY <1>6, <1>7, <3>1 DEF f
    <2> QED BY <1>7, <2>1, <2>2, <2>3 DEF Counted
  <1>9. /\ DOMAIN delivery' = DOMAIN delivery /\ delivery'[d] = row
        /\ \A k \in DOMAIN delivery : k # d => delivery'[k] = delivery[k]
    BY <1>1, <1>2
  <1>10. <<d, f>> \notin DOMAIN handlers
    <2> SUFFICES ASSUME <<d, f>> \in DOMAIN handlers
                 PROVE  FALSE
      OBVIOUS
    <2>1. <<d, f>>[2] <= delivery[<<d, f>>[1]].fence
      BY <1>1, TableFields
    <2> QED BY <1>3, <1>6, <2>1
  <1>11. /\ DOMAIN handlers' = DOMAIN handlers \cup {<<d, f>>}
         /\ handlers'[<<d, f>>] = [action |-> a, outcome |-> "waiting"]
         /\ \A k \in DOMAIN handlers : k # <<d, f>> /\ handlers'[k] = handlers[k]
    BY <1>2, <1>10 DEF Inserted
  <1>12. \/ a = "receive" /\ g = r /\ r.state \in {"pending", "retry_wait"}
         \/ a = "status" /\ g = r /\ r.state = "reconciling"
         \/ a = "status" /\ g.remote_outcome_uncertain /\ r.state = "delivering"
    BY <1>2, <1>4, <1>5 DEF Ready
  <1>13. row.accepted = r.accepted /\ row.origin = r.origin
    BY <1>4, <1>7 DEF SamePast
  <1>14. row.fence = f /\ delivery'[d].fence = f
    BY <1>7, <1>9
  <1>15. /\ DOMAIN handlers' = DOMAIN handlers \cup {<<d, delivery'[d].fence>>}
         /\ handlers'[<<d, delivery'[d].fence>>] = [action |-> a, outcome |-> "waiting"]
         /\ \A k \in DOMAIN handlers : k # <<d, delivery'[d].fence>> /\ handlers'[k] = handlers[k]
    BY <1>11, <1>14
  <1>16. g = ExpireIfLapsed(delivery[d])
    BY DEF g
  <1> QED BY <1>1, <1>2, <1>4, <1>6, <1>7, <1>8, <1>9, <1>12, <1>13, <1>15, <1>16

LEMMA ClaimKeeps ==
  ASSUME Sound, NEW d, Claim(d)
  PROVE  Sound' /\ Restarts /\ N!Next
  <1> DEFINE r == delivery[d]
             g == ExpireIfLapsed(r)
             q == delivery'[d]
             h == <<d, q.fence>>
  <1>1. /\ d \in DOMAIN delivery
        /\ DOMAIN delivery' = DOMAIN delivery
        /\ \A k \in DOMAIN delivery : k # d => delivery'[k] = delivery[k]
        /\ jobs' = jobs \ {d}
        /\ UNCHANGED <<hub, routing, copy, late>>
        /\ TargetCurrent(d)
        /\ q \in Row /\ Counted(q)
        /\ q.state = "delivering" /\ q.sent
        /\ q.accepted = r.accepted /\ q.origin = r.origin /\ q.risk = r.risk
        /\ q.remote_outcome_uncertain = g.remote_outcome_uncertain
        /\ q.recoveries = r.recoveries
        /\ q.fence > r.fence /\ q.fence \in Nat
    BY ClaimStep
  <1>2. \/ q.action = "receive" /\ g = r /\ r.state \in {"pending", "retry_wait"}
        \/ q.action = "status" /\ g = r /\ r.state = "reconciling"
        \/ /\ q.action = "status" /\ r.state = "delivering"
           /\ g.remote_outcome_uncertain
    BY ClaimStep
  <1>3. /\ DOMAIN handlers' = DOMAIN handlers \cup {h}
        /\ handlers'[h] = [action |-> q.action, outcome |-> "waiting"]
        /\ \A k \in DOMAIN handlers : k # h /\ handlers'[k] = handlers[k]
    BY ClaimStep
  <1>4. Tables /\ Routing /\ Settled
    BY DEF Sound
  <1> HIDE DEF g, q
  <1>5. /\ d \in Id /\ d[2] \in DOMAIN subscriptions /\ r \in Row
        /\ r.fence \in Nat /\ r.recoveries \in Nat
    BY <1>1, <1>4, TableFields
  <1>6. h[1] = d /\ h[2] = q.fence
    OBVIOUS
  <1> HIDE DEF r, h
  <1>7. SameElsewhere(d)
    BY <1>1, <1>3, <1>6 DEF SameElsewhere, routing
  <1>8. Tables'
    <2>1. \A k \in DOMAIN delivery' : /\ delivery'[k] \in Row /\ delivery'[k].fence <= MaxFence
                                      /\ Counted(delivery'[k])
                                      /\ k[2] \in DOMAIN subscriptions /\ k \in Id
      <3>1. \A k \in DOMAIN delivery : delivery[k].fence <= MaxFence
        BY <1>4, TableFields, FenceBound
      <3>2. q.fence <= MaxFence
        BY <1>1, FenceBound
      <3> QED BY <1>1, <1>4, <3>1, <3>2, TableFields DEF q
    <2>2. ASSUME NEW x \in DOMAIN handlers'
          PROVE  /\ x[1] \in DOMAIN delivery' /\ x = <<x[1], x[2]>>
                 /\ x[2] \in 1..delivery'[x[1]].fence
                 /\ handlers'[x] \in Handler
      <3>1. CASE x = h
        <4>1. handlers'[h] \in Handler
          BY <1>2, <1>3 DEF Handler
        <4>2. q.fence \in 1..q.fence
          BY <1>1, <1>5
        <4> QED BY <1>1, <1>6, <3>1, <4>1, <4>2 DEF q, h
      <3>2. CASE x \in DOMAIN handlers
        <4>1. x[1] \in DOMAIN delivery /\ x[2] \in 1..delivery[x[1]].fence
              /\ handlers'[x] \in Handler /\ x = <<x[1], x[2]>>
          BY <1>3, <1>4, <3>2 DEF Tables, TypeOK
        <4>2. CASE x[1] # d
          BY <1>1, <4>1, <4>2
        <4>3. CASE x[1] = d
          <5>1. x[2] \in 1..q.fence
            BY <1>1, <1>5, <4>1, <4>3 DEF r
          <5> QED BY <1>1, <4>1, <4>3, <5>1 DEF q
        <4> QED BY <4>2, <4>3
      <3> QED BY <1>3, <3>1, <3>2
    <2>3. jobs' \subseteq DOMAIN delivery' /\ late' \subseteq DOMAIN delivery'
      BY <1>1, <1>4 DEF Tables, TypeOK
    <2>4. TypeOK'
      BY <1>1, <1>4, <2>1, <2>2, <2>3 DEF Tables, TypeOK, hub, routing
    <2> QED BY <1>1, <1>4, <2>1, <2>2, <2>4 DEF Tables, Exists, routing
  <1>9. Routing'
    <2>1. Routed' /\ CursorCovers'
      BY <1>1, <1>4 DEF Routing, Routed, CursorCovers, SubscriptionOf, routing, q, r
    <2>2. FirstRecipient'
      <3> SUFFICES ASSUME NEW x \in DOMAIN delivery, NEW k \in DOMAIN delivery,
                          EventOf(x) = EventOf(k), x[2] < k[2],
                          delivery'[k].origin # "retarget_at_risk"
                   PROVE  ~delivery'[x].sent
        BY <1>1 DEF FirstRecipient
      <3>1. delivery[k].origin # "retarget_at_risk"
        BY <1>1 DEF q, r
      <3>2. ~delivery[x].sent
        BY <1>4, <3>1 DEF Routing, FirstRecipient
      <3>3. x # d
        <4>1. ASSUME x = d
              PROVE  FALSE
          <5>1. subscriptions[d[2]].enabled
            BY <1>1 DEF TargetCurrent, SubscriptionOf
          <5>2. d[2] = Len(subscriptions)
            BY <1>4, <1>5, <5>1 DEF Routing, Routed
          <5>3. k[2] \in 1..Len(subscriptions) /\ Len(subscriptions) \in Nat
            BY <1>4, TableFields, SubscriptionFields
          <5> QED BY <4>1, <5>2, <5>3
        <4> QED BY <4>1
      <3> QED BY <1>1, <3>2, <3>3
    <2> QED BY <2>1, <2>2 DEF Routing
  <1>10. Waiting(d)' = IF q.action = "receive" THEN Waiting(d) \cup {h} ELSE Waiting(d)
    BY <1>2, <1>3, <1>6 DEF Waiting
  <1>11. Rightly(d)'
    <2>1. Rightly(d)
      BY <1>1, <1>4 DEF Settled
    <2>2. Careful(d)' <=> Careful(d)
      BY <1>1 DEF Careful, SubscriptionOf, routing, q, r
    <2>3. Denies(d)' => Clean(d)'
      <3> SUFFICES ASSUME Denies(d)'
                   PROVE  Clean(d)'
        OBVIOUS
      <3>1. Fresh(q) /\ ~Sending(q)
        BY <1>1 DEF Denies, q
      <3>2. ~g.remote_outcome_uncertain /\ ~r.accepted /\ q.action # "receive"
        BY <1>1, <3>1 DEF Fresh, Sending
      <3>3. r.state = "reconciling" /\ g = r /\ q.action = "status"
        BY <1>2, <3>2
      <3>4. Denies(d)
        BY <3>2, <3>3 DEF Denies, Fresh, Sending, r
      <3>5. Clean(d)
        BY <2>1, <3>4 DEF Rightly
      <3> QED BY <1>1, <1>10, <3>3, <3>5 DEF Clean
    <2>4. ASSUME NEW x, x = h, Sending(q), Fresh(q) \/ Careful(d)'
          PROVE  FirstCall(d, x)'
      <3>1. q.action = "receive" /\ g = r /\ r.state \in {"pending", "retry_wait"}
        BY <1>2, <2>4 DEF Sending
      <3>2. Denies(d)
        BY <1>1, <2>2, <2>4, <3>1 DEF Denies, Fresh, Sending, r
      <3>3. Clean(d)
        BY <2>1, <3>2 DEF Rightly
      <3>4. Waiting(d)' \subseteq {h} /\ copy'[d] = "absent" /\ d \notin late'
        BY <1>1, <1>10, <3>3 DEF Clean
      <3>5. handlers'[x].outcome = "waiting"
        BY <1>3, <2>4
      <3> QED BY <2>4, <3>4, <3>5 DEF FirstCall, Refusals
    <2>5. q.accepted => copy'[d] \in {"durable", "final"}
      BY <1>1, <2>1 DEF Rightly, r
    <2> QED BY <2>3, <2>4, <2>5 DEF Rightly, q, h
  <1>12. Settled'
    <2>1. ASSUME NEW x \in DOMAIN handlers', x[1] = d
          PROVE  Heard(x)'
      <3>1. CASE x = h
        BY <1>3, <1>6, <3>1 DEF Heard, q
      <3>2. CASE x \in DOMAIN handlers
        <4>1. Heard(x) /\ x[2] \in Nat /\ x[2] <= r.fence
          BY <1>4, <2>1, <3>2, TableFields DEF Settled, r
        <4>2. x[2] # q.fence
          BY <1>1, <1>5, <4>1
        <4> QED BY <1>1, <1>3, <2>1, <3>2, <4>1, <4>2 DEF Heard, q
      <3> QED BY <1>3, <3>1, <3>2
    <2> QED BY <1>1, <1>4, <1>7, <1>11, <2>1, Elsewhere DEF Settled
  <1>13. Restarts
    <2>1. r.state \notin Terminal \cup {"accepted"}
      BY <1>2 DEF Terminal
    <2> QED BY <1>1, <2>1 DEF Restarts, r, Terminal, Ready
  <1>14. N!Next
    <2>1. \A k \in Id : AgentHas(k)' = AgentHas(k)
      BY <1>1 DEF AgentHas
    <2>2. \A k \in Id : k # d => Belief(k)' = Belief(k) /\ (k \in Wire' <=> k \in Wire)
      BY <1>4, <1>7, Elsewhere
    <2>3. Belief(d) = IF r.accepted THEN "durable"
                      ELSE IF r.remote_outcome_uncertain \/ Sending(r) THEN "maybe" ELSE "none"
      BY <1>1, BeliefOf DEF r
    <2>4. Belief(d)' = IF q.accepted THEN "durable"
                       ELSE IF q.remote_outcome_uncertain \/ Sending(q) THEN "maybe" ELSE "none"
      BY <1>1 DEF Belief, Exists, Sending, q
    <2>5. late \subseteq Id /\ late' = late
      BY <1>1, <1>4, TableFields DEF Tables, TypeOK
    <2>6. CASE q.action = "receive"
      <3>1. d \in Wire' /\ Wire' \subseteq Id /\ Wire \subseteq Id
        BY <1>5, <1>10, <2>5, <2>6 DEF Wire
      <3>2. Wire' = Wire \cup {d}
        <4> HIDE DEF Wire
        <4> QED BY <1>5, <2>2, <3>1
      <3>3. Sending(q) /\ ~Sending(r) /\ g = r
        BY <1>1, <1>2, <2>6 DEF Sending
      <3>4. Belief(d)' = IF Belief(d) = "none" THEN "maybe" ELSE Belief(d)
        BY <1>1, <2>3, <2>4, <3>3
      <3>5. N!Send(d)
        BY <1>5, <2>1, <2>2, <3>2, <3>4 DEF N!Send, Wire
      <3> QED BY <1>5, <3>5 DEF N!Next
    <2>7. CASE q.action # "receive"
      <3>1. Waiting(d)' = Waiting(d)
        BY <1>10, <2>7
      <3>2. SameWire
        BY <2>2, <2>5, <3>1 DEF SameWire, Wire
      <3>3. Wire' = Wire
        BY <2>5, <3>2, WireEqual
      <3>4. ~Sending(q)
        BY <2>7 DEF Sending
      <3>5. \/ Belief(d)' = Belief(d)
            \/ Belief(d) = "none" /\ Belief(d)' = "maybe"
        <4>1. CASE g = r /\ r.state = "reconciling"
          BY <1>1, <2>3, <2>4, <3>4, <4>1 DEF Sending
        <4>2. CASE g.remote_outcome_uncertain
          BY <1>1, <2>3, <2>4, <4>2
        <4> QED BY <1>2, <2>7, <4>1, <4>2
      <3> QED BY <2>1, <2>2, <3>3, <3>5, AsDoubt DEF SameHas
    <2> QED BY <2>6, <2>7
  <1> QED BY <1>8, <1>9, <1>12, <1>13, <1>14 DEF Sound

------------------------------------------------------------------------------
(* Steps of the network and the Agent *)

\* Such a step writes no row and starts no handler.
Networks ==
    /\ UNCHANGED <<hub, routing, delivery>>
    /\ jobs' \subseteq DOMAIN delivery
    /\ late' \subseteq DOMAIN delivery
    /\ DOMAIN handlers' \subseteq DOMAIN handlers
    /\ \A h \in DOMAIN handlers' : handlers'[h] \in Handler
    /\ copy' \in [Id -> Copies]
    /\ \A d \in Id : copy'[d] # "absent" => Exists(d)

LEMMA NetworksKeep ==
  ASSUME Sound, Networks
  PROVE  Tables' /\ Routing' /\ Restarts /\ SameBelief
  <1> USE DEF Sound, Networks, hub, routing
  <1>1. \A h \in DOMAIN handlers' : h \in DOMAIN handlers
    OBVIOUS
  <1>2. TypeOK'
    BY <1>1 DEF Tables, TypeOK
  <1>3. Tables'
    BY <1>1, <1>2 DEF Tables, Exists
  <1>4. Routing'
    BY DEF Routing, Routed, FirstRecipient, CursorCovers, SubscriptionOf
  <1>5. Restarts
    BY DEF Restarts, Terminal, Ready
  <1>6. SameBelief
    BY DEF SameBelief, Belief, Exists
  <1> QED BY <1>3, <1>4, <1>5, <1>6

\* One delivery's part of Settled suffices.
LEMMA SettledHere ==
  ASSUME Sound, NEW d \in DOMAIN delivery, SameElsewhere(d), Rightly(d)',
         \A h \in DOMAIN handlers' : h[1] = d => Heard(h)'
  PROVE  Settled'
  <1>1. DOMAIN delivery' = DOMAIN delivery
    BY DEF SameElsewhere
  <1> QED BY <1>1, Elsewhere DEF Settled, Sound

\* A call ends without the Agent doing anything: it is answered with an outcome,
\* or its handler is gone.
Quiet(h) ==
    /\ h \in DOMAIN handlers
    /\ UNCHANGED <<hub, routing, delivery, copy>>
    /\ jobs' \subseteq DOMAIN delivery
    /\ late' \in {late, Abandoned(h)}
    /\ DOMAIN handlers' \subseteq DOMAIN handlers
    /\ \A x \in DOMAIN handlers : x # h => x \in DOMAIN handlers' /\ handlers'[x] = handlers[x]
    /\ h \in DOMAIN handlers' =>
           /\ handlers[h].outcome = "waiting"
           /\ handlers'[h] \in Handler
           /\ handlers'[h].action = handlers[h].action
           /\ handlers'[h].outcome # "waiting"
           /\ handlers'[h].outcome \in {"durable", "final"} => copy[h[1]] \in {"durable", "final"}
           /\ handlers'[h].outcome = "not_found" => handlers[h].action = "status"
           /\ handlers'[h].outcome \in Refusals /\ handlers[h].action = "receive" =>
                  late' = late

LEMMA QuietKeeps ==
  ASSUME Sound, NEW h, Quiet(h)
  PROVE  Sound' /\ Restarts /\ N!Next
  <1> DEFINE d == h[1]
             r == delivery[d]
  <1> USE DEF Quiet
  <1>1. Tables /\ Settled
    BY DEF Sound
  <1>2. /\ d \in DOMAIN delivery /\ d \in Id /\ h = <<d, h[2]>>
        /\ handlers[h] \in Handler /\ r \in Row
    BY <1>1, TableFields
  <1>3. late' = late \/ (h \in Waiting(d) /\ late' = late \cup {d})
    BY DEF Abandoned, Waiting
  <1>4. late \subseteq DOMAIN delivery /\ late' \subseteq DOMAIN delivery
    BY <1>1, <1>2, <1>3 DEF Tables, TypeOK
  <1>5. Networks
    <2>1. \A x \in DOMAIN handlers' : handlers'[x] \in Handler
      BY <1>1, TableFields
    <2>2. copy \in [Id -> Copies] /\ \A k \in Id : copy[k] # "absent" => Exists(k)
      BY <1>1 DEF Tables, TypeOK
    <2> QED BY <1>4, <2>1, <2>2 DEF Networks
  <1>6. SameElsewhere(d)
    BY <1>3 DEF SameElsewhere, routing
  <1>7. Waiting(d)' = Waiting(d) \ {h}
    <2>1. ASSUME NEW x \in Waiting(d)'
          PROVE  x \in Waiting(d) \ {h}
      BY <2>1 DEF Waiting
    <2>2. ASSUME NEW x \in Waiting(d) \ {h}
          PROVE  x \in Waiting(d)'
      BY <2>2 DEF Waiting
    <2> QED BY <2>1, <2>2
  <1> DEFINE own == <<d, r.fence>>
  <1> HIDE DEF d, r
  <1>8. Rightly(d)'
    <2>1. Rightly(d) /\ Heard(h)
      BY <1>1, <1>2 DEF Settled
    <2>2. (Careful(d)' <=> Careful(d)) /\ (Denies(d)' <=> Denies(d))
      BY DEF Careful, Denies, SubscriptionOf, routing
    <2>3. Clean(d) => Clean(d)'
      BY <1>3, <1>7 DEF Clean
    <2>4. ASSUME NEW x \in DOMAIN handlers', x = own,
                 Sending(r), Fresh(r) \/ Careful(d)
          PROVE  FirstCall(d, x)'
      <3>1. x \in DOMAIN handlers /\ FirstCall(d, x)
        BY <2>1, <2>4 DEF Rightly, r
      <3>2. CASE x # h
        <4>1. handlers'[x] = handlers[x]
          BY <3>1, <3>2
        <4>2. handlers[x].outcome = "waiting" => late' = late /\ Waiting(d)' \subseteq {x}
          BY <1>3, <1>7, <3>1, <3>2 DEF FirstCall
        <4>3. handlers'[x].outcome = "waiting" => copy'[d] = "absent" /\ d \notin late'
                                                    /\ Waiting(d)' \subseteq {x}
          BY <3>1, <4>1, <4>2 DEF FirstCall
        <4>4. handlers'[x].outcome \in Refusals => Clean(d)'
          BY <2>3, <3>1, <4>1 DEF FirstCall
        <4> QED BY <4>3, <4>4 DEF FirstCall
      <3>3. CASE x = h
        <4>1. handlers[h].outcome = "waiting" /\ handlers'[h].outcome # "waiting"
          BY <2>4, <3>3
        <4>2. copy[d] = "absent" /\ d \notin late /\ Waiting(d) \subseteq {h}
          BY <3>1, <3>3, <4>1 DEF FirstCall
        <4>3. handlers[h].action = "receive"
          <5>1. h[2] = r.fence
            BY <2>4, <3>3
          <5> QED BY <2>1, <2>4, <5>1 DEF Heard, Sending, d, r
        <4>4. handlers'[h].outcome \in Refusals => Clean(d)'
          BY <1>7, <2>4, <3>3, <4>2, <4>3 DEF Clean
        <4> QED BY <3>3, <4>1, <4>4 DEF FirstCall
      <3> QED BY <3>2, <3>3
    <2>5. r.accepted => copy'[d] \in {"durable", "final"}
      BY <2>1 DEF Rightly, r
    <2>6. delivery'[d] = r /\ Denies(d)' => Clean(d)'
      BY <2>1, <2>2, <2>3 DEF Rightly, r
    <2>7. delivery'[d] = r
      BY DEF r
    <2> QED BY <2>2, <2>4, <2>5, <2>6, <2>7 DEF Rightly
  <1>9. ASSUME NEW x \in DOMAIN handlers', x[1] = d
        PROVE  Heard(x)'
    <2>1. x \in DOMAIN handlers /\ Heard(x)
      BY <1>1 DEF Settled
    <2>2. CASE x # h
      BY <2>1, <2>2 DEF Heard
    <2>3. CASE x = h
      BY <2>1, <2>3 DEF Heard
    <2> QED BY <2>2, <2>3
  <1>10. Tables' /\ Routing' /\ Restarts /\ SameBelief
    BY <1>5, NetworksKeep
  <1>11. Settled'
    BY <1>2, <1>6, <1>8, <1>9, SettledHere
  <1>12. N!Next
    <2>1. SameHas
      BY DEF SameHas, AgentHas
    <2>2. \A k \in Id : k # d => (k \in Wire' <=> k \in Wire)
      BY <1>1, <1>6, Elsewhere
    <2>3. late \subseteq Id /\ late' \subseteq Id
      BY <1>1, <1>4, TableFields
    <2>4. d \in Wire' => d \in Wire
      BY <1>2, <1>3, <1>7 DEF Wire
    <2>5. Wire \subseteq Id /\ Wire' \subseteq Id
      BY <2>3 DEF Wire
    <2>6. CASE d \in Wire'
      <3>1. Wire' = Wire
        <4> HIDE DEF Wire
        <4> QED BY <2>2, <2>4, <2>5, <2>6
      <3> QED BY <1>10, <2>1, <3>1, AsDoubt DEF SameBelief
    <2>7. CASE d \notin Wire'
      <3>1. Wire' = Wire \ {d}
        <4> HIDE DEF Wire
        <4> QED BY <2>2, <2>5, <2>7
      <3>2. N!Refuse(d)
        BY <1>10, <2>1, <3>1 DEF N!Refuse, SameHas, SameBelief, Wire
      <3> QED BY <1>2, <3>2 DEF N!Next
    <2> QED BY <2>6, <2>7
  <1> QED BY <1>10, <1>11, <1>12 DEF Sound

\* A handler that is told an outcome.
LEMMA AnsweredRow ==
  ASSUME Tables, NEW h \in DOMAIN handlers, NEW o \in Outcomes, Answered(h, o)
  PROVE  /\ DOMAIN handlers' = DOMAIN handlers
         /\ \A x \in DOMAIN handlers : x # h => handlers'[x] = handlers[x]
         /\ handlers'[h] \in Handler
         /\ handlers'[h].action = handlers[h].action
         /\ handlers'[h].outcome \in {o, "ambiguous"}
  <1> DEFINE told == IF delivery[h[1]].fence = h[2] THEN o ELSE "ambiguous"
  <1>1. told \in {o, "ambiguous"} /\ told \in Outcomes
    BY DEF Outcomes
  <1>2. handlers' = [handlers EXCEPT ![h].outcome = told]
    BY DEF Answered
  <1>3. handlers[h] \in Handler
    BY TableFields
  <1> HIDE DEF told
  <1>4. \A row \in Handler : /\ [row EXCEPT !.outcome = told] \in Handler
                             /\ [row EXCEPT !.outcome = told].action = row.action
                             /\ [row EXCEPT !.outcome = told].outcome = told
    BY <1>1 DEF Handler
  <1>5. handlers'[h] = [handlers[h] EXCEPT !.outcome = told]
    BY <1>2
  <1>6. /\ DOMAIN handlers' = DOMAIN handlers
        /\ \A x \in DOMAIN handlers : x # h => handlers'[x] = handlers[x]
    BY <1>2
  <1> QED BY <1>1, <1>3, <1>4, <1>5, <1>6

LEMMA EndedQuiet ==
  ASSUME Sound, NEW h \in DOMAIN handlers, Refused(h) \/ Die(h)
  PROVE  Quiet(h)
  <1>1. jobs \subseteq DOMAIN delivery /\ h[1] \in DOMAIN delivery
    BY TableFields DEF Sound, Tables, TypeOK
  <1>2. /\ DOMAIN handlers' = DOMAIN handlers \ {h}
        /\ \A x \in DOMAIN handlers : x # h => handlers'[x] = handlers[x]
    BY DEF Refused, Die, Without
  <1>3. UNCHANGED <<hub, routing, delivery, copy>> /\ jobs' \subseteq DOMAIN delivery
        /\ late' \in {late, Abandoned(h)}
    BY <1>1 DEF Refused, Die
  <1> QED BY <1>2, <1>3 DEF Quiet

LEMMA DeclineQuiet ==
  ASSUME Sound, NEW h \in DOMAIN handlers, NEW class \in Refusals, Decline(h, class)
  PROVE  Quiet(h)
  <1>1. jobs \subseteq DOMAIN delivery /\ Tables
    BY DEF Sound, Tables, TypeOK
  <1>2. class \in Outcomes /\ class \notin {"durable", "final", "not_found"}
    BY DEF Outcomes, Refusals
  <1>3. Answered(h, class) /\ handlers[h].outcome = "waiting"
        /\ UNCHANGED <<hub, routing, delivery, jobs, copy, late>>
    BY DEF Decline
  <1>4. /\ DOMAIN handlers' = DOMAIN handlers
        /\ \A x \in DOMAIN handlers : x # h => handlers'[x] = handlers[x]
        /\ handlers'[h] \in Handler
        /\ handlers'[h].action = handlers[h].action
        /\ handlers'[h].outcome \in {class, "ambiguous"}
    BY <1>1, <1>2, <1>3, AnsweredRow
  <1>5. handlers'[h].outcome # "waiting"
    BY <1>4 DEF Refusals
  <1> QED BY <1>1, <1>2, <1>3, <1>4, <1>5 DEF Quiet

LEMMA TellStatusQuiet ==
  ASSUME Sound, NEW h \in DOMAIN handlers, TellStatus(h)
  PROVE  Quiet(h)
  <1> DEFINE kept == copy[h[1]]
             o == IF kept = "absent" THEN "not_found" ELSE kept
  <1>1. jobs \subseteq DOMAIN delivery /\ Tables
    BY DEF Sound, Tables, TypeOK
  <1>2. kept \in Copies
    BY <1>1, TableFields
  <1>3. o \in Outcomes /\ o # "waiting" /\ o \notin Refusals
        /\ (o \in {"durable", "final"} => kept \in {"durable", "final"})
    BY <1>2 DEF Outcomes, Copies, Receipts, Refusals
  <1>4. Answered(h, o) /\ handlers[h].outcome = "waiting" /\ handlers[h].action = "status"
        /\ UNCHANGED <<hub, routing, delivery, jobs, copy, late>>
    BY DEF TellStatus
  <1> HIDE DEF o
  <1>5. /\ DOMAIN handlers' = DOMAIN handlers
        /\ \A x \in DOMAIN handlers : x # h => handlers'[x] = handlers[x]
        /\ handlers'[h] \in Handler
        /\ handlers'[h].action = handlers[h].action
        /\ handlers'[h].outcome \in {o, "ambiguous"}
    BY <1>1, <1>3, <1>4, AnsweredRow
  <1>6. handlers'[h].outcome # "waiting"
        /\ (handlers'[h].outcome \in {"durable", "final"} => copy[h[1]] \in {"durable", "final"})
    BY <1>3, <1>5
  <1> QED BY <1>1, <1>4, <1>5, <1>6 DEF Quiet

LEMMA TimeOutQuiet ==
  ASSUME Sound, NEW h \in DOMAIN handlers, NEW o, TimeOut(h, o)
  PROVE  Quiet(h)
  <1>1. jobs \subseteq DOMAIN delivery /\ Tables
    BY DEF Sound, Tables, TypeOK
  <1>2. /\ o = "ambiguous" \/ (o = "retryable" /\ handlers[h].action = "status")
        /\ Answered(h, o) /\ handlers[h].outcome = "waiting" /\ late' = Abandoned(h)
        /\ UNCHANGED <<hub, routing, delivery, jobs, copy>>
    BY DEF TimeOut
  <1>3. o \in Outcomes
    BY <1>2 DEF Outcomes, Refusals
  <1>4. /\ DOMAIN handlers' = DOMAIN handlers
        /\ \A x \in DOMAIN handlers : x # h => handlers'[x] = handlers[x]
        /\ handlers'[h] \in Handler
        /\ handlers'[h].action = handlers[h].action
        /\ handlers'[h].outcome \in {o, "ambiguous"}
    BY <1>1, <1>2, <1>3, AnsweredRow
  <1>5. handlers'[h].outcome \in {"ambiguous", "retryable"}
        /\ (handlers'[h].outcome \in Refusals => handlers[h].action = "status")
    BY <1>2, <1>4 DEF Refusals
  <1>6. /\ handlers'[h].outcome # "waiting"
        /\ handlers'[h].outcome \notin {"durable", "final", "not_found"}
        /\ ~(handlers'[h].outcome \in Refusals /\ handlers[h].action = "receive")
    BY <1>5
  <1>7. late' \in {late, Abandoned(h)} /\ jobs' \subseteq DOMAIN delivery
    BY <1>1, <1>2
  <1> QED BY <1>2, <1>4, <1>6, <1>7 DEF Quiet

------------------------------------------------------------------------------
(* What the Agent keeps *)

\* What the Agent has for good it keeps.
Kept(was, kept) ==
    was \in {"durable", "final"} => kept \in {"durable", "final"}

LEMMA RankKept ==
  ASSUME NEW was \in Copies, NEW kept \in Receipts, Rank[kept] >= Rank[was]
  PROVE  Kept(was, kept)
  BY DEF Rank, Kept, Copies, Receipts

\* A copy changes of a delivery that is not Clean, and no request of it that a
\* handler waits for, or that was refused, is its first.
LEMMA CopyKeeps ==
  ASSUME Sound, NEW d \in DOMAIN delivery, NEW kept \in Copies,
         Kept(copy[d], kept), ~Clean(d),
         copy' = [copy EXCEPT ![d] = kept],
         UNCHANGED <<hub, routing, delivery, jobs>>,
         late' \subseteq late, \A k \in late : k # d => k \in late',
         DOMAIN handlers' = DOMAIN handlers,
         \A h \in DOMAIN handlers : handlers'[h] \in Handler,
         \A h \in DOMAIN handlers : handlers'[h] # handlers[h] =>
             /\ h[1] = d
             /\ handlers'[h].action = handlers[h].action
             /\ handlers'[h].outcome \in Receipts \cup {"ambiguous"}
             /\ handlers'[h].outcome \in {"durable", "final"} => kept \in {"durable", "final"},
         \A h \in DOMAIN handlers : h[1] = d /\ handlers'[h].outcome = "waiting" =>
             copy[d] # "absent" \/ d \in late \/ ~(Waiting(d) \subseteq {h})
  PROVE  /\ Sound' /\ Restarts /\ SameBelief /\ SameElsewhere(d)
         /\ AgentHas(d)' = IF kept = "final" THEN "durable" ELSE kept
  <1> DEFINE r == delivery[d]
  <1>1. Tables /\ Settled
    BY DEF Sound
  <1>2. d \in Id /\ copy \in [Id -> Copies]
    BY <1>1, TableFields DEF Tables, TypeOK
  <1>3. copy'[d] = kept /\ copy' \in [Id -> Copies]
        /\ \A k \in Id : k # d => copy'[k] = copy[k]
    BY <1>2
  <1>4. late' \subseteq DOMAIN delivery
    BY <1>1 DEF Tables, TypeOK
  <1>5. Networks
    <2>1. \A k \in Id : copy'[k] # "absent" => Exists(k)
      BY <1>1, <1>3 DEF Tables, Exists
    <2>2. jobs' \subseteq DOMAIN delivery
      BY <1>1 DEF Tables, TypeOK
    <2> QED BY <1>3, <1>4, <2>1, <2>2 DEF Networks
  <1>6. SameElsewhere(d)
    BY <1>3 DEF SameElsewhere, routing
  <1>7. Tables' /\ Routing' /\ Restarts /\ SameBelief
    BY <1>5, NetworksKeep
  <1>8. Rightly(d)'
    <2>1. Rightly(d)
      BY <1>1 DEF Settled
    <2>2. ~Denies(d) /\ (Denies(d)' <=> Denies(d)) /\ (Careful(d)' <=> Careful(d))
      BY <2>1 DEF Rightly, Denies, Careful, SubscriptionOf, routing
    <2>3. ASSUME NEW x \in DOMAIN handlers', x = <<d, r.fence>>,
                 Sending(r), Fresh(r) \/ Careful(d)
          PROVE  FirstCall(d, x)'
      <3>1. x \in DOMAIN handlers /\ FirstCall(d, x) /\ x[1] = d
        BY <2>1, <2>3 DEF Rightly
      <3>2. handlers'[x].outcome # "waiting"
        <4>1. ASSUME handlers'[x].outcome = "waiting"
              PROVE  FALSE
          <5>1. handlers'[x] = handlers[x]
            BY <3>1, <4>1 DEF Receipts
          <5> QED BY <3>1, <4>1, <5>1 DEF FirstCall
        <4> QED BY <4>1
      <3>3. handlers'[x].outcome \notin Refusals
        <4>1. ASSUME handlers'[x].outcome \in Refusals
              PROVE  FALSE
          <5>1. handlers'[x] = handlers[x]
            BY <3>1, <4>1 DEF Receipts, Refusals
          <5> QED BY <3>1, <4>1, <5>1 DEF FirstCall
        <4> QED BY <4>1
      <3> QED BY <3>2, <3>3 DEF FirstCall
    <2>4. r.accepted => copy'[d] \in {"durable", "final"}
      BY <1>3, <2>1 DEF Rightly, Kept
    <2>5. delivery' = delivery
      OBVIOUS
    <2> QED BY <2>2, <2>3, <2>4, <2>5 DEF Rightly
  <1>9. ASSUME NEW x \in DOMAIN handlers', x[1] = d
        PROVE  Heard(x)'
    <2>1. x \in DOMAIN handlers /\ Heard(x)
      BY <1>1 DEF Settled
    <2>2. CASE handlers'[x] = handlers[x]
      BY <1>3, <1>9, <2>1, <2>2 DEF Heard, Kept
    <2>3. CASE handlers'[x] # handlers[x]
      <3>1. handlers'[x].outcome # "not_found"
        BY <2>1, <2>3 DEF Receipts
      <3> QED BY <1>3, <1>9, <2>1, <2>3, <3>1 DEF Heard
    <2> QED BY <2>2, <2>3
  <1>10. Settled'
    BY <1>6, <1>8, <1>9, SettledHere
  <1>11. AgentHas(d)' = IF kept = "final" THEN "durable" ELSE kept
    BY <1>3 DEF AgentHas
  <1> QED BY <1>6, <1>7, <1>10, <1>11 DEF Sound

\* A request arrives.
LEMMA ArrivesNext ==
  ASSUME Tables, Settled, NEW d \in DOMAIN delivery, SameElsewhere(d), d \in Wire, SameBelief,
         NEW kept \in Receipts, Kept(copy[d], kept),
         AgentHas(d)' = IF kept = "final" THEN "durable" ELSE kept,
         late \subseteq Id, late' \subseteq Id
  PROVE  N!Next
  <1> DEFINE c == IF kept = "final" THEN "durable" ELSE kept
             left == d \in Wire'
  <1>1. d \in Id
    BY TableFields
  <1>2. \A k \in Id : k # d => /\ AgentHas(k)' = AgentHas(k)
                               /\ k \in Wire' <=> k \in Wire
    BY Elsewhere
  <1>3. Wire \subseteq Id /\ Wire' \subseteq Id
    BY DEF Wire
  <1>4. c \in {"received", "durable"} /\ left \in BOOLEAN
    BY DEF Receipts
  <1>5. AgentHas(d)' = IF AgentHas(d) = "durable" THEN "durable" ELSE c
    BY DEF AgentHas, Kept
  <1> HIDE DEF c
  <1>6. Wire' = IF left THEN Wire ELSE Wire \ {d}
    <2> HIDE DEF Wire
    <2> QED BY <1>2, <1>3
  <1>7. N!Arrive(d, c, left)
    BY <1>1, <1>2, <1>5, <1>6 DEF N!Arrive, SameBelief, Wire
  <1> QED BY <1>1, <1>4, <1>7 DEF N!Next

LEMMA TakeKeeps ==
  ASSUME Sound, NEW h \in DOMAIN handlers, NEW kept \in Receipts, Take(h, kept)
  PROVE  Sound' /\ Restarts /\ N!Next
  <1> DEFINE d == h[1]
  <1>1. Tables /\ Settled
    BY DEF Sound
  <1>2. /\ d \in DOMAIN delivery /\ d \in Id /\ copy[d] \in Copies
        /\ handlers[h] = [action |-> "receive", outcome |-> "waiting"]
        /\ Rank[kept] >= Rank[copy[d]]
        /\ copy' = [copy EXCEPT ![d] = kept]
        /\ Answered(h, kept)
        /\ UNCHANGED <<hub, routing, delivery, jobs, late>>
    BY <1>1, TableFields DEF Take
  <1>3. h \in Waiting(d)
    BY <1>2 DEF Waiting
  <1>4. kept \in Outcomes /\ kept \in Copies
    BY DEF Outcomes, Copies
  <1>5. /\ DOMAIN handlers' = DOMAIN handlers
        /\ \A x \in DOMAIN handlers : x # h => handlers'[x] = handlers[x]
        /\ handlers'[h] \in Handler
        /\ handlers'[h].action = handlers[h].action
        /\ handlers'[h].outcome \in {kept, "ambiguous"}
    BY <1>1, <1>2, <1>4, AnsweredRow
  <1>6. Kept(copy[d], kept)
    BY <1>2, RankKept
  <1>7. ~Clean(d)
    BY <1>3 DEF Clean
  <1>8. \A x \in DOMAIN handlers : handlers'[x] \in Handler
    BY <1>1, <1>5, TableFields
  <1>9. /\ handlers'[h].outcome \in Receipts \cup {"ambiguous"}
        /\ handlers'[h].outcome \in {"durable", "final"} => kept \in {"durable", "final"}
        /\ handlers'[h].outcome # "waiting"
    BY <1>5 DEF Receipts
  <1>10. \A x \in DOMAIN handlers : x[1] = d /\ handlers'[x].outcome = "waiting" =>
             copy[d] # "absent" \/ d \in late \/ ~(Waiting(d) \subseteq {x})
    <2> SUFFICES ASSUME NEW x \in DOMAIN handlers, handlers'[x].outcome = "waiting"
                 PROVE  ~(Waiting(d) \subseteq {x})
      OBVIOUS
    <2>1. x # h
      BY <1>9
    <2> QED BY <1>3, <2>1
  <1> HIDE DEF d
  <1>11. \A x \in DOMAIN handlers : handlers'[x] # handlers[x] =>
             /\ x[1] = d
             /\ handlers'[x].action = handlers[x].action
             /\ handlers'[x].outcome \in Receipts \cup {"ambiguous"}
             /\ handlers'[x].outcome \in {"durable", "final"} => kept \in {"durable", "final"}
    BY <1>5, <1>9 DEF d
  <1>12. late' \subseteq late /\ \A k \in late : k # d => k \in late'
    BY <1>2
  <1>13. /\ Sound' /\ Restarts /\ SameBelief /\ SameElsewhere(d)
         /\ AgentHas(d)' = IF kept = "final" THEN "durable" ELSE kept
    BY <1>2, <1>4, <1>5, <1>6, <1>7, <1>8, <1>10, <1>11, <1>12, CopyKeeps
  <1>14. d \in Wire
    BY <1>2, <1>3 DEF Wire
  <1>15. N!Next
    <2>1. late \subseteq Id /\ late' \subseteq Id
      BY <1>1, <1>2, TableFields DEF Tables, TypeOK
    <2> QED BY <1>1, <1>2, <1>6, <1>13, <1>14, <2>1, ArrivesNext
  <1> QED BY <1>13, <1>15

LEMMA ArriveLateKeeps ==
  ASSUME Sound, NEW d, NEW kept \in Receipts, ArriveLate(d, kept)
  PROVE  Sound' /\ Restarts /\ N!Next
  <1>1. Tables /\ Settled
    BY DEF Sound
  <1>2. d \in DOMAIN delivery
    BY <1>1 DEF ArriveLate, Tables, TypeOK
  <1>3. /\ d \in Id /\ copy[d] \in Copies /\ d \in late
        /\ Rank[kept] >= Rank[copy[d]]
        /\ copy' = [copy EXCEPT ![d] = kept]
        /\ late' = late \ {d}
        /\ UNCHANGED <<hub, routing, delivery, jobs, handlers>>
    BY <1>1, <1>2, TableFields DEF ArriveLate
  <1>4. Kept(copy[d], kept) /\ kept \in Copies /\ ~Clean(d)
    BY <1>3, RankKept DEF Clean, Copies
  <1>5. \A x \in DOMAIN handlers : handlers[x] \in Handler
    BY <1>1, TableFields
  <1>6. /\ Sound' /\ Restarts /\ SameBelief /\ SameElsewhere(d)
        /\ AgentHas(d)' = IF kept = "final" THEN "durable" ELSE kept
    BY <1>2, <1>3, <1>4, <1>5, CopyKeeps
  <1>7. d \in Wire
    BY <1>3 DEF Wire
  <1>8. N!Next
    <2>1. late \subseteq Id /\ late' \subseteq Id
      BY <1>1, <1>3, TableFields DEF Tables, TypeOK
    <2> QED BY <1>1, <1>2, <1>4, <1>6, <1>7, <2>1, ArrivesNext
  <1> QED BY <1>6, <1>8

\* The Agent makes durable, processes or loses what it has.
LEMMA ProgressKeeps ==
  ASSUME Sound, NEW d \in Id, NEW kept \in Copies, Progress(d, kept)
  PROVE  Sound' /\ Restarts /\ N!Next
  <1>1. Tables /\ Settled
    BY DEF Sound
  <1>2. /\ <<copy[d], kept>> \in {<<"received", "durable">>, <<"durable", "final">>,
                                  <<"received", "absent">>}
        /\ copy' = [copy EXCEPT ![d] = kept]
        /\ UNCHANGED <<hub, routing, delivery, jobs, handlers, late>>
    BY DEF Progress
  <1>3. \/ copy[d] = "received" /\ kept \in {"durable", "absent"}
        \/ copy[d] = "durable" /\ kept = "final"
    BY <1>2
  <1>4. d \in DOMAIN delivery /\ copy \in [Id -> Copies]
    BY <1>1, <1>3 DEF Tables, TypeOK, Exists
  <1>5. Kept(copy[d], kept) /\ ~Clean(d) /\ copy[d] # "absent"
    BY <1>3 DEF Kept, Clean
  <1>6. \A x \in DOMAIN handlers : handlers[x] \in Handler
    BY <1>1, TableFields
  <1>7. /\ Sound' /\ Restarts /\ SameBelief /\ SameElsewhere(d)
        /\ AgentHas(d)' = IF kept = "final" THEN "durable" ELSE kept
    BY <1>2, <1>4, <1>5, <1>6, CopyKeeps
  <1>8. \A k \in Id : k # d => AgentHas(k)' = AgentHas(k)
    BY <1>1, <1>7, Elsewhere
  <1>9. Wire' = Wire
    BY <1>2 DEF Wire, Waiting
  <1>10. AgentHas(d) = IF copy[d] = "final" THEN "durable" ELSE copy[d]
    BY DEF AgentHas
  <1>11. N!Next
    <2> USE DEF SameBelief, Wire
    <2>1. CASE copy[d] = "received" /\ kept = "durable"
      <3>1. N!Persist(d)
        BY <1>7, <1>8, <1>9, <1>10, <2>1 DEF N!Persist
      <3> QED BY <3>1 DEF N!Next
    <2>2. CASE copy[d] = "received" /\ kept = "absent"
      <3>1. N!Forget(d)
        BY <1>7, <1>8, <1>9, <1>10, <2>2 DEF N!Forget
      <3> QED BY <3>1 DEF N!Next
    <2>3. CASE copy[d] = "durable" /\ kept = "final"
      <3>1. SameHas
        BY <1>7, <1>8, <1>10, <2>3 DEF SameHas
      <3> QED BY <1>7, <1>9, <3>1, AsDoubt
    <2> QED BY <1>3, <2>1, <2>2, <2>3
  <1> QED BY <1>7, <1>11

------------------------------------------------------------------------------
(* Settlement and report *)

\* A row is written whose fence stays, and no acceptance is taken back.
LEMMA WriteTables ==
  ASSUME Sound, NEW d \in DOMAIN delivery, NEW q \in Row, Counted(q),
         q.fence = delivery[d].fence, q.sent = delivery[d].sent,
         q.origin = delivery[d].origin, delivery[d].accepted => q.accepted,
         delivery' = [delivery EXCEPT ![d] = q],
         UNCHANGED <<hub, routing, late>>, jobs' \subseteq DOMAIN delivery,
         DOMAIN handlers' \subseteq DOMAIN handlers,
         \A h \in DOMAIN handlers' : handlers'[h] = handlers[h],
         copy' \in [Id -> Copies],
         \A k \in Id : copy'[k] # "absent" => Exists(k)
  PROVE  Tables' /\ Routing'
  <1> USE DEF Sound, hub, routing
  <1>1. /\ DOMAIN delivery' = DOMAIN delivery /\ delivery'[d] = q
        /\ \A k \in DOMAIN delivery : k # d => delivery'[k] = delivery[k]
    OBVIOUS
  <1>2. \A k \in DOMAIN delivery : /\ delivery'[k] \in Row /\ delivery'[k].fence <= MaxFence
                                   /\ Counted(delivery'[k])
                                   /\ delivery'[k].fence = delivery[k].fence
                                   /\ k[2] \in DOMAIN subscriptions /\ k \in Id
    BY <1>1, TableFields, FenceBound
  <1>3. \A h \in DOMAIN handlers' : h \in DOMAIN handlers
    OBVIOUS
  <1>4. TypeOK'
    BY <1>1, <1>2, <1>3 DEF Tables, TypeOK
  <1>5. Tables'
    BY <1>1, <1>2, <1>3, <1>4 DEF Tables, Exists
  <1>6. \A k \in DOMAIN delivery : /\ delivery'[k].sent = delivery[k].sent
                                   /\ delivery'[k].origin = delivery[k].origin
                                   /\ delivery[k].accepted => delivery'[k].accepted
    BY <1>1
  <1>7. Routing'
    BY <1>1, <1>6 DEF Routing, Routed, FirstRecipient, CursorCovers, SubscriptionOf
  <1> QED BY <1>5, <1>7

\* The fence stays and the room its claim made is left.
LEMMA LeftCounted ==
  ASSUME NEW r \in Row, Counted(r), NEW q \in Row, q.state # "delivering",
         q.fence = r.fence, q.cycle = r.cycle, q.recoveries = r.recoveries
  PROVE  Counted(q)
  <1>1. r.recoveries * Stride \in Nat /\ r.fence \in Nat /\ r.cycle \in Nat
    BY RowTyped, StrideStep
  <1> QED BY <1>1 DEF Counted

\* The delivery is Clean when its row comes to deny the Agent's part.
LEMMA WriteKeeps ==
  ASSUME Sound, NEW d \in DOMAIN delivery, NEW q \in Row, Counted(q),
         q.fence = delivery[d].fence, q.sent = delivery[d].sent,
         q.origin = delivery[d].origin, delivery[d].accepted => q.accepted,
         q.action = delivery[d].action, q.state # "delivering",
         delivery' = [delivery EXCEPT ![d] = q],
         UNCHANGED <<hub, routing, late>>, jobs' \subseteq DOMAIN delivery,
         DOMAIN handlers' \subseteq DOMAIN handlers,
         \A h \in DOMAIN handlers : h[1] # d => h \in DOMAIN handlers',
         \A h \in DOMAIN handlers : h \notin DOMAIN handlers' => handlers[h].outcome # "waiting",
         \A h \in DOMAIN handlers' : handlers'[h] = handlers[h],
         copy' \in [Id -> Copies],
         \A k \in Id : k # d => copy'[k] = copy[k],
         Kept(copy[d], copy'[d]), copy'[d] # "absent" => Exists(d),
         copy[d] = "absent" => copy'[d] = "absent",
         Denies(d)' => Clean(d),
         q.accepted => copy'[d] \in {"durable", "final"}
  PROVE  /\ Sound' /\ SameElsewhere(d) /\ Wire' = Wire
         /\ delivery[d].state \notin Terminal \cup {"accepted"}
                \/ q.state \notin Ready \cup {"delivering"} => Restarts
  <1> USE DEF hub, routing
  <1>1. Tables /\ Settled
    BY DEF Sound
  <1>2. /\ DOMAIN delivery' = DOMAIN delivery /\ delivery'[d] = q
        /\ \A k \in DOMAIN delivery : k # d => delivery'[k] = delivery[k]
    OBVIOUS
  <1>3. Tables' /\ Routing'
    <2>1. \A k \in Id : copy'[k] # "absent" => Exists(k)
      BY <1>1 DEF Tables
    <2> QED BY <2>1, WriteTables
  <1>4. \A h \in DOMAIN handlers' : h \in DOMAIN handlers
    OBVIOUS
  <1>5. \A k : Waiting(k)' = Waiting(k)
    <2> SUFFICES ASSUME NEW k
                 PROVE  Waiting(k)' = Waiting(k)
      OBVIOUS
    <2>1. ASSUME NEW h \in Waiting(k)
          PROVE  h \in Waiting(k)'
      BY <2>1 DEF Waiting
    <2>2. ASSUME NEW h \in Waiting(k)'
          PROVE  h \in Waiting(k)
      BY <1>4, <2>2 DEF Waiting
    <2> QED BY <2>1, <2>2
  <1>6. SameElsewhere(d)
    BY <1>2, <1>4 DEF SameElsewhere
  <1>7. Rightly(d)'
    <2>1. Clean(d) => Clean(d)'
      BY <1>5 DEF Clean
    <2> QED BY <1>2, <2>1 DEF Rightly, Sending
  <1>8. ASSUME NEW h \in DOMAIN handlers', h[1] = d
        PROVE  Heard(h)'
    <2>1. Heard(h) /\ handlers'[h] = handlers[h]
      BY <1>1, <1>4 DEF Settled
    <2> QED BY <1>2, <1>8, <2>1 DEF Heard, Kept
  <1>9. Settled'
    BY <1>6, <1>7, <1>8, SettledHere
  <1>10. Wire' = Wire
    BY <1>5 DEF Wire
  <1>11. ASSUME \/ delivery[d].state \notin Terminal \cup {"accepted"}
                \/ q.state \notin Ready \cup {"delivering"}
         PROVE  Restarts
    BY <1>2, <1>11 DEF Restarts, Terminal, Ready
  <1> QED BY <1>3, <1>6, <1>9, <1>10, <1>11 DEF Sound

LEMMA ReportKeeps ==
  ASSUME Sound, NEW d, Report(d)
  PROVE  Sound' /\ Restarts /\ N!Next
  <1> DEFINE r == delivery[d]
  <1>1. PICK w \in Delays : delivery' = [delivery EXCEPT ![d] = Acknowledged(r, "final", w)]
    BY DEF Report
  <1> DEFINE q == Acknowledged(r, "final", w)
  <1>2. Tables /\ Settled
    BY DEF Sound
  <1>3. /\ d \in DOMAIN delivery
        /\ copy[d] \in {"durable", "final"} /\ copy' = [copy EXCEPT ![d] = "final"]
        /\ UNCHANGED <<hub, routing, jobs, handlers, late>>
    BY DEF Report, Exists
  <1>4. /\ d \in Id /\ r \in Row /\ Counted(r) /\ w \in Nat /\ copy \in [Id -> Copies]
        /\ jobs \subseteq DOMAIN delivery
    BY <1>2, <1>3, TableFields, DeliveryAssumption DEF Tables, TypeOK
  <1>5. "final" \in Receipts /\ "final" \in Copies
    BY DEF Receipts, Copies
  <1>6. /\ q \in Row
        /\ q.action = r.action /\ q.sent = r.sent /\ q.origin = r.origin
        /\ q.fence = r.fence /\ q.cycle = r.cycle /\ q.recoveries = r.recoveries
        /\ q.accepted /\ q.state \in {"completed", "accepted"}
    BY <1>4, <1>5, AcknowledgedRow
  <1> HIDE DEF q
  <1>7. Counted(q)
    BY <1>4, <1>6, LeftCounted
  <1>8. /\ copy'[d] = "final" /\ copy' \in [Id -> Copies]
        /\ \A k \in Id : k # d => copy'[k] = copy[k]
    BY <1>3, <1>4, <1>5
  <1>9. Denies(d)' => Clean(d)
    <2> SUFFICES ASSUME Denies(d)'
                 PROVE  Clean(d)
      OBVIOUS
    <2>1. delivery'[d] = q
      BY <1>1, <1>3 DEF q
    <2>2. ~r.sent
      BY <1>6, <2>1 DEF Denies, Fresh, Careful
    <2> QED BY <1>2, <1>3, <2>2 DEF Settled, Rightly, Denies
  <1>10. Kept(copy[d], copy'[d]) /\ Exists(d)
    BY <1>3, <1>8 DEF Kept, Exists
  <1>11. delivery' = [delivery EXCEPT ![d] = q]
    BY <1>1 DEF q
  <1>12. Sound' /\ SameElsewhere(d) /\ Wire' = Wire /\ Restarts
    <2>1. q.state # "delivering" /\ q.state \notin Ready \cup {"delivering"}
      BY <1>6 DEF Ready
    <2> QED BY <1>3, <1>4, <1>6, <1>7, <1>8, <1>9, <1>10, <1>11, <2>1, WriteKeeps
  <1>13. N!Next
    <2>1. \A k \in Id : k # d => AgentHas(k)' = AgentHas(k) /\ Belief(k)' = Belief(k)
      BY <1>2, <1>12, Elsewhere
    <2>2. AgentHas(d) = "durable" /\ AgentHas(d)' = "durable"
      BY <1>3, <1>8 DEF AgentHas
    <2>3. Belief(d)' = "durable"
      BY <1>3, <1>6, <1>11 DEF Belief, Exists
    <2>4. N!Confirm(d)
      BY <1>4, <1>12, <2>1, <2>2, <2>3 DEF N!Confirm, Wire
    <2> QED BY <1>4, <2>4 DEF N!Next
  <1> QED BY <1>12, <1>13

\* What the settlement of h makes of its row; the Agent keeps what a durable
\* receipt says, and what denies the Agent's part was refused.
LEMMA SettledRow ==
  ASSUME Sound, NEW h \in DOMAIN handlers, NEW w \in Delays, Settle(h, w)
  PROVE  LET d == h[1]
             r == delivery[d]
             q == delivery'[d]
         IN  /\ delivery' = [delivery EXCEPT ![d] = q]
             /\ q \in Row /\ Counted(q)
             /\ q.action = r.action /\ q.sent = r.sent /\ q.origin = r.origin
             /\ q.fence = r.fence /\ q.risk = r.risk
             /\ r.state = "delivering" /\ q.state # "delivering"
             /\ r.accepted => q.accepted
             /\ q.accepted => copy[d] \in {"durable", "final"}
             /\ ~q.accepted => (r.remote_outcome_uncertain => q.remote_outcome_uncertain)
             /\ Denies(d)' => Clean(d)
  <1> DEFINE d == h[1]
             r == delivery[d]
             o == handlers[h].outcome
             i == SubscriptionOf(d).idempotent
  <1>1. Tables /\ Settled
    BY DEF Sound
  <1>2. /\ o # "waiting" /\ r.state = "delivering" /\ r.fence = h[2]
        /\ delivery' = [delivery EXCEPT ![d] =
                            IF o \in Receipts THEN Acknowledged(r, o, w) ELSE Failed(r, o, i, w)]
        /\ UNCHANGED <<hub, routing, copy, late>>
    BY DEF Settle, Owns
  <1>3. /\ d \in DOMAIN delivery /\ d[2] \in DOMAIN subscriptions /\ h = <<d, r.fence>>
        /\ r \in Row /\ Counted(r) /\ w \in Nat
        /\ handlers[h].action \in {"receive", "status"} /\ o \in Outcomes
    <2>1. handlers[h] \in Handler /\ h[1] \in DOMAIN delivery /\ h = <<h[1], h[2]>>
      BY <1>1, TableFields
    <2>2. handlers[h].action \in {"receive", "status"} /\ o \in Outcomes
      BY <1>2, <2>1 DEF Handler
    <2>3. w \in Nat
      BY DeliveryAssumption
    <2> QED BY <1>1, <1>2, <2>1, <2>2, <2>3, TableFields
  <1>4. i \in BOOLEAN
    BY <1>1, <1>3, SubscriptionFields DEF SubscriptionOf
  <1>5. Rightly(d) /\ Heard(h)
    BY <1>1, <1>3 DEF Settled
  <1>6. handlers[h].action = r.action
    BY <1>2, <1>5 DEF Heard
  <1>7. ~r.sent => Clean(d)
    BY <1>5 DEF Rightly, Denies
  <1>8. Sending(r) /\ (Fresh(r) \/ Careful(d)) /\ o \in Refusals => Clean(d)
    BY <1>3, <1>5 DEF Rightly, FirstCall
  <1>9. r.accepted => copy[d] \in {"durable", "final"}
    BY <1>5 DEF Rightly
  <1>10. Fresh(r) /\ ~Sending(r) => Clean(d)
    BY <1>5 DEF Rightly, Denies
  <1>11. o \in {"durable", "final"} => copy[d] \in {"durable", "final"}
    BY <1>5 DEF Heard
  <1>12. o = "not_found" => r.action = "status"
    BY <1>5, <1>6 DEF Heard
  <1>13. ASSUME NEW q, q = delivery'[d]
         PROVE  Denies(d)' <=> \/ Fresh(q) /\ ~Sending(q)
                               \/ ~q.sent
                               \/ ~i /\ ~q.risk /\ q.state \in {"pending", "retry_wait"}
    BY <1>2, <1>13 DEF Denies, Careful, SubscriptionOf, routing
  <1>14. Careful(d) <=> ~i /\ ~r.risk
    BY DEF Careful
  <1>15. r.accepted \in BOOLEAN /\ r.remote_outcome_uncertain \in BOOLEAN
    BY <1>3, RowTyped
  <1> HIDE DEF r, i, o
  <1>16. CASE o \in Receipts
    <2> DEFINE q == Acknowledged(r, o, w)
    <2>1. /\ q \in Row
          /\ q.action = r.action /\ q.sent = r.sent /\ q.origin = r.origin
          /\ q.fence = r.fence /\ q.cycle = r.cycle /\ q.risk = r.risk
          /\ q.recoveries = r.recoveries
          /\ q.state \in {"completed", "accepted", "uncertain", "reconciling"}
          /\ o = "received" => q.remote_outcome_uncertain /\ q.accepted = r.accepted
          /\ o # "received" => ~q.remote_outcome_uncertain /\ q.accepted
      BY <1>3, <1>16, AcknowledgedRow
    <2>2. delivery' = [delivery EXCEPT ![d] = q] /\ delivery'[d] = q
      BY <1>2, <1>3, <1>16
    <2> HIDE DEF q, d
    <2>3. o \in {"received", "durable", "final"}
      BY <1>16 DEF Receipts
    <2>4. q.accepted => copy[d] \in {"durable", "final"}
      BY <1>9, <1>11, <2>1, <2>3
    <2>5. Counted(q) /\ q.state # "delivering"
      BY <1>3, <2>1, LeftCounted
    <2>6. ~Fresh(q)
      BY <2>1 DEF Fresh
    <2>7. Denies(d)' => Clean(d)
      BY <1>7, <1>13, <2>1, <2>2, <2>6
    <2> QED BY <1>2, <2>1, <2>2, <2>3, <2>4, <2>5, <2>7 DEF d, r
  <1>17. CASE o \notin Receipts
    <2> DEFINE q == Failed(r, o, i, w)
    <2>1. /\ q \in Row /\ SamePast(r, q)
          /\ q.fence = r.fence /\ q.cycle = r.cycle /\ q.risk = r.risk
          /\ q.recoveries = r.recoveries
          /\ q.state \notin {"delivering", "accepted", "pending"}
          /\ r.remote_outcome_uncertain \/ o = "ambiguous" => q.remote_outcome_uncertain
          /\ q.state = "retry_wait" =>
                 \/ o = "not_found" /\ i
                 \/ o = "retryable" /\ r.action # "status" /\ ~r.remote_outcome_uncertain
      BY <1>3, <1>4, <1>17, FailedRow
    <2>2. delivery' = [delivery EXCEPT ![d] = q] /\ delivery'[d] = q
      BY <1>2, <1>3, <1>17
    <2> HIDE DEF q, d
    <2>3. o \in Refusals \cup {"not_found", "ambiguous"}
      BY <1>3, <1>17 DEF Outcomes
    <2>4. Counted(q)
      BY <1>3, <2>1, LeftCounted
    <2>5. Fresh(q) /\ ~Sending(q) => Clean(d)
      <3> SUFFICES ASSUME Fresh(q)
                   PROVE  Clean(d)
        OBVIOUS
      <3>1. Fresh(r) /\ o # "ambiguous"
        BY <2>1 DEF Fresh, SamePast
      <3>2. CASE Sending(r)
        <4>1. o \in Refusals
          BY <1>12, <2>3, <3>1, <3>2 DEF Sending
        <4> QED BY <1>8, <3>1, <3>2, <4>1
      <3>3. CASE ~Sending(r)
        BY <1>10, <3>1, <3>3
      <3> QED BY <3>2, <3>3
    <2>6. ~i /\ ~q.risk /\ q.state \in {"pending", "retry_wait"} => Clean(d)
      <3> SUFFICES ASSUME ~i, ~q.risk, q.state \in {"pending", "retry_wait"}
                   PROVE  Clean(d)
        OBVIOUS
      <3>1. o = "retryable" /\ r.action # "status" /\ Careful(d)
        BY <1>14, <2>1
      <3>2. Sending(r)
        BY <1>2, <1>3, <1>6, <3>1 DEF Sending
      <3>3. o \in Refusals
        BY <3>1 DEF Refusals
      <3> QED BY <1>8, <3>1, <3>2, <3>3
    <2>7. Denies(d)' => Clean(d)
      BY <1>7, <1>13, <2>1, <2>2, <2>5, <2>6 DEF SamePast
    <2>8. q.accepted = r.accepted
      BY <2>1 DEF SamePast
    <2> QED BY <1>2, <1>9, <2>1, <2>2, <2>4, <2>7, <2>8 DEF SamePast, d, r
  <1> QED BY <1>16, <1>17

LEMMA SettleKeeps ==
  ASSUME Sound, NEW h \in DOMAIN handlers, NEW w \in Delays, Settle(h, w)
  PROVE  Sound' /\ Restarts /\ N!Next
  <1> DEFINE d == h[1]
             r == delivery[d]
             q == delivery'[d]
  <1>1. Tables /\ Settled
    BY DEF Sound
  <1>2. /\ delivery' = [delivery EXCEPT ![d] = q]
        /\ q \in Row /\ Counted(q)
        /\ q.action = r.action /\ q.sent = r.sent /\ q.origin = r.origin
        /\ q.fence = r.fence /\ q.risk = r.risk
        /\ r.state = "delivering" /\ q.state # "delivering"
        /\ r.accepted => q.accepted
        /\ q.accepted => copy[d] \in {"durable", "final"}
        /\ ~q.accepted => (r.remote_outcome_uncertain => q.remote_outcome_uncertain)
        /\ Denies(d)' => Clean(d)
    BY SettledRow
  <1>3. /\ handlers[h].outcome # "waiting"
        /\ DOMAIN handlers' = DOMAIN handlers \ {h}
        /\ \A x \in DOMAIN handlers' : handlers'[x] = handlers[x]
        /\ jobs' \subseteq jobs \cup {d}
        /\ UNCHANGED <<hub, routing, copy, late>>
    BY DEF Settle, Without, Rescheduled
  <1>4. /\ d \in DOMAIN delivery /\ d \in Id /\ copy \in [Id -> Copies]
        /\ jobs \subseteq DOMAIN delivery
        /\ copy[d] # "absent" => Exists(d)
    BY <1>1, TableFields DEF Tables, TypeOK
  <1>5. Kept(copy[d], copy'[d])
    BY <1>3 DEF Kept
  <1>6. r.state \notin Terminal \cup {"accepted"}
    BY <1>2 DEF Terminal
  <1>7. d \in DOMAIN delivery' /\ delivery'[d] = q
    BY <1>2, <1>4
  <1> HIDE DEF d, q
  <1>8. Sound' /\ SameElsewhere(d) /\ Wire' = Wire /\ Restarts
    <2>1. \A x \in DOMAIN handlers : x[1] # d => x \in DOMAIN handlers'
      BY <1>3 DEF d
    <2>2. \A x \in DOMAIN handlers : x \notin DOMAIN handlers' => handlers[x].outcome # "waiting"
      BY <1>3
    <2>3. jobs' \subseteq DOMAIN delivery
      BY <1>3, <1>4
    <2>4. copy' \in [Id -> Copies] /\ copy' = copy
      BY <1>3, <1>4
    <2>5. UNCHANGED <<hub, routing, late>> /\ DOMAIN handlers' \subseteq DOMAIN handlers
          /\ \A x \in DOMAIN handlers' : handlers'[x] = handlers[x]
      BY <1>3
    <2>6. q.accepted => copy'[d] \in {"durable", "final"}
      BY <1>2, <2>4
    <2> QED BY <1>2, <1>4, <1>5, <1>6, <2>1, <2>2, <2>3, <2>4, <2>5, <2>6, WriteKeeps
  <1>9. \A k \in Id : k # d => Belief(k)' = Belief(k)
    BY <1>1, <1>8, Elsewhere
  <1>10. SameHas
    BY <1>3 DEF SameHas, AgentHas
  <1>11. Belief(d) = IF r.accepted THEN "durable"
                     ELSE IF r.remote_outcome_uncertain \/ Sending(r) THEN "maybe" ELSE "none"
    BY <1>4, BeliefOf
  <1>12. Belief(d)' = IF q.accepted THEN "durable"
                      ELSE IF q.remote_outcome_uncertain THEN "maybe" ELSE "none"
    BY <1>2, <1>7 DEF Belief, Exists
  <1> HIDE DEF r
  <1>13. CASE q.accepted
    <2>1. AgentHas(d) = "durable" /\ Belief(d)' = "durable"
      BY <1>2, <1>12, <1>13 DEF AgentHas
    <2>2. N!Confirm(d)
      BY <1>4, <1>8, <1>9, <1>10, <2>1 DEF N!Confirm, SameHas, Wire
    <2> QED BY <1>4, <1>8, <2>2 DEF N!Next
  <1>14. CASE ~q.accepted /\ ~q.remote_outcome_uncertain /\ Sending(r)
    <2>1. ~r.accepted /\ Belief(d) = "maybe" /\ Belief(d)' = "none"
      BY <1>2, <1>11, <1>12, <1>14
    <2>2. Fresh(q) /\ ~Sending(q)
      BY <1>2, <1>14 DEF Fresh, Sending
    <2>3. Clean(d)
      BY <1>2, <1>7, <2>2 DEF Denies
    <2>4. AgentHas(d) = "absent" /\ d \notin Wire
      BY <2>3 DEF Clean, AgentHas, Wire
    <2>5. N!Deny(d)
      BY <1>4, <1>8, <1>9, <1>10, <2>1, <2>4 DEF N!Deny, SameHas, Wire
    <2> QED BY <1>4, <1>8, <2>5 DEF N!Next
  <1>15. CASE ~q.accepted /\ ~(~q.remote_outcome_uncertain /\ Sending(r))
    <2>1. \/ Belief(d)' = Belief(d)
          \/ Belief(d) = "none" /\ Belief(d)' = "maybe"
      BY <1>2, <1>11, <1>12, <1>15
    <2> QED BY <1>8, <1>9, <1>10, <2>1, AsDoubt
  <1> QED BY <1>8, <1>13, <1>14, <1>15

------------------------------------------------------------------------------
(* The invariant *)

LEMMA InitSound == Init => Sound /\ N!Init
  <1> SUFFICES ASSUME Init
               PROVE  Sound /\ N!Init
    OBVIOUS
  <1> USE DEF Init
  <1>1. DOMAIN delivery = {} /\ DOMAIN handlers = {} /\ DOMAIN subscriptions = {}
        /\ Len(subscriptions) = 0
    OBVIOUS
  <1>2. TypeOK
    <2>1. authority \in [open: BOOLEAN, epoch: 1..MaxEpoch]
      BY DeliveryAssumption
    <2>2. agent \in [Agents -> [target: Digests, standing: Standings]]
      BY DeliveryAssumption
    <2>3. log \in 0..MaxEvents
      BY DeliveryAssumption
    <2>4. subscriptions \in Seq(Subscription)
      OBVIOUS
    <2>5. copy \in [Id -> Copies]
      BY DEF Copies
    <2> QED BY <1>1, <2>1, <2>2, <2>3, <2>4, <2>5 DEF TypeOK
  <1>3. Tables
    BY <1>1, <1>2, DeliveryAssumption DEF Tables
  <1>4. Routing
    BY <1>1 DEF Routing, Routed, FirstRecipient, CursorCovers
  <1>5. Settled
    BY <1>1 DEF Settled
  <1>6. N!Init
    BY <1>1 DEF N!Init, AgentHas, Waiting, Belief, Exists
  <1> QED BY <1>3, <1>4, <1>5, <1>6 DEF Sound

LEMMA HandlerKeeps ==
  ASSUME Sound, NEW h \in DOMAIN handlers,
         Answer(h) \/ Renew(h) \/ Finish(h) \/ Die(h)
  PROVE  Sound' /\ Restarts /\ N!Next
  <1>1. ASSUME NEW kept \in Receipts, Take(h, kept)
        PROVE  Sound' /\ Restarts /\ N!Next
    BY <1>1, TakeKeeps
  <1>2. ASSUME NEW class \in Refusals, Decline(h, class)
        PROVE  Sound' /\ Restarts /\ N!Next
    BY <1>2, DeclineQuiet, QuietKeeps
  <1>3. ASSUME NEW o, TimeOut(h, o)
        PROVE  Sound' /\ Restarts /\ N!Next
    BY <1>3, TimeOutQuiet, QuietKeeps
  <1>4. CASE TellStatus(h)
    BY <1>4, TellStatusQuiet, QuietKeeps
  <1>5. CASE Renew(h)
    <2>1. Tables
      BY DEF Sound
    <2> QED BY <1>5, <2>1, RenewRewrites, RewritesKeep
  <1>6. CASE Refused(h) \/ Die(h)
    BY <1>6, EndedQuiet, QuietKeeps
  <1>7. ASSUME NEW w \in Delays, Settle(h, w)
        PROVE  Sound' /\ Restarts /\ N!Next
    BY <1>7, SettleKeeps
  <1> QED BY <1>1, <1>2, <1>3, <1>4, <1>5, <1>6, <1>7 DEF Answer, Finish

LEMMA DeliveryKeeps ==
  ASSUME Sound, NEW d \in Id,
         \/ Worker(d) \/ LoseWakeup(d) \/ Maintain(d)
         \/ Report(d) \/ Cancel(d) \/ Reconcile(d)
         \/ \E risk \in BOOLEAN : Redeliver(d, risk)
         \/ \E kept \in Receipts : ArriveLate(d, kept)
         \/ \E kept \in Copies : Progress(d, kept)
  PROVE  Sound' /\ Restarts /\ N!Next
  <1>1. Tables
    BY DEF Sound
  <1>2. CASE Claim(d)
    BY <1>2, ClaimKeeps
  <1>3. CASE BlockTarget(d)
    BY <1>1, <1>3, BlockTargetRewrites, RewritesKeep
  <1>4. CASE Exhaust(d)
    BY <1>1, <1>4, ExhaustRewrites, RewritesKeep
  <1>5. CASE DropWakeup(d) \/ LoseWakeup(d)
    BY <1>1, <1>5, IdleRewrites, RewritesKeep
  <1>6. CASE Maintain(d)
    BY <1>1, <1>6, MaintainRewrites, RewritesKeep
  <1>7. CASE Report(d)
    BY <1>7, ReportKeeps
  <1>8. CASE Cancel(d)
    BY <1>1, <1>8, CancelRewrites, RewritesKeep
  <1>9. CASE Reconcile(d) \/ \E risk \in BOOLEAN : Redeliver(d, risk)
    BY <1>1, <1>9, RecoverRewrites, RewritesKeep
  <1>10. ASSUME NEW kept \in Receipts, ArriveLate(d, kept)
         PROVE  Sound' /\ Restarts /\ N!Next
    BY <1>10, ArriveLateKeeps
  <1>11. ASSUME NEW kept \in Copies, Progress(d, kept)
         PROVE  Sound' /\ Restarts /\ N!Next
    BY <1>11, ProgressKeeps
  <1> QED BY <1>2, <1>3, <1>4, <1>5, <1>6, <1>7, <1>8, <1>9, <1>10, <1>11 DEF Worker

LEMMA NextSound ==
  ASSUME Sound, [Next]_vars
  PROVE  Sound' /\ Restarts /\ [N!Next]_(N!vars)
  <1>1. Tables
    BY DEF Sound
  <1>2. ASSUME NEW m \in BOOLEAN, AppendEvent(m)
        PROVE  Sound' /\ Restarts /\ N!Next
    BY <1>2, AppendEventKeeps
  <1>3. ASSUME NEW g \in Agents, NEW i \in BOOLEAN, Configure(g, i)
        PROVE  Sound' /\ Restarts /\ N!Next
    BY <1>3, ConfigureKeeps
  <1>4. ASSUME NEW e \in 1..MaxEvents, NEW s \in 1..MaxSubscriptions, NEW risk \in BOOLEAN,
               Retarget(e, s, risk)
        PROVE  Sound' /\ Restarts /\ N!Next
    BY <1>4, RetargetKeeps
  <1>5. ASSUME NEW s \in 1..MaxSubscriptions, NEW c \in 1..MaxEvents, AckCursor(s, c)
        PROVE  Sound' /\ Restarts /\ N!Next
    BY <1>5, AckCursorKeeps
  <1>6. ASSUME NEW g \in Agents, NEW t \in Digests, NEW s \in Standings, ChangeAgent(g, t, s)
        PROVE  Sound' /\ Restarts /\ N!Next
    BY <1>6, ChangeAgentKeeps
  <1>7. CASE \/ \E to \in BOOLEAN : SetProject(to)
             \/ ActivatePlatform
             \/ UNCHANGED vars
    BY <1>1, <1>7, IdleRewrites, RewritesKeep
  <1>8. CASE ClosePlatform
    BY <1>1, <1>8, CloseRewrites, RewritesKeep
  <1>9. CASE Tick
    BY <1>1, <1>9, TickRewrites, RewritesKeep
  <1>10. ASSUME NEW d \in Id,
                \/ Worker(d) \/ LoseWakeup(d) \/ Maintain(d)
                \/ Report(d) \/ Cancel(d) \/ Reconcile(d)
                \/ \E risk \in BOOLEAN : Redeliver(d, risk)
                \/ \E kept \in Receipts : ArriveLate(d, kept)
                \/ \E kept \in Copies : Progress(d, kept)
         PROVE  Sound' /\ Restarts /\ N!Next
    BY <1>10, DeliveryKeeps
  <1>11. ASSUME NEW h \in DOMAIN handlers, Answer(h) \/ Renew(h) \/ Finish(h) \/ Die(h)
         PROVE  Sound' /\ Restarts /\ N!Next
    BY <1>11, HandlerKeeps
  <1>12. CASE Next
    <2>1. CASE \E d \in Id :
                 \/ Worker(d) \/ LoseWakeup(d) \/ Maintain(d)
                 \/ Report(d) \/ Cancel(d) \/ Reconcile(d)
                 \/ \E risk \in BOOLEAN : Redeliver(d, risk)
                 \/ \E kept \in Receipts : ArriveLate(d, kept)
                 \/ \E kept \in Copies : Progress(d, kept)
      BY <1>10, <2>1
    <2>2. CASE \E h \in DOMAIN handlers : Answer(h) \/ Renew(h) \/ Finish(h) \/ Die(h)
      BY <1>11, <2>2
    <2>3. CASE \/ \E m \in BOOLEAN : AppendEvent(m)
               \/ \E g \in Agents, i \in BOOLEAN : Configure(g, i)
      BY <1>2, <1>3, <2>3
    <2>4. CASE \/ \E e \in 1..MaxEvents, s \in 1..MaxSubscriptions, risk \in BOOLEAN :
                      Retarget(e, s, risk)
               \/ \E s \in 1..MaxSubscriptions, c \in 1..MaxEvents : AckCursor(s, c)
      BY <1>4, <1>5, <2>4
    <2>5. CASE \E g \in Agents, t \in Digests, s \in Standings : ChangeAgent(g, t, s)
      BY <1>6, <2>5
    <2>6. CASE \/ \E to \in BOOLEAN : SetProject(to)
               \/ ClosePlatform \/ ActivatePlatform \/ Tick
      BY <1>7, <1>8, <1>9, <2>6
    <2> QED BY <1>12, <2>1, <2>2, <2>3, <2>4, <2>5, <2>6 DEF Next
  <1>13. Sound' /\ Restarts /\ (N!Next \/ UNCHANGED N!vars)
    BY <1>7, <1>12
  <1> QED BY <1>13

\* Sound holds in every state.
LEMMA SoundKept == Spec => []Sound
  <1>1. Init => Sound
    BY InitSound
  <1>2. Sound /\ [Next]_vars => Sound'
    BY NextSound
  <1> QED BY <1>1, <1>2, PTL DEF Spec

------------------------------------------------------------------------------
(* The theorems *)

\* Every table holds rows of its type, whose fence stays below its bound, and every
\* handler has a row that is not behind it (event_delivery.ex and its schemas).
THEOREM TypeCorrect == Spec => []TypeOK
  <1>1. Sound => TypeOK
    BY DEF Sound, Tables
  <1> QED BY <1>1, SoundKept, PTL

\* Without the Agent's idempotency guarantee, no handler sends what the Agent has or
\* may still get, unless an operator took that risk (claim, failed!, expire_locked,
\* recover).
THEOREM NothingSentBlindly == Spec => []NoBlindResend
  <1>1. Sound => NoBlindResend
    <2> SUFFICES ASSUME Sound, NEW d \in DOMAIN delivery, NEW h \in Waiting(d),
                        delivery[d].state = "delivering", h[2] = delivery[d].fence,
                        ~SubscriptionOf(d).idempotent,
                        copy[d] # "absent" \/ d \in late \/ Waiting(d) # {h},
                        ~delivery[d].risk
                 PROVE  FALSE
      BY DEF NoBlindResend
    <2>1. /\ h \in DOMAIN handlers /\ h[1] = d
          /\ handlers[h].action = "receive" /\ handlers[h].outcome = "waiting"
      BY DEF Waiting
    <2>2. h = <<d, delivery[d].fence>>
      BY <2>1, TableFields DEF Sound
    <2>3. Rightly(d) /\ Heard(h)
      BY <2>1 DEF Sound, Settled
    <2>4. Sending(delivery[d]) /\ Careful(d)
      BY <2>1, <2>3 DEF Heard, Sending, Careful
    <2>5. FirstCall(d, h)
      BY <2>1, <2>2, <2>3, <2>4 DEF Rightly
    <2> QED BY <2>1, <2>5 DEF FirstCall
  <1> QED BY <1>1, SoundKept, PTL

\* Once an event was sent to one recipient it is sent to a later one only at the
\* operator's risk (configure, redeliver, claim).
THEOREM SecondRecipient == Spec => []SecondRecipientAtRisk
  <1>1. Sound => SecondRecipientAtRisk
    BY DEF Sound, Routing, FirstRecipient, SecondRecipientAtRisk
  <1> QED BY <1>1, SoundKept, PTL

\* A cursor covers no event its subscription was owed that its Agent has not durably
\* accepted (ack_cursor, acknowledge!).
THEOREM CursorsCover == Spec => []CursorCovers
  <1>1. Sound => CursorCovers
    BY DEF Sound, Routing
  <1> QED BY <1>1, SoundKept, PTL

\* What has stopped or was accepted starts again by an operator's recovery only
\* (recover, and no leftover job, late handler or maintenance).
THEOREM RestartsAreOperators == Spec => OnlyOperatorsRestart
  <1>1. Sound /\ [Next]_vars =>
            [\A d \in DOMAIN delivery :
                /\ delivery[d].state \in Terminal \cup {"accepted"}
                /\ delivery'[d].state \in Ready \cup {"delivering"}
                => delivery'[d].recoveries > delivery[d].recoveries]_vars
    BY NextSound DEF Restarts
  <1> QED BY <1>1, SoundKept, PTL DEF Spec, OnlyOperatorsRestart

\* The delivery implements the abstract notification: what it says of the Agent's
\* side is never less than what is, nor a promise the Agent does not keep.
THEOREM DeliveryImplements == Spec => ImplementsNotification
  <1>1. Init => N!Init
    BY InitSound
  <1>2. Sound /\ [Next]_vars => [N!Next]_(N!vars)
    BY NextSound
  <1> QED BY <1>1, <1>2, SoundKept, PTL DEF Spec, ImplementsNotification, N!Spec

\* So the Hub never denies what the Agent has or may get, whoever has died, stalled
\* or been closed meanwhile (acknowledge!, failed!, expire_locked).
THEOREM DeliveryHonest == Spec => []N!Honest
  <1>1. Sound => N!Honest
    <2> SUFFICES ASSUME Sound, NEW d \in Id
                 PROVE  /\ Belief(d) = "none" => AgentHas(d) = "absent" /\ d \notin Wire
                        /\ Belief(d) = "durable" => AgentHas(d) = "durable"
      BY DEF N!Honest, Wire
    <2>1. CASE d \notin DOMAIN delivery
      <3>1. copy[d] = "absent" /\ d \notin late /\ Waiting(d) = {}
        BY <2>1 DEF Sound, Tables, TypeOK, Exists, Waiting
      <3>2. Belief(d) = "none"
        BY <2>1 DEF Belief, Exists
      <3> QED BY <3>1, <3>2 DEF AgentHas, Wire
    <2>2. CASE d \in DOMAIN delivery
      <3>1. Rightly(d)
        BY <2>2 DEF Sound, Settled
      <3>2. Belief(d) = IF delivery[d].accepted THEN "durable"
                        ELSE IF delivery[d].remote_outcome_uncertain \/ Sending(delivery[d])
                          THEN "maybe" ELSE "none"
        BY <2>2, BeliefOf
      <3>3. ASSUME Belief(d) = "none"
            PROVE  AgentHas(d) = "absent" /\ d \notin Wire
        <4>1. Clean(d)
          BY <3>1, <3>2, <3>3 DEF Rightly, Denies, Fresh
        <4> QED BY <4>1 DEF Clean, AgentHas, Wire
      <3>4. ASSUME Belief(d) = "durable"
            PROVE  AgentHas(d) = "durable"
        BY <3>1, <3>2, <3>4 DEF Rightly, AgentHas
      <3> QED BY <3>3, <3>4
    <2> QED BY <2>1, <2>2
  <1> QED BY <1>1, SoundKept, PTL

=============================================================================
