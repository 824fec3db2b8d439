--------------------------- MODULE EventDelivery ---------------------------
(***************************************************************************)
(* The durable, at-least-once delivery of one Project's events to the      *)
(* Agent responsible for them: the event sequence, subscriptions and their *)
(* cursors, delivery rows with their handler leases, the workers that      *)
(* claim, call the Agent and settle, the maintenance that repairs missed   *)
(* wakeups and lost handlers, operator recovery, and the Agent.            *)
(*                                                                         *)
(* Every transaction of the Hub locks the authority, the Agent and the     *)
(* Project first (commands.ex, lock_context!), so it is one action. The    *)
(* call over the network runs between two transactions, claim and settle,  *)
(* in a handler process that may stall, outlive its lease or die.          *)
(*                                                                         *)
(* Time is counted down: a row holds the time its lease, the renewal of    *)
(* its attempt and its next attempt have left, 0 when past.                *)
(***************************************************************************)
EXTENDS Integers, Sequences, FiniteSets

CONSTANTS
    Agents,
    Digests,            \* the endpoint and credential references of an Agent
    Standings,          \* how an Agent may stand in the Project
    MaxAttempts,        \* network attempts per recovery cycle
    LeaseTTL,           \* what a claim or a renewal leases
    RenewTTL,           \* how long after its start an attempt may be renewed
    Delays,             \* the backoffs of a retry
    Answers,            \* the receipts and refusals an Agent may give
    Faults,             \* what may go wrong: "time_out", "die", "lose_wakeup"
    MaxEvents,          \* bound: events of the Project
    MaxSubscriptions,   \* bound: subscriptions ever configured
    MaxDeliveries,      \* bound: deliveries ever made
    MaxRecoveries,      \* bound: recovery actions per delivery
    MaxEpoch            \* bound: authority epochs

ASSUME DeliveryAssumption ==
    /\ Standings \subseteq {"responsible", "unadvertised", "removed"}
    /\ "responsible" \in Standings
    /\ MaxAttempts \in Nat \ {0}
    /\ LeaseTTL \in Nat \ {0}
    /\ RenewTTL \in Nat
    /\ LeaseTTL <= RenewTTL
    /\ Delays \subseteq Nat \ {0}
    /\ Delays # {}
    /\ Answers \subseteq {"received", "durable", "final",
                          "retryable", "permanent", "authentication"}
    /\ Faults \subseteq {"time_out", "die", "lose_wakeup"}
    /\ MaxEvents \in Nat
    /\ MaxSubscriptions \in Nat
    /\ MaxDeliveries \in Nat
    /\ MaxRecoveries \in Nat
    /\ MaxEpoch \in Nat \ {0}

VARIABLES
    authority,      \* whether the platform admits work, and its epoch
    active,         \* whether the Project is active
    agent,          \* the current target of each Agent and its standing
    log,            \* the Project's event sequence
    subscriptions,  \* the subscriptions configured so far, in order
    delivery,       \* the delivery rows that exist, by <<event, subscription>>
    jobs,           \* deliveries with a wakeup in the job queue
    handlers,       \* handler processes by <<delivery, fence>>
    copy,           \* what the Agent has of each delivery
    late            \* deliveries with a request nobody waits for any more

hub == <<authority, active>>
routing == <<agent, log, subscriptions>>
network == <<handlers, copy, late>>
vars == <<authority, active, agent, log, subscriptions, delivery, jobs,
          handlers, copy, late>>

------------------------------------------------------------------------------
(* Types *)

Ready == {"pending", "retry_wait", "reconciling"}
Terminal == {"completed", "dead_letter", "authentication_failed", "cancelled",
             "uncertain"}
State == Ready \cup Terminal \cup {"delivering", "accepted"}

Id == (1..MaxEvents) \X (1..MaxSubscriptions)

Row == [state: State, action: {"none", "receive", "status"}, sent: BOOLEAN,
        cycle: Nat, wait: Nat, fence: Nat, lease: Nat, renewal: Nat, epoch: Nat,
        accepted: BOOLEAN, remote_outcome_uncertain: BOOLEAN, risk: BOOLEAN,
        recoveries: Nat, origin: {"append", "retarget", "retarget_at_risk"}]

\* A recovery begins a cycle; each of its attempts may be claimed and given up.
MaxFence == (MaxRecoveries + 1) * (2 * MaxAttempts + 1)

Subscription == [agent: Agents, target: Digests, idempotent: BOOLEAN,
                 enabled: BOOLEAN, cursor: Nat]

\* What the Agent keeps of a delivery, and what its receipts say of it.
Receipts == {"received", "durable", "final"}
Copies == Receipts \cup {"absent"}

\* Failures after which the Agent surely did nothing with the request.
Refusals == {"retryable", "permanent", "authentication"}
Outcomes == Receipts \cup Refusals \cup {"not_found", "ambiguous"}

Handler == [action: {"receive", "status"}, outcome: Outcomes \cup {"waiting"}]

------------------------------------------------------------------------------
(* Reading the tables *)

Exists(d) == d \in DOMAIN delivery
EventOf(d) == d[1]
SubscriptionOf(d) == subscriptions[d[2]]
Enabled(s) == s \in DOMAIN subscriptions /\ subscriptions[s].enabled

\* Nothing retargets a delivery: its Agent must still be the responsible one and
\* still have the endpoint and credential it had when the subscription was made.
TargetCurrent(d) ==
    LET s == SubscriptionOf(d) IN
    /\ s.enabled
    /\ agent[s.agent] = [target |-> s.target, standing |-> "responsible"]

Lapsed(r) == r.state = "delivering" /\ r.lease = 0

\* The handler is given up: what it did is unknown and only a status query follows.
Expired(r) ==
    [r EXCEPT !.state = "reconciling", !.remote_outcome_uncertain = TRUE,
              !.fence = r.fence + 1, !.lease = 0, !.renewal = 0, !.wait = 0]

NeverExpire(r) == r                                                   \* (mutant)
ExpireIfLapsed(r) == IF Lapsed(r) THEN Expired(r) ELSE r

Owns(h) ==
    LET d == h[1]
        r == delivery[d]
    IN  /\ r.state = "delivering"
        /\ r.fence = h[2]
        /\ r.epoch = authority.epoch
        /\ r.lease > 0
        /\ TargetCurrent(d)

\* Rows are added to a table.
Inserted(table, keys, row) ==
    [k \in DOMAIN table \cup keys |-> IF k \in keys THEN row ELSE table[k]]

Earlier(m, n) == IF m < n THEN m ELSE n

\* A finished handler's job sleeps until the next attempt or is done.
Rescheduled(d, r) == IF r.state \in Ready THEN jobs \cup {d} ELSE jobs

------------------------------------------------------------------------------
(* Events and routing *)

Init ==
    /\ authority = [open |-> TRUE, epoch |-> 1]
    /\ active = TRUE
    /\ agent \in [Agents -> {[target |-> t, standing |-> "responsible"] : t \in Digests}]
    /\ log = 0
    /\ subscriptions = << >>
    /\ delivery = << >>
    /\ jobs = {}
    /\ handlers = << >>
    /\ copy = [d \in Id |-> "absent"]
    /\ late = {}

\* A new row, made by an event or by an operator who replays one.
Pending(origin) ==
    [state |-> "pending", action |-> "none", sent |-> FALSE, cycle |-> 0,
     wait |-> 0, fence |-> 0, lease |-> 0, renewal |-> 0, epoch |-> 0,
     accepted |-> FALSE, remote_outcome_uncertain |-> FALSE, risk |-> FALSE,
     recoveries |-> 0, origin |-> origin]

\* A command of the Project appends an event; the enabled subscription is owed it
\* when the event's type is among those it selects.
AppendEvent(matches) ==
    /\ log < MaxEvents
    /\ log' = log + 1
    /\ LET owed == {<<log + 1, s>> : s \in {x \in DOMAIN subscriptions :
                                                matches /\ Enabled(x)}}
       IN  /\ Cardinality(DOMAIN delivery \cup owed) <= MaxDeliveries
           /\ delivery' = Inserted(delivery, owed, Pending("append"))
           /\ jobs' = jobs \cup owed
    /\ UNCHANGED <<authority, active, agent, subscriptions, handlers, copy, late>>

Disabled(s) == [s EXCEPT !.enabled = FALSE]

\* The operator binds the Project's events to one Agent, in place of the former
\* one. The change of routing is an event that is not notified.
Configure(g, idempotent) ==
    /\ Len(subscriptions) < MaxSubscriptions
    /\ log < MaxEvents
    /\ agent[g].standing = "responsible"
    /\ subscriptions' = Append(
            [s \in DOMAIN subscriptions |-> Disabled(subscriptions[s])],
            [agent |-> g, target |-> agent[g].target, idempotent |-> idempotent,
             enabled |-> TRUE, cursor |-> 0])
    /\ log' = log + 1
    /\ UNCHANGED <<authority, active, agent, delivery, jobs, handlers, copy, late>>

\* (mutant) Only the deliveries that ended in acceptance are a risk.
AcceptedBefore(e) == \E d \in DOMAIN delivery : EventOf(d) = e /\ delivery[d].accepted
SentBefore(e) == \E d \in DOMAIN delivery : EventOf(d) = e /\ delivery[d].sent

\* events.ex redeliver: an event is sent anew to the current subscription, as a
\* delivery of its own. The advertised capability is not looked at here.
Retarget(e, s, risk) ==
    LET d == <<e, s>> IN
    /\ authority.open
    /\ e \in 1..log
    /\ Enabled(s)
    /\ agent[subscriptions[s].agent].target = subscriptions[s].target
    /\ agent[subscriptions[s].agent].standing # "removed"
    /\ SentBefore(e) => risk
    /\ ~Exists(d)
    /\ Cardinality(DOMAIN delivery) < MaxDeliveries
    /\ delivery' = Inserted(delivery, {d},
            Pending(IF risk THEN "retarget_at_risk" ELSE "retarget"))
    /\ jobs' = jobs \cup {d}
    /\ UNCHANGED <<authority, active, routing, network>>

\* (mutant) A delivery that stopped is not a gap.
NoPendingGap(s, from, to) ==
    \A d \in DOMAIN delivery :
        d[2] = s /\ EventOf(d) \in (from + 1)..to => delivery[d].state \in Terminal
NoGap(s, from, to) ==
    \A d \in DOMAIN delivery :
        d[2] = s /\ EventOf(d) \in (from + 1)..to => delivery[d].accepted

\* The responsible Agent, a manager, acknowledges the events up to its cursor.
AckCursor(s, c) ==
    /\ Enabled(s)
    /\ agent[subscriptions[s].agent].standing # "removed"
    /\ c \in (subscriptions[s].cursor + 1)..log
    /\ NoGap(s, subscriptions[s].cursor, c)
    /\ subscriptions' = [subscriptions EXCEPT ![s].cursor = c]
    /\ UNCHANGED <<authority, active, agent, log, delivery, jobs, network>>

\* Its endpoint, credential reference, membership or capabilities are changed.
ChangeAgent(g, target, standing) ==
    /\ agent' = [agent EXCEPT ![g] = [target |-> target, standing |-> standing]]
    /\ UNCHANGED <<authority, active, log, subscriptions, delivery, jobs, network>>

SetProject(to) ==
    /\ active' = to
    /\ UNCHANGED <<authority, routing, delivery, jobs, network>>

\* Closing the platform takes every handler's lease.
Fenced(r) == IF r.state = "delivering" THEN Expired(r) ELSE r

ClosePlatform ==
    /\ authority.open
    /\ authority.epoch < MaxEpoch
    /\ authority' = [open |-> FALSE, epoch |-> authority.epoch + 1]
    /\ delivery' = [d \in DOMAIN delivery |-> Fenced(delivery[d])]
    /\ UNCHANGED <<active, routing, jobs, network>>

ActivatePlatform ==
    /\ ~authority.open
    /\ authority.epoch < MaxEpoch
    /\ authority' = [open |-> TRUE, epoch |-> authority.epoch + 1]
    /\ UNCHANGED <<active, routing, delivery, jobs, network>>

------------------------------------------------------------------------------
(* The worker: claim, call the Agent, settle *)

\* (mutant) A paused Project closes status queries as well.
WakesActive(d, r) ==
    d \in jobs /\ authority.open /\ r.state \in Ready /\ r.wait = 0 /\ active
\* (mutant) A leftover job finds work whatever has become of the delivery.
WakesAny(d, r) ==
    d \in jobs /\ authority.open /\ r.wait = 0 /\ (active \/ r.state = "reconciling")

\* A wakeup finds work: any job may run as soon as it is queued, and a handler
\* whose lease is over is given up first. A paused Project closes receives only.
Wakes(d, r) ==
    /\ d \in jobs
    /\ authority.open
    /\ r.state \in Ready
    /\ r.wait = 0
    /\ active \/ r.state = "reconciling"

ActionFor(r) == IF r.state = "reconciling" THEN "status" ELSE "receive"

CycleExhausted(r) == r.cycle >= MaxAttempts

Claim(d) ==
    /\ Exists(d)
    /\ LET r == ExpireIfLapsed(delivery[d])
           fence == r.fence + 1
       IN  /\ Wakes(d, r)
           /\ TargetCurrent(d)
           /\ ~CycleExhausted(r)
           /\ delivery' = [delivery EXCEPT ![d] =
                [r EXCEPT !.state = "delivering", !.action = ActionFor(r),
                          !.sent = TRUE, !.cycle = r.cycle + 1, !.fence = fence,
                          !.lease = LeaseTTL, !.renewal = RenewTTL,
                          !.epoch = authority.epoch]]
           /\ handlers' = Inserted(handlers, {<<d, fence>>},
                                [action |-> ActionFor(r), outcome |-> "waiting"])
    /\ jobs' = jobs \ {d}
    /\ UNCHANGED <<hub, routing, copy, late>>

Stopped(r, state, uncertain) ==
    [r EXCEPT !.state = state, !.wait = 0, !.remote_outcome_uncertain = uncertain]

\* block_target!: the target is another one than when the delivery was made.
BlockTarget(d) ==
    /\ Exists(d)
    /\ LET r == ExpireIfLapsed(delivery[d])
           doubt == r.remote_outcome_uncertain \/ r.accepted
       IN  /\ Wakes(d, r)
           /\ ~TargetCurrent(d)
           /\ delivery' = [delivery EXCEPT ![d] =
                Stopped(r, IF doubt THEN "uncertain" ELSE "dead_letter", doubt)]
    /\ jobs' = jobs \ {d}
    /\ UNCHANGED <<hub, routing, network>>

Exhaust(d) ==
    /\ Exists(d)
    /\ LET r == ExpireIfLapsed(delivery[d])
           doubt == r.remote_outcome_uncertain
       IN  /\ Wakes(d, r)
           /\ TargetCurrent(d)
           /\ CycleExhausted(r)
           /\ delivery' = [delivery EXCEPT ![d] =
                Stopped(r, IF doubt THEN "uncertain" ELSE "dead_letter", doubt)]
    /\ jobs' = jobs \ {d}
    /\ UNCHANGED <<hub, routing, network>>

\* The wakeup of a delivery that is neither ready nor being delivered is over.
DropWakeup(d) ==
    /\ d \in jobs
    /\ authority.open
    /\ active
    /\ delivery[d].state \notin Ready \cup {"delivering"}
    /\ jobs' = jobs \ {d}
    /\ UNCHANGED <<hub, routing, delivery, network>>

\* The job queue gives a wakeup up after failures of its own.
LoseWakeup(d) ==
    /\ "lose_wakeup" \in Faults
    /\ d \in jobs
    /\ jobs' = jobs \ {d}
    /\ UNCHANGED <<hub, routing, delivery, network>>

Renew(h) ==
    LET d == h[1]
        lease == Earlier(LeaseTTL, delivery[d].renewal)
    IN  /\ h \in DOMAIN handlers
        /\ authority.open
        /\ Owns(h)
        /\ lease > delivery[d].lease
        /\ delivery' = [delivery EXCEPT ![d].lease = lease]
        /\ UNCHANGED <<hub, routing, jobs, network>>

\* A transport receipt is not enough.
Durable(outcome) == outcome \in {"durable", "final"}

AcknowledgedState(r, outcome) ==
    CASE outcome = "final" -> "completed"
      [] outcome # "final" /\ Durable(outcome) -> "accepted"
      [] ~Durable(outcome) -> IF CycleExhausted(r) THEN "uncertain" ELSE "reconciling"

\* Acceptance is never taken back; a receipt that is not durable leaves a doubt.
Acknowledged(r, outcome, delay) ==
    LET state == AcknowledgedState(r, outcome) IN
    [r EXCEPT !.state = state, !.accepted = r.accepted \/ Durable(outcome),
              !.remote_outcome_uncertain = ~Durable(outcome),
              !.wait = IF state = "reconciling" THEN delay ELSE 0,
              !.lease = 0, !.renewal = 0]

\* (mutant) Every Agent is taken to deduplicate.
ResentAnyway(r, outcome, idempotent, unknown) ==
    CASE outcome = "authentication" -> "authentication_failed"
      [] outcome = "permanent" -> IF unknown THEN "uncertain" ELSE "dead_letter"
      [] outcome = "not_found" -> "retry_wait"
      [] OTHER -> IF unknown THEN "reconciling" ELSE "retry_wait"

FailureState(r, outcome, idempotent, unknown) ==
    CASE outcome = "authentication" -> "authentication_failed"
      [] outcome = "not_found" -> IF idempotent THEN "retry_wait" ELSE "uncertain"
      [] outcome = "permanent" -> IF unknown THEN "uncertain" ELSE "dead_letter"
      [] OTHER -> IF r.action = "status" \/ unknown THEN "reconciling" ELSE "retry_wait"

\* (mutant) Only the last attempt counts.
LastOutcomeUnknown(r, outcome) == outcome = "ambiguous"
Unknown(r, outcome) == r.remote_outcome_uncertain \/ outcome = "ambiguous"

Failed(r, outcome, idempotent, delay) ==
    LET unknown == Unknown(r, outcome)
        wanted == FailureState(r, outcome, idempotent, unknown)
        state == IF wanted \in Ready /\ CycleExhausted(r)
                   THEN IF unknown THEN "uncertain" ELSE "dead_letter"
                   ELSE wanted
    IN  [r EXCEPT !.state = state,
                  !.remote_outcome_uncertain = unknown \/ state = "uncertain",
                  !.wait = IF state \in Ready THEN delay ELSE 0,
                  !.lease = 0, !.renewal = 0]

Without(h) == [k \in DOMAIN handlers \ {h} |-> handlers[k]]

\* The handler settles what the call brought, if it still owns the delivery.
Settle(h, delay) ==
    LET d == h[1]
        r == delivery[d]
        outcome == handlers[h].outcome
        settled == IF outcome \in Receipts THEN Acknowledged(r, outcome, delay)
                   ELSE Failed(r, outcome, SubscriptionOf(d).idempotent, delay)
    IN  /\ outcome # "waiting"
        /\ authority.open
        /\ Owns(h)
        /\ delivery' = [delivery EXCEPT ![d] = settled]
        /\ handlers' = Without(h)
        /\ jobs' = Rescheduled(d, settled)
        /\ UNCHANGED <<hub, routing, copy, late>>

\* ownership_lost: nothing is written and the job is cancelled. When the platform
\* is closed that is found first, and the job is put off.
Refused(h) ==
    /\ handlers[h].outcome # "waiting"
    /\ ~authority.open \/ ~Owns(h)
    /\ handlers' = Without(h)
    /\ jobs' = IF authority.open THEN jobs ELSE jobs \cup {h[1]}
    /\ UNCHANGED <<hub, routing, delivery, copy, late>>

------------------------------------------------------------------------------
(* The Agent and the network *)

Rank == [absent |-> 0, received |-> 1, durable |-> 2, final |-> 3]

\* Nothing comes of the outcome of a handler that was given up: it is not told
\* apart.
Answered(h, outcome) ==
    handlers' = [handlers EXCEPT ![h].outcome =
                    IF delivery[h[1]].fence = h[2] THEN outcome ELSE "ambiguous"]

\* A request that is waited for arrives and is taken, and its receipt returns.
Take(h, kept) ==
    /\ kept \in Answers
    /\ handlers[h] = [action |-> "receive", outcome |-> "waiting"]
    /\ Rank[kept] >= Rank[copy[h[1]]]
    /\ copy' = [copy EXCEPT ![h[1]] = kept]
    /\ Answered(h, kept)
    /\ UNCHANGED <<hub, routing, delivery, jobs, late>>

\* The call fails in a way that shows that the Agent did nothing.
Decline(h, class) ==
    /\ class \in Answers
    /\ handlers[h].outcome = "waiting"
    /\ Answered(h, class)
    /\ UNCHANGED <<hub, routing, delivery, jobs, copy, late>>

TellStatus(h) ==
    LET kept == copy[h[1]] IN
    /\ handlers[h] = [action |-> "status", outcome |-> "waiting"]
    /\ Answered(h, IF kept = "absent" THEN "not_found" ELSE kept)
    /\ UNCHANGED <<hub, routing, delivery, jobs, copy, late>>

\* A request given up may still arrive.
Abandoned(h) ==
    IF handlers[h] = [action |-> "receive", outcome |-> "waiting"]
      THEN late \cup {h[1]} ELSE late

\* No answer in time, a lost connection or a malformed answer: ambiguous after a
\* receive. A status query changes nothing, so only its malformed answer is.
TimeOut(h, outcome) ==
    /\ "time_out" \in Faults
    /\ handlers[h].outcome = "waiting"
    /\ outcome \in {"ambiguous"} \cup
            (IF handlers[h].action = "status" THEN {"retryable"} ELSE {})
    /\ Answered(h, outcome)
    /\ late' = Abandoned(h)
    /\ UNCHANGED <<hub, routing, delivery, jobs, copy>>

\* The process or its node dies.
Die(h) ==
    /\ "die" \in Faults
    /\ handlers' = Without(h)
    /\ late' = Abandoned(h)
    /\ UNCHANGED <<hub, routing, delivery, jobs, copy>>

ArriveLate(d, kept) ==
    /\ d \in late
    /\ kept \in Answers
    /\ Rank[kept] >= Rank[copy[d]]
    /\ copy' = [copy EXCEPT ![d] = kept]
    /\ late' = late \ {d}
    /\ UNCHANGED <<hub, routing, delivery, jobs, handlers>>

\* The Agent makes what it received durable, then processes it; or it restarts and
\* what was not durable is gone.
Progress(d, kept) ==
    /\ <<copy[d], kept>> \in {<<"received", "durable">>, <<"durable", "final">>,
                              <<"received", "absent">>}
    /\ copy' = [copy EXCEPT ![d] = kept]
    /\ UNCHANGED <<hub, routing, delivery, jobs, handlers, late>>

\* An attempt's report counts in the platform epoch of that attempt only.
Reportable(r) ==
    /\ r.state \in {"delivering", "accepted", "reconciling"}
    /\ r.epoch = authority.epoch
    /\ ~Lapsed(r)

\* The Agent reports that it has processed the event, whoever waits for an answer.
Report(d) ==
    /\ Exists(d)
    /\ authority.open
    /\ TargetCurrent(d)
    /\ Reportable(delivery[d])
    /\ copy[d] \in {"durable", "final"}
    /\ copy' = [copy EXCEPT ![d] = "final"]
    /\ \E w \in Delays : delivery' = [delivery EXCEPT ![d] =
                                        Acknowledged(delivery[d], "final", w)]
    /\ UNCHANGED <<hub, routing, jobs, handlers, late>>

------------------------------------------------------------------------------
(* Operator recovery *)

Cancel(d) ==
    LET r == delivery[d] IN
    /\ Exists(d)
    /\ r.state # "cancelled"
    /\ r.recoveries < MaxRecoveries
    /\ delivery' = [delivery EXCEPT ![d] =
            [r EXCEPT !.state = "cancelled",
                      !.remote_outcome_uncertain = r.remote_outcome_uncertain
                            \/ r.state \in {"delivering", "accepted", "reconciling"},
                      !.fence = r.fence + 1, !.lease = 0, !.renewal = 0, !.wait = 0,
                      !.recoveries = r.recoveries + 1]]
    /\ UNCHANGED <<hub, routing, jobs, network>>

RiskNotAsked(d, risk) == TRUE                                         \* (mutant)

\* Sending again what may already have been sent takes an Agent that deduplicates
\* or an operator who takes the risk.
RiskTaken(d, risk) ==
    delivery[d].sent => SubscriptionOf(d).idempotent \/ risk

Restarted(r, state, risk) ==
    [r EXCEPT !.state = state, !.wait = 0, !.fence = r.fence + 1, !.lease = 0,
              !.renewal = 0, !.cycle = 0, !.risk = risk,
              !.recoveries = r.recoveries + 1]

Recoverable(d) ==
    /\ Exists(d)
    /\ authority.open
    /\ TargetCurrent(d)
    /\ delivery[d].state # "delivering"
    /\ delivery[d].recoveries < MaxRecoveries

Redeliver(d, risk) ==
    /\ Recoverable(d)
    /\ RiskTaken(d, risk)
    /\ delivery' = [delivery EXCEPT ![d] = Restarted(delivery[d], "pending", risk)]
    /\ jobs' = jobs \cup {d}
    /\ UNCHANGED <<hub, routing, network>>

Reconcile(d) ==
    /\ Recoverable(d)
    /\ delivery' = [delivery EXCEPT ![d] = Restarted(delivery[d], "reconciling", FALSE)]
    /\ jobs' = jobs \cup {d}
    /\ UNCHANGED <<hub, routing, network>>

------------------------------------------------------------------------------
(* Maintenance and time *)

\* The minute scan: a due delivery is woken again, a lapsed handler given up.
Maintain(d) ==
    /\ Exists(d)
    /\ authority.open
    /\ LET r == ExpireIfLapsed(delivery[d])
           due == r.state \in Ready /\ r.wait = 0
                    /\ (active \/ r.state = "reconciling")
       IN  /\ due
           /\ delivery' = [delivery EXCEPT ![d] = r]
           /\ jobs' = jobs \cup {d}
    /\ UNCHANGED <<hub, routing, network>>

LessForEver(n) == n - 1                                               \* (mutant)
Less(n) == IF n > 0 THEN n - 1 ELSE 0

Tick ==
    /\ \E d \in DOMAIN delivery : delivery[d].wait > 0 \/ delivery[d].lease > 0
    /\ delivery' = [d \in DOMAIN delivery |->
            [delivery[d] EXCEPT !.wait = Less(delivery[d].wait),
                                !.lease = Less(delivery[d].lease),
                                !.renewal = Less(delivery[d].renewal)]]
    /\ UNCHANGED <<hub, routing, jobs, network>>

------------------------------------------------------------------------------
Worker(d) == Claim(d) \/ BlockTarget(d) \/ Exhaust(d) \/ DropWakeup(d)

Answer(h) ==
    \/ \E kept \in Receipts : Take(h, kept)
    \/ \E class \in Refusals : Decline(h, class)
    \/ \E outcome \in {"ambiguous", "retryable"} : TimeOut(h, outcome)
    \/ TellStatus(h)

Finish(h) == Refused(h) \/ \E w \in Delays : Settle(h, w)

Next ==
    \/ \E m \in BOOLEAN : AppendEvent(m)
    \/ \E g \in Agents, i \in BOOLEAN : Configure(g, i)
    \/ \E e \in 1..MaxEvents, s \in 1..MaxSubscriptions, risk \in BOOLEAN :
            Retarget(e, s, risk)
    \/ \E s \in 1..MaxSubscriptions, c \in 1..MaxEvents : AckCursor(s, c)
    \/ \E g \in Agents, t \in Digests, s \in Standings : ChangeAgent(g, t, s)
    \/ \E to \in BOOLEAN : SetProject(to)
    \/ ClosePlatform \/ ActivatePlatform
    \/ \E d \in Id :
        \/ Worker(d) \/ LoseWakeup(d) \/ Maintain(d)
        \/ Report(d) \/ Cancel(d) \/ Reconcile(d)
        \/ \E risk \in BOOLEAN : Redeliver(d, risk)
        \/ \E kept \in Receipts : ArriveLate(d, kept)
        \/ \E kept \in Copies : Progress(d, kept)
    \/ \E h \in DOMAIN handlers : Answer(h) \/ Renew(h) \/ Finish(h) \/ Die(h)
    \/ Tick

Spec == Init /\ [][Next]_vars

\* The minute worker runs, time passes, a call returns within the connector's
\* timeouts and a handler that has an outcome settles it. A wakeup that is queued
\* again and again is run at last, though single ones may be lost.
Fairness ==
    /\ WF_vars(Tick)
    /\ \A d \in Id : WF_vars(Maintain(d)) /\ SF_vars(Worker(d))
    /\ \A d \in Id, f \in 1..MaxFence :
            LET h == <<d, f>> IN
            WF_vars(h \in DOMAIN handlers /\ (Answer(h) \/ Finish(h)))

FairSpec == Spec /\ Fairness

------------------------------------------------------------------------------
(* Properties *)

\* Every table holds rows of its type, and every handler belongs to a delivery
\* row whose fence is not behind it.
TypeOK ==
    /\ authority \in [open: BOOLEAN, epoch: 1..MaxEpoch]
    /\ active \in BOOLEAN
    /\ agent \in [Agents -> [target: Digests, standing: Standings]]
    /\ log \in 0..MaxEvents
    /\ subscriptions \in Seq(Subscription)
    /\ DOMAIN delivery \subseteq Id
    /\ \A d \in DOMAIN delivery : /\ delivery[d] \in Row
                                  /\ delivery[d].fence <= MaxFence
                                  /\ d[2] \in DOMAIN subscriptions
    /\ jobs \subseteq DOMAIN delivery
    /\ \A h \in DOMAIN handlers : /\ h[1] \in DOMAIN delivery
                                  /\ h[2] \in 1..delivery[h[1]].fence
                                  /\ handlers[h] \in Handler
    /\ copy \in [Id -> Copies]
    /\ late \subseteq DOMAIN delivery

Waiting(d) == {h \in DOMAIN handlers : h[1] = d /\
                    handlers[h] = [action |-> "receive", outcome |-> "waiting"]}

\* Without the Agent's idempotency guarantee, no event is on its way to an Agent
\* that has it already, or that a former request may still reach, unless an
\* operator took that risk (claim, failed!, expire_locked, recover).
NoBlindResend ==
    \A d \in DOMAIN delivery : \A h \in Waiting(d) :
        LET r == delivery[d] IN
        /\ r.state = "delivering"
        /\ h[2] = r.fence
        /\ ~SubscriptionOf(d).idempotent
        /\ copy[d] # "absent" \/ d \in late \/ Waiting(d) # {h}
        => r.risk

\* An event goes to a second recipient only with the risk acknowledged, if any
\* attempt was ever made for the first (configure, redeliver, claim).
SecondRecipientAtRisk ==
    \A d, k \in DOMAIN delivery :
        /\ EventOf(d) = EventOf(k)
        /\ d[2] < k[2]
        /\ delivery[d].sent
        /\ delivery[k].sent
        => delivery[k].origin = "retarget_at_risk"

\* The cursor of a subscription never covers an event that the subscription was
\* owed and its Agent has not durably accepted (ack_cursor, acknowledge!).
CursorCovers ==
    \A d \in DOMAIN delivery :
        /\ delivery[d].origin = "append"
        /\ EventOf(d) <= SubscriptionOf(d).cursor
        => delivery[d].accepted

\* What has stopped or was accepted is not sent or queried again by a leftover
\* job, a late handler or the maintenance: only by an operator's recovery.
OnlyOperatorsRestart ==
    [][\A d \in DOMAIN delivery :
            /\ delivery[d].state \in Terminal \cup {"accepted"}
            /\ delivery'[d].state \in Ready \cup {"delivering"}
            => delivery'[d].recoveries > delivery[d].recoveries]_vars

\* With the platform left open, no status query is owed and no handler is waited
\* for for ever, even in a Project that is paused (claim, maintain).
ReconciliationEnds ==
    \A d \in Id :
        <>[](authority.open) =>
            []<>(Exists(d) => delivery[d].state \notin {"reconciling", "delivering"})

\* With the Project active as well, every delivery comes to rest: it is accepted,
\* completed, or stopped for an operator to see.
DeliveryComesToRest ==
    \A d \in Id :
        <>[](authority.open /\ active) =>
            []<>(Exists(d) => delivery[d].state \in Terminal \cup {"accepted"})

\* What the Hub says of a delivery: a claimed receive may have been sent.
Belief(d) ==
    IF ~Exists(d) THEN "none"
    ELSE LET r == delivery[d] IN
         IF r.accepted THEN "durable"
         ELSE IF \/ r.remote_outcome_uncertain
                 \/ r.state = "delivering" /\ r.action = "receive"
              THEN "maybe" ELSE "none"

AgentHas(d) == IF copy[d] = "final" THEN "durable" ELSE copy[d]

N == INSTANCE Notification WITH
        copy <- [d \in Id |-> AgentHas(d)],
        wire <- late \cup {d \in Id : Waiting(d) # {}},
        belief <- [d \in Id |-> Belief(d)]

\* The delivery implements the abstract notification: no step lets the Hub deny
\* what the Agent has or may get, or claim that it keeps what it does not.
ImplementsNotification == N!Spec

\* coordination-phase-4.md:48: "Reconciliation failures also exhaust into
\* inspectable uncertainty": here for a notification that was durably accepted.
ReconciliationExhaustsUncertain ==
    [][\A d \in DOMAIN delivery :
            LET r == delivery[d]
                h == <<d, r.fence>>
            IN  /\ r.accepted
                /\ r.state = "delivering"
                /\ h \in DOMAIN handlers
                /\ handlers[h] = [action |-> "status", outcome |-> "retryable"]
                => delivery'[d].state # "dead_letter"]_vars

=============================================================================
