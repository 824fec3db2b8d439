------------------------------ MODULE Execution ------------------------------
(***************************************************************************)
(* The execution core of Samgita: the platform authority, Projects, Tasks, *)
(* Task Attempts (database-owned execution leases), Agent connections and  *)
(* sessions, and the minute worker that expires Attempts.                  *)
(*                                                                         *)
(* Every command of the Hub is one database transaction which locks the    *)
(* authority row, the Agents it concerns and the Project before it reads   *)
(* anything (commands.ex, lock_context!), so a command is one action here. *)
(* A command that fails rolls back: a failed command is a disabled action. *)
(*                                                                         *)
(* Time is counted down: an active Attempt holds the time its lease, its   *)
(* start deadline and its execution deadline have left, 0 when past.       *)
(***************************************************************************)
EXTENDS Integers, FiniteSets

CONSTANTS
    Tasks, Agents, Sessions, Projects,
    ProjectOf,          \* the Project of each Task
    Legacy,             \* the Tasks mapped from historical rows, not adopted
    Capacities,         \* the capacities an operator may give an Agent
    StartTTL, LeaseTTL, ExecTTL,
    MaxAttempts,        \* bound: Attempts per Task
    MaxGeneration,      \* bound: connections per Agent
    MaxEpoch            \* bound: authority epochs

ASSUME TasksAssumption ==
    /\ ProjectOf \in [Tasks -> Projects]
    /\ Legacy \subseteq Tasks
    /\ IsFiniteSet(Tasks)
    /\ MaxAttempts \in Nat \ {0}

ASSUME AgentsAssumption ==
    /\ Capacities \subseteq Nat \ {0}
    /\ Capacities # {}
    /\ MaxGeneration \in Nat
    /\ MaxEpoch \in Nat

ASSUME DeadlineAssumption ==
    /\ StartTTL \in Nat \ {0}
    /\ LeaseTTL \in Nat
    /\ ExecTTL \in Nat
    /\ StartTTL <= LeaseTTL
    /\ LeaseTTL <= ExecTTL

VARIABLES
    authority,      \* the singleton platform row: owner and epoch
    project,        \* the state of each Project
    task,           \* the Task rows
    attempts,       \* the Attempt rows that exist, by <<task, number>>
    sessions,       \* the execution sessions that exist
    agent,          \* the Agent rows: generation, connection, capacity
    effects         \* Attempts with unresolved native runtime evidence

vars == <<authority, project, task, attempts, sessions, agent, effects>>

------------------------------------------------------------------------------
(* Types *)

AttemptId == Tasks \X (1..MaxAttempts)

ActiveStates == {"leased", "running"}
AttemptState == ActiveStates \cup
                {"succeeded", "failed", "expired", "released", "cancelled"}

TaskState == {"open", "in_progress", "blocked", "awaiting_review",
              "accepted", "failed", "cancelled"}

Attempt == [agent: Agents, session: Sessions, generation: Nat,
            state: AttemptState, fence: Nat, epoch: Nat, resolved: BOOLEAN,
            lease: Nat, start: Nat, execution: Nat, proof: BOOLEAN]

Task == [state: TaskState, adopted: BOOLEAN, hold: BOOLEAN, fence: Nat,
         reviewed: BOOLEAN]

Session == [agent: Agents, project: Projects, generation: Nat]

Agent == [generation: Nat, connected: BOOLEAN, capacity: Nat]

------------------------------------------------------------------------------
(* Reading the tables *)

TaskOf(a) == a[1]
Exists(a) == a \in DOMAIN attempts
Active(a) == Exists(a) /\ attempts[a].state \in ActiveStates

\* What counts against capacity, blocks adoption, archival and activation.
Outstanding(a) == Exists(a) /\ (Active(a) \/ ~attempts[a].resolved)

\* Ended without evidence of what the execution did.
Unsettled(a) == Exists(a) /\ ~Active(a) /\ ~attempts[a].resolved

AttemptsOf(t) == {a \in DOMAIN attempts : TaskOf(a) = t}
NoActive(t) == \A a \in AttemptsOf(t) : ~Active(a)
NoOutstanding(t) == \A a \in AttemptsOf(t) : ~Outstanding(a)

Used(g) == Cardinality({a \in DOMAIN attempts :
                            attempts[a].agent = g /\ Outstanding(a)})

\* The row a claim inserts is numbered one past the Task's largest number.
NextNumber(a) ==
    \A n \in 1..MaxAttempts : Exists(<<TaskOf(a), n>>) <=> n < a[2]

\* (mutant) Only an Attempt that was never started is ever due.
DueUntilStarted(a) == LET r == attempts[a] IN
    r.state = "leased" /\ (r.lease = 0 \/ r.execution = 0 \/ r.start = 0)

Due(a) == LET r == attempts[a] IN
    r.lease = 0 \/ r.execution = 0 \/ (r.state = "leased" /\ r.start = 0)

\* The fence of the next owner, or of nobody when ownership is only taken away.
SameFence(t) == task[t].fence                                         \* (mutant)
NextFence(t) == task[t].fence + 1

\* Reopening or cancelling a Task takes it from its active Attempt.
InvalidatesOnCancel(t, to) == to = "cancelled" /\ ~NoActive(t)          \* (mutant)
Invalidates(t, to) == to \in {"open", "cancelled"} /\ ~NoActive(t)

\* The guard known_effects_resolved!: nobody declares the effects of an Attempt
\* resolved while the native journal has some whose outcome is unknown.
EffectsTakenOnTrust(a, resolved) == TRUE                              \* (mutant)
KnownEffectsResolved(a, resolved) == resolved => a \notin effects

Least(m, n) == IF m < n THEN m ELSE n

\* An Attempt that ends. Nothing reads the deadlines or takes a current proof of
\* an ended Attempt, so they are forgotten.
Ended(r, state) == [r EXCEPT !.state = state, !.lease = 0, !.start = 0,
                             !.execution = 0, !.proof = FALSE]

\* A new lease, never past the execution deadline. The lease is among the claims
\* of a proof, so the proof the worker holds goes stale, unless the lease already
\* ended at the execution deadline and does not move.
Leased(r) == LET lease == Least(LeaseTTL, r.execution) IN
    [r EXCEPT !.lease = lease,
              !.proof = r.proof /\ lease = r.lease /\ lease = r.execution]

\* A write of a Task row. It moves the version, so an earlier review is stale.
VersionedKeepingHold(r, state, hold, fence) ==                        \* (mutant)
    [r EXCEPT !.state = state, !.hold = hold \/ r.hold, !.fence = fence, !.reviewed = FALSE]
VersionedUnheld(r, state, hold, fence) ==                             \* (mutant)
    [r EXCEPT !.state = state, !.fence = fence, !.reviewed = FALSE]
Versioned(r, state, hold, fence) ==
    [r EXCEPT !.state = state, !.hold = hold, !.fence = fence, !.reviewed = FALSE]

HubOpen == authority.owner = "hub"
Writable(t) == project[ProjectOf[t]] \in {"active", "paused"}

------------------------------------------------------------------------------
(* Authorization *)

\* The principal of a client of Agent g bound to its n-th connection.
AuthenticatedByCredential(g, n) == agent[g].connected                 \* (mutant)
Authenticated(g, n) == agent[g].connected /\ n = agent[g].generation

CurrentExecution(a) ==
    /\ Active(a)
    /\ attempts[a].epoch = authority.epoch
    /\ attempts[a].lease > 0
    /\ attempts[a].execution > 0

StartOpen(a) == attempts[a].state = "leased" => attempts[a].start > 0

\* owner! without the proof.
Owns(g, n, a) ==
    /\ Authenticated(g, n)
    /\ HubOpen
    /\ Exists(a)
    /\ project[ProjectOf[TaskOf(a)]] # "archived"
    /\ attempts[a].agent = g
    /\ attempts[a].generation = n
    /\ CurrentExecution(a)
    /\ sessions[attempts[a].session].generation = n

Proven(g, n, a) == Owns(g, n, a) /\ attempts[a].proof

\* authorize_runtime! and current_task! of the native runtime journal.
OwnsRuntime(g, n, a) ==
    /\ Owns(g, n, a)
    /\ task[TaskOf(a)].state = "in_progress"
    /\ ~task[TaskOf(a)].hold
    /\ attempts[a].state = "running"
    /\ task[TaskOf(a)].fence = attempts[a].fence

------------------------------------------------------------------------------
(* The initial database: the expanded schema after legacy mapping. *)

Native == [state |-> "open", adopted |-> TRUE, hold |-> FALSE, fence |-> 0,
           reviewed |-> FALSE]

\* A historical row maps to a reviewed management state; one that was assigned
\* or running is blocked and held until somebody reconciles it.
Mapped == {[Native EXCEPT !.state = st, !.adopted = FALSE] :
              st \in {"open", "blocked", "awaiting_review", "failed", "cancelled"}}
          \cup {[Native EXCEPT !.state = "blocked", !.adopted = FALSE, !.hold = TRUE]}

Init ==
    /\ authority = [owner |-> "none", epoch |-> 1]
    /\ project = [p \in Projects |-> "active"]
    /\ task \in [Tasks -> Mapped \cup {Native}]
    /\ \A t \in Tasks : task[t].adopted <=> t \notin Legacy
    /\ attempts = << >>
    /\ sessions = << >>
    /\ agent \in [Agents -> {[generation |-> 0, connected |-> FALSE, capacity |-> c] :
                                c \in Capacities}]
    /\ effects = {}

------------------------------------------------------------------------------
(* Platform authority *)

\* (mutant) Activation looks at Attempts only.
ActivateUnreconciled ==
    /\ authority.owner = "none"
    /\ authority.epoch < MaxEpoch
    /\ \A a \in DOMAIN attempts : ~Outstanding(a)
    /\ authority' = [owner |-> "hub", epoch |-> authority.epoch + 1]
    /\ UNCHANGED <<project, task, attempts, sessions, agent, effects>>

Activate ==
    /\ authority.owner = "none"
    /\ authority.epoch < MaxEpoch
    /\ \A t \in Tasks : ~task[t].hold
    /\ \A a \in DOMAIN attempts : ~Outstanding(a)
    /\ authority' = [owner |-> "hub", epoch |-> authority.epoch + 1]
    /\ UNCHANGED <<project, task, attempts, sessions, agent, effects>>

\* close and hold_executions!: every active Attempt loses its authority.
Close ==
    /\ authority.epoch < MaxEpoch
    /\ authority' = [owner |-> "none", epoch |-> authority.epoch + 1]
    /\ attempts' = [a \in DOMAIN attempts |->
                       IF Active(a) THEN Ended(attempts[a], "expired") ELSE attempts[a]]
    /\ task' = [t \in Tasks |->
                   IF NoActive(t) THEN task[t]
                   ELSE Versioned(task[t], "blocked", TRUE, NextFence(t))]
    /\ UNCHANGED <<project, sessions, agent, effects>>

------------------------------------------------------------------------------
(* Agents, connections and sessions *)

\* A new connection replaces the current one and raises the generation.
Connect(g) ==
    /\ agent[g].generation < MaxGeneration
    /\ agent' = [agent EXCEPT ![g] =
                     [@ EXCEPT !.generation = agent[g].generation + 1, !.connected = TRUE]]
    /\ UNCHANGED <<authority, project, task, attempts, sessions, effects>>

\* Revoking the credential of the current connection revokes the connection.
RevokeCredential(g) ==
    /\ agent[g].connected
    /\ agent' = [agent EXCEPT ![g].connected = FALSE]
    /\ UNCHANGED <<authority, project, task, attempts, sessions, effects>>

SetCapacity(g, c) ==
    /\ agent' = [agent EXCEPT ![g].capacity = c]
    /\ UNCHANGED <<authority, project, task, attempts, sessions, effects>>

OpenSession(g, n, s, p) ==
    /\ Authenticated(g, n)
    /\ s \notin DOMAIN sessions
    /\ sessions' = [x \in DOMAIN sessions \cup {s} |->
                       IF x = s THEN [agent |-> g, project |-> p, generation |-> n]
                                ELSE sessions[x]]
    /\ UNCHANGED <<authority, project, task, attempts, agent, effects>>

------------------------------------------------------------------------------
(* Attempts: the worker's commands *)

Eligible(g, t, limit) ==
    /\ HubOpen
    /\ project[ProjectOf[t]] = "active"
    /\ task[t].state = "open"
    /\ task[t].adopted
    /\ Used(g) < limit

\* (mutants) A claim that ignores the hold, the active Attempt, or is off by one.
ClaimableWhileHeld(g, t) == Eligible(g, t, agent[g].capacity) /\ NoActive(t)
ClaimableTwice(g, t) == Eligible(g, t, agent[g].capacity) /\ ~task[t].hold

Claimable(g, t) ==
    /\ Eligible(g, t, agent[g].capacity)
    /\ ~task[t].hold
    /\ NoActive(t)

Claim(g, n, s, a) ==
    LET t == TaskOf(a)
        fence == NextFence(t)
        row == [agent |-> g, session |-> s, generation |-> n, state |-> "leased",
                fence |-> fence, epoch |-> authority.epoch, resolved |-> FALSE,
                lease |-> LeaseTTL, start |-> StartTTL, execution |-> ExecTTL,
                proof |-> FALSE]
    IN  /\ Authenticated(g, n)
        /\ Claimable(g, t)
        /\ NextNumber(a)
        /\ s \in DOMAIN sessions
        /\ sessions[s] = [agent |-> g, project |-> ProjectOf[t], generation |-> n]
        /\ attempts' = [x \in DOMAIN attempts \cup {a} |->
                           IF x = a THEN row ELSE attempts[x]]
        /\ task' = [task EXCEPT ![t] = Versioned(@, @.state, @.hold, fence)]
        /\ UNCHANGED <<authority, project, sessions, agent, effects>>

\* proof: the current owner derives its proof. It changes no row of the Hub; the
\* worker holds the claims until one of them moves.
ReadProof(g, n, a) ==
    /\ Owns(g, n, a)
    /\ attempts' = [attempts EXCEPT ![a].proof = TRUE]
    /\ UNCHANGED <<authority, project, task, sessions, agent, effects>>

Start(g, n, a) ==
    LET t == TaskOf(a) IN
    /\ Proven(g, n, a)
    /\ project[ProjectOf[t]] = "active"
    /\ attempts[a].state = "leased"
    /\ task[t].state = "open"
    /\ StartOpen(a)
    /\ attempts' = [attempts EXCEPT ![a].state = "running"]
    /\ task' = [task EXCEPT ![t] = Versioned(@, "in_progress", @.hold, @.fence)]
    /\ UNCHANGED <<authority, project, sessions, agent, effects>>

Renew(g, n, a) ==
    /\ Proven(g, n, a)
    /\ StartOpen(a)
    /\ attempts' = [attempts EXCEPT ![a] = Leased(@)]
    /\ UNCHANGED <<authority, project, task, sessions, agent, effects>>

ReportStateByEffects(outcome, resolved) ==                            \* (mutant)
    IF resolved THEN "awaiting_review" ELSE "blocked"
ReportState(outcome, resolved) ==
    IF ~resolved THEN "blocked"
    ELSE IF outcome = "succeeded" THEN "awaiting_review" ELSE "failed"

Report(g, n, a, outcome, resolved) ==
    /\ Proven(g, n, a)
    /\ attempts[a].state = "running"
    /\ KnownEffectsResolved(a, resolved)
    /\ attempts' = [attempts EXCEPT ![a] = [Ended(@, outcome) EXCEPT !.resolved = resolved]]
    /\ task' = [task EXCEPT ![TaskOf(a)] =
                   Versioned(@, ReportState(outcome, resolved), ~resolved, @.fence)]
    /\ UNCHANGED <<authority, project, sessions, agent, effects>>

\* A newer connection of the same Agent takes over an unexpired Attempt.
Rebind(g, n, a) ==
    LET t == TaskOf(a)
        fence == NextFence(t)
    IN  /\ Authenticated(g, n)
        /\ HubOpen
        /\ Exists(a)
        /\ attempts[a].agent = g
        /\ CurrentExecution(a)
        /\ StartOpen(a)
        /\ attempts[a].proof
        /\ attempts[a].generation # n
        /\ sessions' = [sessions EXCEPT ![attempts[a].session].generation = n]
        /\ attempts' = [attempts EXCEPT ![a] =
                           [Leased(@) EXCEPT !.generation = n, !.fence = fence, !.proof = FALSE]]
        /\ task' = [task EXCEPT ![t] = Versioned(@, @.state, @.hold, fence)]
        /\ UNCHANGED <<authority, project, agent, effects>>

\* The state evidence leaves a Task in.
EvidenceBlocks(state) == "blocked"                                    \* (mutant)
EvidenceState(state) == IF state = "in_progress" THEN "blocked" ELSE state

\* Evidence of what an execution did, from an operator or a former owner; an
\* operator needs no proof, so who sends it makes no difference to the step.
Resolve(a) ==
    LET t == TaskOf(a)
        held == \E b \in AttemptsOf(t) \ {a} : ~attempts[b].resolved
    IN  /\ Exists(a)
        /\ KnownEffectsResolved(a, TRUE)
        /\ ~attempts[a].resolved
        /\ attempts' = [attempts EXCEPT
                           ![a] = [Ended(@, IF Active(a) THEN "released" ELSE @.state)
                                      EXCEPT !.resolved = TRUE]]
        /\ task' = [task EXCEPT ![t] =
                       Versioned(@, EvidenceState(@.state), held, @.fence)]
        /\ UNCHANGED <<authority, project, sessions, agent, effects>>

\* AttemptExpiryWorker: one due Attempt of its scan.
Expire(a) ==
    /\ Active(a)
    /\ Due(a)
    /\ attempts' = [attempts EXCEPT ![a] = Ended(@, "expired")]
    /\ task' = [task EXCEPT ![TaskOf(a)] = Versioned(@, "blocked", TRUE, @.fence)]
    /\ UNCHANGED <<authority, project, sessions, agent, effects>>

\* The native runtime journal records an effect whose outcome is not known ...
RecordEffect(g, n, a) ==
    /\ OwnsRuntime(g, n, a)
    /\ effects' = effects \cup {a}
    /\ UNCHANGED <<authority, project, task, attempts, sessions, agent>>

\* ... and later its outcome, which an operator may also reconcile at any time.
SettleEffect(a) ==
    /\ a \in effects
    /\ effects' = effects \ {a}
    /\ UNCHANGED <<authority, project, task, attempts, sessions, agent>>

------------------------------------------------------------------------------
(* Tasks and Projects: the manager's and the reviewer's commands *)

Transitions ==
    {<<"open", "blocked">>, <<"open", "cancelled">>, <<"in_progress", "blocked">>,
     <<"blocked", "open">>, <<"blocked", "cancelled">>,
     <<"failed", "open">>, <<"failed", "cancelled">>, <<"cancelled", "open">>,
     <<"awaiting_review", "open">>, <<"awaiting_review", "blocked">>,
     <<"awaiting_review", "cancelled">>, <<"accepted", "open">>}

\* An Attempt closed by a manager leaves its effects unknown.
TransitionTask(t, to) ==
    LET invalidating == Invalidates(t, to)
    IN  /\ Writable(t)
        /\ <<task[t].state, to>> \in Transitions
        /\ attempts' = [a \in DOMAIN attempts |->
                           IF invalidating /\ TaskOf(a) = t /\ Active(a)
                           THEN Ended(attempts[a], "cancelled")
                           ELSE attempts[a]]
        /\ task' = [task EXCEPT ![t] =
                       Versioned(@, to, @.hold \/ invalidating,
                                 IF invalidating THEN NextFence(t) ELSE @.fence)]
        /\ UNCHANGED <<authority, project, sessions, agent, effects>>

Adopt(t) ==
    /\ Writable(t)
    /\ ~task[t].adopted
    /\ task[t].state \in {"open", "blocked", "awaiting_review", "failed", "cancelled"}
    /\ NoOutstanding(t)
    /\ task' = [task EXCEPT ![t] =
                   [Versioned(@, @.state, FALSE, @.fence) EXCEPT !.adopted = TRUE]]
    /\ UNCHANGED <<authority, project, attempts, sessions, agent, effects>>

\* update and add_artifact move the version: an earlier review no longer counts.
Update(t) ==
    /\ Writable(t)
    /\ task[t].state \notin {"in_progress", "accepted"}
    /\ NoActive(t)
    /\ task' = [task EXCEPT ![t] = Versioned(@, @.state, @.hold, @.fence)]
    /\ UNCHANGED <<authority, project, attempts, sessions, agent, effects>>

AddArtifact(t) ==
    /\ Writable(t)
    /\ task' = [task EXCEPT ![t] = Versioned(@, @.state, @.hold, @.fence)]
    /\ UNCHANGED <<authority, project, attempts, sessions, agent, effects>>

Decided(kind, verdict) ==
    IF verdict = "reject" THEN "open"
    ELSE IF kind = "acceptance" THEN "accepted" ELSE "awaiting_review"

\* "reviewed": the latest review approves the version before this one.
Decide(t, kind, verdict) ==
    /\ Writable(t)
    /\ task[t].state = "awaiting_review" /\ ~task[t].hold /\ task[t].adopted
    /\ kind = "acceptance" /\ verdict = "approve" => task[t].reviewed
    /\ task' = [task EXCEPT ![t] =
                   [Versioned(@, Decided(kind, verdict), @.hold, @.fence)
                       EXCEPT !.reviewed = (kind = "review" /\ verdict = "approve")]]
    /\ UNCHANGED <<authority, project, attempts, sessions, agent, effects>>

TransitionProject(p, to) ==
    /\ <<project[p], to>> \in {<<"active", "paused">>, <<"paused", "active">>,
                               <<"active", "archived">>, <<"paused", "archived">>,
                               <<"archived", "paused">>}
    /\ to = "archived" => \A t \in Tasks : ProjectOf[t] = p => NoOutstanding(t)
    /\ project' = [project EXCEPT ![p] = to]
    /\ UNCHANGED <<authority, task, attempts, sessions, agent, effects>>

------------------------------------------------------------------------------
(* Time *)

Elapse(n) == IF n > 0 THEN n - 1 ELSE 0

Aged(r) == [r EXCEPT !.lease = Elapse(r.lease), !.start = Elapse(r.start),
                     !.execution = Elapse(r.execution)]

Tick ==
    /\ attempts' = [a \in DOMAIN attempts |-> Aged(attempts[a])]
    /\ UNCHANGED <<authority, project, task, sessions, agent, effects>>

------------------------------------------------------------------------------

Operate ==
    \/ Activate
    \/ Close
    \/ \E g \in Agents : Connect(g) \/ RevokeCredential(g)
    \/ \E g \in Agents, c \in Capacities : SetCapacity(g, c)
    \/ \E p \in Projects, to \in {"active", "paused", "archived"} : TransitionProject(p, to)

Manage ==
    \E t \in Tasks :
        \/ \E to \in TaskState : TransitionTask(t, to)
        \/ Adopt(t)
        \/ Update(t)
        \/ AddArtifact(t)
        \/ \E kind \in {"review", "acceptance"}, verdict \in {"approve", "reject"} :
               Decide(t, kind, verdict)

Work ==
    \E g \in Agents, n \in 1..MaxGeneration :
        \/ \E s \in Sessions, p \in Projects : OpenSession(g, n, s, p)
        \/ \E s \in Sessions, a \in AttemptId : Claim(g, n, s, a)
        \/ \E a \in AttemptId :
               \/ ReadProof(g, n, a)
               \/ Start(g, n, a)
               \/ Renew(g, n, a)
               \/ \E outcome \in {"succeeded", "failed"}, resolved \in BOOLEAN :
                      Report(g, n, a, outcome, resolved)
               \/ Rebind(g, n, a)
               \/ RecordEffect(g, n, a)

Evidence == \E a \in AttemptId : Resolve(a) \/ SettleEffect(a)

Next == Operate \/ Manage \/ Work \/ Evidence \/ (\E a \in AttemptId : Expire(a)) \/ Tick

Spec == Init /\ [][Next]_vars

\* Time passes, and the worker's minute scan reaches every Attempt that is due.
Fairness == WF_vars(Tick) /\ \A a \in AttemptId : WF_vars(Expire(a))

FairSpec == Spec /\ Fairness

------------------------------------------------------------------------------
(* Correctness *)

\* The rows have the types the schemas and changesets give them; in particular no
\* deadline is negative and native evidence belongs to an Attempt that exists.
TypeOK ==
    /\ authority \in [owner: {"none", "hub"}, epoch: Nat]
    /\ project \in [Projects -> {"active", "paused", "archived"}]
    /\ task \in [Tasks -> Task]
    /\ DOMAIN attempts \subseteq AttemptId
    /\ attempts \in [DOMAIN attempts -> Attempt]
    /\ DOMAIN sessions \subseteq Sessions
    /\ sessions \in [DOMAIN sessions -> Session]
    /\ agent \in [Agents -> Agent]
    /\ effects \subseteq DOMAIN attempts

\* A Task has at most one open account: an Attempt that is active, or ended
\* with unknown effects (attempts.ex claim, hold, resolve; the unique index).
OneOutstanding ==
    \A a, b \in DOMAIN attempts :
        Outstanding(a) /\ Outstanding(b) /\ TaskOf(a) = TaskOf(b) => a = b

\* The execution hold of an adopted Task says exactly that an ended Attempt of
\* it is unsettled, although six commands write it and only one recomputes it.
HoldIffUnsettled ==
    \A t \in Tasks : task[t].adopted =>
        (task[t].hold <=> \E a \in AttemptsOf(t) : Unsettled(a))

\* A Task in progress has a running Attempt, a running Attempt's Task is in
\* progress or was blocked by a manager, a leased one's is open or blocked.
TaskMatchesAttempt ==
    /\ \A t \in Tasks : task[t].state = "in_progress" =>
           \E a \in AttemptsOf(t) : attempts[a].state = "running"
    /\ \A a \in DOMAIN attempts :
           /\ attempts[a].state = "running" =>
                  task[TaskOf(a)].state \in {"in_progress", "blocked"}
           /\ attempts[a].state = "leased" =>
                  task[TaskOf(a)].state \in {"open", "blocked"}

\* An active Attempt carries the authority's epoch and its Task's latest fence;
\* a former Attempt's fence is below that of every later one.
Fenced ==
    /\ \A a \in DOMAIN attempts : Active(a) =>
           /\ HubOpen
           /\ attempts[a].epoch = authority.epoch
           /\ attempts[a].fence = task[TaskOf(a)].fence
    /\ \A a, b \in DOMAIN attempts :
           TaskOf(a) = TaskOf(b) /\ a[2] < b[2] => attempts[a].fence < attempts[b].fence

\* A session is never behind an Attempt it serves: the owner of an Attempt bound
\* to the Agent's current connection is not refused for the session it shares.
SessionKeepsUp ==
    \A a \in DOMAIN attempts :
        /\ attempts[a].session \in DOMAIN sessions
        /\ sessions[attempts[a].session].agent = attempts[a].agent
        /\ attempts[a].generation <= sessions[attempts[a].session].generation
        /\ sessions[attempts[a].session].generation <= agent[attempts[a].agent].generation

\* Nothing recorded as resolved has native effects whose outcome is unknown:
\* neither a report nor evidence overtakes the native journal.
ResolvedIsQuiescent ==
    \A a \in DOMAIN attempts : attempts[a].resolved => a \notin effects

\* A Task that came to review or acceptance here did so on the strength of its
\* latest Attempt, which succeeded with its effects resolved.
ReviewRestsOnSuccess ==
    \A t \in Tasks \ Legacy : task[t].state \in {"awaiting_review", "accepted"} =>
        \E a \in AttemptsOf(t) :
            /\ \A b \in AttemptsOf(t) : b[2] <= a[2]
            /\ attempts[a].state = "succeeded"
            /\ attempts[a].resolved

\* A Task mapped from a historical row runs nothing before its adoption, and one
\* that was held for reconciliation keeps the platform closed until then.
LegacyReconciledFirst ==
    \A t \in Tasks : ~task[t].adopted =>
        /\ AttemptsOf(t) = {}
        /\ task[t].hold => ~HubOpen

\* What one step of any command may do to the Attempts that already exist.
HistoryKept(a) ==
    /\ a \in DOMAIN attempts'
    /\ ~Active(a) => attempts'[a].state = attempts[a].state
    /\ attempts[a].resolved => attempts'[a].resolved
    /\ attempts'[a].fence >= attempts[a].fence
    /\ attempts'[a].generation >= attempts[a].generation
    /\ (Active(a) /\ ~attempts'[a].state \in ActiveStates /\ ~attempts'[a].resolved) =>
           task'[TaskOf(a)].hold

\* Terminal outcomes and evidence are immutable, fences and generations only
\* rise, and ownership never ends with effects unknown and the Task claimable.
HistoryIsKept == [][\A a \in DOMAIN attempts : HistoryKept(a)]_vars

\* Evidence about an Attempt that had already ended leaves the state of the Task
\* alone (docs/redesign/design.md: "without changing Task state").
LateEvidenceKeepsState ==
    [][\A a \in DOMAIN attempts :
           Unsettled(a) /\ attempts'[a].resolved =>
               task'[TaskOf(a)].state = task[TaskOf(a)].state]_vars

\* Every execution ends: renewal stops at the execution deadline and the worker
\* expires what nobody ended, whatever Agents, managers and operators do.
EveryExecutionEnds ==
    \A a \in AttemptId : Active(a) ~> ~Active(a)

SameTask(a, b) == TaskOf(a) = TaskOf(b)

\* The core implements the abstract lease.
Lease == INSTANCE TaskLease WITH
    Id <- AttemptId,
    granted <- DOMAIN attempts,
    holding <- {a \in DOMAIN attempts : Active(a)},
    unsettled <- {a \in DOMAIN attempts : Unsettled(a)}

\* One execution at a time, and none while a former one is unsettled.
ImplementsLease == Lease!Spec

=============================================================================
