---------------------- MODULE ExecutionOwnershipProofs ----------------------
(***************************************************************************)
(* Who owns a Task, for every value of the constants: fences order the     *)
(* Attempts of a Task and name the active one, a Task's state agrees with  *)
(* its active Attempt, sessions keep up with the Attempts they serve, work *)
(* reaches review only on a success, mapped Tasks are reconciled before    *)
(* anything runs, and what is recorded of an Attempt is never unsaid.      *)
(*                                                                         *)
(* Fenced alone is not inductive. That the numbers of a Task's Attempts    *)
(* and their fences rise together needs that no fence is past the Task's   *)
(* own and that only the latest Attempt is active: a new connection takes  *)
(* over with a new fence, which must not overtake a later Attempt. The     *)
(* accounts of ExecutionProofs are used throughout: most steps write one   *)
(* Attempt and its Task, and are right only because no other Attempt of    *)
(* that Task is open.                                                      *)
(***************************************************************************)
EXTENDS ExecutionProofs

BehindTask == \A a \in DOMAIN attempts : attempts[a].fence <= task[TaskOf(a)].fence

ActiveIsLatest ==
    \A a, b \in DOMAIN attempts : Active(a) /\ TaskOf(b) = TaskOf(a) => b[2] <= a[2]

Fencing == Fenced /\ BehindTask /\ ActiveIsLatest

Ownership ==
    /\ Fencing
    /\ TaskMatchesAttempt
    /\ SessionKeepsUp
    /\ ReviewRestsOnSuccess
    /\ LegacyReconciledFirst

------------------------------------------------------------------------------
(* What a step may leave alone *)

\* Who an Attempt belongs to.
KeptOwner(b) ==
    /\ attempts'[b].agent = attempts[b].agent
    /\ attempts'[b].session = attempts[b].session
    /\ attempts'[b].generation = attempts[b].generation
    /\ attempts'[b].fence = attempts[b].fence
    /\ attempts'[b].epoch = attempts[b].epoch

KeptOutcome(b) ==
    /\ attempts'[b].state = attempts[b].state
    /\ attempts'[b].resolved = attempts[b].resolved

Kept(b) == KeptOwner(b) /\ KeptOutcome(b)

KeptTask(u) ==
    /\ task'[u].state = task[u].state
    /\ task'[u].fence = task[u].fence
    /\ task'[u].hold = task[u].hold
    /\ task'[u].adopted = task[u].adopted

\* Sessions and connections only move forward.
Forward ==
    /\ \A s \in DOMAIN sessions : s \in DOMAIN sessions' /\ sessions'[s] = sessions[s]
    /\ \A g \in Agents : /\ agent'[g].generation \in Nat
                         /\ agent'[g].generation >= agent[g].generation

SameAttempts == DOMAIN attempts' = DOMAIN attempts

Reviewed == {"awaiting_review", "accepted"}

\* The types these proofs need of the rows.
LEMMA RowFields ==
  ASSUME TypeOK
  PROVE  /\ \A a \in DOMAIN attempts :
                /\ attempts[a].agent \in Agents
                /\ attempts[a].generation \in Nat
                /\ attempts[a].fence \in Nat
                /\ attempts[a].state \in AttemptState
                /\ attempts[a].resolved \in BOOLEAN
                /\ TaskOf(a) \in Tasks
                /\ a \in AttemptId
                /\ a = <<TaskOf(a), a[2]>>
                /\ a[2] \in 1..MaxAttempts
         /\ \A t \in Tasks : /\ task[t].state \in TaskState
                             /\ task[t].fence \in Nat
                             /\ task[t].hold \in BOOLEAN
                             /\ task[t].adopted \in BOOLEAN
         /\ \A g \in Agents : agent[g].generation \in Nat
         /\ \A s \in DOMAIN sessions : sessions[s].generation \in Nat
  <1>1. \A a \in DOMAIN attempts : attempts[a] \in Attempt /\ a \in AttemptId
    BY Rows DEF TypeOK
  <1>2. \A t \in Tasks : task[t] \in Task
    BY DEF TypeOK
  <1>3. \A s \in DOMAIN sessions : sessions[s] \in Session
    BY DEF TypeOK
  <1>4. \A g \in Agents : agent[g] \in Agent
    BY DEF TypeOK
  <1>5. \A a \in DOMAIN attempts : /\ attempts[a].agent \in Agents
                                   /\ attempts[a].generation \in Nat
                                   /\ attempts[a].fence \in Nat
                                   /\ attempts[a].state \in AttemptState
                                   /\ attempts[a].resolved \in BOOLEAN
    BY <1>1 DEF Attempt
  <1>6. \A a \in DOMAIN attempts : /\ TaskOf(a) \in Tasks
                                   /\ a = <<TaskOf(a), a[2]>>
                                   /\ a[2] \in 1..MaxAttempts
    BY <1>1 DEF AttemptId, TaskOf
  <1>7. \A t \in Tasks : /\ task[t].state \in TaskState
                         /\ task[t].fence \in Nat
                         /\ task[t].hold \in BOOLEAN
                         /\ task[t].adopted \in BOOLEAN
    BY <1>2 DEF Task
  <1>8. \A g \in Agents : agent[g].generation \in Nat
    BY <1>4 DEF Agent
  <1>9. \A s \in DOMAIN sessions : sessions[s].generation \in Nat
    BY <1>3 DEF Session
  <1> QED BY <1>1, <1>5, <1>6, <1>7, <1>8, <1>9

\* Ending an Attempt, renewing it and time leave its owner alone.
LEMMA EndedOwner ==
  ASSUME NEW r \in Attempt, NEW st
  PROVE  LET e == Ended(r, st) IN
         /\ e.agent = r.agent /\ e.session = r.session /\ e.generation = r.generation
         /\ e.fence = r.fence /\ e.epoch = r.epoch
         /\ e.state = st /\ e.resolved = r.resolved
  BY DEF Ended, Attempt

LEMMA LeasedOwner ==
  ASSUME NEW r \in Attempt
  PROVE  LET e == Leased(r) IN
         /\ e.agent = r.agent /\ e.session = r.session /\ e.generation = r.generation
         /\ e.fence = r.fence /\ e.epoch = r.epoch
         /\ e.state = r.state /\ e.resolved = r.resolved
  BY DEF Leased, Attempt

LEMMA AgedOwner ==
  ASSUME NEW r \in Attempt
  PROVE  LET e == Aged(r) IN
         /\ e.agent = r.agent /\ e.session = r.session /\ e.generation = r.generation
         /\ e.fence = r.fence /\ e.epoch = r.epoch
         /\ e.state = r.state /\ e.resolved = r.resolved
  BY DEF Aged, Attempt

\* A write of a Task's row says what its fields become.
LEMMA VersionedRow ==
  ASSUME NEW r \in Task, NEW st, NEW h, NEW k
  PROVE  LET v == Versioned(r, st, h, k) IN
         v.state = st /\ v.hold = h /\ v.fence = k /\ v.adopted = r.adopted
  BY DEF Versioned, Task

\* ... and so what the table becomes.
LEMMA TaskWritten ==
  ASSUME TypeOK, NEW t \in Tasks, NEW st, NEW h, NEW k,
         task' = [task EXCEPT ![t] = Versioned(task[t], st, h, k)]
  PROVE  /\ task'[t].state = st /\ task'[t].hold = h /\ task'[t].fence = k
         /\ task'[t].adopted = task[t].adopted
         /\ \A u \in Tasks : u # t => KeptTask(u)
  <1>1. task[t] \in Task
    BY Rows
  <1>2. task'[t] = Versioned(task[t], st, h, k)
    BY DEF TypeOK
  <1>3. \A u \in Tasks : u # t => task'[u] = task[u]
    BY DEF TypeOK
  <1> QED BY <1>1, <1>2, <1>3, VersionedRow DEF KeptTask

------------------------------------------------------------------------------
(* What keeps each part, whatever else a step does *)

\* Fences keep their order when no step but a claim or a rebind raises one.
LEMMA FencingKept ==
  ASSUME TypeOK, Fencing, SameAttempts,
         \A b \in DOMAIN attempts : KeptOwner(b),
         \A b \in DOMAIN attempts : Active(b)' =>
             /\ Active(b)
             /\ task'[TaskOf(b)].fence = task[TaskOf(b)].fence
             /\ authority' = authority,
         \A u \in Tasks : task'[u].fence >= task[u].fence,
         \A u \in Tasks : task'[u].fence \in Nat
  PROVE  Fencing'
  <1> USE DEF SameAttempts, KeptOwner
  <1>1. BehindTask'
    BY RowFields DEF Fencing, BehindTask
  <1>2. ActiveIsLatest'
    BY DEF Fencing, ActiveIsLatest
  <1>3. Fenced'
    BY RowFields DEF Fencing, Fenced, HubOpen
  <1> QED BY <1>1, <1>2, <1>3 DEF Fencing

\* A Task matches its Attempts when neither starts anything and the state of a
\* Task with an active Attempt stays, or becomes blocked.
LEMMA MatchKept ==
  ASSUME TypeOK, TaskMatchesAttempt, SameAttempts,
         \A u \in Tasks : task'[u].state = "in_progress" =>
             /\ task[u].state = "in_progress"
             /\ \A b \in AttemptsOf(u) : attempts'[b].state = attempts[b].state,
         \A b \in DOMAIN attempts : Active(b)' =>
             /\ attempts'[b].state = attempts[b].state
             /\ task'[TaskOf(b)].state \in {task[TaskOf(b)].state, "blocked"}
  PROVE  TaskMatchesAttempt'
  <1> USE DEF SameAttempts
  <1>1. ASSUME NEW u \in Tasks, task'[u].state = "in_progress"
        PROVE  \E b \in AttemptsOf(u)' : attempts'[b].state = "running"
    BY <1>1 DEF TaskMatchesAttempt, AttemptsOf
  <1>2. ASSUME NEW b \in DOMAIN attempts
        PROVE  /\ attempts'[b].state = "running" =>
                      task'[TaskOf(b)].state \in {"in_progress", "blocked"}
               /\ attempts'[b].state = "leased" =>
                      task'[TaskOf(b)].state \in {"open", "blocked"}
    <2>1. CASE Active(b)'
      BY <1>2, <2>1 DEF TaskMatchesAttempt
    <2>2. CASE ~Active(b)'
      BY <1>2, <2>2 DEF Active, Exists, ActiveStates
    <2> QED BY <2>1, <2>2
  <1> QED BY <1>1, <1>2 DEF TaskMatchesAttempt

\* Sessions keep up when no Attempt changes hands.
LEMMA SessionKept ==
  ASSUME TypeOK, SessionKeepsUp, SameAttempts, Forward,
         \A b \in DOMAIN attempts : KeptOwner(b)
  PROVE  SessionKeepsUp'
  <1> USE DEF SameAttempts, KeptOwner, Forward
  <1> SUFFICES ASSUME NEW a \in DOMAIN attempts
               PROVE  /\ attempts[a].session \in DOMAIN sessions'
                      /\ sessions'[attempts[a].session].agent = attempts[a].agent
                      /\ attempts[a].generation <= sessions'[attempts[a].session].generation
                      /\ sessions'[attempts[a].session].generation
                             <= agent'[attempts[a].agent].generation
    BY DEF SessionKeepsUp
  <1>1. /\ attempts[a].session \in DOMAIN sessions
        /\ sessions'[attempts[a].session] = sessions[attempts[a].session]
    BY DEF SessionKeepsUp
  <1>2. /\ agent'[attempts[a].agent].generation >= agent[attempts[a].agent].generation
        /\ agent'[attempts[a].agent].generation \in Nat
    BY RowFields
  <1>3. /\ sessions[attempts[a].session].generation <= agent[attempts[a].agent].generation
        /\ sessions[attempts[a].session].generation \in Nat
        /\ agent[attempts[a].agent].generation \in Nat
    BY <1>1, RowFields DEF SessionKeepsUp
  <1> QED BY <1>1, <1>2, <1>3 DEF SessionKeepsUp

\* A review rests on what it rested on when nothing new comes to review and no
\* Attempt of a Task in review changes what it says, unless it is unsettled.
LEMMA ReviewKept ==
  ASSUME TypeOK, ReviewRestsOnSuccess, SameAttempts,
         \A u \in Tasks : task'[u].state \in Reviewed =>
             /\ task[u].state \in Reviewed
             /\ \A b \in AttemptsOf(u) : attempts[b].resolved => KeptOutcome(b)
  PROVE  ReviewRestsOnSuccess'
  BY DEF ReviewRestsOnSuccess, SameAttempts, Reviewed, KeptOutcome, AttemptsOf

\* Mapped Tasks wait for their adoption when nothing is granted, held or opened.
LEMMA LegacyKept ==
  ASSUME TypeOK, LegacyReconciledFirst, SameAttempts,
         \A u \in Tasks : ~task'[u].adopted =>
             ~task[u].adopted /\ (task'[u].hold => task[u].hold),
         HubOpen' => HubOpen
  PROVE  LegacyReconciledFirst'
  BY DEF LegacyReconciledFirst, SameAttempts, AttemptsOf

------------------------------------------------------------------------------
(* The steps that leave every owner, outcome and state alone *)

\* What a step does to the Attempts that exist (HistoryIsKept).
History == \A a \in DOMAIN attempts : HistoryKept(a)

\* ... and to the Task of an Attempt it settles late (LateEvidenceKeepsState).
LateKeeps ==
    \A a \in DOMAIN attempts :
        Unsettled(a) /\ attempts'[a].resolved =>
            task'[TaskOf(a)].state = task[TaskOf(a)].state

Steady ==
    /\ SameAttempts
    /\ \A b \in DOMAIN attempts : Kept(b)
    /\ \A u \in Tasks : /\ task'[u].state = task[u].state
                        /\ task'[u].fence = task[u].fence
                        /\ task[u].adopted => task'[u].adopted
                        /\ ~task'[u].adopted => (task'[u].hold => task[u].hold)
    /\ Forward
    /\ authority' = authority

LEMMA SteadyKeeps ==
  ASSUME TypeOK, Ownership, Steady
  PROVE  Ownership' /\ History /\ LateKeeps
  <1> USE DEF Steady, Kept
  <1>1. \A b \in DOMAIN attempts : KeptOwner(b) /\ KeptOutcome(b) /\ (Active(b)' <=> Active(b))
    BY DEF KeptOutcome, Active, Exists, SameAttempts
  <1>2. Fencing'
    BY <1>1, RowFields, FencingKept DEF Ownership
  <1>3. TaskMatchesAttempt'
    BY <1>1, RowFields, MatchKept DEF Ownership, KeptOutcome, AttemptsOf
  <1>4. SessionKeepsUp'
    BY <1>1, SessionKept DEF Ownership
  <1>5. ReviewRestsOnSuccess'
    BY <1>1, ReviewKept DEF Ownership, AttemptsOf
  <1>6. LegacyReconciledFirst'
    BY LegacyKept DEF Ownership, HubOpen
  <1>7. History
    BY <1>1, RowFields DEF History, HistoryKept, KeptOwner, KeptOutcome, SameAttempts,
                           Active, Exists
  <1>8. LateKeeps
    BY RowFields DEF LateKeeps
  <1> QED BY <1>2, <1>3, <1>4, <1>5, <1>6, <1>7, <1>8 DEF Ownership

\* A step that writes neither Attempts nor Tasks, and moves nothing back.
LEMMA TablesKept ==
  ASSUME TypeOK, UNCHANGED <<authority, task, attempts>>, Forward
  PROVE  Steady
  BY DEF Steady, Kept, KeptOwner, KeptOutcome, SameAttempts

\* A step that writes a Task but not its state or fence.
LEMMA TaskKept ==
  ASSUME TypeOK, UNCHANGED <<authority, attempts, sessions, agent>>,
         NEW t \in Tasks, NEW row,
         task' = [task EXCEPT ![t] = row],
         row.state = task[t].state, row.fence = task[t].fence,
         task[t].adopted => row.adopted,
         ~row.adopted => (row.hold => task[t].hold)
  PROVE  Steady
  <1>1. \A u \in Tasks : u # t => task'[u] = task[u]
    BY DEF TypeOK
  <1>2. task'[t] = row
    BY DEF TypeOK
  <1>3. Forward
    BY RowFields DEF Forward
  <1> QED BY <1>1, <1>2, <1>3 DEF Steady, Kept, KeptOwner, KeptOutcome, SameAttempts

\* A step that writes one Attempt but not its owner or outcome.
LEMMA AttemptKept ==
  ASSUME TypeOK, UNCHANGED <<authority, task, sessions, agent>>,
         NEW a \in DOMAIN attempts, NEW row,
         attempts' = [attempts EXCEPT ![a] = row],
         row.agent = attempts[a].agent, row.session = attempts[a].session,
         row.generation = attempts[a].generation, row.fence = attempts[a].fence,
         row.epoch = attempts[a].epoch, row.state = attempts[a].state,
         row.resolved = attempts[a].resolved
  PROVE  Steady
  <1>1. DOMAIN attempts' = DOMAIN attempts /\ attempts'[a] = row
    BY OneAttempt
  <1>2. \A b \in DOMAIN attempts : b # a => attempts'[b] = attempts[b]
    BY OneAttempt
  <1>3. Forward
    BY RowFields DEF Forward
  <1> QED BY <1>1, <1>2, <1>3 DEF Steady, Kept, KeptOwner, KeptOutcome, SameAttempts

SteadyStep ==
    \/ \E g \in Agents : Connect(g) \/ RevokeCredential(g)
    \/ \E g \in Agents, c \in Capacities : SetCapacity(g, c)
    \/ \E p \in Projects, to \in {"active", "paused", "archived"} : TransitionProject(p, to)
    \/ \E t \in Tasks : Update(t) \/ AddArtifact(t) \/ Adopt(t)
    \/ \E g \in Agents, n \in 1..MaxGeneration :
           \/ \E s \in Sessions, p \in Projects : OpenSession(g, n, s, p)
           \/ \E a \in AttemptId : ReadProof(g, n, a) \/ Renew(g, n, a) \/ RecordEffect(g, n, a)
    \/ \E a \in AttemptId : SettleEffect(a)
    \/ Tick
    \/ UNCHANGED vars

LEMMA SteadySteps == TypeOK /\ SteadyStep => Steady
  <1>1. ASSUME TypeOK,
               \/ \E p \in Projects, to \in {"active", "paused", "archived"} :
                      TransitionProject(p, to)
               \/ \E g \in Agents, n \in 1..MaxGeneration, a \in AttemptId :
                      RecordEffect(g, n, a)
               \/ \E a \in AttemptId : SettleEffect(a)
               \/ UNCHANGED vars
        PROVE  Steady
    <2>1. UNCHANGED <<authority, task, attempts, sessions, agent>>
      BY <1>1 DEF TransitionProject, RecordEffect, SettleEffect, vars
    <2>2. Forward
      BY <1>1, <2>1, RowFields DEF Forward
    <2> QED BY <1>1, <2>1, <2>2, TablesKept
  <1>2. ASSUME TypeOK, NEW g \in Agents,
               Connect(g) \/ RevokeCredential(g) \/ \E c \in Capacities : SetCapacity(g, c)
        PROVE  Steady
    <2>1. UNCHANGED <<authority, task, attempts, sessions>>
      BY <1>2 DEF Connect, RevokeCredential, SetCapacity
    <2>2. ASSUME NEW h \in Agents
          PROVE  /\ agent'[h].generation \in Nat
                 /\ agent'[h].generation >= agent[h].generation
      <3>1. agent[h] \in Agent /\ agent[h].generation \in Nat
        BY <1>2, RowFields DEF TypeOK
      <3>2. CASE Connect(g)
        BY <1>2, <3>1, <3>2 DEF Connect, TypeOK, Agent
      <3>3. CASE RevokeCredential(g)
        BY <1>2, <3>1, <3>3 DEF RevokeCredential, TypeOK, Agent
      <3>4. ASSUME NEW c \in Capacities, SetCapacity(g, c)
            PROVE  /\ agent'[h].generation \in Nat
                   /\ agent'[h].generation >= agent[h].generation
        BY <1>2, <3>1, <3>4 DEF SetCapacity, TypeOK, Agent
      <3> QED BY <1>2, <3>2, <3>3, <3>4
    <2>3. Forward
      BY <2>1, <2>2 DEF Forward
    <2> QED BY <1>2, <2>1, <2>3, TablesKept
  <1>3. ASSUME TypeOK, NEW g \in Agents, NEW n \in 1..MaxGeneration, NEW s \in Sessions,
               NEW p \in Projects, OpenSession(g, n, s, p)
        PROVE  Steady
    <2>1. UNCHANGED <<authority, task, attempts, agent>>
      BY <1>3 DEF OpenSession
    <2>2. \A x \in DOMAIN sessions : x \in DOMAIN sessions' /\ sessions'[x] = sessions[x]
      BY <1>3 DEF OpenSession
    <2>3. Forward
      BY <1>3, <2>1, <2>2, RowFields DEF Forward
    <2> QED BY <1>3, <2>1, <2>3, TablesKept
  <1>4. ASSUME TypeOK, NEW t \in Tasks, Update(t) \/ AddArtifact(t)
        PROVE  Steady
    <2> DEFINE row == Versioned(task[t], task[t].state, task[t].hold, task[t].fence)
    <2>1. /\ UNCHANGED <<authority, attempts, sessions, agent>>
          /\ task' = [task EXCEPT ![t] = row]
      BY <1>4 DEF Update, AddArtifact
    <2>2. /\ row.state = task[t].state /\ row.fence = task[t].fence
          /\ row.hold = task[t].hold /\ row.adopted = task[t].adopted
      BY <1>4, Rows, VersionedRow
    <2> HIDE DEF row
    <2> QED BY <1>4, <2>1, <2>2, TaskKept
  <1>5. ASSUME TypeOK, NEW t \in Tasks, Adopt(t)
        PROVE  Steady
    <2> DEFINE new == Versioned(task[t], task[t].state, FALSE, task[t].fence)
               row == [new EXCEPT !.adopted = TRUE]
    <2>1. /\ UNCHANGED <<authority, attempts, sessions, agent>>
          /\ task' = [task EXCEPT ![t] = row]
      BY <1>5 DEF Adopt
    <2>2. new \in Task /\ new.state = task[t].state /\ new.fence = task[t].fence
      <3>1. /\ task[t] \in Task /\ task[t].state \in TaskState
            /\ task[t].fence \in Nat /\ FALSE \in BOOLEAN
        BY <1>5, Rows
      <3>2. new \in Task
        BY <3>1, VersionedTyped
      <3> QED BY <3>1, <3>2 DEF Versioned, Task
    <2> HIDE DEF new
    <2>3. row.state = task[t].state /\ row.fence = task[t].fence /\ row.adopted
      BY <2>2 DEF Task
    <2> HIDE DEF row
    <2> QED BY <1>5, <2>1, <2>3, TaskKept
  <1>6. ASSUME TypeOK, NEW g \in Agents, NEW n \in 1..MaxGeneration, NEW a \in AttemptId,
               ReadProof(g, n, a)
        PROVE  Steady
    <2> DEFINE row == [attempts[a] EXCEPT !.proof = TRUE]
    <2>1. a \in DOMAIN attempts /\ attempts[a] \in Attempt
      BY <1>6, Rows DEF ReadProof, Owns, Exists
    <2>2. /\ UNCHANGED <<authority, task, sessions, agent>>
          /\ attempts' = [attempts EXCEPT ![a] = row]
      BY <1>6 DEF ReadProof
    <2>3. /\ row.agent = attempts[a].agent /\ row.session = attempts[a].session
          /\ row.generation = attempts[a].generation /\ row.fence = attempts[a].fence
          /\ row.epoch = attempts[a].epoch /\ row.state = attempts[a].state
          /\ row.resolved = attempts[a].resolved
      BY <2>1 DEF Attempt
    <2> HIDE DEF row
    <2> QED BY <1>6, <2>1, <2>2, <2>3, AttemptKept
  <1>7. ASSUME TypeOK, NEW g \in Agents, NEW n \in 1..MaxGeneration, NEW a \in AttemptId,
               Renew(g, n, a)
        PROVE  Steady
    <2> DEFINE row == Leased(attempts[a])
    <2>1. a \in DOMAIN attempts /\ attempts[a] \in Attempt
      BY <1>7, Rows DEF Renew, Proven, Owns, Exists
    <2>2. /\ UNCHANGED <<authority, task, sessions, agent>>
          /\ attempts' = [attempts EXCEPT ![a] = row]
      BY <1>7 DEF Renew
    <2>3. /\ row.agent = attempts[a].agent /\ row.session = attempts[a].session
          /\ row.generation = attempts[a].generation /\ row.fence = attempts[a].fence
          /\ row.epoch = attempts[a].epoch /\ row.state = attempts[a].state
          /\ row.resolved = attempts[a].resolved
      BY <2>1, LeasedOwner
    <2> HIDE DEF row
    <2> QED BY <1>7, <2>1, <2>2, <2>3, AttemptKept
  <1>8. ASSUME TypeOK, Tick
        PROVE  Steady
    <2>1. /\ UNCHANGED <<authority, task, sessions, agent>>
          /\ attempts' = [a \in DOMAIN attempts |-> Aged(attempts[a])]
      BY <1>8 DEF Tick
    <2>2. \A b \in DOMAIN attempts : Kept(b)
      BY <1>8, <2>1, Rows, AgedOwner DEF Kept, KeptOwner, KeptOutcome
    <2>3. Forward
      BY <1>8, <2>1, RowFields DEF Forward
    <2> QED BY <2>1, <2>2, <2>3 DEF Steady, SameAttempts
  <1> QED
    BY <1>1, <1>2, <1>3, <1>4, <1>5, <1>6, <1>7, <1>8 DEF SteadyStep

------------------------------------------------------------------------------
(* One Attempt ends, or is settled after it ended: report, evidence, expiry *)

\* What such a step does; a review starts only from an active Attempt that
\* succeeded, and evidence that comes late leaves the Task's state alone.
OneEnds(a) ==
    /\ a \in DOMAIN attempts
    /\ Outstanding(a)
    /\ SameAttempts
    /\ \A b \in DOMAIN attempts : KeptOwner(b) /\ (b # a => KeptOutcome(b))
    /\ attempts'[a].state \notin ActiveStates
    /\ ~Active(a) => attempts'[a].state = attempts[a].state
    /\ UNCHANGED <<authority, sessions, agent>>
    /\ \A u \in Tasks : u # TaskOf(a) => KeptTask(u)
    /\ LET t == TaskOf(a) IN
       /\ task'[t].fence = task[t].fence
       /\ task'[t].adopted = task[t].adopted
       /\ task'[t].state # "in_progress"
       /\ ~attempts'[a].resolved /\ Active(a) => task'[t].hold
       /\ ~Active(a) =>
              task'[t].state = IF task[t].state = "in_progress" THEN "blocked" ELSE task[t].state
       /\ task'[t].state \in Reviewed /\ Active(a) =>
              attempts'[a].state = "succeeded" /\ attempts'[a].resolved

LEMMA OneEndsKeeps ==
  ASSUME TypeOK, Accounts, Ownership, NEW a, OneEnds(a)
  PROVE  Ownership' /\ History /\ LateKeeps
  <1> USE DEF OneEnds
  <1>1. TaskOf(a) \in Tasks /\ a \in DOMAIN attempts
    BY RowFields
  <1>2. \A b \in DOMAIN attempts : Outstanding(b) /\ TaskOf(b) = TaskOf(a) => b = a
    BY DEF Accounts, OneOutstanding
  <1>3. /\ ~Active(a)'
        /\ \A b \in DOMAIN attempts : b # a => (Active(b)' <=> Active(b))
    BY DEF Active, Exists, SameAttempts, KeptOutcome
  <1>4. \A b \in DOMAIN attempts : Active(b)' => b # a /\ Active(b) /\ TaskOf(b) # TaskOf(a)
    BY <1>2, <1>3 DEF Outstanding, Exists
  <1>5. \A u \in Tasks : task'[u].fence = task[u].fence /\ task'[u].adopted = task[u].adopted
    BY DEF KeptTask
  <1>6. Fencing'
    BY <1>4, <1>5, RowFields, FencingKept DEF Ownership
  <1>7. TaskMatchesAttempt'
    <2>1. ASSUME NEW u \in Tasks, task'[u].state = "in_progress"
          PROVE  /\ task[u].state = "in_progress"
                 /\ \A b \in AttemptsOf(u) : attempts'[b].state = attempts[b].state
      BY <2>1, <1>1 DEF KeptTask, AttemptsOf, KeptOutcome
    <2>2. ASSUME NEW b \in DOMAIN attempts, Active(b)'
          PROVE  /\ attempts'[b].state = attempts[b].state
                 /\ task'[TaskOf(b)].state \in {task[TaskOf(b)].state, "blocked"}
      BY <2>2, <1>4, RowFields DEF KeptTask, KeptOutcome
    <2> QED BY <2>1, <2>2, MatchKept DEF Ownership
  <1>8. SessionKeepsUp'
    <2>1. Forward
      BY RowFields DEF Forward
    <2> QED BY <2>1, SessionKept DEF Ownership
  <1>9. ReviewRestsOnSuccess'
    <2>1. CASE Active(a) /\ task'[TaskOf(a)].state \in Reviewed
      <3>1. \A b \in AttemptsOf(TaskOf(a)) : b[2] <= a[2]
        BY <2>1 DEF Ownership, Fencing, ActiveIsLatest, AttemptsOf
      <3>2. ASSUME NEW u \in Tasks \ Legacy, task'[u].state \in Reviewed
            PROVE  \E c \in AttemptsOf(u)' : /\ \A b \in AttemptsOf(u)' : b[2] <= c[2]
                                             /\ attempts'[c].state = "succeeded"
                                             /\ attempts'[c].resolved
        <4>1. CASE u = TaskOf(a)
          <5>1. a \in AttemptsOf(u)' /\ AttemptsOf(u)' = AttemptsOf(u)
            BY <4>1, <1>1 DEF AttemptsOf, SameAttempts
          <5> QED BY <4>1, <5>1, <2>1, <3>1
        <4>2. CASE u # TaskOf(a)
          <5>1. task[u].state \in Reviewed
            BY <3>2, <4>2 DEF KeptTask
          <5>2. \A b \in AttemptsOf(u) : KeptOutcome(b)
            BY <4>2 DEF AttemptsOf
          <5> QED BY <3>2, <5>1, <5>2
                  DEF Ownership, ReviewRestsOnSuccess, Reviewed, AttemptsOf,
                      SameAttempts, KeptOutcome
        <4> QED BY <4>1, <4>2
      <3> QED BY <3>2 DEF ReviewRestsOnSuccess, Reviewed
    <2>2. CASE ~(Active(a) /\ task'[TaskOf(a)].state \in Reviewed)
      <3>1. ~attempts[a].resolved
        BY DEF Outstanding, Accounts, ActiveUnresolved
      <3>2. ASSUME NEW u \in Tasks, task'[u].state \in Reviewed
            PROVE  /\ task[u].state \in Reviewed
                   /\ \A b \in AttemptsOf(u) : attempts[b].resolved => KeptOutcome(b)
        BY <2>2, <3>1, <3>2 DEF KeptTask, AttemptsOf, Reviewed
      <3> QED BY <1>5, <3>2, ReviewKept DEF Ownership
    <2> QED BY <2>1, <2>2
  <1>10. LegacyReconciledFirst'
    <2>1. task[TaskOf(a)].adopted
      BY DEF Accounts, OnlyAdopted
    <2>2. ASSUME NEW u \in Tasks, ~task'[u].adopted
          PROVE  ~task[u].adopted /\ (task'[u].hold => task[u].hold)
      BY <2>1, <2>2, <1>5 DEF KeptTask
    <2> QED BY <2>2, LegacyKept DEF Ownership, HubOpen
  <1>11. History
    <2>1. ~attempts[a].resolved
      BY DEF Outstanding, Accounts, ActiveUnresolved
    <2>2. ASSUME NEW b \in DOMAIN attempts
          PROVE  HistoryKept(b)
      <3>1. CASE b = a
        BY <3>1, <2>1, <1>1, RowFields DEF HistoryKept, KeptOwner, SameAttempts
      <3>2. CASE b # a
        BY <2>2, <3>2, RowFields DEF HistoryKept, KeptOwner, KeptOutcome, SameAttempts, Active,
                                     Exists
      <3> QED BY <3>1, <3>2
    <2> QED BY <2>2 DEF History
  <1>12. LateKeeps
    <2>1. ASSUME NEW b \in DOMAIN attempts, Unsettled(b), attempts'[b].resolved
          PROVE  task'[TaskOf(b)].state = task[TaskOf(b)].state
      <3>1. b = a
        BY <2>1 DEF Unsettled, KeptOutcome
      <3>2. ~Active(a)
        BY <2>1, <3>1 DEF Unsettled
      <3>3. task[TaskOf(a)].state # "in_progress"
        <4>1. ASSUME task[TaskOf(a)].state = "in_progress" PROVE FALSE
          <5>1. PICK c \in AttemptsOf(TaskOf(a)) : attempts[c].state = "running"
            BY <4>1, <1>1 DEF Ownership, TaskMatchesAttempt
          <5>2. Active(c) /\ c \in DOMAIN attempts /\ TaskOf(c) = TaskOf(a)
            BY <5>1 DEF AttemptsOf, Active, Exists, ActiveStates
          <5> QED BY <5>2, <3>2, <1>2 DEF Outstanding, Exists
        <4> QED BY <4>1
      <3> QED BY <3>1, <3>2, <3>3
    <2> QED BY <2>1 DEF LateKeeps
  <1> QED BY <1>6, <1>7, <1>8, <1>9, <1>10, <1>11, <1>12 DEF Ownership

\* Such a step written as the code writes it: one Attempt's row and its Task's.
LEMMA OneEndsBy ==
  ASSUME TypeOK, UNCHANGED <<authority, sessions, agent>>,
         NEW a \in DOMAIN attempts, Outstanding(a), NEW row, NEW st, NEW h \in BOOLEAN,
         attempts' = [attempts EXCEPT ![a] = row],
         row.agent = attempts[a].agent, row.session = attempts[a].session,
         row.generation = attempts[a].generation, row.fence = attempts[a].fence,
         row.epoch = attempts[a].epoch,
         row.state \notin ActiveStates,
         ~Active(a) => row.state = attempts[a].state,
         task' = [task EXCEPT ![TaskOf(a)] =
                     Versioned(task[TaskOf(a)], st, h, task[TaskOf(a)].fence)],
         st # "in_progress",
         ~row.resolved /\ Active(a) => h,
         ~Active(a) => st = IF task[TaskOf(a)].state = "in_progress" THEN "blocked"
                            ELSE task[TaskOf(a)].state,
         st \in Reviewed /\ Active(a) => row.state = "succeeded" /\ row.resolved
  PROVE  OneEnds(a)
  <1> DEFINE t == TaskOf(a)
  <1>1. t \in Tasks
    BY RowFields
  <1>2. /\ task'[t].state = st /\ task'[t].hold = h /\ task'[t].fence = task[t].fence
        /\ task'[t].adopted = task[t].adopted
        /\ \A u \in Tasks : u # t => KeptTask(u)
    <2> DEFINE v == Versioned(task[t], st, h, task[t].fence)
    <2>1. task[t] \in Task
      BY <1>1, Rows
    <2>2. v.state = st /\ v.fence = task[t].fence /\ v.adopted = task[t].adopted
      BY <2>1 DEF Versioned, Task
    <2>3. v.hold = h
      BY <2>1 DEF Versioned, Task
    <2>4. task' = [task EXCEPT ![t] = v]
      OBVIOUS
    <2> HIDE DEF v
    <2>5. task'[t] = v /\ \A u \in Tasks : u # t => task'[u] = task[u]
      BY <1>1, <2>4 DEF TypeOK
    <2> QED BY <2>2, <2>3, <2>5 DEF KeptTask
  <1>3. DOMAIN attempts' = DOMAIN attempts /\ attempts'[a] = row
    BY OneAttempt
  <1>4. \A b \in DOMAIN attempts : b # a => attempts'[b] = attempts[b]
    BY OneAttempt
  <1>5. \A b \in DOMAIN attempts : KeptOwner(b) /\ (b # a => KeptOutcome(b))
    BY <1>3, <1>4 DEF KeptOwner, KeptOutcome
  <1> QED BY <1>2, <1>3, <1>5 DEF OneEnds, SameAttempts

LEMMA ReportEnds ==
  ASSUME TypeOK, NEW g, NEW n, NEW a, NEW outcome \in {"succeeded", "failed"},
         NEW resolved \in BOOLEAN, Report(g, n, a, outcome, resolved)
  PROVE  OneEnds(a)
  <1> DEFINE e == Ended(attempts[a], outcome)
             row == [e EXCEPT !.resolved = resolved]
             st == ReportState(outcome, resolved)
             h == ~resolved
  <1>1. a \in DOMAIN attempts /\ Outstanding(a) /\ Active(a)
    BY DEF Report, Proven, Owns, Exists, Outstanding, CurrentExecution
  <1>2. attempts[a] \in Attempt /\ outcome \in AttemptState
    BY <1>1, Rows DEF AttemptState
  <1>3. /\ e \in Attempt
        /\ e.agent = attempts[a].agent /\ e.session = attempts[a].session
        /\ e.generation = attempts[a].generation /\ e.fence = attempts[a].fence
        /\ e.epoch = attempts[a].epoch /\ e.state = outcome
    BY <1>2, EndedTyped, EndedOwner
  <1> HIDE DEF e
  <1>4. /\ row.agent = attempts[a].agent /\ row.session = attempts[a].session
        /\ row.generation = attempts[a].generation /\ row.fence = attempts[a].fence
        /\ row.epoch = attempts[a].epoch /\ row.state = outcome /\ row.resolved = resolved
    BY <1>3 DEF Attempt
  <1>5. /\ UNCHANGED <<authority, sessions, agent>>
        /\ attempts' = [attempts EXCEPT ![a] = row]
        /\ task' = [task EXCEPT ![TaskOf(a)] =
                       Versioned(task[TaskOf(a)], st, h, task[TaskOf(a)].fence)]
    BY DEF Report, e
  <1>6. /\ st # "in_progress"
        /\ st \in Reviewed => outcome = "succeeded" /\ resolved
    BY DEF ReportState, Reviewed
  <1>7. row.state \notin ActiveStates
    BY <1>4 DEF ActiveStates
  <1>8. h \in BOOLEAN /\ (~row.resolved => h)
    BY <1>4
  <1>9. st \in Reviewed => row.state = "succeeded" /\ row.resolved
    BY <1>4, <1>6
  <1> HIDE DEF row, st, h
  <1> QED BY <1>1, <1>4, <1>5, <1>6, <1>7, <1>8, <1>9, OneEndsBy

\* The Task of an active Attempt is never in review, nor over.
LEMMA ActiveMatches ==
  ASSUME TypeOK, Ownership, NEW a, Active(a)
  PROVE  /\ a \in DOMAIN attempts
         /\ task[TaskOf(a)].state \in {"open", "in_progress", "blocked"}
  BY DEF Ownership, TaskMatchesAttempt, Active, Exists, ActiveStates

LEMMA ResolveEnds ==
  ASSUME TypeOK, Ownership, NEW a, Resolve(a)
  PROVE  OneEnds(a)
  <1> DEFINE to == IF Active(a) THEN "released" ELSE attempts[a].state
             e == Ended(attempts[a], to)
             row == [e EXCEPT !.resolved = TRUE]
             st == EvidenceState(task[TaskOf(a)].state)
             h == \E b \in AttemptsOf(TaskOf(a)) \ {a} : ~attempts[b].resolved
  <1>1. a \in DOMAIN attempts /\ Outstanding(a)
    BY DEF Resolve, Exists, Outstanding
  <1>2. attempts[a] \in Attempt
    BY <1>1, Rows
  <1>3. to \in AttemptState /\ to \notin ActiveStates
    BY <1>1, <1>2 DEF Attempt, AttemptState, Active, Exists, ActiveStates
  <1>4. ~Active(a) => to = attempts[a].state
    OBVIOUS
  <1> HIDE DEF to
  <1>5. /\ e \in Attempt
        /\ e.agent = attempts[a].agent /\ e.session = attempts[a].session
        /\ e.generation = attempts[a].generation /\ e.fence = attempts[a].fence
        /\ e.epoch = attempts[a].epoch /\ e.state = to
    BY <1>2, <1>3, EndedTyped, EndedOwner
  <1> HIDE DEF e
  <1>6. /\ row.agent = attempts[a].agent /\ row.session = attempts[a].session
        /\ row.generation = attempts[a].generation /\ row.fence = attempts[a].fence
        /\ row.epoch = attempts[a].epoch /\ row.state = to /\ row.resolved = TRUE
    BY <1>5 DEF Attempt
  <1>7. /\ UNCHANGED <<authority, sessions, agent>>
        /\ attempts' = [attempts EXCEPT ![a] = row]
        /\ task' = [task EXCEPT ![TaskOf(a)] =
                       Versioned(task[TaskOf(a)], st, h, task[TaskOf(a)].fence)]
    BY DEF Resolve, e, to
  <1>8. st = IF task[TaskOf(a)].state = "in_progress" THEN "blocked" ELSE task[TaskOf(a)].state
    BY DEF EvidenceState
  <1>9. st # "in_progress"
    BY <1>8
  <1>10. st \in Reviewed => ~Active(a)
    BY <1>8, ActiveMatches DEF Reviewed
  <1>11. h \in BOOLEAN
    OBVIOUS
  <1> HIDE DEF row, st, h
  <1> QED BY <1>1, <1>3, <1>4, <1>6, <1>7, <1>8, <1>9, <1>10, <1>11, OneEndsBy

LEMMA ExpireEnds ==
  ASSUME TypeOK, NEW a, Expire(a)
  PROVE  OneEnds(a)
  <1> DEFINE row == Ended(attempts[a], "expired")
             h == TRUE
  <1>1. a \in DOMAIN attempts /\ Outstanding(a) /\ Active(a)
    BY DEF Expire, Active, Exists, Outstanding
  <1>2. /\ row.agent = attempts[a].agent /\ row.session = attempts[a].session
        /\ row.generation = attempts[a].generation /\ row.fence = attempts[a].fence
        /\ row.epoch = attempts[a].epoch /\ row.state = "expired"
    BY <1>1, Rows, EndedOwner
  <1>3. /\ UNCHANGED <<authority, sessions, agent>>
        /\ attempts' = [attempts EXCEPT ![a] = row]
        /\ task' = [task EXCEPT ![TaskOf(a)] =
                       Versioned(task[TaskOf(a)], "blocked", h, task[TaskOf(a)].fence)]
    BY DEF Expire
  <1>4. row.state \notin ActiveStates /\ "blocked" \notin Reviewed
    BY <1>2 DEF ActiveStates, Reviewed
  <1>5. h /\ h \in BOOLEAN
    OBVIOUS
  <1> HIDE DEF row, h
  <1> QED BY <1>1, <1>2, <1>3, <1>4, <1>5, OneEndsBy

------------------------------------------------------------------------------
(* Several Attempts are cut off at once: closing, and a manager's transition *)

\* The Attempts of S end without a word of what they did, and their Tasks are
\* held. A Task with an active Attempt that stays keeps its state or is blocked.
CutOff(S) ==
    /\ SameAttempts
    /\ \A b \in S : b \in DOMAIN attempts /\ Active(b)
    /\ \A b \in DOMAIN attempts :
           /\ KeptOwner(b)
           /\ attempts'[b].resolved = attempts[b].resolved
           /\ IF b \in S THEN attempts'[b].state \notin ActiveStates /\ task'[TaskOf(b)].hold
              ELSE attempts'[b].state = attempts[b].state
           /\ Active(b) /\ b \notin S =>
                  /\ task'[TaskOf(b)].state \in {task[TaskOf(b)].state, "blocked"}
                  /\ task'[TaskOf(b)].fence = task[TaskOf(b)].fence
                  /\ authority' = authority
    /\ UNCHANGED <<sessions, agent>>
    /\ HubOpen' => HubOpen
    /\ \A u \in Tasks :
           /\ task'[u].fence \in Nat
           /\ task'[u].fence >= task[u].fence
           /\ task'[u].adopted = task[u].adopted
           /\ task'[u].hold => task[u].hold \/ ~NoActive(u)
           /\ task'[u].state = "in_progress" =>
                  task[u].state = "in_progress" /\ \A b \in S : TaskOf(b) # u
           /\ task'[u].state \in Reviewed => task[u].state \in Reviewed
           \* what happens to a Task whose unsettled Attempt is settled elsewhere
           /\ \A b \in DOMAIN attempts : TaskOf(b) = u /\ Unsettled(b) => ~attempts'[b].resolved

LEMMA CutOffKeeps ==
  ASSUME TypeOK, Accounts, Ownership, NEW S, CutOff(S)
  PROVE  Ownership' /\ History /\ LateKeeps
  <1> USE DEF CutOff
  <1>1. \A b \in DOMAIN attempts : /\ Active(b)' <=> Active(b) /\ b \notin S
                                   /\ ~Active(b) => KeptOutcome(b)
    BY DEF Active, Exists, SameAttempts, KeptOutcome
  <1>2. Fencing'
    BY <1>1, RowFields, FencingKept DEF Ownership
  <1>3. TaskMatchesAttempt'
    <2>1. ASSUME NEW u \in Tasks, task'[u].state = "in_progress"
          PROVE  /\ task[u].state = "in_progress"
                 /\ \A b \in AttemptsOf(u) : attempts'[b].state = attempts[b].state
      BY <2>1 DEF AttemptsOf
    <2>2. ASSUME NEW b \in DOMAIN attempts, Active(b)'
          PROVE  /\ attempts'[b].state = attempts[b].state
                 /\ task'[TaskOf(b)].state \in {task[TaskOf(b)].state, "blocked"}
      BY <2>2, <1>1
    <2> QED BY <2>1, <2>2, MatchKept DEF Ownership
  <1>4. SessionKeepsUp'
    <2>1. Forward
      BY RowFields DEF Forward
    <2> QED BY <2>1, SessionKept DEF Ownership
  <1>5. ReviewRestsOnSuccess'
    <2>1. ASSUME NEW u \in Tasks, task'[u].state \in Reviewed, NEW b \in AttemptsOf(u)
          PROVE  KeptOutcome(b)
      <3>1. task[u].state \in Reviewed /\ b \in DOMAIN attempts /\ TaskOf(b) = u
        BY <2>1 DEF AttemptsOf
      <3>2. ~Active(b)
        BY <3>1, ActiveMatches DEF Reviewed
      <3> QED BY <3>1, <3>2, <1>1
    <2> QED BY <2>1, ReviewKept DEF Ownership
  <1>6. LegacyReconciledFirst'
    <2>1. ASSUME NEW u \in Tasks, ~task'[u].adopted
          PROVE  ~task[u].adopted /\ (task'[u].hold => task[u].hold)
      BY <2>1 DEF Ownership, LegacyReconciledFirst, NoActive
    <2> QED BY <2>1, LegacyKept DEF Ownership
  <1>7. History
    <2>1. ASSUME NEW b \in DOMAIN attempts
          PROVE  HistoryKept(b)
      <3>1. /\ b \in DOMAIN attempts'
            /\ attempts'[b].resolved = attempts[b].resolved
            /\ attempts'[b].fence = attempts[b].fence
            /\ attempts'[b].generation = attempts[b].generation
        BY DEF SameAttempts, KeptOwner
      <3>2. attempts[b].fence \in Nat /\ attempts[b].generation \in Nat
        BY RowFields
      <3>3. CASE b \in S
        <4>1. Active(b) /\ task'[TaskOf(b)].hold
          BY <3>3
        <4> QED BY <3>1, <3>2, <4>1 DEF HistoryKept
      <3>4. CASE b \notin S
        <4>1. attempts'[b].state = attempts[b].state
          BY <3>4
        <4> QED BY <3>1, <3>2, <4>1 DEF HistoryKept, Active
      <3> QED BY <3>3, <3>4
    <2> QED BY <2>1 DEF History
  <1>8. LateKeeps
    BY RowFields DEF LateKeeps
  <1> QED BY <1>2, <1>3, <1>4, <1>5, <1>6, <1>7, <1>8 DEF Ownership

LEMMA CloseCutsOff ==
  ASSUME TypeOK, Accounts, Ownership, Close
  PROVE  CutOff(Holding)
  <1>1. SameAttempts /\ UNCHANGED <<sessions, agent>> /\ ~HubOpen'
    BY DEF Close, SameAttempts, HubOpen
  <1>2. ASSUME NEW b \in DOMAIN attempts
        PROVE  /\ KeptOwner(b)
               /\ attempts'[b].resolved = attempts[b].resolved
               /\ IF Active(b) THEN attempts'[b].state = "expired"
                               ELSE attempts'[b].state = attempts[b].state
    <2>1. attempts[b] \in Attempt
      BY Rows
    <2>2. attempts'[b] = IF Active(b) THEN Ended(attempts[b], "expired") ELSE attempts[b]
      BY DEF Close
    <2> QED BY <2>1, <2>2, EndedOwner DEF KeptOwner
  <1>3. ASSUME NEW u \in Tasks
        PROVE  IF NoActive(u) THEN task'[u] = task[u]
               ELSE /\ task'[u].state = "blocked" /\ task'[u].hold
                    /\ task'[u].fence = task[u].fence + 1
                    /\ task'[u].adopted = task[u].adopted
    <2>1. task[u] \in Task
      BY Rows
    <2>2. task'[u] = IF NoActive(u) THEN task[u]
                     ELSE Versioned(task[u], "blocked", TRUE, NextFence(u))
      BY DEF Close
    <2>3. CASE NoActive(u)
      BY <2>2, <2>3
    <2>4. CASE ~NoActive(u)
      BY <2>1, <2>2, <2>4 DEF Versioned, Task, NextFence
    <2> QED BY <2>3, <2>4
  <1>4. \A b \in DOMAIN attempts : Active(b) => ~NoActive(TaskOf(b))
    BY DEF NoActive, AttemptsOf
  <1>5. \A b \in DOMAIN attempts : Unsettled(b) => ~attempts'[b].resolved
    BY <1>2 DEF Unsettled
  <1> QED BY <1>1, <1>2, <1>3, <1>4, <1>5, RowFields
          DEF CutOff, Holding, ActiveStates, Reviewed

LEMMA TransitionCutsOff ==
  ASSUME TypeOK, Accounts, Ownership, NEW t \in Tasks, NEW to, TransitionTask(t, to)
  PROVE  CutOff({b \in DOMAIN attempts : ClosedBy(t, to, b)})
  <1> DEFINE S == {b \in DOMAIN attempts : ClosedBy(t, to, b)}
             inv == Invalidates(t, to)
             k == IF inv THEN NextFence(t) ELSE task[t].fence
             v == Versioned(task[t], to, task[t].hold \/ inv, k)
  <1>1. SameAttempts /\ UNCHANGED <<authority, sessions, agent>>
    BY DEF TransitionTask, SameAttempts
  <1>2. ASSUME NEW b \in DOMAIN attempts
        PROVE  /\ KeptOwner(b)
               /\ attempts'[b].resolved = attempts[b].resolved
               /\ IF b \in S THEN attempts'[b].state = "cancelled"
                             ELSE attempts'[b].state = attempts[b].state
    <2>1. attempts[b] \in Attempt
      BY Rows
    <2>2. attempts'[b] = IF b \in S THEN Ended(attempts[b], "cancelled") ELSE attempts[b]
      BY DEF TransitionTask, ClosedBy
    <2> HIDE DEF S
    <2> QED BY <2>1, <2>2, EndedOwner DEF KeptOwner
  <1>3. task[t] \in Task /\ task[t].fence \in Nat
    BY Rows
  <1>4. v.state = to /\ v.fence = k /\ v.adopted = task[t].adopted
    <2> HIDE DEF k
    <2> QED BY <1>3 DEF Versioned, Task
  <1>5. v.hold <=> task[t].hold \/ inv
    BY <1>3 DEF Versioned, Task
  <1>6. task' = [task EXCEPT ![t] = v]
    BY DEF TransitionTask
  <1>7. k \in Nat /\ k >= task[t].fence /\ (~inv => k = task[t].fence)
    BY <1>3 DEF NextFence
  <1> HIDE DEF v, k
  <1>8. task'[t] = v /\ \A u \in Tasks : u # t => task'[u] = task[u]
    BY <1>6 DEF TypeOK
  <1>9. <<task[t].state, to>> \in Transitions
    BY DEF TransitionTask
  <1>10. /\ to # "in_progress" /\ to \notin Reviewed
         /\ task[t].state \in {"open", "in_progress", "blocked"} =>
                to \in {"open", "blocked", "cancelled"}
    BY <1>9 DEF Transitions, Reviewed
  <1>11. ASSUME NEW b \in DOMAIN attempts, Active(b), b \notin S, TaskOf(b) = t
         PROVE  ~inv /\ to = "blocked"
    <2>1. ~inv
      BY <1>11 DEF ClosedBy
    <2>2. ~NoActive(t)
      BY <1>11 DEF NoActive, AttemptsOf
    <2>3. task[t].state \in {"open", "in_progress", "blocked"}
      BY <1>11, ActiveMatches
    <2> QED BY <2>1, <2>2, <2>3, <1>10 DEF Invalidates
  <1>12. \A b \in S : b \in DOMAIN attempts /\ Active(b) /\ TaskOf(b) = t /\ inv
    BY DEF ClosedBy
  <1>13. inv => ~NoActive(t)
    BY DEF Invalidates
  <1>14. \A b \in DOMAIN attempts : Unsettled(b) => ~attempts'[b].resolved
    BY <1>2 DEF Unsettled
  <1> HIDE DEF S, inv
  <1>15. ASSUME NEW b \in DOMAIN attempts
         PROVE  /\ IF b \in S THEN attempts'[b].state \notin ActiveStates /\ task'[TaskOf(b)].hold
                   ELSE attempts'[b].state = attempts[b].state
                /\ Active(b) /\ b \notin S =>
                      /\ task'[TaskOf(b)].state \in {task[TaskOf(b)].state, "blocked"}
                      /\ task'[TaskOf(b)].fence = task[TaskOf(b)].fence
    BY <1>2, <1>4, <1>5, <1>7, <1>8, <1>11, <1>12, RowFields DEF ActiveStates
  <1>16. ASSUME NEW u \in Tasks
         PROVE  /\ task'[u].fence \in Nat
                /\ task'[u].fence >= task[u].fence
                /\ task'[u].adopted = task[u].adopted
                /\ task'[u].hold => task[u].hold \/ ~NoActive(u)
                /\ task'[u].state = "in_progress" =>
                       task[u].state = "in_progress" /\ \A b \in S : TaskOf(b) # u
                /\ task'[u].state \in Reviewed => task[u].state \in Reviewed
    BY <1>4, <1>5, <1>7, <1>8, <1>10, <1>12, <1>13, RowFields
  <1> QED BY <1>1, <1>2, <1>12, <1>14, <1>15, <1>16 DEF CutOff, HubOpen, S

------------------------------------------------------------------------------
(* Activation and decisions write no Attempt *)

LEMMA ActivateKeeps ==
  ASSUME TypeOK, Accounts, Ownership, Activate
  PROVE  Ownership' /\ History /\ LateKeeps
  <1>1. UNCHANGED <<project, task, attempts, sessions, agent, effects>>
    BY DEF Activate
  <1>2. /\ SameAttempts
        /\ \A b \in DOMAIN attempts : Kept(b) /\ (Active(b)' <=> Active(b))
    BY <1>1 DEF SameAttempts, Kept, KeptOwner, KeptOutcome, Active, Exists
  <1>3. \A b \in DOMAIN attempts : ~Active(b)
    BY DEF Activate, Outstanding, Exists
  <1>4. Fencing'
    BY <1>1, <1>2, <1>3, RowFields, FencingKept DEF Ownership, Kept
  <1>5. TaskMatchesAttempt'
    BY <1>1, <1>2, <1>3, MatchKept DEF Ownership
  <1>6. SessionKeepsUp'
    <2>1. Forward
      BY <1>1, RowFields DEF Forward
    <2> QED BY <1>2, <2>1, SessionKept DEF Ownership, Kept
  <1>7. ReviewRestsOnSuccess'
    BY <1>1, <1>2, ReviewKept DEF Ownership, Kept, AttemptsOf
  <1>8. LegacyReconciledFirst'
    BY <1>1 DEF Ownership, LegacyReconciledFirst, Activate, AttemptsOf
  <1>9. History
    BY <1>1, <1>3, RowFields DEF History, HistoryKept
  <1>10. LateKeeps
    BY <1>1 DEF LateKeeps
  <1> QED BY <1>4, <1>5, <1>6, <1>7, <1>8, <1>9, <1>10 DEF Ownership

LEMMA DecideKeeps ==
  ASSUME TypeOK, Accounts, Ownership, NEW t \in Tasks, NEW kind, NEW verdict,
         Decide(t, kind, verdict)
  PROVE  Ownership' /\ History /\ LateKeeps
  <1> DEFINE v == Versioned(task[t], Decided(kind, verdict), task[t].hold, task[t].fence)
             row == [v EXCEPT !.reviewed = (kind = "review" /\ verdict = "approve")]
             st == Decided(kind, verdict)
  <1>1. UNCHANGED <<authority, project, attempts, sessions, agent, effects>>
    BY DEF Decide
  <1>2. /\ SameAttempts
        /\ \A b \in DOMAIN attempts : Kept(b) /\ (Active(b)' <=> Active(b))
    BY <1>1 DEF SameAttempts, Kept, KeptOwner, KeptOutcome, Active, Exists
  <1>3. task' = [task EXCEPT ![t] = row]
    BY DEF Decide
  <1>4. st \in {"open", "accepted", "awaiting_review"} /\ task[t].state = "awaiting_review"
    BY DEF Decide, Decided
  <1>5. v \in Task /\ v.state = st /\ v.hold = task[t].hold
        /\ v.fence = task[t].fence /\ v.adopted = task[t].adopted
    <2>1. task[t] \in Task /\ st \in TaskState
      BY <1>4, Rows DEF TaskState
    <2> HIDE DEF st
    <2> QED BY <2>1 DEF Versioned, Task, st
  <1> HIDE DEF v, st
  <1>6. row.state = st /\ row.hold = task[t].hold
        /\ row.fence = task[t].fence /\ row.adopted = task[t].adopted
    BY <1>5 DEF Task
  <1> HIDE DEF row
  <1>7. task'[t] = row /\ \A u \in Tasks : u # t => task'[u] = task[u]
    BY <1>3 DEF TypeOK
  <1>8. \A u \in Tasks : /\ task'[u].fence = task[u].fence
                         /\ task'[u].hold = task[u].hold
                         /\ task'[u].adopted = task[u].adopted
    BY <1>6, <1>7
  <1>9. \A b \in DOMAIN attempts : Active(b) => TaskOf(b) # t
    BY <1>4, ActiveMatches
  <1>10. Fencing'
    BY <1>1, <1>2, <1>8, RowFields, FencingKept DEF Ownership, Kept
  <1>11. TaskMatchesAttempt'
    <2>1. ASSUME NEW u \in Tasks, task'[u].state = "in_progress"
          PROVE  /\ task[u].state = "in_progress"
                 /\ \A b \in AttemptsOf(u) : attempts'[b].state = attempts[b].state
      BY <1>1, <1>4, <1>6, <1>7, <2>1
    <2>2. ASSUME NEW b \in DOMAIN attempts, Active(b)'
          PROVE  /\ attempts'[b].state = attempts[b].state
                 /\ task'[TaskOf(b)].state \in {task[TaskOf(b)].state, "blocked"}
      BY <1>1, <1>2, <1>7, <1>9, <2>2, RowFields
    <2> QED BY <1>2, <2>1, <2>2, MatchKept DEF Ownership
  <1>12. SessionKeepsUp'
    <2>1. Forward
      BY <1>1, RowFields DEF Forward
    <2> QED BY <1>2, <2>1, SessionKept DEF Ownership, Kept
  <1>13. ReviewRestsOnSuccess'
    <2>1. ASSUME NEW u \in Tasks, task'[u].state \in Reviewed
          PROVE  task[u].state \in Reviewed
      BY <1>4, <1>7, <2>1 DEF Reviewed
    <2> QED BY <1>2, <1>8, <2>1, ReviewKept DEF Ownership, Kept, AttemptsOf
  <1>14. LegacyReconciledFirst'
    BY <1>1, <1>2, <1>8, LegacyKept DEF Ownership, HubOpen
  <1>15. History
    BY <1>1, RowFields DEF History, HistoryKept, Active
  <1>16. LateKeeps
    <2>1. \A b \in DOMAIN attempts : Unsettled(b) => ~attempts'[b].resolved
      BY <1>1 DEF Unsettled
    <2> QED BY <2>1 DEF LateKeeps
  <1> QED BY <1>10, <1>11, <1>12, <1>13, <1>14, <1>15, <1>16 DEF Ownership

------------------------------------------------------------------------------
(* The owner starts its Attempt *)

LEMMA StartKeeps ==
  ASSUME TypeOK, Accounts, Ownership, NEW g, NEW n, NEW a, Start(g, n, a)
  PROVE  Ownership' /\ History /\ LateKeeps
  <1> DEFINE t == TaskOf(a)
             row == [attempts[a] EXCEPT !.state = "running"]
  <1>1. /\ UNCHANGED <<authority, project, sessions, agent, effects>>
        /\ attempts' = [attempts EXCEPT ![a] = row]
        /\ task' = [task EXCEPT ![t] =
                       Versioned(task[t], "in_progress", task[t].hold, task[t].fence)]
    BY DEF Start
  <1>2. /\ a \in DOMAIN attempts /\ Active(a) /\ t \in Tasks
        /\ attempts[a].state = "leased" /\ task[t].state = "open"
    BY RowFields DEF Start, Proven, Owns, CurrentExecution, Active, Exists
  <1>3. /\ row.agent = attempts[a].agent /\ row.session = attempts[a].session
        /\ row.generation = attempts[a].generation /\ row.fence = attempts[a].fence
        /\ row.epoch = attempts[a].epoch /\ row.state = "running"
        /\ row.resolved = attempts[a].resolved
    <2>1. attempts[a] \in Attempt
      BY <1>2, Rows
    <2> QED BY <2>1 DEF Attempt
  <1> HIDE DEF row
  <1>4. /\ DOMAIN attempts' = DOMAIN attempts /\ attempts'[a] = row
        /\ \A b \in DOMAIN attempts : b # a => attempts'[b] = attempts[b]
    BY <1>1, <1>2, OneAttempt
  <1>5. /\ SameAttempts
        /\ \A b \in DOMAIN attempts : /\ KeptOwner(b)
                                      /\ Active(b)' <=> Active(b)
                                      /\ attempts'[b].resolved = attempts[b].resolved
    BY <1>2, <1>3, <1>4 DEF SameAttempts, KeptOwner, Active, Exists, ActiveStates
  <1>6. /\ task'[t].state = "in_progress" /\ task'[t].hold = task[t].hold
        /\ task'[t].fence = task[t].fence /\ task'[t].adopted = task[t].adopted
        /\ \A u \in Tasks : u # t => task'[u] = task[u]
    <2> DEFINE v == Versioned(task[t], "in_progress", task[t].hold, task[t].fence)
    <2>1. v.state = "in_progress" /\ v.hold = task[t].hold
          /\ v.fence = task[t].fence /\ v.adopted = task[t].adopted
      BY <1>2, Rows DEF Versioned, Task
    <2> HIDE DEF v
    <2> QED BY <1>1, <1>2, <2>1 DEF TypeOK, v
  <1>7. \A u \in Tasks : /\ task'[u].fence = task[u].fence
                         /\ task'[u].hold = task[u].hold
                         /\ task'[u].adopted = task[u].adopted
    BY <1>6
  <1>8. \A b \in DOMAIN attempts : Active(b) /\ TaskOf(b) = t => b = a
    BY <1>2 DEF Accounts, OneOutstanding, Outstanding, Exists
  <1> HIDE DEF t
  <1>9. Fencing'
    BY <1>1, <1>5, <1>7, RowFields, FencingKept DEF Ownership
  <1>10. TaskMatchesAttempt'
    <2>1. ASSUME NEW u \in Tasks, task'[u].state = "in_progress"
          PROVE  \E b \in AttemptsOf(u)' : attempts'[b].state = "running"
      <3>1. CASE u = t
        BY <1>2, <1>3, <1>4, <3>1 DEF AttemptsOf, t
      <3>2. CASE u # t
        <4>1. task[u].state = "in_progress"
          BY <1>6, <2>1, <3>2
        <4>2. PICK b \in AttemptsOf(u) : attempts[b].state = "running"
          BY <4>1 DEF Ownership, TaskMatchesAttempt
        <4>3. b \in DOMAIN attempts /\ b # a /\ b \in AttemptsOf(u)'
          BY <3>2, <4>2, <1>4 DEF AttemptsOf, t
        <4> QED BY <1>4, <4>2, <4>3
      <3> QED BY <3>1, <3>2
    <2>2. ASSUME NEW b \in DOMAIN attempts
          PROVE  /\ attempts'[b].state = "running" =>
                        task'[TaskOf(b)].state \in {"in_progress", "blocked"}
                 /\ attempts'[b].state = "leased" =>
                        task'[TaskOf(b)].state \in {"open", "blocked"}
      <3>1. CASE b = a
        BY <1>3, <1>4, <1>6, <3>1 DEF t
      <3>2. CASE b # a
        <4>1. attempts'[b] = attempts[b]
          BY <1>4, <3>2
        <4>2. attempts[b].state \in ActiveStates => TaskOf(b) # t
          BY <1>8, <3>2 DEF Active, Exists
        <4>3. attempts[b].state \in ActiveStates => task'[TaskOf(b)] = task[TaskOf(b)]
          BY <1>6, <4>2, RowFields
        <4> QED BY <4>1, <4>3 DEF ActiveStates, Ownership, TaskMatchesAttempt
      <3> QED BY <3>1, <3>2
    <2> QED BY <1>4, <2>1, <2>2 DEF TaskMatchesAttempt
  <1>11. SessionKeepsUp'
    <2>1. Forward
      BY <1>1, RowFields DEF Forward
    <2> QED BY <1>5, <2>1, SessionKept DEF Ownership
  <1>12. ReviewRestsOnSuccess'
    <2>1. ASSUME NEW u \in Tasks, task'[u].state \in Reviewed
          PROVE  /\ task[u].state \in Reviewed
                 /\ \A b \in AttemptsOf(u) : attempts[b].resolved => KeptOutcome(b)
      <3>1. u # t /\ task[u].state \in Reviewed
        BY <1>6, <2>1 DEF Reviewed
      <3> QED BY <3>1, <1>4 DEF AttemptsOf, KeptOutcome, t
    <2> QED BY <1>5, <1>7, <2>1, ReviewKept DEF Ownership
  <1>13. LegacyReconciledFirst'
    BY <1>1, <1>5, <1>7, LegacyKept DEF Ownership, HubOpen
  <1>14. History
    <2>1. ASSUME NEW b \in DOMAIN attempts
          PROVE  HistoryKept(b)
      <3>1. ~Active(b) => attempts'[b].state = attempts[b].state
        BY <1>2, <1>4
      <3>2. Active(b) => attempts'[b].state \in ActiveStates
        BY <1>5 DEF Active
      <3> QED BY <1>5, <3>1, <3>2, RowFields DEF HistoryKept, SameAttempts, KeptOwner
    <2> QED BY <2>1 DEF History
  <1>15. LateKeeps
    BY <1>5 DEF LateKeeps, Unsettled
  <1> QED BY <1>9, <1>10, <1>11, <1>12, <1>13, <1>14, <1>15 DEF Ownership

------------------------------------------------------------------------------
(* A claim opens the next Attempt of a Task *)

LEMMA ClaimKeeps ==
  ASSUME TypeOK, Accounts, Ownership, NEW g \in Agents, NEW n, NEW s \in Sessions,
         NEW a \in AttemptId, Claim(g, n, s, a)
  PROVE  Ownership' /\ History /\ LateKeeps
  <1> DEFINE t == TaskOf(a)
  <1>1. /\ a \notin DOMAIN attempts
        /\ DOMAIN attempts' = DOMAIN attempts \cup {a}
        /\ \A b \in DOMAIN attempts : /\ attempts'[b] = attempts[b]
                                      /\ Active(b)' <=> Active(b)
        /\ \A b \in DOMAIN attempts : TaskOf(b) = t => ~Outstanding(b)
    BY ClaimStep
  <1>2. t \in Tasks /\ a = <<t, a[2]>> /\ a[2] \in 1..MaxAttempts
    BY DEF AttemptId, TaskOf
  <1>3. UNCHANGED <<authority, project, sessions, agent, effects>>
    BY DEF Claim
  <1>4. /\ attempts'[a].agent = g /\ attempts'[a].session = s
        /\ attempts'[a].generation = n /\ attempts'[a].state = "leased"
        /\ attempts'[a].fence = task[t].fence + 1
        /\ attempts'[a].epoch = authority.epoch
    <2> DEFINE row == [agent |-> g, session |-> s, generation |-> n, state |-> "leased",
                       fence |-> NextFence(t), epoch |-> authority.epoch,
                       resolved |-> FALSE, lease |-> LeaseTTL, start |-> StartTTL,
                       execution |-> ExecTTL, proof |-> FALSE]
    <2>1. attempts'[a] = row
      BY DEF Claim
    <2> QED BY <2>1 DEF NextFence
  <1>5. /\ HubOpen /\ task[t].state = "open" /\ task[t].adopted
        /\ n = agent[g].generation /\ s \in DOMAIN sessions
        /\ sessions[s].agent = g /\ sessions[s].generation = n
    BY DEF Claim, Claimable, Eligible, Authenticated
  <1>6. /\ task'[t].state = task[t].state /\ task'[t].hold = task[t].hold
        /\ task'[t].fence = task[t].fence + 1 /\ task'[t].adopted = task[t].adopted
        /\ \A u \in Tasks : u # t => task'[u] = task[u]
    <2> DEFINE v == Versioned(task[t], task[t].state, task[t].hold, NextFence(t))
    <2>1. /\ v.state = task[t].state /\ v.hold = task[t].hold
          /\ v.fence = task[t].fence + 1 /\ v.adopted = task[t].adopted
      BY <1>2, Rows DEF Versioned, Task, NextFence
    <2>2. task' = [task EXCEPT ![t] = v]
      BY DEF Claim
    <2> HIDE DEF v
    <2> QED BY <1>2, <2>1, <2>2 DEF TypeOK
  <1>7. \A b \in DOMAIN attempts : TaskOf(b) = t => b[2] < a[2] /\ ~Active(b)
    <2> SUFFICES ASSUME NEW b \in DOMAIN attempts, TaskOf(b) = t
                 PROVE  b[2] < a[2] /\ ~Active(b)
      OBVIOUS
    <2>1. b = <<t, b[2]>> /\ b[2] \in 1..MaxAttempts
      BY RowFields
    <2>2. b[2] < a[2]
      BY <2>1 DEF Claim, NextNumber, Exists
    <2> QED BY <2>2, <1>1 DEF Outstanding, Exists
  <1>8. Active(a)'
    BY <1>1, <1>4 DEF Active, Exists, ActiveStates
  <1> HIDE DEF t
  <1>9. Fencing'
    <2>1. ASSUME NEW b \in DOMAIN attempts'
          PROVE  attempts'[b].fence <= task'[TaskOf(b)].fence
      <3>1. CASE b = a
        BY <1>2, <1>4, <1>6, <3>1, RowFields DEF t
      <3>2. CASE b # a
        BY <1>1, <1>6, <2>1, <3>2, RowFields DEF Ownership, Fencing, BehindTask
      <3> QED BY <3>1, <3>2
    <2>2. ASSUME NEW b \in DOMAIN attempts', Active(b)'
          PROVE  /\ HubOpen'
                 /\ attempts'[b].epoch = authority'.epoch
                 /\ attempts'[b].fence = task'[TaskOf(b)].fence
                 /\ \A c \in DOMAIN attempts' : TaskOf(c) = TaskOf(b) => c[2] <= b[2]
      <3>1. CASE b = a
        <4>1. \A c \in DOMAIN attempts : TaskOf(c) = TaskOf(a) => c[2] <= a[2]
          BY <1>2, <1>7, RowFields DEF t
        <4> QED BY <1>1, <1>2, <1>3, <1>4, <1>5, <1>6, <3>1, <4>1 DEF HubOpen, t
      <3>2. CASE b # a
        <4>1. b \in DOMAIN attempts /\ Active(b) /\ TaskOf(b) # t /\ TaskOf(b) \in Tasks
          BY <1>1, <1>7, <2>2, <3>2, RowFields
        <4>2. task'[TaskOf(b)] = task[TaskOf(b)] /\ attempts'[b] = attempts[b]
          BY <1>1, <1>6, <4>1
        <4> QED BY <1>1, <1>3, <4>1, <4>2
                DEF Ownership, Fencing, Fenced, ActiveIsLatest, HubOpen, t
      <3> QED BY <3>1, <3>2
    <2>3. ASSUME NEW b \in DOMAIN attempts', NEW c \in DOMAIN attempts',
                 TaskOf(b) = TaskOf(c), b[2] < c[2]
          PROVE  attempts'[b].fence < attempts'[c].fence
      <3>1. CASE b # a /\ c # a
        BY <1>1, <2>3, <3>1 DEF Ownership, Fencing, Fenced
      <3>2. CASE b # a /\ c = a
        <4>1. b \in DOMAIN attempts /\ TaskOf(b) = t
          BY <1>1, <2>3, <3>2 DEF t
        <4>2. attempts[b].fence <= task[t].fence
          BY <4>1 DEF Ownership, Fencing, BehindTask
        <4> QED BY <1>1, <1>2, <1>4, <3>2, <4>1, <4>2, RowFields
      <3>3. CASE b = a
        <4>1. c # a
          BY <1>2, <2>3, <3>3
        <4>2. c \in DOMAIN attempts /\ TaskOf(c) = t
          BY <1>1, <2>3, <3>3, <4>1 DEF t
        <4>3. c[2] < a[2] /\ c[2] \in Nat /\ a[2] \in Nat
          BY <1>2, <1>7, <4>2, RowFields
        <4> QED BY <2>3, <3>3, <4>3
      <3> QED BY <3>1, <3>2, <3>3
    <2> QED BY <2>1, <2>2, <2>3 DEF Fencing, Fenced, BehindTask, ActiveIsLatest
  <1>10. TaskMatchesAttempt'
    <2>1. ASSUME NEW u \in Tasks, task'[u].state = "in_progress"
          PROVE  \E b \in AttemptsOf(u)' : attempts'[b].state = "running"
      BY <1>1, <1>5, <1>6, <2>1 DEF Ownership, TaskMatchesAttempt, AttemptsOf
    <2>2. ASSUME NEW b \in DOMAIN attempts'
          PROVE  /\ attempts'[b].state = "running" =>
                        task'[TaskOf(b)].state \in {"in_progress", "blocked"}
                 /\ attempts'[b].state = "leased" =>
                        task'[TaskOf(b)].state \in {"open", "blocked"}
      <3>1. CASE b = a
        BY <1>4, <1>5, <1>6, <3>1 DEF t
      <3>2. CASE b # a
        <4>1. b \in DOMAIN attempts /\ attempts'[b] = attempts[b]
          BY <1>1, <2>2, <3>2
        <4>2. task'[TaskOf(b)].state = task[TaskOf(b)].state
          BY <1>6, <4>1, RowFields
        <4> QED BY <4>1, <4>2 DEF Ownership, TaskMatchesAttempt
      <3> QED BY <3>1, <3>2
    <2> QED BY <2>1, <2>2 DEF TaskMatchesAttempt
  <1>11. SessionKeepsUp'
    <2> SUFFICES ASSUME NEW b \in DOMAIN attempts'
                 PROVE  /\ attempts'[b].session \in DOMAIN sessions
                        /\ sessions[attempts'[b].session].agent = attempts'[b].agent
                        /\ attempts'[b].generation <= sessions[attempts'[b].session].generation
                        /\ sessions[attempts'[b].session].generation
                               <= agent[attempts'[b].agent].generation
      BY <1>3 DEF SessionKeepsUp
    <2>1. CASE b = a
      <3>1. n \in Nat
        BY <1>5, RowFields
      <3> QED BY <1>4, <1>5, <2>1, <3>1
    <2>2. CASE b # a
      BY <1>1, <2>2 DEF Ownership, SessionKeepsUp
    <2> QED BY <2>1, <2>2
  <1>12. ReviewRestsOnSuccess'
    <2>1. ASSUME NEW u \in Tasks \ Legacy, task'[u].state \in {"awaiting_review", "accepted"}
          PROVE  \E c \in AttemptsOf(u)' : /\ \A b \in AttemptsOf(u)' : b[2] <= c[2]
                                           /\ attempts'[c].state = "succeeded"
                                           /\ attempts'[c].resolved
      <3>1. u # t /\ task'[u] = task[u]
        BY <1>5, <1>6, <2>1
      <3>2. AttemptsOf(u)' = AttemptsOf(u)
        BY <1>1, <3>1 DEF AttemptsOf, t
      <3>3. \A b \in AttemptsOf(u) : attempts'[b] = attempts[b]
        BY <1>1 DEF AttemptsOf
      <3>4. PICK c \in AttemptsOf(u) : /\ \A b \in AttemptsOf(u) : b[2] <= c[2]
                                       /\ attempts[c].state = "succeeded"
                                       /\ attempts[c].resolved
        BY <2>1, <3>1 DEF Ownership, ReviewRestsOnSuccess
      <3> QED BY <3>2, <3>3, <3>4
    <2> QED BY <2>1 DEF ReviewRestsOnSuccess
  <1>13. LegacyReconciledFirst'
    <2>1. ASSUME NEW u \in Tasks, ~task'[u].adopted
          PROVE  AttemptsOf(u)' = {} /\ (task'[u].hold => ~HubOpen')
      <3>1. u # t /\ task'[u] = task[u]
        BY <1>5, <1>6, <2>1
      <3>2. AttemptsOf(u)' = AttemptsOf(u)
        BY <1>1, <3>1 DEF AttemptsOf, t
      <3> QED BY <1>3, <2>1, <3>1, <3>2 DEF Ownership, LegacyReconciledFirst, HubOpen
    <2> QED BY <2>1 DEF LegacyReconciledFirst
  <1>14. History
    BY <1>1, RowFields DEF History, HistoryKept, Active
  <1>15. LateKeeps
    BY <1>1 DEF LateKeeps, Unsettled
  <1> QED BY <1>9, <1>10, <1>11, <1>12, <1>13, <1>14, <1>15 DEF Ownership

------------------------------------------------------------------------------
(* A newer connection takes an Attempt over *)

\* The Attempt is its Task's latest, so that the new fence passes no other; its
\* session, which other Attempts of the Agent may share, moves up with it.
LEMMA RebindKeeps ==
  ASSUME TypeOK, Accounts, Ownership, NEW g \in Agents, NEW n, NEW a, Rebind(g, n, a)
  PROVE  Ownership' /\ History /\ LateKeeps
  <1> DEFINE t == TaskOf(a)
             s == attempts[a].session
             e == Leased(attempts[a])
             row == [e EXCEPT !.generation = n, !.fence = NextFence(t), !.proof = FALSE]
  <1>1. /\ UNCHANGED <<authority, project, agent, effects>>
        /\ attempts' = [attempts EXCEPT ![a] = row]
        /\ sessions' = [sessions EXCEPT ![s].generation = n]
        /\ task' = [task EXCEPT ![t] =
                       Versioned(task[t], task[t].state, task[t].hold, NextFence(t))]
    BY DEF Rebind
  <1>2. /\ a \in DOMAIN attempts /\ Active(a) /\ t \in Tasks
        /\ attempts[a].agent = g /\ n = agent[g].generation
    BY RowFields DEF Rebind, CurrentExecution, Exists, Authenticated
  <1>3. /\ e \in Attempt
        /\ e.agent = attempts[a].agent /\ e.session = s
        /\ e.epoch = attempts[a].epoch /\ e.state = attempts[a].state
        /\ e.resolved = attempts[a].resolved
    <2>1. attempts[a] \in Attempt
      BY <1>2, Rows
    <2> QED BY <2>1, LeasedOwner, LeasedTyped
  <1>4. n \in Nat /\ task[t].fence \in Nat /\ NextFence(t) = task[t].fence + 1
    BY <1>2, RowFields DEF NextFence
  <1> HIDE DEF e
  <1>5. /\ row.agent = attempts[a].agent /\ row.session = s
        /\ row.generation = n /\ row.fence = task[t].fence + 1
        /\ row.epoch = attempts[a].epoch /\ row.state = attempts[a].state
        /\ row.resolved = attempts[a].resolved
    BY <1>3, <1>4 DEF Attempt
  <1> HIDE DEF row
  <1>6. /\ DOMAIN attempts' = DOMAIN attempts /\ attempts'[a] = row
        /\ \A b \in DOMAIN attempts : b # a => attempts'[b] = attempts[b]
    BY <1>1, <1>2, OneAttempt
  <1>7. /\ SameAttempts
        /\ \A b \in DOMAIN attempts : KeptOutcome(b) /\ (Active(b)' <=> Active(b))
    BY <1>5, <1>6 DEF SameAttempts, KeptOutcome, Active, Exists
  <1>8. /\ task'[t].state = task[t].state /\ task'[t].hold = task[t].hold
        /\ task'[t].fence = task[t].fence + 1 /\ task'[t].adopted = task[t].adopted
        /\ \A u \in Tasks : u # t => task'[u] = task[u]
    <2> DEFINE v == Versioned(task[t], task[t].state, task[t].hold, NextFence(t))
    <2>1. /\ v.state = task[t].state /\ v.hold = task[t].hold
          /\ v.fence = task[t].fence + 1 /\ v.adopted = task[t].adopted
      BY <1>2, Rows DEF Versioned, Task, NextFence
    <2> HIDE DEF v
    <2> QED BY <1>1, <1>2, <2>1 DEF TypeOK, v
  <1>9. \A u \in Tasks : /\ task'[u].state = task[u].state
                         /\ task'[u].hold = task[u].hold
                         /\ task'[u].adopted = task[u].adopted
    BY <1>8
  <1>10. \A b \in DOMAIN attempts : Active(b) /\ TaskOf(b) = t => b = a
    BY <1>2 DEF Accounts, OneOutstanding, Outstanding, Exists
  <1>11. /\ s \in DOMAIN sessions /\ sessions[s].agent = g
         /\ attempts[a].generation <= sessions[s].generation
         /\ sessions[s].generation <= n
    BY <1>2 DEF Ownership, SessionKeepsUp
  <1>12. /\ DOMAIN sessions' = DOMAIN sessions
         /\ sessions'[s].agent = g /\ sessions'[s].generation = n
         /\ \A x \in DOMAIN sessions : x # s => sessions'[x] = sessions[x]
    <2>1. sessions[s] \in Session
      BY <1>11 DEF TypeOK
    <2> HIDE DEF s
    <2> QED BY <1>1, <1>11, <2>1 DEF Session
  <1>13. attempts[a].fence <= task[t].fence /\ attempts[a].fence \in Nat
    BY <1>2, RowFields DEF Ownership, Fencing, BehindTask
  <1> HIDE DEF t, s
  <1>14. Fencing'
    <2>1. ASSUME NEW b \in DOMAIN attempts
          PROVE  attempts'[b].fence <= task'[TaskOf(b)].fence
      <3>1. CASE b = a
        BY <1>2, <1>4, <1>5, <1>6, <1>8, <3>1 DEF t
      <3>2. CASE b # a
        BY <1>6, <1>8, <3>2, RowFields DEF Ownership, Fencing, BehindTask
      <3> QED BY <3>1, <3>2
    <2>2. ASSUME NEW b \in DOMAIN attempts, Active(b)'
          PROVE  /\ HubOpen'
                 /\ attempts'[b].epoch = authority'.epoch
                 /\ attempts'[b].fence = task'[TaskOf(b)].fence
      <3>1. CASE b = a
        BY <1>1, <1>2, <1>5, <1>6, <1>8, <3>1 DEF Ownership, Fencing, Fenced, HubOpen, t
      <3>2. CASE b # a
        <4>1. Active(b) /\ TaskOf(b) # t /\ TaskOf(b) \in Tasks
          BY <1>7, <1>10, <2>2, <3>2, RowFields
        <4>2. task'[TaskOf(b)] = task[TaskOf(b)] /\ attempts'[b] = attempts[b]
          BY <1>6, <1>8, <3>2, <4>1
        <4> QED BY <1>1, <4>1, <4>2 DEF Ownership, Fencing, Fenced, HubOpen
      <3> QED BY <3>1, <3>2
    <2>3. ASSUME NEW b \in DOMAIN attempts, NEW c \in DOMAIN attempts,
                 TaskOf(b) = TaskOf(c), b[2] < c[2]
          PROVE  attempts'[b].fence < attempts'[c].fence
      <3>1. attempts[b].fence < attempts[c].fence
        BY <2>3 DEF Ownership, Fencing, Fenced
      <3>2. CASE b # a /\ c # a
        BY <1>6, <3>1, <3>2
      <3>3. CASE c = a /\ b # a
        BY <1>4, <1>5, <1>6, <1>13, <3>1, <3>3, RowFields
      <3>4. CASE b = a
        <4>1. c[2] <= a[2]
          BY <1>2, <2>3, <3>4 DEF Ownership, Fencing, ActiveIsLatest
        <4>2. c[2] \in 1..MaxAttempts /\ a[2] \in 1..MaxAttempts
          BY <1>2, RowFields
        <4>3. c[2] \in Int /\ a[2] \in Int
          BY <4>2
        <4> QED BY <2>3, <3>4, <4>1, <4>3
      <3> QED BY <3>2, <3>3, <3>4
    <2>4. ActiveIsLatest'
      BY <1>6, <1>7 DEF Ownership, Fencing, ActiveIsLatest
    <2> QED BY <1>6, <2>1, <2>2, <2>3, <2>4 DEF Fencing, Fenced, BehindTask
  <1>15. TaskMatchesAttempt'
    BY <1>7, <1>9, RowFields, MatchKept DEF Ownership, KeptOutcome, AttemptsOf
  <1>16. SessionKeepsUp'
    <2> SUFFICES ASSUME NEW b \in DOMAIN attempts
                 PROVE  /\ attempts'[b].session \in DOMAIN sessions'
                        /\ sessions'[attempts'[b].session].agent = attempts'[b].agent
                        /\ attempts'[b].generation <= sessions'[attempts'[b].session].generation
                        /\ sessions'[attempts'[b].session].generation
                               <= agent'[attempts'[b].agent].generation
      BY <1>6 DEF SessionKeepsUp
    <2>1. CASE b = a
      BY <1>1, <1>2, <1>4, <1>5, <1>6, <1>11, <1>12, <2>1
    <2>2. CASE b # a /\ attempts[b].session = s
      <3>1. attempts[b].agent = g /\ attempts[b].generation <= sessions[s].generation
        BY <1>11, <2>2 DEF Ownership, SessionKeepsUp
      <3>2. attempts[b].generation <= n
        BY <1>4, <1>11, <3>1, RowFields
      <3> QED BY <1>1, <1>2, <1>4, <1>6, <1>11, <1>12, <2>2, <3>1, <3>2
    <2>3. CASE b # a /\ attempts[b].session # s
      BY <1>1, <1>6, <1>12, <2>3 DEF Ownership, SessionKeepsUp
    <2> QED BY <2>1, <2>2, <2>3
  <1>17. ReviewRestsOnSuccess'
    BY <1>7, <1>9, ReviewKept DEF Ownership, AttemptsOf
  <1>18. LegacyReconciledFirst'
    BY <1>1, <1>7, <1>9, LegacyKept DEF Ownership, HubOpen
  <1>19. History
    <2>1. ASSUME NEW b \in DOMAIN attempts
          PROVE  HistoryKept(b)
      <3>1. attempts'[b].fence >= attempts[b].fence
        BY <1>4, <1>5, <1>6, <1>13, RowFields
      <3>2. attempts'[b].generation >= attempts[b].generation
        BY <1>4, <1>5, <1>6, <1>11, RowFields
      <3> QED BY <1>7, <3>1, <3>2 DEF HistoryKept, KeptOutcome, SameAttempts, Active, Exists
    <2> QED BY <2>1 DEF History
  <1>20. LateKeeps
    BY <1>9, RowFields DEF LateKeeps
  <1> QED BY <1>14, <1>15, <1>16, <1>17, <1>18, <1>19, <1>20 DEF Ownership

------------------------------------------------------------------------------
(* The inductive invariant, and what it gives *)

\* No Attempt exists, and only the Tasks mapped from historical rows wait.
LEMMA InitOwnership == Init => Ownership
  <1> SUFFICES ASSUME Init
               PROVE  Ownership
    OBVIOUS
  <1>1. /\ DOMAIN attempts = {} /\ ~HubOpen
        /\ \A t \in Tasks : /\ AttemptsOf(t) = {}
                            /\ task[t].adopted <=> t \notin Legacy
                            /\ task[t] \in Mapped \cup {Native}
    BY DEF Init, HubOpen, AttemptsOf
  <1>2. \A t \in Tasks \ Legacy : task[t].state = "open"
    <2>1. \A r \in Mapped : ~r.adopted
      BY DEF Mapped, Native
    <2> QED BY <1>1, <2>1 DEF Native
  <1>3. \A t \in Tasks : task[t].state # "in_progress"
    <2>1. /\ \A st : [Native EXCEPT !.state = st, !.adopted = FALSE].state = st
          /\ [Native EXCEPT !.state = "blocked", !.adopted = FALSE, !.hold = TRUE].state = "blocked"
          /\ Native.state = "open"
      BY DEF Native
    <2>2. \A r \in Mapped \cup {Native} : r.state # "in_progress"
      BY <2>1 DEF Mapped
    <2> QED BY <1>1, <2>2
  <1>4. Fencing
    BY <1>1 DEF Fencing, Fenced, BehindTask, ActiveIsLatest
  <1>5. TaskMatchesAttempt
    BY <1>1, <1>3 DEF TaskMatchesAttempt
  <1>6. SessionKeepsUp
    BY <1>1 DEF SessionKeepsUp
  <1>7. ReviewRestsOnSuccess
    BY <1>1, <1>2 DEF ReviewRestsOnSuccess
  <1>8. LegacyReconciledFirst
    BY <1>1 DEF LegacyReconciledFirst
  <1> QED BY <1>4, <1>5, <1>6, <1>7, <1>8 DEF Ownership

\* Every step leaves ownership in order and takes nothing back.
LEMMA NextOwnership ==
  TypeOK /\ Accounts /\ Ownership /\ [Next]_vars => Ownership' /\ History /\ LateKeeps
  <1> SUFFICES ASSUME TypeOK, Accounts, Ownership, [Next]_vars
               PROVE  Ownership' /\ History /\ LateKeeps
    OBVIOUS
  <1>1. CASE SteadyStep
    BY <1>1, SteadySteps, SteadyKeeps
  <1>2. CASE Activate
    BY <1>2, ActivateKeeps
  <1>3. CASE Close
    BY <1>3, CloseCutsOff, CutOffKeeps
  <1>4. ASSUME NEW t \in Tasks, NEW to \in TaskState, TransitionTask(t, to)
        PROVE  Ownership' /\ History /\ LateKeeps
    <2> DEFINE S == {b \in DOMAIN attempts : ClosedBy(t, to, b)}
    <2>1. CutOff(S)
      BY <1>4, TransitionCutsOff
    <2> HIDE DEF S
    <2> QED BY <2>1, CutOffKeeps
  <1>5. ASSUME NEW t \in Tasks, NEW kind \in {"review", "acceptance"},
               NEW verdict \in {"approve", "reject"}, Decide(t, kind, verdict)
        PROVE  Ownership' /\ History /\ LateKeeps
    BY <1>5, DecideKeeps
  <1>6. ASSUME NEW g \in Agents, NEW n \in 1..MaxGeneration, NEW s \in Sessions,
               NEW a \in AttemptId, Claim(g, n, s, a)
        PROVE  Ownership' /\ History /\ LateKeeps
    BY <1>6, ClaimKeeps
  <1>7. ASSUME NEW g \in Agents, NEW n \in 1..MaxGeneration, NEW a \in AttemptId,
               Start(g, n, a) \/ Rebind(g, n, a)
        PROVE  Ownership' /\ History /\ LateKeeps
    BY <1>7, StartKeeps, RebindKeeps
  <1>8. ASSUME NEW g \in Agents, NEW n \in 1..MaxGeneration, NEW a \in AttemptId,
               NEW outcome \in {"succeeded", "failed"}, NEW resolved \in BOOLEAN,
               Report(g, n, a, outcome, resolved)
        PROVE  Ownership' /\ History /\ LateKeeps
    BY <1>8, ReportEnds, OneEndsKeeps
  <1>9. ASSUME NEW a \in AttemptId, Resolve(a) \/ Expire(a)
        PROVE  Ownership' /\ History /\ LateKeeps
    BY <1>9, ResolveEnds, ExpireEnds, OneEndsKeeps
  <1>10. ASSUME ~SteadyStep
         PROVE  \/ Activate \/ Close
                \/ \E t \in Tasks, to \in TaskState : TransitionTask(t, to)
                \/ \E t \in Tasks, kind \in {"review", "acceptance"},
                      verdict \in {"approve", "reject"} : Decide(t, kind, verdict)
                \/ \E g \in Agents, n \in 1..MaxGeneration, s \in Sessions, a \in AttemptId :
                       Claim(g, n, s, a)
                \/ \E g \in Agents, n \in 1..MaxGeneration, a \in AttemptId :
                       Start(g, n, a) \/ Rebind(g, n, a)
                \/ \E g \in Agents, n \in 1..MaxGeneration, a \in AttemptId,
                      outcome \in {"succeeded", "failed"}, resolved \in BOOLEAN :
                       Report(g, n, a, outcome, resolved)
                \/ \E a \in AttemptId : Resolve(a) \/ Expire(a)
    BY <1>10 DEF Next, Operate, Manage, Work, Evidence, SteadyStep
  <1> QED
    BY <1>1, <1>2, <1>3, <1>4, <1>5, <1>6, <1>7, <1>8, <1>9, <1>10

\* Ownership is in order in every reachable state.
LEMMA OwnershipKept == Spec => []Ownership
  BY TypeCorrect, AccountsKept, InitOwnership, NextOwnership, PTL DEF Spec

\* An active Attempt carries the authority's epoch and its Task's latest fence,
\* and every former Attempt of the Task carries a lower one, whatever claims,
\* takeovers, closures and reopenings happened between.
THEOREM FencesOrder == Spec => []Fenced
  <1>1. Ownership => Fenced
    BY DEF Ownership, Fencing
  <1> QED BY <1>1, OwnershipKept, PTL

\* A Task in progress has a running Attempt, and the Task of an active Attempt
\* is in the state its Attempt put it in or was blocked by a manager: no report,
\* expiry, evidence, decision or transition leaves the two rows apart.
THEOREM TaskAndAttemptAgree == Spec => []TaskMatchesAttempt
  <1>1. Ownership => TaskMatchesAttempt
    BY DEF Ownership
  <1> QED BY <1>1, OwnershipKept, PTL

\* Taking one Attempt over moves the session other Attempts share with it, and
\* never past the Agent's connection nor behind an Attempt it serves.
THEOREM SessionsKeepUp == Spec => []SessionKeepsUp
  <1>1. Ownership => SessionKeepsUp
    BY DEF Ownership
  <1> QED BY <1>1, OwnershipKept, PTL

\* Work comes to review and acceptance only on the strength of the Task's latest
\* Attempt, which succeeded with its effects resolved.
THEOREM ReviewsRestOnSuccess == Spec => []ReviewRestsOnSuccess
  <1>1. Ownership => ReviewRestsOnSuccess
    BY DEF Ownership
  <1> QED BY <1>1, OwnershipKept, PTL

\* A Task mapped from a historical row runs nothing before its adoption, and one
\* that is held for reconciliation keeps the platform closed until then.
THEOREM LegacyFirst == Spec => []LegacyReconciledFirst
  <1>1. Ownership => LegacyReconciledFirst
    BY DEF Ownership
  <1> QED BY <1>1, OwnershipKept, PTL

\* Terminal outcomes and evidence are immutable, fences and generations only
\* rise, and an execution never ends with effects unknown and its Task claimable.
THEOREM HistoryKeeps == Spec => HistoryIsKept
  <1>1. TypeOK /\ Accounts /\ Ownership /\ [Next]_vars =>
            [\A a \in DOMAIN attempts : HistoryKept(a)]_vars
    BY NextOwnership DEF History
  <1> QED BY <1>1, TypeCorrect, AccountsKept, OwnershipKept, PTL DEF Spec, HistoryIsKept

\* Evidence about an Attempt that had already ended leaves the state of its Task
\* alone: a Task in progress never has an unsettled Attempt beside its own.
THEOREM LateEvidence == Spec => LateEvidenceKeepsState
  <1>1. TypeOK /\ Accounts /\ Ownership /\ [Next]_vars =>
            [\A a \in DOMAIN attempts :
                 Unsettled(a) /\ attempts'[a].resolved =>
                     task'[TaskOf(a)].state = task[TaskOf(a)].state]_vars
    BY NextOwnership DEF LateKeeps
  <1> QED BY <1>1, TypeCorrect, AccountsKept, OwnershipKept, PTL
          DEF Spec, LateEvidenceKeepsState

=============================================================================
