--------------------------- MODULE ExecutionProofs ---------------------------
(***************************************************************************)
(* Proofs about Execution, for every set of Tasks, Agents, Sessions and    *)
(* Projects and every value of the deadlines and bounds: type correctness, *)
(* the accounts of a Task, and the abstract lease they implement.          *)
(***************************************************************************)
EXTENDS Execution, TLAPS

------------------------------------------------------------------------------
(* Type correctness *)

\* The initial database, with native and mapped Tasks, is well typed.
LEMMA InitTyped == Init => TypeOK
  <1>1. Native \in Task
    BY DEF Native, Task, TaskState
  <1>2. Mapped \subseteq Task
    <2>1. ASSUME NEW st \in TaskState
          PROVE  [Native EXCEPT !.state = st, !.adopted = FALSE] \in Task
      BY <1>1 DEF Task
    <2>2. [Native EXCEPT !.state = "blocked", !.adopted = FALSE, !.hold = TRUE] \in Task
      BY <1>1 DEF Task, TaskState
    <2> QED BY <2>1, <2>2 DEF Mapped, TaskState
  <1>3. {[generation |-> 0, connected |-> FALSE, capacity |-> c] : c \in Capacities}
            \subseteq Agent
    <2>1. \A c \in Capacities :
              [generation |-> 0, connected |-> FALSE, capacity |-> c] \in Agent
      BY AgentsAssumption DEF Agent
    <2> QED BY <2>1
  <1>4. Init => task \in [Tasks -> Task] /\ agent \in [Agents -> Agent]
    BY <1>1, <1>2, <1>3 DEF Init
  <1>5. Init => /\ DOMAIN attempts = {} /\ attempts \in [DOMAIN attempts -> Attempt]
                /\ DOMAIN sessions = {} /\ sessions \in [DOMAIN sessions -> Session]
    BY DEF Init
  <1> QED
    BY <1>4, <1>5 DEF Init, TypeOK

\* How the helpers that rewrite a row keep it a row.
LEMMA VersionedTyped ==
  ASSUME NEW r \in Task, NEW st \in TaskState, NEW h \in BOOLEAN, NEW k \in Nat
  PROVE  Versioned(r, st, h, k) \in Task
  BY DEF Versioned, Task

\* Ending an Attempt keeps its row a row.
LEMMA EndedTyped ==
  ASSUME NEW r \in Attempt, NEW st \in AttemptState
  PROVE  Ended(r, st) \in Attempt
  BY DEF Ended, Attempt

\* A capped lease is a natural number, whatever is left of the deadline.
LEMMA LeasedTyped ==
  ASSUME NEW r \in Attempt
  PROVE  Leased(r) \in Attempt
  <1> DEFINE lease == Least(LeaseTTL, r.execution)
             kept == r.proof /\ lease = r.lease /\ lease = r.execution
  <1>1. lease \in Nat
    BY DeadlineAssumption DEF Least, Attempt
  <1>2. kept \in BOOLEAN
    OBVIOUS
  <1>3. Leased(r) = [r EXCEPT !.lease = lease, !.proof = kept]
    BY DEF Leased
  <1> HIDE DEF lease, kept
  <1> QED BY <1>1, <1>2, <1>3 DEF Attempt

\* Time never takes a deadline below zero.
LEMMA AgedTyped ==
  ASSUME NEW r \in Attempt
  PROVE  Aged(r) \in Attempt
  <1>1. /\ Elapse(r.lease) \in Nat
        /\ Elapse(r.start) \in Nat
        /\ Elapse(r.execution) \in Nat
    BY DEF Elapse, Attempt
  <1> QED BY <1>1 DEF Aged, Attempt

\* What the type invariant says of a single row.
LEMMA Rows ==
  ASSUME TypeOK
  PROVE  /\ \A t \in Tasks : /\ task[t] \in Task
                             /\ task[t].state \in TaskState
                             /\ task[t].hold \in BOOLEAN
                             /\ task[t].fence \in Nat
                             /\ NextFence(t) \in Nat
         /\ \A a \in DOMAIN attempts : attempts[a] \in Attempt /\ TaskOf(a) \in Tasks
  <1>1. \A t \in Tasks : task[t] \in Task
    BY DEF TypeOK
  <1>2. ASSUME NEW r \in Task
        PROVE  r.state \in TaskState /\ r.hold \in BOOLEAN /\ r.fence \in Nat
    BY DEF Task
  <1>3. \A k \in Nat : k + 1 \in Nat
    OBVIOUS
  <1>4. \A a \in DOMAIN attempts : attempts[a] \in Attempt /\ TaskOf(a) \in Tasks
    BY DEF TypeOK, AttemptId, TaskOf
  <1> QED BY <1>1, <1>2, <1>3, <1>4 DEF NextFence

\* A step that leaves every other table alone keeps the types when the Tasks and
\* the Attempts it writes are typed.
LEMMA TypedByTables ==
  ASSUME TypeOK, UNCHANGED <<authority, project, sessions, agent, effects>>,
         task' \in [Tasks -> Task],
         attempts' \in [DOMAIN attempts -> Attempt]
  PROVE  TypeOK'
  BY DEF TypeOK

\* Every step keeps the tables well typed, one case per action.
LEMMA NextTyped == TypeOK /\ [Next]_vars => TypeOK'
  <1>1. ASSUME TypeOK, Activate PROVE TypeOK'
    BY <1>1 DEF TypeOK, Activate
  <1>2. ASSUME TypeOK, Close PROVE TypeOK'
    <2>1. ASSUME NEW t \in Tasks
          PROVE  Versioned(task[t], "blocked", TRUE, NextFence(t)) \in Task
      BY <1>2, Rows, VersionedTyped DEF TaskState
    <2>2. task' \in [Tasks -> Task]
      BY <1>2, <2>1, Rows DEF Close
    <2>3. attempts' \in [DOMAIN attempts -> Attempt]
      BY <1>2, EndedTyped, Rows DEF Close, AttemptState
    <2>4. authority' \in [owner: {"none", "hub"}, epoch: Nat]
      BY <1>2 DEF Close, TypeOK
    <2> QED BY <1>2, <2>2, <2>3, <2>4 DEF TypeOK, Close
  <1>3. ASSUME TypeOK, NEW g \in Agents, Connect(g) PROVE TypeOK'
    <2>1. agent[g].generation + 1 \in Nat
      BY <1>3 DEF TypeOK, Agent
    <2>2. agent' \in [Agents -> Agent]
      BY <1>3, <2>1 DEF TypeOK, Connect, Agent
    <2> QED BY <1>3, <2>2 DEF TypeOK, Connect
  <1>4. ASSUME TypeOK, NEW g \in Agents, RevokeCredential(g) PROVE TypeOK'
    BY <1>4 DEF TypeOK, RevokeCredential, Agent
  <1>5. ASSUME TypeOK, NEW g \in Agents, NEW c \in Capacities, SetCapacity(g, c)
        PROVE  TypeOK'
    BY <1>5, AgentsAssumption DEF TypeOK, SetCapacity, Agent
  <1>6. ASSUME TypeOK, NEW p \in Projects, NEW to \in {"active", "paused", "archived"},
               TransitionProject(p, to)
        PROVE  TypeOK'
    BY <1>6 DEF TypeOK, TransitionProject
  <1>7. ASSUME TypeOK, NEW t \in Tasks, NEW to \in TaskState, TransitionTask(t, to)
        PROVE  TypeOK'
    <2> DEFINE inv == Invalidates(t, to)
               row == Versioned(task[t], to, task[t].hold \/ inv,
                                IF inv THEN NextFence(t) ELSE task[t].fence)
    <2>1. row \in Task
      <3>1. task[t].hold \/ inv \in BOOLEAN
        BY <1>7, Rows DEF Invalidates
      <3> QED BY <1>7, <3>1, Rows, VersionedTyped
    <2>2. task' = [task EXCEPT ![t] = row]
      BY <1>7 DEF TransitionTask
    <2>3. task' \in [Tasks -> Task]
      BY <1>7, <2>1, <2>2 DEF TypeOK
    <2>4. attempts' \in [DOMAIN attempts -> Attempt]
      BY <1>7, EndedTyped, Rows DEF TransitionTask, AttemptState
    <2> QED BY <1>7, <2>3, <2>4, TypedByTables DEF TransitionTask
  <1>8. ASSUME TypeOK, NEW t \in Tasks, Adopt(t) PROVE TypeOK'
    <2>1. Versioned(task[t], task[t].state, FALSE, task[t].fence) \in Task
      BY <1>8, Rows, VersionedTyped
    <2>2. task' \in [Tasks -> Task]
      BY <1>8, <2>1 DEF Adopt, TypeOK, Task
    <2> QED BY <1>8, <2>2 DEF Adopt, TypeOK
  <1>9. ASSUME TypeOK, NEW t \in Tasks, Update(t) PROVE TypeOK'
    <2>1. Versioned(task[t], task[t].state, task[t].hold, task[t].fence) \in Task
      BY <1>9, Rows, VersionedTyped
    <2>2. task' \in [Tasks -> Task]
      BY <1>9, <2>1 DEF Update, TypeOK
    <2> QED BY <1>9, <2>2 DEF Update, TypeOK
  <1>10. ASSUME TypeOK, NEW t \in Tasks, NEW kind \in {"review", "acceptance"},
                NEW verdict \in {"approve", "reject"}, Decide(t, kind, verdict)
         PROVE  TypeOK'
    <2>1. Decided(kind, verdict) \in TaskState
      BY DEF Decided, TaskState
    <2>2. Versioned(task[t], Decided(kind, verdict), task[t].hold, task[t].fence) \in Task
      BY <1>10, <2>1, Rows, VersionedTyped
    <2>3. task' \in [Tasks -> Task]
      BY <1>10, <2>2 DEF Decide, TypeOK, Task
    <2> QED BY <1>10, <2>3 DEF Decide, TypeOK
  <1>11. ASSUME TypeOK, NEW g \in Agents, NEW n \in 1..MaxGeneration, NEW s \in Sessions,
                NEW p \in Projects, OpenSession(g, n, s, p)
         PROVE  TypeOK'
    <2>1. [agent |-> g, project |-> p, generation |-> n] \in Session
      BY DEF Session
    <2>2. sessions' \in [DOMAIN sessions \cup {s} -> Session]
      BY <1>11, <2>1 DEF OpenSession, TypeOK
    <2> QED BY <1>11, <2>2 DEF OpenSession, TypeOK
  <1>12. ASSUME TypeOK, NEW g \in Agents, NEW n \in 1..MaxGeneration, NEW s \in Sessions,
                NEW a \in AttemptId, Claim(g, n, s, a)
         PROVE  TypeOK'
    <2> DEFINE row == [agent |-> g, session |-> s, generation |-> n, state |-> "leased",
                       fence |-> NextFence(TaskOf(a)), epoch |-> authority.epoch,
                       resolved |-> FALSE, lease |-> LeaseTTL, start |-> StartTTL,
                       execution |-> ExecTTL, proof |-> FALSE]
    <2>1. TaskOf(a) \in Tasks
      BY DEF AttemptId, TaskOf
    <2>2. row \in Attempt
      <3>1. NextFence(TaskOf(a)) \in Nat /\ authority.epoch \in Nat
        BY <1>12, <2>1, Rows DEF TypeOK
      <3> QED BY <3>1, DeadlineAssumption DEF Attempt, AttemptState, ActiveStates
    <2>3. attempts' = [x \in DOMAIN attempts \cup {a} |-> IF x = a THEN row ELSE attempts[x]]
      BY <1>12 DEF Claim
    <2>4. attempts' \in [DOMAIN attempts \cup {a} -> Attempt]
      BY <1>12, <2>2, <2>3 DEF TypeOK
    <2>5. Versioned(task[TaskOf(a)], task[TaskOf(a)].state, task[TaskOf(a)].hold,
                    NextFence(TaskOf(a))) \in Task
      BY <1>12, <2>1, Rows, VersionedTyped
    <2>6. task' \in [Tasks -> Task]
      BY <1>12, <2>5 DEF Claim, TypeOK
    <2> QED BY <1>12, <2>4, <2>6 DEF Claim, TypeOK
  <1>13. ASSUME TypeOK, NEW g \in Agents, NEW n \in 1..MaxGeneration, NEW a \in AttemptId,
                ReadProof(g, n, a)
         PROVE  TypeOK'
    <2>1. a \in DOMAIN attempts
      BY <1>13 DEF ReadProof, Owns, Exists
    <2>2. [attempts[a] EXCEPT !.proof = TRUE] \in Attempt
      BY <1>13, <2>1, Rows DEF Attempt
    <2>3. attempts' \in [DOMAIN attempts -> Attempt]
      BY <1>13, <2>2 DEF ReadProof, TypeOK
    <2> QED BY <1>13, <2>3 DEF ReadProof, TypeOK
  <1>14. ASSUME TypeOK, NEW g \in Agents, NEW n \in 1..MaxGeneration, NEW a \in AttemptId,
                Start(g, n, a)
         PROVE  TypeOK'
    <2>1. a \in DOMAIN attempts
      BY <1>14 DEF Start, Proven, Owns, Exists
    <2>2. Versioned(task[TaskOf(a)], "in_progress", task[TaskOf(a)].hold,
                    task[TaskOf(a)].fence) \in Task
      BY <1>14, <2>1, Rows, VersionedTyped DEF TaskState
    <2>3. task' \in [Tasks -> Task]
      BY <1>14, <2>2 DEF Start, TypeOK
    <2>4. attempts' \in [DOMAIN attempts -> Attempt]
      <3>1. [attempts[a] EXCEPT !.state = "running"] \in Attempt
        BY <1>14, <2>1, Rows DEF Attempt, AttemptState, ActiveStates
      <3> QED BY <1>14, <3>1 DEF Start, TypeOK
    <2> QED BY <1>14, <2>3, <2>4, TypedByTables DEF Start
  <1>15. ASSUME TypeOK, NEW g \in Agents, NEW n \in 1..MaxGeneration, NEW a \in AttemptId,
                Renew(g, n, a)
         PROVE  TypeOK'
    <2>1. Leased(attempts[a]) \in Attempt
      BY <1>15, Rows, LeasedTyped DEF Renew, Proven, Owns, Exists
    <2>2. attempts' \in [DOMAIN attempts -> Attempt]
      BY <1>15, <2>1 DEF Renew, TypeOK
    <2> QED BY <1>15, <2>2 DEF Renew, TypeOK
  <1>16. ASSUME TypeOK, NEW g \in Agents, NEW n \in 1..MaxGeneration, NEW a \in AttemptId,
                NEW outcome \in {"succeeded", "failed"}, NEW resolved \in BOOLEAN,
                Report(g, n, a, outcome, resolved)
         PROVE  TypeOK'
    <2>1. a \in DOMAIN attempts
      BY <1>16 DEF Report, Proven, Owns, Exists
    <2>2. Ended(attempts[a], outcome) \in Attempt
      BY <1>16, <2>1, Rows, EndedTyped DEF AttemptState
    <2>3. [Ended(attempts[a], outcome) EXCEPT !.resolved = resolved] \in Attempt
      BY <2>2 DEF Attempt
    <2>4. attempts' \in [DOMAIN attempts -> Attempt]
      BY <1>16, <2>3 DEF Report, TypeOK
    <2>5. ReportState(outcome, resolved) \in TaskState
      BY DEF ReportState, TaskState
    <2>6. Versioned(task[TaskOf(a)], ReportState(outcome, resolved), ~resolved,
                    task[TaskOf(a)].fence) \in Task
      BY <1>16, <2>1, <2>5, Rows, VersionedTyped
    <2>7. task' \in [Tasks -> Task]
      BY <1>16, <2>6 DEF Report, TypeOK
    <2> QED BY <1>16, <2>4, <2>7, TypedByTables DEF Report
  <1>17. ASSUME TypeOK, NEW g \in Agents, NEW n \in 1..MaxGeneration, NEW a \in AttemptId,
                Rebind(g, n, a)
         PROVE  TypeOK'
    <2>1. a \in DOMAIN attempts
      BY <1>17 DEF Rebind, Exists
    <2>2. Leased(attempts[a]) \in Attempt /\ NextFence(TaskOf(a)) \in Nat
      BY <1>17, <2>1, Rows, LeasedTyped
    <2>3. [Leased(attempts[a]) EXCEPT !.generation = n,
                                      !.fence = NextFence(TaskOf(a)),
                                      !.proof = FALSE] \in Attempt
      <3>1. n \in Nat
        BY AgentsAssumption
      <3> QED BY <2>2, <3>1 DEF Attempt
    <2>4. attempts' \in [DOMAIN attempts -> Attempt]
      <3> DEFINE row == [Leased(attempts[a]) EXCEPT !.generation = n,
                                                    !.fence = NextFence(TaskOf(a)),
                                                    !.proof = FALSE]
      <3>1. attempts' = [attempts EXCEPT ![a] = row]
        BY <1>17 DEF Rebind
      <3>2. row \in Attempt
        BY <2>3
      <3> HIDE DEF row
      <3> QED BY <1>17, <3>1, <3>2 DEF TypeOK
    <2>5. Versioned(task[TaskOf(a)], task[TaskOf(a)].state, task[TaskOf(a)].hold,
                    NextFence(TaskOf(a))) \in Task
      BY <1>17, <2>1, Rows, VersionedTyped
    <2>6. task' \in [Tasks -> Task]
      BY <1>17, <2>5 DEF Rebind, TypeOK
    <2>7. sessions' \in [DOMAIN sessions -> Session]
      <3> DEFINE s == attempts[a].session
                 row == [sessions[s] EXCEPT !.generation = n]
      <3>1. sessions' = [sessions EXCEPT ![s] = row]
        BY <1>17 DEF Rebind
      <3>2. ASSUME s \in DOMAIN sessions PROVE row \in Session
        <4>1. sessions[s] \in Session
          BY <1>17, <3>2 DEF TypeOK
        <4>2. n \in Nat
          BY AgentsAssumption
        <4> QED BY <4>1, <4>2 DEF Session
      <3> HIDE DEF row, s
      <3> QED BY <1>17, <3>1, <3>2 DEF TypeOK
    <2> QED BY <1>17, <2>4, <2>6, <2>7 DEF Rebind, TypeOK
  <1>18. ASSUME TypeOK, NEW g \in Agents, NEW n \in 1..MaxGeneration, NEW a \in AttemptId,
                RecordEffect(g, n, a)
         PROVE  TypeOK'
    BY <1>18 DEF TypeOK, RecordEffect, OwnsRuntime, Owns, Exists
  <1>19. ASSUME TypeOK, NEW a \in AttemptId, Resolve(a) PROVE TypeOK'
    <2> DEFINE st == IF Active(a) THEN "released" ELSE attempts[a].state
               held == \E b \in AttemptsOf(TaskOf(a)) \ {a} : ~attempts[b].resolved
               to == EvidenceState(task[TaskOf(a)].state)
    <2>1. a \in DOMAIN attempts
      BY <1>19 DEF Resolve, Exists
    <2>2. Ended(attempts[a], st) \in Attempt
      <3>1. attempts[a] \in Attempt
        BY <1>19, <2>1, Rows
      <3>2. st \in AttemptState
        BY <3>1 DEF Attempt, AttemptState
      <3> QED BY <3>1, <3>2, EndedTyped
    <2>3. [Ended(attempts[a], st) EXCEPT !.resolved = TRUE] \in Attempt
      BY <2>2 DEF Attempt
    <2>4. attempts' = [attempts EXCEPT ![a] =
                          [Ended(attempts[a], st) EXCEPT !.resolved = TRUE]]
      BY <1>19 DEF Resolve
    <2>5. attempts' \in [DOMAIN attempts -> Attempt]
      BY <1>19, <2>3, <2>4 DEF TypeOK
    <2>6. to \in TaskState
      BY <1>19, <2>1, Rows DEF TaskState, EvidenceState
    <2>7. Versioned(task[TaskOf(a)], to, held, task[TaskOf(a)].fence) \in Task
      BY <1>19, <2>1, <2>6, Rows, VersionedTyped
    <2>8. task' = [task EXCEPT ![TaskOf(a)] =
                      Versioned(task[TaskOf(a)], to, held, task[TaskOf(a)].fence)]
      BY <1>19 DEF Resolve
    <2>9. task' \in [Tasks -> Task]
      BY <1>19, <2>7, <2>8 DEF TypeOK
    <2> QED BY <1>19, <2>5, <2>9, TypedByTables DEF Resolve
  <1>20. ASSUME TypeOK, NEW a \in AttemptId, SettleEffect(a) PROVE TypeOK'
    BY <1>20 DEF TypeOK, SettleEffect
  <1>21. ASSUME TypeOK, NEW a \in AttemptId, Expire(a) PROVE TypeOK'
    <2>1. a \in DOMAIN attempts
      BY <1>21 DEF Expire, Active, Exists
    <2>2. Ended(attempts[a], "expired") \in Attempt
      BY <1>21, <2>1, Rows, EndedTyped DEF AttemptState
    <2>3. attempts' \in [DOMAIN attempts -> Attempt]
      BY <1>21, <2>2 DEF Expire, TypeOK
    <2>4. Versioned(task[TaskOf(a)], "blocked", TRUE, task[TaskOf(a)].fence) \in Task
      BY <1>21, <2>1, Rows, VersionedTyped DEF TaskState
    <2>5. task' \in [Tasks -> Task]
      BY <1>21, <2>4 DEF Expire, TypeOK
    <2> QED BY <1>21, <2>3, <2>5, TypedByTables DEF Expire
  <1>22. ASSUME TypeOK, Tick PROVE TypeOK'
    <2>1. attempts' \in [DOMAIN attempts -> Attempt]
      BY <1>22, Rows, AgedTyped DEF Tick
    <2> QED BY <1>22, <2>1 DEF Tick, TypeOK
  <1>23. ASSUME TypeOK, UNCHANGED vars PROVE TypeOK'
    BY <1>23 DEF vars, TypeOK
  <1>24. ASSUME TypeOK, NEW t \in Tasks, AddArtifact(t) PROVE TypeOK'
    <2>1. Versioned(task[t], task[t].state, task[t].hold, task[t].fence) \in Task
      BY <1>24, Rows, VersionedTyped
    <2>2. task' \in [Tasks -> Task]
      BY <1>24, <2>1 DEF AddArtifact, TypeOK
    <2> QED BY <1>24, <2>2 DEF AddArtifact, TypeOK
  <1> QED
    BY <1>1, <1>2, <1>3, <1>4, <1>5, <1>6, <1>7, <1>8, <1>9, <1>10, <1>11, <1>12, <1>13,
       <1>14, <1>15, <1>16, <1>17, <1>18, <1>19, <1>20, <1>21, <1>22, <1>23, <1>24
    DEF Next, Operate, Manage, Work, Evidence

\* Every row stays within its type, whatever commands run.
THEOREM TypeCorrect == Spec => []TypeOK
  BY InitTyped, NextTyped, PTL DEF Spec

------------------------------------------------------------------------------
(***************************************************************************)
(* The accounts of a Task, for every value of the constants: at most one   *)
(* Attempt of a Task is outstanding, its execution hold says exactly that  *)
(* an ended Attempt is unsettled, and nothing resolved has native effects  *)
(* whose outcome is unknown.                                               *)
(*                                                                         *)
(* None of the three is inductive alone. A claim looks at the hold and at  *)
(* active Attempts only, so OneOutstanding needs HoldIffUnsettled; a report*)
(* overwrites the hold and evidence recomputes it, so HoldIffUnsettled     *)
(* needs OneOutstanding; both need that an active Attempt is unresolved    *)
(* and that a Task which is not adopted never had an Attempt.              *)
(***************************************************************************)

ActiveUnresolved == \A a \in DOMAIN attempts : Active(a) => ~attempts[a].resolved

OnlyAdopted == \A a \in DOMAIN attempts : task[TaskOf(a)].adopted

Accounts ==
    /\ ActiveUnresolved
    /\ OnlyAdopted
    /\ OneOutstanding
    /\ HoldIffUnsettled
    /\ ResolvedIsQuiescent

------------------------------------------------------------------------------
(* What the helpers that rewrite a row leave alone *)

\* Ending an Attempt says nothing of its effects.
LEMMA EndedFields ==
  ASSUME NEW r \in Attempt, NEW st
  PROVE  /\ Ended(r, st).state = st
         /\ Ended(r, st).resolved = r.resolved
  BY DEF Ended, Attempt

\* A new lease changes neither the state nor the evidence.
LEMMA LeasedFields ==
  ASSUME NEW r \in Attempt
  PROVE  /\ Leased(r).state = r.state
         /\ Leased(r).resolved = r.resolved
  BY DEF Leased, Attempt

\* Neither does time.
LEMMA AgedFields ==
  ASSUME NEW r \in Attempt
  PROVE  /\ Aged(r).state = r.state
         /\ Aged(r).resolved = r.resolved
  BY DEF Aged, Attempt

\* A write of a Task sets the hold it is given and keeps the adoption.
LEMMA VersionedFields ==
  ASSUME NEW r \in Task, NEW st, NEW h, NEW k
  PROVE  /\ Versioned(r, st, h, k).hold = h
         /\ Versioned(r, st, h, k).adopted = r.adopted
  BY DEF Versioned, Task

------------------------------------------------------------------------------
(* The steps that open, move or settle no account *)

Untouched ==
    /\ DOMAIN attempts' = DOMAIN attempts
    /\ \A a \in DOMAIN attempts : /\ Active(a)' <=> Active(a)
                                  /\ attempts'[a].resolved = attempts[a].resolved
    /\ \A t \in Tasks : /\ task'[t].hold = task[t].hold
                        /\ task'[t].adopted = task[t].adopted
    /\ \A a \in effects' : a \in effects \/ Active(a)

PlainStep ==
    \/ Activate
    \/ \E g \in Agents : Connect(g) \/ RevokeCredential(g)
    \/ \E g \in Agents, c \in Capacities : SetCapacity(g, c)
    \/ \E p \in Projects, to \in {"active", "paused", "archived"} : TransitionProject(p, to)
    \/ \E t \in Tasks : Update(t) \/ AddArtifact(t)
    \/ \E t \in Tasks, kind \in {"review", "acceptance"}, verdict \in {"approve", "reject"} :
           Decide(t, kind, verdict)
    \/ \E g \in Agents, n \in 1..MaxGeneration :
           \/ \E s \in Sessions, p \in Projects : OpenSession(g, n, s, p)
           \/ \E a \in AttemptId : \/ ReadProof(g, n, a) \/ Start(g, n, a)
                                   \/ Renew(g, n, a) \/ Rebind(g, n, a)
                                   \/ RecordEffect(g, n, a)
    \/ \E a \in AttemptId : SettleEffect(a)
    \/ Tick
    \/ UNCHANGED vars

------------------------------------------------------------------------------
(* Two ways a step keeps the accounts *)

\* No step but a claim makes an Attempt outstanding, so such a step has only to
\* answer for the holds it writes.
LEMMA AccountsOfOldAttempts ==
  ASSUME Accounts,
         DOMAIN attempts' = DOMAIN attempts,
         \A a \in DOMAIN attempts : attempts[a].resolved => attempts'[a].resolved,
         \A a \in DOMAIN attempts : Active(a)' => Active(a) /\ ~attempts'[a].resolved,
         \A a \in DOMAIN attempts : TaskOf(a) \in Tasks,
         \A t \in Tasks : task[t].adopted => task'[t].adopted,
         \A t \in Tasks : task'[t].adopted =>
             (task'[t].hold <=> \E b \in DOMAIN attempts : TaskOf(b) = t /\ Unsettled(b)'),
         \A a \in DOMAIN attempts : a \in effects' => ~attempts'[a].resolved
  PROVE  Accounts'
  <1>1. ActiveUnresolved'
    BY DEF ActiveUnresolved
  <1>2. OnlyAdopted'
    BY DEF Accounts, OnlyAdopted
  <1>3. \A a \in DOMAIN attempts : Outstanding(a)' => Outstanding(a)
    BY DEF Outstanding, Exists
  <1>4. OneOutstanding'
    BY <1>3 DEF Accounts, OneOutstanding
  <1>5. HoldIffUnsettled'
    BY DEF HoldIffUnsettled, AttemptsOf
  <1>6. ResolvedIsQuiescent'
    BY DEF ResolvedIsQuiescent
  <1> QED BY <1>1, <1>2, <1>4, <1>5, <1>6 DEF Accounts

\* A step that moves no account.
LEMMA AccountsUntouched ==
  ASSUME TypeOK, Accounts, Untouched
  PROVE  Accounts'
  <1> USE DEF Untouched
  <1>1. \A a \in DOMAIN attempts : Unsettled(a)' <=> Unsettled(a)
    BY DEF Unsettled, Exists
  <1>2. \A t \in Tasks : task'[t].adopted =>
            (task'[t].hold <=> \E b \in DOMAIN attempts : TaskOf(b) = t /\ Unsettled(b)')
    BY <1>1 DEF Accounts, HoldIffUnsettled, AttemptsOf
  <1>3. \A a \in DOMAIN attempts : a \in effects' => ~attempts'[a].resolved
    BY DEF Accounts, ResolvedIsQuiescent, ActiveUnresolved
  <1>4. \A a \in DOMAIN attempts : Active(a)' => Active(a) /\ ~attempts'[a].resolved
    BY DEF Accounts, ActiveUnresolved
  <1> QED BY <1>2, <1>3, <1>4, Rows, AccountsOfOldAttempts

------------------------------------------------------------------------------
(* Writing one row of a table *)

\* Only the written Task's hold moves.
LEMMA OneTask ==
  ASSUME TypeOK, NEW t \in Tasks, NEW st, NEW h, NEW k,
         task' = [task EXCEPT ![t] = Versioned(task[t], st, h, k)]
  PROVE  /\ task'[t].hold = h
         /\ \A u \in Tasks : /\ task'[u].adopted = task[u].adopted
                             /\ u # t => task'[u].hold = task[u].hold
  BY Rows, VersionedFields DEF TypeOK

\* Only the written Attempt moves.
LEMMA OneAttempt ==
  ASSUME NEW a \in DOMAIN attempts, NEW row,
         attempts' = [attempts EXCEPT ![a] = row]
  PROVE  /\ DOMAIN attempts' = DOMAIN attempts
         /\ attempts'[a] = row
         /\ \A b \in DOMAIN attempts : b # a => attempts'[b] = attempts[b]
         /\ \A b \in DOMAIN attempts : b # a =>
                /\ Active(b)' <=> Active(b)
                /\ Unsettled(b)' <=> Unsettled(b)
  BY DEF Active, Unsettled, Exists

\* An active Attempt ends, or an ended one is settled, and its Task's hold is
\* written as what that leaves unknown.
LEMMA AccountsOfEnding ==
  ASSUME TypeOK, Accounts,
         NEW a \in DOMAIN attempts, NEW row, NEW st, NEW h \in BOOLEAN, NEW k,
         Outstanding(a),
         row.state \notin ActiveStates,
         row.resolved = ~h,
         attempts' = [attempts EXCEPT ![a] = row],
         task' = [task EXCEPT ![TaskOf(a)] = Versioned(task[TaskOf(a)], st, h, k)],
         effects' = effects,
         ~h => a \notin effects
  PROVE  Accounts'
  <1> DEFINE t == TaskOf(a)
  <1>1. t \in Tasks
    BY Rows
  <1>2. ~attempts[a].resolved
    BY DEF Outstanding, Accounts, ActiveUnresolved
  <1>3. DOMAIN attempts' = DOMAIN attempts /\ attempts'[a] = row
    BY OneAttempt
  <1>4. ~Active(a)' /\ (Unsettled(a)' <=> h)
    BY <1>3 DEF Active, Unsettled, Exists
  <1>5. \A b \in DOMAIN attempts : b # a => ~(TaskOf(b) = t /\ Outstanding(b))
    BY DEF Accounts, OneOutstanding
  <1>6. \A b \in DOMAIN attempts : Unsettled(b) => Outstanding(b)
    BY DEF Unsettled, Outstanding
  <1>7. h <=> \E b \in DOMAIN attempts : TaskOf(b) = t /\ Unsettled(b)'
    BY <1>4, <1>5, <1>6, OneAttempt
  <1>8. /\ task'[t].hold = h
        /\ \A u \in Tasks : /\ task'[u].adopted = task[u].adopted
                            /\ u # t => task'[u].hold = task[u].hold
    BY <1>1, OneTask
  <1>9. ASSUME NEW u \in Tasks, task'[u].adopted
        PROVE  task'[u].hold <=> \E b \in DOMAIN attempts : TaskOf(b) = u /\ Unsettled(b)'
    <2>1. CASE u = t
      BY <2>1, <1>7, <1>8
    <2>2. CASE u # t
      <3>1. \A b \in DOMAIN attempts : TaskOf(b) = u => (Unsettled(b)' <=> Unsettled(b))
        BY <2>2, OneAttempt
      <3>2. task[u].hold <=> \E b \in DOMAIN attempts : TaskOf(b) = u /\ Unsettled(b)
        BY <1>8, <1>9 DEF Accounts, HoldIffUnsettled, AttemptsOf
      <3> QED BY <2>2, <3>1, <3>2, <1>8
    <2> QED BY <2>1, <2>2
  <1>10. \A b \in DOMAIN attempts : attempts[b].resolved => attempts'[b].resolved
    BY <1>2, OneAttempt
  <1>11. \A b \in DOMAIN attempts : Active(b)' => Active(b) /\ ~attempts'[b].resolved
    BY <1>4, OneAttempt DEF Accounts, ActiveUnresolved
  <1>12. \A b \in DOMAIN attempts : b \in effects' => ~attempts'[b].resolved
    BY <1>3, OneAttempt DEF Accounts, ResolvedIsQuiescent
  <1> HIDE DEF t
  <1> QED BY <1>3, <1>8, <1>9, <1>10, <1>11, <1>12, Rows, AccountsOfOldAttempts

------------------------------------------------------------------------------
(* Every step keeps the accounts *)

\* At first there are no Attempts and no adopted Task is held.
LEMMA InitAccounts == Init => Accounts
  <1> SUFFICES ASSUME Init PROVE Accounts
    OBVIOUS
  <1>1. DOMAIN attempts = {}
    BY DEF Init
  <1>2. \A t \in Tasks : task[t].adopted => ~task[t].hold
    <2>1. ASSUME NEW t \in Tasks, task[t].adopted PROVE ~task[t].hold
      <3>1. task[t] \in Mapped \/ task[t] = Native
        BY DEF Init
      <3>2. CASE task[t] = Native
        BY <3>2 DEF Native
      <3>3. CASE task[t] \in Mapped
        BY <3>3, <2>1 DEF Mapped, Native
      <3> QED BY <3>1, <3>2, <3>3
    <2> QED BY <2>1
  <1> QED BY <1>1, <1>2 DEF Accounts, ActiveUnresolved, OnlyAdopted, OneOutstanding,
                         HoldIffUnsettled, ResolvedIsQuiescent, AttemptsOf

\* A claim is the only step that opens an account; the hold and the index of
\* active Attempts tell it that the Task has none.
LEMMA ClaimStep ==
  ASSUME TypeOK, Accounts, NEW g, NEW n, NEW s, NEW a \in AttemptId, Claim(g, n, s, a)
  PROVE  /\ a \notin DOMAIN attempts
         /\ DOMAIN attempts' = DOMAIN attempts \cup {a}
         /\ Active(a)' /\ ~attempts'[a].resolved /\ ~Unsettled(a)'
         /\ \A b \in DOMAIN attempts : attempts'[b] = attempts[b]
         /\ \A b \in DOMAIN attempts : /\ Active(b)' <=> Active(b)
                                       /\ Unsettled(b)' <=> Unsettled(b)
                                       /\ Outstanding(b)' <=> Outstanding(b)
         /\ \A b \in DOMAIN attempts : TaskOf(b) = TaskOf(a) => ~Outstanding(b)
  <1> DEFINE t == TaskOf(a)
             row == [agent |-> g, session |-> s, generation |-> n, state |-> "leased",
                     fence |-> NextFence(t), epoch |-> authority.epoch,
                     resolved |-> FALSE, lease |-> LeaseTTL, start |-> StartTTL,
                     execution |-> ExecTTL, proof |-> FALSE]
  <1>1. t \in Tasks
    BY DEF AttemptId, TaskOf
  <1>2. a \notin DOMAIN attempts
    BY DEF Claim, NextNumber, Exists, AttemptId, TaskOf, TypeOK
  <1>3. attempts' = [x \in DOMAIN attempts \cup {a} |->
                        IF x = a THEN row ELSE attempts[x]]
    BY DEF Claim
  <1>4. DOMAIN attempts' = DOMAIN attempts \cup {a} /\ attempts'[a] = row
    BY <1>3
  <1>5. \A b \in DOMAIN attempts : attempts'[b] = attempts[b]
    BY <1>2, <1>3
  <1>6. Active(a)' /\ ~attempts'[a].resolved /\ ~Unsettled(a)'
    BY <1>4 DEF Active, Unsettled, Exists, ActiveStates
  <1>7. \A b \in DOMAIN attempts : /\ Active(b)' <=> Active(b)
                                   /\ Unsettled(b)' <=> Unsettled(b)
                                   /\ Outstanding(b)' <=> Outstanding(b)
    BY <1>4, <1>5 DEF Active, Unsettled, Outstanding, Exists
  <1>8. task[t].adopted /\ ~task[t].hold /\ NoActive(t)
    BY DEF Claim, Claimable, Eligible
  <1>9. \A b \in DOMAIN attempts : TaskOf(b) = t => ~Outstanding(b)
    <2>1. \A b \in DOMAIN attempts : TaskOf(b) = t => ~Unsettled(b) /\ ~Active(b)
      BY <1>1, <1>8 DEF Accounts, HoldIffUnsettled, NoActive, AttemptsOf
    <2> QED BY <2>1 DEF Outstanding, Unsettled
  <1> QED BY <1>2, <1>4, <1>5, <1>6, <1>7, <1>9

\* ... so opening one keeps them in order.
LEMMA ClaimAccounts ==
  ASSUME TypeOK, Accounts, NEW g, NEW n, NEW s, NEW a \in AttemptId, Claim(g, n, s, a)
  PROVE  Accounts'
  <1> DEFINE t == TaskOf(a)
  <1>1. t \in Tasks
    BY DEF AttemptId, TaskOf
  <1>2. a \notin DOMAIN attempts
    BY ClaimStep
  <1>4. DOMAIN attempts' = DOMAIN attempts \cup {a}
    BY ClaimStep
  <1>5. \A b \in DOMAIN attempts : attempts'[b] = attempts[b]
    BY ClaimStep
  <1>6. Active(a)' /\ ~attempts'[a].resolved /\ ~Unsettled(a)'
    BY ClaimStep
  <1>7. \A b \in DOMAIN attempts : /\ Active(b)' <=> Active(b)
                                   /\ Unsettled(b)' <=> Unsettled(b)
                                   /\ Outstanding(b)' <=> Outstanding(b)
    BY ClaimStep
  <1>8. task[t].adopted /\ ~task[t].hold
    BY DEF Claim, Claimable, Eligible
  <1>9. \A b \in DOMAIN attempts : TaskOf(b) = t => ~Outstanding(b)
    BY ClaimStep
  <1>10. \A u \in Tasks : /\ task'[u].hold = task[u].hold
                          /\ task'[u].adopted = task[u].adopted
    <2>1. task' = [task EXCEPT ![t] = Versioned(task[t], task[t].state, task[t].hold,
                                                NextFence(t))]
      BY DEF Claim
    <2> HIDE DEF t
    <2> QED BY <1>1, <2>1, OneTask
  <1>11. effects' = effects /\ a \notin effects
    BY <1>2 DEF Claim, TypeOK
  <1> HIDE DEF t
  <1>12. ActiveUnresolved'
    BY <1>4, <1>5, <1>6, <1>7 DEF Accounts, ActiveUnresolved
  <1>13. OnlyAdopted'
    BY <1>1, <1>4, <1>8, <1>10, Rows DEF t, Accounts, OnlyAdopted
  <1>14. OneOutstanding'
    BY <1>4, <1>7, <1>9 DEF t, Accounts, OneOutstanding
  <1>15. HoldIffUnsettled'
    BY <1>4, <1>6, <1>7, <1>10 DEF Accounts, HoldIffUnsettled, AttemptsOf
  <1>16. ResolvedIsQuiescent'
    BY <1>4, <1>5, <1>11 DEF Accounts, ResolvedIsQuiescent
  <1> QED BY <1>12, <1>13, <1>14, <1>15, <1>16 DEF Accounts

\* A report leaves its Attempt unsettled exactly when it sets the hold.
LEMMA ReportAccounts ==
  ASSUME TypeOK, Accounts, NEW g, NEW n, NEW a, NEW outcome \in {"succeeded", "failed"},
         NEW resolved \in BOOLEAN, Report(g, n, a, outcome, resolved)
  PROVE  Accounts'
  <1> DEFINE row == [Ended(attempts[a], outcome) EXCEPT !.resolved = resolved]
  <1>1. a \in DOMAIN attempts /\ Outstanding(a)
    BY DEF Report, Proven, Owns, Exists, Outstanding, CurrentExecution
  <1>2. attempts[a] \in Attempt /\ outcome \in AttemptState
    BY <1>1, Rows DEF AttemptState
  <1>3. Ended(attempts[a], outcome) \in Attempt
    BY <1>2, EndedTyped
  <1>4. row.state = outcome /\ row.resolved = resolved
    BY <1>2, <1>3, EndedFields DEF Attempt
  <1>5. /\ attempts' = [attempts EXCEPT ![a] = row]
        /\ task' = [task EXCEPT ![TaskOf(a)] =
                       Versioned(task[TaskOf(a)], ReportState(outcome, resolved), ~resolved,
                                 task[TaskOf(a)].fence)]
        /\ effects' = effects
        /\ resolved => a \notin effects
    BY DEF Report, KnownEffectsResolved
  <1>6. row.state \notin ActiveStates /\ row.resolved = ~(~resolved)
    <2>1. row.state \notin ActiveStates
      BY <1>4 DEF ActiveStates
    <2>2. CASE resolved = TRUE
      BY <1>4, <2>1, <2>2
    <2>3. CASE resolved = FALSE
      BY <1>4, <2>1, <2>3
    <2> QED BY <2>2, <2>3
  <1>7. ~(~resolved) => a \notin effects
    BY <1>5
  <1> HIDE DEF row
  <1> QED BY <1>1, <1>5, <1>6, <1>7, AccountsOfEnding

\* The Attempt evidence settles was the only open one, so nothing is held after.
LEMMA ResolveAccounts ==
  ASSUME TypeOK, Accounts, NEW a, Resolve(a)
  PROVE  Accounts'
  <1> DEFINE st == IF Active(a) THEN "released" ELSE attempts[a].state
             row == [Ended(attempts[a], st) EXCEPT !.resolved = TRUE]
             held == \E b \in AttemptsOf(TaskOf(a)) \ {a} : ~attempts[b].resolved
  <1>1. a \in DOMAIN attempts /\ Outstanding(a)
    BY DEF Resolve, Exists, Outstanding
  <1>2. attempts[a] \in Attempt
    BY <1>1, Rows
  <1>3. st \in AttemptState /\ st \notin ActiveStates
    BY <1>1, <1>2 DEF Attempt, AttemptState, Active, Exists, ActiveStates
  <1>4. row.state = st /\ row.resolved = TRUE
    BY <1>2, <1>3, EndedTyped, EndedFields DEF Attempt
  <1>5. held = FALSE
    <2>1. \A b \in AttemptsOf(TaskOf(a)) \ {a} : ~Outstanding(b)
      BY <1>1 DEF Accounts, OneOutstanding, AttemptsOf
    <2>2. \A b \in DOMAIN attempts : ~attempts[b].resolved => Outstanding(b)
      BY DEF Outstanding, Exists
    <2> QED BY <2>1, <2>2 DEF AttemptsOf
  <1>6. attempts' = [attempts EXCEPT ![a] = row]
    BY DEF Resolve
  <1>7. task' = [task EXCEPT ![TaskOf(a)] =
                    Versioned(task[TaskOf(a)], EvidenceState(task[TaskOf(a)].state), FALSE,
                              task[TaskOf(a)].fence)]
    BY <1>5 DEF Resolve
  <1>8. effects' = effects /\ a \notin effects
    BY DEF Resolve, KnownEffectsResolved
  <1> HIDE DEF row, st, held
  <1> QED BY <1>1, <1>3, <1>4, <1>6, <1>7, <1>8, AccountsOfEnding

\* Expiry leaves its Attempt unsettled and the Task held.
LEMMA ExpireAccounts ==
  ASSUME TypeOK, Accounts, NEW a, Expire(a)
  PROVE  Accounts'
  <1> DEFINE row == Ended(attempts[a], "expired")
  <1>1. a \in DOMAIN attempts /\ Outstanding(a) /\ Active(a)
    BY DEF Expire, Active, Exists, Outstanding
  <1>2. row.state = "expired" /\ row.resolved = FALSE
    <2>1. attempts[a].resolved = FALSE
      BY <1>1, Rows DEF Attempt, Accounts, ActiveUnresolved
    <2> QED BY <1>1, <2>1, Rows, EndedFields
  <1>3. /\ attempts' = [attempts EXCEPT ![a] = row]
        /\ task' = [task EXCEPT ![TaskOf(a)] =
                       Versioned(task[TaskOf(a)], "blocked", TRUE, task[TaskOf(a)].fence)]
        /\ effects' = effects
    BY DEF Expire
  <1>4. row.state \notin ActiveStates
    BY <1>2 DEF ActiveStates
  <1> HIDE DEF row
  <1> QED BY <1>1, <1>2, <1>3, <1>4, AccountsOfEnding

\* Closing ends every active Attempt ...
LEMMA CloseStep ==
  ASSUME TypeOK, Accounts, Close
  PROVE  /\ DOMAIN attempts' = DOMAIN attempts
         /\ \A b \in DOMAIN attempts : /\ ~Active(b)'
                                       /\ attempts'[b].resolved = attempts[b].resolved
                                       /\ Unsettled(b)' <=> Unsettled(b) \/ Active(b)
  <1>1. DOMAIN attempts' = DOMAIN attempts
    BY DEF Close
  <1>2. ASSUME NEW b \in DOMAIN attempts
        PROVE  /\ ~Active(b)'
               /\ attempts'[b].resolved = attempts[b].resolved
               /\ Unsettled(b)' <=> Unsettled(b) \/ Active(b)
    <2>1. attempts[b] \in Attempt
      BY <1>2, Rows
    <2>2. CASE Active(b)
      <3>1. attempts'[b] = Ended(attempts[b], "expired")
        BY <2>2, <1>2 DEF Close
      <3>2. attempts'[b].state = "expired" /\ attempts'[b].resolved = attempts[b].resolved
        BY <2>1, <3>1, EndedFields
      <3>3. ~attempts[b].resolved
        BY <1>2, <2>2 DEF Accounts, ActiveUnresolved
      <3> QED BY <1>1, <1>2, <2>2, <3>2, <3>3 DEF Active, Unsettled, Exists, ActiveStates
    <2>3. CASE ~Active(b)
      <3>1. attempts'[b] = attempts[b]
        BY <2>3, <1>2 DEF Close
      <3> QED BY <1>1, <1>2, <2>3, <3>1 DEF Active, Unsettled, Exists
    <2> QED BY <2>2, <2>3
  <1> QED BY <1>1, <1>2

\* ... and holds exactly the Tasks that had one.
LEMMA CloseAccounts ==
  ASSUME TypeOK, Accounts, Close
  PROVE  Accounts'
  <1>1. DOMAIN attempts' = DOMAIN attempts /\ effects' = effects
    BY DEF Close
  <1>2. \A b \in DOMAIN attempts : /\ ~Active(b)'
                                   /\ attempts'[b].resolved = attempts[b].resolved
                                   /\ Unsettled(b)' <=> Unsettled(b) \/ Active(b)
    BY CloseStep
  <1>3. \A u \in Tasks :
            /\ task'[u].adopted = task[u].adopted
            /\ task'[u].hold <=> task[u].hold \/ ~NoActive(u)
    <2>1. ASSUME NEW u \in Tasks
          PROVE  /\ task'[u].adopted = task[u].adopted
                 /\ task'[u].hold <=> task[u].hold \/ ~NoActive(u)
      <3>1. task[u] \in Task
        BY <2>1, Rows
      <3>2. task'[u] = IF NoActive(u) THEN task[u]
                       ELSE Versioned(task[u], "blocked", TRUE, NextFence(u))
        BY DEF Close
      <3>3. CASE NoActive(u)
        BY <3>2, <3>3
      <3>4. CASE ~NoActive(u)
        <4>1. task'[u] = Versioned(task[u], "blocked", TRUE, NextFence(u))
          BY <3>2, <3>4
        <4>2. task'[u].hold = TRUE /\ task'[u].adopted = task[u].adopted
          BY <3>1, <4>1 DEF Versioned, Task
        <4> QED BY <3>4, <4>2
      <3> QED BY <3>3, <3>4
    <2> QED BY <2>1
  <1>4. ASSUME NEW u \in Tasks, task'[u].adopted
        PROVE  task'[u].hold <=> \E b \in DOMAIN attempts : TaskOf(b) = u /\ Unsettled(b)'
    BY <1>2, <1>3, <1>4 DEF Accounts, HoldIffUnsettled, AttemptsOf, NoActive
  <1>5. \A b \in DOMAIN attempts : b \in effects' => ~attempts'[b].resolved
    BY <1>1, <1>2 DEF Accounts, ResolvedIsQuiescent
  <1> QED BY <1>1, <1>2, <1>3, <1>4, <1>5, Rows, AccountsOfOldAttempts

\* The Attempts a manager's transition closes.
ClosedBy(t, to, b) == Invalidates(t, to) /\ TaskOf(b) = t /\ Active(b)

\* A transition closes the Attempts it invalidates and no others ...
LEMMA TransitionTaskStep ==
  ASSUME TypeOK, Accounts, NEW t \in Tasks, NEW to, TransitionTask(t, to)
  PROVE  /\ DOMAIN attempts' = DOMAIN attempts
         /\ \A b \in DOMAIN attempts :
                /\ Active(b)' <=> Active(b) /\ ~ClosedBy(t, to, b)
                /\ attempts'[b].resolved = attempts[b].resolved
                /\ Unsettled(b)' <=> Unsettled(b) \/ ClosedBy(t, to, b)
  <1> USE DEF ClosedBy
  <1>1. DOMAIN attempts' = DOMAIN attempts
    BY DEF TransitionTask
  <1>2. ASSUME NEW b \in DOMAIN attempts
        PROVE  /\ Active(b)' <=> Active(b) /\ ~ClosedBy(t, to, b)
               /\ attempts'[b].resolved = attempts[b].resolved
               /\ Unsettled(b)' <=> Unsettled(b) \/ ClosedBy(t, to, b)
    <2>1. attempts[b] \in Attempt
      BY <1>2, Rows
    <2>2. CASE ClosedBy(t, to, b)
      <3>1. attempts'[b] = Ended(attempts[b], "cancelled")
        BY <2>2, <1>2 DEF TransitionTask
      <3>2. attempts'[b].state = "cancelled" /\ attempts'[b].resolved = attempts[b].resolved
        BY <2>1, <3>1, EndedFields
      <3>3. ~attempts[b].resolved
        BY <1>2, <2>2 DEF Accounts, ActiveUnresolved
      <3> QED BY <1>1, <1>2, <2>2, <3>2, <3>3 DEF Active, Unsettled, Exists, ActiveStates
    <2>3. CASE ~ClosedBy(t, to, b)
      <3>1. attempts'[b] = attempts[b]
        BY <2>3, <1>2 DEF TransitionTask
      <3> QED BY <1>1, <1>2, <2>3, <3>1 DEF Active, Unsettled, Exists
    <2> QED BY <2>2, <2>3
  <1> QED BY <1>1, <1>2

\* ... and holds the Task exactly when it closed one.
LEMMA TransitionTaskAccounts ==
  ASSUME TypeOK, Accounts, NEW t \in Tasks, NEW to, TransitionTask(t, to)
  PROVE  Accounts'
  <1> DEFINE inv == Invalidates(t, to)
             Closed(b) == inv /\ TaskOf(b) = t /\ Active(b)
  <1>1. DOMAIN attempts' = DOMAIN attempts /\ effects' = effects
    BY DEF TransitionTask
  <1>2. \A b \in DOMAIN attempts : /\ Active(b)' <=> Active(b) /\ ~Closed(b)
                                   /\ attempts'[b].resolved = attempts[b].resolved
                                   /\ Unsettled(b)' <=> Unsettled(b) \/ Closed(b)
    BY TransitionTaskStep DEF ClosedBy
  <1>3. /\ task'[t].hold <=> task[t].hold \/ inv
        /\ \A u \in Tasks : /\ task'[u].adopted = task[u].adopted
                            /\ u # t => task'[u].hold = task[u].hold
    <2> DEFINE k == IF inv THEN NextFence(t) ELSE task[t].fence
               h == task[t].hold \/ inv
    <2>1. task' = [task EXCEPT ![t] = Versioned(task[t], to, h, k)]
      BY DEF TransitionTask
    <2> HIDE DEF k
    <2>2. task'[t].hold = h
      <3>1. task[t] \in Task /\ task'[t] = Versioned(task[t], to, h, k)
        BY <2>1, Rows DEF TypeOK
      <3> HIDE DEF h
      <3> QED BY <3>1, VersionedFields
    <2>3. \A u \in Tasks : /\ task'[u].adopted = task[u].adopted
                           /\ u # t => task'[u].hold = task[u].hold
      <3> HIDE DEF h
      <3> QED BY <2>1, OneTask
    <2> QED BY <2>2, <2>3
  <1>4. inv => ~NoActive(t)
    BY DEF Invalidates
  <1> HIDE DEF inv
  <1>5. ASSUME NEW u \in Tasks, task'[u].adopted
        PROVE  task'[u].hold <=> \E b \in DOMAIN attempts : TaskOf(b) = u /\ Unsettled(b)'
    <2>1. task[u].hold <=> \E b \in DOMAIN attempts : TaskOf(b) = u /\ Unsettled(b)
      BY <1>3, <1>5 DEF Accounts, HoldIffUnsettled, AttemptsOf
    <2>2. CASE u = t
      BY <2>1, <2>2, <1>2, <1>3, <1>4 DEF AttemptsOf, NoActive
    <2>3. CASE u # t
      BY <2>1, <2>3, <1>2, <1>3
    <2> QED BY <2>2, <2>3
  <1>6. \A b \in DOMAIN attempts : b \in effects' => ~attempts'[b].resolved
    BY <1>1, <1>2 DEF Accounts, ResolvedIsQuiescent
  <1>7. \A b \in DOMAIN attempts : Active(b)' => Active(b) /\ ~attempts'[b].resolved
    BY <1>2 DEF Accounts, ActiveUnresolved
  <1> QED BY <1>1, <1>2, <1>3, <1>5, <1>6, <1>7, Rows, AccountsOfOldAttempts

\* Adoption clears the hold of a Task with nothing outstanding.
LEMMA AdoptAccounts ==
  ASSUME TypeOK, Accounts, NEW t \in Tasks, Adopt(t)
  PROVE  Accounts'
  <1> DEFINE row == Versioned(task[t], task[t].state, FALSE, task[t].fence)
  <1>1. attempts' = attempts /\ effects' = effects
    BY DEF Adopt
  <1>2. row \in Task /\ row.hold = FALSE
    <2>1. task[t] \in Task /\ task[t].state \in TaskState /\ task[t].fence \in Nat
      BY Rows
    <2>2. row \in Task
      BY <2>1, VersionedTyped
    <2>3. row.hold = FALSE
      BY <2>1 DEF Versioned, Task
    <2> QED BY <2>2, <2>3
  <1>3. task' = [task EXCEPT ![t] = [row EXCEPT !.adopted = TRUE]]
    BY DEF Adopt
  <1> HIDE DEF row
  <1>4. /\ ~task'[t].hold
        /\ task'[t].adopted
        /\ \A u \in Tasks : u # t => task'[u] = task[u]
    BY <1>2, <1>3 DEF TypeOK, Task
  <1>5. \A b \in DOMAIN attempts : /\ Active(b)' <=> Active(b)
                                   /\ Unsettled(b)' <=> Unsettled(b)
    BY <1>1 DEF Active, Unsettled, Exists
  <1>6. \A b \in DOMAIN attempts : TaskOf(b) = t => ~Unsettled(b)
    BY DEF Adopt, NoOutstanding, AttemptsOf, Outstanding, Unsettled
  <1>7. ASSUME NEW u \in Tasks, task'[u].adopted
        PROVE  task'[u].hold <=> \E b \in DOMAIN attempts : TaskOf(b) = u /\ Unsettled(b)'
    <2>1. CASE u = t
      BY <2>1, <1>4, <1>5, <1>6
    <2>2. CASE u # t
      BY <2>2, <1>4, <1>5, <1>7 DEF Accounts, HoldIffUnsettled, AttemptsOf
    <2> QED BY <2>1, <2>2
  <1>8. \A b \in DOMAIN attempts : b \in effects' => ~attempts'[b].resolved
    BY <1>1 DEF Accounts, ResolvedIsQuiescent
  <1>9. \A b \in DOMAIN attempts : Active(b)' => Active(b) /\ ~attempts'[b].resolved
    BY <1>1, <1>5 DEF Accounts, ActiveUnresolved
  <1>10. \A u \in Tasks : task[u].adopted => task'[u].adopted
    BY <1>4
  <1> QED BY <1>1, <1>7, <1>8, <1>9, <1>10, Rows, AccountsOfOldAttempts

\* The remaining commands, time and stuttering move no account.
LEMMA PlainStepUntouched == TypeOK /\ PlainStep => Untouched
  <1> USE DEF Active, Exists
  <1>1. ASSUME TypeOK,
               \/ Activate
               \/ \E g \in Agents : Connect(g)
               \/ \E g \in Agents : RevokeCredential(g)
               \/ \E g \in Agents, c \in Capacities : SetCapacity(g, c)
               \/ \E p \in Projects, to \in {"active", "paused", "archived"} :
                      TransitionProject(p, to)
               \/ \E g \in Agents, n \in 1..MaxGeneration, s \in Sessions, p \in Projects :
                      OpenSession(g, n, s, p)
               \/ \E a \in AttemptId : SettleEffect(a)
               \/ UNCHANGED vars
        PROVE  Untouched
    <2>1. attempts' = attempts /\ task' = task /\ effects' \subseteq effects
      BY <1>1 DEF Activate, Connect, RevokeCredential, SetCapacity, TransitionProject,
                  OpenSession, SettleEffect, vars
    <2> QED BY <1>1, <2>1 DEF Untouched
  <1>2. ASSUME TypeOK, NEW g \in Agents, NEW n \in 1..MaxGeneration,
               NEW a \in AttemptId, RecordEffect(g, n, a)
        PROVE  Untouched
    <2>1. /\ attempts' = attempts /\ task' = task /\ effects' = effects \cup {a}
          /\ Active(a)
      BY <1>2 DEF RecordEffect, OwnsRuntime, Owns, CurrentExecution
    <2> QED BY <1>2, <2>1 DEF Untouched
  <1>3. ASSUME TypeOK, NEW t \in Tasks, Update(t) \/ AddArtifact(t)
        PROVE  Untouched
    <2>1. /\ attempts' = attempts /\ effects' = effects
          /\ task' = [task EXCEPT ![t] = Versioned(task[t], task[t].state, task[t].hold,
                                                   task[t].fence)]
      BY <1>3 DEF Update, AddArtifact
    <2>2. \A u \in Tasks : /\ task'[u].hold = task[u].hold
                           /\ task'[u].adopted = task[u].adopted
      BY <1>3, <2>1, OneTask
    <2> QED BY <1>3, <2>1, <2>2 DEF Untouched
  <1>4. ASSUME TypeOK, NEW t \in Tasks, NEW kind, NEW verdict,
               Decide(t, kind, verdict)
        PROVE  Untouched
    <2> DEFINE row == Versioned(task[t], Decided(kind, verdict), task[t].hold, task[t].fence)
               new == [row EXCEPT !.reviewed = (kind = "review" /\ verdict = "approve")]
    <2>1. attempts' = attempts /\ effects' = effects /\ task' = [task EXCEPT ![t] = new]
      BY <1>4 DEF Decide
    <2>2. new.hold = task[t].hold /\ new.adopted = task[t].adopted
      BY <1>4, Rows DEF Versioned, Task
    <2> HIDE DEF new
    <2>3. \A u \in Tasks : /\ task'[u].hold = task[u].hold
                           /\ task'[u].adopted = task[u].adopted
      BY <1>4, <2>1, <2>2 DEF TypeOK
    <2> QED BY <1>4, <2>1, <2>3 DEF Untouched
  <1>5. ASSUME TypeOK, NEW g \in Agents, NEW n \in 1..MaxGeneration,
               NEW a \in AttemptId, ReadProof(g, n, a)
        PROVE  Untouched
    <2>1. /\ attempts' = [attempts EXCEPT ![a] = [attempts[a] EXCEPT !.proof = TRUE]]
          /\ task' = task /\ effects' = effects /\ a \in DOMAIN attempts
      BY <1>5 DEF ReadProof, Owns
    <2>2. /\ [attempts[a] EXCEPT !.proof = TRUE].state = attempts[a].state
          /\ [attempts[a] EXCEPT !.proof = TRUE].resolved = attempts[a].resolved
      BY <1>5, <2>1, Rows DEF Attempt
    <2> QED BY <1>5, <2>1, <2>2 DEF Untouched
  <1>6. ASSUME TypeOK, NEW g \in Agents, NEW n \in 1..MaxGeneration,
               NEW a \in AttemptId, Start(g, n, a)
        PROVE  Untouched
    <2> DEFINE row == [attempts[a] EXCEPT !.state = "running"]
    <2>1. /\ attempts' = [attempts EXCEPT ![a] = row]
          /\ effects' = effects /\ a \in DOMAIN attempts /\ attempts[a].state = "leased"
      BY <1>6 DEF Start, Proven, Owns
    <2>2. row.state = "running" /\ row.resolved = attempts[a].resolved
      BY <1>6, <2>1, Rows DEF Attempt
    <2> HIDE DEF row
    <2>3. task' = [task EXCEPT ![TaskOf(a)] = Versioned(task[TaskOf(a)], "in_progress",
                                           task[TaskOf(a)].hold, task[TaskOf(a)].fence)]
      BY <1>6 DEF Start
    <2>4. \A u \in Tasks : /\ task'[u].hold = task[u].hold
                           /\ task'[u].adopted = task[u].adopted
      <3> DEFINE t == TaskOf(a)
      <3>1. t \in Tasks
        BY <1>6, <2>1, Rows
      <3>2. task' = [task EXCEPT ![t] = Versioned(task[t], "in_progress", task[t].hold, task[t].fence)]
        BY <2>3
      <3> HIDE DEF t
      <3> QED BY <1>6, <3>1, <3>2, OneTask
    <2>5. \A b \in DOMAIN attempts : /\ Active(b)' <=> Active(b)
                                     /\ attempts'[b].resolved = attempts[b].resolved
      BY <2>1, <2>2 DEF ActiveStates
    <2> QED BY <1>6, <2>1, <2>4, <2>5 DEF Untouched
  <1>7. ASSUME TypeOK, NEW g \in Agents, NEW n \in 1..MaxGeneration,
               NEW a \in AttemptId, Renew(g, n, a)
        PROVE  Untouched
    <2>1. /\ attempts' = [attempts EXCEPT ![a] = Leased(attempts[a])]
          /\ task' = task /\ effects' = effects /\ a \in DOMAIN attempts
      BY <1>7 DEF Renew, Proven, Owns
    <2>2. /\ Leased(attempts[a]).state = attempts[a].state
          /\ Leased(attempts[a]).resolved = attempts[a].resolved
      BY <1>7, <2>1, Rows, LeasedFields
    <2> QED BY <1>7, <2>1, <2>2 DEF Untouched
  <1>8. ASSUME TypeOK, NEW g \in Agents, NEW n \in 1..MaxGeneration,
               NEW a \in AttemptId, Rebind(g, n, a)
        PROVE  Untouched
    <2> DEFINE row == [Leased(attempts[a]) EXCEPT !.generation = n,
                                                  !.fence = NextFence(TaskOf(a)),
                                                  !.proof = FALSE]
    <2>1. /\ attempts' = [attempts EXCEPT ![a] = row]
          /\ effects' = effects /\ a \in DOMAIN attempts
      BY <1>8 DEF Rebind
    <2>2. row.state = attempts[a].state /\ row.resolved = attempts[a].resolved
      <3>1. attempts[a] \in Attempt /\ Leased(attempts[a]) \in Attempt
        BY <1>8, <2>1, Rows, LeasedTyped
      <3> QED BY <3>1, LeasedFields DEF Attempt
    <2> HIDE DEF row
    <2>3. task' = [task EXCEPT ![TaskOf(a)] = Versioned(task[TaskOf(a)], task[TaskOf(a)].state,
                                           task[TaskOf(a)].hold, NextFence(TaskOf(a)))]
      BY <1>8 DEF Rebind
    <2>4. \A u \in Tasks : /\ task'[u].hold = task[u].hold
                           /\ task'[u].adopted = task[u].adopted
      <3> DEFINE t == TaskOf(a)
      <3>1. t \in Tasks
        BY <1>8, <2>1, Rows
      <3>2. task' = [task EXCEPT ![t] = Versioned(task[t], task[t].state, task[t].hold, NextFence(t))]
        BY <2>3
      <3> HIDE DEF t
      <3> QED BY <1>8, <3>1, <3>2, OneTask
    <2> QED BY <1>8, <2>1, <2>2, <2>4 DEF Untouched
  <1>9. ASSUME TypeOK, Tick PROVE Untouched
    <2>1. /\ attempts' = [a \in DOMAIN attempts |-> Aged(attempts[a])]
          /\ task' = task /\ effects' = effects
      BY <1>9 DEF Tick
    <2>2. \A a \in DOMAIN attempts : /\ Aged(attempts[a]).state = attempts[a].state
                                     /\ Aged(attempts[a]).resolved = attempts[a].resolved
      BY <1>9, Rows, AgedFields
    <2> QED BY <1>9, <2>1, <2>2 DEF Untouched
  <1> QED
    BY <1>1, <1>2, <1>3, <1>4, <1>5, <1>6, <1>7, <1>8, <1>9 DEF PlainStep

\* Every step is one of the cases above.
LEMMA NextCases ==
  ASSUME [Next]_vars
  PROVE  \/ PlainStep
         \/ Close
         \/ \E g \in Agents, n \in 1..MaxGeneration, s \in Sessions, a \in AttemptId :
                Claim(g, n, s, a)
         \/ \E g \in Agents, n \in 1..MaxGeneration, a \in AttemptId,
               outcome \in {"succeeded", "failed"}, resolved \in BOOLEAN :
                Report(g, n, a, outcome, resolved)
         \/ \E a \in AttemptId : Resolve(a) \/ Expire(a)
         \/ \E t \in Tasks, to \in TaskState : TransitionTask(t, to)
         \/ \E t \in Tasks : Adopt(t)
  BY DEF Next, Operate, Manage, Work, Evidence, PlainStep

\* The accounts are inductive.
LEMMA NextAccounts == TypeOK /\ Accounts /\ [Next]_vars => Accounts'
  BY NextCases, PlainStepUntouched, AccountsUntouched, ClaimAccounts, ReportAccounts,
     ResolveAccounts, ExpireAccounts, CloseAccounts, TransitionTaskAccounts, AdoptAccounts

\* They hold in every reachable state.
LEMMA AccountsKept == Spec => []Accounts
  BY TypeCorrect, InitAccounts, NextAccounts, PTL DEF Spec

\* A Task never has two Attempts open at once, active or ended with unknown
\* effects, whatever the order of claims, closures, expiries and evidence.
THEOREM OneOutstandingHolds == Spec => []OneOutstanding
  <1>1. Accounts => OneOutstanding
    BY DEF Accounts
  <1> QED BY <1>1, AccountsKept, PTL

\* The hold of an adopted Task is exact: never lost while an ended Attempt is
\* unsettled, so nothing is claimed then, and never left behind afterwards.
THEOREM HoldExact == Spec => []HoldIffUnsettled
  <1>1. Accounts => HoldIffUnsettled
    BY DEF Accounts
  <1> QED BY <1>1, AccountsKept, PTL

\* Neither a report nor later evidence resolves an Attempt over an effect of the
\* native runtime whose outcome is unknown, and none is recorded afterwards.
THEOREM ResolvedStaysQuiescent == Spec => []ResolvedIsQuiescent
  <1>1. Accounts => ResolvedIsQuiescent
    BY DEF Accounts
  <1> QED BY <1>1, AccountsKept, PTL

-----------------------------------------------------------------------------
(***************************************************************************)
(* The execution core implements the abstract lease of TaskLease, for every*)
(* value of the constants. A claim grants; a report, evidence about an     *)
(* active Attempt or an expiry ends one execution; closing the platform and*)
(* reopening or cancelling a Task cut off a set of them; later evidence    *)
(* settles one. Every other step of the core is a stutter of the lease.    *)
(*                                                                         *)
(* The accounts are what makes it go through: the lease refuses a grant    *)
(* beside an unsettled execution, the core beside a hold.                  *)
(***************************************************************************)


Holding == {a \in DOMAIN attempts : Active(a)}
Lost == {a \in DOMAIN attempts : Unsettled(a)}

\* What an execution that ends moves; h says whether its effects stay unknown.
Ends(a, h) ==
    /\ a \in DOMAIN attempts
    /\ Outstanding(a)
    /\ DOMAIN attempts' = DOMAIN attempts
    /\ ~Active(a)'
    /\ Unsettled(a)' <=> h
    /\ \A b \in DOMAIN attempts : b # a => /\ Active(b)' <=> Active(b)
                                           /\ Unsettled(b)' <=> Unsettled(b)

\* Every row an ending step writes is of this kind.
LEMMA EndingRow ==
  ASSUME NEW a \in DOMAIN attempts, NEW row, Outstanding(a),
         row.state \notin ActiveStates,
         attempts' = [attempts EXCEPT ![a] = row]
  PROVE  Ends(a, ~row.resolved)
  <1>1. DOMAIN attempts' = DOMAIN attempts /\ attempts'[a] = row
    BY OneAttempt
  <1>2. ~Active(a)' /\ (Unsettled(a)' <=> ~row.resolved)
    BY <1>1 DEF Active, Unsettled, Exists
  <1> QED BY <1>1, <1>2, OneAttempt DEF Ends

------------------------------------------------------------------------------
(* The steps of the lease *)

\* A step that moves no account is a stutter of the lease.
LEMMA StutterOfLease ==
  ASSUME Untouched
  PROVE  UNCHANGED <<DOMAIN attempts, Holding, Lost>>
  <1>1. \A a \in DOMAIN attempts : Unsettled(a)' <=> Unsettled(a)
    BY DEF Untouched, Unsettled, Exists
  <1> QED BY <1>1 DEF Untouched, Holding, Lost

\* One execution ends: it says what it did, is cut off, or is settled later.
LEMMA EndsInLease ==
  ASSUME TypeOK, NEW a \in AttemptId, NEW h, Ends(a, h)
  PROVE  Lease!Next \/ UNCHANGED <<DOMAIN attempts, Holding, Lost>>
  <1> USE DEF Ends, Holding, Lost
  <1>1. CASE Active(a) /\ ~h
    <2>1. Lease!Finish(a)
      <3>1. ~Unsettled(a) /\ ~Unsettled(a)'
        BY <1>1 DEF Unsettled
      <3> QED BY <1>1, <3>1 DEF Lease!Finish
    <2> QED BY <2>1 DEF Lease!Next
  <1>2. CASE Active(a) /\ h
    <2>1. Lease!Lose({a})
      BY <1>2 DEF Lease!Lose
    <2> QED BY <2>1 DEF Lease!Next
  <1>3. CASE ~Active(a) /\ ~h
    <2>1. Lease!Settle(a)
      <3>1. Unsettled(a)
        BY <1>3 DEF Outstanding, Unsettled
      <3> QED BY <1>3, <3>1 DEF Lease!Settle
    <2> QED BY <2>1 DEF Lease!Next
  <1>4. CASE ~Active(a) /\ h
    <2>1. Unsettled(a)
      BY <1>4 DEF Outstanding, Unsettled
    <2> QED BY <1>4, <2>1
  <1> QED BY <1>1, <1>2, <1>3, <1>4

\* A set of executions is cut off at once.
LEMMA CutOffInLease ==
  ASSUME TypeOK, NEW S \in SUBSET Holding,
         DOMAIN attempts' = DOMAIN attempts,
         \A b \in DOMAIN attempts : /\ Active(b)' <=> Active(b) /\ b \notin S
                                    /\ Unsettled(b)' <=> Unsettled(b) \/ b \in S
  PROVE  Lease!Next \/ UNCHANGED <<DOMAIN attempts, Holding, Lost>>
  <1> USE DEF Holding, Lost
  <1>1. CASE S = {}
    BY <1>1
  <1>2. CASE S # {}
    <2>1. Lease!Lose(S)
      BY <1>2 DEF Lease!Lose
    <2>2. S \in SUBSET AttemptId
      BY DEF TypeOK
    <2> QED BY <2>1, <2>2 DEF Lease!Next
  <1> QED BY <1>1, <1>2

------------------------------------------------------------------------------
(* Every step of the core is a step of the lease or a stutter *)

\* A claim is a grant: the Task has nothing open.
LEMMA ClaimInLease ==
  ASSUME TypeOK, Accounts, NEW g, NEW n, NEW s, NEW a \in AttemptId, Claim(g, n, s, a)
  PROVE  Lease!Next
  <1> USE DEF Holding, Lost
  <1>1. a \notin DOMAIN attempts
    BY ClaimStep
  <1>2. DOMAIN attempts' = DOMAIN attempts \cup {a}
    BY ClaimStep
  <1>3. Active(a)' /\ ~Unsettled(a)'
    BY ClaimStep
  <1>4. \A b \in DOMAIN attempts : /\ Active(b)' <=> Active(b)
                                   /\ Unsettled(b)' <=> Unsettled(b)
    BY ClaimStep
  <1>5. \A b \in DOMAIN attempts : TaskOf(b) = TaskOf(a) => ~Outstanding(b)
    BY ClaimStep
  <1>6. \A b \in Holding \cup Lost : ~SameTask(a, b)
    BY <1>5 DEF SameTask, Outstanding, Unsettled, Exists
  <1>7. Holding' = Holding \cup {a} /\ Lost' = Lost
    BY <1>1, <1>2, <1>3, <1>4
  <1>8. Lease!Grant(a)
    BY <1>1, <1>2, <1>6, <1>7 DEF Lease!Grant
  <1> QED BY <1>8 DEF Lease!Next

\* A report finishes the execution, or loses it when effects are unknown.
LEMMA ReportInLease ==
  ASSUME TypeOK, NEW g, NEW n, NEW a \in AttemptId, NEW outcome \in {"succeeded", "failed"},
         NEW resolved \in BOOLEAN, Report(g, n, a, outcome, resolved)
  PROVE  Lease!Next \/ UNCHANGED <<DOMAIN attempts, Holding, Lost>>
  <1> DEFINE row == [Ended(attempts[a], outcome) EXCEPT !.resolved = resolved]
  <1>1. a \in DOMAIN attempts /\ Outstanding(a)
    BY DEF Report, Proven, Owns, Exists, Outstanding, CurrentExecution
  <1>2. attempts[a] \in Attempt /\ outcome \in AttemptState
    BY <1>1, Rows DEF AttemptState
  <1>3. Ended(attempts[a], outcome) \in Attempt
    BY <1>2, EndedTyped
  <1>4. row.state \notin ActiveStates
    BY <1>2, <1>3, EndedFields DEF Attempt, ActiveStates
  <1>5. attempts' = [attempts EXCEPT ![a] = row]
    BY DEF Report
  <1> HIDE DEF row
  <1>6. Ends(a, ~row.resolved)
    BY <1>1, <1>4, <1>5, EndingRow
  <1> QED BY <1>6, EndsInLease

\* Evidence finishes an active execution or settles a former one.
LEMMA ResolveInLease ==
  ASSUME TypeOK, NEW a \in AttemptId, Resolve(a)
  PROVE  Lease!Next \/ UNCHANGED <<DOMAIN attempts, Holding, Lost>>
  <1> DEFINE st == IF Active(a) THEN "released" ELSE attempts[a].state
             row == [Ended(attempts[a], st) EXCEPT !.resolved = TRUE]
  <1>1. a \in DOMAIN attempts /\ Outstanding(a)
    BY DEF Resolve, Exists, Outstanding
  <1>2. attempts[a] \in Attempt
    BY <1>1, Rows
  <1>3. st \in AttemptState /\ st \notin ActiveStates
    BY <1>1, <1>2 DEF Attempt, AttemptState, Active, Exists, ActiveStates
  <1>4. row.state \notin ActiveStates
    BY <1>2, <1>3, EndedTyped, EndedFields DEF Attempt
  <1>5. attempts' = [attempts EXCEPT ![a] = row]
    BY DEF Resolve
  <1> HIDE DEF row
  <1>6. Ends(a, ~row.resolved)
    BY <1>1, <1>4, <1>5, EndingRow
  <1> QED BY <1>6, EndsInLease

\* The worker cuts one execution off.
LEMMA ExpireInLease ==
  ASSUME TypeOK, NEW a \in AttemptId, Expire(a)
  PROVE  Lease!Next \/ UNCHANGED <<DOMAIN attempts, Holding, Lost>>
  <1> DEFINE row == Ended(attempts[a], "expired")
  <1>1. a \in DOMAIN attempts /\ Outstanding(a)
    BY DEF Expire, Active, Exists, Outstanding
  <1>2. row.state \notin ActiveStates
    BY <1>1, Rows, EndedFields DEF ActiveStates
  <1>3. attempts' = [attempts EXCEPT ![a] = row]
    BY DEF Expire
  <1> HIDE DEF row
  <1>4. Ends(a, ~row.resolved)
    BY <1>1, <1>2, <1>3, EndingRow
  <1> QED BY <1>4, EndsInLease

\* Closing the platform cuts every execution off.
LEMMA CloseInLease ==
  ASSUME TypeOK, Accounts, Close
  PROVE  Lease!Next \/ UNCHANGED <<DOMAIN attempts, Holding, Lost>>
  <1>1. DOMAIN attempts' = DOMAIN attempts
    BY CloseStep
  <1>2. \A b \in DOMAIN attempts : /\ Active(b)' <=> Active(b) /\ b \notin Holding
                                   /\ Unsettled(b)' <=> Unsettled(b) \/ b \in Holding
    BY CloseStep DEF Holding
  <1> QED BY <1>1, <1>2, CutOffInLease

\* A manager's transition cuts off the Task's execution, if any.
LEMMA TransitionTaskInLease ==
  ASSUME TypeOK, Accounts, NEW t \in Tasks, NEW to, TransitionTask(t, to)
  PROVE  Lease!Next \/ UNCHANGED <<DOMAIN attempts, Holding, Lost>>
  <1> DEFINE S == {b \in DOMAIN attempts : ClosedBy(t, to, b)}
  <1>1. DOMAIN attempts' = DOMAIN attempts
    BY TransitionTaskStep
  <1>2. \A b \in DOMAIN attempts : /\ Active(b)' <=> Active(b) /\ b \notin S
                                   /\ Unsettled(b)' <=> Unsettled(b) \/ b \in S
    BY TransitionTaskStep
  <1>3. S \in SUBSET Holding
    BY DEF ClosedBy, Holding
  <1> HIDE DEF S
  <1> QED BY <1>1, <1>2, <1>3, CutOffInLease

\* Adoption is a stutter.
LEMMA AdoptInLease ==
  ASSUME NEW t, Adopt(t)
  PROVE  UNCHANGED <<DOMAIN attempts, Holding, Lost>>
  BY DEF Adopt, Holding, Lost, Active, Unsettled, Exists

\* So each step of the core is one of the lease, or none.
LEMMA StepInLease ==
  ASSUME TypeOK, Accounts, [Next]_vars
  PROVE  Lease!Next \/ UNCHANGED <<DOMAIN attempts, Holding, Lost>>
  BY NextCases, PlainStepUntouched, StutterOfLease, ClaimInLease, ReportInLease,
     ResolveInLease, ExpireInLease, CloseInLease, TransitionTaskInLease, AdoptInLease

\* Nothing is granted at first.
LEMMA InitInLease == Init => Lease!Init
  <1> SUFFICES ASSUME Init PROVE Lease!Init
    OBVIOUS
  <1>1. DOMAIN attempts = {}
    BY DEF Init
  <1> QED BY <1>1 DEF Lease!Init

\* Whatever Agents, managers, operators and the worker do, and in whatever order,
\* a Task is executed one Attempt at a time, each Attempt is granted once, and
\* none is granted while the effects of a former one are unknown.
THEOREM CoreImplementsLease == Spec => ImplementsLease
  <1>1. TypeOK /\ Accounts /\ [Next]_vars => [Lease!Next]_(Lease!vars)
    BY StepInLease DEF Lease!vars, Holding, Lost
  <1> QED BY <1>1, InitInLease, TypeCorrect, AccountsKept, PTL
          DEF Spec, ImplementsLease, Lease!Spec

=============================================================================
