------------------------------ MODULE Commands ------------------------------
(***************************************************************************)
(* How commands run (commands.ex): transactions that lock the platform's   *)
(* authority, Agents and a Project in one global order, authorize under    *)
(* these locks, lock the identity of the command, look for its receipt and *)
(* either replay it or do the work and store one.  The other modules take  *)
(* a command for one step; this one takes it apart, lock by lock, beside   *)
(* the transactions that lock in ways of their own: authority switches,    *)
(* GitHub ingestion and schedule ticks.                                    *)
(*                                                                         *)
(* The work is that of the commands that need the locks most: claims of    *)
(* Tasks up to an Agent's capacity, management transitions that close what *)
(* they find, revocation and the authority switch.  Rows below a Project   *)
(* (Tasks, Attempts, runtimes) are only locked with their Project locked   *)
(* and are left out.  A transaction may fail or its process die anywhere   *)
(* before the commit; an answer that is lost shows as a client that starts *)
(* the same command again.  PostgreSQL reads committed data.               *)
(***************************************************************************)
EXTENDS Naturals, FiniteSets

CONSTANTS
    Client,             \* database transactions open at a time
    Agents, Projects,   \* bounds: Agents 1 .. Agents, Projects 1 .. Projects
    ProjectOf,          \* Task -> its Project: ids as in the UUID order
    Subscriber,         \* Project -> Agents whose subscriptions get its events
    Ids,                \* bound: command ids 1 .. Ids
    Requests,           \* what clients ask for
    Capacity,           \* Attempts an Agent may hold
    MaxEpoch            \* bound: authority epochs

Agent == 1 .. Agents
Project == 1 .. Projects
Task == DOMAIN ProjectOf
Operator == 0
Actor == Agent \union {Operator}
Key == Actor \X (1 .. Ids)

\* A command names its actor and id; ingestion and ticks are no commands.
Request ==
    [op : {"claim"}, actor : Agent, id : 1 .. Ids, task : Task]
    \union [op : {"transition"}, actor : Actor, id : 1 .. Ids, task : Task]
    \union [op : {"revoke"}, actor : {Operator}, id : 1 .. Ids, agent : Agent]
    \union [op : {"register", "activate", "close"}, actor : {Operator}, id : 1 .. Ids]
    \union [op : {"associate"}, actor : {Operator}, id : 1 .. Ids, project : Project]
    \union [op : {"ingest"}]
    \union [op : {"tick"}, project : Project]

ASSUME CommandsAssumption ==
    /\ Agents \in Nat /\ Projects \in Nat /\ Ids \in Nat
    /\ Task \subseteq Nat /\ IsFiniteSet(Task) /\ ProjectOf \in [Task -> Project]
    /\ Subscriber \in [Project -> SUBSET Agent]
    /\ Requests \subseteq Request
    /\ Capacity \in Nat \ {0} /\ MaxEpoch \in Nat \ {0}

VARIABLES
    authority,     \* [open, epoch]: the platform's row
    enabled,       \* Agents whose credential is good
    attempt,       \* task -> the Agent of its active Attempt, or 0
    receipts,      \* keys that have one, each with [request, epoch, result]
    tx,            \* client -> its transaction
    effects,       \* history: key -> how often its work was committed
    answers        \* history: key -> what clients were told, and when

vars == <<authority, enabled, attempt, receipts, tx, effects, answers>>
database == <<authority, enabled, attempt, receipts, effects, answers>>

-----------------------------------------------------------------------------
(* Locks *)

Mode == {"share", "update", "no key update", "key share"}
Level == 0 .. 4         \* authority, GitHub, Agents, Projects, commands
Lock == Level \X (Nat \X Nat) \X Mode

AuthorityLock(mode) == <<0, <<0, 0>>, mode>>
GitHubLock == <<1, <<0, 0>>, "update">>
\* An Agent's key never changes, so foreign keys to it need not wait.
AgentLockForUpdate(a) == <<2, <<a, 0>>, "update">>   \* (mutant)
AgentLock(a) == <<2, <<a, 0>>, "no key update">>
AgentReference(a) == <<2, <<a, 0>>, "key share">>
ProjectLock(p) == <<3, <<p, 0>>, "update">>
CommandLockShared(key) == <<4, key, "share">>   \* (mutant)
CommandLock(key) == <<4, key, "update">>

Compatible(m, n) ==
    \/ m = "share" /\ n = "share"
    \/ m = "key share" /\ n # "update"
    \/ n = "key share" /\ m # "update"

Conflict(l, m) == l[1] = m[1] /\ l[2] = m[2] /\ ~Compatible(l[3], m[3])

\* Sorted by level, then by id; references are taken as events come.
Precedes(l, m) == l[1] < m[1] \/ (l[1] = m[1] /\ l[2][1] < m[2][1])
NextLocks(todo) ==
    {l \in todo : l[3] = "key share" \/ \A m \in todo : ~Precedes(m, l)}

-----------------------------------------------------------------------------
(* What a request locks and needs *)

IsCommand(r) == r.op \notin {"ingest", "tick"}
KeyOf(r) == <<r.actor, r.id>>
IsExecution(r) == r.op = "claim"
\* Execution receipts carry the epoch, others none.
EpochOf(r) == IF IsExecution(r) THEN authority.epoch ELSE 0

Active(t) == attempt[t] # 0
Used(a) == Cardinality({t \in Task : attempt[t] = a})

ProjectsOf(r) ==
    CASE r.op \in {"claim", "transition"} -> {ProjectOf[r.task]}
      [] r.op \in {"associate", "tick"} -> {r.project}
      [] r.op = "ingest" -> Project
      [] OTHER -> {}

\* (mutant) Only what was discovered, not the claimant itself.
AgentsFound(r, found) ==
    IF r.op = "transition" THEN found ELSE IF r.op = "revoke" THEN {r.agent} ELSE {}
AgentsOf(r, found) ==
    CASE r.op \in {"claim", "transition"} -> ({r.actor} \ {Operator}) \union found
      [] r.op = "revoke" -> {r.agent}
      [] OTHER -> {}

AuthorityMode(r) == IF r.op \in {"activate", "close"} THEN "update" ELSE "share"

\* lock_context!; GitHub's transactions put their own lock before it.
ContextLocks(r, found) ==
    {AuthorityLock(AuthorityMode(r))}
      \union (IF r.op \in {"associate", "ingest"} THEN {GitHubLock} ELSE {})
      \union {AgentLock(a) : a \in AgentsOf(r, found)}
      \union {ProjectLock(p) : p \in ProjectsOf(r)}

\* The owner of the Attempt a transition would close, read without a lock.
Owners(r) == IF r.op = "transition" /\ Active(r.task) THEN {attempt[r.task]} ELSE {}

\* What the work locks: the Agents of subscriptions, or all that run.
ActiveAgents == {attempt[t] : t \in {t \in Task : Active(t)}}
WorkLocks(r) ==
    IF r.op = "close"
    THEN {<<2, <<a, 0>>, "update">> : a \in ActiveAgents}
           \union {ProjectLock(ProjectOf[t]) : t \in {t \in Task : Active(t)}}
    ELSE {AgentReference(a) : a \in UNION {Subscriber[p] : p \in ProjectsOf(r)}}

Idle == [stage |-> "idle"]
Stages == {"context", "receipt", "work"}
Transaction ==
    {Idle} \union [stage : Stages, req : Requests, found : SUBSET Agent,
                   todo : SUBSET Lock, held : SUBSET Lock]

Receipt == [req : Requests, epoch : Nat, result : Nat]

TypeOK ==
    /\ authority \in [open : BOOLEAN, epoch : Nat \ {0}]
    /\ enabled \subseteq Agent
    /\ attempt \in [Task -> Agent \union {0}]
    /\ DOMAIN receipts \subseteq Key
    /\ \A key \in DOMAIN receipts : receipts[key] \in Receipt
    /\ tx \in [Client -> Transaction]
    /\ effects \in [Key -> Nat]
    /\ answers \in [Key -> SUBSET (Requests \X Nat \X Nat)]

Init ==
    /\ authority = [open |-> TRUE, epoch |-> 1]
    /\ enabled = Agent
    /\ attempt = [t \in Task |-> 0]
    /\ receipts = [key \in {} |-> 0]
    /\ tx = [c \in Client |-> Idle]
    /\ effects = [key \in Key |-> 0]
    /\ answers = [key \in Key |-> {}]

-----------------------------------------------------------------------------
(* The steps of a transaction *)

At(c, stage) == tx[c].stage = stage
Locked(c, stage) == At(c, stage) /\ tx[c].todo = {}
Enter(c, stage, locks) ==
    tx' = [tx EXCEPT ![c] = [tx[c] EXCEPT !.stage = stage, !.todo = locks \ tx[c].held]]
Release(c) == tx' = [tx EXCEPT ![c] = Idle]

Begin(c, r) ==
    /\ At(c, "idle")
    /\ tx' = [tx EXCEPT ![c] =
         [stage |-> "context", req |-> r, found |-> Owners(r),
          todo |-> ContextLocks(r, Owners(r)), held |-> {}]]
    /\ UNCHANGED database

Free(c, l) ==
    \A d \in Client \ {c} : ~At(d, "idle") => \A m \in tx[d].held : ~Conflict(l, m)

Acquire(c, l) ==
    /\ ~At(c, "idle") /\ l \in NextLocks(tx[c].todo)
    /\ Free(c, l)
    /\ tx' = [tx EXCEPT ![c] = [tx[c] EXCEPT !.todo = tx[c].todo \ {l},
                                             !.held = tx[c].held \union {l}]]
    /\ UNCHANGED database

\* authenticate!, authorize! and require_hub!, before any receipt is read.
Standing(r) == (IsCommand(r) /\ r.actor # Operator) => r.actor \in enabled
Admitted(r) == (IsExecution(r) \/ r.op = "tick") => authority.open

Authorize(c) ==
    /\ Locked(c, "context")
    /\ LET r == tx[c].req IN
         IF Standing(r) /\ Admitted(r)
         THEN IF IsCommand(r) THEN Enter(c, "receipt", {CommandLock(KeyOf(r))})
                              ELSE Enter(c, "work", WorkLocks(r))
         ELSE Release(c)
    /\ UNCHANGED database

\* The callback's own conditions, read under the locks.
DiscoveredBefore(c) == TRUE   \* (mutant)
Discovered(c) == Owners(tx[c].req) \ {tx[c].req.actor} \subseteq tx[c].found

Workable(c) ==
    LET r == tx[c].req IN
    CASE r.op = "claim" -> ~Active(r.task) /\ Used(r.actor) < Capacity
      [] r.op = "transition" -> Discovered(c)
      [] r.op = "activate" -> ~authority.open /\ authority.epoch < MaxEpoch
      [] r.op = "close" -> authority.epoch < MaxEpoch
      [] OTHER -> TRUE

ReplayableEver(r, receipt) == receipt.req = r   \* (mutant)
Replayable(r, receipt) ==
    receipt.req = r /\ receipt.epoch \in {0, authority.epoch}

\* execute_or_replay!: a receipt is answered, or refused; else the work starts.
Lookup(c) ==
    /\ Locked(c, "receipt")
    /\ LET r == tx[c].req
           key == KeyOf(r) IN
         IF key \in DOMAIN receipts
         THEN /\ answers' = IF Replayable(r, receipts[key])
                            THEN [answers EXCEPT ![key] = @ \union
                                               {<<r, receipts[key].result, EpochOf(r)>>}]
                            ELSE answers
              /\ Release(c)
         ELSE /\ IF Workable(c) THEN Enter(c, "work", WorkLocks(r)) ELSE Release(c)
              /\ UNCHANGED answers
    /\ UNCHANGED <<authority, enabled, attempt, receipts, effects>>

Effect(r) ==
    /\ attempt' = CASE r.op = "claim" -> [attempt EXCEPT ![r.task] = r.actor]
                    [] r.op = "transition" -> [attempt EXCEPT ![r.task] = 0]
                    [] r.op = "close" -> [t \in Task |-> 0]
                    [] OTHER -> attempt
    /\ enabled' = IF r.op = "revoke" THEN enabled \ {r.agent} ELSE enabled
    /\ authority' = IF r.op \in {"activate", "close"}
                    THEN [open |-> r.op = "activate", epoch |-> authority.epoch + 1]
                    ELSE authority

\* Commit the work with its receipt; a receipt that is there already violates
\* the unique index, and everything is rolled back.
Commit(c) ==
    /\ Locked(c, "work")
    /\ LET r == tx[c].req
           key == KeyOf(r)
           result == effects[key] + 1 IN
         IF ~IsCommand(r)
         THEN UNCHANGED database
         ELSE /\ key \notin DOMAIN receipts
              /\ Effect(r)
              /\ receipts' = [k \in DOMAIN receipts \union {key} |->
                   IF k = key THEN [req |-> r, epoch |-> EpochOf(r), result |-> result]
                   ELSE receipts[k]]
              /\ effects' = [effects EXCEPT ![key] = result]
              /\ answers' = [answers EXCEPT ![key] = @ \union {<<r, result, EpochOf(r)>>}]
    /\ Release(c)

\* An error, a lost connection or a crash: nothing of it remains.
Rollback(c) ==
    /\ ~At(c, "idle")
    /\ Release(c)
    /\ UNCHANGED database

Step(c) == Authorize(c) \/ Lookup(c) \/ Commit(c)

Next ==
    \E c \in Client :
        \/ \E r \in Requests : Begin(c, r)
        \/ ~At(c, "idle") /\ \E l \in tx[c].todo : Acquire(c, l)
        \/ Step(c) \/ Rollback(c)

Spec == Init /\ [][Next]_vars

-----------------------------------------------------------------------------
(* Properties *)

Waits(c, d) ==
    /\ ~At(c, "idle") /\ ~At(d, "idle")
    /\ \E l \in NextLocks(tx[c].todo), m \in tx[d].held : Conflict(l, m)

\* design.md fixes one lock order for all: no set of transactions ever waits
\* for each other, whatever they found before locking and lock on the way.
NoWaitCycle ==
    \A S \in (SUBSET Client) \ {{}} :
        \E c \in S : \A d \in S \ {c} : ~Waits(c, d)

\* Claims of one Agent in different Projects count its Attempts at the same
\* time; together they still stay within its capacity.
CapacityKept == \A a \in Agent : Used(a) <= Capacity

\* A lost answer is reconciled with the same id: however often and however
\* concurrently a command is sent, one of them works, the others wait for it
\* and are told what it was told.
ExactlyOnce ==
    \A key \in Key :
        /\ effects[key] <= 1
        /\ \A a, b \in answers[key] : a[1] = b[1] /\ a[2] = b[2]
        /\ Cardinality({c \in Client : At(c, "work") /\ IsCommand(tx[c].req)
                                          /\ KeyOf(tx[c].req) = key})
             <= IF key \in DOMAIN receipts THEN 0 ELSE 1

\* An answer, first or replayed, is one to an actor of good standing, and to
\* an execution command in the epoch of its effect with the platform open:
\* what was checked before the receipt was read still holds at the commit.
CurrentAnswer(r) ==
    /\ r.actor # Operator => r.actor \in enabled
    /\ IsExecution(r) =>
         /\ authority.open
         /\ KeyOf(r) \in DOMAIN receipts =>
              receipts[KeyOf(r)].epoch = authority.epoch

AnswersAreCurrent ==
    [][\A key \in Key : \A answer \in answers'[key] \ answers[key] :
         CurrentAnswer(answer[1])]_vars

\* Whoever changes an Attempt holds the lock of the Agent whose capacity it
\* frees or takes, though it learned whose it is before it could lock.
OwnersAreLocked ==
    [][\A t \in Task : attempt'[t] # attempt[t] =>
         \A a \in {attempt[t], attempt'[t]} \ {0} :
            \E c \in Client : /\ ~At(c, "idle") /\ tx'[c] = Idle
                              /\ \E l \in tx[c].held : Conflict(l, AgentLock(a))]_vars
=============================================================================
