--------------------------- MODULE CommandsProofs ---------------------------
(***************************************************************************)
(* Commands, for any number of clients, Agents, Projects and ids: state is *)
(* well typed, locks exclude whom they should, and therefore commands work *)
(* exactly once, answers are current, capacities kept and owners locked;   *)
(* and the order in which locks are taken lets no transactions, however    *)
(* many, wait for each other in a circle.                                  *)
(***************************************************************************)
EXTENDS Commands, FiniteSetTheorems, WellFoundedInduction, TLAPS

-----------------------------------------------------------------------------
(* Requests and locks *)

LEMMA RequestFacts ==
    ASSUME NEW r \in Request
    PROVE  /\ r.op \in {"claim", "transition", "revoke", "register", "activate",
                        "close", "associate", "ingest", "tick"}
           /\ IsCommand(r) => r.actor \in Actor /\ r.id \in 1 .. Ids
           /\ r.op = "claim" => r.actor \in Agent
           /\ r.op \in {"claim", "transition"} => r.task \in Task
           /\ r.op = "revoke" => r.agent \in Agent
           /\ IsCommand(r) /\ r.op \notin {"claim", "transition"} => r.actor = Operator
           /\ r.op \in {"associate", "tick"} => r.project \in Project
  BY DEF Request, IsCommand, Actor

LEMMA KeyFacts ==
    ASSUME NEW r \in Request, IsCommand(r)
    PROVE  KeyOf(r) \in Key
  BY RequestFacts DEF KeyOf, Key

LEMMA NatFacts == /\ Agent \subseteq Nat /\ Project \subseteq Nat /\ 0 \notin Agent
                  /\ Actor \subseteq Nat /\ 1 .. Ids \subseteq Nat
                  /\ Requests \subseteq Request
                  /\ \A t \in Task : ProjectOf[t] \in Project
                  /\ \A p \in Project : Subscriber[p] \subseteq Agent
  BY CommandsAssumption DEF Agent, Project, Actor, Operator

LEMMA LockType ==
    ASSUME NEW i \in Level, NEW x \in Nat, NEW y \in Nat, NEW m \in Mode
    PROVE  <<i, <<x, y>>, m>> \in Lock
  BY DEF Lock

LEMMA LockTypes ==
    /\ \A m \in Mode : AuthorityLock(m) \in Lock
    /\ GitHubLock \in Lock
    /\ \A a \in Agent : /\ AgentLock(a) \in Lock /\ AgentReference(a) \in Lock
                        /\ <<2, <<a, 0>>, "update">> \in Lock
    /\ \A p \in Project : ProjectLock(p) \in Lock
    /\ \A key \in Key : CommandLock(key) \in Lock
<1>0. /\ {0, 1, 2, 3, 4} \subseteq Level
      /\ {"update", "no key update", "key share"} \subseteq Mode
  BY DEF Level, Mode
<1>1. \A m \in Mode : AuthorityLock(m) \in Lock  BY <1>0, LockType DEF AuthorityLock
<1>2. GitHubLock \in Lock  BY <1>0, LockType DEF GitHubLock
<1>3. ASSUME NEW a \in Agent
      PROVE  /\ AgentLock(a) \in Lock /\ AgentReference(a) \in Lock
             /\ <<2, <<a, 0>>, "update">> \in Lock
  <2>1. a \in Nat  BY NatFacts
  <2> QED BY <1>0, <2>1, LockType DEF AgentLock, AgentReference
<1>4. ASSUME NEW p \in Project PROVE ProjectLock(p) \in Lock
  <2>1. p \in Nat  BY NatFacts
  <2> QED BY <1>0, <2>1, LockType DEF ProjectLock
<1>5. ASSUME NEW key \in Key PROVE CommandLock(key) \in Lock
  <2>1. PICK x \in Actor, y \in 1 .. Ids : key = <<x, y>>  BY DEF Key
  <2>2. x \in Nat /\ y \in Nat  BY NatFacts
  <2> QED BY <1>0, <2>1, <2>2, LockType DEF CommandLock
<1> QED BY <1>1, <1>2, <1>3, <1>4, <1>5

LEMMA AgentsOfType ==
    ASSUME NEW r \in Request, NEW found \in SUBSET Agent
    PROVE  AgentsOf(r, found) \subseteq Agent
  BY RequestFacts DEF AgentsOf, Actor, Operator, IsCommand

LEMMA ProjectsOfType ==
    ASSUME NEW r \in Request
    PROVE  ProjectsOf(r) \subseteq Project
  BY RequestFacts, NatFacts DEF ProjectsOf

LEMMA ContextLocksType ==
    ASSUME NEW r \in Request, NEW found \in SUBSET Agent
    PROVE  ContextLocks(r, found) \subseteq Lock
<1>1. AuthorityMode(r) \in Mode  BY DEF AuthorityMode, Mode
<1> QED BY <1>1, LockTypes, AgentsOfType, ProjectsOfType DEF ContextLocks

LEMMA OwnersType ==
    ASSUME TypeOK, NEW r \in Request
    PROVE  Owners(r) \subseteq Agent
  BY RequestFacts DEF TypeOK, Owners, Active

LEMMA WorkLocksType ==
    ASSUME TypeOK, NEW r \in Request
    PROVE  WorkLocks(r) \subseteq Lock
<1>1. ActiveAgents \subseteq Agent  BY DEF TypeOK, ActiveAgents, Active
<1>2. {ProjectOf[t] : t \in {t \in Task : Active(t)}} \subseteq Project  BY NatFacts
<1>3. UNION {Subscriber[p] : p \in ProjectsOf(r)} \subseteq Agent
  BY ProjectsOfType, NatFacts
<1> QED BY <1>1, <1>2, <1>3, LockTypes DEF WorkLocks

-----------------------------------------------------------------------------
(* Types *)

LEMMA StageFacts ==
    ASSUME TypeOK, NEW c \in Client, ~At(c, "idle")
    PROVE  tx[c] \in [stage : Stages, req : Requests, found : SUBSET Agent,
                      todo : SUBSET Lock, held : SUBSET Lock]
  BY DEF TypeOK, Transaction, Idle, At

\* Every reachable state is well typed.
THEOREM TypeCorrect == Spec => []TypeOK
<1>1. Init => TypeOK
<2> SUFFICES ASSUME Init PROVE TypeOK OBVIOUS
<2> USE DEF Init
<2>1. authority \in [open : BOOLEAN, epoch : Nat \ {0}]  BY CommandsAssumption
<2>2. enabled \subseteq Agent /\ attempt \in [Task -> Agent \union {0}]  OBVIOUS
<2>3. DOMAIN receipts = {}  OBVIOUS
<2>4. tx \in [Client -> Transaction]  BY DEF Transaction
<2>5. /\ effects \in [Key -> Nat]
      /\ answers \in [Key -> SUBSET (Requests \X Nat \X Nat)]
  OBVIOUS
<2> QED BY <2>1, <2>2, <2>3, <2>4, <2>5 DEF TypeOK
<1>2. TypeOK /\ [Next]_vars => TypeOK'
<2> SUFFICES ASSUME TypeOK, [Next]_vars PROVE TypeOK' OBVIOUS
<2>0. CASE UNCHANGED vars  BY <2>0 DEF TypeOK, vars
<2>a. ASSUME NEW c \in Client, NEW v \in Transaction,
             tx' = [tx EXCEPT ![c] = v], UNCHANGED database
      PROVE  TypeOK'
  BY <2>a DEF TypeOK, database
<2>b. ASSUME NEW c \in Client, ~At(c, "idle"), NEW s \in Stages, NEW locks \in SUBSET Lock
      PROVE  [tx[c] EXCEPT !.stage = s, !.todo = locks \ tx[c].held] \in Transaction
  BY <2>b, StageFacts DEF Transaction
<2>1. ASSUME NEW c \in Client, NEW r \in Requests, Begin(c, r) PROVE TypeOK'
  <3>1. r \in Request  BY NatFacts
  <3>2. Owners(r) \in SUBSET Agent  BY <3>1, OwnersType
  <3>3. ContextLocks(r, Owners(r)) \in SUBSET Lock  BY <3>1, <3>2, ContextLocksType
  <3>4. [stage |-> "context", req |-> r, found |-> Owners(r),
         todo |-> ContextLocks(r, Owners(r)), held |-> {}] \in Transaction
    BY <3>2, <3>3 DEF Transaction, Stages
  <3> QED BY <2>1, <2>a, <3>4 DEF Begin
<2>2. ASSUME NEW c \in Client, NEW l, l \in tx[c].todo, Acquire(c, l) PROVE TypeOK'
  <3>1. [tx[c] EXCEPT !.todo = tx[c].todo \ {l}, !.held = tx[c].held \union {l}]
          \in Transaction
    BY <2>2, StageFacts DEF Acquire, Transaction
  <3> QED BY <2>2, <2>a, <3>1 DEF Acquire
<2>3. ASSUME NEW c \in Client, Authorize(c) PROVE TypeOK'
  <3>1. ~At(c, "idle")  BY <2>3 DEF Authorize, Locked, At
  <3>2. tx[c].req \in Request /\ tx[c].req \in Requests  BY <3>1, StageFacts, NatFacts
  <3>3. CASE tx' = [tx EXCEPT ![c] = Idle]
    BY <2>3, <2>a, <3>3 DEF Authorize, Transaction
  <3>4. CASE Enter(c, "receipt", {CommandLock(KeyOf(tx[c].req))}) /\ IsCommand(tx[c].req)
    <4>1. {CommandLock(KeyOf(tx[c].req))} \in SUBSET Lock
      BY <3>2, <3>4, KeyFacts, LockTypes
    <4> QED BY <2>3, <2>a, <2>b, <3>1, <3>4, <4>1 DEF Authorize, Enter, Stages
  <3>5. CASE Enter(c, "work", WorkLocks(tx[c].req))
    <4>1. WorkLocks(tx[c].req) \in SUBSET Lock  BY <3>2, WorkLocksType
    <4> QED BY <2>3, <2>a, <2>b, <3>1, <3>5, <4>1 DEF Authorize, Enter, Stages
  <3> QED BY <2>3, <3>3, <3>4, <3>5 DEF Authorize, Release
<2>4. ASSUME NEW c \in Client, Lookup(c) PROVE TypeOK'
  <3> DEFINE r == tx[c].req
             key == KeyOf(r)
  <3>1. ~At(c, "idle")  BY <2>4 DEF Lookup, Locked, At
  <3>2. r \in Requests /\ r \in Request  BY <3>1, StageFacts, NatFacts
  <3>3. tx' \in [Client -> Transaction]
    <4>1. CASE tx' = [tx EXCEPT ![c] = Idle]  BY <4>1 DEF TypeOK, Transaction
    <4>2. CASE Enter(c, "work", WorkLocks(r))
      <5>1. WorkLocks(r) \in SUBSET Lock  BY <3>2, WorkLocksType
      <5> QED BY <2>b, <3>1, <4>2, <5>1 DEF Enter, Stages, TypeOK
    <4> QED BY <2>4, <4>1, <4>2 DEF Lookup, Release
  <3>4. answers' \in [Key -> SUBSET (Requests \X Nat \X Nat)]
    <4>1. CASE answers' = answers  BY <4>1 DEF TypeOK
    <4>2. CASE /\ key \in DOMAIN receipts
               /\ answers' = [answers EXCEPT ![key] = @ \union
                                 {<<r, receipts[key].result, EpochOf(r)>>}]
      <5>1. receipts[key].result \in Nat  BY <4>2 DEF TypeOK, Receipt
      <5>2. EpochOf(r) \in Nat
        BY DEF TypeOK, EpochOf
      <5>3. <<r, receipts[key].result, EpochOf(r)>> \in Requests \X Nat \X Nat
        BY <3>2, <5>1, <5>2
      <5> QED BY <4>2, <5>3 DEF TypeOK
    <4> QED BY <2>4, <4>1, <4>2 DEF Lookup
  <3> QED BY <2>4, <3>3, <3>4 DEF Lookup, TypeOK
<2>5. ASSUME NEW c \in Client, Commit(c) PROVE TypeOK'
  <3> DEFINE r == tx[c].req
             key == KeyOf(r)
             result == effects[key] + 1
  <3>1. ~At(c, "idle")  BY <2>5 DEF Commit, Locked, At
  <3>2. r \in Requests /\ r \in Request  BY <3>1, StageFacts, NatFacts
  <3>3. tx' \in [Client -> Transaction]
    BY <2>5 DEF Commit, Release, TypeOK, Transaction
  <3>4. CASE ~IsCommand(r)  BY <2>5, <3>3, <3>4 DEF Commit, database, TypeOK
  <3>5. CASE IsCommand(r)
    <4>1. key \in Key  BY <3>2, <3>5, KeyFacts
    <4>2. result \in Nat  BY <4>1 DEF TypeOK
    <4>3. EpochOf(r) \in Nat  BY DEF TypeOK, EpochOf
    <4>4. attempt' \in [Task -> Agent \union {0}]
      <5>1. r.op = "claim" => r.actor \in Agent /\ r.task \in Task  BY <3>2, RequestFacts
      <5>2. r.op = "transition" => r.task \in Task  BY <3>2, RequestFacts
      <5> QED BY <2>5, <3>5, <5>1, <5>2 DEF Commit, Effect, TypeOK
    <4>5. enabled' \subseteq Agent  BY <2>5, <3>5 DEF Commit, Effect, TypeOK
    <4>6. authority' \in [open : BOOLEAN, epoch : Nat \ {0}]
      <5>1. authority.epoch + 1 \in Nat \ {0}  BY DEF TypeOK
      <5>2. \/ authority' = authority
            \/ authority' = [open |-> r.op = "activate", epoch |-> authority.epoch + 1]
        BY <2>5, <3>5 DEF Commit, Effect
      <5>3. \A b \in BOOLEAN, e \in Nat \ {0} :
              [open |-> b, epoch |-> e] \in [open : BOOLEAN, epoch : Nat \ {0}]
        OBVIOUS
      <5>4. (r.op = "activate") \in BOOLEAN  OBVIOUS
      <5>5. [open |-> r.op = "activate", epoch |-> authority.epoch + 1]
              \in [open : BOOLEAN, epoch : Nat \ {0}]
        BY <5>1, <5>3, <5>4, Zenon
      <5> QED BY <5>2, <5>5 DEF TypeOK
    <4>7. /\ DOMAIN receipts' \subseteq Key
          /\ \A k \in DOMAIN receipts' : receipts'[k] \in Receipt
      <5>1. [req |-> r, epoch |-> EpochOf(r), result |-> result] \in Receipt
        BY <3>2, <4>2, <4>3 DEF Receipt
      <5> QED BY <2>5, <3>5, <4>1, <5>1 DEF Commit, TypeOK
    <4>8. effects' \in [Key -> Nat]  BY <2>5, <3>5, <4>2 DEF Commit, TypeOK
    <4>9. answers' \in [Key -> SUBSET (Requests \X Nat \X Nat)]
      <5>1. <<r, result, EpochOf(r)>> \in Requests \X Nat \X Nat
        BY <3>2, <4>2, <4>3
      <5> QED BY <2>5, <3>5, <5>1 DEF Commit, TypeOK
    <4> QED BY <3>3, <4>4, <4>5, <4>6, <4>7, <4>8, <4>9 DEF TypeOK
  <3> QED BY <3>4, <3>5
<2>6. ASSUME NEW c \in Client, Rollback(c) PROVE TypeOK'
  BY <2>6, <2>a DEF Rollback, Release, Transaction
<2> QED BY <2>0, <2>1, <2>2, <2>3, <2>4, <2>5, <2>6 DEF Next, Step
<1> QED BY <1>1, <1>2, PTL DEF Spec
-----------------------------------------------------------------------------
(* The inductive invariant *)

Working(c) == tx[c].stage \in {"receipt", "work"}

\* Nobody holds a lock that conflicts with one of another transaction.
HeldApart ==
    \A c, d \in Client : c # d /\ ~At(c, "idle") /\ ~At(d, "idle") =>
        \A l \in tx[c].held, m \in tx[d].held : ~Conflict(l, m)

\* A transaction takes the locks of its context before anything is read, and
\* keeps them.
ContextHeld ==
    \A c \in Client :
        /\ At(c, "context") =>
             ContextLocks(tx[c].req, tx[c].found) \subseteq tx[c].todo \union tx[c].held
        /\ Working(c) => ContextLocks(tx[c].req, tx[c].found) \subseteq tx[c].held

\* Whoever looks for a receipt or works without one holds the command's lock.
KeyHeld ==
    \A c \in Client :
        /\ At(c, "receipt") =>
             /\ IsCommand(tx[c].req)
             /\ CommandLock(KeyOf(tx[c].req)) \in tx[c].todo \union tx[c].held
        /\ At(c, "work") /\ IsCommand(tx[c].req) =>
             /\ CommandLock(KeyOf(tx[c].req)) \in tx[c].held
             /\ KeyOf(tx[c].req) \notin DOMAIN receipts

\* What was authorized, and what the work found, still holds.
StillAdmitted ==
    \A c \in Client : Working(c) => Standing(tx[c].req) /\ Admitted(tx[c].req)

Claims(c) == At(c, "work") /\ tx[c].req.op = "claim"
ClaimStillFits ==
    \A c \in Client : Claims(c) =>
        ~Active(tx[c].req.task) /\ Used(tx[c].req.actor) < Capacity

OwnersStillKnown ==
    \A c \in Client : At(c, "work") =>
        /\ tx[c].req.op = "transition" => Discovered(c)
        /\ tx[c].req.op = "close" =>
             \A a \in ActiveAgents :
                 <<2, <<a, 0>>, "update">> \in tx[c].todo \union tx[c].held

\* Effects, receipts and answers agree.
Accounts ==
    \A key \in Key :
        /\ effects[key] = IF key \in DOMAIN receipts THEN 1 ELSE 0
        /\ key \in DOMAIN receipts /\ IsExecution(receipts[key].req) =>
             receipts[key].epoch # 0
        /\ \A answer \in answers[key] :
             /\ key \in DOMAIN receipts
             /\ answer[1] = receipts[key].req /\ answer[2] = receipts[key].result

LockInv == HeldApart /\ ContextHeld
Decided == /\ KeyHeld /\ StillAdmitted /\ ClaimStillFits /\ OwnersStillKnown
           /\ CapacityKept
Safety == Decided /\ Accounts

-----------------------------------------------------------------------------
(* What the locks exclude *)

LEMMA ConflictSymmetric ==
    ASSUME NEW l, NEW m PROVE Conflict(l, m) <=> Conflict(m, l)
  BY DEF Conflict, Compatible

\* Two transactions past their context share no Agent and no Project, and
\* neither of them switches authority.
LEMMA Exclusion ==
    ASSUME TypeOK, LockInv, NEW c \in Client, NEW d \in Client, c # d,
           Working(c), Working(d)
    PROVE  /\ tx[c].req.op \notin {"activate", "close"}
           /\ \A a \in AgentsOf(tx[c].req, tx[c].found) :
                a \notin AgentsOf(tx[d].req, tx[d].found)
           /\ \A p \in ProjectsOf(tx[c].req) : p \notin ProjectsOf(tx[d].req)
<1>1. /\ ContextLocks(tx[c].req, tx[c].found) \subseteq tx[c].held
      /\ ContextLocks(tx[d].req, tx[d].found) \subseteq tx[d].held
  BY DEF LockInv, ContextHeld
<1>2. ~At(c, "idle") /\ ~At(d, "idle")  BY DEF Working, At
<1>3. \A l \in tx[c].held, m \in tx[d].held : ~Conflict(l, m)
  BY <1>2 DEF LockInv, HeldApart
<1>4. tx[c].req.op \notin {"activate", "close"}
  <2> SUFFICES ASSUME tx[c].req.op \in {"activate", "close"} PROVE FALSE  OBVIOUS
  <2>1. AuthorityLock("update") \in tx[c].held  BY <1>1 DEF ContextLocks, AuthorityMode
  <2>2. PICK m \in {"share", "update"} : AuthorityLock(m) \in tx[d].held
    BY <1>1 DEF ContextLocks, AuthorityMode
  <2>3. Conflict(AuthorityLock("update"), AuthorityLock(m))
    BY DEF Conflict, Compatible, AuthorityLock
  <2> QED BY <1>3, <2>1, <2>2, <2>3
<1>5. ASSUME NEW a \in AgentsOf(tx[c].req, tx[c].found),
             a \in AgentsOf(tx[d].req, tx[d].found)
      PROVE  FALSE
  <2>1. AgentLock(a) \in tx[c].held /\ AgentLock(a) \in tx[d].held
    BY <1>1, <1>5 DEF ContextLocks
  <2>2. Conflict(AgentLock(a), AgentLock(a))  BY DEF Conflict, Compatible, AgentLock
  <2> QED BY <1>3, <2>1, <2>2
<1>6. ASSUME NEW p \in ProjectsOf(tx[c].req), p \in ProjectsOf(tx[d].req)
      PROVE  FALSE
  <2>1. ProjectLock(p) \in tx[c].held /\ ProjectLock(p) \in tx[d].held
    BY <1>1, <1>6 DEF ContextLocks
  <2>2. Conflict(ProjectLock(p), ProjectLock(p))  BY DEF Conflict, Compatible, ProjectLock
  <2> QED BY <1>3, <2>1, <2>2
<1> QED BY <1>4, <1>5, <1>6

\* Two transactions do not both work under one key.
LEMMA KeyExclusion ==
    ASSUME TypeOK, LockInv, KeyHeld, NEW c \in Client, NEW d \in Client, c # d,
           At(c, "work"), At(d, "work"), IsCommand(tx[c].req), IsCommand(tx[d].req)
    PROVE  KeyOf(tx[c].req) # KeyOf(tx[d].req)
<1>1. ~At(c, "idle") /\ ~At(d, "idle")  BY DEF At
<1>2. \A l \in tx[c].held, m \in tx[d].held : ~Conflict(l, m)
  BY <1>1 DEF LockInv, HeldApart
<1>3. /\ CommandLock(KeyOf(tx[c].req)) \in tx[c].held
      /\ CommandLock(KeyOf(tx[d].req)) \in tx[d].held
  BY DEF KeyHeld
<1>4. \A key : Conflict(CommandLock(key), CommandLock(key))
  BY DEF Conflict, Compatible, CommandLock
<1> QED BY <1>2, <1>3, <1>4

-----------------------------------------------------------------------------
(* The locks are kept *)

\* A step of one transaction leaves those of the others as they are.
LEMMA StepOfOne ==
    ASSUME NEW c \in Client, NEW v, tx \in [Client -> Transaction],
           tx' = [tx EXCEPT ![c] = v]
    PROVE  tx'[c] = v /\ \A d \in Client \ {c} : tx'[d] = tx[d]
  OBVIOUS

LEMMA LocksStep == TypeOK /\ LockInv /\ [Next]_vars => LockInv'
<1> SUFFICES ASSUME TypeOK, LockInv, [Next]_vars PROVE LockInv'  OBVIOUS
<1>a. tx \in [Client -> Transaction]  BY DEF TypeOK
\* Dropping everything, or moving on with the same locks, keeps both parts.
<1>b. ASSUME NEW c \in Client, tx' = [tx EXCEPT ![c] = Idle] PROVE LockInv'
  <2>1. tx'[c] = Idle /\ \A d \in Client \ {c} : tx'[d] = tx[d]  BY <1>a, <1>b, StepOfOne
  <2>2. HeldApart'  BY <2>1 DEF LockInv, HeldApart, At, Idle
  <2>3. ContextHeld'  BY <2>1 DEF LockInv, ContextHeld, At, Idle, Working,
                                  ContextLocks, AgentsOf, ProjectsOf, AuthorityMode
  <2> QED BY <2>2, <2>3 DEF LockInv
<1>c. ASSUME NEW c \in Client, NEW s \in {"receipt", "work"}, NEW locks,
             ~At(c, "idle"), tx[c].todo = {}, Enter(c, s, locks)
      PROVE  LockInv'
  <2> DEFINE v == [tx[c] EXCEPT !.stage = s, !.todo = locks \ tx[c].held]
  <2>1. tx'[c] = v /\ \A d \in Client \ {c} : tx'[d] = tx[d]
    BY <1>a, <1>c, StepOfOne DEF Enter
  <2>2. /\ v.stage = s /\ v.held = tx[c].held
        /\ v.req = tx[c].req /\ v.found = tx[c].found
    BY <1>c, StageFacts
  <2> HIDE DEF v
  <2>a. \A d \in Client : tx'[d].held = tx[d].held /\ (~At(d, "idle")' => ~At(d, "idle"))
    BY <1>c, <2>1, <2>2 DEF At
  <2>3. HeldApart'  BY <2>a DEF LockInv, HeldApart
  <2>4. ContextLocks(tx[c].req, tx[c].found) \subseteq tx[c].held
    BY <1>c, StageFacts DEF LockInv, ContextHeld, At, Working, Stages
  <2>5. ContextHeld'
    BY <2>1, <2>2, <2>4 DEF LockInv, ContextHeld, At, Working
  <2> QED BY <2>3, <2>5 DEF LockInv
<1>0. CASE UNCHANGED vars
  BY <1>0 DEF vars, LockInv, HeldApart, ContextHeld, At, Working
<1>1. ASSUME NEW c \in Client, NEW r \in Requests, Begin(c, r) PROVE LockInv'
  <2> DEFINE v == [stage |-> "context", req |-> r, found |-> Owners(r),
                   todo |-> ContextLocks(r, Owners(r)), held |-> {}]
  <2>1. tx'[c] = v /\ \A d \in Client \ {c} : tx'[d] = tx[d]
    BY <1>a, <1>1, StepOfOne DEF Begin
  <2>2. /\ v.stage = "context" /\ v.req = r /\ v.found = Owners(r) /\ v.held = {}
        /\ v.todo = ContextLocks(r, Owners(r))
    OBVIOUS
  <2> HIDE DEF v
  <2>3. HeldApart'  BY <2>1, <2>2 DEF LockInv, HeldApart, At
  <2>4. ContextHeld'  BY <2>1, <2>2 DEF LockInv, ContextHeld, At, Working
  <2> QED BY <2>3, <2>4 DEF LockInv
<1>2. ASSUME NEW c \in Client, NEW l, l \in tx[c].todo, Acquire(c, l) PROVE LockInv'
  <2> DEFINE v == [tx[c] EXCEPT !.todo = tx[c].todo \ {l},
                                !.held = tx[c].held \union {l}]
  <2>1. tx'[c] = v /\ \A d \in Client \ {c} : tx'[d] = tx[d]
    BY <1>a, <1>2, StepOfOne DEF Acquire
  <2>2. /\ v.stage = tx[c].stage /\ v.req = tx[c].req /\ v.found = tx[c].found
        /\ v.todo = tx[c].todo \ {l} /\ v.held = tx[c].held \union {l}
    BY <1>2, StageFacts DEF Acquire
  <2> HIDE DEF v
  <2>3. \A d \in Client \ {c} : ~At(d, "idle") =>
          \A m \in tx[d].held : ~Conflict(l, m) /\ ~Conflict(m, l)
    BY <1>2, ConflictSymmetric DEF Acquire, Free
  <2>4. HeldApart'
    <3> SUFFICES ASSUME NEW d \in Client, NEW e \in Client, d # e,
                        ~At(d, "idle")', ~At(e, "idle")',
                        NEW m \in tx'[d].held, NEW n \in tx'[e].held
                 PROVE  ~Conflict(m, n)
      BY DEF HeldApart
    <3>1. ~At(d, "idle") /\ ~At(e, "idle")  BY <2>1, <2>2 DEF At
    <3>2. CASE m \in tx[d].held /\ n \in tx[e].held
      BY <3>1, <3>2 DEF LockInv, HeldApart
    <3>3. CASE m \notin tx[d].held
      <4>1. d = c /\ m = l  BY <2>1, <2>2, <3>3
      <4>2. n \in tx[e].held  BY <2>1, <4>1
      <4> QED BY <2>3, <3>1, <4>1, <4>2
    <3>4. CASE n \notin tx[e].held
      <4>1. e = c /\ n = l  BY <2>1, <2>2, <3>4
      <4>2. m \in tx[d].held  BY <2>1, <4>1
      <4> QED BY <2>3, <3>1, <4>1, <4>2
    <3> QED BY <3>2, <3>3, <3>4
  <2>5. ContextHeld'  BY <2>1, <2>2 DEF LockInv, ContextHeld, At, Working
  <2> QED BY <2>4, <2>5 DEF LockInv
<1>3. ASSUME NEW c \in Client, Authorize(c) PROVE LockInv'
  BY <1>3, <1>b, <1>c DEF Authorize, Locked, At, Release
<1>4. ASSUME NEW c \in Client, Lookup(c) PROVE LockInv'
  BY <1>4, <1>b, <1>c DEF Lookup, Locked, At, Release
<1>5. ASSUME NEW c \in Client, Commit(c) PROVE LockInv'
  BY <1>5, <1>b DEF Commit, Release
<1>6. ASSUME NEW c \in Client, Rollback(c) PROVE LockInv'
  BY <1>6, <1>b DEF Rollback, Release
<1> QED BY <1>0, <1>1, <1>2, <1>3, <1>4, <1>5, <1>6 DEF Next, Step

-----------------------------------------------------------------------------
(* What is decided under them stays true *)

\* A step that writes nothing: the transaction that takes it keeps its stage
\* or leaves, all others stay.
LEMMA QuietStep ==
    ASSUME TypeOK, Decided, NEW c \in Client, NEW v,
           tx' = [tx EXCEPT ![c] = v],
           UNCHANGED <<authority, enabled, attempt, receipts, effects>>,
           \/ v.stage \in {"idle", "context"}
           \/ /\ v.stage = tx[c].stage /\ v.req = tx[c].req /\ v.found = tx[c].found
              /\ tx[c].todo \union tx[c].held \subseteq v.todo \union v.held
              /\ tx[c].held \subseteq v.held
    PROVE  Decided'
<1> USE DEF Decided
<1>1. tx'[c] = v /\ \A d \in Client \ {c} : tx'[d] = tx[d]
  BY StepOfOne DEF TypeOK
<1>2. KeyHeld'  BY <1>1 DEF KeyHeld, At
<1>3. StillAdmitted'  BY <1>1 DEF StillAdmitted, Working, Standing, Admitted
<1>4. ClaimStillFits'  BY <1>1 DEF ClaimStillFits, Claims, At, Active, Used
<1>5. OwnersStillKnown'
  BY <1>1 DEF OwnersStillKnown, At, Discovered, Owners, ActiveAgents, Active
<1>6. CapacityKept'  BY DEF CapacityKept, Used
<1> QED BY <1>2, <1>3, <1>4, <1>5, <1>6

LEMMA AuthorizeStep ==
    ASSUME TypeOK, LockInv, Decided, NEW c \in Client, Authorize(c)
    PROVE  Decided'
<1> DEFINE r == tx[c].req
<1>0. At(c, "context") /\ ~At(c, "idle") /\ UNCHANGED database
  BY DEF Authorize, Locked, At
<1>r. r \in Request  BY <1>0, StageFacts, NatFacts
<1>1. CASE Release(c)  BY <1>0, <1>1, QuietStep DEF Release, Idle, database
<1>2. ASSUME Standing(r), Admitted(r), NEW s \in {"receipt", "work"}, NEW locks,
             Enter(c, s, locks),
             s = "receipt" => IsCommand(r) /\ CommandLock(KeyOf(r)) \in locks,
             s = "work" => ~IsCommand(r)
      PROVE  Decided'
  <2> DEFINE v == [tx[c] EXCEPT !.stage = s, !.todo = locks \ tx[c].held]
  <2>1. tx'[c] = v /\ \A d \in Client \ {c} : tx'[d] = tx[d]
    BY <1>2, StepOfOne DEF Enter, TypeOK
  <2>2. /\ v.stage = s /\ v.req = r /\ v.found = tx[c].found
        /\ v.held = tx[c].held /\ v.todo = locks \ tx[c].held
    BY <1>0, StageFacts
  <2> HIDE DEF v
  <2>3. KeyHeld'  BY <1>0, <1>2, <2>1, <2>2 DEF KeyHeld, At, Decided, database
  <2>4. StillAdmitted'
    BY <1>0, <1>2, <2>1, <2>2
       DEF StillAdmitted, Decided, Working, Standing, Admitted, database
  <2>5. s = "work" => r.op \notin {"claim", "transition", "close"}
    BY <1>2 DEF IsCommand
  <2>6. ClaimStillFits'
    BY <1>0, <1>2, <2>1, <2>2, <2>5
       DEF ClaimStillFits, Decided, Claims, At, Active, Used, database
  <2>7. OwnersStillKnown'
    BY <1>0, <1>2, <2>1, <2>2, <2>5
       DEF OwnersStillKnown, Decided, At, Discovered, Owners, ActiveAgents, Active, database
  <2>8. CapacityKept'  BY <1>0 DEF CapacityKept, Decided, Used, database
  <2> QED BY <2>3, <2>4, <2>6, <2>7, <2>8 DEF Decided
<1> QED BY <1>1, <1>2 DEF Authorize

LEMMA LookupStep ==
    ASSUME TypeOK, LockInv, Safety, NEW c \in Client, Lookup(c)
    PROVE  Safety'
<1> DEFINE r == tx[c].req
           key == KeyOf(r)
<1>0. /\ At(c, "receipt") /\ ~At(c, "idle") /\ tx[c].todo = {} /\ Working(c)
      /\ UNCHANGED <<authority, enabled, attempt, receipts, effects>>
  BY DEF Lookup, Locked, At, Working
<1>1. r \in Request /\ IsCommand(r) /\ key \in Key
  BY <1>0, StageFacts, NatFacts, KeyFacts DEF Safety, Decided, KeyHeld
<1>2. Accounts'
  <2>1. CASE answers' = answers  BY <1>0, <2>1 DEF Safety, Accounts
  <2>2. CASE /\ key \in DOMAIN receipts /\ Replayable(r, receipts[key])
             /\ answers' = [answers EXCEPT ![key] = @ \union
                               {<<r, receipts[key].result, EpochOf(r)>>}]
    <3>1. answers'[key] = answers[key] \union {<<r, receipts[key].result, EpochOf(r)>>}
      BY <1>1, <2>2 DEF TypeOK
    <3>2. \A k \in Key \ {key} : answers'[k] = answers[k]  BY <2>2 DEF TypeOK
    <3>3. receipts[key].req = r  BY <2>2 DEF Replayable
    <3> QED BY <1>0, <2>2, <3>1, <3>2, <3>3 DEF Safety, Accounts
  <2> QED BY <2>1, <2>2 DEF Lookup
<1>3. CASE Release(c)
  BY <1>0, <1>2, <1>3, QuietStep DEF Release, Idle, Safety
<1>4. CASE Workable(c) /\ key \notin DOMAIN receipts /\ Enter(c, "work", WorkLocks(r))
  <2> DEFINE v == [tx[c] EXCEPT !.stage = "work", !.todo = WorkLocks(r) \ tx[c].held]
  <2>1. tx'[c] = v /\ \A d \in Client \ {c} : tx'[d] = tx[d]
    BY <1>4, StepOfOne DEF Enter, TypeOK
  <2>2. /\ v.stage = "work" /\ v.req = r /\ v.found = tx[c].found
        /\ v.held = tx[c].held /\ v.todo = WorkLocks(r) \ tx[c].held
    BY <1>0, StageFacts
  <2> HIDE DEF v
  <2> USE DEF Safety, Decided
  <2>3. KeyHeld'  BY <1>0, <1>4, <2>1, <2>2 DEF KeyHeld, At
  <2>4. StillAdmitted'
    BY <1>0, <2>1, <2>2 DEF StillAdmitted, Working, Standing, Admitted
  <2>5. ClaimStillFits'
    <3> SUFFICES ASSUME NEW d \in Client, Claims(d)'
                 PROVE  (~Active(tx[d].req.task) /\ Used(tx[d].req.actor) < Capacity)'
      BY DEF ClaimStillFits
    <3>1. tx'[d].req = tx[d].req  BY <2>1, <2>2
    <3>2. ~Active(tx[d].req.task) /\ Used(tx[d].req.actor) < Capacity
      <4>1. CASE d = c
        <5>1. r.op = "claim"  BY <2>1, <2>2, <4>1 DEF Claims
        <5> QED BY <1>4, <4>1, <5>1 DEF Workable
      <4>2. CASE d # c
        <5>1. Claims(d)  BY <2>1, <4>2 DEF Claims, At
        <5> QED BY <5>1 DEF ClaimStillFits
      <4> QED BY <4>1, <4>2
    <3> QED BY <1>0, <3>1, <3>2 DEF Active, Used
  <2>6. OwnersStillKnown'
    <3>1. r.op = "close" => \A a \in ActiveAgents : <<2, <<a, 0>>, "update">> \in WorkLocks(r)
      BY DEF WorkLocks
    <3>2. r.op = "transition" => Owners(r) \ {r.actor} \subseteq tx[c].found
      BY <1>4 DEF Workable, Discovered
    <3> QED BY <1>0, <2>1, <2>2, <3>1, <3>2
            DEF OwnersStillKnown, At, Discovered, Owners, ActiveAgents, Active
  <2>7. CapacityKept'  BY <1>0 DEF CapacityKept, Used
  <2> QED BY <1>2, <2>3, <2>4, <2>5, <2>6, <2>7
<1> QED BY <1>3, <1>4 DEF Lookup

-----------------------------------------------------------------------------
(* Commit *)

LEMMA UsedFinite ==
    ASSUME NEW f, NEW a
    PROVE  IsFiniteSet({t \in Task : f[t] = a})
  BY FS_Subset, CommandsAssumption

\* What a command writes to Attempts: a claim takes a free Task for its
\* actor, everything else only ends Attempts.
LEMMA EffectOnAttempts ==
    ASSUME TypeOK, Decided, NEW c \in Client, At(c, "work"), Effect(tx[c].req),
           tx[c].req \in Request
    PROVE  LET r == tx[c].req IN
           /\ \A t \in Task : attempt'[t] # attempt[t] =>
                \/ r.op \in {"claim", "transition"} /\ t = r.task
                \/ r.op = "close"
           /\ \A t \in Task :
                \/ attempt'[t] \in {attempt[t], 0}
                \/ r.op = "claim" /\ attempt'[t] = r.actor /\ t = r.task
           /\ r.op = "claim" => r.actor \in Agent /\ r.task \in Task
                                /\ attempt[r.task] = 0
           /\ r.op = "transition" => r.task \in Task
<1> DEFINE r == tx[c].req
<1>1. r.op = "claim" => r.actor \in Agent /\ r.task \in Task /\ attempt[r.task] = 0
  BY RequestFacts DEF Decided, ClaimStillFits, Claims, Active
<1>2. r.op = "transition" => r.task \in Task  BY RequestFacts
<1>3. CASE r.op = "claim"  BY <1>1, <1>3 DEF TypeOK, Effect
<1>4. CASE r.op = "transition"  BY <1>2, <1>4 DEF TypeOK, Effect
<1>5. CASE r.op = "close"  BY <1>5 DEF TypeOK, Effect
<1>6. CASE r.op \notin {"claim", "transition", "close"}
  <2>1. attempt' = attempt  BY <1>6 DEF Effect
  <2> QED BY <1>6, <2>1
<1> QED BY <1>3, <1>4, <1>5, <1>6

LEMMA CapacityStep ==
    ASSUME TypeOK, Decided, NEW c \in Client, At(c, "work"), Effect(tx[c].req),
           tx[c].req \in Request
    PROVE  /\ \A a \in Agent : (tx[c].req.op = "claim" => a # tx[c].req.actor) =>
                 Used(a)' <= Used(a) /\ Used(a)' \in Nat /\ Used(a) \in Nat
           /\ CapacityKept'
<1> DEFINE r == tx[c].req
           Of(a) == {t \in Task : attempt[t] = a}
           NewOf(a) == {t \in Task : attempt'[t] = a}
<1>1. ASSUME NEW a \in Agent, r.op = "claim" => a # r.actor
      PROVE  Used(a)' <= Used(a) /\ Used(a)' \in Nat /\ Used(a) \in Nat
  <2>1. NewOf(a) \subseteq Of(a)  BY <1>1, EffectOnAttempts, NatFacts
  <2>2. IsFiniteSet(Of(a))  BY UsedFinite
  <2> QED BY <2>1, <2>2, FS_Subset, FS_CardinalityType DEF Used
<1>2. ASSUME NEW a \in Agent, r.op = "claim", a = r.actor PROVE Used(a)' <= Capacity
  <2>1. r.actor \in Agent /\ r.task \in Task /\ attempt[r.task] = 0 /\ 0 \notin Agent
    BY <1>2, EffectOnAttempts, NatFacts
  <2>2. NewOf(a) = Of(a) \union {r.task}
    <3>1. attempt' = [attempt EXCEPT ![r.task] = r.actor]  BY <1>2 DEF Effect
    <3> QED BY <1>2, <2>1, <3>1 DEF TypeOK
  <2>3. r.task \notin Of(a) /\ IsFiniteSet(Of(a))  BY <2>1, UsedFinite
  <2> HIDE DEF Of, NewOf
  <2>4. Cardinality(NewOf(a)) = Cardinality(Of(a)) + 1
    BY <2>2, <2>3, FS_AddElement
  <2>5. Cardinality(Of(a)) < Capacity
    BY <1>2 DEF Decided, ClaimStillFits, Claims, Used, Of
  <2>6. Cardinality(Of(a)) \in Nat /\ Capacity \in Nat
    BY <2>3, FS_CardinalityType, CommandsAssumption
  <2> QED BY <2>4, <2>5, <2>6 DEF Used, NewOf
<1>3. CapacityKept'
  <2> SUFFICES ASSUME NEW a \in Agent PROVE Used(a)' <= Capacity  BY DEF CapacityKept
  <2>1. CASE r.op = "claim" /\ a = r.actor  BY <1>2, <2>1
  <2>2. CASE ~(r.op = "claim" /\ a = r.actor)
    <3>1. Used(a)' <= Used(a) /\ Used(a)' \in Nat /\ Used(a) \in Nat  BY <1>1, <2>2
    <3>2. Used(a) <= Capacity  BY DEF Decided, CapacityKept
    <3> QED BY <3>1, <3>2, CommandsAssumption
  <2> QED BY <2>1, <2>2
<1> QED BY <1>1, <1>3

LEMMA CommitStep ==
    ASSUME TypeOK, LockInv, Safety, NEW c \in Client, Commit(c)
    PROVE  Safety'
<1> DEFINE r == tx[c].req
           key == KeyOf(r)
<1>0. /\ At(c, "work") /\ ~At(c, "idle") /\ Working(c)
      /\ tx' = [tx EXCEPT ![c] = Idle]
  BY DEF Commit, Locked, At, Working, Release
<1>r. r \in Request /\ tx'[c] = Idle /\ \A d \in Client \ {c} : tx'[d] = tx[d]
  BY <1>0, StageFacts, NatFacts, StepOfOne DEF TypeOK
<1>1. CASE ~IsCommand(r)
  BY <1>0, <1>1, QuietStep DEF Commit, database, Idle, Safety, Accounts
<1>2. CASE IsCommand(r)
  <2> USE DEF Safety
  <2>0. /\ key \in Key /\ key \notin DOMAIN receipts /\ Effect(r)
        /\ effects' = [effects EXCEPT ![key] = effects[key] + 1]
        /\ answers' = [answers EXCEPT ![key] = @ \union
                         {<<r, effects[key] + 1, EpochOf(r)>>}]
        /\ receipts' = [k \in DOMAIN receipts \union {key} |->
             IF k = key THEN [req |-> r, epoch |-> EpochOf(r), result |-> effects[key] + 1]
             ELSE receipts[k]]
    BY <1>2, <1>r, KeyFacts DEF Commit
  <2>1. KeyHeld'
    <3> SUFFICES ASSUME NEW d \in Client \ {c}, At(d, "work"), IsCommand(tx[d].req)
                 PROVE  KeyOf(tx[d].req) # key
      BY <1>r, <2>0 DEF KeyHeld, At, Idle, Decided
    <3> QED BY <1>0, <1>2, KeyExclusion DEF Decided
  <2>2. ASSUME NEW d \in Client \ {c}, Working(d)
        PROVE  /\ authority' = authority
               /\ Standing(tx[d].req)'
               /\ tx[d].req.op # "close"
               /\ tx[d].req.op \in {"claim", "transition"} =>
                    attempt'[tx[d].req.task] = attempt[tx[d].req.task]
               /\ tx[d].req.op = "claim" /\ r.op = "claim" =>
                    tx[d].req.actor # r.actor
    <3>1. tx[d].req \in Request
      BY <2>2, StageFacts, NatFacts DEF Working, At
    <3>2. r.op \notin {"activate", "close"} /\ tx[d].req.op # "close"
      BY <1>0, <2>2, Exclusion
    <3>3. authority' = authority  BY <2>0, <3>2 DEF Effect
    <3>4. \A a \in AgentsOf(r, tx[c].found) : a \notin AgentsOf(tx[d].req, tx[d].found)
      BY <1>0, <2>2, Exclusion
    <3>5. \A p \in ProjectsOf(r) : p \notin ProjectsOf(tx[d].req)
      BY <1>0, <2>2, Exclusion
    <3>6. IsCommand(tx[d].req) /\ tx[d].req.actor # Operator =>
             tx[d].req.actor \in AgentsOf(tx[d].req, tx[d].found)
      BY <3>1, RequestFacts DEF AgentsOf
    <3>7. Standing(tx[d].req)
      BY <2>2 DEF Decided, StillAdmitted
    <3>8. enabled' = enabled \/ (r.op = "revoke" /\ enabled' = enabled \ {r.agent})
      BY <2>0 DEF Effect
    <3>9. Standing(tx[d].req)'
      <4>1. r.op = "revoke" => r.agent \in AgentsOf(r, tx[c].found)  BY DEF AgentsOf
      <4>2. tx'[d] = tx[d]  BY <1>r
      <4> QED BY <3>4, <3>6, <3>7, <3>8, <4>1, <4>2 DEF Standing
    <3>10. ASSUME tx[d].req.op \in {"claim", "transition"}
           PROVE  attempt'[tx[d].req.task] = attempt[tx[d].req.task]
      <4>1. tx[d].req.task \in Task  BY <3>1, <3>10, RequestFacts
      <4>2. r.op \in {"claim", "transition"} => ProjectOf[r.task] # ProjectOf[tx[d].req.task]
        BY <3>5, <3>10 DEF ProjectsOf
      <4> QED BY <1>0, <1>r, <2>0, <3>2, <4>1, <4>2, EffectOnAttempts
    <3>11. tx[d].req.op = "claim" /\ r.op = "claim" => tx[d].req.actor # r.actor
      <4>1. tx[d].req.op = "claim" => tx[d].req.actor # Operator
        BY <3>1, RequestFacts, NatFacts DEF Operator
      <4>2. tx[d].req.op = "claim" => IsCommand(tx[d].req)  BY DEF IsCommand
      <4>3. r.op = "claim" => (r.actor # Operator => r.actor \in AgentsOf(r, tx[c].found))
        BY DEF AgentsOf
      <4> QED BY <3>4, <3>6, <4>1, <4>2, <4>3
    <3> QED BY <3>2, <3>3, <3>9, <3>10, <3>11
  <2>3. StillAdmitted'
    BY <1>r, <2>2 DEF StillAdmitted, Working, Idle, Decided, Standing, Admitted
  <2>4. ClaimStillFits'
    <3> SUFFICES ASSUME NEW d \in Client \ {c}, Claims(d)
                 PROVE  /\ attempt'[tx[d].req.task] = 0
                        /\ Used(tx[d].req.actor)' < Capacity
      BY <1>r DEF ClaimStillFits, Claims, At, Idle, Active, Used
    <3>1. Working(d) /\ tx[d].req \in Request
      BY StageFacts, NatFacts DEF Claims, Working, At
    <3>2. attempt[tx[d].req.task] = 0 /\ Used(tx[d].req.actor) < Capacity
      BY DEF Decided, ClaimStillFits, Active
    <3>3. tx[d].req.actor \in Agent  BY <3>1, RequestFacts DEF Claims
    <3>4. r.op = "claim" => tx[d].req.actor # r.actor  BY <2>2, <3>1 DEF Claims
    <3>5. /\ Used(tx[d].req.actor)' <= Used(tx[d].req.actor)
          /\ Used(tx[d].req.actor)' \in Nat /\ Used(tx[d].req.actor) \in Nat
      BY <1>0, <1>r, <2>0, <3>3, <3>4, CapacityStep
    <3> QED BY <2>2, <3>1, <3>2, <3>5, CommandsAssumption DEF Claims
  <2>5. OwnersStillKnown'
    <3> SUFFICES ASSUME NEW d \in Client \ {c}, At(d, "work")
                 PROVE  /\ tx[d].req.op = "transition" => Discovered(d)'
                        /\ tx[d].req.op # "close"
      BY <1>r DEF OwnersStillKnown, At, Idle
    <3>1. Working(d)  BY DEF At, Working
    <3>2. tx[d].req.op = "transition" => Discovered(d)
      BY DEF Decided, OwnersStillKnown
    <3> QED BY <1>r, <2>2, <3>1, <3>2 DEF Discovered, Owners, Active
  <2>6. CapacityKept'  BY <1>0, <1>r, <2>0, CapacityStep
  <2>7. Accounts'
    <3>1. effects[key] = 0 /\ answers[key] = {}  BY <2>0 DEF Accounts
    <3>2. effects'[key] = 1 /\ \A k \in Key \ {key} : effects'[k] = effects[k]
      BY <2>0, <3>1 DEF TypeOK
    <3>3. answers'[key] = {<<r, 1, EpochOf(r)>>}
      BY <2>0, <3>1 DEF TypeOK
    <3>4. \A k \in Key \ {key} : answers'[k] = answers[k]  BY <2>0 DEF TypeOK
    <3>5. /\ DOMAIN receipts' = DOMAIN receipts \union {key}
          /\ receipts'[key] = [req |-> r, epoch |-> EpochOf(r), result |-> 1]
          /\ \A k \in DOMAIN receipts : receipts'[k] = receipts[k]
      BY <2>0, <3>1
    <3>6. IsExecution(r) => EpochOf(r) # 0  BY DEF EpochOf, TypeOK
    <3> QED BY <3>2, <3>3, <3>4, <3>5, <3>6 DEF Accounts
  <2> QED BY <2>1, <2>3, <2>4, <2>5, <2>6, <2>7 DEF Decided
<1> QED BY <1>1, <1>2

LEMMA SafetyStep == TypeOK /\ LockInv /\ Safety /\ [Next]_vars => Safety'
<1> SUFFICES ASSUME TypeOK, LockInv, Safety, [Next]_vars PROVE Safety'  OBVIOUS
<1>0. CASE UNCHANGED vars
  BY <1>0 DEF vars, Safety, Decided, KeyHeld, StillAdmitted, ClaimStillFits,
              OwnersStillKnown, Accounts, CapacityKept, At, Working, Standing, Admitted,
              Claims, Active, Used, Discovered, Owners, ActiveAgents
<1>a. ASSUME UNCHANGED database PROVE Accounts'
  BY <1>a DEF database, Safety, Accounts
<1>1. ASSUME NEW c \in Client, NEW r \in Requests, Begin(c, r) PROVE Safety'
  BY <1>1, <1>a, QuietStep DEF Begin, database, Safety
<1>2. ASSUME NEW c \in Client, NEW l, l \in tx[c].todo, Acquire(c, l) PROVE Safety'
  <2> DEFINE v == [tx[c] EXCEPT !.todo = tx[c].todo \ {l},
                                !.held = tx[c].held \union {l}]
  <2>1. /\ v.stage = tx[c].stage /\ v.req = tx[c].req /\ v.found = tx[c].found
        /\ v.todo = tx[c].todo \ {l} /\ v.held = tx[c].held \union {l}
    BY <1>2, StageFacts DEF Acquire
  <2>2. tx' = [tx EXCEPT ![c] = v] /\ UNCHANGED database  BY <1>2 DEF Acquire
  <2> HIDE DEF v
  <2> QED BY <1>a, <2>1, <2>2, QuietStep DEF database, Safety
<1>3. ASSUME NEW c \in Client, Authorize(c) PROVE Safety'
  BY <1>3, <1>a, AuthorizeStep DEF Authorize, Safety
<1>4. ASSUME NEW c \in Client, Lookup(c) PROVE Safety'  BY <1>4, LookupStep
<1>5. ASSUME NEW c \in Client, Commit(c) PROVE Safety'  BY <1>5, CommitStep
<1>6. ASSUME NEW c \in Client, Rollback(c) PROVE Safety'
  BY <1>6, <1>a, QuietStep DEF Rollback, Release, Idle, database, Safety
<1> QED BY <1>0, <1>1, <1>2, <1>3, <1>4, <1>5, <1>6 DEF Next, Step

Invariant == TypeOK /\ LockInv /\ Safety

LEMMA InvariantHolds == Spec => []Invariant
<1>1. Init => TypeOK /\ LockInv /\ Safety
  <2> SUFFICES ASSUME Init PROVE TypeOK /\ LockInv /\ Safety  OBVIOUS
  <2> USE DEF Init
  <2>1. TypeOK  BY DEF TypeOK, Transaction
  <2>2. \A c \in Client : tx[c].stage = "idle"  BY DEF Idle
  <2>3. LockInv  BY <2>2 DEF LockInv, HeldApart, ContextHeld, At, Working
  <2>4. Accounts  BY DEF Accounts
  <2>5. CapacityKept
    <3> SUFFICES ASSUME NEW a \in Agent PROVE Used(a) <= Capacity  BY DEF CapacityKept
    <3>1. {t \in Task : attempt[t] = a} = {}  BY NatFacts
    <3>2. Used(a) = 0  BY <3>1, FS_EmptySet DEF Used
    <3> QED BY <3>2, CommandsAssumption
  <2>6. /\ KeyHeld /\ StillAdmitted /\ ClaimStillFits /\ OwnersStillKnown
    BY <2>2 DEF KeyHeld, StillAdmitted, ClaimStillFits, OwnersStillKnown, At, Working, Claims
  <2> QED BY <2>1, <2>3, <2>4, <2>5, <2>6 DEF Safety, Decided
<1>2. (TypeOK /\ TypeOK') /\ LockInv /\ Safety /\ [Next]_vars => LockInv' /\ Safety'
  BY LocksStep, SafetyStep
<1> QED BY <1>1, <1>2, TypeCorrect, PTL DEF Spec, Invariant

-----------------------------------------------------------------------------
(* The theorems *)

\* A command is worked once, whoever sends it however often, and all its
\* senders are told the same.
THEOREM WorkedExactlyOnce == Spec => []ExactlyOnce
<1>1. Invariant => ExactlyOnce
  <2> SUFFICES ASSUME Invariant, NEW key \in Key
               PROVE  /\ effects[key] <= 1
                      /\ \A a, b \in answers[key] : a[1] = b[1] /\ a[2] = b[2]
                      /\ Cardinality({c \in Client : At(c, "work") /\ IsCommand(tx[c].req)
                                                          /\ KeyOf(tx[c].req) = key})
                           <= IF key \in DOMAIN receipts THEN 0 ELSE 1
    BY DEF ExactlyOnce
  <2> DEFINE W == {c \in Client : At(c, "work") /\ IsCommand(tx[c].req)
                                    /\ KeyOf(tx[c].req) = key}
  <2>1. effects[key] <= 1  BY DEF Invariant, Safety, Accounts
  <2>2. \A a, b \in answers[key] : a[1] = b[1] /\ a[2] = b[2]
    BY DEF Invariant, Safety, Accounts
  <2>3. key \in DOMAIN receipts => W = {}
    BY DEF Invariant, Safety, Decided, KeyHeld
  <2>4. \A c, d \in W : c = d
    BY KeyExclusion DEF Invariant, Safety, Decided
  <2>5. W = {} \/ \E c : W = {c}  BY <2>4
  <2> HIDE DEF W
  <2>6. W = {} => Cardinality(W) = 0  BY FS_EmptySet
  <2>7. (\E c : W = {c}) => Cardinality(W) = 1  BY FS_Singleton
  <2>8. Cardinality(W) <= IF key \in DOMAIN receipts THEN 0 ELSE 1
    BY <2>3, <2>5, <2>6, <2>7
  <2> QED BY <2>1, <2>2, <2>8 DEF W
<1> QED BY <1>1, InvariantHolds, PTL

\* An Agent's active Attempts stay within its capacity over all Projects.
THEOREM CapacityHolds == Spec => []CapacityKept
<1>1. Invariant => CapacityKept  BY DEF Invariant, Safety, Decided
<1> QED BY <1>1, InvariantHolds, PTL

\* Nobody is answered on a standing, an authority or an epoch that is gone.
THEOREM AnswersCurrent == Spec => AnswersAreCurrent
<1>1. Invariant /\ [Next]_vars =>
        [\A key \in Key : \A answer \in answers'[key] \ answers[key] :
            CurrentAnswer(answer[1])]_vars
  <2> SUFFICES ASSUME Invariant, Next, NEW key \in Key,
                      NEW answer \in answers'[key] \ answers[key]
               PROVE  CurrentAnswer(answer[1])
    OBVIOUS
  <2> USE DEF Invariant
  <2>0. answers' # answers  OBVIOUS
  <2>1. PICK c \in Client : Lookup(c) \/ Commit(c)
    BY <2>0 DEF Next, Step, Begin, Acquire, Authorize, Rollback, database
  <2> DEFINE r == tx[c].req
  <2>2. ~At(c, "idle") /\ Working(c)  BY <2>1 DEF Lookup, Commit, Locked, At, Working
  <2>3. r \in Request /\ Standing(r) /\ Admitted(r)
    BY <2>2, StageFacts, NatFacts DEF Safety, Decided, StillAdmitted
  <2>4. CASE Lookup(c)
    <3>1. /\ KeyOf(r) \in DOMAIN receipts /\ Replayable(r, receipts[KeyOf(r)])
          /\ answers' = [answers EXCEPT ![KeyOf(r)] = @ \union
                            {<<r, receipts[KeyOf(r)].result, EpochOf(r)>>}]
      BY <2>0, <2>4 DEF Lookup
    <3>2. IsCommand(r) /\ KeyOf(r) \in Key
      BY <2>3, <2>4, KeyFacts DEF Lookup, Locked, Safety, Decided, KeyHeld
    <3>3. answer[1] = r  BY <3>1 DEF TypeOK
    <3>4. IsExecution(r) => receipts[KeyOf(r)].epoch = authority.epoch
      BY <3>1, <3>2 DEF Replayable, Safety, Accounts
    <3> QED BY <2>3, <3>2, <3>3, <3>4 DEF CurrentAnswer, Standing, Admitted
  <2>5. CASE Commit(c)
    <3>1. /\ IsCommand(r) /\ KeyOf(r) \notin DOMAIN receipts
          /\ answers' = [answers EXCEPT ![KeyOf(r)] = @ \union
                            {<<r, effects[KeyOf(r)] + 1, EpochOf(r)>>}]
      BY <2>0, <2>5 DEF Commit, database
    <3>2. answer[1] = r  BY <3>1 DEF TypeOK
    <3> QED BY <2>3, <3>1, <3>2 DEF CurrentAnswer, Standing, Admitted
  <2> QED BY <2>1, <2>4, <2>5
<1> QED BY <1>1, InvariantHolds, PTL DEF Spec, AnswersAreCurrent

\* Whoever changes an Attempt has its Agent locked, close and transitions too.
THEOREM OwnersLocked == Spec => OwnersAreLocked
<1> DEFINE Changed ==
      \A t \in Task : attempt'[t] # attempt[t] =>
         \A a \in {attempt[t], attempt'[t]} \ {0} :
            \E c \in Client : /\ ~At(c, "idle") /\ tx'[c] = Idle
                              /\ \E l \in tx[c].held : Conflict(l, AgentLock(a))
<1>1. Invariant /\ [Next]_vars => [Changed]_vars
  <2> SUFFICES ASSUME Invariant, Next, NEW t \in Task, attempt'[t] # attempt[t],
                      NEW a \in {attempt[t], attempt'[t]} \ {0}
               PROVE  \E c \in Client : /\ ~At(c, "idle") /\ tx'[c] = Idle
                                        /\ \E l \in tx[c].held : Conflict(l, AgentLock(a))
    OBVIOUS
  <2> USE DEF Invariant
  <2>1. PICK c \in Client : Commit(c)
    BY DEF Next, Step, Begin, Acquire, Authorize, Lookup, Rollback, database
  <2> DEFINE r == tx[c].req
  <2>2. /\ ~At(c, "idle") /\ Working(c) /\ At(c, "work") /\ tx[c].todo = {}
        /\ tx'[c] = Idle
    BY <2>1, StepOfOne DEF Commit, Locked, At, Working, Release, TypeOK
  <2>3. r \in Request /\ Effect(r)
    BY <2>1, <2>2, StageFacts, NatFacts DEF Commit, database
  <2>4. \A b \in AgentsOf(r, tx[c].found) : AgentLock(b) \in tx[c].held
    BY <2>2 DEF LockInv, ContextHeld, ContextLocks
  <2>5. Conflict(AgentLock(a), AgentLock(a))  BY DEF Conflict, Compatible, AgentLock
  <2>6. CASE r.op = "close"
    <3>1. attempt'[t] = 0  BY <2>3, <2>6 DEF Effect
    <3>2. a \in ActiveAgents  BY <3>1 DEF ActiveAgents, Active
    <3>3. <<2, <<a, 0>>, "update">> \in tx[c].held
      BY <2>2, <2>6, <3>2 DEF Safety, Decided, OwnersStillKnown
    <3>4. Conflict(<<2, <<a, 0>>, "update">>, AgentLock(a))
      BY DEF Conflict, Compatible, AgentLock
    <3> QED BY <2>2, <3>3, <3>4
  <2>7. CASE r.op \in {"claim", "transition"} /\ t = r.task
    <3>1. r.op = "claim" => a = r.actor
      BY <2>2, <2>3, <2>7, EffectOnAttempts DEF Safety
    <3>2. r.op = "transition" => a \in Owners(r)
      BY <2>3, <2>7 DEF Effect, Owners, Active, TypeOK
    <3>3. r.op = "transition" => Owners(r) \ {r.actor} \subseteq tx[c].found
      BY <2>2 DEF Safety, Decided, OwnersStillKnown, Discovered
    <3>4. a \in AgentsOf(r, tx[c].found)
      BY <2>7, <3>1, <3>2, <3>3 DEF AgentsOf, Operator
    <3> QED BY <2>2, <2>4, <2>5, <3>4
  <2> QED BY <2>2, <2>3, <2>6, <2>7, EffectOnAttempts DEF Safety
<1> QED BY <1>1, InvariantHolds, PTL DEF Spec, OwnersAreLocked

-----------------------------------------------------------------------------
(* Nobody waits in a circle.  What orders the locks is (level, id); the    *)
(* references that work takes as its events come are outside this order,   *)
(* and so is all the work of a close, which is alone with the authority.   *)

Ordinary(l) == l[3] # "key share"

\* A transaction t that switches the authority, and so runs beside no other.
Alone(t) == AuthorityMode(t.req) = "update"

\* What a transaction t may lock, unless it is alone.
Planned(t) ==
    ContextLocks(t.req, t.found)
      \union (IF IsCommand(t.req) THEN {CommandLock(KeyOf(t.req))} ELSE {})
      \union {AgentReference(a) : a \in Agent}

\* A transaction asks for the locks of its context, then of its command, then
\* for references; only one that is alone asks for more.
Plans(t) ==
    /\ t.stage = "context" => t.todo \union t.held \subseteq ContextLocks(t.req, t.found)
    /\ ~Alone(t) => t.todo \union t.held \subseteq Planned(t)

\* Whoever holds anything holds the authority.
AuthorityFirst(t) == t.held = {} \/ AuthorityLock(AuthorityMode(t.req)) \in t.held

\* What is still to lock comes after all that is held.
Rising(t) ==
    ~Alone(t) => \A l \in t.todo, m \in t.held :
                    Ordinary(l) /\ Ordinary(m) => Precedes(m, l)

Orderly(t) == Plans(t) /\ AuthorityFirst(t) /\ Rising(t)
LockOrder == \A c \in Client : ~At(c, "idle") => Orderly(tx[c])

\* The locks of a context have a level and an id each of their own.
LEMMA ContextShape ==
    ASSUME NEW r \in Request, NEW found \in SUBSET Agent,
           NEW l \in ContextLocks(r, found)
    PROVE  /\ Ordinary(l)
           /\ \/ l = AuthorityLock(AuthorityMode(r))
              \/ l = GitHubLock
              \/ \E a \in Agent : l = AgentLock(a)
              \/ \E p \in Project : l = ProjectLock(p)
<1>1. AgentsOf(r, found) \subseteq Agent /\ ProjectsOf(r) \subseteq Project
  BY AgentsOfType, ProjectsOfType
<1>2. \/ l = AuthorityLock(AuthorityMode(r))
      \/ l = GitHubLock
      \/ \E a \in Agent : l = AgentLock(a)
      \/ \E p \in Project : l = ProjectLock(p)
  BY <1>1 DEF ContextLocks
<1>3. \A m : m # "key share" => Ordinary(AuthorityLock(m))  BY DEF Ordinary, AuthorityLock
<1>4. Ordinary(GitHubLock)  BY DEF Ordinary, GitHubLock
<1>5. \A a : Ordinary(AgentLock(a)) /\ Ordinary(ProjectLock(a))
  BY DEF Ordinary, AgentLock, ProjectLock
<1>6. AuthorityMode(r) # "key share"  BY DEF AuthorityMode
<1> QED BY <1>2, <1>3, <1>4, <1>5, <1>6

\* Where a lock stands decides which it is.
LEMMA Positions ==
    /\ \A m : AuthorityLock(m)[1] = 0 /\ AuthorityLock(m)[2][1] = 0
    /\ GitHubLock[1] = 1 /\ GitHubLock[2][1] = 0
    /\ \A a : AgentLock(a)[1] = 2 /\ AgentLock(a)[2][1] = a
    /\ \A a : AgentReference(a)[1] = 2 /\ AgentReference(a)[2][1] = a
    /\ \A p : ProjectLock(p)[1] = 3 /\ ProjectLock(p)[2][1] = p
    /\ \A r : CommandLock(KeyOf(r))[1] = 4 /\ CommandLock(KeyOf(r))[2][1] = r.actor
  BY DEF AuthorityLock, GitHubLock, AgentLock, AgentReference, ProjectLock,
         CommandLock, KeyOf

LEMMA ContextLevel ==
    ASSUME NEW r \in Request, NEW found \in SUBSET Agent,
           NEW l \in ContextLocks(r, found)
    PROVE  /\ l = AuthorityLock(AuthorityMode(r)) \/ l[1] \in {1, 2, 3}
           /\ l[1] \in {0, 1, 2, 3}
<1>1. CASE l = AuthorityLock(AuthorityMode(r))  BY <1>1, Positions
<1>2. CASE l = GitHubLock  BY <1>2, Positions
<1>3. CASE \E a \in Agent : l = AgentLock(a)  BY <1>3, Positions
<1>4. CASE \E p \in Project : l = ProjectLock(p)  BY <1>4, Positions
<1> QED BY <1>1, <1>2, <1>3, <1>4, ContextShape

LEMMA PlannedShape ==
    ASSUME NEW t, t.req \in Request, t.found \in SUBSET Agent,
           NEW l \in Planned(t), Ordinary(l)
    PROVE  \/ l = AuthorityLock(AuthorityMode(t.req))
           \/ l = GitHubLock
           \/ \E a \in Agent : l = AgentLock(a)
           \/ \E p \in Project : l = ProjectLock(p)
           \/ l = CommandLock(KeyOf(t.req)) /\ IsCommand(t.req)
<1>2. \A a : ~Ordinary(AgentReference(a))  BY DEF Ordinary, AgentReference
<1>3. CASE l \in ContextLocks(t.req, t.found)  BY <1>3, ContextShape
<1>4. CASE l \notin ContextLocks(t.req, t.found)  BY <1>2, <1>4 DEF Planned
<1> QED BY <1>3, <1>4

LEMMA PlannedPosition ==
    ASSUME NEW t, t.req \in Request, t.found \in SUBSET Agent,
           NEW l \in Planned(t)
    PROVE  l[1] \in 0 .. 4 /\ l[2][1] \in 0 .. Agents + Projects
<1>2. IsCommand(t.req) => t.req.actor \in Actor  BY RequestFacts
<1>3. /\ Agents \in Nat /\ Projects \in Nat /\ Agent \subseteq 0 .. Agents + Projects
      /\ Project \subseteq 0 .. Agents + Projects /\ Actor \subseteq 0 .. Agents + Projects
      /\ 0 \in 0 .. Agents + Projects
  BY CommandsAssumption DEF Agent, Project, Actor, Operator
<1>4. {0, 1, 2, 3, 4} \subseteq 0 .. 4  OBVIOUS
<1>5. CASE l = AuthorityLock(AuthorityMode(t.req))  BY <1>3, <1>4, <1>5, Positions
<1>6. CASE l = GitHubLock  BY <1>3, <1>4, <1>6, Positions
<1>7. CASE \E a \in Agent : l = AgentLock(a)  BY <1>3, <1>4, <1>7, Positions
<1>8. CASE \E p \in Project : l = ProjectLock(p)  BY <1>3, <1>4, <1>8, Positions
<1>9. CASE l = CommandLock(KeyOf(t.req)) /\ IsCommand(t.req)
  BY <1>2, <1>3, <1>4, <1>9, Positions
<1>10. CASE \E a \in Agent : l = AgentReference(a)  BY <1>3, <1>4, <1>10, Positions
<1>11. Ordinary(l) \/ \E a \in Agent : l = AgentReference(a)
  <2>1. Ordinary(CommandLock(KeyOf(t.req)))  BY DEF Ordinary, CommandLock
  <2> QED BY <2>1, ContextShape DEF Planned
<1> QED BY <1>5, <1>6, <1>7, <1>8, <1>9, <1>10, <1>11, PlannedShape

\* Of two ordinary locks a transaction plans, one comes first.
LEMMA PlannedLinear ==
    ASSUME NEW t, t.req \in Request, t.found \in SUBSET Agent,
           NEW l \in Planned(t), NEW m \in Planned(t),
           Ordinary(l), Ordinary(m), l # m
    PROVE  Precedes(l, m) \/ Precedes(m, l)
<1>1. l[1] # m[1] \/ l[2][1] # m[2][1]
  <2> SUFFICES ASSUME l[1] = m[1], l[2][1] = m[2][1] PROVE FALSE  OBVIOUS
  <2> DEFINE r == t.req
             Shape(x) == \/ x = AuthorityLock(AuthorityMode(r))
                         \/ x = GitHubLock
                         \/ \E a \in Agent : x = AgentLock(a)
                         \/ \E p \in Project : x = ProjectLock(p)
                         \/ x = CommandLock(KeyOf(r)) /\ IsCommand(r)
  <2>1. Shape(l) /\ Shape(m)  BY PlannedShape
  <2>2. \A x : Shape(x) =>
          /\ x[1] = 0 => x = AuthorityLock(AuthorityMode(r))
          /\ x[1] = 1 => x = GitHubLock
          /\ x[1] = 2 => x = AgentLock(x[2][1])
          /\ x[1] = 3 => x = ProjectLock(x[2][1])
          /\ x[1] = 4 => x = CommandLock(KeyOf(r))
          /\ x[1] \in {0, 1, 2, 3, 4}
    BY Positions
  <2> HIDE DEF Shape
  <2> QED BY <2>1, <2>2
<1>2. /\ l[1] \in 0 .. 4 /\ l[2][1] \in 0 .. Agents + Projects
      /\ m[1] \in 0 .. 4 /\ m[2][1] \in 0 .. Agents + Projects
  BY PlannedPosition
<1> QED BY <1>1, <1>2 DEF Precedes

-----------------------------------------------------------------------------
(* The order is kept, each step by the transaction that takes it *)

\* Beginning: everything is still to be locked.
LEMMA BeginOrderly ==
    ASSUME NEW r \in Request, NEW found \in SUBSET Agent
    PROVE  Orderly([stage |-> "context", req |-> r, found |-> found,
                    todo |-> ContextLocks(r, found), held |-> {}])
  BY DEF Orderly, Plans, AuthorityFirst, Rising, Planned

\* Taking the next lock: the lowest of all, or a reference.
LEMMA AcquireOrderly ==
    ASSUME NEW t, NEW v, NEW l \in NextLocks(t.todo),
           t.req \in Request, t.found \in SUBSET Agent, Orderly(t),
           t.stage = "context" \/ AuthorityLock(AuthorityMode(t.req)) \in t.held,
           ContextLocks(t.req, t.found) \subseteq t.todo \union t.held,
           v.stage = t.stage, v.req = t.req, v.found = t.found,
           v.todo = t.todo \ {l}, v.held = t.held \union {l}
    PROVE  Orderly(v)
<1>0. /\ l \in t.todo
      /\ Ordinary(l) => \A m \in t.todo : ~Precedes(m, l)
  BY DEF NextLocks, Ordinary
<1>1. Plans(v)  BY <1>0 DEF Orderly, Plans, Planned, Alone
<1>2. AuthorityFirst(v)
  <2> DEFINE first == AuthorityLock(AuthorityMode(t.req))
  <2>1. CASE first \in t.held  BY <2>1 DEF AuthorityFirst
  <2>2. CASE first \notin t.held
    <3>1. first \in ContextLocks(t.req, t.found)  BY DEF ContextLocks
    <3>2. t.stage = "context" /\ first \in t.todo  BY <2>2, <3>1
    <3>3. l \in ContextLocks(t.req, t.found)  BY <1>0, <3>2 DEF Orderly, Plans
    <3>4. ~Precedes(first, l)  BY <1>0, <3>2, <3>3, ContextShape
    <3>5. l = first
      <4>1. first[1] = 0  BY Positions
      <4>2. l = first \/ l[1] \in {1, 2, 3}  BY <3>3, ContextLevel
      <4> QED BY <3>4, <4>1, <4>2 DEF Precedes
    <3> QED BY <3>5 DEF AuthorityFirst
  <2> QED BY <2>1, <2>2
<1>3. Rising(v)
  <2> SUFFICES ASSUME ~Alone(t), NEW n \in v.todo, NEW m \in v.held,
                      Ordinary(n), Ordinary(m)
               PROVE  Precedes(m, n)
    BY DEF Rising, Alone
  <2>1. n \in t.todo /\ n # l  OBVIOUS
  <2>2. CASE m \in t.held  BY <2>1, <2>2 DEF Orderly, Rising
  <2>3. CASE m = l
    <3>1. l \in Planned(t) /\ n \in Planned(t)  BY <1>0, <2>1 DEF Orderly, Plans
    <3>2. ~Precedes(n, l)  BY <1>0, <2>1, <2>3
    <3> QED BY <2>1, <2>3, <3>1, <3>2, PlannedLinear
  <2> QED BY <2>2, <2>3
<1> QED BY <1>1, <1>2, <1>3 DEF Orderly

\* Moving on to the receipt, with nothing below a command left to lock.
LEMMA ReceiptOrderly ==
    ASSUME NEW t, NEW v, t.req \in Request, t.found \in SUBSET Agent, Orderly(t),
           t.stage = "context", t.todo = {}, IsCommand(t.req),
           v.stage = "receipt", v.req = t.req, v.found = t.found, v.held = t.held,
           v.todo = {CommandLock(KeyOf(t.req))} \ t.held
    PROVE  Orderly(v)
<1>1. t.held \subseteq ContextLocks(t.req, t.found)  BY DEF Orderly, Plans
<1>2. Plans(v)  BY <1>1 DEF Plans, Planned
<1>3. AuthorityFirst(v)  BY DEF Orderly, AuthorityFirst
<1>4. Rising(v)
  <2> SUFFICES ASSUME NEW m \in t.held PROVE Precedes(m, CommandLock(KeyOf(t.req)))
    BY DEF Rising
  <2>1. m[1] \in {0, 1, 2, 3}  BY <1>1, ContextLevel
  <2>2. CommandLock(KeyOf(t.req))[1] = 4  BY Positions
  <2> QED BY <2>1, <2>2 DEF Precedes
<1> QED BY <1>2, <1>3, <1>4 DEF Orderly

\* Starting the work: only references are added, or the transaction is alone.
LEMMA WorkOrderly ==
    ASSUME TypeOK, NEW t, NEW v, t.req \in Request, t.found \in SUBSET Agent, Orderly(t),
           t.todo = {},
           v.stage = "work", v.req = t.req, v.found = t.found, v.held = t.held,
           v.todo = WorkLocks(t.req) \ t.held
    PROVE  Orderly(v)
<1>1. ~Alone(t) => WorkLocks(t.req) \subseteq {AgentReference(a) : a \in Agent}
  BY ProjectsOfType, NatFacts DEF Alone, AuthorityMode, WorkLocks
<1>2. Plans(v)  BY <1>1 DEF Orderly, Plans, Planned, Alone
<1>3. AuthorityFirst(v)  BY DEF Orderly, AuthorityFirst
<1>4. Rising(v)
  <2>1. \A a : ~Ordinary(AgentReference(a))  BY DEF Ordinary, AgentReference
  <2> QED BY <1>1, <2>1 DEF Rising, Alone
<1> QED BY <1>2, <1>3, <1>4 DEF Orderly

LEMMA LockOrderStep ==
    Invariant /\ LockOrder /\ [Next]_vars => LockOrder'
<1> SUFFICES ASSUME Invariant, LockOrder, [Next]_vars PROVE LockOrder'  OBVIOUS
<1> USE DEF Invariant
<1>a. tx \in [Client -> Transaction]  BY DEF TypeOK
<1>b. ASSUME NEW c \in Client, NEW v, tx' = [tx EXCEPT ![c] = v],
             v.stage = "idle" \/ Orderly(v)
      PROVE  LockOrder'
  <2>1. tx'[c] = v /\ \A d \in Client \ {c} : tx'[d] = tx[d]  BY <1>a, <1>b, StepOfOne
  <2> QED BY <1>b, <2>1 DEF LockOrder, At
<1>c. ASSUME NEW c \in Client, ~At(c, "idle")
      PROVE  /\ tx[c].req \in Requests /\ tx[c].req \in Request
             /\ tx[c].found \in SUBSET Agent /\ tx[c].stage \in Stages /\ Orderly(tx[c])
  BY <1>c, StageFacts, NatFacts DEF LockOrder
<1>d. Idle.stage = "idle"  BY DEF Idle
<1>0. CASE UNCHANGED vars  BY <1>0 DEF vars, LockOrder, At
<1>1. ASSUME NEW c \in Client, NEW r \in Requests, Begin(c, r) PROVE LockOrder'
  <2>1. r \in Request  BY NatFacts
  <2>2. Owners(r) \in SUBSET Agent  BY <2>1, OwnersType
  <2> QED BY <1>1, <1>b, <2>1, <2>2, BeginOrderly DEF Begin
<1>2. ASSUME NEW c \in Client, NEW l, l \in tx[c].todo, Acquire(c, l) PROVE LockOrder'
  <2> DEFINE v == [tx[c] EXCEPT !.todo = tx[c].todo \ {l},
                                !.held = tx[c].held \union {l}]
  <2>1. /\ ~At(c, "idle") /\ l \in NextLocks(tx[c].todo)
        /\ tx' = [tx EXCEPT ![c] = v]
    BY <1>2 DEF Acquire
  <2>2. /\ v.stage = tx[c].stage /\ v.req = tx[c].req /\ v.found = tx[c].found
        /\ v.todo = tx[c].todo \ {l} /\ v.held = tx[c].held \union {l}
    BY <2>1, StageFacts
  <2> HIDE DEF v
  <2>3. ContextLocks(tx[c].req, tx[c].found) \subseteq tx[c].todo \union tx[c].held
    BY <1>c, <2>1 DEF LockInv, ContextHeld, At, Working, Stages
  <2>4. tx[c].stage = "context" \/ AuthorityLock(AuthorityMode(tx[c].req)) \in tx[c].held
    BY <1>c, <2>1 DEF LockInv, ContextHeld, At, Working, Stages, ContextLocks
  <2>5. Orderly(v)  BY <1>c, <2>1, <2>2, <2>3, <2>4, AcquireOrderly
  <2> QED BY <1>b, <2>1, <2>5
<1>3. ASSUME NEW c \in Client, tx' = [tx EXCEPT ![c] = Idle] PROVE LockOrder'
  BY <1>3, <1>b, <1>d
<1>4. ASSUME NEW c \in Client, ~At(c, "idle"), tx[c].todo = {},
             Enter(c, "work", WorkLocks(tx[c].req))
      PROVE  LockOrder'
  <2> DEFINE v == [tx[c] EXCEPT !.stage = "work",
                                !.todo = WorkLocks(tx[c].req) \ tx[c].held]
  <2>1. tx' = [tx EXCEPT ![c] = v]  BY <1>4 DEF Enter
  <2>2. /\ v.stage = "work" /\ v.req = tx[c].req /\ v.found = tx[c].found
        /\ v.todo = WorkLocks(tx[c].req) \ tx[c].held /\ v.held = tx[c].held
    BY <1>4, StageFacts
  <2> HIDE DEF v
  <2> QED BY <1>b, <1>c, <1>4, <2>1, <2>2, WorkOrderly
<1>5. ASSUME NEW c \in Client, Authorize(c) PROVE LockOrder'
  <2>0. ~At(c, "idle") /\ tx[c].stage = "context" /\ tx[c].todo = {}
    BY <1>5 DEF Authorize, Locked, At
  <2>1. CASE Release(c)  BY <1>3, <2>1 DEF Release
  <2>2. CASE Enter(c, "work", WorkLocks(tx[c].req))  BY <1>4, <2>0, <2>2
  <2>3. CASE IsCommand(tx[c].req) /\ Enter(c, "receipt", {CommandLock(KeyOf(tx[c].req))})
    <3> DEFINE v == [tx[c] EXCEPT !.stage = "receipt",
                       !.todo = {CommandLock(KeyOf(tx[c].req))} \ tx[c].held]
    <3>1. tx' = [tx EXCEPT ![c] = v]  BY <2>3 DEF Enter
    <3>2. /\ v.stage = "receipt" /\ v.req = tx[c].req /\ v.found = tx[c].found
          /\ v.todo = {CommandLock(KeyOf(tx[c].req))} \ tx[c].held
          /\ v.held = tx[c].held
      BY <2>0, StageFacts
    <3> HIDE DEF v
    <3> QED BY <1>b, <1>c, <2>0, <2>3, <3>1, <3>2, ReceiptOrderly
  <2> QED BY <1>5, <2>1, <2>2, <2>3 DEF Authorize
<1>6. ASSUME NEW c \in Client, Lookup(c) PROVE LockOrder'
  BY <1>3, <1>4, <1>6 DEF Lookup, Locked, At, Release
<1>7. ASSUME NEW c \in Client, Commit(c) PROVE LockOrder'
  BY <1>3, <1>7 DEF Commit, Release
<1>8. ASSUME NEW c \in Client, Rollback(c) PROVE LockOrder'
  BY <1>3, <1>8 DEF Rollback, Release
<1> QED BY <1>0, <1>1, <1>2, <1>5, <1>6, <1>7, <1>8 DEF Next, Step

-----------------------------------------------------------------------------
(* From the order to the absence of circles *)

\* A set of naturals that is not empty has a least element.
LEMMA LeastNat ==
    ASSUME NEW T \in SUBSET Nat, T # {}
    PROVE  \E n \in T : \A m \in T : n <= m
<1> DEFINE R == {ss \in Nat \X Nat : ss[1] < ss[2]}
<1>1. IsWellFoundedOn(R, Nat)  BY NatLessThanWellFounded DEF OpToRel
<1>2. \A x, y \in Nat : x < y => <<x, y>> \in R  OBVIOUS
<1> HIDE DEF R
<1>3. PICK n \in T : \A m \in T : <<m, n>> \notin R  BY <1>1, WFMin
<1>4. \A m \in T : ~(m < n)  BY <1>2, <1>3
<1> QED BY <1>4

\* One that is bounded has a greatest.
LEMMA GreatestNat ==
    ASSUME NEW K \in Nat, NEW T \in SUBSET (0 .. K), T # {}
    PROVE  \E n \in T : \A m \in T : m <= n
<1> DEFINE U == {K - n : n \in T}
<1>0. \A n \in 0 .. K : K - n \in Nat  OBVIOUS
<1>1. U \in SUBSET Nat /\ U # {}  BY <1>0
<1>2. PICK u \in U : \A v \in U : u <= v  BY <1>1, LeastNat
<1>3. PICK n \in T : u = K - n  BY <1>2
<1>4. \A m \in T : K - n <= K - m  BY <1>2, <1>3
<1> QED BY <1>4

\* No set of positions rises for ever.
LEMMA NoEndlessRise ==
    ASSUME NEW I \in Nat, NEW K \in Nat, NEW W, W # {},
           \A l \in W : l[1] \in 0 .. I /\ l[2][1] \in 0 .. K
    PROVE  \E l \in W : \A m \in W : ~Precedes(l, m)
<1> DEFINE Levels == {l[1] : l \in W}
<1>1. PICK i \in Levels : \A j \in Levels : j <= i
  <2>1. Levels \in SUBSET (0 .. I) /\ Levels # {}  OBVIOUS
  <2> HIDE DEF Levels
  <2> QED BY <2>1, GreatestNat
<1> DEFINE Top == {l \in W : l[1] = i}
           Numbers == {l[2][1] : l \in Top}
<1>2. PICK k \in Numbers : \A j \in Numbers : j <= k
  <2>1. Numbers \in SUBSET (0 .. K) /\ Numbers # {}  BY <1>1
  <2> HIDE DEF Numbers
  <2> QED BY <2>1, GreatestNat
<1>3. PICK l \in Top : l[2][1] = k  BY <1>2
<1>4. ASSUME NEW m \in W PROVE ~Precedes(l, m)
  <2>1. m[1] <= i /\ l[1] = i /\ m[1] \in 0 .. I /\ l[1] \in 0 .. I  BY <1>1, <1>3
  <2>2. m[1] = i => m[2][1] <= l[2][1] /\ m[2][1] \in 0 .. K /\ l[2][1] \in 0 .. K
    BY <1>2, <1>3
  <2> QED BY <2>1, <2>2 DEF Precedes
<1> QED BY <1>3, <1>4

\* Who is waited for holds something, and is held up by its next lock, which
\* comes after what it holds; none of them is alone with the authority.
LEMMA WaitRises ==
    ASSUME Invariant, LockOrder,
           NEW c \in Client, NEW d \in Client, NEW e \in Client, c # d, d # e,
           NEW l \in NextLocks(tx[c].todo), NEW m \in tx[d].held, Conflict(l, m),
           ~At(c, "idle"), ~At(d, "idle"), ~At(e, "idle"),
           ~Alone(tx[c]), ~Alone(tx[d]), ~Alone(tx[e]),
           NEW n \in NextLocks(tx[d].todo), NEW k \in tx[e].held, Conflict(n, k)
    PROVE  Precedes(l, n)
<1> USE DEF Invariant
<1>1. ASSUME NEW x \in Client, ~At(x, "idle"), ~Alone(tx[x]),
             NEW y \in Client, ~At(y, "idle"), ~Alone(tx[y]),
             NEW a \in tx[x].todo \union tx[x].held, NEW b \in tx[y].todo \union tx[y].held,
             Conflict(a, b)
      PROVE  Ordinary(a) /\ Ordinary(b)
  <2>0. \A z : Ordinary(AuthorityLock(z)) <=> z # "key share"
    BY DEF Ordinary, AuthorityLock
  <2>1. ASSUME NEW z \in Client, ~At(z, "idle"), ~Alone(tx[z]),
               NEW g \in tx[z].todo \union tx[z].held
        PROVE  /\ g[1] = 2 => g[3] # "update"
               /\ ~Ordinary(g) => g[1] = 2
    <3>1. g \in Planned(tx[z])  BY <2>1 DEF LockOrder, Orderly, Plans
    <3>2. tx[z].req \in Request /\ tx[z].found \in SUBSET Agent
      BY <2>1, StageFacts, NatFacts
    <3>3. CASE Ordinary(g)
      <4>1. \/ g[1] \in {0, 1, 3, 4}
            \/ \E i \in Agent : g = AgentLock(i)
        <5>1. \/ g = AuthorityLock(AuthorityMode(tx[z].req))
              \/ g = GitHubLock
              \/ \E i \in Agent : g = AgentLock(i)
              \/ \E p \in Project : g = ProjectLock(p)
              \/ g = CommandLock(KeyOf(tx[z].req))
          BY <3>1, <3>2, <3>3, PlannedShape
        <5>2. CASE \E p \in Project : g = ProjectLock(p)  BY <5>2, Positions
        <5> QED BY <5>1, <5>2, Positions
      <4>2. \A i : AgentLock(i)[3] # "update"  BY DEF AgentLock
      <4> QED BY <3>3, <4>1, <4>2
    <3>4. CASE ~Ordinary(g)
      <4>1. Ordinary(CommandLock(KeyOf(tx[z].req)))  BY DEF Ordinary, CommandLock
      <4>2. \E i \in Agent : g = AgentReference(i)
        BY <3>1, <3>2, <3>4, <4>1, ContextShape DEF Planned
      <4>3. \A i : AgentReference(i)[3] # "update"  BY DEF AgentReference
      <4> QED BY <4>2, <4>3, Positions
    <3> QED BY <3>3, <3>4
  <2>2. a[1] = b[1] /\ ~Compatible(a[3], b[3])  BY <1>1 DEF Conflict
  <2>3. /\ a[1] = 2 => a[3] # "update"
        /\ ~Ordinary(a) => a[1] = 2
    BY <1>1, <2>1
  <2>4. /\ b[1] = 2 => b[3] # "update"
        /\ ~Ordinary(b) => b[1] = 2
    BY <1>1, <2>1
  <2> QED BY <2>2, <2>3, <2>4 DEF Ordinary, Compatible
<1>2. l \in tx[c].todo /\ n \in tx[d].todo  BY DEF NextLocks
<1>3. Ordinary(m)  BY <1>1, <1>2
<1>4. Ordinary(n)  BY <1>1, <1>2
<1>5. Precedes(m, n)  BY <1>2, <1>3, <1>4 DEF LockOrder, Orderly, Rising
<1>6. l[1] = m[1] /\ l[2] = m[2]  BY DEF Conflict
<1> QED BY <1>5, <1>6 DEF Precedes

LEMMA OrderExcludesCircles == Invariant /\ LockOrder => NoWaitCycle
<1> SUFFICES ASSUME Invariant, LockOrder, NEW S \in SUBSET Client, S # {},
                    \A c \in S : \E d \in S \ {c} : Waits(c, d)
             PROVE  FALSE
  BY DEF NoWaitCycle
<1> USE DEF Invariant
\* Those of S that somebody in S waits for.
<1> DEFINE H == {d \in S : tx[d].held # {}}
<1>1. \A c \in S : ~At(c, "idle") /\ \E d \in H : d # c /\ Waits(c, d)
  BY DEF Waits
<1>2. \A d \in H : AuthorityLock(AuthorityMode(tx[d].req)) \in tx[d].held
  BY <1>1 DEF LockOrder, Orderly, AuthorityFirst
\* One that is alone with the authority finds nobody to wait for.
<1>3. \A d \in H : ~Alone(tx[d])
  <2> SUFFICES ASSUME NEW d \in H, Alone(tx[d]) PROVE FALSE  OBVIOUS
  <2>1. PICK e \in H : e # d  BY <1>1
  <2>2. /\ AuthorityLock("update") \in tx[d].held
        /\ AuthorityLock(AuthorityMode(tx[e].req)) \in tx[e].held
        /\ ~At(d, "idle") /\ ~At(e, "idle")
    BY <1>1, <1>2 DEF Alone
  <2>3. \A mode \in {"share", "update"} :
          Conflict(AuthorityLock("update"), AuthorityLock(mode))
    BY DEF Conflict, Compatible, AuthorityLock
  <2>4. AuthorityMode(tx[e].req) \in {"share", "update"}  BY DEF AuthorityMode
  <2> QED BY <2>1, <2>2, <2>3, <2>4 DEF LockInv, HeldApart
\* The locks that these wait for.
<1> DEFINE W == {l \in UNION {NextLocks(tx[c].todo) : c \in H} :
                   \E c \in H, d \in H : /\ c # d /\ l \in NextLocks(tx[c].todo)
                                         /\ \E m \in tx[d].held : Conflict(l, m)}
<1>4. \A c \in H : \E d \in H, l \in NextLocks(tx[c].todo) :
         c # d /\ \E m \in tx[d].held : Conflict(l, m)
  BY <1>1 DEF Waits
<1>5. W # {}
  <2>1. PICK c \in S : TRUE  OBVIOUS
  <2>2. PICK c1 \in H : TRUE  BY <1>1, <2>1
  <2> QED BY <1>4, <2>2
<1>6. \A l \in W : \E n \in W : Precedes(l, n)
  <2> SUFFICES ASSUME NEW l \in W PROVE \E n \in W : Precedes(l, n)  OBVIOUS
  <2>1. PICK c \in H, d \in H : /\ c # d /\ l \in NextLocks(tx[c].todo)
                                /\ \E m \in tx[d].held : Conflict(l, m)
    OBVIOUS
  <2>2. PICK m \in tx[d].held : Conflict(l, m)  BY <2>1
  <2>3. PICK e \in H, n \in NextLocks(tx[d].todo) :
           d # e /\ \E k \in tx[e].held : Conflict(n, k)
    BY <1>4
  <2>4. PICK k \in tx[e].held : Conflict(n, k)  BY <2>3
  <2>5. n \in W  BY <2>3
  <2>6. /\ ~At(c, "idle") /\ ~At(d, "idle") /\ ~At(e, "idle")
        /\ ~Alone(tx[c]) /\ ~Alone(tx[d]) /\ ~Alone(tx[e])
        /\ c \in Client /\ d \in Client /\ e \in Client
    BY <1>1, <1>3
  <2> HIDE DEF H, W
  <2>7. Precedes(l, n)  BY <2>1, <2>2, <2>3, <2>4, <2>6, WaitRises
  <2> QED BY <2>5, <2>7
<1>7. \A l \in W : l[1] \in 0 .. 4 /\ l[2][1] \in 0 .. Agents + Projects
  <2> SUFFICES ASSUME NEW l \in W
               PROVE  l[1] \in 0 .. 4 /\ l[2][1] \in 0 .. Agents + Projects
    OBVIOUS
  <2>1. PICK c \in H : l \in NextLocks(tx[c].todo)  OBVIOUS
  <2>2. l \in Planned(tx[c])
    BY <1>1, <1>3, <2>1 DEF NextLocks, LockOrder, Orderly, Plans
  <2>3. tx[c].req \in Request /\ tx[c].found \in SUBSET Agent
    BY <1>1, StageFacts, NatFacts
  <2> HIDE DEF H, W
  <2> QED BY <2>2, <2>3, PlannedPosition
<1>8. 4 \in Nat /\ Agents + Projects \in Nat  BY CommandsAssumption
<1> HIDE DEF W
<1> QED BY <1>5, <1>6, <1>7, <1>8, NoEndlessRise

\* design.md's lock order: no transactions ever wait for each other in a
\* circle, however many run, for whatever Agents and Projects.
THEOREM NobodyWaitsInCircles == Spec => []NoWaitCycle
<1>1. Init => LockOrder  BY DEF Init, LockOrder, At, Idle
<1>2. Invariant /\ LockOrder /\ [Next]_vars => LockOrder'  BY LockOrderStep
<1>3. Invariant /\ LockOrder => NoWaitCycle  BY OrderExcludesCircles
<1> QED BY <1>1, <1>2, <1>3, InvariantHolds, PTL DEF Spec

=============================================================================
