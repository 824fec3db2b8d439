---------------------------- MODULE CodexSession ----------------------------
(***************************************************************************)
(* A Codex Session (session.ex): one GenServer that owns one connection at *)
(* a time, composed with the process each connection owns (OwnedProcess).  *)
(* Callers send requests under ids they may choose themselves and wait;    *)
(* the upstream answers, late or never, and asks prompts of its own, which *)
(* the Session's owner answers by handle.  Every way out of a connection   *)
(* goes through disconnect, which fails what is pending, remembers the     *)
(* mutations as uncertain and closes the transport.                        *)
(*                                                                         *)
(* A handler is one step, except that closing the transport waits for the  *)
(* Owner: between BeginDisconnect and Closed the Session takes nothing     *)
(* else.  Payloads, schema validation and the event queue are abstracted   *)
(* to the choices they lead to (an event that overflows disconnects).      *)
(* Every prompt carries the same wire id, the worst case, because the      *)
(* upstream counts from the start in every process.                        *)
(***************************************************************************)
EXTENDS OwnedProcess, FiniteSets, Functions

CONSTANTS
    Requests, Mutation,   \* bound: calls of request/4; those that change things
    Id,                   \* the request ids callers choose from
    Prompts,              \* bound: requests of the upstream
    MaxPending, MaxUncertain, MaxOutcomes,     \* options of the Session
    MaxAsks               \* bound: requests and prompts of a behaviour

ASSUME SessionAssumption ==
    /\ Requests \in Nat /\ Prompts \in Nat
    /\ Mutation \subseteq 1 .. Requests
    /\ {MaxPending, MaxUncertain, MaxOutcomes, MaxAsks} \subseteq Nat \ {0}

\* Calls and prompts are numbered in the order they are made.
Request == 1 .. Requests
Prompt == 1 .. Prompts

VARIABLES
    phase, connection, generation,
    closing,       \* "no", or what follows the close that is under way
    pending,       \* id -> the request sent under it
    used,          \* ids of this connection
    uncertain,     \* id -> the mutation whose outcome nobody knows
    due,           \* <<id, request>>: deadline messages in the mailbox
    call,          \* what the caller of a request has got
    upstream,      \* [gen, id, req]: requests the upstream has not answered
    replies,       \* the same with a kind: answers on their way back
    held,          \* the prompt that waits for the owner's answer
    promptDue,     \* prompts whose deadline message is in the mailbox
    asked,         \* prompt -> generation that asked it, 0 before
    replied,       \* prompt -> <<how, handle>>: what was written to it
    outcomes,      \* prompt -> the recorded outcome of its answer
    reconciled     \* history: requests whose uncertainty was released

connVars == <<phase, connection, generation, closing>>
requestVars == <<pending, used, uncertain, due, call>>
wireVars == <<upstream, replies>>
promptVars == <<held, promptDue, asked, replied, outcomes>>
sessionVars == <<connVars, requestVars, wireVars, promptVars, reconciled>>
vars == <<processVars, sessionVars>>

EmptyMap == [x \in {} |-> x]
Entry(k, v) == [x \in {k} |-> v]
Extended(f, g) ==
    [x \in DOMAIN f \union DOMAIN g |-> IF x \in DOMAIN g THEN g[x] ELSE f[x]]
Without(f, x) == [y \in DOMAIN f \ {x} |-> f[y]]

PartialFunctions(S, T) == UNION {[D -> T] : D \in SUBSET S}

Message == [gen : Generation, id : Id, req : Request]
Reply == [gen : Generation, id : Id, req : Request,
          kind : {"result", "error", "drift"}]

SessionTypeOK ==
    /\ phase \in {"new", "initializing", "ready", "initialization_failed",
                  "disconnected", "shutdown_failed", "stopped"}
    /\ connection \in Generation \union {0}
    /\ generation \in Generation
    /\ closing \in {"no", "stay", "reopen", "close", "stop"}
    /\ pending \in PartialFunctions(Id, Request)
    /\ used \subseteq Id
    /\ uncertain \in PartialFunctions(Id, Mutation)
    /\ due \subseteq Id \X Request
    /\ call \in [Request -> {"idle", "waiting", "failed", "answered", "misled"}]
    /\ upstream \subseteq Message
    /\ replies \subseteq Reply
    /\ held \in Prompt \union {0}
    /\ promptDue \subseteq Prompt
    /\ asked \in [Prompt -> Generation \union {0}]
    /\ replied \in [Prompt -> SUBSET ({"answer", "expiry", "rejection"} \X Prompt)]
    /\ outcomes \in PartialFunctions(Prompt,
                        {"uncertain", "sent_unconfirmed", "resolution_observed"})
    /\ reconciled \subseteq Mutation

TypeOK == ProcessTypeOK /\ SessionTypeOK

Init ==
    /\ ProcessInit
    /\ phase = "new" /\ connection = 1 /\ generation = 1
    /\ closing = "no"
    /\ pending = EmptyMap /\ used = {} /\ uncertain = EmptyMap /\ due = {}
    /\ call = [r \in Request |-> "idle"]
    /\ upstream = {} /\ replies = {}
    /\ held = 0 /\ promptDue = {}
    /\ asked = [p \in Prompt |-> 0]
    /\ replied = [p \in Prompt |-> {}]
    /\ outcomes = EmptyMap
    /\ reconciled = {}

-----------------------------------------------------------------------------
(* What handlers are made of *)

Serving == closing = "no" /\ phase # "stopped"
Connected == Serving /\ connection # 0
\* Messages of the port the Session holds; any other port's are :unknown.
Current(g) == connection = g

PendingMutations == {i \in DOMAIN pending : pending[i] \in Mutation}

\* fail_pending: the caller gets an error; a mutation becomes uncertain.
FailPending(ids) ==
    /\ pending' = [i \in DOMAIN pending \ ids |-> pending[i]]
    /\ uncertain' = Extended(uncertain,
                       [i \in PendingMutations \intersect ids |-> pending[i]])
    /\ call' = [r \in Request |->
                  IF \E i \in ids \intersect DOMAIN pending : pending[i] = r
                  THEN "failed" ELSE call[r]]

\* disconnect: fail what is pending, drop the prompt, close the transport.
\* The close goes on in Closed; next says what the handler does after it.
\* What the upstream has not answered, the Owner reads and drops from here.
Drops(next) ==
    /\ held' = 0
    /\ closing' = next /\ phase' = "disconnected"
    /\ upstream' = {}
    /\ UNCHANGED <<connection, generation>>

Disconnecting(next) == FailPending(DOMAIN pending) /\ Drops(next)

BeginDisconnect(next) ==
    /\ Disconnecting(next)
    /\ UNCHANGED <<processVars, used, due, replies, promptDue, asked, replied,
                   outcomes, reconciled>>

\* A Session that ends takes its state and its mailbox with it.
Stopped ==
    /\ phase' = "stopped" /\ connection' = 0 /\ closing' = "no"
    /\ call' = [r \in Request |-> IF call[r] = "waiting" THEN "failed" ELSE call[r]]
    /\ pending' = EmptyMap /\ uncertain' = EmptyMap /\ outcomes' = EmptyMap
    /\ used' = {} /\ due' = {} /\ upstream' = {} /\ replies' = {}
    /\ held' = 0 /\ promptDue' = {}
    /\ UNCHANGED <<generation, asked, replied, reconciled>>

-----------------------------------------------------------------------------
(* Opening and closing connections *)

\* An open that succeeds starts a generation of its own.
Reopened ==
    /\ Opened(generation + 1)
    /\ generation' = generation + 1
    /\ connection' = generation + 1
    /\ phase' = "new"
    /\ used' = {}

Connectionless(p) ==
    /\ phase' = p /\ connection' = 0
    /\ UNCHANGED <<processVars, generation, used>>

\* disconnect's end: answers written and unconfirmed become uncertain.
OutcomesUnknown ==
    outcomes' = [p \in DOMAIN outcomes |->
                   IF outcomes[p] = "sent_unconfirmed" THEN "uncertain"
                   ELSE outcomes[p]]

\* The replacement opens, is refused, or raises: then nobody knows what was
\* allocated, and the Session stops.
OpenReplacement ==
    \/ /\ Reopened \/ Connectionless("disconnected")
       /\ closing' = "no" /\ OutcomesUnknown
       /\ UNCHANGED <<pending, uncertain, due, call, wireVars, held, promptDue,
                      asked, replied, reconciled>>
    \/ Stopped /\ (Opened(generation + 1) \/ UNCHANGED processVars)

CloseRecorded(g) == completion[g] # 0   \* (mutant)
CloseAnswered(g) == completion[g] # 0 \/ owner[g] = "gone"
CloseNotDenied(g) == completion[g] # 2   \* (mutant)
CloseConfirmed(g) == completion[g] = 1

\* Owner.close/1 returns: the atomic decides, also for a lost Owner.
Closed ==
    /\ closing # "no" /\ CloseAnswered(connection)
    /\ \/ CloseConfirmed(connection) /\ closing = "reopen" /\ OpenReplacement
       \/ /\ \/ closing = "stop"
             \/ closing = "close" /\ CloseConfirmed(connection)
          /\ Stopped /\ UNCHANGED processVars
       \/ /\ \/ /\ CloseConfirmed(connection) /\ closing = "stay"
                /\ Connectionless("disconnected")
             \/ /\ ~CloseConfirmed(connection) /\ closing # "stop"
                /\ Connectionless("shutdown_failed")
          /\ closing' = "no" /\ OutcomesUnknown
          /\ UNCHANGED <<pending, uncertain, due, call, wireVars, held,
                         promptDue, asked, replied, reconciled>>

\* The Owner takes the close call of its Session, or its DOWN.
ShutDown(g) ==
    /\ phase = "stopped" \/ (closing # "no" /\ connection = g)
    /\ OwnerShutsDown(g)
    /\ UNCHANGED sessionVars

MayReopen == generation < MaxGeneration

\* reconnect/1: refused for good once a shutdown went unconfirmed.
Reconnect ==
    /\ Serving /\ MayReopen
    /\ \/ connection # 0 /\ BeginDisconnect("reopen")
       \/ connection = 0 /\ phase # "shutdown_failed" /\ OpenReplacement

\* close/1: a Session whose shutdown went unconfirmed answers so, and stays.
Close ==
    /\ Serving
    /\ \/ connection # 0 /\ BeginDisconnect("close")
       \/ connection = 0 /\ phase # "shutdown_failed" /\ Stopped /\ UNCHANGED processVars

\* The DOWN of the Session's owner stops it, whatever became of the close.
OwnerDown ==
    /\ Serving
    /\ \/ connection # 0 /\ BeginDisconnect("stop")
       \/ connection = 0 /\ Stopped /\ UNCHANGED processVars

\* The transport tells of its end, breaks its framing or a callback fails,
\* an event overflows the queue, or strict schemas meet drift.
ConnectionLost ==
    /\ Connected
    /\ BeginDisconnect("stay")

\* The Owner's exit_status message, of this connection or an older one.
ReceiveExit(g) ==
    /\ Serving /\ g \in notices
    /\ notices' = notices \ {g}
    /\ IF Current(g)
       THEN Disconnecting("stay")
       ELSE UNCHANGED <<connVars, pending, uncertain, call, upstream, held>>
    /\ UNCHANGED <<tree, port, owner, completion, used, due, replies,
                   promptDue, asked, replied, outcomes, reconciled>>

\* The Session process dies without terminate/2.
SessionKilled ==
    /\ phase # "stopped"
    /\ Stopped /\ UNCHANGED processVars

-----------------------------------------------------------------------------
(* The handshake: one read-only request, folded into the phase *)

UpstreamRuns == connection # 0 /\ group[connection] = "alive"

Initialize ==
    /\ Connected /\ phase = "new"
    /\ phase' = "initializing"
    /\ UNCHANGED <<processVars, connection, generation, closing, requestVars,
                   wireVars, promptVars, reconciled>>

\* A result, then initialized is sent; an error; or a result of no known
\* schema, after which only a reconnect helps.
InitializeAnswered ==
    /\ Connected /\ phase = "initializing" /\ UpstreamRuns
    /\ phase' \in {"ready", "new", "initialization_failed"}
    /\ UNCHANGED <<processVars, connection, generation, closing, requestVars,
                   wireVars, promptVars, reconciled>>

-----------------------------------------------------------------------------
(* Requests *)

\* Bound: requests and prompts together, so that each meets another.
MayAsk ==
    Cardinality({r \in Request : call[r] # "idle"})
      + Cardinality({p \in Prompt : asked[p] # 0}) < MaxAsks

NextCall(r) == \A q \in Request : call[q] = "idle" <=> q >= r
NextPrompt(p) == \A q \in Prompt : asked[q] = 0 <=> q >= p

Capacity(r) ==
    /\ Cardinality(DOMAIN pending) < MaxPending
    /\ r \in Mutation =>
         Cardinality(DOMAIN uncertain) + Cardinality(PendingMutations) < MaxUncertain

UnusedId(i) == i \notin used   \* (mutant)
UnpendingId(i) == i \notin DOMAIN pending /\ i \notin DOMAIN uncertain   \* (mutant)
FreshId(i) == i \notin used /\ i \notin DOMAIN uncertain

\* submit: enter the request as pending, then write it; a write that fails
\* disconnects, with the request among those that fail.
Submit(r, i) ==
    /\ Connected /\ phase = "ready"
    /\ MayAsk /\ NextCall(r)
    /\ Capacity(r) /\ FreshId(i)
    /\ used' = used \union {i}
    /\ \/ /\ port[connection] # "closed"
          /\ pending' = Extended(pending, Entry(i, r))
          /\ call' = [call EXCEPT ![r] = "waiting"]
          /\ upstream' = upstream \union {[gen |-> connection, id |-> i, req |-> r]}
          /\ UNCHANGED <<connVars, uncertain, held>>
       \/ /\ Drops("stay")
          /\ pending' = EmptyMap
          /\ uncertain' = Extended(uncertain,
                 [j \in PendingMutations \union (IF r \in Mutation THEN {i} ELSE {})
                    |-> IF j = i THEN r ELSE pending[j]])
          /\ call' = [q \in Request |->
                        IF q = r \/ q \in Range(pending) THEN "failed" ELSE call[q]]
    /\ UNCHANGED <<processVars, due, replies, promptDue, asked, replied,
                   outcomes, reconciled>>

\* The upstream executes a request and answers, in a shape we know or not.
Answer(m) ==
    /\ m \in upstream /\ group[m.gen] = "alive"
    /\ \E kind \in {"result", "error", "drift"} :
         replies' = replies \union
             {[gen |-> m.gen, id |-> m.id, req |-> m.req, kind |-> kind]}
    /\ upstream' = upstream \ {m}
    /\ UNCHANGED <<processVars, connVars, requestVars, promptVars, reconciled>>

\* settle: the caller gets the answer to the request pending under the id.
Settle(i, answer) ==
    /\ call' = [call EXCEPT ![pending[i]] =
                               IF answer = pending[i] THEN "answered" ELSE "misled"]
    /\ pending' = Without(pending, i)

\* A message of the port: of an older one, late, definite or unvalidated.
Receive(m) ==
    /\ Serving /\ m \in replies
    /\ replies' = replies \ {m}
    /\ IF ~Current(m.gen) \/ m.id \notin DOMAIN pending
       THEN UNCHANGED <<pending, uncertain, call>>
       ELSE IF m.kind = "drift"
            THEN FailPending({m.id})
            ELSE Settle(m.id, m.req) /\ UNCHANGED uncertain
    /\ UNCHANGED <<processVars, connVars, used, due, upstream, promptVars,
                   reconciled>>

\* The timer of a pending request puts its message in the mailbox.
TimerFires(i) ==
    /\ i \in DOMAIN pending /\ <<i, pending[i]>> \notin due
    /\ due' = due \union {<<i, pending[i]>>}
    /\ UNCHANGED <<processVars, connVars, pending, used, uncertain, call,
                   wireVars, promptVars, reconciled>>

\* The message counts only for the request whose token it carries.
OwnDeadline(i, r) == i \in DOMAIN pending /\ pending[i] = r

HandleDeadline(i, r) ==
    /\ Serving /\ <<i, r>> \in due
    /\ due' = due \ {<<i, r>>}
    /\ IF OwnDeadline(i, r)
       THEN FailPending({i})
       ELSE UNCHANGED <<pending, uncertain, call>>
    /\ UNCHANGED <<processVars, connVars, used, wireVars, promptVars, reconciled>>

\* The caller abandons its request, or dies.
Abandon(i) ==
    /\ Serving /\ i \in DOMAIN pending
    /\ FailPending({i})
    /\ UNCHANGED <<processVars, connVars, used, due, wireVars, promptVars,
                   reconciled>>

\* record_reconciliation releases an uncertainty, whatever the connection.
Reconcile(i) ==
    /\ Serving /\ i \in DOMAIN uncertain
    /\ uncertain' = Without(uncertain, i)
    /\ reconciled' = reconciled \union {uncertain[i]}
    /\ UNCHANGED <<processVars, connVars, pending, used, due, call, wireVars,
                   promptVars>>

-----------------------------------------------------------------------------
(* Prompts: requests of the upstream *)

AnyHeld(p) == held # 0   \* (mutant)
Held(p) == held = p

\* The upstream asks: taken in, rejected unread, or one too many.
PromptArrives(p) ==
    /\ Connected /\ UpstreamRuns /\ MayAsk /\ NextPrompt(p)
    /\ asked' = [asked EXCEPT ![p] = connection]
    /\ IF held # 0 \/ Cardinality(DOMAIN outcomes) >= MaxOutcomes
       THEN Disconnecting("stay") /\ UNCHANGED replied
       ELSE /\ \/ held' = p /\ UNCHANGED replied
               \/ replied' = [replied EXCEPT ![p] = @ \union {<<"rejection", p>>}]
                  /\ UNCHANGED held
            /\ UNCHANGED <<connVars, pending, uncertain, call, upstream>>
    /\ UNCHANGED <<processVars, used, due, replies, promptDue, outcomes, reconciled>>

\* The upstream reads an answer as one to the prompt it waits for.
Write(how, p) == replied' = [replied EXCEPT ![held] = @ \union {<<how, p>>}]

\* respond/3: the handle must be the one that is held.  It is given up, and
\* its outcome noted as uncertain, before the answer is written.
Respond(p) ==
    /\ Connected /\ phase = "ready" /\ asked[p] # 0
    /\ held # 0 /\ Held(p)
    /\ \/ /\ port[connection] # "closed"
          /\ Write("answer", p)
          /\ outcomes' = Extended(outcomes, Entry(p, "sent_unconfirmed"))
          /\ held' = 0
          /\ UNCHANGED <<connVars, pending, uncertain, call, upstream>>
       \/ /\ outcomes' = Extended(outcomes, Entry(p, "uncertain"))
          /\ Disconnecting("stay")
          /\ UNCHANGED replied
    /\ UNCHANGED <<processVars, used, due, replies, promptDue, asked, reconciled>>

PromptTimerFires(p) ==
    /\ held = p /\ p \notin promptDue
    /\ promptDue' = promptDue \union {p}
    /\ UNCHANGED <<processVars, connVars, requestVars, wireVars, held, asked,
                   replied, outcomes, reconciled>>

\* The deadline of a held prompt answers it with an error.
HandlePromptDeadline(p) ==
    /\ Serving /\ p \in promptDue
    /\ promptDue' = promptDue \ {p}
    /\ IF ~Held(p)
       THEN UNCHANGED <<connVars, pending, uncertain, call, upstream, held, replied>>
       ELSE \/ /\ port[connection] # "closed"
               /\ Write("expiry", p)
               /\ held' = 0
               /\ UNCHANGED <<connVars, pending, uncertain, call, upstream>>
            \/ Disconnecting("stay") /\ UNCHANGED replied
    /\ UNCHANGED <<processVars, used, due, replies, asked, outcomes, reconciled>>

\* serverRequest/resolved, or evidence that the tool call or turn is over.
PromptResolved(p) ==
    /\ Connected /\ UpstreamRuns /\ asked[p] = connection
    /\ held = p \/ p \in DOMAIN outcomes
    /\ held' = IF held = p THEN 0 ELSE held
    /\ outcomes' = [q \in DOMAIN outcomes |->
                      IF q = p THEN "resolution_observed" ELSE outcomes[q]]
    /\ UNCHANGED <<processVars, connVars, requestVars, wireVars, promptDue,
                   asked, replied, reconciled>>

AcknowledgeOutcome(p) ==
    /\ Serving /\ p \in DOMAIN outcomes
    /\ outcomes' = Without(outcomes, p)
    /\ UNCHANGED <<processVars, connVars, requestVars, wireVars, held,
                   promptDue, asked, replied, reconciled>>

-----------------------------------------------------------------------------
SessionStep ==
    \/ Closed \/ Reconnect \/ Close \/ OwnerDown \/ ConnectionLost \/ SessionKilled
    \/ Initialize \/ InitializeAnswered
    \/ \E g \in Generation : ShutDown(g) \/ ReceiveExit(g)
    \/ \E r \in Request, i \in Id : Submit(r, i) \/ HandleDeadline(i, r)
    \/ \E m \in upstream : Answer(m)
    \/ \E m \in replies : Receive(m)
    \/ \E i \in Id : TimerFires(i) \/ Abandon(i) \/ Reconcile(i)
    \/ \E p \in Prompt :
         \/ PromptArrives(p) \/ Respond(p) \/ PromptTimerFires(p)
         \/ HandlePromptDeadline(p) \/ PromptResolved(p) \/ AcknowledgeOutcome(p)

ProcessNext == \E g \in Generation : ProcessStep(g) /\ UNCHANGED sessionVars

Next == SessionStep \/ ProcessNext

Spec == Init /\ [][Next]_vars

\* Timers fire, a Session takes the messages of its mailbox, and the Owner
\* and its helper get on with what they were asked.
Fairness ==
    /\ ProcessFairness
    /\ WF_vars(Closed)
    /\ \A g \in Generation : WF_vars(ShutDown(g))
    /\ \A i \in Id : WF_vars(TimerFires(i))
    /\ \A i \in Id, r \in Request : WF_vars(HandleDeadline(i, r))

FairSpec == Spec /\ Fairness

-----------------------------------------------------------------------------
(* Properties *)

\* transport.ex promises that close succeeds only when cleanup is confirmed
\* and that the Session replaces nothing otherwise: while a generation is
\* open, nothing that an earlier one started is running.
OneProcessTree ==
    connection # 0 => \A g \in Generation : g < connection => ~Alive(g)

\* A mutation whose caller was told of a failure is on the list of uncertain
\* operations until somebody reconciles it, through every disconnect and
\* reconnect: the Session forgets none while it lives.
NoMutationForgotten ==
    phase # "stopped" =>
        \A r \in Mutation : call[r] = "failed" =>
            r \in reconciled \/ r \in Range(uncertain)

\* Ids may be chosen by callers, reused after a reconnect, and answered late;
\* a caller still gets only the answer to its own request.
AnswersMatch == \A r \in Request : call[r] # "misled"

\* The upstream counts its prompts from the start in every process and the
\* owner may answer late or twice: a prompt gets one answer at most, the one
\* given to its own handle or caused by its own deadline.
PromptAnsweredOnce ==
    \A p \in Prompt :
        /\ Cardinality(replied[p]) <= 1
        /\ \A answer \in replied[p] : answer[2] = p

\* However the Session or the Owner ends, the child's process group ends too,
\* unless the helper itself was killed.
Orphaned(g) == owner[g] = "gone" \/ (owner[g] # "none" /\ phase = "stopped")
OwnedTreesEnd ==
    \A g \in Generation :
        Orphaned(g) ~> (helper[g] = "ended" \/ group[g] = "dead")

\* reconnect and close are calls without a timeout: they return, and every
\* caller of a request hears something.
CallsReturn ==
    /\ closing # "no" ~> closing = "no"
    /\ \A r \in Request : call[r] = "waiting" ~> call[r] # "waiting"
=============================================================================
