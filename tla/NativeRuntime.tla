---------------------------- MODULE NativeRuntime ----------------------------
(***************************************************************************)
(* The durable journal of native Codex work (codex_runtime.ex and          *)
(* codex_runtime/) composed with the two things that race with it: the     *)
(* callers of Driver.execute, which claim a one-use ticket in a            *)
(* transaction, send outside of it and settle in another, and the Agent's  *)
(* Sessions, which send, emit numbered events and reconnect by themselves. *)
(*                                                                         *)
(* Every command of the context is one transaction under the locks of      *)
(* Commands, hence one step.  One running Attempt has one runtime, bound   *)
(* to one generation of one Session instance.  Deadlines only ever refuse, *)
(* so the clock is a mark on each ticket that may appear at any moment;    *)
(* so does the Project, and its pause is left out.                         *)
(***************************************************************************)
EXTENDS Naturals, Sequences, FiniteSets

CONSTANTS
    Instance,               \* Session processes the Agent may run
    Caller,                 \* processes that run Driver.execute
    Turn, Control, Reply,   \* operations: turn/start, turn/interrupt, replies
    Prompt,                 \* server requests a running turn may ask
    ReplyTo,                \* the prompt a reply is for
    First,                  \* the instance the runtime is first bound to
    MaxGeneration,          \* bound: connections of an instance
    MaxRebinds,             \* bound: reconnections of the runtime
    MaxIntents              \* bound: operations that are ever prepared

ASSUME RuntimeAssumption ==
    /\ First \in Instance
    /\ Turn \intersect Control = {} /\ Turn \intersect Reply = {}
    /\ Control \intersect Reply = {}
    /\ ReplyTo \in [Reply -> Prompt] /\ "nobody" \notin Turn
    /\ MaxGeneration \in Nat \ {0} /\ MaxRebinds \in Nat
    /\ MaxIntents \in Nat

Operation == Turn \union Control \union Reply
Generation == 1 .. MaxGeneration

VARIABLES
    attempt,       \* running, moved (to a connection and fence the binding is
                   \* not of), lost (held, to be resolved) or ended
    runtime,       \* [inst, gen, seq, gap]: the binding's row
    rebinds,
    op,            \* operation -> [state, inst, gen]
    inter,         \* prompt -> [state, inst, gen]: server_request events
    link,          \* turn -> what the journal knows of it
    session,       \* instance -> [gen, next]
    queue,         \* instance -> events not yet drained
    held,          \* prompts a Session holds a handle of
    asker,         \* prompt -> the turn that asked it, or "nobody"
    caller,        \* caller -> [pc, op, outcome]
    expired,       \* operations whose dispatch_expires_at has passed
    sent,          \* operation -> how often it was written to a connection
    exec,          \* operation -> what the upstream does about it
    turn           \* turn -> none, live or over, in fact

journalVars == <<runtime, rebinds, op, inter, link>>
sessionVars == <<session, queue, held>>
upstreamVars == <<exec, turn, asker>>
vars == <<journalVars, attempt, sessionVars, upstreamVars, caller,
          expired, sent>>

OpState == {"none", "prepared", "in_flight", "completed", "native_error",
            "uncertain", "sent_unconfirmed", "reconciled", "cancelled"}
InterState == {"none", "pending", "reply_prepared", "sent_unconfirmed", "uncertain",
               "resolution_observed", "terminal_observed", "stale",
               "cessation_attested"}
Event == [kind : {"started", "ended"}, about : Turn, gen : Generation, seq : Nat]
   \union [kind : {"asked", "resolved"}, about : Prompt, gen : Generation, seq : Nat]
Call == [pc : {"idle"}]
   \union [pc : {"ticket", "sent"}, op : Operation]
   \union [pc : {"settling"}, op : Operation,
           outcome : {"completed", "native_error", "uncertain", "sent_unconfirmed"}]

TypeOK ==
    /\ attempt \in {"running", "moved", "lost", "ended"}
    /\ runtime \in [inst : Instance, gen : Generation, seq : Nat, gap : BOOLEAN]
    /\ rebinds \in 0 .. MaxRebinds
    /\ op \in [Operation -> [state : OpState, inst : Instance, gen : Generation]]
    /\ inter \in [Prompt -> [state : InterState, inst : Instance, gen : Generation]]
    /\ link \in [Turn -> {"none", "live", "over", "cessation_attested"}]
    /\ session \in [Instance -> [gen : Generation, next : Nat]]
    /\ queue \in [Instance -> Seq(Event)]
    /\ held \subseteq Prompt
    /\ asker \in [Prompt -> Turn \union {"nobody"}]
    /\ caller \in [Caller -> Call]
    /\ expired \subseteq Operation
    /\ sent \in [Operation -> Nat]
    /\ exec \in [Operation -> {"no", "running", "answered", "rejected"}]
    /\ turn \in [Turn -> {"none", "live", "over"}]

Init ==
    /\ attempt = "running"
    /\ runtime = [inst |-> First, gen |-> 1, seq |-> 0, gap |-> FALSE]
    /\ rebinds = 0
    /\ op = [o \in Operation |-> [state |-> "none", inst |-> First, gen |-> 1]]
    /\ inter = [p \in Prompt |-> [state |-> "none", inst |-> First, gen |-> 1]]
    /\ link = [t \in Turn |-> "none"]
    /\ session = [i \in Instance |-> [gen |-> 1, next |-> 1]]
    /\ queue = [i \in Instance |-> <<>>]
    /\ held = {}
    /\ asker = [p \in Prompt |-> "nobody"]
    /\ caller = [c \in Caller |-> [pc |-> "idle"]]
    /\ expired = {}
    /\ sent = [o \in Operation |-> 0]
    /\ exec = [o \in Operation |-> "no"]
    /\ turn = [t \in Turn |-> "none"]

-----------------------------------------------------------------------------
(* What the journal answers *)

\* unresolved_effects?: what keeps an Attempt from being reported or resolved.
UnresolvedInteraction(p) ==
    inter[p].state \notin {"none", "resolution_observed", "terminal_observed",
                           "cessation_attested"}
UnresolvedInFlight(o) == op[o].state = "in_flight"   \* (mutant)
UnresolvedOperation(o) == op[o].state \in {"in_flight", "uncertain", "sent_unconfirmed"}

Unresolved ==
    \/ runtime.gap
    \/ \E o \in Operation : UnresolvedOperation(o)
    \/ \E p \in Prompt : UnresolvedInteraction(p)
    \/ \E t \in Turn : link[t] = "live"

\* The context of a runtime command: the Attempt runs and the binding is its.
Owned == attempt = "running"
CurrentInstance(r) == r.inst = runtime.inst /\ r.gen = runtime.gen

Ambiguous(o) ==
    \/ op[o].state \in {"uncertain", "sent_unconfirmed"}
    \/ op[o].state = "in_flight" /\ o \in expired

DispatchEligible(o) ==
    \/ o \in Reply /\ CurrentInstance(inter[ReplyTo[o]])
                   /\ inter[ReplyTo[o]].state = "reply_prepared"
    \/ o \in Control
    \/ o \in Turn /\ \A p \in Operation : ~Ambiguous(p)

-----------------------------------------------------------------------------
(* Intents *)

Become(o, state) == op' = [op EXCEPT ![o].state = state]

Intended == {o \in Operation : op[o].state # "none"}
MayIntend == Cardinality(Intended) < MaxIntents

Prepared == [state |-> "prepared", inst |-> runtime.inst, gen |-> runtime.gen]

\* prepare: an intent of the current instance.
Prepare(o) ==
    /\ Owned /\ MayIntend /\ o \in Turn \union Control /\ op[o].state = "none"
    /\ op' = [op EXCEPT ![o] = Prepared]
    /\ UNCHANGED <<runtime, rebinds, inter, link, attempt, sessionVars,
                   upstreamVars, caller, expired, sent>>

\* reply: the decision on a pending prompt, as an intent of its own.
PrepareReply(o) ==
    /\ Owned /\ MayIntend /\ o \in Reply /\ op[o].state = "none"
    /\ inter[ReplyTo[o]].state = "pending" /\ CurrentInstance(inter[ReplyTo[o]])
    /\ op' = [op EXCEPT ![o] = Prepared]
    /\ inter' = [inter EXCEPT ![ReplyTo[o]].state = "reply_prepared"]
    /\ UNCHANGED <<runtime, rebinds, link, attempt, sessionVars,
                   upstreamVars, caller, expired, sent>>

Cancellable(o) == op[o].state = "prepared"

\* cancel: by the Agent or the operator, whoever owns the Attempt now.
Cancel(o) ==
    /\ Cancellable(o)
    /\ Become(o, "cancelled")
    /\ UNCHANGED <<runtime, rebinds, inter, link, attempt, sessionVars,
                   upstreamVars, caller, expired, sent>>

-----------------------------------------------------------------------------
(* Driver.execute: dispatch, send, await, settle *)

DispatchableAgain(o) == op[o].state \in {"prepared", "uncertain"}   \* (mutant)
Dispatchable(o) == op[o].state = "prepared"

\* dispatch: the ticket is handed out once, with the state change.  (The
\* bridge has read the Session's status before; the Session looks again.)
Dispatch(c, o) ==
    /\ caller[c].pc = "idle"
    /\ Owned /\ CurrentInstance(op[o])
    /\ Dispatchable(o) /\ DispatchEligible(o)
    /\ Become(o, "in_flight")
    /\ caller' = [caller EXCEPT ![c] = [pc |-> "ticket", op |-> o]]
    /\ UNCHANGED <<runtime, rebinds, inter, link, attempt, sessionVars,
                   upstreamVars, expired, sent>>

\* The Session's guards, checked in one step with the write.
SessionAccepts(o) ==
    /\ session[op[o].inst].gen = op[o].gen
    /\ o \notin expired
    /\ o \in Reply => ReplyTo[o] \in held

Settling(o, outcome) == [pc |-> "settling", op |-> o, outcome |-> outcome]

\* Written, or refused by a guard or the transport: then uncertain, unsent.
Send(c) ==
    /\ caller[c].pc = "ticket"
    /\ LET o == caller[c].op IN
         \/ /\ SessionAccepts(o)
            /\ sent' = [sent EXCEPT ![o] = @ + 1]
            /\ exec' = [exec EXCEPT ![o] = "running"]
            /\ held' = IF o \in Reply THEN held \ {ReplyTo[o]} ELSE held
            /\ caller' = [caller EXCEPT ![c] =
                 IF o \in Reply THEN Settling(o, "sent_unconfirmed")
                 ELSE [pc |-> "sent", op |-> o]]
         \/ /\ caller' = [caller EXCEPT ![c] = Settling(o, "uncertain")]
            /\ UNCHANGED <<sent, exec, held>>
    /\ UNCHANGED <<journalVars, attempt, session, queue, turn, asker, expired>>

\* The upstream's answer, or none that can be believed in time.
Await(c) ==
    /\ caller[c].pc = "sent"
    /\ LET o == caller[c].op IN
         \E outcome \in {"completed", "native_error", "uncertain"} :
            /\ outcome = "completed" => exec[o] = "answered"
            /\ outcome = "native_error" => exec[o] = "rejected"
            /\ caller' = [caller EXCEPT ![c] = Settling(o, outcome)]
    /\ UNCHANGED <<journalVars, attempt, sessionVars, upstreamVars,
                   expired, sent>>

Settleable(o) == op[o].state = "in_flight" /\ o \notin expired

\* settle: the outcome, the state of the prompt a reply was for, and the link
\* of a turn as the response tells it, still in progress.
Settle(c) ==
    /\ caller[c].pc = "settling"
    /\ LET o == caller[c].op
           outcome == caller[c].outcome IN
         /\ Owned /\ CurrentInstance(op[o]) /\ Settleable(o)
         /\ Become(o, outcome)
         /\ inter' = IF o \in Reply
                     THEN [inter EXCEPT ![ReplyTo[o]].state = outcome] ELSE inter
         /\ link' = IF o \in Turn /\ outcome = "completed"
                    THEN [link EXCEPT ![o] = "live"] ELSE link
    /\ caller' = [caller EXCEPT ![c] = [pc |-> "idle"]]
    /\ UNCHANGED <<runtime, rebinds, attempt, sessionVars, upstreamVars,
                   expired, sent>>

\* The caller dies, or gives up after a refusal.
CallerLeaves(c) ==
    /\ caller[c].pc # "idle"
    /\ caller' = [caller EXCEPT ![c] = [pc |-> "idle"]]
    /\ UNCHANGED <<journalVars, attempt, sessionVars, upstreamVars,
                   expired, sent>>

\* A ticket's deadline passes; of interest while it is in flight or held.
Expire(o) ==
    /\ o \notin expired
    /\ \/ op[o].state = "in_flight"
       \/ \E c \in Caller : caller[c].pc = "ticket" /\ caller[c].op = o
    /\ expired' = expired \union {o}
    /\ UNCHANGED <<journalVars, attempt, sessionVars, upstreamVars,
                   caller, sent>>

-----------------------------------------------------------------------------
(* The upstream and the Sessions *)

Reaches(o) == session[op[o].inst].gen = op[o].gen
AskedBy(t) == {p \in Prompt : asker[p] = t}

\* The Session of an operation numbers an event and queues it, if it is there.
Emit(o, kind, about) ==
    LET i == op[o].inst IN
    IF Reaches(o)
    THEN /\ queue' = [queue EXCEPT ![i] = Append(@,
              [kind |-> kind, about |-> about, gen |-> session[i].gen,
               seq |-> session[i].next])]
         /\ session' = [session EXCEPT ![i].next = @ + 1]
    ELSE UNCHANGED <<queue, session>>

Upstream == UNCHANGED <<journalVars, attempt, caller, expired, sent>>

\* A turn starts, or what was asked is rejected.
Execute(o) ==
    /\ exec[o] = "running" /\ o \notin Reply
    /\ \/ /\ exec' = [exec EXCEPT ![o] = "answered"]
          /\ IF o \in Turn
             THEN turn' = [turn EXCEPT ![o] = "live"] /\ Emit(o, "started", o)
             ELSE UNCHANGED <<turn, session, queue>>
       \/ exec' = [exec EXCEPT ![o] = "rejected"] /\ UNCHANGED <<turn, session, queue>>
    /\ UNCHANGED <<held, asker>> /\ Upstream

Answered(prompts) ==
    exec' = [o \in Operation |-> IF o \in Reply /\ ReplyTo[o] \in prompts
                                   /\ exec[o] = "running"
                                 THEN "answered" ELSE exec[o]]

\* A turn ends, with it what it asked; its Session retires the handles.
TurnEnds(t) ==
    /\ turn[t] = "live"
    /\ turn' = [turn EXCEPT ![t] = "over"]
    /\ Answered(AskedBy(t)) /\ held' = held \ AskedBy(t)
    /\ Emit(t, "ended", t)
    /\ UNCHANGED asker /\ Upstream

Asks(t, p) ==
    /\ turn[t] = "live" /\ asker[p] = "nobody" /\ Reaches(t)
    /\ asker' = [asker EXCEPT ![p] = t]
    /\ held' = held \union {p}
    /\ Emit(t, "asked", p)
    /\ UNCHANGED <<exec, turn>> /\ Upstream

\* A prompt is resolved, by our reply or by somebody else's.
Resolves(t, p) ==
    /\ turn[t] = "live" /\ asker[p] = t
    /\ p \in held \/ \E o \in Reply : ReplyTo[o] = p /\ exec[o] = "running"
    /\ Answered({p}) /\ held' = held \ {p}
    /\ Emit(t, "resolved", p)
    /\ UNCHANGED <<turn, asker>> /\ Upstream

\* disconnect, and a new connection: the handles go, the queue stays.  (In
\* between the Session refuses what it may refuse at any time.)
NewConnection(i) ==
    /\ session[i].gen < MaxGeneration
    /\ session' = [session EXCEPT ![i].gen = @ + 1]
    /\ held' = {p \in held : op[asker[p]].inst # i}
    /\ UNCHANGED <<queue, upstreamVars>> /\ Upstream

\* The consumer drains an event and dies before it records it.
EventLost(i) ==
    /\ queue[i] # <<>>
    /\ queue' = [queue EXCEPT ![i] = Tail(@)]
    /\ UNCHANGED <<session, held, upstreamVars>> /\ Upstream

-----------------------------------------------------------------------------
(* Recording events *)

\* observe_resolution!: whatever was dispatched for the prompt is completed.
Observed(p) ==
    op' = [o \in Operation |->
             IF /\ o \in Reply /\ ReplyTo[o] = p /\ CurrentInstance(op[o])
                /\ op[o].state \in {"in_flight", "sent_unconfirmed", "uncertain"}
             THEN [op[o] EXCEPT !.state = "completed"] ELSE op[o]]

\* retire_dynamic_interactions!: prompts of an ended turn that no reply was
\* dispatched for; their prepared replies are cancelled.
Undispatched(p) ==
    \A o \in Reply : ReplyTo[o] = p => op[o].state \in {"none", "prepared", "cancelled"}
Retired(t) ==
    {p \in AskedBy(t) : /\ CurrentInstance(inter[p])
                        /\ inter[p].state \in {"pending", "reply_prepared"}
                        /\ Undispatched(p)}

Journalled(e) ==
    CASE e.kind = "started" ->
           /\ link' = [link EXCEPT ![e.about] = "live"]
           /\ UNCHANGED <<op, inter>>
      [] e.kind = "ended" ->
           /\ link' = [link EXCEPT ![e.about] = "over"]
           /\ inter' = [p \in Prompt |-> IF p \in Retired(e.about)
                          THEN [inter[p] EXCEPT !.state = "terminal_observed"] ELSE inter[p]]
           /\ op' = [o \in Operation |->
                       IF /\ o \in Reply /\ op[o].state = "prepared"
                          /\ ReplyTo[o] \in Retired(e.about)
                       THEN [op[o] EXCEPT !.state = "cancelled"] ELSE op[o]]
      [] e.kind = "asked" ->
           /\ inter' = [inter EXCEPT ![e.about] =
                  [state |-> "pending", inst |-> runtime.inst, gen |-> runtime.gen]]
           /\ UNCHANGED <<op, link>>
      [] e.kind = "resolved" ->
           /\ IF inter[e.about].state # "none" /\ CurrentInstance(inter[e.about])
              THEN /\ inter' = [inter EXCEPT ![e.about].state = "resolution_observed"]
                   /\ Observed(e.about)
              ELSE UNCHANGED <<inter, op>>
           /\ UNCHANGED link

GapAfter(seq) == runtime.gap \/ seq # runtime.seq + 1

\* record_event: a new number of the current generation, in order.
RecordEvent ==
    LET i == runtime.inst
        e == Head(queue[i]) IN
    /\ Owned /\ queue[i] # <<>>
    /\ e.gen = runtime.gen /\ e.seq > runtime.seq
    /\ runtime' = [runtime EXCEPT !.seq = e.seq, !.gap = GapAfter(e.seq)]
    /\ Journalled(e)
    /\ queue' = [queue EXCEPT ![i] = Tail(@)]
    /\ UNCHANGED <<rebinds, attempt, session, held, upstreamVars, caller,
                   expired, sent>>

-----------------------------------------------------------------------------
(* Reconnecting, and what an operator decides *)

OlderGeneration(i, g) == i = runtime.inst /\ g <= runtime.gen

\* reconnect: doubt what was dispatched, cancel what was not, fence prompts.
Reconnect(i) ==
    /\ attempt \in {"running", "moved"} /\ rebinds < MaxRebinds
    /\ ~OlderGeneration(i, session[i].gen)
    /\ op' = [o \in Operation |->
                 IF op[o].state \in {"in_flight", "sent_unconfirmed"}
                 THEN [op[o] EXCEPT !.state = "uncertain"]
                 ELSE IF op[o].state = "prepared"
                      THEN [op[o] EXCEPT !.state = "cancelled"] ELSE op[o]]
    /\ inter' = [p \in Prompt |->
                 IF inter[p].state \notin {"none", "resolution_observed", "terminal_observed"}
                 THEN [inter[p] EXCEPT !.state = "stale"] ELSE inter[p]]
    /\ runtime' = [inst |-> i, gen |-> session[i].gen, seq |-> 0, gap |-> TRUE]
    /\ attempt' = "running" /\ rebinds' = rebinds + 1
    /\ UNCHANGED <<link, sessionVars, upstreamVars, caller,
                   expired, sent>>

\* Can a caller that holds the ticket still get it past the Session?
MayStillBeSent(o) ==
    \E c \in Caller : caller[c].pc = "ticket" /\ caller[c].op = o /\ SessionAccepts(o)

Ceased(o) == /\ exec[o] # "running" /\ ~MayStillBeSent(o)
             /\ o \in Turn => turn[o] # "live"

\* reconcile: operator evidence, taken to be true of the call and its caller.
Reconcilable(o) ==
    \/ op[o].state \in {"uncertain", "sent_unconfirmed"}
    \/ op[o].state = "in_flight" /\ o \in expired

Reconcile(o) ==
    /\ Reconcilable(o) /\ Ceased(o)
    /\ Become(o, "reconciled")
    /\ UNCHANGED <<runtime, rebinds, inter, link, attempt, sessionVars,
                   upstreamVars, caller, expired, sent>>

\* attest_cessation: evidence that no turn runs and no prompt waits.
Attest ==
    /\ \A t \in Turn : turn[t] # "live"
    /\ held = {}
    /\ runtime' = [runtime EXCEPT !.gap = FALSE]
    /\ inter' = [p \in Prompt |->
                 IF inter[p].state \notin {"none", "resolution_observed"}
                 THEN [inter[p] EXCEPT !.state = "cessation_attested"] ELSE inter[p]]
    /\ link' = [t \in Turn |-> IF link[t] = "live" THEN "cessation_attested"
                               ELSE link[t]]
    /\ UNCHANGED <<rebinds, op, attempt, sessionVars, upstreamVars, caller,
                   expired, sent>>

Elsewhere == UNCHANGED <<journalVars, sessionVars, upstreamVars, caller, expired, sent>>

\* The Attempt loses its execution, is rebound to a new connection, or is
\* reported or resolved, for which nothing may be unresolved.
LoseExecution ==
    attempt \in {"running", "moved"} /\ attempt' = "lost" /\ Elsewhere
Rebind ==
    attempt \in {"running", "lost"} /\ attempt' = "moved" /\ Elsewhere
End ==
    attempt # "ended" /\ ~Unresolved /\ attempt' = "ended" /\ Elsewhere

-----------------------------------------------------------------------------
Next ==
    \/ \E o \in Operation : Prepare(o) \/ PrepareReply(o) \/ Cancel(o) \/ Expire(o)
                           \/ Execute(o) \/ Reconcile(o)
    \/ \E c \in Caller : Send(c) \/ Await(c) \/ Settle(c)
                         \/ CallerLeaves(c) \/ \E o \in Operation : Dispatch(c, o)
    \/ \E t \in Turn : TurnEnds(t) \/ \E p \in Prompt : Asks(t, p) \/ Resolves(t, p)
    \/ \E i \in Instance : NewConnection(i) \/ EventLost(i) \/ Reconnect(i)
    \/ RecordEvent \/ Attest \/ LoseExecution \/ Rebind \/ End

Spec == Init /\ [][Next]_vars

-----------------------------------------------------------------------------
(* Properties *)

\* design.md: dispatch is one-use and a retry issues no second ticket.  An
\* operation is written to a connection once at most, whatever callers race,
\* die or come back; one that was cancelled, by hand, by a reconnect or with
\* the turn that asked, never was and never will be.
SentOnce ==
    \A o \in Operation : sent[o] <= (IF op[o].state = "cancelled" THEN 0 ELSE 1)

\* design.md: unresolved effects and live turns block a report of resolved
\* execution.  Once an Attempt was ended nothing of it can still be sent, is
\* being executed or runs as a turn, if the operators' evidence was true.
QuiescenceIsReal == attempt = "ended" => \A o \in Operation : Ceased(o)
=============================================================================
