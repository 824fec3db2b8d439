----------------------------- MODULE HubProtocol -----------------------------
(***************************************************************************)
(* The Hub protocol (samgita_protocol/client.ex) in its WebSocket client   *)
(* (samgita_protocol_websocket/client.ex), with the host behind the        *)
(* socket, which keeps a bounded replay log, and the owner the client      *)
(* forwards to.  One stream of notifications; a connection is two FIFO     *)
(* channels that die together, and the requests in them may still be read. *)
(*                                                                         *)
(* A request is its kind and an argument.  The WebSocket client drains the *)
(* core after every frame, so the core's buffer is empty between steps and *)
(* `delivered' is `seen'.  A late answer is an error whether its id is     *)
(* still among the completed ones or forgotten, so those are not kept: an  *)
(* id is fresh when no message carries it.                                 *)
(***************************************************************************)
EXTENDS Integers, Sequences, FiniteSets, Functions

CONSTANTS
    Command,       \* bound: mutations the owner wants done, each under its id
    Last,          \* bound: notifications the host ever appends
    Id,            \* request ids of a connection
    Retained,      \* limit of the host's log
    Page,          \* events of one answer to stream/resume (128 in the code)
    MaxBuffer, MaxCompleted, MaxPending,   \* options of the client
    ResumeFrom,    \* positions the owner resumes from: "acked", "seen"
    MaxFaults      \* bound: timeouts, error answers, lost connections and crashes

ASSUME ProtocolAssumption ==
    /\ {Last, MaxFaults} \subseteq Nat
    /\ {Retained, Page, MaxBuffer, MaxCompleted, MaxPending} \subseteq Nat \ {0}
    /\ ResumeFrom \subseteq {"acked", "seen"}

VARIABLES
    phase, pending, uncertain,
    seen, acked, hashes,   \* of the stream: positions, cursors with a digest
    open,                  \* the WebSocket client has a connection
    waiting,               \* ids its callers wait on
    up, down,              \* the connection's channels
    notes,                 \* notifications in the mailbox of the host's socket
    live,                  \* the host's turns notify this connection
    oldest, next,          \* the log holds the cursors oldest .. next - 1
    late,                  \* requests of dead connections the host may read
    executed,              \* command -> times the host did it
    mailbox, processed,    \* the owner's queue of cursors; the last it handled
    saved,                 \* its durable checkpoint
    gap,                   \* earliest_cursor of a replay_gap it was told, or 0
    told,                  \* what it knows, durably, of each command
    handled, forgone,      \* history: events it handled or knows are lost
    faults

requestVars == <<pending, uncertain, waiting, told>>
streamVars == <<seen, acked, hashes>>
wireVars == <<up, down, notes, live>>
hostVars == <<oldest, next, late, executed>>
ownerVars == <<mailbox, processed, saved, gap, handled, forgone>>
vars == <<phase, open, requestVars, streamVars, wireVars, hostVars, ownerVars, faults>>

EmptyMap == [x \in {} |-> x]
Call(kind, arg) == [kind |-> kind, arg |-> arg]
Calls == {Call("initialize", 0), Call("attach", 0)}
         \union {Call("resume", n) : n \in 0 .. Last}
         \union {Call("mutate", c) : c \in Command}
Cursor == 0 .. Last
\* The host's Server answers with a result, with an error of a handler that did
\* nothing, or for a handler that broke off or whose result is not valid.
Outcome == {"result", "refused", "failed"}
\* An answer carries the events from .. last, none but to a resume, or the gap of
\* a replay_gap error.
Answer == [kind : {"reply"}, id : Id, outcome : Outcome,
           from : 1 .. Last + 1, last : Cursor, gap : Cursor]
Live == [kind : {"live"}, from : Cursor, last : Cursor]

TypeOK ==
    /\ phase \in {"new", "initializing", "ready", "disconnected"}
    /\ DOMAIN pending \subseteq Id /\ \A i \in DOMAIN pending : pending[i] \in Calls
    /\ uncertain \subseteq Command /\ waiting \subseteq Id /\ late \subseteq Command
    /\ {seen, acked, processed, saved, gap} \subseteq Cursor /\ hashes \subseteq 1 .. Last
    /\ open \in BOOLEAN /\ live \in BOOLEAN
    /\ up \in Seq([id : Id, call : Calls]) /\ down \in Seq(Answer \union Live)
    /\ notes \in Seq(Cursor) /\ mailbox \in Seq(Cursor)
    /\ oldest \in 1 .. Last + 1 /\ next \in 1 .. Last + 1
    /\ executed \in [Command -> Nat]
    /\ told \in [Command -> {"none", "waiting", "ambiguous", "failed", "unknown", "done"}]
    /\ handled \subseteq 1 .. Last /\ forgone \subseteq 1 .. Last
    /\ faults \in 0 .. MaxFaults

Init ==
    /\ phase = "new" /\ open = TRUE
    /\ pending = EmptyMap /\ uncertain = {} /\ waiting = {}
    /\ seen = 0 /\ acked = 0 /\ hashes = {}
    /\ up = <<>> /\ down = <<>> /\ notes = <<>> /\ live = FALSE
    /\ oldest = 1 /\ next = 1 /\ late = {} /\ executed = [c \in Command |-> 0]
    /\ mailbox = <<>> /\ processed = 0 /\ saved = 0 /\ gap = 0
    /\ told = [c \in Command |-> "none"]
    /\ handled = {} /\ forgone = {} /\ faults = 0

-----------------------------------------------------------------------------
(* Requests *)

Mutations(ids) == {pending[i].arg : i \in {j \in ids : pending[j].kind = "mutate"}}

\* (mutants) Nothing stays uncertain; nobody is answered.
LosePendingForgetting(ids) ==
    /\ pending' = Restrict(pending, DOMAIN pending \ ids)
    /\ waiting' = waiting \ ids
    /\ told' = [c \in Command |->
                  IF c \in Mutations(ids \intersect waiting) THEN "ambiguous" ELSE told[c]]
    /\ UNCHANGED uncertain
LosePendingInSilence(ids) ==
    /\ pending' = Restrict(pending, DOMAIN pending \ ids)
    /\ uncertain' = uncertain \union Mutations(ids)
    /\ UNCHANGED <<waiting, told>>

\* lose_pending: the core remembers mutations; settle answers who waits.
LosePending(ids) ==
    /\ pending' = Restrict(pending, DOMAIN pending \ ids)
    /\ uncertain' = uncertain \union Mutations(ids)
    /\ waiting' = waiting \ ids
    /\ told' = [c \in Command |->
                  IF c \in Mutations(ids \intersect waiting) THEN "ambiguous" ELSE told[c]]

\* The connection dies; the host may have what was sent, or not.
CutOff ==
    /\ up' = <<>> /\ down' = <<>> /\ notes' = <<>> /\ live' = FALSE
    /\ late' = late \union {m.call.arg : m \in {r \in Range(up) : r.call.kind = "mutate"}}
    /\ UNCHANGED <<oldest, next, executed>>

Disconnected ==
    /\ open' = FALSE /\ phase' = "disconnected"
    /\ LosePending(DOMAIN pending) /\ CutOff

\* (mutant) A command of unknown outcome may be sent again.
AllowedUncertain(call) ==
    IF call.kind = "initialize" THEN phase = "new" /\ DOMAIN pending = {}
    ELSE /\ phase = "ready"
         /\ Cardinality(DOMAIN pending) + Cardinality(uncertain) < MaxPending
         /\ call.kind = "mutate" => call.arg \notin Mutations(DOMAIN pending)

\* outgoing_allowed, request_capacity and request_identity.
Allowed(call) ==
    IF call.kind = "initialize" THEN phase = "new" /\ DOMAIN pending = {}
    ELSE /\ phase = "ready"
         /\ Cardinality(DOMAIN pending) + Cardinality(uncertain) < MaxPending
         /\ call.kind = "mutate" =>
              call.arg \notin uncertain \union Mutations(DOMAIN pending)

Fresh(i) == /\ i \notin DOMAIN pending
            /\ \A m \in Range(up) : m.id # i
            /\ \A m \in Range(down) : m.kind = "reply" => m.id # i
FreshId == CHOOSE i \in Id : Fresh(i)

Request(call) ==
    /\ open /\ Allowed(call) /\ \E i \in Id : Fresh(i)
    /\ pending' = [i \in DOMAIN pending \union {FreshId} |->
                     IF i = FreshId THEN call ELSE pending[i]]
    /\ waiting' = waiting \union {FreshId}
    /\ phase' = IF call.kind = "initialize" THEN "initializing" ELSE phase
    /\ up' = Append(up, [id |-> FreshId, call |-> call])
    /\ told' = IF call.kind = "mutate" THEN [told EXCEPT ![call.arg] = "waiting"] ELSE told
    /\ UNCHANGED <<open, uncertain, streamVars, down, notes, live, hostVars, ownerVars,
                   faults>>

\* handle_info({:expire, id}): a lost initialize ends the session, not the socket.
Expire(i) ==
    /\ i \in waiting /\ faults < MaxFaults
    /\ LosePending({i})
    /\ phase' = IF pending[i].kind = "initialize" THEN "disconnected" ELSE phase
    /\ faults' = faults + 1
    /\ UNCHANGED <<open, streamVars, wireVars, hostVars, ownerVars>>

ConnectionLost ==
    /\ open /\ faults < MaxFaults /\ faults' = faults + 1
    /\ Disconnected
    /\ UNCHANGED <<streamVars, ownerVars>>

\* The owner reconnects what it was told is disconnected.
Reconnect ==
    /\ phase = "disconnected"
    /\ open' = TRUE /\ phase' = "new"
    /\ LosePending(DOMAIN pending) /\ CutOff
    /\ UNCHANGED <<streamVars, ownerVars, faults>>

-----------------------------------------------------------------------------
(* The stream *)

\* (mutant) What was not acknowledged is taken for new.
PositionByAck(n) == IF n <= acked THEN "duplicate" ELSE "new"

\* stream_position, for each of a run of contiguous cursors in turn.
Position(n) ==
    IF n <= acked THEN "duplicate"
    ELSE IF n > seen THEN "new"
    ELSE IF n \in hashes THEN "duplicate" ELSE "stale"
New(lo, hi) == {n \in lo .. hi : Position(n) = "new"}
Fits(count) == \/ count = 0
               \/ count <= MaxBuffer /\ Len(mailbox) + count <= MaxBuffer

Ingestible(lo, hi) ==
    /\ lo <= seen + 1
    /\ \A n \in lo .. hi : Position(n) # "stale"
    /\ Fits(Cardinality(New(lo, hi)))

\* What is new, the end of the run, goes to the owner's mailbox.
Ingest(lo, hi) ==
    LET fresh == New(lo, hi)
    IN  /\ seen' = IF fresh = {} THEN seen ELSE hi
        /\ hashes' = IF fresh = {} THEN hashes
                     ELSE {n \in hashes \union fresh : n > hi - MaxCompleted}
        /\ mailbox' = mailbox \o [k \in 1 .. Cardinality(fresh) |->
                                    hi - Cardinality(fresh) + k]
        /\ acked' = acked

\* (mutant) A handler that failed is asked again, as it is for a read.
LearnedRetryable(outcome) ==
    CASE outcome = "result" -> "done" [] OTHER -> "none"

\* Connector.Error.protocol, for a mutation: what an error leaves unknown the
\* owner must find out, what was refused it may ask for again.
Learned(outcome) ==
    CASE outcome = "result" -> "done" [] outcome = "refused" -> "none"
      [] outcome = "failed" -> "failed"

\* settle_response, initialize_result: any answer settles the request, and an
\* error leaves nothing uncertain; the events of a resume are ingested first.
Settle(m) ==
    /\ LET call == pending[m.id]
       IN  /\ phase' = IF call.kind # "initialize" THEN phase
                       ELSE IF m.outcome = "result" THEN "ready" ELSE "new"
           /\ told' = IF call.kind = "mutate"
                      THEN [told EXCEPT ![call.arg] = Learned(m.outcome)] ELSE told
    /\ gap' = IF m.gap # 0 THEN m.gap ELSE gap
    /\ pending' = Restrict(pending, DOMAIN pending \ {m.id})
    /\ waiting' = waiting \ {m.id}
    /\ UNCHANGED uncertain

\* A late answer, a gap, a stale cursor or an overflow is an error.
Acceptable(m) ==
    /\ IF m.kind = "live" THEN phase = "ready"
       ELSE phase # "disconnected" /\ m.id \in DOMAIN pending
    /\ m.from <= m.last => Ingestible(m.from, m.last)

\* receive_frame: anything wrong with a frame costs the connection.
Receive ==
    /\ open /\ down # <<>>
    /\ LET m == Head(down)
       IN  \/ /\ down' = Tail(down) /\ Acceptable(m)
              /\ Ingest(m.from, m.last)
              /\ IF m.kind = "reply" THEN Settle(m)
                 ELSE UNCHANGED <<phase, requestVars, gap>>
              /\ UNCHANGED <<open, up, notes, live, hostVars, processed, saved, handled,
                             forgone>>
           \/ /\ Disconnected /\ ~Acceptable(m)
              /\ UNCHANGED <<streamVars, ownerVars>>
    /\ UNCHANGED faults

-----------------------------------------------------------------------------
(* The host *)

\* (mutants) A gap up to the oldest event; what is retained, and no word of a gap.
SinceOldest(cursor) ==
    IF cursor < oldest - 1 \/ cursor >= next
    THEN [from |-> 1, last |-> 0, gap |-> oldest]
    ELSE [from |-> cursor + 1,
          last |-> IF cursor + Page < next THEN cursor + Page ELSE next - 1, gap |-> 0]
SinceRetained(cursor) ==
    [from |-> IF cursor < oldest THEN oldest ELSE cursor + 1,
     last |-> IF cursor + Page < next THEN cursor + Page ELSE next - 1, gap |-> 0]

\* Replay.since: a page, or the gap in front of what is retained.
Since(cursor) ==
    IF cursor < oldest - 1 \/ cursor >= next
    THEN [from |-> 1, last |-> 0, gap |-> oldest - 1]
    ELSE [from |-> cursor + 1,
          last |-> IF cursor + Page < next THEN cursor + Page ELSE next - 1, gap |-> 0]

Nothing == [from |-> 1, last |-> 0, gap |-> 0]

\* dispatch, call_handler: the handler runs, but for an initialize that is not
\* agreed on.  A handler that fails may have done its work before or not; a read
\* that fails is like one refused.
Serve(outcome, effect) ==
    /\ up # <<>> /\ up' = Tail(up)
    /\ outcome = "failed" => Head(up).call.kind \in {"attach", "mutate"}
    /\ IF outcome = "result" THEN effect /\ faults' = faults
       ELSE (outcome = "refused" => ~effect) /\ faults < MaxFaults /\ faults' = faults + 1
    /\ LET m == Head(up)
           page == IF m.call.kind = "resume" /\ outcome = "result"
                   THEN Since(m.call.arg) ELSE Nothing
       IN  /\ down' = Append(down, [kind |-> "reply", id |-> m.id, outcome |-> outcome,
                                    from |-> page.from, last |-> page.last, gap |-> page.gap])
           /\ live' = (live \/ (m.call.kind = "attach" /\ effect))
           /\ executed' = IF m.call.kind = "mutate" /\ effect
                          THEN [executed EXCEPT ![m.call.arg] = @ + 1] ELSE executed
    /\ UNCHANGED <<phase, open, requestVars, streamVars, notes, oldest, next, late,
                   ownerVars>>

\* Replay.append, and the message to the socket that is notified.
Emit ==
    /\ next <= Last
    /\ next' = next + 1
    /\ oldest' = IF next - oldest < Retained THEN oldest ELSE oldest + 1
    /\ notes' = IF live THEN Append(notes, next) ELSE notes
    /\ UNCHANGED <<phase, open, requestVars, streamVars, up, down, live, late, executed,
                   ownerVars, faults>>

Push ==
    /\ notes # <<>>
    /\ down' = Append(down, [kind |-> "live", from |-> Head(notes), last |-> Head(notes)])
    /\ notes' = Tail(notes)
    /\ UNCHANGED <<phase, open, requestVars, streamVars, up, live, hostVars, ownerVars,
                   faults>>

\* A socket process whose client is gone reads what it was sent, or dies first.
FinishLate(c) ==
    /\ c \in late /\ late' = late \ {c}
    /\ \/ executed' = [executed EXCEPT ![c] = @ + 1]
       \/ UNCHANGED executed
    /\ UNCHANGED <<phase, open, requestVars, streamVars, wireVars, oldest, next, ownerVars,
                   faults>>

-----------------------------------------------------------------------------
(* The owner *)

Initialize == Request(Call("initialize", 0))
Attach == ~live /\ Call("attach", 0) \notin Range(pending) /\ Request(Call("attach", 0))

\* It resumes from what it processed, or goes on from what it was given.
Resume ==
    /\ \A i \in DOMAIN pending : pending[i].kind # "resume"
    /\ gap <= processed
    /\ \E from \in ResumeFrom :
         Request(Call("resume", IF from = "acked" THEN acked ELSE seen))

\* It asks for what it wants whenever it has no answer: the core must refuse.
Mutate(c) == told[c] \in {"none", "ambiguous"} /\ Request(Call("mutate", c))

Process ==
    /\ mailbox # <<>>
    /\ processed' = Head(mailbox) /\ mailbox' = Tail(mailbox)
    /\ handled' = handled \union {Head(mailbox)}
    /\ UNCHANGED <<phase, open, requestVars, streamVars, wireVars, hostVars, saved, gap,
                   forgone, faults>>

\* ack_cursor refuses what was not delivered or is behind.
AckCursor ==
    /\ processed <= seen /\ processed > acked
    /\ acked' = processed
    /\ UNCHANGED <<phase, open, requestVars, seen, hashes, wireVars, hostVars, ownerVars,
                   faults>>

\* It stores checkpoints(client).
Save ==
    /\ saved # acked /\ saved' = acked
    /\ UNCHANGED <<phase, open, requestVars, streamVars, wireVars, hostVars, mailbox,
                   processed, gap, handled, forgone, faults>>

\* resolve_uncertain, with the host's last word: nothing of c is on its way.
ResolveUncertain(c) ==
    /\ c \in uncertain \ late /\ \A m \in Range(up) : m.call # Call("mutate", c)
    /\ uncertain' = uncertain \ {c}
    /\ told' = [told EXCEPT ![c] = IF executed[c] > 0 THEN "done" ELSE "none"]
    /\ UNCHANGED <<phase, open, pending, waiting, streamVars, wireVars, hostVars, ownerVars,
                   faults>>

\* An answer that left the effect unknown is on the owner's account alone: it has
\* the host's last word on the command before it asks again.
Reconcile(c) ==
    /\ told[c] = "failed"
    /\ told' = [told EXCEPT ![c] = IF executed[c] > 0 THEN "done" ELSE "none"]
    /\ UNCHANGED <<phase, open, pending, uncertain, waiting, streamVars, wireVars, hostVars,
                   ownerVars, faults>>

\* new(checkpoints: ...) in a new process: of what it left, the journal knows
\* that it was asked for, and an operator has to find out the rest.
Restart(checkpoint) ==
    /\ phase' = "new" /\ open' = TRUE
    /\ pending' = EmptyMap /\ uncertain' = {} /\ waiting' = {}
    /\ told' = [c \in Command |-> IF told[c] \in {"waiting", "ambiguous"} THEN "unknown"
                                  ELSE told[c]]
    /\ seen' = checkpoint /\ acked' = checkpoint /\ hashes' = {}
    /\ mailbox' = <<>> /\ processed' = checkpoint /\ gap' = 0
    /\ CutOff

Crash ==
    /\ faults < MaxFaults /\ faults' = faults + 1
    /\ Restart(saved)
    /\ UNCHANGED <<saved, handled, forgone>>

\* Told of a gap it has nothing left before, it goes on after it.
AcceptGap ==
    /\ gap > processed /\ mailbox = <<>> /\ DOMAIN pending = {} /\ uncertain = {}
    /\ Restart(gap)
    /\ saved' = gap /\ forgone' = forgone \union (processed + 1 .. gap)
    /\ UNCHANGED <<handled, faults>>

Next ==
    \/ Initialize \/ Attach \/ Resume \/ \E c \in Command : Mutate(c)
    \/ \E i \in Id : Expire(i)
    \/ ConnectionLost \/ Reconnect \/ Receive
    \/ \E outcome \in Outcome, effect \in BOOLEAN : Serve(outcome, effect)
    \/ Emit \/ Push \/ \E c \in Command : FinishLate(c)
    \/ Process \/ AckCursor \/ Save \/ \E c \in Command : ResolveUncertain(c) \/ Reconcile(c)
    \/ Crash \/ AcceptGap

\* The channels and the host go on, and the owner does what it must: it connects,
\* initializes and resumes, handles and acknowledges, and settles what it does not
\* know of a command once nothing of it is on its way.
Fairness ==
    /\ WF_vars(Receive \/ Push \/ Serve("result", TRUE))
    /\ WF_vars(Reconnect \/ AcceptGap \/ Initialize \/ Resume)
    /\ WF_vars(Process \/ AckCursor)
    /\ \A c \in Command : WF_vars(FinishLate(c) \/ ResolveUncertain(c) \/ Reconcile(c))

Spec == Init /\ [][Next]_vars
FairSpec == Spec /\ Fairness

-----------------------------------------------------------------------------
(* Properties *)

\* Live and replayed events interleave, overflow, go stale and are cut off half
\* way: what the owner still has in its queue is exactly what follows the last
\* event it handled, once each and in order, up to the client's position.
ForwardedInOrder == mailbox = [k \in 1 .. seen - processed |-> processed + k]

\* replay.ex:2, "Retention loss is a gap, never silent success": the durable
\* checkpoint covers an event only if the owner handled it or was told it is
\* lost, and no event was given up that the host could still have replayed.
NothingSkipped ==
    /\ 1 .. saved \subseteq handled \union forgone
    /\ \A n \in forgone : n < oldest

MayDo(c) == c \in late \/ \E m \in Range(up) : m.call = Call("mutate", c)

\* client.ex:5, "Disconnects/timeouts never resend work": an owner that asks for
\* a command whenever it has no answer, or was refused, has it done once at most,
\* through timeouts, disconnects, late reads by the host, handlers that fail after
\* their work and reconciliation.
DoneOnce == \A c \in Command : executed[c] <= 1

\* README.md:97 of the protocol, "A callback error cannot undo a host effect
\* already performed": a command the host did, or may still do, is answered as
\* done, pending, uncertain, left to the owner by an answer that tells nothing, or,
\* after a crash, unknown to the journal.  What is answered as done was done, and
\* what the owner has to find out after an answer, the host will not do any more.
OutcomesAreKept ==
    \A c \in Command :
        /\ told[c] = "done" => executed[c] > 0
        /\ told[c] \in {"done", "failed"} => ~MayDo(c)
        /\ executed[c] > 0 \/ MayDo(c) =>
             \/ told[c] \in {"done", "failed", "unknown"}
             \/ c \in uncertain \union Mutations(DOMAIN pending)

\* client.ex:6-7, "Mutations with unknown outcomes remain in `uncertain` until the
\* caller reconciles them with its authenticated host": what the host did without
\* the owner knowing is pending or uncertain, as long as the process lives.
UnknownsStayUncertain ==
    \A c \in Command :
        executed[c] > 0 /\ told[c] \notin {"done", "unknown"} =>
          c \in uncertain \union Mutations(DOMAIN pending)

\* The transport's callers and the core's requests are two maps that every
\* answer, failed replay, timeout and disconnect must settle together: nobody
\* waits for a request the core no longer has, or on a dead connection.
CallersAreServed == waiting = DOMAIN pending /\ (waiting # {} => open)

\* Whatever is lost, late or too much, there is always again a moment at which
\* every event the host logged is handled or given up as a gap, and every command
\* that was asked for is settled one way or the other.
Settled ==
    []<>(/\ 1 .. next - 1 \subseteq handled \union forgone
         /\ \A c \in Command : told[c] \in {"none", "done", "unknown"})
=============================================================================
