------------------------- MODULE NativeRuntimeProofs -------------------------
(***************************************************************************)
(* The journal of native Codex work, for any number of operations,         *)
(* prompts, callers, Sessions, connections and rebinds: state is well      *)
(* typed, a ticket is sent once at most, and an Attempt that ended left    *)
(* nothing running.                                                        *)
(***************************************************************************)
EXTENDS NativeRuntime, SequenceTheorems, TLAPS

\* What was written as a reply settles as one.
ReplyCalls ==
    \A c \in Caller :
        /\ caller[c].pc = "sent" => caller[c].op \notin Reply
        /\ caller[c].pc = "settling" /\ caller[c].op \in Reply =>
             caller[c].outcome \in {"uncertain", "sent_unconfirmed"}

Typed == TypeOK /\ ReplyCalls

LEMMA CallFacts ==
    ASSUME TypeOK, NEW c \in Caller
    PROVE  /\ caller[c].pc \in {"idle", "ticket", "sent", "settling"}
           /\ caller[c].pc # "idle" => caller[c].op \in Operation
           /\ caller[c].pc = "settling" =>
                caller[c].outcome \in {"completed", "native_error", "uncertain",
                                       "sent_unconfirmed"}
<1>1. caller[c] \in Call  BY DEF TypeOK
<1> QED BY <1>1 DEF Call

LEMMA EventFacts ==
    ASSUME NEW e \in Event
    PROVE  /\ e.kind \in {"started", "ended", "asked", "resolved"}
           /\ e.kind \in {"started", "ended"} => e.about \in Turn
           /\ e.kind \in {"asked", "resolved"} => e.about \in Prompt
           /\ e.gen \in Generation /\ e.seq \in Nat
  BY DEF Event

LEMMA OperationFacts ==
    /\ Turn \subseteq Operation /\ Control \subseteq Operation /\ Reply \subseteq Operation
    /\ \A o \in Operation : o \in Turn \/ o \in Control \/ o \in Reply
    /\ \A o \in Reply : ReplyTo[o] \in Prompt /\ o \notin Turn
    /\ \A o \in Turn : o \notin Reply
    /\ 1 \in Generation
  BY RuntimeAssumption DEF Operation, Generation

-----------------------------------------------------------------------------
(* Types *)

Row(S) == [state : S, inst : Instance, gen : Generation]
SessionRow == [gen : Generation, next : Nat]

\* Changing the state of a row, or of one row of a table, keeps its type.
LEMMA RowUpdate ==
    ASSUME NEW S, NEW v \in S
    PROVE  /\ \A row \in Row(S) : [row EXCEPT !.state = v] \in Row(S)
           /\ \A K : \A f \in [K -> Row(S)] : \A x \in K :
                [f EXCEPT ![x].state = v] \in [K -> Row(S)]
<1>1. ASSUME NEW row \in Row(S) PROVE [row EXCEPT !.state = v] \in Row(S)
  BY <1>1 DEF Row
<1>2. ASSUME NEW K, NEW f \in [K -> Row(S)], NEW x \in K
      PROVE  [f EXCEPT ![x].state = v] \in [K -> Row(S)]
  <2>1. [f[x] EXCEPT !.state = v] \in Row(S)  BY <1>1
  <2>2. [f EXCEPT ![x].state = v] = [f EXCEPT ![x] = [f[x] EXCEPT !.state = v]]
    OBVIOUS
  <2>3. \A row \in Row(S) : [f EXCEPT ![x] = row] \in [K -> Row(S)]  OBVIOUS
  <2> QED BY <2>1, <2>2, <2>3
<1> QED BY <1>1, <1>2

LEMMA StateFacts ==
    /\ OpState = {"none", "prepared", "in_flight", "completed", "native_error",
                  "uncertain", "sent_unconfirmed", "reconciled", "cancelled"}
    /\ InterState = {"none", "pending", "reply_prepared", "sent_unconfirmed", "uncertain",
                     "resolution_observed", "terminal_observed", "stale",
                     "cessation_attested"}
  BY DEF OpState, InterState

LEMMA TableTypes ==
    TypeOK => /\ op \in [Operation -> Row(OpState)]
              /\ inter \in [Prompt -> Row(InterState)]
              /\ session \in [Instance -> SessionRow]
  BY DEF TypeOK, Row, SessionRow

LEMMA SessionUpdate ==
    ASSUME NEW i \in Instance, session \in [Instance -> SessionRow]
    PROVE  /\ [session EXCEPT ![i].next = session[i].next + 1] \in [Instance -> SessionRow]
           /\ \A g \in Generation :
                [session EXCEPT ![i].gen = g] \in [Instance -> SessionRow]
<1>1. /\ session[i] \in SessionRow /\ session[i].next \in Nat
      /\ [session[i] EXCEPT !.next = session[i].next + 1] \in SessionRow
      /\ \A g \in Generation : [session[i] EXCEPT !.gen = g] \in SessionRow
  BY DEF SessionRow
<1>2. \A row \in SessionRow : [session EXCEPT ![i] = row] \in [Instance -> SessionRow]
  OBVIOUS
<1>3. /\ [session EXCEPT ![i].next = session[i].next + 1]
           = [session EXCEPT ![i] = [session[i] EXCEPT !.next = session[i].next + 1]]
      /\ \A g \in Generation :
           [session EXCEPT ![i].gen = g]
             = [session EXCEPT ![i] = [session[i] EXCEPT !.gen = g]]
  OBVIOUS
<1> QED BY <1>1, <1>2, <1>3

\* A Session numbers and queues an event of the right shape.
LEMMA EmitType ==
    ASSUME TypeOK, NEW o \in Operation, NEW kind, NEW about, Emit(o, kind, about),
           \/ kind \in {"started", "ended"} /\ about \in Turn
           \/ kind \in {"asked", "resolved"} /\ about \in Prompt
    PROVE  /\ queue' \in [Instance -> Seq(Event)]
           /\ session' \in [Instance -> SessionRow]
<1> DEFINE i == op[o].inst
           e == [kind |-> kind, about |-> about, gen |-> session[i].gen,
                 seq |-> session[i].next]
<1>1. i \in Instance /\ session[i] \in [gen : Generation, next : Nat]
      /\ queue[i] \in Seq(Event)
  BY DEF TypeOK
<1>2. e \in Event  BY <1>1 DEF Event
<1>3. Append(queue[i], e) \in Seq(Event)  BY <1>1, <1>2
<1>4. CASE Reaches(o)
  <2>1. queue' = [queue EXCEPT ![i] = Append(queue[i], e)]
    BY <1>4 DEF Emit
  <2>2. session' = [session EXCEPT ![i].next = session[i].next + 1]
    BY <1>4 DEF Emit
  <2> HIDE DEF e, i
  <2>3. queue' \in [Instance -> Seq(Event)]  BY <1>1, <1>3, <2>1 DEF TypeOK
  <2> QED BY <1>1, <2>2, <2>3, TableTypes, SessionUpdate
<1>5. CASE ~Reaches(o)  BY <1>5, TableTypes DEF Emit, TypeOK
<1> QED BY <1>4, <1>5

\* The rows a recorded event changes keep their types.
LEMMA JournalledType ==
    ASSUME TypeOK, NEW e \in Event, Journalled(e)
    PROVE  /\ op' \in [Operation -> Row(OpState)]
           /\ inter' \in [Prompt -> Row(InterState)]
           /\ link' \in [Turn -> {"none", "live", "over", "cessation_attested"}]
<1>t. TypeOK /\ op \in [Operation -> Row(OpState)] /\ inter \in [Prompt -> Row(InterState)]
  BY TableTypes
<1>o. \A v \in OpState : \A row \in Row(OpState) : [row EXCEPT !.state = v] \in Row(OpState)
  BY RowUpdate
<1>i. \A v \in InterState : \A row \in Row(InterState) :
        [row EXCEPT !.state = v] \in Row(InterState)
  BY RowUpdate
<1>1. CASE e.kind = "started"  BY <1>1, <1>t, EventFacts DEF Journalled, TypeOK
<1>2. CASE e.kind = "ended"
  <2>1. e.about \in Turn  BY <1>2, EventFacts
  <2>2. link' = [link EXCEPT ![e.about] = "over"]  BY <1>2 DEF Journalled
  <2>3. inter' = [p \in Prompt |-> IF p \in Retired(e.about)
                    THEN [inter[p] EXCEPT !.state = "terminal_observed"] ELSE inter[p]]
    BY <1>2 DEF Journalled
  <2>4. op' = [o \in Operation |->
                 IF /\ o \in Reply /\ op[o].state = "prepared"
                    /\ ReplyTo[o] \in Retired(e.about)
                 THEN [op[o] EXCEPT !.state = "cancelled"] ELSE op[o]]
    BY <1>2 DEF Journalled
  <2>5. link' \in [Turn -> {"none", "live", "over", "cessation_attested"}]
    BY <2>1, <2>2, <1>t DEF TypeOK
  <2>6. op' \in [Operation -> Row(OpState)]  BY <2>4, <1>t, <1>o, StateFacts
  <2>7. inter' \in [Prompt -> Row(InterState)]  BY <2>3, <1>t, <1>i, StateFacts
  <2> QED BY <2>5, <2>6, <2>7
<1>3. CASE e.kind = "asked"
  <2>1. [state |-> "pending", inst |-> runtime.inst, gen |-> runtime.gen] \in Row(InterState)
    BY <1>t, StateFacts DEF TypeOK, Row
  <2>2. e.about \in Prompt  BY <1>3, EventFacts
  <2>3. /\ inter' = [inter EXCEPT ![e.about] =
                  [state |-> "pending", inst |-> runtime.inst, gen |-> runtime.gen]]
        /\ UNCHANGED <<op, link>>
    BY <1>3 DEF Journalled
  <2>4. \A row \in Row(InterState) :
          [inter EXCEPT ![e.about] = row] \in [Prompt -> Row(InterState)]
    BY <1>t, <2>2
  <2>5. inter' \in [Prompt -> Row(InterState)]  BY <2>1, <2>3, <2>4
  <2> QED BY <1>t, <2>3, <2>5 DEF TypeOK
<1>4. CASE e.kind = "resolved"
  <2>1. e.about \in Prompt /\ link' = link  BY <1>4, EventFacts DEF Journalled
  <2>2. CASE /\ inter' = [inter EXCEPT ![e.about].state = "resolution_observed"]
             /\ Observed(e.about)
    <3>1. op' \in [Operation -> Row(OpState)]
      BY <2>2, <1>t, <1>o, StateFacts DEF Observed
    <3>2. inter' \in [Prompt -> Row(InterState)]
      <4>1. "resolution_observed" \in InterState  BY StateFacts
      <4>2. \A x \in Prompt : [inter EXCEPT ![x].state = "resolution_observed"]
                               \in [Prompt -> Row(InterState)]
        BY <1>t, <4>1, RowUpdate
      <4> QED BY <2>1, <2>2, <4>2
    <3> QED BY <2>1, <1>t, <3>1, <3>2 DEF TypeOK
  <2>3. CASE UNCHANGED <<inter, op>>  BY <2>1, <2>3, <1>t DEF TypeOK
  <2> QED BY <1>4, <2>2, <2>3 DEF Journalled
<1> QED BY <1>1, <1>2, <1>3, <1>4, EventFacts

LEMMA TypeInit == Init => Typed
<1> SUFFICES ASSUME Init PROVE Typed  OBVIOUS
<1>1. /\ First \in Instance /\ 1 \in Generation /\ First \in Instance
      /\ MaxRebinds \in Nat
  BY RuntimeAssumption, OperationFacts
<1>2. ReplyCalls  BY DEF Init, ReplyCalls
<1>3. queue \in [Instance -> Seq(Event)]  BY DEF Init
<1>4. caller \in [Caller -> Call]  BY DEF Init, Call
<1>5. op \in [Operation -> Row(OpState)]
  BY <1>1 DEF Init, OpState, Row
<1>6. inter \in [Prompt -> Row(InterState)]
  BY <1>1 DEF Init, InterState, Row
<1> QED BY <1>1, <1>2, <1>3, <1>4, <1>5, <1>6 DEF Typed, TypeOK, Init, Row

\* Commands that change what is intended, and the callers of execute.
LEMMA IntentTypes ==
    ASSUME Typed, NEW o \in Operation,
           Prepare(o) \/ PrepareReply(o) \/ Cancel(o) \/ Expire(o) \/ Reconcile(o)
    PROVE  Typed'
<1>t. /\ TypeOK /\ ReplyCalls
      /\ op \in [Operation -> Row(OpState)] /\ inter \in [Prompt -> Row(InterState)]
  BY TableTypes DEF Typed
<1>u. ASSUME op' \in [Operation -> Row(OpState)], inter' \in [Prompt -> Row(InterState)],
             expired' \subseteq Operation,
             UNCHANGED <<runtime, rebinds, link, attempt, sessionVars, upstreamVars,
                         caller, sent>>
      PROVE  Typed'
  <2>1. TypeOK'  BY <1>t, <1>u DEF TypeOK, Row, sessionVars, upstreamVars
  <2>2. ReplyCalls'  BY <1>t, <1>u DEF ReplyCalls
  <2> QED BY <2>1, <2>2 DEF Typed
<1>b. \A state \in OpState : Become(o, state) => op' \in [Operation -> Row(OpState)]
  BY <1>t, RowUpdate DEF Become
<1>1. Prepared \in Row(OpState)
  BY <1>t DEF Prepared, OpState, Row, TypeOK
<1>2. CASE Prepare(o)  BY <1>1, <1>2, <1>t, <1>u DEF Prepare, TypeOK
<1>3. CASE PrepareReply(o)
  <2>1. inter' \in [Prompt -> Row(InterState)]
    BY <1>3, <1>t, OperationFacts, RowUpdate, StateFacts DEF PrepareReply
  <2> QED BY <1>1, <1>3, <1>t, <1>u, <2>1 DEF PrepareReply, TypeOK
<1>4. CASE Cancel(o)  BY <1>4, <1>b, <1>t, <1>u, StateFacts DEF Cancel, TypeOK
<1>5. CASE Expire(o)  BY <1>5, <1>t, <1>u DEF Expire, TypeOK, journalVars
<1>6. CASE Reconcile(o)  BY <1>6, <1>b, <1>t, <1>u, StateFacts DEF Reconcile, TypeOK
<1> QED BY <1>2, <1>3, <1>4, <1>5, <1>6

LEMMA CallerTypes ==
    ASSUME Typed, NEW c \in Caller,
           \/ Send(c) \/ Await(c) \/ Settle(c) \/ CallerLeaves(c)
           \/ \E o \in Operation : Dispatch(c, o)
    PROVE  Typed'
<1>t. /\ TypeOK /\ ReplyCalls
      /\ op \in [Operation -> Row(OpState)] /\ inter \in [Prompt -> Row(InterState)]
  BY TableTypes DEF Typed
<1>u. ASSUME UNCHANGED <<attempt, runtime, rebinds, session, queue, asker, turn>>,
             op' \in [Operation -> Row(OpState)],
             inter' \in [Prompt -> Row(InterState)],
             link' \in [Turn -> {"none", "live", "over", "cessation_attested"}],
             held' \subseteq Prompt, expired' = expired,
             sent' \in [Operation -> Nat],
             exec' \in [Operation -> {"no", "running", "answered", "rejected"}],
             NEW call \in Call, caller' = [caller EXCEPT ![c] = call],
             call.pc = "sent" => call.op \notin Reply,
             call.pc = "settling" /\ call.op \in Reply =>
               call.outcome \in {"uncertain", "sent_unconfirmed"}
      PROVE  Typed'
  <2>1. TypeOK'  BY <1>t, <1>u DEF TypeOK, Row
  <2>2. ReplyCalls'  BY <1>t, <1>u DEF TypeOK, ReplyCalls
  <2> QED BY <2>1, <2>2 DEF Typed
<1>i. [pc |-> "idle"] \in Call  BY DEF Call
<1>s. \A o \in Operation : \A out \in {"completed", "native_error", "uncertain",
                                       "sent_unconfirmed"} :
        Settling(o, out) \in Call
  BY DEF Settling, Call
<1>1. ASSUME NEW o \in Operation, Dispatch(c, o) PROVE Typed'
  <2>1. [pc |-> "ticket", op |-> o] \in Call  BY DEF Call
  <2>2. op' \in [Operation -> Row(OpState)]
    BY <1>1, <1>t, RowUpdate, StateFacts DEF Dispatch, Become
  <2> QED BY <1>1, <1>t, <1>u, <2>1, <2>2 DEF Dispatch, sessionVars, upstreamVars, TypeOK
<1>2. CASE Send(c)
  <2>1. caller[c].op \in Operation  BY <1>2, <1>t, CallFacts DEF Send
  <2> DEFINE o == caller[c].op
  <2>2. UNCHANGED <<attempt, runtime, rebinds, session, queue, asker, turn, op, inter,
                    link, expired>>
    BY <1>2 DEF Send, journalVars
  <2>3. CASE /\ sent' = [sent EXCEPT ![o] = @ + 1]
             /\ exec' = [exec EXCEPT ![o] = "running"]
             /\ held' = IF o \in Reply THEN held \ {ReplyTo[o]} ELSE held
             /\ caller' = [caller EXCEPT ![c] =
                  IF o \in Reply THEN Settling(o, "sent_unconfirmed")
                  ELSE [pc |-> "sent", op |-> o]]
    <3> DEFINE call == IF o \in Reply THEN Settling(o, "sent_unconfirmed")
                       ELSE [pc |-> "sent", op |-> o]
    <3>1. call \in Call  BY <2>1, <1>s DEF Call
    <3>2. /\ call.pc = "sent" => call.op \notin Reply
          /\ call.pc = "settling" /\ call.op \in Reply =>
               call.outcome \in {"uncertain", "sent_unconfirmed"}
      BY DEF Settling
    <3>3. caller' = [caller EXCEPT ![c] = call]  BY <2>3
    <3>4. /\ sent' \in [Operation -> Nat] /\ held' \subseteq Prompt
          /\ exec' \in [Operation -> {"no", "running", "answered", "rejected"}]
      BY <2>1, <2>3, <1>t DEF TypeOK
    <3> HIDE DEF call
    <3> QED BY <1>t, <1>u, <2>2, <3>1, <3>2, <3>3, <3>4 DEF TypeOK
  <2>4. CASE /\ caller' = [caller EXCEPT ![c] = Settling(o, "uncertain")]
             /\ UNCHANGED <<sent, exec, held>>
    <3>1. Settling(o, "uncertain") \in Call  BY <2>1, <1>s
    <3> QED BY <1>t, <1>u, <2>2, <2>4, <3>1 DEF TypeOK, Settling
  <2> QED BY <1>2, <2>3, <2>4 DEF Send
<1>3. CASE Await(c)
  <2>1. caller[c].op \in Operation  BY <1>3, <1>t, CallFacts DEF Await
  <2>2. PICK outcome \in {"completed", "native_error", "uncertain"} :
          caller' = [caller EXCEPT ![c] = Settling(caller[c].op, outcome)]
    BY <1>3 DEF Await
  <2>3. Settling(caller[c].op, outcome) \in Call  BY <2>1, <1>s
  <2>4. caller[c].op \notin Reply  BY <1>3, <1>t DEF Await, ReplyCalls
  <2> QED BY <1>3, <1>t, <1>u, <2>2, <2>3, <2>4
          DEF Await, Settling, journalVars, sessionVars, upstreamVars, TypeOK
<1>4. CASE Settle(c)
  <2> DEFINE o == caller[c].op
             outcome == caller[c].outcome
  <2>1. /\ o \in Operation
        /\ outcome \in {"completed", "native_error", "uncertain", "sent_unconfirmed"}
        /\ o \in Reply => outcome \in {"uncertain", "sent_unconfirmed"}
    BY <1>4, <1>t, CallFacts DEF Settle, ReplyCalls
  <2>2. /\ Become(o, outcome)
        /\ inter' = IF o \in Reply
                     THEN [inter EXCEPT ![ReplyTo[o]].state = outcome] ELSE inter
        /\ link' = IF o \in Turn /\ outcome = "completed"
                    THEN [link EXCEPT ![o] = "live"] ELSE link
        /\ caller' = [caller EXCEPT ![c] = [pc |-> "idle"]]
        /\ UNCHANGED <<attempt, runtime, rebinds, session, queue, asker, turn, held,
                       exec, sent, expired>>
    BY <1>4 DEF Settle, sessionVars, upstreamVars
  <2> HIDE DEF o, outcome
  <2>3. op' \in [Operation -> Row(OpState)]
    BY <1>t, <2>1, <2>2, RowUpdate, StateFacts DEF Become
  <2>4. inter' \in [Prompt -> Row(InterState)]
    <3>1. CASE o \in Reply
      <4>1. ReplyTo[o] \in Prompt /\ outcome \in InterState
        BY <2>1, <3>1, OperationFacts, StateFacts
      <4>2. inter' = [inter EXCEPT ![ReplyTo[o]].state = outcome]  BY <2>2, <3>1
      <4> QED BY <1>t, <4>1, <4>2, RowUpdate
    <3>2. CASE o \notin Reply  BY <1>t, <2>2, <3>2
    <3> QED BY <3>1, <3>2
  <2>5. link' \in [Turn -> {"none", "live", "over", "cessation_attested"}]
    BY <1>t, <2>1, <2>2 DEF TypeOK
  <2> QED BY <1>t, <1>i, <1>u, <2>2, <2>3, <2>4, <2>5 DEF TypeOK
<1>5. CASE CallerLeaves(c)
  BY <1>5, <1>t, <1>i, <1>u
     DEF CallerLeaves, journalVars, sessionVars, upstreamVars, TypeOK
<1> QED BY <1>1, <1>2, <1>3, <1>4, <1>5

LEMMA UpstreamTypes ==
    ASSUME Typed,
           \/ \E o \in Operation : Execute(o)
           \/ \E t \in Turn : TurnEnds(t) \/ \E p \in Prompt : Asks(t, p) \/ Resolves(t, p)
           \/ \E i \in Instance : NewConnection(i) \/ EventLost(i)
    PROVE  Typed'
<1>t. TypeOK /\ ReplyCalls  BY DEF Typed
<1>u. ASSUME Upstream,
             queue' \in [Instance -> Seq(Event)],
             session' \in [Instance -> SessionRow],
             held' \subseteq Prompt, asker' \in [Prompt -> Turn \union {"nobody"}],
             exec' \in [Operation -> {"no", "running", "answered", "rejected"}],
             turn' \in [Turn -> {"none", "live", "over"}]
      PROVE  Typed'
  <2>1. TypeOK'  BY <1>t, <1>u DEF TypeOK, Upstream, journalVars, SessionRow
  <2>2. ReplyCalls'  BY <1>t, <1>u DEF ReplyCalls, Upstream
  <2> QED BY <2>1, <2>2 DEF Typed
<1>s. session \in [Instance -> SessionRow]  BY <1>t, TableTypes
<1>a. \A prompts : Answered(prompts) =>
        exec' \in [Operation -> {"no", "running", "answered", "rejected"}]
  BY <1>t DEF Answered, TypeOK
<1>1. ASSUME NEW o \in Operation, Execute(o) PROVE Typed'
  <2>1. CASE /\ exec' = [exec EXCEPT ![o] = "answered"] /\ o \in Turn
             /\ turn' = [turn EXCEPT ![o] = "live"] /\ Emit(o, "started", o)
    BY <1>1, <1>s, <1>t, <1>u, <2>1, EmitType DEF Execute, TypeOK
  <2>2. CASE /\ exec' \in {[exec EXCEPT ![o] = "answered"], [exec EXCEPT ![o] = "rejected"]}
             /\ UNCHANGED <<turn, session, queue>>
    BY <1>1, <1>s, <1>t, <1>u, <2>2 DEF Execute, TypeOK
  <2> QED BY <1>1, <2>1, <2>2 DEF Execute
<1>2. ASSUME NEW t \in Turn, TurnEnds(t) PROVE Typed'
  <2>1. t \in Operation  BY OperationFacts
  <2> QED BY <1>2, <1>t, <1>a, <1>u, <2>1, EmitType DEF TurnEnds, TypeOK
<1>3. ASSUME NEW t \in Turn, NEW p \in Prompt, Asks(t, p) PROVE Typed'
  <2>1. t \in Operation  BY OperationFacts
  <2> QED BY <1>3, <1>t, <1>u, <2>1, EmitType DEF Asks, TypeOK
<1>4. ASSUME NEW t \in Turn, NEW p \in Prompt, Resolves(t, p) PROVE Typed'
  <2>1. t \in Operation  BY OperationFacts
  <2> QED BY <1>4, <1>t, <1>a, <1>u, <2>1, EmitType DEF Resolves, TypeOK
<1>5. ASSUME NEW i \in Instance, NewConnection(i) PROVE Typed'
  <2>1. session[i].gen \in Generation /\ session[i].gen + 1 \in Generation
    <3>1. session[i].gen \in Generation /\ session[i].gen < MaxGeneration
      BY <1>5, <1>s DEF NewConnection, SessionRow
    <3> QED BY <3>1, RuntimeAssumption DEF Generation
  <2>2. session' = [session EXCEPT ![i].gen = session[i].gen + 1]
    BY <1>5 DEF NewConnection
  <2>3. session' \in [Instance -> SessionRow]
    BY <1>s, <2>1, <2>2, SessionUpdate
  <2> QED BY <1>5, <1>t, <1>u, <2>3 DEF NewConnection, upstreamVars, TypeOK
<1>6. ASSUME NEW i \in Instance, EventLost(i) PROVE Typed'
  <2>1. Tail(queue[i]) \in Seq(Event)  BY <1>6, <1>t DEF EventLost, TypeOK
  <2>2. queue' \in [Instance -> Seq(Event)]  BY <1>6, <1>t, <2>1 DEF EventLost, TypeOK
  <2> QED BY <1>6, <1>s, <1>t, <1>u, <2>2 DEF EventLost, upstreamVars, TypeOK
<1> QED BY <1>1, <1>2, <1>3, <1>4, <1>5, <1>6

LEMMA HeadIsEvent ==
    ASSUME TypeOK, RecordEvent
    PROVE  /\ Head(queue[runtime.inst]) \in Event
           /\ Head(queue[runtime.inst]).kind \in {"started", "ended", "asked", "resolved"}
<1>1. runtime.inst \in Instance /\ queue[runtime.inst] \in Seq(Event)
      /\ queue[runtime.inst] # <<>>
  BY DEF RecordEvent, TypeOK
<1>2. Head(queue[runtime.inst]) \in Event  BY <1>1
<1> QED BY <1>2, EventFacts

LEMMA RecordTypes == ASSUME Typed, RecordEvent PROVE Typed'
<1>t. TypeOK /\ ReplyCalls  BY DEF Typed
<1> DEFINE i == runtime.inst
           e == Head(queue[i])
<1>1. i \in Instance /\ queue[i] \in Seq(Event) /\ queue[i] # <<>>
  BY <1>t DEF RecordEvent, TypeOK
<1>2. e \in Event /\ Tail(queue[i]) \in Seq(Event)  BY <1>1
<1>3. /\ Journalled(e)
      /\ runtime' = [runtime EXCEPT !.seq = e.seq, !.gap = GapAfter(e.seq)]
      /\ queue' = [queue EXCEPT ![i] = Tail(queue[i])]
      /\ UNCHANGED <<rebinds, attempt, session, held, upstreamVars, caller, expired, sent>>
  BY DEF RecordEvent
<1> HIDE DEF e, i
<1>4. GapAfter(e.seq) \in BOOLEAN  BY <1>t DEF GapAfter, TypeOK
<1>5. runtime' \in [inst : Instance, gen : Generation, seq : Nat, gap : BOOLEAN]
  <2>1. e.seq \in Nat  BY <1>2, EventFacts
  <2> QED BY <1>3, <1>4, <1>t, <2>1 DEF TypeOK
<1>6. queue' \in [Instance -> Seq(Event)]  BY <1>1, <1>2, <1>3, <1>t DEF TypeOK
<1>7. /\ op' \in [Operation -> Row(OpState)]
      /\ inter' \in [Prompt -> Row(InterState)]
      /\ link' \in [Turn -> {"none", "live", "over", "cessation_attested"}]
  BY <1>2, <1>3, <1>t, JournalledType
<1>8. TypeOK'  BY <1>3, <1>5, <1>6, <1>7, <1>t DEF TypeOK, Row, upstreamVars
<1>9. ReplyCalls'  BY <1>3, <1>t DEF ReplyCalls
<1> QED BY <1>8, <1>9 DEF Typed

LEMMA OperatorTypes ==
    ASSUME Typed,
           \/ \E i \in Instance : Reconnect(i)
           \/ Attest \/ LoseExecution \/ Rebind \/ End
    PROVE  Typed'
<1>t. /\ TypeOK /\ ReplyCalls
      /\ op \in [Operation -> Row(OpState)] /\ inter \in [Prompt -> Row(InterState)]
  BY TableTypes DEF Typed
<1>o. \A v \in OpState : \A row \in Row(OpState) : [row EXCEPT !.state = v] \in Row(OpState)
  BY RowUpdate
<1>i. \A v \in InterState : \A row \in Row(InterState) :
        [row EXCEPT !.state = v] \in Row(InterState)
  BY RowUpdate
<1>u. ASSUME op' \in [Operation -> Row(OpState)], inter' \in [Prompt -> Row(InterState)],
             attempt' \in {"running", "moved", "lost", "ended"},
             runtime' \in [inst : Instance, gen : Generation, seq : Nat, gap : BOOLEAN],
             rebinds' \in 0 .. MaxRebinds,
             link' \in [Turn -> {"none", "live", "over", "cessation_attested"}],
             UNCHANGED <<sessionVars, upstreamVars, caller, expired, sent>>
      PROVE  Typed'
  <2>1. TypeOK'  BY <1>t, <1>u DEF TypeOK, Row, sessionVars, upstreamVars
  <2>2. ReplyCalls'  BY <1>t, <1>u DEF ReplyCalls
  <2> QED BY <2>1, <2>2 DEF Typed
<1>1. ASSUME NEW i \in Instance, Reconnect(i) PROVE Typed'
  <2>1. rebinds' \in 0 .. MaxRebinds
    BY <1>1, <1>t, RuntimeAssumption DEF Reconnect, TypeOK
  <2>2. op' \in [Operation -> Row(OpState)]  BY <1>1, <1>t, <1>o, StateFacts DEF Reconnect
  <2>3. inter' \in [Prompt -> Row(InterState)]
    BY <1>1, <1>t, <1>i, StateFacts DEF Reconnect
  <2>4. runtime' \in [inst : Instance, gen : Generation, seq : Nat, gap : BOOLEAN]
    BY <1>1, <1>t DEF Reconnect, TypeOK
  <2> QED BY <1>1, <1>t, <1>u, <2>1, <2>2, <2>3, <2>4 DEF Reconnect, TypeOK
<1>2. CASE Attest
  <2>1. inter' \in [Prompt -> Row(InterState)]  BY <1>2, <1>t, <1>i, StateFacts DEF Attest
  <2>2. link' \in [Turn -> {"none", "live", "over", "cessation_attested"}]
    BY <1>2, <1>t DEF Attest, TypeOK
  <2>3. runtime' \in [inst : Instance, gen : Generation, seq : Nat, gap : BOOLEAN]
    BY <1>2, <1>t DEF Attest, TypeOK
  <2> QED BY <1>2, <1>t, <1>u, <2>1, <2>2, <2>3 DEF Attest, TypeOK
<1>3. CASE LoseExecution \/ Rebind \/ End
  BY <1>3, <1>t, <1>u DEF LoseExecution, Rebind, End, Elsewhere, TypeOK, journalVars
<1> QED BY <1>1, <1>2, <1>3

LEMMA TypedStep == Typed /\ [Next]_vars => Typed'
<1> SUFFICES ASSUME Typed, [Next]_vars PROVE Typed'  OBVIOUS
<1>1. CASE UNCHANGED vars
  BY <1>1 DEF vars, Typed, TypeOK, ReplyCalls, sessionVars, upstreamVars, journalVars
<1>2. CASE Next
  BY <1>2, IntentTypes, CallerTypes, UpstreamTypes, RecordTypes, OperatorTypes DEF Next
<1> QED BY <1>1, <1>2

LEMMA TypedHolds == Spec => []Typed
<1> QED BY TypeInit, TypedStep, PTL DEF Spec

\* Every reachable state of the journal is well typed.
THEOREM TypeCorrect == Spec => []TypeOK
<1>1. Typed => TypeOK  BY DEF Typed
<1> QED BY <1>1, TypedHolds, PTL

-----------------------------------------------------------------------------
(* Tickets *)

Unsent == {"none", "prepared", "cancelled"}
Dispatched(o) == op[o].state \notin Unsent
Busy(c) == caller[c].pc # "idle"

\* Whoever works on an operation has its only ticket; what was not dispatched
\* was not sent, and what a caller still has to send was not either.
Tickets ==
    /\ \A c, d \in Caller : c # d /\ Busy(c) /\ Busy(d) => caller[c].op # caller[d].op
    /\ \A c \in Caller :
         /\ Busy(c) => Dispatched(caller[c].op)
         /\ caller[c].pc = "ticket" => sent[caller[c].op] = 0
    /\ \A o \in Operation : sent[o] <= 1 /\ (~Dispatched(o) => sent[o] = 0)

\* The steps that are neither a caller's nor a Session's sending.
Elsewise ==
    \/ \E o \in Operation : Prepare(o) \/ PrepareReply(o) \/ Cancel(o) \/ Expire(o)
                           \/ Execute(o) \/ Reconcile(o)
    \/ \E t \in Turn : TurnEnds(t) \/ \E p \in Prompt : Asks(t, p) \/ Resolves(t, p)
    \/ \E i \in Instance : NewConnection(i) \/ EventLost(i) \/ Reconnect(i)
    \/ RecordEvent \/ Attest \/ LoseExecution \/ Rebind \/ End

\* Only a dispatch makes an operation a dispatched one, and nothing undoes it.
LEMMA DispatchedKept ==
    ASSUME Typed, Elsewise, NEW o \in Operation
    PROVE  Dispatched(o)' <=> Dispatched(o)
<1>t. TypeOK /\ op \in [Operation -> Row(OpState)]  BY TableTypes DEF Typed
<1>u. UNCHANGED op => (Dispatched(o)' <=> Dispatched(o))  BY DEF Dispatched
<1>r. \A row \in Row(OpState) : \A v : [row EXCEPT !.state = v].state = v
  BY DEF Row
<1>b. \A q \in Operation, v \in OpState : Become(q, v) =>
        op'[o].state = IF o = q THEN v ELSE op[o].state
  BY <1>t DEF Become, Row
<1>1. ASSUME NEW q \in Operation, Prepare(q) \/ PrepareReply(q)
      PROVE  Dispatched(o)' <=> Dispatched(o)
  <2>1. op[q].state = "none" /\ op' = [op EXCEPT ![q] = Prepared]
    BY <1>1 DEF Prepare, PrepareReply
  <2>2. Prepared.state = "prepared"  BY DEF Prepared
  <2>3. CASE o = q
    <3>1. op'[o] = Prepared  BY <1>t, <2>1, <2>3
    <3> QED BY <2>1, <2>2, <2>3, <3>1 DEF Dispatched, Unsent
  <2>4. CASE o # q
    <3>1. op'[o] = op[o]  BY <1>t, <2>1, <2>4
    <3> QED BY <3>1 DEF Dispatched
  <2> QED BY <2>3, <2>4
<1>2. ASSUME NEW q \in Operation, Cancel(q) PROVE Dispatched(o)' <=> Dispatched(o)
  BY <1>2, <1>b, StateFacts DEF Cancel, Cancellable, Dispatched, Unsent
<1>3. ASSUME NEW q \in Operation, Reconcile(q) PROVE Dispatched(o)' <=> Dispatched(o)
  BY <1>3, <1>b, StateFacts DEF Reconcile, Reconcilable, Dispatched, Unsent
<1>4. ASSUME NEW i \in Instance, Reconnect(i) PROVE Dispatched(o)' <=> Dispatched(o)
  <2>1. op'[o] = IF op[o].state \in {"in_flight", "sent_unconfirmed"}
                 THEN [op[o] EXCEPT !.state = "uncertain"]
                 ELSE IF op[o].state = "prepared"
                      THEN [op[o] EXCEPT !.state = "cancelled"] ELSE op[o]
    BY <1>4 DEF Reconnect
  <2> QED BY <1>r, <1>t, <2>1 DEF Dispatched, Unsent
<1>5. CASE RecordEvent
  <2> DEFINE e == Head(queue[runtime.inst])
  <2>1. Journalled(e)  BY <1>5 DEF RecordEvent
  <2>2. \/ op' = op
        \/ op' = [q \in Operation |->
                       IF /\ q \in Reply /\ op[q].state = "prepared"
                          /\ ReplyTo[q] \in Retired(e.about)
                       THEN [op[q] EXCEPT !.state = "cancelled"] ELSE op[q]]
        \/ Observed(e.about)
    <3>1. e.kind \in {"started", "ended", "asked", "resolved"}
      BY <1>5, HeadIsEvent DEF Typed
    <3> HIDE DEF e
    <3> QED BY <2>1, <3>1 DEF Journalled
  <2> HIDE DEF e
  <2>3. \/ op'[o] = op[o]
        \/ op[o].state = "prepared" /\ op'[o] = [op[o] EXCEPT !.state = "cancelled"]
        \/ /\ op[o].state \in {"in_flight", "sent_unconfirmed", "uncertain"}
           /\ op'[o] = [op[o] EXCEPT !.state = "completed"]
    BY <2>2 DEF Observed
  <2>4. \A v : [op[o] EXCEPT !.state = v].state = v  BY <1>r, <1>t
  <2>5. \/ op'[o].state = op[o].state
        \/ op[o].state = "prepared" /\ op'[o].state = "cancelled"
        \/ /\ op[o].state \in {"in_flight", "sent_unconfirmed", "uncertain"}
           /\ op'[o].state = "completed"
    BY <2>3, <2>4
  <2> QED BY <2>5 DEF Dispatched, Unsent
<1>6. CASE \/ \E q \in Operation : Expire(q) \/ Execute(q)
           \/ \E t \in Turn : TurnEnds(t) \/ \E p \in Prompt : Asks(t, p) \/ Resolves(t, p)
           \/ \E i \in Instance : NewConnection(i) \/ EventLost(i)
           \/ Attest \/ LoseExecution \/ Rebind \/ End
  BY <1>6, <1>u
     DEF Expire, Execute, TurnEnds, Asks, Resolves, NewConnection, EventLost, Attest,
         LoseExecution, Rebind, End, Elsewhere, Upstream, journalVars
<1> QED BY <1>1, <1>2, <1>3, <1>4, <1>5, <1>6 DEF Elsewise

LEMMA ElsewiseKeepsCallers == Elsewise => UNCHANGED <<caller, sent>>
  BY DEF Elsewise, Prepare, PrepareReply, Cancel, Expire, Reconcile, Execute, TurnEnds,
         Asks, Resolves, NewConnection, EventLost, Upstream, Reconnect, RecordEvent,
         Attest, LoseExecution, Rebind, End, Elsewhere

LEMMA TicketsStep == Typed /\ Tickets /\ [Next]_vars => Tickets'
<1> SUFFICES ASSUME Typed, Tickets, [Next]_vars PROVE Tickets'  OBVIOUS
<1>t. TypeOK /\ op \in [Operation -> Row(OpState)]  BY TableTypes DEF Typed
<1>c. \A c \in Caller : Busy(c) => caller[c].op \in Operation
  BY <1>t, CallFacts DEF Busy
<1>k. ASSUME UNCHANGED <<caller, sent>>,
             \A o \in Operation : Dispatched(o)' <=> Dispatched(o)
      PROVE  Tickets'
  BY <1>k, <1>c, CallFacts DEF Tickets, Busy
<1>1. CASE UNCHANGED vars  BY <1>1, <1>k DEF vars, journalVars, Dispatched
<1>2. CASE Elsewise  BY <1>2, <1>k, DispatchedKept, ElsewiseKeepsCallers
<1>3. ASSUME NEW c \in Caller, NEW o \in Operation, Dispatch(c, o) PROVE Tickets'
  <2>1. /\ ~Busy(c) /\ op[o].state = "prepared" /\ ~Dispatched(o) /\ sent' = sent
        /\ caller' = [caller EXCEPT ![c] = [pc |-> "ticket", op |-> o]]
    BY <1>3 DEF Dispatch, Dispatchable, Dispatched, Unsent, Busy
  <2>2. \A q \in Operation : op'[q].state = IF q = o THEN "in_flight" ELSE op[q].state
    BY <1>3, <1>t DEF Dispatch, Become, Row
  <2>3. \A q \in Operation : Dispatched(q)' <=> Dispatched(q) \/ q = o
    BY <2>2 DEF Dispatched, Unsent
  <2>4. \A d \in Caller : Busy(d) => caller[d].op # o
    BY <2>1 DEF Tickets
  <2>5. \A d \in Caller : caller'[d] = IF d = c THEN [pc |-> "ticket", op |-> o] ELSE caller[d]
    BY <2>1, <1>t DEF TypeOK
  <2>6. \A d \in Caller : Busy(d)' <=> Busy(d) \/ d = c  BY <2>5 DEF Busy
  <2>7. \A d, e \in Caller : d # e /\ Busy(d)' /\ Busy(e)' => caller'[d].op # caller'[e].op
    BY <2>4, <2>5, <2>6 DEF Tickets
  <2>8. \A d \in Caller : /\ Busy(d)' => op'[caller'[d].op].state \notin Unsent
                          /\ caller'[d].pc = "ticket" => sent'[caller'[d].op] = 0
    <3> SUFFICES ASSUME NEW d \in Caller
                 PROVE  /\ Busy(d)' => op'[caller'[d].op].state \notin Unsent
                        /\ caller'[d].pc = "ticket" => sent'[caller'[d].op] = 0
      OBVIOUS
    <3>1. CASE d = c
      <4>1. caller'[d].op = o  BY <2>5, <3>1
      <4>2. op'[o].state \notin Unsent /\ sent'[o] = 0
        BY <2>1, <2>2 DEF Tickets, Unsent
      <4> QED BY <4>1, <4>2
    <3>2. CASE d # c
      <4>1. caller'[d] = caller[d]  BY <2>5, <3>2
      <4>2. Busy(d) => op'[caller[d].op].state \notin Unsent
        BY <2>3, <1>c DEF Tickets, Dispatched
      <4> QED BY <2>1, <2>6, <3>2, <4>1, <4>2 DEF Tickets
    <3> QED BY <3>1, <3>2
  <2> QED BY <2>1, <2>3, <2>7, <2>8 DEF Tickets, Dispatched
<1>4. ASSUME NEW c \in Caller, Send(c) \/ Await(c) \/ Settle(c) \/ CallerLeaves(c)
      PROVE  Tickets'
  <2> DEFINE o == caller[c].op
  <2>1. Busy(c) /\ o \in Operation
    BY <1>4, <1>c DEF Send, Await, Settle, CallerLeaves, Busy
  <2>2. PICK call : /\ caller' = [caller EXCEPT ![c] = call]
                    /\ call.pc \in {"idle", "sent", "settling"}
                    /\ call.pc # "idle" => call.op = o
    BY <1>4 DEF Send, Await, Settle, CallerLeaves, Settling
  <2>3. \/ sent' = sent
        \/ caller[c].pc = "ticket" /\ sent' = [sent EXCEPT ![o] = sent[o] + 1]
    BY <1>4 DEF Send, Await, Settle, CallerLeaves
  <2>4. \A q \in Operation : Dispatched(q)' <=> Dispatched(q)
    <3>1. CASE op' = op  BY <3>1 DEF Dispatched
    <3>2. CASE Settle(c)
      <4>1. caller[c].outcome \in {"completed", "native_error", "uncertain", "sent_unconfirmed"}
        BY <3>2, <1>t, CallFacts DEF Settle
      <4>2. Become(o, caller[c].outcome) /\ op[o].state = "in_flight"
        BY <3>2 DEF Settle, Settleable
      <4>3. \A q \in Operation :
              op'[q].state = IF q = o THEN caller[c].outcome ELSE op[q].state
        BY <4>2, <2>1, <1>t DEF Become, Row
      <4> QED BY <4>1, <4>2, <4>3 DEF Dispatched, Unsent
    <3> QED BY <1>4, <3>1, <3>2 DEF Send, Await, CallerLeaves, journalVars
  <2> HIDE DEF o
  <2>5. \A d \in Caller : caller'[d] = IF d = c THEN call ELSE caller[d]
    BY <2>2, <1>t DEF TypeOK
  <2>6. \A q \in Operation : sent'[q] = sent[q] \/ (q = o /\ sent'[q] = 1 /\ sent[q] = 0)
    BY <2>1, <2>3, <1>t DEF Tickets, TypeOK, o
  <2>7. \A d \in Caller : caller'[d].pc = "ticket" => d # c /\ caller'[d].op # o
    BY <2>1, <2>2, <2>5 DEF Tickets, Busy, o
  <2>8. \A d, e \in Caller : d # e /\ Busy(d)' /\ Busy(e)' => caller'[d].op # caller'[e].op
    BY <2>1, <2>2, <2>5 DEF Tickets, Busy, o
  <2>9. \A d \in Caller : Busy(d)' => Busy(d) /\ caller'[d].op = caller[d].op
    BY <2>1, <2>2, <2>5 DEF Busy, o
  <2>10. \A d \in Caller : Busy(d)' => op'[caller'[d].op].state \notin Unsent
    <3> SUFFICES ASSUME NEW d \in Caller, Busy(d)' PROVE op'[caller'[d].op].state \notin Unsent
      OBVIOUS
    <3>1. caller'[d].op = caller[d].op /\ caller[d].op \in Operation
      BY <2>9, <1>c
    <3>2. Dispatched(caller[d].op)  BY <2>9 DEF Tickets
    <3>3. \A q \in Operation : Dispatched(q) => op'[q].state \notin Unsent
      BY <2>4 DEF Dispatched
    <3> QED BY <3>1, <3>2, <3>3
  <2>11. \A d \in Caller : caller'[d].pc = "ticket" => sent'[caller'[d].op] = 0
    BY <2>5, <2>6, <2>7, <1>c DEF Tickets, Busy
  <2>12. \A q \in Operation : sent'[q] <= 1 /\ (~Dispatched(q)' => sent'[q] = 0)
    BY <2>1, <2>4, <2>6 DEF Tickets, o
  <2> QED BY <2>8, <2>10, <2>11, <2>12 DEF Tickets, Dispatched
<1> QED BY <1>1, <1>2, <1>3, <1>4 DEF Next, Elsewise

LEMMA TicketsHold == Spec => []Tickets
<1>1. Init => Tickets  BY DEF Init, Tickets, Busy, Dispatched, Unsent
<1> QED BY <1>1, TicketsStep, TypedHolds, PTL DEF Spec

\* codex_runtime.ex:158-196: whatever callers race, die or come back, an
\* operation is written once at most, and a cancelled one never.
THEOREM TicketsAreOneUse == Spec => []SentOnce
<1>1. Tickets => SentOnce  BY DEF Tickets, SentOnce, Dispatched, Unsent
<1> QED BY <1>1, TicketsHold, PTL

-----------------------------------------------------------------------------
(* What a step never undoes *)

HasTicket(c, o) == caller[c].pc = "ticket" /\ caller[c].op = o

\* Prompts are asked once and handles given up for good; only a ticket the
\* Session accepts starts an operation, and what was answered stays so.
Onward ==
    /\ \A p \in Prompt : asker[p] # "nobody" =>
         asker'[p] # "nobody" /\ (p \in held' => p \in held)
    /\ \A o \in Operation :
         \/ exec'[o] = exec[o]
         \/ exec[o] = "running" /\ exec'[o] \in {"answered", "rejected"}
         \/ /\ exec'[o] = "running" /\ sent[o] = 0 /\ sent'[o] # 0
            /\ \E c \in Caller : HasTicket(c, o) /\ SessionAccepts(o)
    /\ \A o \in Operation : sent'[o] = 0 => sent[o] = 0
    /\ \A t \in Turn :
         \/ turn'[t] = turn[t] /\ (exec'[t] = "answered" => exec[t] = "answered")
         \/ turn[t] = "live" /\ turn'[t] = "over" /\ exec'[t] = exec[t]
         \/ exec[t] = "running" /\ exec'[t] = "answered" /\ turn'[t] = "live"
    /\ expired \subseteq expired'
    /\ \A i \in Instance : session'[i].gen >= session[i].gen

OnwardRows ==
    \A o \in Operation : op[o].state # "none" =>
        /\ op'[o].inst = op[o].inst /\ op'[o].gen = op[o].gen
        /\ op'[o].state # "none"

OnwardCallers ==
    /\ \A c \in Caller, o \in Operation :
         HasTicket(c, o)' => HasTicket(c, o) \/ op[o].state = "prepared"
    /\ \A c \in Caller : caller'[c].pc = "settling" =>
         \/ caller'[c] = caller[c]
         \/ caller'[c].outcome \in {"uncertain", "sent_unconfirmed"}
         \/ caller'[c].outcome = "completed" /\ exec[caller'[c].op] = "answered"
         \/ caller'[c].outcome = "native_error" /\ exec[caller'[c].op] = "rejected"

LEMMA OnwardStill ==
    ASSUME Typed, UNCHANGED <<asker, held, exec, sent, turn, session>>,
           expired \subseteq expired'
    PROVE  Onward
<1>1. \A i \in Instance : session[i].gen \in Nat
  BY DEF Typed, TypeOK, Generation
<1> QED BY <1>1 DEF Onward

\* Emitting an event leaves the generations as they are.
LEMMA EmitKeeps ==
    ASSUME Typed, NEW o \in Operation, NEW kind, NEW about,
           Emit(o, kind, about) \/ UNCHANGED session
    PROVE  \A i \in Instance : session'[i].gen >= session[i].gen
<1>1. \A i \in Instance : session[i].gen \in Nat /\ session[i] \in SessionRow
  <2>1. \A i \in Instance : session[i] \in SessionRow  BY TableTypes DEF Typed
  <2>2. \A row \in SessionRow : row.gen \in Nat  BY DEF SessionRow, Generation
  <2> QED BY <2>1, <2>2
<1>2. session \in [Instance -> SessionRow]  BY TableTypes DEF Typed
<1>3. \A i \in Instance : session'[i].gen = session[i].gen
  <2>1. CASE UNCHANGED session  BY <2>1
  <2>2. CASE session' = [session EXCEPT ![op[o].inst].next = session[op[o].inst].next + 1]
    BY <1>2, <2>2 DEF SessionRow
  <2> QED BY <2>1, <2>2 DEF Emit
<1> QED BY <1>1, <1>3

LEMMA OnwardStep == Typed /\ Tickets /\ [Next]_vars => Onward
<1> SUFFICES ASSUME Typed, Tickets, [Next]_vars PROVE Onward  OBVIOUS
<1>t. TypeOK  BY DEF Typed
<1>n. \A i \in Instance : session[i].gen \in Nat
  BY <1>t DEF TypeOK, Generation
<1>1. CASE UNCHANGED vars
  BY <1>1, OnwardStill DEF vars, sessionVars, upstreamVars
<1>2. CASE \/ \E o \in Operation : Prepare(o) \/ PrepareReply(o) \/ Cancel(o) \/ Expire(o)
                                   \/ Reconcile(o)
           \/ \E c \in Caller : Await(c) \/ Settle(c) \/ CallerLeaves(c)
                                 \/ \E o \in Operation : Dispatch(c, o)
           \/ \E i \in Instance : EventLost(i) \/ Reconnect(i)
           \/ RecordEvent \/ Attest \/ LoseExecution \/ Rebind \/ End
  BY <1>2, OnwardStill
     DEF Prepare, PrepareReply, Cancel, Expire, Reconcile, Await, Settle, CallerLeaves,
         Dispatch, EventLost, Reconnect, RecordEvent, Attest, LoseExecution, Rebind, End,
         Elsewhere, Upstream, sessionVars, upstreamVars
<1>3. ASSUME NEW c \in Caller, Send(c) PROVE Onward
  <2> DEFINE o == caller[c].op
  <2>1. o \in Operation /\ HasTicket(c, o) /\ sent[o] = 0
    BY <1>3, <1>t, CallFacts DEF Send, HasTicket, Tickets
  <2>2. UNCHANGED <<session, turn, asker, expired>>  BY <1>3 DEF Send
  <2>3. CASE UNCHANGED <<sent, exec, held>>  BY <2>2, <2>3, OnwardStill
  <2>4. CASE /\ SessionAccepts(o)
             /\ sent' = [sent EXCEPT ![o] = sent[o] + 1]
             /\ exec' = [exec EXCEPT ![o] = "running"]
             /\ held' \subseteq held
    <3> HIDE DEF o
    <3>1. sent'[o] = 1 /\ \A q \in Operation : q # o => sent'[q] = sent[q]
      BY <2>1, <2>4, <1>t DEF TypeOK
    <3>2. exec'[o] = "running" /\ \A q \in Operation : q # o => exec'[q] = exec[q]
      BY <2>1, <2>4, <1>t DEF TypeOK
    <3> QED BY <1>n, <2>1, <2>2, <2>4, <3>1, <3>2 DEF Onward
  <2> QED BY <1>3, <2>3, <2>4 DEF Send
<1>4. ASSUME NEW o \in Operation, Execute(o) PROVE Onward
  <2>1. /\ exec[o] = "running" /\ o \notin Reply
        /\ UNCHANGED <<held, asker, sent, expired>>
    BY <1>4 DEF Execute, Upstream
  <2>2. \A i \in Instance : session'[i].gen >= session[i].gen
    BY <1>4, EmitKeeps DEF Execute
  <2>3. CASE /\ exec' = [exec EXCEPT ![o] = "answered"]
             /\ turn' = IF o \in Turn THEN [turn EXCEPT ![o] = "live"] ELSE turn
    BY <1>t, <2>1, <2>2, <2>3, OperationFacts DEF Onward, TypeOK
  <2>4. CASE exec' = [exec EXCEPT ![o] = "rejected"] /\ turn' = turn
    BY <1>t, <2>1, <2>2, <2>4, OperationFacts DEF Onward, TypeOK
  <2> QED BY <1>4, <2>3, <2>4 DEF Execute
<1>5. ASSUME NEW t \in Turn, NEW p \in Prompt, Asks(t, p) \/ Resolves(t, p)
      PROVE  Onward
  <2>1. \A i \in Instance : session'[i].gen >= session[i].gen
    BY <1>5, EmitKeeps, OperationFacts DEF Asks, Resolves
  <2>2. UNCHANGED <<sent, expired>>  BY <1>5 DEF Asks, Resolves, Upstream
  <2>3. /\ \A o \in Operation : exec'[o] = exec[o] \/ (exec[o] = "running" /\ exec'[o] = "answered")
        /\ \A o \in Turn : exec'[o] = exec[o]
    <3>1. CASE Asks(t, p)  BY <3>1 DEF Asks
    <3>2. CASE Resolves(t, p)
      <4>1. Answered({p})  BY <3>2 DEF Resolves
      <4> QED BY <4>1, OperationFacts DEF Answered
    <3> QED BY <1>5, <3>1, <3>2
  <2>4. \A q \in Prompt : asker[q] # "nobody" =>
            asker'[q] # "nobody" /\ (q \in held' => q \in held)
    BY <1>5, <1>t DEF Asks, Resolves, TypeOK
  <2>5. \A q \in Turn : turn'[q] = turn[q] \/ (turn[q] = "live" /\ turn'[q] = "over")
    BY <1>5, <1>t DEF Asks, Resolves, TypeOK
  <2> QED BY <2>1, <2>2, <2>3, <2>4, <2>5 DEF Onward
<1>6. ASSUME NEW t \in Turn, TurnEnds(t) PROVE Onward
  <2>1. \A i \in Instance : session'[i].gen >= session[i].gen
    BY <1>6, EmitKeeps, OperationFacts DEF TurnEnds
  <2>2. UNCHANGED <<sent, expired, asker>> /\ held' \subseteq held
    BY <1>6 DEF TurnEnds, Upstream
  <2>3. /\ \A o \in Operation : exec'[o] = exec[o] \/ (exec[o] = "running" /\ exec'[o] = "answered")
        /\ \A o \in Turn : exec'[o] = exec[o]
    BY <1>6, <1>t, OperationFacts DEF TurnEnds, Answered, TypeOK
  <2>4. \A q \in Turn : turn'[q] = turn[q] \/ (turn[q] = "live" /\ turn'[q] = "over")
    BY <1>6, <1>t DEF TurnEnds, TypeOK
  <2> QED BY <2>1, <2>2, <2>3, <2>4 DEF Onward
<1>7. ASSUME NEW i \in Instance, NewConnection(i) PROVE Onward
  <2>1. \A j \in Instance : session'[j].gen >= session[j].gen
    <3>1. session \in [Instance -> SessionRow] /\ session[i].gen \in Nat
      BY <1>t, <1>n, TableTypes
    <3>2. session' = [session EXCEPT ![i].gen = session[i].gen + 1]
      BY <1>7 DEF NewConnection
    <3>3. \A j \in Instance : session'[j].gen = IF j = i THEN session[i].gen + 1
                                                ELSE session[j].gen
      BY <3>1, <3>2 DEF SessionRow
    <3> QED BY <1>n, <3>3
  <2> QED BY <1>7, <2>1 DEF NewConnection, Upstream, upstreamVars, Onward
<1> QED BY <1>1, <1>2, <1>3, <1>4, <1>5, <1>6, <1>7 DEF Next

LEMMA OnwardRowsStep == Typed /\ [Next]_vars => OnwardRows
<1> SUFFICES ASSUME Typed, [Next]_vars, NEW o \in Operation, op[o].state # "none"
             PROVE  /\ op'[o].inst = op[o].inst /\ op'[o].gen = op[o].gen
                    /\ op'[o].state # "none"
  BY DEF OnwardRows
<1>t. TypeOK /\ op \in [Operation -> Row(OpState)]  BY TableTypes DEF Typed
<1>v. ASSUME NEW v, v # "none", op'[o] = [op[o] EXCEPT !.state = v]
      PROVE  /\ op'[o].inst = op[o].inst /\ op'[o].gen = op[o].gen
             /\ op'[o].state # "none"
  BY <1>t, <1>v DEF Row
<1>b. \A q \in Operation : \A v : Become(q, v) =>
        op'[o] = IF o = q THEN [op[o] EXCEPT !.state = v] ELSE op[o]
  BY <1>t DEF Become
<1>u. op'[o] = op[o] => /\ op'[o].inst = op[o].inst /\ op'[o].gen = op[o].gen
                        /\ op'[o].state # "none"
  OBVIOUS
<1>1. ASSUME NEW q \in Operation, Prepare(q) \/ PrepareReply(q) PROVE op'[o] = op[o]
  BY <1>1, <1>t DEF Prepare, PrepareReply
<1>2. ASSUME NEW q \in Operation, Cancel(q) \/ Reconcile(q)
      PROVE  op'[o] = op[o] \/ \E v : v # "none" /\ op'[o] = [op[o] EXCEPT !.state = v]
  BY <1>2, <1>b DEF Cancel, Reconcile
<1>3. ASSUME NEW c \in Caller, NEW q \in Operation, Dispatch(c, q)
      PROVE  op'[o] = op[o] \/ \E v : v # "none" /\ op'[o] = [op[o] EXCEPT !.state = v]
  BY <1>3, <1>b DEF Dispatch
<1>4. ASSUME NEW c \in Caller, Settle(c)
      PROVE  op'[o] = op[o] \/ \E v : v # "none" /\ op'[o] = [op[o] EXCEPT !.state = v]
  <2>1. caller[c].op \in Operation /\ caller[c].outcome # "none"
    BY <1>4, <1>t, CallFacts DEF Settle
  <2>2. Become(caller[c].op, caller[c].outcome)  BY <1>4 DEF Settle
  <2> QED BY <1>b, <2>1, <2>2
<1>5. ASSUME NEW i \in Instance, Reconnect(i)
      PROVE  op'[o] = op[o] \/ \E v : v # "none" /\ op'[o] = [op[o] EXCEPT !.state = v]
  BY <1>5 DEF Reconnect
<1>6. ASSUME RecordEvent
      PROVE  op'[o] = op[o] \/ \E v : v # "none" /\ op'[o] = [op[o] EXCEPT !.state = v]
  <2> DEFINE e == Head(queue[runtime.inst])
  <2>1. Journalled(e) /\ e.kind \in {"started", "ended", "asked", "resolved"}
    BY <1>6, <1>t, HeadIsEvent DEF RecordEvent
  <2> HIDE DEF e
  <2>2. \/ op' = op
        \/ op' = [q \in Operation |->
                       IF /\ q \in Reply /\ op[q].state = "prepared"
                          /\ ReplyTo[q] \in Retired(e.about)
                       THEN [op[q] EXCEPT !.state = "cancelled"] ELSE op[q]]
        \/ Observed(e.about)
    BY <2>1 DEF Journalled
  <2> QED BY <2>2 DEF Observed
<1>7. CASE \/ UNCHANGED vars
           \/ \E q \in Operation : Expire(q) \/ Execute(q)
           \/ \E c \in Caller : Send(c) \/ Await(c) \/ CallerLeaves(c)
           \/ \E t \in Turn : TurnEnds(t) \/ \E p \in Prompt : Asks(t, p) \/ Resolves(t, p)
           \/ \E i \in Instance : NewConnection(i) \/ EventLost(i)
           \/ Attest \/ LoseExecution \/ Rebind \/ End
  BY <1>7, <1>u
     DEF vars, Expire, Execute, Send, Await, CallerLeaves, TurnEnds, Asks, Resolves,
         NewConnection, EventLost, Attest, LoseExecution, Rebind, End, Elsewhere,
         Upstream, journalVars
<1> QED BY <1>u, <1>v, <1>1, <1>2, <1>3, <1>4, <1>5, <1>6, <1>7 DEF Next

LEMMA OnwardCallersStep == Typed /\ [Next]_vars => OnwardCallers
<1> SUFFICES ASSUME Typed, [Next]_vars PROVE OnwardCallers  OBVIOUS
<1>t. TypeOK  BY DEF Typed
<1>k. caller' = caller => OnwardCallers  BY DEF OnwardCallers, HasTicket
<1>c. ASSUME NEW c \in Caller, NEW call, caller' = [caller EXCEPT ![c] = call],
             call.pc = "ticket" => op[call.op].state = "prepared",
             call.pc = "settling" =>
               \/ call.outcome \in {"uncertain", "sent_unconfirmed"}
               \/ call.outcome = "completed" /\ exec[call.op] = "answered"
               \/ call.outcome = "native_error" /\ exec[call.op] = "rejected"
      PROVE  OnwardCallers
  <2>1. \A d \in Caller : caller'[d] = IF d = c THEN call ELSE caller[d]
    BY <1>c, <1>t DEF TypeOK
  <2> QED BY <1>c, <2>1 DEF OnwardCallers, HasTicket
<1>1. CASE UNCHANGED vars  BY <1>1, <1>k DEF vars
<1>2. CASE Elsewise  BY <1>2, <1>k, ElsewiseKeepsCallers
<1>3. ASSUME NEW c \in Caller, NEW o \in Operation, Dispatch(c, o) PROVE OnwardCallers
  BY <1>3, <1>c DEF Dispatch, Dispatchable
<1>4. ASSUME NEW c \in Caller, Send(c) PROVE OnwardCallers
  BY <1>4, <1>c DEF Send, Settling
<1>5. ASSUME NEW c \in Caller, Await(c) PROVE OnwardCallers
  <2>1. PICK outcome \in {"completed", "native_error", "uncertain"} :
          /\ outcome = "completed" => exec[caller[c].op] = "answered"
          /\ outcome = "native_error" => exec[caller[c].op] = "rejected"
          /\ caller' = [caller EXCEPT ![c] = Settling(caller[c].op, outcome)]
    BY <1>5 DEF Await
  <2> QED BY <2>1, <1>c DEF Settling
<1>6. ASSUME NEW c \in Caller, Settle(c) \/ CallerLeaves(c) PROVE OnwardCallers
  BY <1>6, <1>c DEF Settle, CallerLeaves
<1> QED BY <1>1, <1>2, <1>3, <1>4, <1>5, <1>6 DEF Next, Elsewise

-----------------------------------------------------------------------------
(* What the journal knows is true *)

\* No connection is older than what was written for it.
Places ==
    /\ \A o \in Operation : op[o].gen <= session[op[o].inst].gen
    /\ runtime.gen <= session[runtime.inst].gen

\* Nothing runs that was not sent, and callers settle what they were told.
Executions ==
    /\ \A o \in Operation : sent[o] = 0 => exec[o] = "no"
    /\ \A t \in Turn : exec[t] = "answered" <=> turn[t] # "none"
    /\ \A c \in Caller : caller[c].pc = "settling" =>
         /\ caller[c].outcome = "completed" => exec[caller[c].op] = "answered"
         /\ caller[c].outcome = "native_error" => exec[caller[c].op] = "rejected"

\* What an event tells stays true while it waits to be recorded.
Told(e) ==
    /\ e.kind = "started" => turn[e.about] # "none"
    /\ e.kind = "ended" => turn[e.about] = "over"
    /\ e.kind = "asked" => asker[e.about] # "nobody"
    /\ e.kind = "resolved" =>
         /\ asker[e.about] # "nobody" /\ e.about \notin held
         /\ \A o \in Reply : ReplyTo[o] = e.about => exec[o] # "running"

Events == \A i \in Instance : \A n \in 1 .. Len(queue[i]) : Told(queue[i][n])

\* Prompts that are held, journalled or replied to were asked.
Prompts ==
    /\ \A p \in Prompt : p \in held \/ inter[p].state # "none" => asker[p] # "nobody"
    /\ \A o \in Reply : op[o].state # "none" => asker[ReplyTo[o]] # "nobody"

\* A turn is linked once it started, and as over only when it is.
Links ==
    \A t \in Turn :
        /\ link[t] # "none" => turn[t] # "none"
        /\ link[t] \in {"over", "cessation_attested"} => turn[t] = "over"
        /\ op[t].state = "completed" => link[t] # "none"

Quiet(o) == exec[o] # "running" /\ ~MayStillBeSent(o)

\* An operation the journal counts as resolved neither runs nor will.
Resolutions ==
    \A o \in Operation :
        /\ ~UnresolvedOperation(o) => Quiet(o)
        /\ op[o].state = "native_error" => exec[o] = "rejected"
        /\ op[o].state = "reconciled" /\ o \in Turn => turn[o] # "live"

Knowledge ==
    /\ Typed /\ Tickets /\ Places /\ Executions /\ Events /\ Prompts /\ Links
    /\ Resolutions

LEMMA KnowledgeOnward ==
    Knowledge /\ [Next]_vars => /\ Typed' /\ Tickets'
                                /\ Onward /\ OnwardRows /\ OnwardCallers
  BY TypedStep, TicketsStep, OnwardStep, OnwardRowsStep, OnwardCallersStep DEF Knowledge

\* An answered, rejected or refused operation does not start again.
LEMMA NotRestarted ==
    ASSUME Knowledge, Onward, NEW o \in Operation
    PROVE  /\ exec[o] \in {"answered", "rejected"} => exec'[o] = exec[o]
           /\ Quiet(o) => exec'[o] # "running"
<1>1. \A c \in Caller : HasTicket(c, o) => sent[o] = 0 /\ exec[o] = "no"
  BY DEF Knowledge, Tickets, Executions, HasTicket
<1>2. Quiet(o) => ~\E c \in Caller : HasTicket(c, o) /\ SessionAccepts(o)
  BY DEF Quiet, MayStillBeSent, HasTicket
<1> QED BY <1>1, <1>2 DEF Onward, Quiet

LEMMA PlacesStep == Knowledge /\ [Next]_vars => Places'
<1> SUFFICES ASSUME Knowledge, [Next]_vars PROVE Places'  OBVIOUS
<1>t. /\ TypeOK /\ op \in [Operation -> Row(OpState)] /\ Onward /\ OnwardRows
      /\ \A i \in Instance : session[i].gen \in Nat /\ session'[i].gen \in Nat
      /\ \A o \in Operation : op[o].inst \in Instance /\ op[o].gen \in Nat
      /\ runtime.inst \in Instance /\ runtime.gen \in Nat
  <2>1. TypeOK /\ TypeOK' /\ Onward /\ OnwardRows
    BY KnowledgeOnward DEF Knowledge, Typed
  <2>2. op \in [Operation -> Row(OpState)]  BY <2>1, TableTypes
  <2>3. /\ \A i \in Instance : session[i].gen \in Nat
        /\ \A i \in Instance : session'[i].gen \in Nat
        /\ Generation \subseteq Nat
    <3>1. session \in [Instance -> [gen : Generation, next : Nat]]  BY <2>1 DEF TypeOK
    <3>2. session' \in [Instance -> [gen : Generation, next : Nat]]  BY <2>1 DEF TypeOK
    <3>3. Generation \subseteq Nat  BY DEF Generation
    <3>4. \A i \in Instance : session[i].gen \in Nat  BY <3>1, <3>3
    <3>5. \A i \in Instance : session'[i].gen \in Nat  BY <3>2, <3>3
    <3> QED BY <3>3, <3>4, <3>5
  <2>4. \A o \in Operation : op[o].inst \in Instance /\ op[o].gen \in Nat
    BY <2>2, <2>3 DEF Row
  <2>5. runtime.inst \in Instance /\ runtime.gen \in Nat  BY <2>1, <2>3 DEF TypeOK
  <2> QED BY <2>1, <2>2, <2>3, <2>4, <2>5
<1>r. \/ runtime'.inst = runtime.inst /\ runtime'.gen = runtime.gen
      \/ \E i \in Instance : runtime'.inst = i /\ runtime'.gen = session[i].gen
  <2>1. CASE runtime' = runtime  BY <2>1
  <2>2. CASE \E i \in Instance : Reconnect(i)  BY <2>2 DEF Reconnect
  <2>3. CASE RecordEvent
    BY <2>3, <1>t DEF RecordEvent, TypeOK
  <2>4. CASE Attest  BY <2>4, <1>t DEF Attest, TypeOK
  <2> QED BY <2>1, <2>2, <2>3, <2>4
          DEF Next, vars, Prepare, PrepareReply, Cancel, Expire, Execute, Reconcile,
              Send, Await, Settle, CallerLeaves, Dispatch, TurnEnds, Asks, Resolves,
              NewConnection, EventLost, LoseExecution, Rebind, End, Elsewhere, Upstream,
              journalVars
<1>o. ASSUME NEW o \in Operation
      PROVE  \/ op'[o].inst = op[o].inst /\ op'[o].gen = op[o].gen
             \/ op'[o] = Prepared
  <2>1. CASE op[o].state # "none"  BY <1>t, <2>1 DEF OnwardRows
  <2>2. CASE op[o].state = "none"
    <3>1. CASE op' = op  BY <3>1
    <3>2. ASSUME NEW q \in Operation, Prepare(q) \/ PrepareReply(q)
          PROVE  op'[o] = op[o] \/ op'[o] = Prepared
      BY <3>2, <1>t DEF Prepare, PrepareReply
    <3>3. ASSUME NEW q \in Operation, NEW v, Become(q, v) PROVE op'[o] = op[o] \/ o = q
      BY <3>3, <1>t DEF Become
    <3>4. ASSUME NEW q \in Operation, Cancel(q) \/ Reconcile(q) PROVE op'[o] = op[o]
      BY <3>4, <3>3, <2>2 DEF Cancel, Cancellable, Reconcile, Reconcilable
    <3>5. ASSUME NEW c \in Caller, Settle(c) \/ \E q \in Operation : Dispatch(c, q)
          PROVE  op'[o] = op[o]
      <4>1. Settle(c) => caller[c].op \in Operation  BY <1>t, CallFacts DEF Settle
      <4> QED BY <3>5, <3>3, <2>2, <4>1
              DEF Settle, Settleable, Dispatch, Dispatchable
    <3>6. ASSUME NEW i \in Instance, Reconnect(i) PROVE op'[o] = op[o]
      BY <3>6, <2>2 DEF Reconnect
    <3>7. ASSUME RecordEvent PROVE op'[o] = op[o]
      <4> DEFINE e == Head(queue[runtime.inst])
      <4>1. Journalled(e) /\ e.kind \in {"started", "ended", "asked", "resolved"}
        BY <3>7, <1>t, HeadIsEvent DEF RecordEvent
      <4> HIDE DEF e
      <4>2. \/ op' = op
            \/ op' = [q \in Operation |->
                           IF /\ q \in Reply /\ op[q].state = "prepared"
                              /\ ReplyTo[q] \in Retired(e.about)
                           THEN [op[q] EXCEPT !.state = "cancelled"] ELSE op[q]]
            \/ Observed(e.about)
        BY <4>1 DEF Journalled
      <4> QED BY <2>2, <4>2 DEF Observed
    <3> QED BY <3>1, <3>2, <3>4, <3>5, <3>6, <3>7
            DEF Next, vars, Expire, Execute, Send, Await, CallerLeaves, TurnEnds, Asks,
                Resolves, NewConnection, EventLost, Attest, LoseExecution, Rebind, End,
                Elsewhere, Upstream, journalVars
  <2> QED BY <2>1, <2>2
<1>1. \A o \in Operation : op'[o].gen <= session'[op'[o].inst].gen
  <2> SUFFICES ASSUME NEW o \in Operation PROVE op'[o].gen <= session'[op'[o].inst].gen
    OBVIOUS
  <2>1. \E i \in Instance : /\ op'[o].inst = i /\ op'[o].gen \in Nat
                            /\ op'[o].gen <= session[i].gen
    <3>1. CASE op'[o].inst = op[o].inst /\ op'[o].gen = op[o].gen
      BY <1>t, <3>1 DEF Knowledge, Places
    <3>2. CASE op'[o] = Prepared
      BY <1>t, <3>2 DEF Prepared, Knowledge, Places
    <3> QED BY <1>o, <3>1, <3>2
  <2> QED BY <1>t, <2>1 DEF Onward
<1>2. runtime'.gen <= session'[runtime'.inst].gen
  <2>1. \E i \in Instance : /\ runtime'.inst = i /\ runtime'.gen \in Nat
                            /\ runtime'.gen <= session[i].gen
    BY <1>t, <1>r DEF Knowledge, Places
  <2> QED BY <1>t, <2>1 DEF Onward
<1> QED BY <1>1, <1>2 DEF Places

LEMMA ExecutionsStep == Knowledge /\ [Next]_vars => Executions'
<1> SUFFICES ASSUME Knowledge, [Next]_vars PROVE Executions'  OBVIOUS
<1>t. Typed /\ Tickets /\ Executions /\ Onward /\ OnwardCallers /\ Typed'
  BY KnowledgeOnward DEF Knowledge
<1>1. ASSUME NEW o \in Operation, sent'[o] = 0 PROVE exec'[o] = "no"
  BY <1>1, <1>t DEF Onward, Executions
<1>2. ASSUME NEW t \in Turn PROVE exec'[t] = "answered" <=> turn'[t] # "none"
  <2>1. t \in Operation  BY OperationFacts
  <2>2. exec[t] = "answered" => exec'[t] = "answered"  BY <2>1, NotRestarted, <1>t
  <2>3. turn'[t] = turn[t] \/ turn'[t] \in {"over", "live"}  BY <1>t DEF Onward
  <2>4. turn'[t] \in {"over", "live"} /\ turn'[t] # turn[t] => exec'[t] = "answered"
    BY <2>2, <1>t DEF Onward, Executions
  <2>5. exec'[t] = "answered" => turn'[t] # "none"
    BY <1>t DEF Onward, Executions
  <2> QED BY <2>2, <2>3, <2>4, <2>5, <1>t DEF Executions
<1>3. ASSUME NEW c \in Caller, caller'[c].pc = "settling"
      PROVE  /\ caller'[c].outcome = "completed" => exec'[caller'[c].op] = "answered"
             /\ caller'[c].outcome = "native_error" => exec'[caller'[c].op] = "rejected"
  <2>1. caller'[c].op \in Operation
    <3>1. caller'[c] \in Call  BY <1>t DEF Typed, TypeOK
    <3> QED BY <1>3, <3>1 DEF Call
  <2>2. /\ caller'[c].outcome = "completed" => exec[caller'[c].op] = "answered"
        /\ caller'[c].outcome = "native_error" => exec[caller'[c].op] = "rejected"
    BY <1>3, <1>t DEF OnwardCallers, Executions
  <2> QED BY <2>1, <2>2, NotRestarted, <1>t
<1> QED BY <1>1, <1>2, <1>3 DEF Executions

LEMMA ToldKept ==
    ASSUME Knowledge, [Next]_vars, NEW e \in Event, Told(e)
    PROVE  Told(e)'
<1>t. Onward /\ Tickets /\ Executions  BY KnowledgeOnward DEF Knowledge
<1>1. e.kind = "started" => turn'[e.about] # "none"
  BY <1>t, EventFacts DEF Told, Onward
<1>2. e.kind = "ended" => turn'[e.about] = "over"
  <2>1. ASSUME e.kind = "ended" PROVE turn'[e.about] = "over"
    <3>1. /\ e.about \in Turn /\ turn[e.about] = "over"
          /\ e.about \in Operation /\ exec[e.about] = "answered"
      BY <2>1, <1>t, EventFacts, OperationFacts DEF Told, Executions
    <3> QED BY <3>1, <1>t DEF Onward
  <2> QED BY <2>1
<1>3. e.kind = "asked" => asker'[e.about] # "nobody"
  BY <1>t, EventFacts DEF Told, Onward
<1>4. ASSUME e.kind = "resolved"
      PROVE  /\ asker'[e.about] # "nobody" /\ e.about \notin held'
             /\ \A o \in Reply : ReplyTo[o] = e.about => exec'[o] # "running"
  <2>1. asker'[e.about] # "nobody" /\ e.about \notin held'
    BY <1>4, <1>t, EventFacts DEF Told, Onward
  <2>2. ASSUME NEW o \in Reply, ReplyTo[o] = e.about PROVE exec'[o] # "running"
    <3>1. Quiet(o)
      BY <1>4, <2>2 DEF Told, Quiet, MayStillBeSent, SessionAccepts
    <3> QED BY <1>t, <3>1, NotRestarted, OperationFacts
  <2> QED BY <2>1, <2>2
<1> QED BY <1>1, <1>2, <1>3, <1>4 DEF Told

\* Emitting what is true of the new state keeps the queues true.
LEMMA EmitTells ==
    ASSUME Knowledge, [Next]_vars, NEW o \in Operation, NEW kind, NEW about,
           Emit(o, kind, about),
           \/ kind \in {"started", "ended"} /\ about \in Turn
           \/ kind \in {"asked", "resolved"} /\ about \in Prompt,
           \A e \in Event : e.kind = kind /\ e.about = about => Told(e)'
    PROVE  Events'
<1>t. /\ TypeOK /\ Events
      /\ queue \in [Instance -> Seq(Event)] /\ queue' \in [Instance -> Seq(Event)]
  BY KnowledgeOnward DEF Knowledge, Typed, TypeOK
<1> DEFINE i == op[o].inst
           e == [kind |-> kind, about |-> about, gen |-> session[i].gen,
                 seq |-> session[i].next]
<1>1. e \in Event /\ i \in Instance /\ e.kind = kind /\ e.about = about
  <2>1. op[o].inst \in Instance  BY <1>t DEF TypeOK
  <2>2. session[i].gen \in Generation /\ session[i].next \in Nat
    BY <1>t, <2>1 DEF TypeOK
  <2> QED BY <2>1, <2>2 DEF Event
<1>2. \/ queue' = queue
      \/ queue' = [queue EXCEPT ![i] = Append(queue[i], e)]
  BY DEF Emit
<1> SUFFICES ASSUME NEW j \in Instance, NEW n \in 1 .. Len(queue'[j])
             PROVE  \A x : x = queue'[j][n] => Told(x)'
  BY DEF Events, Told
<1> HIDE DEF e, i
<1>3. queue'[j][n] \in Event /\ Len(queue[j]) \in Nat  BY <1>t
<1>4. \/ n \in 1 .. Len(queue[j]) /\ queue'[j][n] = queue[j][n]
      \/ queue'[j][n] = e
  <2>1. CASE queue'[j] = queue[j]  BY <2>1
  <2>2. CASE queue'[j] = Append(queue[j], e)
    <3>1. queue[j] \in Seq(Event) /\ Len(queue'[j]) = Len(queue[j]) + 1
      BY <1>1, <1>t, <2>2
    <3> QED BY <1>1, <2>2, <3>1
  <2> QED BY <1>1, <1>2, <1>t, <2>1, <2>2
<1>5. CASE n \in 1 .. Len(queue[j]) /\ queue'[j][n] = queue[j][n]
  <2>1. \A x \in Event : x = queue[j][n] => Told(x)  BY <1>5, <1>t DEF Events
  <2> QED BY <1>3, <1>5, <2>1, ToldKept
<1>6. CASE queue'[j][n] = e  BY <1>1, <1>3, <1>6
<1> QED BY <1>4, <1>5, <1>6

\* Taking the first event off a queue, or none, keeps the queues true.
LEMMA TakingKeeps ==
    ASSUME Knowledge, [Next]_vars,
           \/ queue' = queue
           \/ \E i \in Instance : queue[i] # <<>> /\ queue' = [queue EXCEPT ![i] = Tail(queue[i])]
    PROVE  Events'
<1>t. /\ Events
      /\ queue \in [Instance -> Seq(Event)] /\ queue' \in [Instance -> Seq(Event)]
  BY KnowledgeOnward DEF Knowledge, Typed, TypeOK
<1> SUFFICES ASSUME NEW j \in Instance, NEW n \in 1 .. Len(queue'[j])
             PROVE  \A x : x = queue'[j][n] => Told(x)'
  BY DEF Events, Told
<1>1. \E m \in 1 .. Len(queue[j]) : queue'[j][n] = queue[j][m]
  <2>1. CASE queue'[j] = queue[j]  BY <2>1
  <2>2. CASE queue[j] # <<>> /\ queue'[j] = Tail(queue[j])
    <3>1. queue[j] \in Seq(Event) /\ Len(queue'[j]) = Len(queue[j]) - 1
          /\ Len(queue[j]) \in Nat
      BY <1>t, <2>2
    <3>2. queue'[j][n] = queue[j][n + 1] /\ n + 1 \in 1 .. Len(queue[j])
      BY <2>2, <3>1
    <3> QED BY <3>2
  <2> QED BY <1>t, <2>1, <2>2
<1>2. PICK m \in 1 .. Len(queue[j]) : queue'[j][n] = queue[j][m]  BY <1>1
<1>3. queue[j][m] \in Event /\ \A x : x = queue[j][m] => Told(x)
  BY <1>t DEF Events
<1> QED BY <1>2, <1>3, ToldKept

LEMMA EventsStep == Knowledge /\ [Next]_vars => Events'
<1> SUFFICES ASSUME Knowledge, [Next]_vars PROVE Events'  OBVIOUS
<1>t. TypeOK /\ Executions  BY DEF Knowledge, Typed
<1>1. ASSUME NEW o \in Operation, Execute(o) PROVE Events'
  <2>1. CASE queue' = queue  BY <2>1, TakingKeeps
  <2>2. CASE o \in Turn /\ turn' = [turn EXCEPT ![o] = "live"] /\ Emit(o, "started", o)
    <3>1. turn'[o] = "live"  BY <2>2, <1>t DEF TypeOK
    <3>2. \A e \in Event : e.kind = "started" /\ e.about = o => Told(e)'
      BY <3>1 DEF Told
    <3> QED BY <2>2, <3>2, EmitTells
  <2> QED BY <1>1, <2>1, <2>2 DEF Execute
<1>2. ASSUME NEW t \in Turn, TurnEnds(t) PROVE Events'
  <2>1. turn'[t] = "over" /\ Emit(t, "ended", t) /\ t \in Operation
    BY <1>2, <1>t, OperationFacts DEF TurnEnds, TypeOK
  <2>2. \A e \in Event : e.kind = "ended" /\ e.about = t => Told(e)'  BY <2>1 DEF Told
  <2> QED BY <2>1, <2>2, EmitTells
<1>3. ASSUME NEW t \in Turn, NEW p \in Prompt, Asks(t, p) PROVE Events'
  <2>1. asker'[p] # "nobody" /\ Emit(t, "asked", p) /\ t \in Operation
    BY <1>3, <1>t, OperationFacts, RuntimeAssumption DEF Asks, TypeOK
  <2>2. \A e \in Event : e.kind = "asked" /\ e.about = p => Told(e)'  BY <2>1 DEF Told
  <2> QED BY <2>1, <2>2, EmitTells
<1>4. ASSUME NEW t \in Turn, NEW p \in Prompt, Resolves(t, p) PROVE Events'
  <2>1. /\ asker'[p] # "nobody" /\ p \notin held' /\ Emit(t, "resolved", p)
        /\ t \in Operation
    BY <1>4, <1>t, OperationFacts, RuntimeAssumption DEF Resolves, TypeOK
  <2>2. \A o \in Reply : ReplyTo[o] = p => exec'[o] # "running"
    BY <1>4, OperationFacts DEF Resolves, Answered
  <2>3. \A e \in Event : e.kind = "resolved" /\ e.about = p => Told(e)'
    BY <2>1, <2>2 DEF Told
  <2> QED BY <2>1, <2>3, EmitTells
<1>5. CASE RecordEvent \/ \E i \in Instance : EventLost(i)
  BY <1>5, <1>t, TakingKeeps DEF RecordEvent, EventLost, TypeOK
<1> QED BY <1>1, <1>2, <1>3, <1>4, <1>5, TakingKeeps
        DEF Next, vars, sessionVars, Prepare, PrepareReply, Cancel, Expire, Reconcile,
            Send, Await, Settle, CallerLeaves, Dispatch, NewConnection, Reconnect, Attest,
            LoseExecution, Rebind, End, Elsewhere

\* What a recorded event changes: a link by what it tells of the turn, the
\* prompt it is about, and replies to prompts that it settles or retires.
LEMMA RecordFacts ==
    ASSUME Knowledge, RecordEvent
    PROVE  \E e \in Event : Told(e) /\ Journalled(e)
<1> DEFINE i == runtime.inst
           e == Head(queue[i])
<1>1. i \in Instance /\ queue[i] \in Seq(Event) /\ queue[i] # <<>>
  BY DEF RecordEvent, Knowledge, Typed, TypeOK
<1>2. e \in Event /\ e = queue[i][1] /\ 1 \in 1 .. Len(queue[i])  BY <1>1
<1>3. Journalled(e)  BY DEF RecordEvent
<1>4. Told(queue[i][1])  BY <1>1, <1>2 DEF Knowledge, Events
<1>5. \A x : x = queue[i][1] => Told(x)  BY <1>4
<1> HIDE DEF e
<1> QED BY <1>2, <1>3, <1>5

\* Only a prompt that is asked becomes held, and only one that was becomes
\* known to the journal or answered by a reply.
LEMMA PromptsStep == Knowledge /\ [Next]_vars => Prompts'
<1> SUFFICES ASSUME Knowledge, [Next]_vars PROVE Prompts'  OBVIOUS
<1>t. /\ TypeOK /\ Prompts /\ Onward
      /\ inter \in [Prompt -> Row(InterState)] /\ op \in [Operation -> Row(OpState)]
  BY KnowledgeOnward, TableTypes DEF Knowledge, Typed
<1>1. ASSUME NEW p \in Prompt, p \in held' PROVE asker'[p] # "nobody"
  <2>1. CASE p \in held  BY <2>1, <1>t DEF Prompts, Onward
  <2>2. ASSUME NEW t \in Turn, NEW q \in Prompt, Asks(t, q), p = q
        PROVE  asker'[p] # "nobody"
    BY <2>2, <1>t, RuntimeAssumption DEF Asks, TypeOK
  <2>3. CASE p \notin held
    <3>1. CASE \E t \in Turn, q \in Prompt : Asks(t, q)
      <4>1. PICK t \in Turn, q \in Prompt : Asks(t, q)  BY <3>1
      <4>2. p = q  BY <1>1, <2>3, <4>1 DEF Asks
      <4> QED BY <2>2, <4>1, <4>2
    <3>2. CASE \/ UNCHANGED vars
               \/ \E o \in Operation : Prepare(o) \/ PrepareReply(o) \/ Cancel(o) \/ Expire(o)
                                       \/ Reconcile(o) \/ Execute(o)
      BY <1>1, <2>3, <3>2
         DEF vars, sessionVars, Prepare, PrepareReply, Cancel, Expire, Reconcile, Execute
    <3>3. CASE \E c \in Caller : Send(c) \/ Await(c) \/ Settle(c) \/ CallerLeaves(c)
                                 \/ \E o \in Operation : Dispatch(c, o)
      BY <1>1, <2>3, <3>3
         DEF sessionVars, Send, Await, Settle, CallerLeaves, Dispatch
    <3>4. CASE \E i \in Instance : NewConnection(i) \/ EventLost(i) \/ Reconnect(i)
      BY <1>1, <2>3, <3>4 DEF sessionVars, NewConnection, EventLost, Reconnect
    <3>5. CASE \E t \in Turn : TurnEnds(t) \/ \E q \in Prompt : Resolves(t, q)
      BY <1>1, <2>3, <3>5 DEF TurnEnds, Resolves
    <3>6. CASE RecordEvent \/ Attest \/ LoseExecution \/ Rebind \/ End
      BY <1>1, <2>3, <3>6
         DEF sessionVars, RecordEvent, Attest, LoseExecution, Rebind, End, Elsewhere
    <3> QED BY <3>1, <3>2, <3>3, <3>4, <3>5, <3>6 DEF Next
  <2> QED BY <2>1, <2>3
<1>2. ASSUME NEW p \in Prompt, inter'[p].state # "none" PROVE asker'[p] # "nobody"
  <2>1. CASE inter[p].state # "none" \/ asker[p] # "nobody"
    BY <2>1, <1>t DEF Prompts, Onward
  <2>2. CASE inter[p].state = "none" /\ asker[p] = "nobody"
    <3>1. CASE inter' = inter  BY <1>2, <2>2, <3>1
    <3>2. ASSUME NEW o \in Reply, NEW v, op[o].state # "none" \/ inter[ReplyTo[o]].state # "none",
                 inter' = [inter EXCEPT ![ReplyTo[o]].state = v]
          PROVE  FALSE
      <4>1. ReplyTo[o] # p  BY <2>2, <3>2, <1>t DEF Prompts
      <4> QED BY <1>2, <2>2, <3>2, <4>1, <1>t, OperationFacts
    <3>3. ASSUME NEW o \in Operation, PrepareReply(o) PROVE FALSE
      BY <3>2, <3>3 DEF PrepareReply
    <3>4. ASSUME NEW c \in Caller, Settle(c) PROVE asker'[p] # "nobody"
      <4> DEFINE o == caller[c].op
      <4>1. /\ op[o].state = "in_flight"
            /\ inter' = IF o \in Reply
                     THEN [inter EXCEPT ![ReplyTo[o]].state = caller[c].outcome] ELSE inter
        BY <3>4 DEF Settle, Settleable
      <4> HIDE DEF o
      <4>2. CASE o \in Reply  BY <3>2, <4>1, <4>2
      <4>3. CASE o \notin Reply  BY <3>1, <4>1, <4>3
      <4> QED BY <4>2, <4>3
    <3>5. CASE RecordEvent
      <4>1. PICK e \in Event : Told(e) /\ Journalled(e)  BY <3>5, RecordFacts
      <4>2. CASE e.kind = "started"  BY <3>1, <4>1, <4>2 DEF Journalled
      <4>3. CASE e.kind = "ended"
        <5>1. inter'[p] = IF p \in Retired(e.about)
                          THEN [inter[p] EXCEPT !.state = "terminal_observed"] ELSE inter[p]
          BY <4>1, <4>3 DEF Journalled
        <5>2. p \notin Retired(e.about)  BY <2>2 DEF Retired
        <5> QED BY <1>2, <2>2, <5>1, <5>2
      <4>4. CASE e.kind = "asked"
        <5>1. e.about \in Prompt /\ asker[e.about] # "nobody"
          BY <4>1, <4>4, EventFacts DEF Told
        <5>2. inter'[p] = inter[p]
          BY <2>2, <4>1, <4>4, <5>1, <1>t DEF Journalled
        <5> QED BY <1>2, <2>2, <5>2
      <4>5. CASE e.kind = "resolved"
        <5>1. e.about \in Prompt /\ asker[e.about] # "nobody"
          BY <4>1, <4>5, EventFacts DEF Told
        <5>2. inter'[p] = inter[p]
          BY <2>2, <4>1, <4>5, <5>1, <1>t DEF Journalled
        <5> QED BY <1>2, <2>2, <5>2
      <4> QED BY <4>2, <4>3, <4>4, <4>5, EventFacts
    <3>6. ASSUME NEW i \in Instance, Reconnect(i) PROVE FALSE
      BY <1>2, <2>2, <3>6 DEF Reconnect
    <3>7. CASE Attest  BY <1>2, <2>2, <3>7 DEF Attest
    <3> QED BY <3>1, <3>3, <3>4, <3>5, <3>6, <3>7
            DEF Next, vars, journalVars, Prepare, Cancel, Expire, Reconcile, Execute, Send,
                Await, CallerLeaves, Dispatch, TurnEnds, Asks, Resolves, NewConnection,
                EventLost, LoseExecution, Rebind, End, Elsewhere, Upstream
  <2> QED BY <2>1, <2>2
<1>3. ASSUME NEW o \in Reply, op'[o].state # "none" PROVE asker'[ReplyTo[o]] # "nobody"
  <2>0. o \in Operation /\ ReplyTo[o] \in Prompt /\ o \notin Turn \union Control
    BY OperationFacts, RuntimeAssumption
  <2>1. CASE op[o].state # "none"
    BY <2>0, <2>1, <1>t DEF Prompts, Onward
  <2>2. CASE op[o].state = "none"
    <3>1. PrepareReply(o)
      <4>1. CASE op' = op  BY <1>3, <2>2, <4>1
      <4>2. ASSUME NEW q \in Operation, Prepare(q) \/ PrepareReply(q) PROVE PrepareReply(o)
        <5>1. q = o  BY <1>3, <2>0, <2>2, <4>2, <1>t DEF Prepare, PrepareReply
        <5> QED BY <2>0, <4>2, <5>1 DEF Prepare
      <4>3. ASSUME NEW q \in Operation, NEW v, Become(q, v) PROVE op'[o] = op[o] \/ o = q
        BY <2>0, <4>3, <1>t DEF Become
      <4>4. ASSUME NEW q \in Operation, Cancel(q) \/ Reconcile(q) PROVE FALSE
        BY <1>3, <4>4, <4>3, <2>2 DEF Cancel, Cancellable, Reconcile, Reconcilable
      <4>5. ASSUME NEW c \in Caller, Settle(c) \/ \E q \in Operation : Dispatch(c, q)
            PROVE  FALSE
        <5>1. Settle(c) => caller[c].op \in Operation  BY <1>t, CallFacts DEF Settle
        <5> QED BY <1>3, <4>5, <4>3, <2>2, <5>1
                DEF Settle, Settleable, Dispatch, Dispatchable
      <4>6. ASSUME NEW i \in Instance, Reconnect(i) PROVE FALSE
        BY <1>3, <2>0, <4>6, <2>2 DEF Reconnect
      <4>7. CASE RecordEvent
        <5>1. PICK e \in Event : Journalled(e)  BY <4>7, RecordFacts
        <5>2. \/ op' = op
              \/ op' = [q \in Operation |->
                             IF /\ q \in Reply /\ op[q].state = "prepared"
                                /\ ReplyTo[q] \in Retired(e.about)
                             THEN [op[q] EXCEPT !.state = "cancelled"] ELSE op[q]]
              \/ Observed(e.about)
          BY <5>1, EventFacts DEF Journalled
        <5> QED BY <1>3, <2>0, <2>2, <5>2 DEF Observed
      <4> QED BY <4>1, <4>2, <4>4, <4>5, <4>6, <4>7
              DEF Next, vars, Expire, Execute, Send, Await, CallerLeaves, TurnEnds, Asks,
                  Resolves, NewConnection, EventLost, Attest, LoseExecution, Rebind, End,
                  Elsewhere, Upstream, journalVars
    <3> QED BY <2>0, <3>1, <1>t DEF PrepareReply, Prompts, Onward
  <2> QED BY <2>1, <2>2
<1> QED BY <1>1, <1>2, <1>3 DEF Prompts

\* An operation is completed by the caller that settles it, or is a reply.
LEMMA CompletedBy ==
    ASSUME Knowledge, [Next]_vars, NEW o \in Operation, op'[o].state # op[o].state,
           op'[o].state \notin Unsent, ~(op'[o].state \in {"in_flight", "uncertain", "sent_unconfirmed"})
    PROVE  \/ \E c \in Caller : /\ Settle(c) /\ caller[c].op = o
                                /\ caller[c].outcome = op'[o].state
           \/ Reconcile(o) /\ op'[o].state = "reconciled"
           \/ /\ o \in Reply /\ op'[o].state = "completed"
              /\ exec[o] # "running" /\ ReplyTo[o] \notin held
<1>t. TypeOK /\ op \in [Operation -> Row(OpState)]  BY TableTypes DEF Knowledge, Typed
<1>b. ASSUME NEW q \in Operation, NEW v, Become(q, v)
      PROVE  op'[o].state = IF o = q THEN v ELSE op[o].state
  BY <1>b, <1>t DEF Become, Row
<1>r. \A v : [op[o] EXCEPT !.state = v].state = v  BY <1>t DEF Row
<1>1. CASE op' = op  BY <1>1
<1>2. ASSUME NEW q \in Operation, Prepare(q) \/ PrepareReply(q) PROVE FALSE
  <2>1. op'[o] = Prepared \/ op'[o] = op[o]  BY <1>2, <1>t DEF Prepare, PrepareReply
  <2> QED BY <2>1 DEF Prepared, Unsent
<1>3. ASSUME NEW q \in Operation, Cancel(q) PROVE FALSE
  BY <1>3, <1>b DEF Cancel, Unsent
<1>4. ASSUME NEW q \in Operation, Reconcile(q) PROVE Reconcile(o) /\ op'[o].state = "reconciled"
  BY <1>4, <1>b DEF Reconcile
<1>5. ASSUME NEW c \in Caller, NEW q \in Operation, Dispatch(c, q) PROVE FALSE
  BY <1>5, <1>b DEF Dispatch
<1>6. ASSUME NEW c \in Caller, Settle(c)
      PROVE  caller[c].op = o /\ caller[c].outcome = op'[o].state
  <2>1. caller[c].op \in Operation  BY <1>6, <1>t, CallFacts DEF Settle
  <2> QED BY <1>6, <1>b, <2>1 DEF Settle
<1>7. ASSUME NEW i \in Instance, Reconnect(i) PROVE FALSE
  <2>1. op'[o] = IF op[o].state \in {"in_flight", "sent_unconfirmed"}
                 THEN [op[o] EXCEPT !.state = "uncertain"]
                 ELSE IF op[o].state = "prepared"
                      THEN [op[o] EXCEPT !.state = "cancelled"] ELSE op[o]
    BY <1>7 DEF Reconnect
  <2> QED BY <1>r, <2>1 DEF Unsent
<1>8. CASE RecordEvent
  <2>1. PICK e \in Event : Told(e) /\ Journalled(e)  BY <1>8, RecordFacts
  <2>2. \/ op' = op
        \/ op'[o] = op[o]
        \/ op'[o] = [op[o] EXCEPT !.state = "cancelled"]
        \/ e.kind = "resolved" /\ Observed(e.about)
    BY <2>1, EventFacts DEF Journalled
  <2>3. CASE e.kind = "resolved" /\ Observed(e.about)
    <3>1. /\ o \in Reply /\ ReplyTo[o] = e.about
          /\ op'[o] = [op[o] EXCEPT !.state = "completed"]
      BY <2>3 DEF Observed
    <3> QED BY <1>r, <2>1, <2>3, <3>1 DEF Told
  <2> QED BY <1>r, <2>2, <2>3 DEF Unsent
<1> QED BY <1>1, <1>2, <1>3, <1>4, <1>5, <1>6, <1>7, <1>8
        DEF Next, vars, Expire, Execute, Send, Await, CallerLeaves, TurnEnds, Asks,
            Resolves, NewConnection, EventLost, Attest, LoseExecution, Rebind, End,
            Elsewhere, Upstream, journalVars

\* Links change when a started or ended turn is recorded, when the request
\* that started a turn is settled, and when no turn is attested to run.
LEMMA LinksStep == Knowledge /\ [Next]_vars => Links'
<1> SUFFICES ASSUME Knowledge, [Next]_vars PROVE Links'  OBVIOUS
<1>t. TypeOK /\ Links /\ Executions /\ Onward  BY KnowledgeOnward DEF Knowledge, Typed
<1>o. ASSUME NEW t \in Turn
      PROVE  /\ turn[t] # "none" => turn'[t] # "none"
             /\ turn[t] = "over" => turn'[t] = "over"
  <2>1. t \in Operation  BY OperationFacts
  <2>2. turn[t] # "none" => exec[t] = "answered"  BY <1>t DEF Executions
  <2> QED BY <2>1, <2>2, <1>t DEF Onward
<1>l. ASSUME NEW t \in Turn, link'[t] # link[t]
      PROVE  /\ link'[t] # "none" /\ turn'[t] # "none"
             /\ link'[t] \in {"over", "cessation_attested"} => turn'[t] = "over"
  <2>1. CASE RecordEvent
    <3>1. PICK e \in Event : Told(e) /\ Journalled(e)  BY <2>1, RecordFacts
    <3>2. /\ e.kind \in {"started", "ended"} /\ e.about = t
          /\ link'[t] = IF e.kind = "started" THEN "live" ELSE "over"
      BY <1>l, <3>1, EventFacts, <1>t DEF Journalled, TypeOK
    <3> QED BY <3>1, <3>2, <1>o DEF Told
  <2>2. ASSUME NEW c \in Caller, Settle(c)
        PROVE  link'[t] = "live" /\ turn'[t] # "none"
    <3>1. /\ caller[c].op = t /\ link'[t] = "live"
          /\ caller[c].outcome = "completed" /\ caller[c].pc = "settling"
      BY <1>l, <2>2, <1>t DEF Settle, TypeOK
    <3> QED BY <3>1, <1>o, <1>t DEF Executions
  <2>3. CASE Attest
    <3>1. link[t] = "live" /\ link'[t] = "cessation_attested" /\ turn[t] # "live"
      BY <1>l, <2>3 DEF Attest
    <3>2. turn[t] = "over"  BY <3>1, <1>t DEF Links, TypeOK
    <3> QED BY <3>1, <3>2, <1>o
  <2> QED BY <1>l, <2>1, <2>2, <2>3
          DEF Next, vars, journalVars, Prepare, PrepareReply, Cancel, Expire, Reconcile,
              Execute, Send, Await, CallerLeaves, Dispatch, TurnEnds, Asks, Resolves,
              NewConnection, EventLost, Reconnect, LoseExecution, Rebind, End, Elsewhere,
              Upstream
<1>c. ASSUME NEW t \in Turn, op'[t].state = "completed" PROVE link'[t] # "none"
  <2>0. t \in Operation /\ t \notin Reply  BY OperationFacts
  <2>1. CASE op[t].state = "completed"
    <3>1. link[t] # "none"  BY <2>1, <1>t DEF Links
    <3> QED BY <3>1, <1>l
  <2>2. CASE op[t].state # "completed"
    <3>1. PICK c \in Caller : Settle(c) /\ caller[c].op = t /\ caller[c].outcome = "completed"
      BY <1>c, <2>0, <2>2, CompletedBy DEF Unsent
    <3> QED BY <3>1, <1>t DEF Settle, TypeOK
  <2> QED BY <2>1, <2>2
<1> QED BY <1>c, <1>l, <1>o, <1>t DEF Links

\* A prepared operation is dispatched or cancelled, if anything.
LEMMA PreparedBecomes ==
    ASSUME Typed, [Next]_vars, NEW o \in Operation, op[o].state = "prepared"
    PROVE  op'[o].state \in {"prepared", "cancelled", "in_flight"}
<1>t. TypeOK /\ op \in [Operation -> Row(OpState)]  BY TableTypes DEF Typed
<1>b. ASSUME NEW q \in Operation, NEW v, Become(q, v)
      PROVE  op'[o].state = IF o = q THEN v ELSE op[o].state
  BY <1>b, <1>t DEF Become, Row
<1>1. CASE op' = op  BY <1>1
<1>2. CASE Elsewise
  <2>1. Dispatched(o)' <=> Dispatched(o)  BY <1>2, DispatchedKept
  <2>2. op'[o].state # "none"  BY OnwardRowsStep DEF OnwardRows
  <2> QED BY <2>1, <2>2 DEF Dispatched, Unsent
<1>3. ASSUME NEW c \in Caller, NEW q \in Operation, Dispatch(c, q)
      PROVE  op'[o].state \in {"prepared", "in_flight"}
  BY <1>3, <1>b DEF Dispatch
<1>4. ASSUME NEW c \in Caller, Settle(c) PROVE op'[o].state = "prepared"
  <2>1. caller[c].op \in Operation  BY <1>4, <1>t, CallFacts DEF Settle
  <2> QED BY <1>4, <1>b, <2>1 DEF Settle, Settleable
<1> QED BY <1>1, <1>2, <1>3, <1>4
        DEF Next, vars, journalVars, Elsewise, Send, Await, CallerLeaves

\* What is quiet stays quiet until it is dispatched: nobody gets a ticket, no
\* connection comes back and no prompt is asked again.
LEMMA QuietKept ==
    ASSUME Knowledge, [Next]_vars, NEW o \in Operation, Quiet(o),
           op[o].state = "prepared" => op'[o].state # "in_flight"
    PROVE  Quiet(o)'
<1>t. /\ Typed /\ Tickets /\ Prompts /\ Places /\ Onward /\ OnwardRows /\ OnwardCallers
      /\ Typed' /\ Tickets'
  BY KnowledgeOnward DEF Knowledge
<1>1. exec'[o] # "running"  BY <1>t, NotRestarted
<1>2. ASSUME NEW c \in Caller, HasTicket(c, o)', SessionAccepts(o)' PROVE FALSE
  <2>1. caller'[c].pc = "ticket" /\ caller'[c].op = o  BY <1>2 DEF HasTicket
  <2>2. op'[o].state \notin Unsent  BY <2>1, <1>t DEF Tickets, Busy, Dispatched
  <2>3. CASE op[o].state # "prepared"
    <3>1. HasTicket(c, o)  BY <1>2, <2>3, <1>t DEF OnwardCallers
    <3>2. op[o].state # "none"
      BY <3>1, <1>t DEF HasTicket, Tickets, Busy, Dispatched, Unsent
    <3>3. op'[o].inst = op[o].inst /\ op'[o].gen = op[o].gen
      BY <3>2, <1>t DEF OnwardRows
    <3>4. /\ session'[op[o].inst].gen = op[o].gen /\ o \notin expired'
          /\ o \in Reply => ReplyTo[o] \in held'
      BY <1>2, <3>3 DEF SessionAccepts
    <3>5. /\ op[o].inst \in Instance /\ op[o].gen \in Nat
          /\ session[op[o].inst].gen \in Nat
      <4>a. /\ op \in [Operation -> Row(OpState)]
            /\ session \in [Instance -> SessionRow]
        BY <1>t, TableTypes DEF Typed
      <4>1. op[o].inst \in Instance /\ op[o].gen \in Generation  BY <4>a DEF Row
      <4>2. session[op[o].inst].gen \in Generation  BY <4>a, <4>1 DEF SessionRow
      <4> QED BY <4>1, <4>2 DEF Generation
    <3>6. session[op[o].inst].gen = op[o].gen
      <4>1. op[o].gen <= session[op[o].inst].gen  BY <1>t DEF Places
      <4>2. session'[op[o].inst].gen >= session[op[o].inst].gen  BY <3>5, <1>t DEF Onward
      <4> QED BY <3>4, <3>5, <4>1, <4>2
    <3>7. o \notin expired  BY <3>4, <1>t DEF Onward
    <3>8. o \in Reply => ReplyTo[o] \in held
      BY <3>2, <3>4, <1>t, OperationFacts DEF Prompts, Onward
    <3>9. SessionAccepts(o)  BY <3>6, <3>7, <3>8 DEF SessionAccepts
    <3> QED BY <3>1, <3>9 DEF Quiet, MayStillBeSent, HasTicket
  <2>4. CASE op[o].state = "prepared"
    <3>1. op'[o].state \in {"prepared", "cancelled", "in_flight"}
      BY <2>4, <1>t, PreparedBecomes
    <3> QED BY <2>2, <2>4, <3>1 DEF Unsent
  <2> QED BY <2>3, <2>4
<1> QED BY <1>1, <1>2 DEF Quiet, MayStillBeSent, HasTicket
\* An operation becomes resolved when its execution is over: the outcome was
\* given, the prompt of a reply was seen resolved, or an operator knows.
LEMMA ResolutionsStep == Knowledge /\ [Next]_vars => Resolutions'
<1> SUFFICES ASSUME Knowledge, [Next]_vars, NEW o \in Operation
             PROVE  /\ ~UnresolvedOperation(o)' => Quiet(o)'
                    /\ op'[o].state = "native_error" => exec'[o] = "rejected"
                    /\ op'[o].state = "reconciled" /\ o \in Turn => turn'[o] # "live"
  BY DEF Resolutions
<1>t. /\ TypeOK /\ Tickets /\ Executions /\ Resolutions
      /\ Onward /\ Typed' /\ Tickets' /\ Executions'
  BY KnowledgeOnward, ExecutionsStep DEF Knowledge, Typed
<1>r. (~UnresolvedOperation(o))' <=> op'[o].state \notin {"in_flight", "uncertain", "sent_unconfirmed"}
  BY DEF UnresolvedOperation
<1>q. Quiet(o)' <=> exec'[o] # "running" /\ ~MayStillBeSent(o)'  BY DEF Quiet
<1>n. exec[o] # "running" /\ o \in Turn /\ turn[o] # "live" => turn'[o] # "live"
  BY <1>t DEF Onward
<1>1. CASE op'[o].state \in Unsent
  <2>1. sent'[o] = 0  BY <1>1, <1>t DEF Tickets, Dispatched
  <2>2. exec'[o] = "no"  BY <2>1, <1>t DEF Executions
  <2>3. ~MayStillBeSent(o)'
    BY <1>1, <1>t DEF MayStillBeSent, Tickets, Busy, Dispatched
  <2> QED BY <1>1, <1>q, <2>2, <2>3 DEF Unsent
<1>2. CASE op'[o].state = op[o].state /\ op'[o].state \notin Unsent
  <2>1. ~UnresolvedOperation(o)' => Quiet(o)'
    <3> SUFFICES ASSUME ~UnresolvedOperation(o)' PROVE Quiet(o)'  OBVIOUS
    <3>1. Quiet(o)  BY <1>2, <1>r, <1>t DEF Resolutions, UnresolvedOperation
    <3> QED BY <1>2, <3>1, QuietKept DEF Unsent
  <2>2. op'[o].state = "native_error" => exec'[o] = "rejected"
    BY <1>2, <1>t, NotRestarted DEF Resolutions
  <2>3. op'[o].state = "reconciled" /\ o \in Turn => turn'[o] # "live"
    BY <1>2, <1>n, <1>t DEF Resolutions, UnresolvedOperation, Quiet
  <2> QED BY <2>1, <2>2, <2>3
<1>3. CASE /\ op'[o].state # op[o].state /\ op'[o].state \notin Unsent
           /\ op'[o].state \notin {"in_flight", "uncertain", "sent_unconfirmed"}
  <2>1. ASSUME NEW c \in Caller, Settle(c), caller[c].op = o,
               caller[c].outcome = op'[o].state
        PROVE  /\ Quiet(o)' /\ op'[o].state # "reconciled"
               /\ op'[o].state = "native_error" => exec'[o] = "rejected"
    <3>1. caller[c].outcome \in {"completed", "native_error"} /\ caller[c].pc = "settling"
      BY <1>3, <1>t, <2>1, CallFacts DEF Settle
    <3>2. /\ caller[c].outcome = "completed" => exec[o] = "answered"
          /\ caller[c].outcome = "native_error" => exec[o] = "rejected"
      BY <1>t, <2>1, <3>1 DEF Executions
    <3>3. exec'[o] = exec[o]  BY <1>t, <3>1, <3>2, NotRestarted
    <3>4. \A d \in Caller : caller'[d].pc = "ticket" => caller'[d].op # o
      <4> SUFFICES ASSUME NEW d \in Caller, caller'[d].pc = "ticket" PROVE caller'[d].op # o
        OBVIOUS
      <4>1. d # c /\ caller'[d] = caller[d]  BY <2>1, <1>t DEF Settle, TypeOK
      <4> QED BY <2>1, <3>1, <4>1, <1>t DEF Tickets, Busy
    <3> QED BY <1>q, <2>1, <3>1, <3>2, <3>3, <3>4 DEF MayStillBeSent
  <2>2. CASE Reconcile(o) /\ op'[o].state = "reconciled"
    <3>1. Quiet(o) /\ (o \in Turn => turn[o] # "live") /\ op[o].state # "prepared"
      BY <2>2 DEF Reconcile, Reconcilable, Ceased, Quiet
    <3>2. Quiet(o)'  BY <3>1, QuietKept
    <3> QED BY <2>2, <3>1, <3>2, <1>n DEF Quiet
  <2>3. CASE /\ o \in Reply /\ op'[o].state = "completed"
             /\ exec[o] # "running" /\ ReplyTo[o] \notin held
    <3>1. Quiet(o)  BY <2>3 DEF Quiet, MayStillBeSent, SessionAccepts
    <3>2. Quiet(o)'  BY <2>3, <3>1, QuietKept
    <3> QED BY <2>3, <3>2
  <2> QED BY <1>3, <2>1, <2>2, <2>3, CompletedBy
<1>4. CASE op'[o].state \in {"in_flight", "uncertain", "sent_unconfirmed"}
  BY <1>4, <1>r
<1> QED BY <1>1, <1>2, <1>3, <1>4

LEMMA KnowledgeInit == Init => Knowledge
<1> SUFFICES ASSUME Init PROVE Knowledge  OBVIOUS
<1>1. Typed /\ TypeOK  BY TypeInit DEF Typed
<1>2. Tickets  BY DEF Init, Tickets, Busy, Dispatched, Unsent
<1>3. \A o \in Operation : op[o].inst = First /\ op[o].gen = 1 /\ op[o].state = "none"
  BY DEF Init
<1>4. Places  BY <1>3, RuntimeAssumption DEF Init, Places
<1>5. Executions  BY OperationFacts DEF Init, Executions
<1>6. Events  BY DEF Init, Events
<1>7. Prompts  BY <1>3, OperationFacts DEF Init, Prompts
<1>8. Links  BY <1>3, OperationFacts DEF Init, Links
<1>9. Resolutions  BY <1>3 DEF Init, Resolutions, Quiet, MayStillBeSent
<1> QED BY <1>1, <1>2, <1>4, <1>5, <1>6, <1>7, <1>8, <1>9 DEF Knowledge

LEMMA KnowledgeStep == Knowledge /\ [Next]_vars => Knowledge'
  BY KnowledgeOnward, PlacesStep, ExecutionsStep, EventsStep, PromptsStep, LinksStep,
     ResolutionsStep DEF Knowledge

LEMMA KnowledgeHolds == Spec => []Knowledge
<1> QED BY KnowledgeInit, KnowledgeStep, PTL DEF Spec

-----------------------------------------------------------------------------
(* The end of an Attempt *)

LEMMA DispatchNeedsOwner ==
    ASSUME Typed, [Next]_vars, NEW o \in Operation, op[o].state = "prepared",
           op'[o].state = "in_flight"
    PROVE  Owned
<1>t. TypeOK /\ op \in [Operation -> Row(OpState)]  BY TableTypes DEF Typed
<1>1. CASE op' = op  BY <1>1
<1>2. CASE Elsewise
  <2>1. Dispatched(o)' <=> Dispatched(o)  BY <1>2, DispatchedKept
  <2> QED BY <2>1 DEF Dispatched, Unsent
<1>3. ASSUME NEW c \in Caller, NEW q \in Operation, Dispatch(c, q) PROVE Owned
  BY <1>3 DEF Dispatch
<1>4. ASSUME NEW c \in Caller, Settle(c) PROVE Owned
  BY <1>4 DEF Settle
<1> QED BY <1>1, <1>2, <1>3, <1>4
        DEF Next, vars, journalVars, Elsewise, Send, Await, CallerLeaves

\* What nothing is unresolved of has ceased.
LEMMA ResolvedHasCeased ==
    ASSUME Knowledge, ~Unresolved, NEW o \in Operation
    PROVE  Ceased(o)
<1>t. TypeOK /\ op \in [Operation -> Row(OpState)]  BY TableTypes DEF Knowledge, Typed
<1>1. Quiet(o)  BY DEF Knowledge, Resolutions, Unresolved
<1>2. ASSUME o \in Turn PROVE turn[o] # "live"
  <2>1. /\ op[o].state \in Unsent \union {"completed", "native_error", "reconciled"}
        /\ link[o] # "live"
    BY <1>2, <1>t, StateFacts DEF Unresolved, UnresolvedOperation, Unsent, Row
  <2>2. CASE op[o].state \in Unsent
    BY <1>2, <2>2 DEF Knowledge, Tickets, Dispatched, Executions
  <2>3. CASE op[o].state = "completed"
    BY <1>2, <1>t, <2>1, <2>3 DEF Knowledge, Links, TypeOK
  <2>4. CASE op[o].state = "native_error"
    BY <1>2, <2>4 DEF Knowledge, Resolutions, Executions
  <2>5. CASE op[o].state = "reconciled"
    BY <1>2, <2>5 DEF Knowledge, Resolutions
  <2> QED BY <2>1, <2>2, <2>3, <2>4, <2>5
<1> QED BY <1>1, <1>2 DEF Quiet, Ceased

LEMMA OverStep ==
    Knowledge /\ QuiescenceIsReal /\ [Next]_vars => QuiescenceIsReal'
<1> SUFFICES ASSUME Knowledge, QuiescenceIsReal, [Next]_vars, attempt' = "ended",
                    NEW o \in Operation
             PROVE  Ceased(o)'
  BY DEF QuiescenceIsReal
<1>1. CASE attempt = "ended"
  <2>1. Quiet(o) /\ (o \in Turn => turn[o] # "live")
    BY <1>1 DEF QuiescenceIsReal, Ceased, Quiet
  <2>2. op[o].state = "prepared" => op'[o].state # "in_flight"
    BY <1>1, DispatchNeedsOwner DEF Knowledge, Owned
  <2>3. Quiet(o)'  BY <2>1, <2>2, QuietKept
  <2>4. o \in Turn => turn'[o] # "live"
    BY <2>1, KnowledgeOnward DEF Onward, Quiet
  <2> QED BY <2>3, <2>4 DEF Quiet, Ceased
<1>2. CASE attempt # "ended"
  <2>1. End
    BY <1>2
       DEF Next, vars, Prepare, PrepareReply, Cancel, Expire, Execute, Reconcile, Send,
           Await, Settle, CallerLeaves, Dispatch, TurnEnds, Asks, Resolves, NewConnection,
           EventLost, Reconnect, RecordEvent, Attest, LoseExecution, Rebind, Elsewhere,
           Upstream
  <2>2. Ceased(o)  BY <2>1, ResolvedHasCeased DEF End
  <2> QED BY <2>1, <2>2
          DEF End, Elsewhere, journalVars, sessionVars, upstreamVars, Ceased,
              MayStillBeSent, SessionAccepts
<1> QED BY <1>1, <1>2

\* design.md 441-475, codex_runtime.ex:490-505: an Attempt is ended only when
\* the journal has nothing unresolved, and then nothing of it can still be
\* sent, is being executed or runs as a turn.
THEOREM QuiescenceHolds == Spec => []QuiescenceIsReal
<1>1. Init => QuiescenceIsReal  BY DEF Init, QuiescenceIsReal
<1> QED BY <1>1, OverStep, KnowledgeHolds, PTL DEF Spec
=============================================================================
