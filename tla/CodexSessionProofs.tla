------------------------- MODULE CodexSessionProofs -------------------------
(***************************************************************************)
(* A Codex Session and the processes it owns, for any number of            *)
(* connections, requests, ids and prompts: state is well typed, no two     *)
(* generations run at once, no mutation of unknown outcome is forgotten,   *)
(* callers get their own answers and prompts get one answer each.          *)
(***************************************************************************)
EXTENDS CodexSession, FiniteSetTheorems, TLAPS

LEMMA GenerationFacts ==
    /\ Generation \subseteq Nat /\ 1 \in Generation /\ 0 \notin Generation
    /\ 0 \notin Prompt /\ Prompt \subseteq Nat
    /\ \A g \in Generation : g < MaxGeneration => g + 1 \in Generation
  BY MaxGenerationAssumption, SessionAssumption DEF Generation, Prompt

LEMMA PartialFunction ==
    ASSUME NEW S, NEW T, NEW f
    PROVE  f \in PartialFunctions(S, T) <=>
             /\ DOMAIN f \subseteq S
             /\ f = [x \in DOMAIN f |-> f[x]]
             /\ \A x \in DOMAIN f : f[x] \in T
<1>1. ASSUME f \in PartialFunctions(S, T)
      PROVE  /\ DOMAIN f \subseteq S /\ f = [x \in DOMAIN f |-> f[x]]
             /\ \A x \in DOMAIN f : f[x] \in T
  <2>1. PICK D \in SUBSET S : f \in [D -> T]  BY <1>1 DEF PartialFunctions
  <2> QED BY <2>1
<1>2. ASSUME /\ DOMAIN f \subseteq S /\ f = [x \in DOMAIN f |-> f[x]]
             /\ \A x \in DOMAIN f : f[x] \in T
      PROVE  f \in PartialFunctions(S, T)
  <2>1. f \in [DOMAIN f -> T]  BY <1>2
  <2> QED BY <1>2, <2>1 DEF PartialFunctions
<1> QED BY <1>1, <1>2

LEMMA EmptyMapType == ASSUME NEW S, NEW T PROVE EmptyMap \in PartialFunctions(S, T)
<1>1. DOMAIN EmptyMap = {} /\ EmptyMap = [x \in DOMAIN EmptyMap |-> EmptyMap[x]]
  BY DEF EmptyMap
<1> QED BY <1>1, PartialFunction

LEMMA ExtendedFacts ==
    ASSUME NEW f, NEW g
    PROVE  /\ DOMAIN Extended(f, g) = DOMAIN f \union DOMAIN g
           /\ \A x \in DOMAIN g : Extended(f, g)[x] = g[x]
           /\ \A x \in DOMAIN f \ DOMAIN g : Extended(f, g)[x] = f[x]
  BY DEF Extended

LEMMA ExtendedType ==
    ASSUME NEW S, NEW T, NEW f \in PartialFunctions(S, T), NEW g \in PartialFunctions(S, T)
    PROVE  Extended(f, g) \in PartialFunctions(S, T)
<1>1. /\ DOMAIN f \subseteq S /\ \A x \in DOMAIN f : f[x] \in T
      /\ DOMAIN g \subseteq S /\ \A x \in DOMAIN g : g[x] \in T
  BY PartialFunction
<1> DEFINE h == Extended(f, g)
<1>2. h = [x \in DOMAIN h |-> h[x]]
  <2>1. h = [x \in DOMAIN f \union DOMAIN g |-> IF x \in DOMAIN g THEN g[x] ELSE f[x]]
    BY DEF Extended
  <2> HIDE DEF h
  <2> QED BY <2>1
<1>a. /\ DOMAIN h = DOMAIN f \union DOMAIN g
      /\ \A x \in DOMAIN g : h[x] = g[x]
      /\ \A x \in DOMAIN f \ DOMAIN g : h[x] = f[x]
  BY ExtendedFacts
<1> HIDE DEF h
<1>3. DOMAIN h \subseteq S /\ \A x \in DOMAIN h : h[x] \in T
  BY <1>1, <1>a
<1>4. h \in PartialFunctions(S, T)  BY <1>2, <1>3, PartialFunction
<1> QED BY <1>4 DEF h

LEMMA RestrictedType ==
    ASSUME NEW S, NEW T, NEW f \in PartialFunctions(S, T), NEW D \in SUBSET DOMAIN f,
           NEW U, \A x \in D : f[x] \in U
    PROVE  [x \in D |-> f[x]] \in PartialFunctions(S, U)
<1> DEFINE h == [x \in D |-> f[x]]
<1>1. DOMAIN f \subseteq S  BY PartialFunction
<1>2. DOMAIN h = D /\ h = [x \in DOMAIN h |-> h[x]] /\ \A x \in DOMAIN h : h[x] \in U
  OBVIOUS
<1> HIDE DEF h
<1>3. h \in PartialFunctions(S, U)  BY <1>1, <1>2, PartialFunction
<1> QED BY <1>3 DEF h

LEMMA EntryType ==
    ASSUME NEW S, NEW T, NEW k \in S, NEW v \in T
    PROVE  Entry(k, v) \in PartialFunctions(S, T)
<1> DEFINE h == Entry(k, v)
<1>1. DOMAIN h \subseteq S /\ h = [x \in DOMAIN h |-> h[x]] /\ \A x \in DOMAIN h : h[x] \in T
  BY DEF Entry
<1> HIDE DEF h
<1>2. h \in PartialFunctions(S, T)  BY <1>1, PartialFunction
<1> QED BY <1>2 DEF h

-----------------------------------------------------------------------------
(* Types of the process *)

LEMMA ProcessTypeInit == ProcessInit => ProcessTypeOK
  BY GenerationFacts DEF ProcessInit, ProcessTypeOK, AtFirst

LEMMA ProcessTypeStep ==
    ASSUME ProcessTypeOK, NEW g \in Generation,
           ProcessStep(g) \/ OwnerShutsDown(g) \/ Opened(g)
    PROVE  ProcessTypeOK'
<1> USE DEF ProcessTypeOK, tree
<1>1. CASE Spawn(g)  BY <1>1 DEF Spawn
<1>2. CASE HelperStops(g)  BY <1>2 DEF HelperStops
<1>3. CASE TerminateGroup(g)  BY <1>3 DEF TerminateGroup
<1>4. CASE HelperFinishes(g)  BY <1>4 DEF HelperFinishes, DescendantsReaped
<1>5. CASE HelperKilled(g)  BY <1>5 DEF HelperKilled
<1>6. CASE Escape(g)  BY <1>6 DEF Escape
<1>7. CASE TreeExits(g)  BY <1>7 DEF TreeExits
<1>8. CASE OwnerSeesExit(g)  BY <1>8 DEF OwnerSeesExit, CleanupResult
<1>9. CASE OwnerAwaitsExit(g)  BY <1>9 DEF OwnerAwaitsExit, CleanupResult
<1>10. CASE OwnerTimesOut(g)  BY <1>10 DEF OwnerTimesOut
<1>11. CASE OwnerCrashes(g)  BY <1>11 DEF OwnerCrashes
<1>12. CASE OwnerShutsDown(g)  BY <1>12 DEF OwnerShutsDown
<1>13. CASE Opened(g)  BY <1>13 DEF Opened
<1> QED BY <1>1, <1>2, <1>3, <1>4, <1>5, <1>6, <1>7, <1>8, <1>9, <1>10, <1>11,
           <1>12, <1>13 DEF ProcessStep

-----------------------------------------------------------------------------
(* Types of the Session *)

ConnectionType ==
    /\ phase \in {"new", "initializing", "ready", "initialization_failed",
                  "disconnected", "shutdown_failed", "stopped"}
    /\ connection \in Generation \union {0}
    /\ generation \in Generation
    /\ closing \in {"no", "stay", "reopen", "close", "stop"}

RequestType ==
    /\ pending \in PartialFunctions(Id, Request)
    /\ uncertain \in PartialFunctions(Id, Mutation)
    /\ call \in [Request -> {"idle", "waiting", "failed", "answered", "misled"}]

MailboxType ==
    /\ used \subseteq Id
    /\ due \subseteq Id \X Request
    /\ upstream \subseteq Message
    /\ replies \subseteq Reply
    /\ reconciled \subseteq Mutation

PromptType ==
    /\ held \in Prompt \union {0}
    /\ promptDue \subseteq Prompt
    /\ asked \in [Prompt -> Generation \union {0}]
    /\ replied \in [Prompt -> SUBSET ({"answer", "expiry", "rejection"} \X Prompt)]
    /\ outcomes \in PartialFunctions(Prompt,
                        {"uncertain", "sent_unconfirmed", "resolution_observed"})

\* A replacement is opened only within the bound, and a close that is under
\* way is one of a connection.
ClosingType ==
    /\ closing = "reopen" => MayReopen
    /\ closing # "no" => connection # 0 /\ phase # "stopped"

\* What is pending or held belongs to the connection that is there.
PendingUsed ==
    /\ DOMAIN pending \subseteq used
    /\ closing # "no" \/ connection = 0 => DOMAIN pending = {} /\ held = 0

Typed == /\ ProcessTypeOK /\ ConnectionType /\ RequestType /\ MailboxType
         /\ PromptType /\ ClosingType /\ PendingUsed

LEMMA TypedIsTyped == Typed => TypeOK
  BY DEF Typed, TypeOK, SessionTypeOK, ConnectionType, RequestType, MailboxType, PromptType

LEMMA FailPendingType ==
    ASSUME RequestType, NEW ids, FailPending(ids) PROVE RequestType'
<1>1. pending' \in PartialFunctions(Id, Request)
  <2>1. DOMAIN pending \ ids \in SUBSET DOMAIN pending  OBVIOUS
  <2>2. \A x \in DOMAIN pending \ ids : pending[x] \in Request
    BY PartialFunction DEF RequestType
  <2> QED BY <2>1, <2>2, RestrictedType DEF RequestType, FailPending
<1>2. uncertain' \in PartialFunctions(Id, Mutation)
  <2> DEFINE D == PendingMutations \intersect ids
  <2>1. D \in SUBSET DOMAIN pending /\ \A x \in D : pending[x] \in Mutation
    BY DEF PendingMutations
  <2> HIDE DEF D
  <2>2. [i \in D |-> pending[i]] \in PartialFunctions(Id, Mutation)
    BY <2>1, RestrictedType DEF RequestType
  <2>3. uncertain' = Extended(uncertain, [i \in D |-> pending[i]])  BY DEF FailPending, D
  <2> QED BY <2>2, <2>3, ExtendedType DEF RequestType
<1>3. call' \in [Request -> {"idle", "waiting", "failed", "answered", "misled"}]
  BY DEF FailPending, RequestType
<1> QED BY <1>1, <1>2, <1>3 DEF RequestType

LEMMA StoppedType ==
    ASSUME Typed, Stopped
    PROVE  /\ ConnectionType' /\ RequestType' /\ MailboxType' /\ PromptType'
           /\ ClosingType' /\ PendingUsed'
<1>1. ConnectionType' /\ ClosingType'
  BY DEF Stopped, Typed, ConnectionType, ClosingType
<1>2. RequestType'  BY EmptyMapType DEF Stopped, Typed, RequestType
<1>3. MailboxType' /\ PromptType'
  BY EmptyMapType DEF Stopped, Typed, MailboxType, PromptType
<1>4. PendingUsed'  BY DEF Stopped, PendingUsed, EmptyMap
<1> QED BY <1>1, <1>2, <1>3, <1>4

LEMMA OutcomesUnknownType ==
    ASSUME Typed, OutcomesUnknown
    PROVE  outcomes' \in PartialFunctions(Prompt,
                           {"uncertain", "sent_unconfirmed", "resolution_observed"})
<1>1. /\ DOMAIN outcomes \subseteq Prompt
      /\ \A p \in DOMAIN outcomes :
           outcomes[p] \in {"uncertain", "sent_unconfirmed", "resolution_observed"}
  BY PartialFunction DEF Typed, PromptType
<1>2. /\ DOMAIN outcomes' = DOMAIN outcomes
      /\ outcomes' = [p \in DOMAIN outcomes' |-> outcomes'[p]]
      /\ \A p \in DOMAIN outcomes' :
           outcomes'[p] \in {"uncertain", "sent_unconfirmed", "resolution_observed"}
  BY <1>1 DEF OutcomesUnknown
<1> QED BY <1>1, <1>2, PartialFunction

LEMMA OpenReplacementType ==
    ASSUME Typed, OpenReplacement, MayReopen, closing # "no" \/ connection = 0
    PROVE  Typed'
<1>0. generation + 1 \in Generation
  BY GenerationFacts DEF MayReopen, Typed, ConnectionType
<1>1. CASE Stopped /\ (Opened(generation + 1) \/ UNCHANGED processVars)
  <2>1. ProcessTypeOK'
    BY <1>0, <1>1, ProcessTypeStep DEF Typed, ProcessTypeOK, processVars
  <2> QED BY <1>1, <2>1, StoppedType DEF Typed
<1>2. CASE /\ Reopened \/ Connectionless("disconnected")
           /\ closing' = "no" /\ OutcomesUnknown
           /\ UNCHANGED <<pending, uncertain, due, call, wireVars, held, promptDue,
                          asked, replied, reconciled>>
  <2>2. ProcessTypeOK'
    BY <1>0, <1>2, ProcessTypeStep
       DEF Typed, ProcessTypeOK, processVars, Reopened, Connectionless
  <2>3. ConnectionType' /\ ClosingType'
    BY <1>0, <1>2, GenerationFacts
       DEF Typed, ConnectionType, ClosingType, Reopened, Connectionless
  <2>4. RequestType'  BY <1>2 DEF Typed, RequestType
  <2>a. MailboxType'
    BY <1>2 DEF Typed, MailboxType, Reopened, Connectionless, wireVars, Message, Reply
  <2>5. PromptType'  BY <1>2, OutcomesUnknownType DEF Typed, PromptType
  <2>b. PendingUsed'
    BY <1>2 DEF Typed, PendingUsed, Reopened, Connectionless
  <2> QED BY <2>2, <2>3, <2>4, <2>a, <2>b, <2>5 DEF Typed
<1> QED BY <1>1, <1>2 DEF OpenReplacement
LEMMA DisconnectingType ==
    ASSUME Typed, NEW next \in {"stay", "reopen", "close", "stop"},
           next = "reopen" => MayReopen,
           Connected, RequestType', Drops(next)
    PROVE  ConnectionType' /\ ClosingType' /\ RequestType'
           /\ upstream' = {} /\ held' \in Prompt \union {0}
<1>1. ConnectionType' /\ ClosingType'
  BY DEF Typed, ConnectionType, ClosingType, Drops, Connected, Serving, MayReopen
<1> QED BY <1>1 DEF Drops

LEMMA BeginDisconnectType ==
    ASSUME Typed, NEW next \in {"stay", "reopen", "close", "stop"},
           next = "reopen" => MayReopen, Connected, BeginDisconnect(next)
    PROVE  Typed'
<1>1. RequestType'  BY FailPendingType DEF BeginDisconnect, Disconnecting, Typed
<1>2. ConnectionType' /\ ClosingType' /\ upstream' = {} /\ held' \in Prompt \union {0}
  BY <1>1, DisconnectingType DEF BeginDisconnect, Disconnecting
<1>3. ProcessTypeOK'
  BY DEF Typed, ProcessTypeOK, BeginDisconnect, processVars
<1>4. MailboxType'  BY <1>2 DEF Typed, MailboxType, BeginDisconnect, Message, Reply
<1>5. PromptType'  BY <1>2 DEF Typed, PromptType, BeginDisconnect
<1>6. PendingUsed'  BY DEF BeginDisconnect, Disconnecting, Drops, FailPending, PendingUsed
<1> QED BY <1>1, <1>2, <1>3, <1>4, <1>5, <1>6 DEF Typed

LEMMA WithoutType ==
    ASSUME NEW S, NEW T, NEW f \in PartialFunctions(S, T), NEW x
    PROVE  Without(f, x) \in PartialFunctions(S, T)
<1>1. DOMAIN f \ {x} \in SUBSET DOMAIN f  OBVIOUS
<1>2. \A y \in DOMAIN f \ {x} : f[y] \in T  BY PartialFunction
<1> QED BY <1>1, <1>2, RestrictedType DEF Without

LEMMA ClosedType == ASSUME Typed, Closed PROVE Typed'
<1>0. closing # "no" /\ connection # 0  BY DEF Closed, Typed, ClosingType
<1>1. CASE closing = "reopen" /\ OpenReplacement
  BY <1>1, OpenReplacementType DEF Typed, ClosingType
<1>2. CASE Stopped /\ UNCHANGED processVars
  <2>1. ProcessTypeOK'  BY <1>2 DEF Typed, ProcessTypeOK, processVars
  <2> QED BY <1>2, <2>1, StoppedType DEF Typed
<1>3. CASE /\ Connectionless("disconnected") \/ Connectionless("shutdown_failed")
           /\ closing' = "no" /\ OutcomesUnknown
           /\ UNCHANGED <<pending, uncertain, due, call, wireVars, held,
                          promptDue, asked, replied, reconciled>>
  <2>1. ProcessTypeOK'  BY <1>3 DEF Typed, ProcessTypeOK, processVars, Connectionless
  <2>2. ConnectionType' /\ ClosingType'
    BY <1>3 DEF Typed, ConnectionType, ClosingType, Connectionless
  <2>3. RequestType'  BY <1>3 DEF Typed, RequestType
  <2>4. MailboxType'
    BY <1>3 DEF Typed, MailboxType, Connectionless, wireVars, Message, Reply
  <2>5. PromptType'  BY <1>3, OutcomesUnknownType DEF Typed, PromptType
  <2>6. PendingUsed'  BY <1>0, <1>3 DEF Typed, PendingUsed, Connectionless
  <2> QED BY <2>1, <2>2, <2>3, <2>4, <2>5, <2>6 DEF Typed
<1> QED BY <1>1, <1>2, <1>3 DEF Closed

LEMMA SubmitType ==
    ASSUME Typed, NEW r \in Request, NEW i \in Id, Submit(r, i)
    PROVE  Typed'
<1>1. ProcessTypeOK' /\ PromptType' /\ ConnectionType' /\ ClosingType'
  <2>1. ProcessTypeOK'  BY DEF Submit, Typed, ProcessTypeOK, processVars
  <2>2. held' \in {held, 0} /\ UNCHANGED <<promptDue, asked, replied, outcomes>>
    BY DEF Submit, Drops
  <2>3. PromptType'  BY <2>2 DEF Typed, PromptType
  <2>4. UNCHANGED connVars \/ Drops("stay")  BY DEF Submit
  <2>5. ConnectionType' /\ ClosingType'
    BY <2>4 DEF Submit, Typed, ConnectionType, ClosingType, connVars, Drops, Connected,
                Serving, MayReopen
  <2> QED BY <2>1, <2>3, <2>5
<1>2. MailboxType'
  <2>1. connection \in Generation  BY DEF Submit, Connected, Typed, ConnectionType
  <2>2. [gen |-> connection, id |-> i, req |-> r] \in Message  BY <2>1 DEF Message
  <2>3. upstream' \subseteq Message
    BY <2>2 DEF Submit, Drops, Typed, MailboxType
  <2> QED BY <2>3 DEF Submit, Typed, MailboxType, Message, Reply
<1>3. RequestType'
  <2>1. CASE /\ pending' = Extended(pending, Entry(i, r))
             /\ call' = [call EXCEPT ![r] = "waiting"] /\ uncertain' = uncertain
    <3>1. Entry(i, r) \in PartialFunctions(Id, Request)  BY EntryType
    <3>2. pending' \in PartialFunctions(Id, Request)
      BY <2>1, <3>1, ExtendedType DEF Typed, RequestType
    <3> QED BY <2>1, <3>2 DEF Typed, RequestType
  <2>2. CASE /\ pending' = EmptyMap
             /\ uncertain' = Extended(uncertain,
                 [j \in PendingMutations \union (IF r \in Mutation THEN {i} ELSE {})
                    |-> IF j = i THEN r ELSE pending[j]])
             /\ call' = [q \in Request |->
                        IF q = r \/ q \in Range(pending) THEN "failed" ELSE call[q]]
    <3> DEFINE D == PendingMutations \union (IF r \in Mutation THEN {i} ELSE {})
               h == [j \in D |-> IF j = i THEN r ELSE pending[j]]
    <3>2. D \subseteq Id
      BY PartialFunction DEF PendingMutations, Typed, RequestType
    <3>3. i \notin PendingMutations
      BY DEF Submit, FreshId, PendingMutations, Typed, PendingUsed
    <3>4. \A j \in D : (IF j = i THEN r ELSE pending[j]) \in Mutation
      BY <3>3 DEF PendingMutations
    <3>5. DOMAIN h = D /\ h = [x \in DOMAIN h |-> h[x]] /\ \A x \in DOMAIN h : h[x] \in Mutation
      BY <3>4
    <3>6. uncertain' = Extended(uncertain, h)  BY <2>2
    <3> HIDE DEF h, D
    <3>7. h \in PartialFunctions(Id, Mutation)  BY <3>2, <3>5, PartialFunction
    <3>8. uncertain' \in PartialFunctions(Id, Mutation)
      BY <3>6, <3>7, ExtendedType DEF Typed, RequestType
    <3>9. pending' \in PartialFunctions(Id, Request)  BY <2>2, EmptyMapType
    <3>10. call' \in [Request -> {"idle", "waiting", "failed", "answered", "misled"}]
      BY <2>2 DEF Typed, RequestType
    <3> QED BY <3>8, <3>9, <3>10 DEF RequestType
  <2> QED BY <2>1, <2>2 DEF Submit
<1>4. PendingUsed'
  <2>1. closing = "no" /\ connection # 0  BY DEF Submit, Connected, Serving
  <2>2. CASE pending' = EmptyMap /\ Drops("stay")  BY <2>2 DEF PendingUsed, EmptyMap, Drops
  <2>3. CASE pending' = Extended(pending, Entry(i, r)) /\ UNCHANGED connVars
    <3>1. DOMAIN pending' = DOMAIN pending \union {i}
      BY <2>3, ExtendedFacts DEF Entry
    <3> QED BY <2>1, <2>3, <3>1 DEF Submit, Typed, PendingUsed, connVars
  <2> QED BY <2>2, <2>3 DEF Submit
<1> QED BY <1>1, <1>2, <1>3, <1>4 DEF Typed

\* The handlers that leave connections, processes and requests alone.
LEMMA SmallSteps ==
    ASSUME Typed
    PROVE  /\ Initialize \/ InitializeAnswered => Typed'
           /\ \A m \in upstream : Answer(m) => Typed'
           /\ \A i \in Id : TimerFires(i) => Typed'
           /\ \A p \in Prompt :
                PromptTimerFires(p) \/ PromptResolved(p) \/ AcknowledgeOutcome(p) => Typed'
<1>p. UNCHANGED processVars => ProcessTypeOK'
  BY DEF Typed, ProcessTypeOK, processVars
<1>c. UNCHANGED connVars => ConnectionType' /\ ClosingType'
  BY DEF Typed, ConnectionType, ClosingType, connVars, MayReopen
<1>r. UNCHANGED <<pending, uncertain, call>> => RequestType'
  BY DEF Typed, RequestType
<1>u. UNCHANGED <<connVars, pending, used>> /\ held' \in {held, 0} => PendingUsed'
  BY DEF Typed, PendingUsed, connVars
<1>m. UNCHANGED <<used, due, wireVars, reconciled>> => MailboxType'
  BY DEF Typed, MailboxType, wireVars, Message, Reply
<1>q. UNCHANGED promptVars => PromptType'
  BY DEF Typed, PromptType, promptVars
<1>1. ASSUME Initialize \/ InitializeAnswered PROVE Typed'
  <2>1. ConnectionType' /\ ClosingType' /\ PendingUsed'
    BY <1>1 DEF Typed, ConnectionType, ClosingType, PendingUsed, Initialize,
                InitializeAnswered, Connected, Serving, MayReopen, requestVars, promptVars
  <2> QED BY <1>1, <2>1, <1>p, <1>r, <1>m, <1>q
          DEF Typed, Initialize, InitializeAnswered, requestVars
<1>2. ASSUME NEW m \in upstream, Answer(m) PROVE Typed'
  <2>1. m \in Message  BY DEF Typed, MailboxType
  <2>2. \A kind \in {"result", "error", "drift"} :
          [gen |-> m.gen, id |-> m.id, req |-> m.req, kind |-> kind] \in Reply
    BY <2>1 DEF Message, Reply
  <2>3. MailboxType'
    BY <1>2, <2>2 DEF Answer, Typed, MailboxType, requestVars, Message, Reply
  <2> QED BY <1>2, <2>3, <1>p, <1>c, <1>r, <1>u, <1>q
          DEF Typed, Answer, requestVars, promptVars
<1>3. ASSUME NEW i \in Id, TimerFires(i) PROVE Typed'
  <2>1. i \in DOMAIN pending /\ pending[i] \in Request
    BY <1>3, PartialFunction DEF TimerFires, Typed, RequestType
  <2>2. MailboxType'
    BY <1>3, <2>1 DEF TimerFires, Typed, MailboxType, wireVars, Message, Reply
  <2> QED BY <1>3, <2>2, <1>p, <1>c, <1>r, <1>u, <1>q DEF Typed, TimerFires, promptVars
<1>4. ASSUME NEW p \in Prompt,
             PromptTimerFires(p) \/ PromptResolved(p) \/ AcknowledgeOutcome(p)
      PROVE  Typed'
  <2>1. PromptType'
    <3>1. CASE PromptTimerFires(p)  BY <3>1 DEF PromptTimerFires, Typed, PromptType
    <3>2. CASE PromptResolved(p)
      <4>1. /\ DOMAIN outcomes \subseteq Prompt
            /\ \A q \in DOMAIN outcomes :
                 outcomes[q] \in {"uncertain", "sent_unconfirmed", "resolution_observed"}
        BY PartialFunction DEF Typed, PromptType
      <4>2. /\ DOMAIN outcomes' = DOMAIN outcomes
            /\ outcomes' = [q \in DOMAIN outcomes' |-> outcomes'[q]]
            /\ \A q \in DOMAIN outcomes' :
                 outcomes'[q] \in {"uncertain", "sent_unconfirmed", "resolution_observed"}
        BY <3>2, <4>1 DEF PromptResolved
      <4>3. outcomes' \in PartialFunctions(Prompt,
                   {"uncertain", "sent_unconfirmed", "resolution_observed"})
        BY <4>1, <4>2, PartialFunction
      <4> QED BY <3>2, <4>3 DEF PromptResolved, Typed, PromptType
    <3>3. CASE AcknowledgeOutcome(p)
      BY <3>3, WithoutType DEF AcknowledgeOutcome, Typed, PromptType
    <3> QED BY <1>4, <3>1, <3>2, <3>3
  <2> QED BY <1>4, <2>1, <1>p, <1>c, <1>r, <1>u, <1>m
          DEF Typed, PromptTimerFires, PromptResolved, AcknowledgeOutcome, requestVars,
              wireVars
<1> QED BY <1>1, <1>2, <1>3, <1>4

\* The handlers that may fail requests or leave the connection.
LEMMA StayOrLeave ==
    ASSUME Typed, Serving,
           \/ UNCHANGED <<connVars, pending, uncertain, call, upstream>>
           \/ connection # 0 /\ Disconnecting("stay"),
           UNCHANGED <<used, due, replies, reconciled>>,
           held' \in {held, 0} \/ connection # 0
    PROVE  /\ ConnectionType' /\ ClosingType' /\ RequestType' /\ MailboxType'
           /\ PendingUsed'
<1>1. CASE UNCHANGED <<connVars, pending, uncertain, call, upstream>>
  BY <1>1 DEF Typed, ConnectionType, ClosingType, RequestType, MailboxType, PendingUsed,
              connVars, MayReopen, Message, Reply, Serving
<1>2. CASE connection # 0 /\ Disconnecting("stay")
  <2>1. RequestType'  BY <1>2, FailPendingType DEF Disconnecting, Typed
  <2>2. ConnectionType' /\ ClosingType' /\ upstream' = {}
    BY <1>2, <2>1, DisconnectingType DEF Disconnecting, Connected
  <2>3. MailboxType'  BY <2>2 DEF Typed, MailboxType, Message, Reply
  <2>4. PendingUsed'  BY <1>2 DEF Disconnecting, Drops, FailPending, PendingUsed
  <2> QED BY <2>1, <2>2, <2>3, <2>4
<1> QED BY <1>1, <1>2

\* The handlers that settle or fail requests of the connection.
LEMMA RequestSteps ==
    ASSUME Typed, Serving, UNCHANGED <<processVars, connVars, used, promptVars>>,
           \/ \E ids : FailPending(ids)
           \/ \E i \in DOMAIN pending : \E answer : Settle(i, answer) /\ UNCHANGED uncertain
           \/ UNCHANGED <<pending, call>> /\ \E i \in Id : uncertain' = Without(uncertain, i)
           \/ UNCHANGED <<pending, uncertain, call>>,
           due' \subseteq due, upstream' = upstream, replies' \subseteq replies,
           reconciled' \subseteq Mutation
    PROVE  Typed'
<1>1. ProcessTypeOK'  BY DEF Typed, ProcessTypeOK, processVars
<1>2. ConnectionType' /\ ClosingType'
  BY DEF Typed, ConnectionType, ClosingType, connVars, MayReopen
<1>3. PromptType'  BY DEF Typed, PromptType, promptVars
<1>4. MailboxType'  BY DEF Typed, MailboxType, Message, Reply
<1>5. RequestType' /\ DOMAIN pending' \subseteq DOMAIN pending
  <2>1. ASSUME NEW ids, FailPending(ids) PROVE RequestType' /\ DOMAIN pending' \subseteq DOMAIN pending
    <3>1. RequestType'  BY <2>1, FailPendingType DEF Typed
    <3>2. DOMAIN pending' \subseteq DOMAIN pending  BY <2>1 DEF FailPending
    <3> QED BY <3>1, <3>2
  <2>2. ASSUME NEW i \in DOMAIN pending, NEW answer, Settle(i, answer), UNCHANGED uncertain
        PROVE  RequestType' /\ DOMAIN pending' \subseteq DOMAIN pending
    <3>1. pending' \in PartialFunctions(Id, Request)
      BY <2>2, WithoutType DEF Typed, RequestType, Settle
    <3>2. DOMAIN pending' \subseteq DOMAIN pending  BY <2>2 DEF Settle, Without
    <3> QED BY <2>2, <3>1, <3>2 DEF Typed, RequestType, Settle
  <2>3. ASSUME NEW i \in Id, UNCHANGED <<pending, call>>, uncertain' = Without(uncertain, i)
        PROVE  RequestType'
    <3>1. uncertain' \in PartialFunctions(Id, Mutation)
      BY <2>3, WithoutType DEF Typed, RequestType
    <3> QED BY <2>3, <3>1 DEF Typed, RequestType
  <2>4. CASE UNCHANGED <<pending, uncertain, call>>  BY <2>4 DEF Typed, RequestType
  <2> QED BY <2>1, <2>2, <2>3, <2>4
<1>6. PendingUsed'  BY <1>5 DEF Typed, PendingUsed, connVars, promptVars
<1> QED BY <1>1, <1>2, <1>3, <1>4, <1>5, <1>6 DEF Typed

LEMMA TypedStep == Typed /\ [Next]_vars => Typed'
<1> SUFFICES ASSUME Typed, [Next]_vars PROVE Typed'  OBVIOUS
<1>p. UNCHANGED processVars => ProcessTypeOK'  BY DEF Typed, ProcessTypeOK, processVars
<1>s. UNCHANGED sessionVars =>
        /\ ConnectionType' /\ RequestType' /\ MailboxType' /\ PromptType'
        /\ ClosingType' /\ PendingUsed'
  BY DEF Typed, sessionVars, connVars, requestVars, wireVars, promptVars, ConnectionType,
         RequestType, MailboxType, PromptType, ClosingType, PendingUsed, MayReopen,
         Message, Reply
<1>0. CASE UNCHANGED vars  BY <1>0, <1>p, <1>s DEF vars, Typed
<1>1. CASE Closed  BY <1>1, ClosedType
<1>2. CASE Reconnect
  <2>1. CASE connection # 0 /\ BeginDisconnect("reopen")
    BY <1>2, <2>1, BeginDisconnectType DEF Reconnect, Connected
  <2>2. CASE connection = 0 /\ OpenReplacement
    BY <1>2, <2>2, OpenReplacementType DEF Reconnect
  <2> QED BY <1>2, <2>1, <2>2 DEF Reconnect
<1>3. CASE Close \/ OwnerDown
  <2>1. CASE connection # 0 /\ \E next \in {"close", "stop"} : BeginDisconnect(next)
    BY <1>3, <2>1, BeginDisconnectType DEF Close, OwnerDown, Connected
  <2>2. CASE Stopped /\ UNCHANGED processVars  BY <2>2, <1>p, StoppedType DEF Typed
  <2> QED BY <1>3, <2>1, <2>2 DEF Close, OwnerDown
<1>4. CASE ConnectionLost  BY <1>4, BeginDisconnectType DEF ConnectionLost
<1>5. CASE SessionKilled  BY <1>5, <1>p, StoppedType DEF SessionKilled, Typed
<1>6. CASE Initialize \/ InitializeAnswered  BY <1>6, SmallSteps
<1>7. ASSUME NEW g \in Generation, ShutDown(g) PROVE Typed'
  BY <1>7, <1>s, ProcessTypeStep DEF ShutDown, Typed
<1>8. ASSUME NEW g \in Generation, ReceiveExit(g) PROVE Typed'
  <2>1. connection # 0 \/ ~Current(g)  BY GenerationFacts DEF Current
  <2>2. held' \in {held, 0}  BY <1>8 DEF ReceiveExit, Disconnecting, Drops
  <2>3. /\ ConnectionType' /\ ClosingType' /\ RequestType' /\ MailboxType'
        /\ PendingUsed'
    BY <1>8, <2>1, <2>2, StayOrLeave DEF ReceiveExit
  <2>4. ProcessTypeOK'  BY <1>8 DEF ReceiveExit, Typed, ProcessTypeOK, tree
  <2>5. PromptType'  BY <1>8, <2>2 DEF ReceiveExit, Typed, PromptType
  <2> QED BY <2>3, <2>4, <2>5 DEF Typed
<1>9. ASSUME NEW r \in Request, NEW i \in Id, Submit(r, i) PROVE Typed'
  BY <1>9, SubmitType
<1>10. ASSUME NEW r \in Request, NEW i \in Id, HandleDeadline(i, r) PROVE Typed'
  BY <1>10, RequestSteps DEF HandleDeadline, wireVars, Typed, MailboxType
<1>11. ASSUME NEW m \in upstream, Answer(m) PROVE Typed'  BY <1>11, SmallSteps
<1>12. ASSUME NEW m \in replies, Receive(m) PROVE Typed'
  BY <1>12, RequestSteps DEF Receive, Typed, MailboxType
<1>13. ASSUME NEW i \in Id, TimerFires(i) PROVE Typed'  BY <1>13, SmallSteps
<1>14. ASSUME NEW i \in Id, Abandon(i) PROVE Typed'
  BY <1>14, RequestSteps DEF Abandon, wireVars, Typed, MailboxType
<1>15. ASSUME NEW i \in Id, Reconcile(i) PROVE Typed'
  <2>1. uncertain[i] \in Mutation
    BY <1>15, PartialFunction DEF Reconcile, Typed, RequestType
  <2> QED BY <1>15, <2>1, RequestSteps DEF Reconcile, wireVars, Typed, MailboxType
<1>16. ASSUME NEW p \in Prompt, PromptArrives(p) PROVE Typed'
  <2>1. connection # 0 /\ connection \in Generation /\ Serving
    BY <1>16 DEF PromptArrives, Connected, Typed, ConnectionType
  <2>2. /\ ConnectionType' /\ ClosingType' /\ RequestType' /\ MailboxType'
        /\ PendingUsed'
    BY <1>16, <2>1, StayOrLeave DEF PromptArrives
  <2>3. held' \in {held, p, 0}  BY <1>16 DEF PromptArrives, Disconnecting, Drops
  <2>4. replied' \in [Prompt -> SUBSET ({"answer", "expiry", "rejection"} \X Prompt)]
    BY <1>16 DEF PromptArrives, Typed, PromptType
  <2>5. PromptType'
    BY <1>16, <2>1, <2>3, <2>4 DEF PromptArrives, Typed, PromptType
  <2> QED BY <1>16, <2>2, <2>5, <1>p DEF PromptArrives, Typed
<1>17. ASSUME NEW p \in Prompt, Respond(p) PROVE Typed'
  <2>1. connection # 0 /\ Serving  BY <1>17 DEF Respond, Connected
  <2>2. held' = 0  BY <1>17 DEF Respond, Disconnecting, Drops
  <2>3. /\ ConnectionType' /\ ClosingType' /\ RequestType' /\ MailboxType'
        /\ PendingUsed'
    BY <1>17, <2>1, <2>2, StayOrLeave DEF Respond
  <2>4. replied' \in [Prompt -> SUBSET ({"answer", "expiry", "rejection"} \X Prompt)]
    BY <1>17 DEF Respond, Write, Typed, PromptType
  <2>5. \A v \in {"uncertain", "sent_unconfirmed", "resolution_observed"} :
          Extended(outcomes, Entry(p, v)) \in PartialFunctions(Prompt,
                {"uncertain", "sent_unconfirmed", "resolution_observed"})
    BY EntryType, ExtendedType DEF Typed, PromptType
  <2>6. outcomes' \in PartialFunctions(Prompt,
                {"uncertain", "sent_unconfirmed", "resolution_observed"})
    BY <1>17, <2>5 DEF Respond
  <2>7. PromptType'  BY <1>17, <2>2, <2>4, <2>6 DEF Respond, Typed, PromptType
  <2> QED BY <1>17, <2>3, <2>7, <1>p DEF Respond, Typed
<1>18. ASSUME NEW p \in Prompt, HandlePromptDeadline(p) PROVE Typed'
  <2>1. held' \in {held, 0}  BY <1>18 DEF HandlePromptDeadline, Disconnecting, Drops
  <2>2. ~Held(p) \/ connection # 0
    BY GenerationFacts DEF Held, Typed, PendingUsed
  <2>3. /\ ConnectionType' /\ ClosingType' /\ RequestType' /\ MailboxType'
        /\ PendingUsed'
    BY <1>18, <2>1, <2>2, StayOrLeave DEF HandlePromptDeadline
  <2>4. replied' \in [Prompt -> SUBSET ({"answer", "expiry", "rejection"} \X Prompt)]
    BY <1>18 DEF HandlePromptDeadline, Write, Typed, PromptType
  <2>5. PromptType'  BY <1>18, <2>1, <2>4 DEF HandlePromptDeadline, Typed, PromptType
  <2> QED BY <1>18, <2>3, <2>5, <1>p DEF HandlePromptDeadline, Typed
<1>19. ASSUME NEW p \in Prompt,
              PromptTimerFires(p) \/ PromptResolved(p) \/ AcknowledgeOutcome(p)
       PROVE  Typed'
  BY <1>19, SmallSteps
<1>20. CASE ProcessNext  BY <1>20, <1>s, ProcessTypeStep DEF ProcessNext, Typed
<1> QED BY <1>0, <1>1, <1>2, <1>3, <1>4, <1>5, <1>6, <1>7, <1>8, <1>9, <1>10, <1>11,
           <1>12, <1>13, <1>14, <1>15, <1>16, <1>17, <1>18, <1>19, <1>20
        DEF Next, SessionStep

LEMMA TypedHolds == Spec => []Typed
<1>1. Init => Typed
  <2> SUFFICES ASSUME Init PROVE Typed  OBVIOUS
  <2>1. ProcessTypeOK  BY ProcessTypeInit DEF Init
  <2>2. ConnectionType /\ ClosingType  BY GenerationFacts DEF Init, ConnectionType, ClosingType
  <2>3. RequestType  BY EmptyMapType DEF Init, RequestType
  <2>4. MailboxType  BY DEF Init, MailboxType
  <2>5. PromptType  BY EmptyMapType DEF Init, PromptType
  <2>6. PendingUsed  BY GenerationFacts DEF Init, PendingUsed, EmptyMap
  <2> QED BY <2>1, <2>2, <2>3, <2>4, <2>5, <2>6 DEF Typed
<1> QED BY <1>1, TypedStep, PTL DEF Spec

\* Every reachable state is well typed.
THEOREM TypeCorrect == Spec => []TypeOK
<1> QED BY TypedHolds, TypedIsTyped, PTL

-----------------------------------------------------------------------------
(***************************************************************************)
(* Safety.  Two invariants about the trees of processes carry              *)
(* OneProcessTree; the other three properties need one invariant each on   *)
(* what is pending, in flight or held.                                     *)
(***************************************************************************)

(* The trees of processes *)

\* Everything the generation started is gone, and nothing can come back.
Settled(g) == helper[g] = "ended" /\ ~Alive(g)

\* Nobody has opened the generation yet.
Untouched(g) ==
    /\ helper[g] = "none" /\ group[g] = "none" /\ ~escapee[g]
    /\ ~acked[g] /\ owner[g] = "none" /\ completion[g] = 0

\* A helper that acknowledges has nothing left to kill; a child lives only
\* between the start of its helper and its killing.
Acknowledgement ==
    \A g \in Generation :
        /\ acked[g] => Settled(g)
        /\ completion[g] = 1 => acked[g]
        /\ helper[g] \in {"none", "starting"} => group[g] = "none" /\ ~escapee[g]
        /\ helper[g] = "reaping" => group[g] = "dead"

\* A Session that lives has at most the newest generation left to settle, and
\* without a connection it has none, unless its last close was unconfirmed.
Succession ==
    phase # "stopped" =>
        /\ \A g \in Generation : g > generation => Untouched(g)
        /\ \A g \in Generation : g < generation => Settled(g)
        /\ connection \in {0, generation}
        /\ connection = 0 /\ phase # "shutdown_failed" => Settled(generation)

Ending == phase = "stopped" => connection = 0

Trees == Acknowledgement /\ Succession /\ Ending

\* What the processes do by themselves.
LEMMA ProcessKeeps ==
    ASSUME ProcessTypeOK, Acknowledgement, NEW g \in Generation,
           ProcessStep(g) \/ OwnerShutsDown(g)
    PROVE  /\ Acknowledgement'
           /\ \A h \in Generation : Settled(h) => Settled(h)'
           /\ \A h \in Generation : Untouched(h) => Untouched(h)'
<1> USE DEF ProcessTypeOK, Acknowledgement, Settled, Untouched, Alive, tree
<1>1. CASE Spawn(g)  BY <1>1 DEF Spawn
<1>2. CASE HelperStops(g)  BY <1>2 DEF HelperStops
<1>3. CASE TerminateGroup(g)  BY <1>3 DEF TerminateGroup
<1>4. CASE HelperFinishes(g)  BY <1>4 DEF HelperFinishes, DescendantsReaped
<1>5. CASE HelperKilled(g)  BY <1>5 DEF HelperKilled
<1>6. CASE Escape(g)  BY <1>6 DEF Escape
<1>7. CASE TreeExits(g)  BY <1>7 DEF TreeExits
<1>8. CASE OwnerSeesExit(g)  BY <1>8 DEF OwnerSeesExit, CleanupResult
<1>9. CASE OwnerAwaitsExit(g)  BY <1>9 DEF OwnerAwaitsExit, CleanupResult
<1>10. CASE OwnerTimesOut(g)  BY <1>10 DEF OwnerTimesOut
<1>11. CASE OwnerCrashes(g)  BY <1>11 DEF OwnerCrashes
<1>12. CASE OwnerShutsDown(g)  BY <1>12 DEF OwnerShutsDown
<1> QED BY <1>1, <1>2, <1>3, <1>4, <1>5, <1>6, <1>7, <1>8, <1>9, <1>10, <1>11,
           <1>12 DEF ProcessStep

\* Opening touches nothing but the new generation.
LEMMA OpenedKeeps ==
    ASSUME ProcessTypeOK, Acknowledgement, NEW g \in Generation, Opened(g), Untouched(g)
    PROVE  /\ Acknowledgement'
           /\ \A h \in Generation : Settled(h) => Settled(h)'
           /\ \A h \in Generation \ {g} : Untouched(h) => Untouched(h)'
  BY DEF ProcessTypeOK, Acknowledgement, Settled, Untouched, Alive, Opened

LEMMA NoProcessKeeps ==
    ASSUME Acknowledgement, UNCHANGED <<tree, owner, completion>>
    PROVE  /\ Acknowledgement'
           /\ \A h \in Generation : Settled(h) => Settled(h)'
           /\ \A h \in Generation : Untouched(h) => Untouched(h)'
  BY DEF Acknowledgement, Settled, Untouched, Alive, tree

\* Most handlers leave the processes alone and keep the connection.
LEMMA QuietKeeps ==
    ASSUME Trees, UNCHANGED <<tree, owner, completion, connection, generation>>,
           phase' = phase \/ (connection # 0 /\ phase # "stopped" /\ phase' # "stopped"),
           generation \in Generation
    PROVE  Trees'
<1>1. /\ Acknowledgement'
      /\ \A h \in Generation : Settled(h) => Settled(h)'
      /\ \A h \in Generation : Untouched(h) => Untouched(h)'
  BY NoProcessKeeps DEF Trees
<1>2. Ending'  BY DEF Trees, Ending
<1>3. Succession'  BY <1>1 DEF Trees, Succession
<1> QED BY <1>1, <1>2, <1>3 DEF Trees

LEMMA StoppedKeeps ==
    ASSUME Acknowledgement, Stopped, UNCHANGED processVars
    PROVE  Trees'
<1>1. Acknowledgement'  BY NoProcessKeeps DEF processVars, tree
<1> QED BY <1>1 DEF Stopped, Trees, Succession, Ending

\* A replacement is opened only when all that came before is settled.
LEMMA OpenReplacementKeeps ==
    ASSUME Typed, Trees, OpenReplacement, MayReopen, phase # "stopped",
           Settled(generation)
    PROVE  Trees'
<1>0. /\ generation \in Nat /\ generation + 1 \in Generation
      /\ Untouched(generation + 1) /\ generation \in Generation
  BY GenerationFacts DEF MayReopen, Typed, ConnectionType, Trees, Succession
<1>t. ProcessTypeOK /\ Acknowledgement  BY DEF Typed, Trees
<1>1. CASE Reopened
  <2>1. /\ Acknowledgement'
        /\ \A h \in Generation : Settled(h) => Settled(h)'
        /\ \A h \in Generation \ {generation + 1} : Untouched(h) => Untouched(h)'
    BY <1>0, <1>1, <1>t, OpenedKeeps DEF Reopened
  <2>2. generation' = generation + 1 /\ connection' = generation + 1 /\ phase' = "new"
    BY <1>1 DEF Reopened
  <2>3. \A g \in Generation : g > generation' => Untouched(g)'
    BY <1>0, <2>1, <2>2, GenerationFacts DEF Trees, Succession
  <2>4. \A g \in Generation : g < generation' => Settled(g)'
    <3> SUFFICES ASSUME NEW g \in Generation, g < generation + 1 PROVE Settled(g)'
      BY <2>2
    <3>1. g < generation \/ g = generation  BY <1>0, GenerationFacts
    <3> QED BY <2>1, <3>1 DEF Trees, Succession
  <2>5. connection' # 0  BY <1>0, <2>2
  <2> QED BY <2>1, <2>2, <2>3, <2>4, <2>5 DEF Trees, Succession, Ending
<1>2. CASE Connectionless("disconnected")
  <2>1. /\ Acknowledgement'
        /\ \A h \in Generation : Settled(h) => Settled(h)'
        /\ \A h \in Generation : Untouched(h) => Untouched(h)'
    BY <1>2, <1>t, NoProcessKeeps DEF Connectionless, processVars, tree
  <2> QED BY <1>0, <1>2, <2>1 DEF Connectionless, Trees, Succession, Ending
<1>3. CASE Stopped /\ Opened(generation + 1)
  <2>1. Acknowledgement'  BY <1>0, <1>3, <1>t, OpenedKeeps
  <2> QED BY <1>3, <2>1 DEF Stopped, Trees, Succession, Ending
<1>4. CASE Stopped /\ UNCHANGED processVars  BY <1>4, <1>t, StoppedKeeps
<1> QED BY <1>1, <1>2, <1>3, <1>4 DEF OpenReplacement

LEMMA ClosedKeeps == ASSUME Typed, Trees, Closed PROVE Trees'
<1>1. /\ phase # "stopped" /\ connection = generation
      /\ generation \in Generation /\ connection \in Generation
  BY DEF Closed, Typed, ClosingType, ConnectionType, Trees, Succession
<1>2. CloseConfirmed(connection) => Settled(generation)
  BY <1>1 DEF CloseConfirmed, Trees, Acknowledgement
<1>3. CASE CloseConfirmed(connection) /\ closing = "reopen" /\ OpenReplacement
  BY <1>1, <1>2, <1>3, OpenReplacementKeeps DEF Typed, ClosingType
<1>4. CASE Stopped /\ UNCHANGED processVars  BY <1>4, StoppedKeeps DEF Trees
<1>5. CASE \/ CloseConfirmed(connection) /\ Connectionless("disconnected")
           \/ Connectionless("shutdown_failed")
  <2>1. /\ Acknowledgement'
        /\ \A h \in Generation : Settled(h) => Settled(h)'
        /\ \A h \in Generation : Untouched(h) => Untouched(h)'
    BY <1>5, NoProcessKeeps DEF Connectionless, processVars, tree, Trees
  <2>2. /\ phase' \in {"disconnected", "shutdown_failed"} /\ connection' = 0
        /\ generation' = generation
        /\ phase' = "disconnected" => Settled(generation)
    BY <1>2, <1>5 DEF Connectionless
  <2> QED BY <1>1, <2>1, <2>2 DEF Trees, Succession, Ending
<1> QED BY <1>3, <1>4, <1>5 DEF Closed

LEMMA TreesStep == Typed /\ Trees /\ [Next]_vars => Trees'
<1> SUFFICES ASSUME Typed, Trees, [Next]_vars PROVE Trees'  OBVIOUS
<1>g. generation \in Generation  BY DEF Typed, ConnectionType
<1>0. CASE UNCHANGED vars
  BY <1>0, <1>g, QuietKeeps DEF vars, processVars, tree, sessionVars, connVars
<1>1. CASE Closed  BY <1>1, ClosedKeeps
<1>2. CASE Reconnect
  <2>1. CASE connection # 0 /\ BeginDisconnect("reopen")
    BY <1>2, <2>1, <1>g, QuietKeeps
       DEF Reconnect, BeginDisconnect, Disconnecting, Drops, Serving, processVars, tree
  <2>2. CASE connection = 0 /\ phase # "shutdown_failed" /\ OpenReplacement
    <3>1. phase # "stopped" /\ MayReopen  BY <1>2 DEF Reconnect, Serving
    <3>2. Settled(generation)  BY <2>2, <3>1 DEF Trees, Succession
    <3> QED BY <2>2, <3>1, <3>2, OpenReplacementKeeps
  <2> QED BY <1>2, <2>1, <2>2 DEF Reconnect
<1>3. CASE Close \/ OwnerDown
  <2>1. CASE connection # 0 /\ \E next \in {"close", "stop"} : BeginDisconnect(next)
    BY <1>3, <2>1, <1>g, QuietKeeps
       DEF Close, OwnerDown, BeginDisconnect, Disconnecting, Drops, Serving, processVars, tree
  <2>2. CASE Stopped /\ UNCHANGED processVars  BY <2>2, StoppedKeeps DEF Trees
  <2> QED BY <1>3, <2>1, <2>2 DEF Close, OwnerDown
<1>4. CASE ConnectionLost
  BY <1>4, <1>g, QuietKeeps
     DEF ConnectionLost, Connected, BeginDisconnect, Disconnecting, Drops, Serving,
         processVars, tree
<1>5. CASE SessionKilled  BY <1>5, StoppedKeeps DEF SessionKilled, Trees
<1>6. CASE Initialize \/ InitializeAnswered
  BY <1>6, <1>g, QuietKeeps
     DEF Initialize, InitializeAnswered, Connected, Serving, processVars, tree
<1>7. ASSUME NEW g \in Generation, ShutDown(g) \/ (ProcessStep(g) /\ UNCHANGED sessionVars)
      PROVE  Trees'
  <2>1. /\ Acknowledgement'
        /\ \A h \in Generation : Settled(h) => Settled(h)'
        /\ \A h \in Generation : Untouched(h) => Untouched(h)'
    BY <1>7, ProcessKeeps DEF Typed, Trees, ShutDown
  <2>2. UNCHANGED connVars  BY <1>7 DEF ShutDown, sessionVars
  <2> QED BY <1>g, <2>1, <2>2 DEF Trees, Succession, Ending, connVars
<1>8. ASSUME NEW g \in Generation, ReceiveExit(g) PROVE Trees'
  <2>1. connection = 0 => ~Current(g)  BY GenerationFacts DEF Current
  <2> QED BY <1>8, <1>g, <2>1, QuietKeeps
          DEF ReceiveExit, Disconnecting, Drops, Serving, connVars
<1>9. ASSUME NEW r \in Request, NEW i \in Id, Submit(r, i) PROVE Trees'
  BY <1>9, <1>g, QuietKeeps
     DEF Submit, Drops, Connected, Serving, connVars, processVars, tree
<1>10. ASSUME UNCHANGED <<processVars, connVars>> PROVE Trees'
  BY <1>10, <1>g, QuietKeeps DEF connVars, processVars, tree
<1>11. ASSUME NEW p \in Prompt, PromptArrives(p) \/ Respond(p) PROVE Trees'
  BY <1>11, <1>g, QuietKeeps
     DEF PromptArrives, Respond, Disconnecting, Drops, Connected, Serving, connVars,
         processVars, tree
<1>12. ASSUME NEW p \in Prompt, HandlePromptDeadline(p) PROVE Trees'
  <2>1. ~Held(p) \/ connection # 0  BY GenerationFacts DEF Held, Typed, PendingUsed
  <2> QED BY <1>12, <1>g, <2>1, QuietKeeps
          DEF HandlePromptDeadline, Disconnecting, Drops, Serving, connVars, processVars,
              tree
<1>13. (\E m \in upstream : Answer(m)) => Trees'  BY <1>10 DEF Answer
<1>14. (\E m \in replies : Receive(m)) => Trees'  BY <1>10 DEF Receive
<1>15. (\E i \in Id : TimerFires(i) \/ Abandon(i) \/ Reconcile(i)) => Trees'
  BY <1>10 DEF TimerFires, Abandon, Reconcile
<1>16. (\E r \in Request, i \in Id : HandleDeadline(i, r)) => Trees'
  BY <1>10 DEF HandleDeadline
<1>17. (\E p \in Prompt :
          PromptTimerFires(p) \/ PromptResolved(p) \/ AcknowledgeOutcome(p)) => Trees'
  BY <1>10 DEF PromptTimerFires, PromptResolved, AcknowledgeOutcome
<1> QED BY <1>0, <1>1, <1>2, <1>3, <1>4, <1>5, <1>6, <1>7, <1>8, <1>9, <1>11, <1>12,
           <1>13, <1>14, <1>15, <1>16, <1>17 DEF Next, SessionStep, ProcessNext

LEMMA TreesHold == Spec => []Trees
<1>1. Init => Trees
  <2> SUFFICES ASSUME Init PROVE Trees  OBVIOUS
  <2>1. Acknowledgement
    BY DEF Init, ProcessInit, AtFirst, Acknowledgement
  <2>2. Succession /\ Ending
    BY GenerationFacts
       DEF Init, ProcessInit, AtFirst, Succession, Ending, Untouched, Settled, Generation
  <2> QED BY <2>1, <2>2 DEF Trees
<1> QED BY <1>1, TreesStep, TypedHolds, PTL DEF Spec

\* transport.ex:10-12: while a generation is open, nothing an earlier one
\* started is running, whatever is killed, crashes, escapes or times out.
THEOREM OneTreeAtATime == Spec => []OneProcessTree
<1>1. Typed /\ Trees => OneProcessTree
  BY DEF Typed, ConnectionType, Trees, Succession, Ending, OneProcessTree, Settled
<1> QED BY <1>1, TreesHold, TypedHolds, PTL

-----------------------------------------------------------------------------
(* Mutations of unknown outcome *)

Uncertainties ==
    /\ DOMAIN pending \intersect DOMAIN uncertain = {}
    /\ NoMutationForgotten

LEMMA ExtendedRange ==
    ASSUME NEW f, NEW g, DOMAIN f \intersect DOMAIN g = {}
    PROVE  Range(f) \union Range(g) \subseteq Range(Extended(f, g))
<1>1. ASSUME NEW x \in DOMAIN f
      PROVE  x \in DOMAIN Extended(f, g) /\ Extended(f, g)[x] = f[x]
  <2>1. x \notin DOMAIN g  OBVIOUS
  <2> QED BY <2>1 DEF Extended
<1>2. \A x \in DOMAIN g : x \in DOMAIN Extended(f, g) /\ Extended(f, g)[x] = g[x]
  BY DEF Extended
<1> QED BY <1>1, <1>2 DEF Range

\* fail_pending moves every mutation it fails to the uncertain ones.
LEMMA FailPendingKeeps ==
    ASSUME Typed, Uncertainties, NEW ids, FailPending(ids), reconciled' = reconciled,
           phase # "stopped"
    PROVE  Uncertainties'
<1> DEFINE D == PendingMutations \intersect ids
           lost == [i \in D |-> pending[i]]
<1>1. D \subseteq DOMAIN pending /\ DOMAIN lost = D /\ \A i \in D : lost[i] = pending[i]
  BY DEF PendingMutations
<1>2. uncertain' = Extended(uncertain, lost)  BY DEF FailPending
<1>3. DOMAIN pending' = DOMAIN pending \ ids  BY DEF FailPending
<1>d. \A i \in DOMAIN pending : i \in ids /\ pending[i] \in Mutation => i \in D
  BY DEF PendingMutations
<1>e. D \subseteq ids  OBVIOUS
<1> HIDE DEF D, lost
<1>4. DOMAIN uncertain \intersect DOMAIN lost = {}  BY <1>1 DEF Uncertainties
<1>5. DOMAIN uncertain' = DOMAIN uncertain \union D  BY <1>1, <1>2, ExtendedFacts
<1>6. Range(uncertain) \union Range(lost) \subseteq Range(uncertain')
  BY <1>2, <1>4, ExtendedRange
<1>7. ASSUME NEW r \in Mutation, call'[r] = "failed"
      PROVE  r \in reconciled' \/ r \in Range(uncertain')
  <2>1. r \in Request  BY SessionAssumption DEF Request
  <2>2. CASE \E i \in ids \intersect DOMAIN pending : pending[i] = r
    <3>1. PICK i \in ids \intersect DOMAIN pending : pending[i] = r  BY <2>2
    <3>2. i \in D  BY <1>d, <3>1
    <3>3. r \in Range(lost)  BY <1>1, <3>1, <3>2 DEF Range
    <3> QED BY <1>6, <3>3
  <2>3. CASE ~\E i \in ids \intersect DOMAIN pending : pending[i] = r
    <3>1. call[r] = "failed"  BY <1>7, <2>1, <2>3 DEF FailPending
    <3> QED BY <1>6, <3>1 DEF Uncertainties, NoMutationForgotten
  <2> QED BY <2>2, <2>3
<1> QED BY <1>1, <1>3, <1>5, <1>7, <1>e DEF Uncertainties, NoMutationForgotten

\* Handlers that fail nobody and release nothing.
LEMMA UncertainKept ==
    ASSUME Uncertainties, uncertain' = uncertain, reconciled' = reconciled,
           DOMAIN pending' \subseteq DOMAIN pending,
           \A r \in Mutation : call'[r] = "failed" => call[r] = "failed",
           phase' = "stopped" \/ phase # "stopped"
    PROVE  Uncertainties'
  BY DEF Uncertainties, NoMutationForgotten

LEMMA StoppedForgets == ASSUME Stopped PROVE Uncertainties'
  BY DEF Stopped, Uncertainties, NoMutationForgotten, EmptyMap

LEMMA OpenReplacementForgets ==
    ASSUME Uncertainties, OpenReplacement, phase # "stopped"
    PROVE  Uncertainties'
  BY UncertainKept, StoppedForgets DEF OpenReplacement

LEMMA SubmitForgets ==
    ASSUME Typed, Uncertainties, NEW r \in Request, NEW i \in Id, Submit(r, i)
    PROVE  Uncertainties'
<1>0. /\ i \notin DOMAIN pending /\ i \notin DOMAIN uncertain
      /\ phase # "stopped" /\ reconciled' = reconciled
  BY DEF Submit, FreshId, Typed, PendingUsed, Connected, Serving
<1>1. CASE /\ pending' = Extended(pending, Entry(i, r))
           /\ call' = [call EXCEPT ![r] = "waiting"] /\ UNCHANGED <<connVars, uncertain>>
  <2>1. DOMAIN pending' = DOMAIN pending \union {i}  BY <1>1, ExtendedFacts DEF Entry
  <2>2. \A q \in Mutation : call'[q] = "failed" => call[q] = "failed"
    BY <1>1 DEF Typed, RequestType
  <2> QED BY <1>0, <1>1, <2>1, <2>2 DEF Uncertainties, NoMutationForgotten, connVars
<1>2. CASE /\ pending' = EmptyMap
           /\ uncertain' = Extended(uncertain,
                 [j \in PendingMutations \union (IF r \in Mutation THEN {i} ELSE {})
                    |-> IF j = i THEN r ELSE pending[j]])
           /\ call' = [q \in Request |->
                        IF q = r \/ q \in Range(pending) THEN "failed" ELSE call[q]]
  <2> DEFINE D == PendingMutations \union (IF r \in Mutation THEN {i} ELSE {})
             lost == [j \in D |-> IF j = i THEN r ELSE pending[j]]
  <2>1. /\ DOMAIN lost = D /\ D \subseteq DOMAIN pending \union {i}
        /\ \A j \in D : lost[j] = IF j = i THEN r ELSE pending[j]
        /\ r \in Mutation => i \in D
        /\ \A j \in DOMAIN pending : pending[j] \in Mutation => j \in D
    BY DEF PendingMutations
  <2>2. uncertain' = Extended(uncertain, lost)  BY <1>2
  <2> HIDE DEF D, lost
  <2>3. DOMAIN uncertain \intersect DOMAIN lost = {}  BY <1>0, <2>1 DEF Uncertainties
  <2>4. Range(uncertain) \union Range(lost) \subseteq Range(uncertain')
    BY <2>2, <2>3, ExtendedRange
  <2>5. ASSUME NEW q \in Mutation, call'[q] = "failed"
        PROVE  q \in reconciled' \/ q \in Range(uncertain')
    <3>1. q \in Request  BY SessionAssumption DEF Request
    <3>2. CASE q = r
      <4>1. q \in Range(lost)  BY <2>1, <3>2 DEF Range
      <4> QED BY <2>4, <4>1
    <3>3. CASE q \in Range(pending)
      <4>1. PICK j \in DOMAIN pending : pending[j] = q  BY <3>3 DEF Range
      <4>2. j \in D /\ lost[j] = q  BY <1>0, <2>1, <4>1
      <4>3. q \in Range(lost)  BY <2>1, <4>2 DEF Range
      <4> QED BY <2>4, <4>3
    <3>4. CASE q # r /\ q \notin Range(pending)
      <4>1. call[q] = "failed"  BY <1>2, <2>5, <3>1, <3>4
      <4> QED BY <1>0, <2>4, <4>1 DEF Uncertainties, NoMutationForgotten
    <3> QED BY <3>2, <3>3, <3>4
  <2>6. DOMAIN pending' = {}  BY <1>2 DEF EmptyMap
  <2> QED BY <2>5, <2>6 DEF Uncertainties, NoMutationForgotten
<1> QED BY <1>1, <1>2 DEF Submit

LEMMA ReconcileForgets ==
    ASSUME Typed, Uncertainties, NEW i \in Id, Reconcile(i)
    PROVE  Uncertainties'
<1>1. /\ uncertain' = Without(uncertain, i) /\ i \in DOMAIN uncertain
      /\ reconciled' = reconciled \union {uncertain[i]}
      /\ UNCHANGED <<pending, call, phase>>
  BY DEF Reconcile, connVars
<1>2. DOMAIN uncertain' = DOMAIN uncertain \ {i}  BY <1>1 DEF Without
<1>3. \A j \in DOMAIN uncertain \ {i} : uncertain'[j] = uncertain[j]
  BY <1>1 DEF Without
<1>4. Range(uncertain) \subseteq Range(uncertain') \union {uncertain[i]}
  BY <1>2, <1>3 DEF Range
<1> QED BY <1>1, <1>2, <1>4 DEF Uncertainties, NoMutationForgotten

LEMMA UncertaintiesStep == Typed /\ Ending /\ Uncertainties /\ [Next]_vars => Uncertainties'
<1> SUFFICES ASSUME Typed, Ending, Uncertainties, [Next]_vars PROVE Uncertainties'
  OBVIOUS
<1>q. UNCHANGED <<phase, pending, uncertain, call, reconciled>> => Uncertainties'
  BY DEF Uncertainties, NoMutationForgotten
<1>d. ASSUME NEW ids, FailPending(ids), UNCHANGED reconciled, phase # "stopped"
      PROVE  Uncertainties'
  BY <1>d, FailPendingKeeps
<1>b. \A next : BeginDisconnect(next) /\ phase # "stopped" => Uncertainties'
  BY <1>d DEF BeginDisconnect, Disconnecting
<1>0. CASE UNCHANGED vars
  BY <1>0, <1>q DEF vars, sessionVars, connVars, requestVars
<1>1. CASE Closed
  <2>0. phase # "stopped"  BY <1>1 DEF Closed, Typed, ClosingType
  <2>1. CASE OpenReplacement  BY <2>0, <2>1, OpenReplacementForgets
  <2>2. CASE Stopped  BY <2>2, StoppedForgets
  <2>3. CASE UNCHANGED <<pending, uncertain, call, reconciled>>
    BY <2>0, <2>3, UncertainKept
  <2> QED BY <1>1, <2>1, <2>2, <2>3 DEF Closed
<1>2. CASE Reconnect
  BY <1>2, <1>b, OpenReplacementForgets DEF Reconnect, Serving
<1>3. CASE Close \/ OwnerDown  BY <1>3, <1>b, StoppedForgets DEF Close, OwnerDown, Serving
<1>4. CASE ConnectionLost  BY <1>4, <1>b DEF ConnectionLost, Connected, Serving
<1>5. CASE SessionKilled  BY <1>5, StoppedForgets DEF SessionKilled
<1>6. CASE Initialize \/ InitializeAnswered
  BY <1>6, UncertainKept
     DEF Initialize, InitializeAnswered, Connected, Serving, requestVars
<1>7. CASE (\E g \in Generation : ShutDown(g)) \/ ProcessNext
  BY <1>7, <1>q DEF ShutDown, ProcessNext, sessionVars, connVars, requestVars
<1>8. ASSUME NEW g \in Generation, ReceiveExit(g) PROVE Uncertainties'
  BY <1>8, <1>d, <1>q DEF ReceiveExit, Disconnecting, Serving, connVars
<1>9. ASSUME NEW r \in Request, NEW i \in Id, Submit(r, i) PROVE Uncertainties'
  BY <1>9, SubmitForgets
<1>10. ASSUME NEW r \in Request, NEW i \in Id, HandleDeadline(i, r) PROVE Uncertainties'
  BY <1>10, <1>d, <1>q DEF HandleDeadline, Serving, connVars
<1>11. CASE \E m \in upstream : Answer(m)
  BY <1>11, <1>q DEF Answer, connVars, requestVars
<1>12. ASSUME NEW m \in replies, Receive(m) PROVE Uncertainties'
  <2>1. CASE UNCHANGED <<pending, uncertain, call>>
    BY <1>12, <2>1, <1>q DEF Receive, connVars
  <2>2. CASE FailPending({m.id})  BY <1>12, <2>2, <1>d DEF Receive, Serving
  <2>3. CASE Settle(m.id, m.req) /\ UNCHANGED uncertain
    <3>1. \A r \in Mutation : call'[r] = "failed" => call[r] = "failed"
      BY <2>3, SessionAssumption DEF Settle, Typed, RequestType, Request
    <3>2. DOMAIN pending' \subseteq DOMAIN pending  BY <2>3 DEF Settle, Without
    <3> QED BY <1>12, <2>3, <3>1, <3>2, UncertainKept DEF Receive, Serving
  <2> QED BY <1>12, <2>1, <2>2, <2>3 DEF Receive
<1>13. CASE \E i \in Id : TimerFires(i)  BY <1>13, <1>q DEF TimerFires, connVars
<1>14. CASE \E i \in Id : Abandon(i)  BY <1>14, <1>d DEF Abandon, Serving
<1>15. ASSUME NEW i \in Id, Reconcile(i) PROVE Uncertainties'  BY <1>15, ReconcileForgets
<1>16. ASSUME NEW p \in Prompt, PromptArrives(p) \/ Respond(p) \/ HandlePromptDeadline(p)
       PROVE  Uncertainties'
  <2>1. /\ phase # "stopped" /\ reconciled' = reconciled
        /\ Disconnecting("stay") \/ UNCHANGED <<connVars, pending, uncertain, call>>
    BY <1>16 DEF PromptArrives, Respond, HandlePromptDeadline, Connected, Serving
  <2> QED BY <2>1, <1>d, <1>q DEF Disconnecting, connVars
<1>17. CASE \E p \in Prompt :
              PromptTimerFires(p) \/ PromptResolved(p) \/ AcknowledgeOutcome(p)
  BY <1>17, <1>q
     DEF PromptTimerFires, PromptResolved, AcknowledgeOutcome, connVars, requestVars
<1> QED BY <1>0, <1>1, <1>2, <1>3, <1>4, <1>5, <1>6, <1>7, <1>8, <1>9, <1>10, <1>11,
           <1>12, <1>13, <1>14, <1>15, <1>16, <1>17 DEF Next, SessionStep

\* session.ex:1020-1047: a mutation that failed stays uncertain, across every
\* way of losing the connection, until it is reconciled.
THEOREM MutationsRemembered == Spec => []NoMutationForgotten
<1>1. Init => Uncertainties
  BY SessionAssumption DEF Init, Uncertainties, NoMutationForgotten, EmptyMap, Request
<1>2. Uncertainties => NoMutationForgotten  BY DEF Uncertainties
<1>3. Trees => Ending  BY DEF Trees
<1> QED BY <1>1, <1>2, <1>3, UncertaintiesStep, TreesHold, TypedHolds, PTL DEF Spec

-----------------------------------------------------------------------------
(* Answers of the upstream *)

Messages == upstream \union replies

\* What is in flight for the connection was sent under one of its ids, and
\* nothing else is pending under that id.
InFlight ==
    \A m \in Messages :
        /\ m.gen \in Generation /\ m.gen <= generation
        /\ m.gen = connection =>
             /\ m.id \in used
             /\ m.id \in DOMAIN pending => pending[m.id] = m.req

Matching == InFlight /\ AnswersMatch

\* Handlers that add nothing to what is in flight and settle nothing.
LEMMA NothingSent ==
    ASSUME Matching, Messages' \subseteq Messages, UNCHANGED <<connection, generation>>,
           used \subseteq used', DOMAIN pending' \subseteq DOMAIN pending,
           \A i \in DOMAIN pending' : pending'[i] = pending[i],
           \A r \in Request : call'[r] = "misled" => call[r] = "misled"
    PROVE  Matching'
  BY DEF Matching, InFlight, AnswersMatch

LEMMA FailingMisleadsNobody ==
    ASSUME NEW ids, FailPending(ids)
    PROVE  /\ DOMAIN pending' \subseteq DOMAIN pending
           /\ \A i \in DOMAIN pending' : pending'[i] = pending[i]
           /\ \A r \in Request : call'[r] = "misled" => call[r] = "misled"
  BY DEF FailPending

LEMMA StoppedMatches == ASSUME Matching, Stopped PROVE Matching'
  BY DEF Stopped, Matching, InFlight, AnswersMatch, Messages

LEMMA DisconnectedMatches ==
    ASSUME Matching, \E next : Disconnecting(next), UNCHANGED <<used, replies>>
    PROVE  Matching'
<1>1. PICK next : FailPending(DOMAIN pending) /\ Drops(next)  BY DEF Disconnecting
<1>2. Messages' \subseteq Messages /\ UNCHANGED <<connection, generation>>
  BY <1>1 DEF Drops, Messages
<1> QED BY <1>1, <1>2, FailingMisleadsNobody, NothingSent

LEMMA ReopenedMatches ==
    ASSUME Typed, Matching, Reopened, UNCHANGED <<pending, call, wireVars>>
    PROVE  Matching'
<1>1. generation \in Nat /\ connection' = generation + 1 /\ generation' = generation + 1
  BY GenerationFacts DEF Reopened, Typed, ConnectionType
<1>2. Messages' = Messages  BY DEF Messages, wireVars
<1>3. \A m \in Messages : m.gen \in Nat /\ m.gen <= generation
  BY GenerationFacts DEF Matching, InFlight
<1>4. \A m \in Messages : m.gen <= generation' /\ m.gen # connection'
  BY <1>1, <1>3
<1> QED BY <1>2, <1>4 DEF Matching, InFlight, AnswersMatch

LEMMA ConnectionlessMatches ==
    ASSUME Matching, connection' = 0, generation' = generation,
           UNCHANGED <<pending, call, wireVars>>
    PROVE  Matching'
<1>1. Messages' = Messages  BY DEF Messages, wireVars
<1> QED BY <1>1, GenerationFacts DEF Matching, InFlight, AnswersMatch

LEMMA OpenReplacementMatches ==
    ASSUME Typed, Matching, OpenReplacement PROVE Matching'
  BY StoppedMatches, ReopenedMatches, ConnectionlessMatches
     DEF OpenReplacement, Connectionless

LEMMA SubmitMatches ==
    ASSUME Typed, Matching, NEW r \in Request, NEW i \in Id, Submit(r, i),
           connection <= generation
    PROVE  Matching'
<1>0. /\ i \notin used /\ i \notin DOMAIN pending /\ used' = used \union {i}
      /\ UNCHANGED <<connection, generation, replies>>
  BY DEF Submit, FreshId, Typed, PendingUsed, Drops, connVars
<1>1. CASE /\ pending' = Extended(pending, Entry(i, r))
           /\ call' = [call EXCEPT ![r] = "waiting"]
           /\ upstream' = upstream \union {[gen |-> connection, id |-> i, req |-> r]}
  <2> DEFINE new == [gen |-> connection, id |-> i, req |-> r]
  <2>1. DOMAIN pending' = DOMAIN pending \union {i}  BY <1>1, ExtendedFacts DEF Entry
  <2>2. pending'[i] = r /\ \A j \in DOMAIN pending : pending'[j] = pending[j]
    <3>1. DOMAIN Entry(i, r) = {i} /\ Entry(i, r)[i] = r  BY DEF Entry
    <3>2. pending' = Extended(pending, Entry(i, r))  BY <1>1
    <3>3. i \in DOMAIN Entry(i, r)  BY <3>1
    <3>4. pending'[i] = r  BY <3>1, <3>2, <3>3 DEF Extended
    <3>5. ASSUME NEW j \in DOMAIN pending PROVE pending'[j] = pending[j]
      <4>1. j \notin DOMAIN Entry(i, r)  BY <1>0, <3>1
      <4> QED BY <3>2, <4>1 DEF Extended
    <3> QED BY <3>4, <3>5
  <2>3. Messages' = Messages \union {new}  BY <1>0, <1>1 DEF Messages
  <2>4. new.gen = connection /\ new.id = i /\ new.req = r  OBVIOUS
  <2>5. connection \in Generation  BY DEF Submit, Connected, Typed, ConnectionType
  <2> HIDE DEF new
  <2>6. InFlight'
    <3> SUFFICES ASSUME NEW m \in Messages'
                 PROVE  /\ m.gen \in Generation /\ m.gen <= generation'
                        /\ m.gen = connection' =>
                             /\ m.id \in used'
                             /\ m.id \in DOMAIN pending' => pending'[m.id] = m.req
      BY DEF InFlight
    <3>1. CASE m = new  BY <1>0, <1>1, <2>1, <2>2, <2>4, <2>5, <3>1
    <3>2. CASE m \in Messages
      <4>1. m.gen = connection => m.id \in used /\ m.id # i
        BY <1>0, <3>2 DEF Matching, InFlight
      <4> QED BY <1>0, <2>1, <2>2, <3>2, <4>1 DEF Matching, InFlight
    <3> QED BY <2>3, <3>1, <3>2
  <2>7. AnswersMatch'  BY <1>1 DEF Typed, RequestType, Matching, AnswersMatch
  <2> QED BY <2>6, <2>7 DEF Matching
<1>2. CASE /\ pending' = EmptyMap /\ Drops("stay")
           /\ call' = [q \in Request |->
                        IF q = r \/ q \in Range(pending) THEN "failed" ELSE call[q]]
  <2>1. Messages' \subseteq Messages  BY <1>0, <1>2 DEF Messages, Drops
  <2> QED BY <1>0, <1>2, <2>1, NothingSent DEF EmptyMap
<1> QED BY <1>1, <1>2 DEF Submit

LEMMA ReceiveMatches ==
    ASSUME Typed, Matching, NEW m \in replies, Receive(m)
    PROVE  Matching'
<1>0. /\ UNCHANGED <<connection, generation, used>> /\ Messages' \subseteq Messages
  BY DEF Receive, connVars, Messages
<1>1. CASE UNCHANGED <<pending, call>>  BY <1>0, <1>1, NothingSent
<1>2. CASE FailPending({m.id})  BY <1>0, <1>2, FailingMisleadsNobody, NothingSent
<1>3. CASE Current(m.gen) /\ m.id \in DOMAIN pending /\ Settle(m.id, m.req)
  <2>1. pending[m.id] = m.req  BY <1>3 DEF Current, Matching, InFlight, Messages
  <2>2. call' = [call EXCEPT ![pending[m.id]] = "answered"]  BY <1>3, <2>1 DEF Settle
  <2>3. \A r \in Request : call'[r] = "misled" => call[r] = "misled"
    BY <2>2 DEF Typed, RequestType
  <2>4. /\ DOMAIN pending' \subseteq DOMAIN pending
        /\ \A i \in DOMAIN pending' : pending'[i] = pending[i]
    BY <1>3 DEF Settle, Without
  <2> QED BY <1>0, <2>3, <2>4, NothingSent
<1> QED BY <1>1, <1>2, <1>3 DEF Receive

LEMMA AnswerMatches ==
    ASSUME Matching, NEW m \in upstream, Answer(m)
    PROVE  Matching'
<1>1. PICK kind \in {"result", "error", "drift"} :
        replies' = replies \union
             {[gen |-> m.gen, id |-> m.id, req |-> m.req, kind |-> kind]}
  BY DEF Answer
<1> DEFINE reply == [gen |-> m.gen, id |-> m.id, req |-> m.req, kind |-> kind]
<1>2. reply.gen = m.gen /\ reply.id = m.id /\ reply.req = m.req  OBVIOUS
<1>3. replies' = replies \union {reply} /\ upstream' \subseteq upstream
  BY <1>1 DEF Answer
<1> HIDE DEF reply
<1>4. Messages' \subseteq Messages \union {reply} /\ m \in Messages
  BY <1>3 DEF Messages
<1>5. UNCHANGED <<connection, generation, used, pending, call>>
  BY DEF Answer, connVars, requestVars
<1> QED BY <1>2, <1>4, <1>5 DEF Matching, InFlight, AnswersMatch

LEMMA MatchingStep == Typed /\ Trees /\ Matching /\ [Next]_vars => Matching'
<1> SUFFICES ASSUME Typed, Trees, Matching, [Next]_vars PROVE Matching'  OBVIOUS
<1>q. UNCHANGED <<connection, generation, used, pending, call, upstream, replies>>
        => Matching'
  BY NothingSent DEF Messages
<1>d. ASSUME NEW ids, FailPending(ids), UNCHANGED <<connVars, used, wireVars>>
      PROVE  Matching'
  BY <1>d, FailingMisleadsNobody, NothingSent DEF connVars, wireVars, Messages
<1>b. \A next : BeginDisconnect(next) => Matching'
  BY DisconnectedMatches DEF BeginDisconnect
<1>0. CASE UNCHANGED vars
  BY <1>0, <1>q DEF vars, sessionVars, connVars, requestVars, wireVars
<1>1. CASE Closed
  BY <1>1, OpenReplacementMatches, StoppedMatches, ConnectionlessMatches
     DEF Closed, Connectionless
<1>2. CASE Reconnect  BY <1>2, <1>b, OpenReplacementMatches DEF Reconnect
<1>3. CASE Close \/ OwnerDown  BY <1>3, <1>b, StoppedMatches DEF Close, OwnerDown
<1>4. CASE ConnectionLost  BY <1>4, <1>b DEF ConnectionLost
<1>5. CASE SessionKilled  BY <1>5, StoppedMatches DEF SessionKilled
<1>6. CASE Initialize \/ InitializeAnswered
  BY <1>6, <1>q DEF Initialize, InitializeAnswered, requestVars, wireVars
<1>7. CASE (\E g \in Generation : ShutDown(g)) \/ ProcessNext
  BY <1>7, <1>q DEF ShutDown, ProcessNext, sessionVars, connVars, requestVars, wireVars
<1>8. ASSUME NEW g \in Generation, ReceiveExit(g) PROVE Matching'
  BY <1>8, <1>q, DisconnectedMatches DEF ReceiveExit, connVars
<1>9. ASSUME NEW r \in Request, NEW i \in Id, Submit(r, i) PROVE Matching'
  <2>1. connection <= generation
    BY <1>9, GenerationFacts
       DEF Submit, Connected, Serving, Typed, ConnectionType, Trees, Succession
  <2> QED BY <1>9, <2>1, SubmitMatches
<1>10. ASSUME NEW r \in Request, NEW i \in Id, HandleDeadline(i, r) PROVE Matching'
  BY <1>10, <1>d, <1>q DEF HandleDeadline, connVars, wireVars
<1>11. ASSUME NEW m \in upstream, Answer(m) PROVE Matching'  BY <1>11, AnswerMatches
<1>12. ASSUME NEW m \in replies, Receive(m) PROVE Matching'  BY <1>12, ReceiveMatches
<1>13. CASE \E i \in Id : TimerFires(i)  BY <1>13, <1>q DEF TimerFires, connVars, wireVars
<1>14. CASE \E i \in Id : Abandon(i)  BY <1>14, <1>d DEF Abandon
<1>15. CASE \E i \in Id : Reconcile(i)  BY <1>15, <1>q DEF Reconcile, connVars, wireVars
<1>16. ASSUME NEW p \in Prompt, PromptArrives(p) \/ Respond(p) \/ HandlePromptDeadline(p)
       PROVE  Matching'
  <2>1. /\ UNCHANGED <<used, replies>>
        /\ Disconnecting("stay") \/ UNCHANGED <<connVars, pending, call, upstream>>
    BY <1>16 DEF PromptArrives, Respond, HandlePromptDeadline
  <2> QED BY <2>1, <1>q, DisconnectedMatches DEF connVars
<1>17. CASE \E p \in Prompt :
              PromptTimerFires(p) \/ PromptResolved(p) \/ AcknowledgeOutcome(p)
  BY <1>17, <1>q
     DEF PromptTimerFires, PromptResolved, AcknowledgeOutcome, connVars, requestVars, wireVars
<1> QED BY <1>0, <1>1, <1>2, <1>3, <1>4, <1>5, <1>6, <1>7, <1>8, <1>9, <1>10, <1>11,
           <1>12, <1>13, <1>14, <1>15, <1>16, <1>17 DEF Next, SessionStep

\* session.ex:558-568 and 731-750: whatever ids callers choose, reuse after a
\* reconnect and hear of late, each gets the answer to its own request.
THEOREM AnswersReachTheirCallers == Spec => []AnswersMatch
<1>1. Init => Matching
  BY DEF Init, Matching, InFlight, Messages, AnswersMatch
<1>2. Matching => AnswersMatch  BY DEF Matching
<1> QED BY <1>1, <1>2, MatchingStep, TreesHold, TypedHolds, PTL DEF Spec

-----------------------------------------------------------------------------
(* Prompts of the upstream *)

\* A prompt nobody has asked or that still waits has no answer; one that has
\* an answer has one, under its own handle.
Prompting ==
    /\ \A p \in Prompt :
         /\ asked[p] = 0 => replied[p] = {}
         /\ replied[p] = {} \/ \E how : replied[p] = {<<how, p>>}
    /\ held # 0 => asked[held] # 0 /\ replied[held] = {}

LEMMA PromptingAnswersOnce == Prompting => PromptAnsweredOnce
<1> SUFFICES ASSUME Prompting, NEW p \in Prompt
             PROVE  /\ Cardinality(replied[p]) <= 1
                    /\ \A answer \in replied[p] : answer[2] = p
  BY DEF PromptAnsweredOnce
<1>1. CASE replied[p] = {}  BY <1>1, FS_EmptySet
<1>2. CASE \E how : replied[p] = {<<how, p>>}
  <2>1. PICK how : replied[p] = {<<how, p>>}  BY <1>2
  <2>2. Cardinality(replied[p]) = 1  BY <2>1, FS_Singleton
  <2> QED BY <2>1, <2>2
<1> QED BY <1>1, <1>2 DEF Prompting

LEMMA PromptKept ==
    ASSUME Prompting, UNCHANGED <<asked, replied>>, held' \in {held, 0}
    PROVE  Prompting'
  BY DEF Prompting

\* Writing to the prompt that is held gives it up.
LEMMA PromptWritten ==
    ASSUME Typed, Prompting, NEW p \in Prompt, NEW how, Held(p), Write(how, p),
           held' = 0, asked' = asked
    PROVE  Prompting'
<1>1. replied' = [replied EXCEPT ![p] = replied[p] \union {<<how, p>>}]
  BY DEF Held, Write
<1>2. asked[p] # 0 /\ replied[p] = {}  BY GenerationFacts DEF Held, Prompting
<1>3. replied'[p] = {<<how, p>>}  BY <1>1, <1>2 DEF Typed, PromptType
<1>4. \A q \in Prompt : q # p => replied'[q] = replied[q]
  BY <1>1 DEF Typed, PromptType
<1> QED BY <1>2, <1>3, <1>4 DEF Prompting

LEMMA PromptArrivesKeeps ==
    ASSUME Typed, Prompting, NEW p \in Prompt, PromptArrives(p)
    PROVE  Prompting'
<1>1. /\ asked[p] = 0 /\ asked' = [asked EXCEPT ![p] = connection] /\ connection # 0
      /\ replied[p] = {}
  BY DEF PromptArrives, NextPrompt, Prompt, Connected, Prompting
<1>2. \A q \in Prompt : asked'[q] = IF q = p THEN connection ELSE asked[q]
  BY <1>1 DEF Typed, PromptType
<1>3. CASE held' \in {0, p} /\ replied' = replied  BY <1>1, <1>2, <1>3 DEF Prompting
<1>4. CASE /\ held' = held /\ held = 0
           /\ replied' = [replied EXCEPT ![p] = replied[p] \union {<<"rejection", p>>}]
  <2>1. replied'[p] = {<<"rejection", p>>}  BY <1>1, <1>4 DEF Typed, PromptType
  <2>2. \A q \in Prompt : q # p => replied'[q] = replied[q]
    BY <1>4 DEF Typed, PromptType
  <2> QED BY <1>1, <1>2, <1>4, <2>1, <2>2 DEF Prompting
<1> QED BY <1>3, <1>4 DEF PromptArrives, Disconnecting, Drops

LEMMA PromptingStep == Typed /\ Prompting /\ [Next]_vars => Prompting'
<1> SUFFICES ASSUME Typed, Prompting, [Next]_vars PROVE Prompting'  OBVIOUS
<1>b. \A next : BeginDisconnect(next) => Prompting'
  BY PromptKept DEF BeginDisconnect, Disconnecting, Drops
<1>s. Stopped => Prompting'  BY PromptKept DEF Stopped
<1>o. OpenReplacement => Prompting'  BY <1>s, PromptKept DEF OpenReplacement
<1>0. CASE UNCHANGED vars  BY <1>0, PromptKept DEF vars, sessionVars, promptVars
<1>1. CASE Closed  BY <1>1, <1>s, <1>o, PromptKept DEF Closed
<1>2. CASE Reconnect  BY <1>2, <1>b, <1>o DEF Reconnect
<1>3. CASE Close \/ OwnerDown  BY <1>3, <1>b, <1>s DEF Close, OwnerDown
<1>4. CASE ConnectionLost  BY <1>4, <1>b DEF ConnectionLost
<1>5. CASE SessionKilled  BY <1>5, <1>s DEF SessionKilled
<1>6. CASE Initialize \/ InitializeAnswered
  BY <1>6, PromptKept DEF Initialize, InitializeAnswered, promptVars
<1>7. CASE (\E g \in Generation : ShutDown(g)) \/ ProcessNext
  BY <1>7, PromptKept DEF ShutDown, ProcessNext, sessionVars, promptVars
<1>8. CASE \E g \in Generation : ReceiveExit(g)
  BY <1>8, PromptKept DEF ReceiveExit, Disconnecting, Drops
<1>9. CASE \E r \in Request, i \in Id : Submit(r, i) \/ HandleDeadline(i, r)
  BY <1>9, PromptKept DEF Submit, HandleDeadline, Drops, promptVars
<1>10. CASE (\E m \in upstream : Answer(m)) \/ (\E m \in replies : Receive(m))
  BY <1>10, PromptKept DEF Answer, Receive, promptVars
<1>11. CASE \E i \in Id : TimerFires(i) \/ Abandon(i) \/ Reconcile(i)
  BY <1>11, PromptKept DEF TimerFires, Abandon, Reconcile, promptVars
<1>12. ASSUME NEW p \in Prompt, PromptArrives(p) PROVE Prompting'
  BY <1>12, PromptArrivesKeeps
<1>13. ASSUME NEW p \in Prompt, Respond(p) PROVE Prompting'
  <2>1. CASE Write("answer", p) /\ held' = 0
    BY <1>13, <2>1, PromptWritten DEF Respond
  <2>2. CASE Disconnecting("stay") /\ UNCHANGED replied
    BY <1>13, <2>2, PromptKept DEF Respond, Disconnecting, Drops
  <2> QED BY <1>13, <2>1, <2>2 DEF Respond
<1>14. ASSUME NEW p \in Prompt, HandlePromptDeadline(p) PROVE Prompting'
  <2>1. CASE Held(p) /\ Write("expiry", p) /\ held' = 0
    BY <1>14, <2>1, PromptWritten DEF HandlePromptDeadline
  <2>2. CASE replied' = replied /\ held' \in {held, 0}
    BY <1>14, <2>2, PromptKept DEF HandlePromptDeadline
  <2> QED BY <1>14, <2>1, <2>2 DEF HandlePromptDeadline, Disconnecting, Drops
<1>15. CASE \E p \in Prompt :
              PromptTimerFires(p) \/ PromptResolved(p) \/ AcknowledgeOutcome(p)
  BY <1>15, PromptKept DEF PromptTimerFires, PromptResolved, AcknowledgeOutcome
<1> QED BY <1>0, <1>1, <1>2, <1>3, <1>4, <1>5, <1>6, <1>7, <1>8, <1>9, <1>10, <1>11,
           <1>12, <1>13, <1>14, <1>15 DEF Next, SessionStep

\* session.ex:868-921 and 340-362: a prompt gets one answer at most, its own,
\* although its wire id is that of every other prompt.
THEOREM PromptsAnsweredOnce == Spec => []PromptAnsweredOnce
<1>1. Init => Prompting
  BY DEF Init, Prompting
<1> QED BY <1>1, PromptingStep, PromptingAnswersOnce, TypedHolds, PTL DEF Spec
=============================================================================
