-------------------------- MODULE HubProtocolProofs --------------------------
(***************************************************************************)
(* The Hub protocol's client, its transport, host and owner, for any       *)
(* number of commands, events, ids and faults, any retention and page, and *)
(* any limits of the client: state is well typed, nothing is forwarded out *)
(* of order or skipped, no command is done twice, no outcome is lost and   *)
(* no caller is forgotten.                                                 *)
(***************************************************************************)
EXTENDS HubProtocol, FiniteSetTheorems, SequenceTheorems, TLAPS

LEMMA CallFacts ==
    ASSUME NEW call \in Calls
    PROVE  /\ call.kind \in {"initialize", "attach", "resume", "mutate"}
           /\ call.kind = "resume" => call.arg \in Cursor
           /\ call.kind = "mutate" => call.arg \in Command
           /\ \A c : call = Call("mutate", c) <=> call.kind = "mutate" /\ call.arg = c
  BY DEF Calls, Call, Cursor

LEMMA MessageFacts ==
    ASSUME NEW m \in Answer \union Live
    PROVE  /\ m.kind \in {"reply", "live"}
           /\ m.kind = "reply" => /\ m \in Answer /\ m.id \in Id /\ m.gap \in Cursor
                                  /\ m.outcome \in Outcome
           /\ m.from \in Nat /\ m.last \in Cursor
  BY ProtocolAssumption DEF Answer, Live, Cursor

LEMMA TakeFirst ==
    ASSUME NEW S, NEW s \in Seq(S), s # <<>>
    PROVE  /\ Head(s) \in S /\ Tail(s) \in Seq(S) /\ Len(s) \in Nat \ {0}
           /\ Head(s) = s[1] /\ Len(Tail(s)) = Len(s) - 1
           /\ \A k \in 1 .. Len(Tail(s)) : Tail(s)[k] = s[k + 1]
           /\ Range(s) = {Head(s)} \union Range(Tail(s))
<1>1. /\ Head(s) \in S /\ Tail(s) \in Seq(S) /\ Len(s) \in Nat \ {0}
      /\ Head(s) = s[1] /\ Len(Tail(s)) = Len(s) - 1
      /\ \A k \in 1 .. Len(Tail(s)) : Tail(s)[k] = s[k + 1]
  OBVIOUS
<1>2. DOMAIN s = 1 .. Len(s) /\ DOMAIN Tail(s) = 1 .. Len(s) - 1
  BY <1>1
<1>3. ASSUME NEW x \in Range(s) PROVE x \in {Head(s)} \union Range(Tail(s))
  <2>1. PICK k \in 1 .. Len(s) : x = s[k]
    BY <1>2, <1>3 DEF Range
  <2>2. CASE k = 1
    BY <2>1, <2>2, <1>1
  <2>3. CASE k # 1
    <3>1. k - 1 \in 1 .. Len(Tail(s)) /\ Tail(s)[k - 1] = s[k]
      BY <2>1, <2>3, <1>1
    <3> QED BY <3>1, <2>1, <1>1, <1>2 DEF Range
  <2> QED BY <2>2, <2>3
<1>4. ASSUME NEW x \in {Head(s)} \union Range(Tail(s)) PROVE x \in Range(s)
  <2>1. CASE x = Head(s)
    BY <2>1, <1>1, <1>2 DEF Range
  <2>2. CASE x \in Range(Tail(s))
    <3>1. PICK k \in 1 .. Len(Tail(s)) : x = Tail(s)[k]
      BY <2>2, <1>1, <1>2 DEF Range
    <3>2. k + 1 \in 1 .. Len(s) /\ x = s[k + 1]
      BY <3>1, <1>1
    <3> QED BY <3>2, <1>2 DEF Range
  <2> QED BY <1>4, <2>1, <2>2
<1> QED BY <1>1, <1>3, <1>4

LEMMA PutLast ==
    ASSUME NEW S, NEW s \in Seq(S), NEW e \in S
    PROVE  /\ Append(s, e) \in Seq(S)
           /\ Len(s) \in Nat /\ Len(Append(s, e)) = Len(s) + 1
           /\ \A k \in 1 .. Len(s) : Append(s, e)[k] = s[k]
           /\ Append(s, e)[Len(s) + 1] = e
           /\ Range(Append(s, e)) = Range(s) \union {e}
<1>1. /\ Append(s, e) \in Seq(S)
      /\ Len(s) \in Nat /\ Len(Append(s, e)) = Len(s) + 1
      /\ \A k \in 1 .. Len(s) : Append(s, e)[k] = s[k]
      /\ Append(s, e)[Len(s) + 1] = e
  OBVIOUS
<1>2. DOMAIN s = 1 .. Len(s) /\ DOMAIN Append(s, e) = 1 .. Len(s) + 1
  BY <1>1
<1>3. ASSUME NEW x PROVE x \in Range(Append(s, e)) <=> x \in Range(s) \union {e}
  <2>1. ASSUME x \in Range(Append(s, e)) PROVE x \in Range(s) \union {e}
    <3>1. PICK k \in 1 .. Len(s) + 1 : x = Append(s, e)[k]
      BY <2>1, <1>2 DEF Range
    <3>2. CASE k = Len(s) + 1
      BY <3>1, <3>2, <1>1
    <3>3. CASE k \in 1 .. Len(s)
      BY <3>1, <3>3, <1>1, <1>2 DEF Range
    <3> QED BY <3>1, <3>2, <3>3, <1>1
  <2>2. ASSUME x \in Range(s) PROVE x \in Range(Append(s, e))
    <3>1. PICK k \in 1 .. Len(s) : x = s[k]
      BY <2>2, <1>2 DEF Range
    <3>2. k \in 1 .. Len(s) + 1
      BY <1>1
    <3> QED BY <3>1, <3>2, <1>1, <1>2 DEF Range
  <2>3. ASSUME x = e PROVE x \in Range(Append(s, e))
    <3>1. Len(s) + 1 \in 1 .. Len(s) + 1
      BY <1>1
    <3> QED BY <2>3, <3>1, <1>1, <1>2 DEF Range
  <2> QED BY <2>1, <2>2, <2>3
<1> QED BY <1>1, <1>3

LEMMA Within ==
    ASSUME NEW S, NEW s \in Seq(S), NEW x \in Range(s)
    PROVE  x \in S
<1>1. DOMAIN s = 1 .. Len(s) /\ \A k \in 1 .. Len(s) : s[k] \in S
  OBVIOUS
<1> QED BY <1>1 DEF Range

-----------------------------------------------------------------------------
(* Order and types *)

\* Handling and acknowledging follow what was delivered.
InOrder == acked <= processed /\ processed <= seen /\ ForwardedInOrder

Sound == TypeOK /\ InOrder

Knowledge == {"none", "waiting", "ambiguous", "failed", "unknown", "done"}

ClientTypes ==
    /\ phase \in {"new", "initializing", "ready", "disconnected"}
    /\ DOMAIN pending \subseteq Id /\ \A i \in DOMAIN pending : pending[i] \in Calls
    /\ uncertain \subseteq Command /\ waiting \subseteq Id
    /\ told \in [Command -> Knowledge]
    /\ open \in BOOLEAN /\ faults \in 0 .. MaxFaults

StreamTypes ==
    /\ {seen, acked, processed, saved, gap} \subseteq Cursor /\ hashes \subseteq 1 .. Last
    /\ mailbox \in Seq(Cursor) /\ handled \subseteq 1 .. Last /\ forgone \subseteq 1 .. Last

WireTypes ==
    /\ up \in Seq([id : Id, call : Calls]) /\ down \in Seq(Answer \union Live)
    /\ notes \in Seq(Cursor) /\ live \in BOOLEAN

HostTypes ==
    /\ oldest \in 1 .. Last + 1 /\ next \in 1 .. Last + 1
    /\ late \subseteq Command /\ executed \in [Command -> Nat]

LEMMA Types ==
    /\ TypeOK <=> ClientTypes /\ StreamTypes /\ WireTypes /\ HostTypes
    /\ TypeOK' <=> ClientTypes' /\ StreamTypes' /\ WireTypes' /\ HostTypes'
<1>1. TypeOK <=> ClientTypes /\ StreamTypes /\ WireTypes /\ HostTypes
  BY DEF TypeOK, ClientTypes, StreamTypes, WireTypes, HostTypes, Knowledge
<1>2. TypeOK' <=> ClientTypes' /\ StreamTypes' /\ WireTypes' /\ HostTypes'
  BY DEF TypeOK, ClientTypes, StreamTypes, WireTypes, HostTypes, Knowledge
<1> QED BY <1>1, <1>2

\* A command is only asked for by an owner that has no outcome of it.
Asking ==
    \E call \in Calls :
        /\ Request(call)
        /\ call.kind = "mutate" => told[call.arg] \in {"none", "ambiguous"}

\* The host answers a request one way or another.
Serving == \E outcome \in Outcome, effect \in BOOLEAN : Serve(outcome, effect)

LEMMA NextCases ==
    ASSUME TypeOK, [Next]_vars
    PROVE  \/ Asking
           \/ \E i \in Id : Expire(i)
           \/ ConnectionLost \/ Reconnect \/ Receive \/ Serving \/ Emit \/ Push
           \/ \E c \in Command : FinishLate(c)
           \/ Process \/ AckCursor \/ Save
           \/ \E c \in Command : ResolveUncertain(c) \/ Reconcile(c)
           \/ Crash \/ AcceptGap
           \/ UNCHANGED vars
<1>1. CASE Initialize \/ Attach
  <2>1. Call("initialize", 0) \in Calls /\ Call("attach", 0) \in Calls
    BY DEF Calls
  <2> QED BY <1>1, <2>1 DEF Initialize, Attach, Asking, Call
<1>2. CASE Resume
  <2>1. PICK cursor \in {acked, seen} : Request(Call("resume", cursor))
    BY <1>2 DEF Resume
  <2>2. Call("resume", cursor) \in Calls
    BY <2>1 DEF Calls, TypeOK, Cursor
  <2> QED BY <2>1, <2>2 DEF Asking, Call
<1>3. ASSUME NEW c \in Command, Mutate(c) PROVE Asking
  <2>1. Call("mutate", c) \in Calls
    BY DEF Calls
  <2> QED BY <1>3, <2>1 DEF Mutate, Asking, Call
<1> QED BY <1>1, <1>2, <1>3 DEF Next, Serving

LEMMA FreshIdFacts ==
    ASSUME NEW call, Request(call)
    PROVE  FreshId \in Id /\ Fresh(FreshId)
  BY DEF Request, FreshId

LEMMA MutationsAre ==
    ASSUME TypeOK, NEW ids \in SUBSET DOMAIN pending
    PROVE  /\ Mutations(ids) \subseteq Command
           /\ \A c : c \in Mutations(ids) <=> \E i \in ids : pending[i] = Call("mutate", c)
<1>1. \A i \in ids : pending[i] \in Calls
  BY DEF TypeOK
<1>2. ASSUME NEW c \in Mutations(ids)
      PROVE  c \in Command /\ \E i \in ids : pending[i] = Call("mutate", c)
  <2>1. PICK i \in ids : pending[i].kind = "mutate" /\ c = pending[i].arg
    BY <1>2 DEF Mutations
  <2> QED BY <1>1, <2>1, CallFacts
<1>3. ASSUME NEW c, NEW i \in ids, pending[i] = Call("mutate", c)
      PROVE  c \in Mutations(ids)
  BY <1>1, <1>3, CallFacts DEF Mutations
<1> QED BY <1>2, <1>3

\* What losing the requests ids leaves.
LEMMA Lost ==
    ASSUME TypeOK, NEW ids \in SUBSET DOMAIN pending, LosePending(ids)
    PROVE  /\ DOMAIN pending' = DOMAIN pending \ ids
           /\ \A i \in DOMAIN pending' : pending'[i] = pending[i]
           /\ uncertain' = uncertain \union Mutations(ids) /\ uncertain' \subseteq Command
           /\ waiting' = waiting \ ids
           /\ told' \in [Command -> Knowledge]
           /\ \A c \in Command : \/ told'[c] = told[c]
                                 \/ c \in Mutations(ids) /\ told'[c] = "ambiguous"
<1>1. /\ DOMAIN pending' = DOMAIN pending \ ids
      /\ \A i \in DOMAIN pending' : pending'[i] = pending[i]
  BY DEF LosePending, Restrict
<1>2. uncertain' = uncertain \union Mutations(ids) /\ waiting' = waiting \ ids
  BY DEF LosePending
<1>3. Mutations(ids) \subseteq Command /\ Mutations(ids \intersect waiting) \subseteq Mutations(ids)
  BY MutationsAre DEF Mutations
<1>4. told' \in [Command -> Knowledge]
  BY DEF LosePending, TypeOK, Knowledge
<1>5. \A c \in Command : \/ told'[c] = told[c]
                         \/ c \in Mutations(ids) /\ told'[c] = "ambiguous"
  BY <1>3 DEF LosePending
<1> QED BY <1>1, <1>2, <1>3, <1>4, <1>5 DEF TypeOK

Safe == TypeOK /\ InOrder /\ CallersAreServed

LEMMA CutOffTypes ==
    ASSUME TypeOK, CutOff
    PROVE  WireTypes' /\ HostTypes' /\ up' = <<>> /\ down' = <<>>
           /\ \A c : c \in late' <=> \/ c \in late
                                     \/ \E m \in Range(up) : m.call = Call("mutate", c)
<1>1. \A m \in Range(up) : m.call \in Calls
  <2>1. up \in Seq([id : Id, call : Calls])
    BY DEF TypeOK
  <2>2. \A m \in Range(up) : m \in [id : Id, call : Calls]
    BY <2>1, Within
  <2> QED BY <2>2
<1>2. \A m \in Range(up) : \A c :
        m.call = Call("mutate", c) <=> m.call.kind = "mutate" /\ m.call.arg = c
  BY <1>1, CallFacts
<1>3. \A c : c \in late' <=> \/ c \in late
                             \/ \E m \in Range(up) : m.call = Call("mutate", c)
  BY <1>2 DEF CutOff
<1>4. late' \subseteq Command
  BY <1>1, CallFacts DEF CutOff, TypeOK
<1>5. up' = <<>> /\ down' = <<>> /\ notes' = <<>>
  BY DEF CutOff
<1>6. \A S : <<>> \in Seq(S)
  OBVIOUS
<1>7. WireTypes'
  BY <1>5, <1>6 DEF CutOff, WireTypes
<1> QED BY <1>3, <1>4, <1>5, <1>7 DEF CutOff, TypeOK, HostTypes

LEMMA DisconnectedFacts ==
    ASSUME Safe, Disconnected, faults' \in 0 .. MaxFaults
    PROVE  /\ ClientTypes' /\ WireTypes' /\ HostTypes' /\ CallersAreServed'
<1>1. DOMAIN pending \in SUBSET DOMAIN pending
  OBVIOUS
<1>2. LosePending(DOMAIN pending) /\ CutOff
  BY DEF Disconnected
<1>3. /\ DOMAIN pending' = {} /\ uncertain' \subseteq Command
      /\ waiting' = waiting \ DOMAIN pending
      /\ told' \in [Command -> Knowledge]
  BY <1>1, <1>2, Lost DEF Safe
<1>4. waiting' = {}
  BY <1>3 DEF Safe, CallersAreServed
<1> QED BY <1>2, <1>3, <1>4, CutOffTypes
        DEF Safe, Disconnected, ClientTypes, Knowledge, CallersAreServed

\* The events in the owner's mailbox are a run of cursors.
Run(a, n) == [k \in 1 .. n |-> a + k]

LEMMA RunFacts ==
    ASSUME NEW a \in Nat, NEW n \in Nat
    PROVE  /\ Run(a, n) \in Seq(Nat) /\ Len(Run(a, n)) = n
           /\ \A k \in 1 .. n : Run(a, n)[k] = a + k
           /\ Run(a, n) = <<>> <=> n = 0
  BY DEF Run

LEMMA RunJoins ==
    ASSUME NEW a \in Nat, NEW n \in Nat, NEW m \in Nat
    PROVE  Run(a, n) \o Run(a + n, m) = Run(a, n + m)
<1> DEFINE s == Run(a, n)  t == Run(a + n, m)
<1>1. /\ s \in Seq(Nat) /\ Len(s) = n /\ \A k \in 1 .. n : s[k] = a + k
      /\ t \in Seq(Nat) /\ Len(t) = m /\ \A k \in 1 .. m : t[k] = a + n + k
  <2>1. a + n \in Nat
    OBVIOUS
  <2> QED BY <2>1, RunFacts
<1> HIDE DEF s, t
<1>2. /\ s \o t \in Seq(Nat) /\ Len(s \o t) = n + m
      /\ \A k \in 1 .. n + m : (s \o t)[k] = IF k <= n THEN s[k] ELSE t[k - n]
  <2>1. s \in Seq(Nat) /\ t \in Seq(Nat)
    BY <1>1
  <2>2. /\ s \o t \in Seq(Nat) /\ Len(s \o t) = Len(s) + Len(t)
        /\ \A k \in 1 .. Len(s) + Len(t) :
             (s \o t)[k] = IF k <= Len(s) THEN s[k] ELSE t[k - Len(s)]
    BY <2>1, ConcatProperties
  <2> QED BY <1>1, <2>2
<1>3. \A k \in 1 .. n + m : (s \o t)[k] = a + k
  BY <1>1, <1>2
<1>4. /\ Run(a, n + m) \in Seq(Nat) /\ Len(Run(a, n + m)) = n + m
      /\ \A k \in 1 .. n + m : Run(a, n + m)[k] = a + k
  BY RunFacts
<1>5. s \o t = Run(a, n + m)
  BY <1>2, <1>3, <1>4, SeqEqual
<1> QED BY <1>5 DEF s, t

LEMMA RunShortens ==
    ASSUME NEW a \in Nat, NEW n \in Nat \ {0}
    PROVE  Head(Run(a, n)) = a + 1 /\ Tail(Run(a, n)) = Run(a + 1, n - 1)
<1> DEFINE s == Run(a, n)
<1>1. s \in Seq(Nat) /\ Len(s) = n /\ (\A k \in 1 .. n : s[k] = a + k) /\ s # <<>>
  BY RunFacts
<1> HIDE DEF s
<1>2. /\ Head(s) = s[1] /\ Tail(s) \in Seq(Nat) /\ Len(Tail(s)) = n - 1
      /\ \A k \in 1 .. n - 1 : Tail(s)[k] = s[k + 1]
  BY <1>1
<1>3. \A k \in 1 .. n - 1 : Tail(s)[k] = a + 1 + k
  BY <1>1, <1>2
<1>4. /\ Run(a + 1, n - 1) \in Seq(Nat) /\ Len(Run(a + 1, n - 1)) = n - 1
      /\ \A k \in 1 .. n - 1 : Run(a + 1, n - 1)[k] = a + 1 + k
  <2>1. a + 1 \in Nat /\ n - 1 \in Nat
    OBVIOUS
  <2> QED BY <2>1, RunFacts
<1>5. Tail(s) = Run(a + 1, n - 1)
  <2> DEFINE t == Tail(s)  r == Run(a + 1, n - 1)
  <2>1. /\ t \in Seq(Nat) /\ r \in Seq(Nat) /\ Len(t) = Len(r)
        /\ \A k \in 1 .. Len(t) : t[k] = r[k]
    BY <1>2, <1>3, <1>4
  <2> HIDE DEF t, r
  <2>2. t = r
    BY <2>1, SeqEqual
  <2> QED BY <2>2 DEF t, r
<1>6. Head(s) = a + 1
  BY <1>1, <1>2
<1> QED BY <1>5, <1>6 DEF s

LEMMA OrderFacts ==
    ASSUME Safe
    PROVE  /\ seen \in 0 .. Last /\ acked \in 0 .. Last /\ processed \in 0 .. Last
           /\ saved \in 0 .. Last /\ gap \in 0 .. Last /\ Last \in Nat
           /\ acked <= processed /\ processed <= seen
           /\ mailbox = Run(processed, seen - processed)
  BY ProtocolAssumption
     DEF Safe, TypeOK, InOrder, ForwardedInOrder, Run, Cursor

\* In order, the mailbox is well typed.
LEMMA MailboxType ==
    ASSUME NEW a \in 0 .. Last, NEW b \in 0 .. Last, a <= b
    PROVE  Run(a, b - a) \in Seq(Cursor)
<1>1. b - a \in Nat /\ Last \in Nat
  BY ProtocolAssumption
<1>2. \A k \in 1 .. b - a : a + k \in Cursor
  BY <1>1 DEF Cursor
<1> QED BY <1>1, <1>2 DEF Run

\* Steps that leave the stream and its owner alone keep the order.
LEMMA OrderUntouched ==
    ASSUME Safe, seen' = seen, acked' = acked, mailbox' = mailbox, processed' = processed
    PROVE  InOrder'
  BY DEF Safe, InOrder, ForwardedInOrder

\* What is new of a run of events that follows on is what lies beyond seen.
LEMMA Ingested ==
    ASSUME Safe, NEW lo \in Nat, NEW hi \in Cursor,
           lo <= hi => Ingestible(lo, hi), Ingest(lo, hi), processed' = processed
    PROVE  /\ InOrder' /\ seen' \in Cursor /\ seen <= seen' /\ acked' = acked
           /\ mailbox' \in Seq(Cursor) /\ hashes' \subseteq 1 .. Last
<1>1. hi \in 0 .. Last
  BY DEF Cursor
<1>2. \A n \in lo .. hi : Position(n) = "new" <=> n > seen
  BY <1>1, OrderFacts DEF Position
<1>3. CASE New(lo, hi) = {}
  <2>1. seen' = seen /\ hashes' = hashes /\ acked' = acked
    BY <1>3 DEF Ingest
  <2>2. mailbox' = mailbox
    <3>1. Cardinality({}) = 0
      BY FS_EmptySet
    <3>2. mailbox' = mailbox \o [k \in 1 .. 0 |-> hi - 0 + k]
      BY <1>3, <3>1 DEF Ingest
    <3>3. mailbox \in Seq(Cursor)
      BY DEF Safe, TypeOK
    <3>4. [k \in 1 .. 0 |-> hi - 0 + k] = <<>>
      OBVIOUS
    <3>5. mailbox' = mailbox \o <<>>
      BY <3>2, <3>4
    <3>6. mailbox \o <<>> = mailbox
      BY <3>3, ConcatEmptySeq
    <3> QED BY <3>5, <3>6
  <2>3. InOrder'
    BY <2>1, <2>2, OrderUntouched
  <2>4. seen' \in Cursor /\ seen <= seen'
    BY <2>1, OrderFacts DEF Cursor
  <2>5. mailbox' \in Seq(Cursor) /\ hashes' \subseteq 1 .. Last
    BY <2>1, <2>2 DEF Safe, TypeOK
  <2> QED BY <2>1, <2>3, <2>4, <2>5
<1>4. CASE New(lo, hi) # {}
  <2>1. lo <= hi /\ lo <= seen + 1 /\ hi > seen
    <3>1. PICK n \in lo .. hi : n > seen
      BY <1>2, <1>4 DEF New
    <3>2. lo <= hi
      BY <3>1, <1>1
    <3> QED BY <3>1, <3>2, <1>1, OrderFacts DEF Ingestible
  <2>2. New(lo, hi) = seen + 1 .. hi
    BY <1>1, <1>2, <2>1, OrderFacts DEF New
  <2>3. Cardinality(New(lo, hi)) = hi - seen
    BY <2>1, <2>2, <1>1, OrderFacts, FS_Interval
  <2>4. seen' = hi /\ acked' = acked
    BY <1>4 DEF Ingest
  <2>5. hashes' \subseteq 1 .. Last
    <3>1. hashes' \subseteq hashes \union New(lo, hi)
      BY <1>4 DEF Ingest
    <3>2. hashes \subseteq 1 .. Last
      BY DEF Safe, TypeOK
    <3> QED BY <3>1, <3>2, <2>2, <1>1, OrderFacts
  <2>6. mailbox' = Run(processed, hi - processed)
    <3>1. mailbox' = mailbox \o [k \in 1 .. hi - seen |-> hi - (hi - seen) + k]
      BY <2>3 DEF Ingest
    <3>2. [k \in 1 .. hi - seen |-> hi - (hi - seen) + k] = Run(seen, hi - seen)
      BY <1>1, OrderFacts DEF Run
    <3>3. mailbox = Run(processed, seen - processed)
      BY OrderFacts
    <3>4. /\ processed \in Nat /\ seen - processed \in Nat /\ hi - seen \in Nat
          /\ processed + (seen - processed) = seen
          /\ (seen - processed) + (hi - seen) = hi - processed
      BY <1>1, <2>1, OrderFacts
    <3>5. Run(processed, seen - processed) \o Run(processed + (seen - processed), hi - seen)
            = Run(processed, (seen - processed) + (hi - seen))
      BY <3>4, RunJoins
    <3> QED BY <3>1, <3>2, <3>3, <3>4, <3>5
  <2>7. mailbox' \in Seq(Cursor)
    <3>1. processed \in 0 .. Last /\ processed <= hi
      BY <2>1, <1>1, OrderFacts
    <3> QED BY <2>6, <3>1, <1>1, MailboxType
  <2>8. InOrder'
    BY <2>1, <2>4, <2>6, <1>1, OrderFacts DEF InOrder, ForwardedInOrder, Run
  <2> QED BY <2>1, <2>4, <2>5, <2>7, <2>8, <1>1, OrderFacts
<1> QED BY <1>3, <1>4

LEMMA InitSafe == Init => Safe
<1> SUFFICES ASSUME Init PROVE Safe
  OBVIOUS
<1>1. \A S : <<>> \in Seq(S)
  OBVIOUS
<1>2. DOMAIN pending = {}
  BY DEF Init, EmptyMap
<1>3. TypeOK
  <2>1. Last \in Nat /\ MaxFaults \in Nat /\ 0 \in Cursor
    BY ProtocolAssumption DEF Cursor
  <2>2. ClientTypes
    BY <1>2, <2>1 DEF Init, ClientTypes, Knowledge
  <2>3. StreamTypes
    BY <1>1, <2>1 DEF Init, StreamTypes
  <2>4. WireTypes
    BY <1>1 DEF Init, WireTypes
  <2>5. HostTypes
    BY <2>1 DEF Init, HostTypes
  <2> QED BY <2>2, <2>3, <2>4, <2>5, Types
<1>4. InOrder
  BY DEF Init, InOrder, ForwardedInOrder
<1> QED BY <1>2, <1>3, <1>4 DEF Safe, Init, CallersAreServed

LEMMA AskingSafe ==
    ASSUME Safe, Asking
    PROVE  Safe'
<1>1. PICK call \in Calls : Request(call)
  BY DEF Asking
<1>2. FreshId \in Id
  BY <1>1, FreshIdFacts
<1> DEFINE m == [id |-> FreshId, call |-> call]
<1>3. Append(up, m) \in Seq([id : Id, call : Calls])
  <2>1. m \in [id : Id, call : Calls]
    BY <1>2
  <2> QED BY <2>1, PutLast DEF Safe, TypeOK
<1>4. WireTypes'
  BY <1>1, <1>3 DEF Request, WireTypes, Safe, TypeOK
<1>5. /\ DOMAIN pending' = DOMAIN pending \union {FreshId}
      /\ \A i \in DOMAIN pending' : pending'[i] = IF i = FreshId THEN call ELSE pending[i]
  BY <1>1 DEF Request
<1>6. ClientTypes'
  <2>1. told' \in [Command -> Knowledge]
    BY <1>1 DEF Request, Safe, TypeOK, Knowledge
  <2> QED BY <1>1, <1>2, <1>5, <2>1 DEF Request, ClientTypes, Knowledge, Safe, TypeOK
<1>7. StreamTypes' /\ HostTypes'
  BY <1>1 DEF Request, StreamTypes, HostTypes, Safe, TypeOK, streamVars, hostVars, ownerVars
<1>8. CallersAreServed'
  BY <1>1, <1>5 DEF Request, Safe, CallersAreServed
<1>9. InOrder'
  BY <1>1, OrderUntouched DEF Request, streamVars, ownerVars
<1> QED BY <1>4, <1>6, <1>7, <1>8, <1>9, Types DEF Safe

LEMMA ExpireSafe ==
    ASSUME Safe, NEW i \in Id, Expire(i)
    PROVE  Safe'
<1>1. {i} \in SUBSET DOMAIN pending
  BY DEF Expire, Safe, CallersAreServed
<1>2. /\ DOMAIN pending' = DOMAIN pending \ {i}
      /\ \A j \in DOMAIN pending' : pending'[j] = pending[j]
      /\ uncertain' \subseteq Command /\ waiting' = waiting \ {i}
      /\ told' \in [Command -> Knowledge]
  BY <1>1, Lost DEF Expire, Safe
<1>3. faults' \in 0 .. MaxFaults
  BY ProtocolAssumption DEF Expire, Safe, TypeOK
<1>4. ClientTypes'
  BY <1>2, <1>3 DEF Expire, ClientTypes, Knowledge, Safe, TypeOK
<1>5. StreamTypes' /\ WireTypes' /\ HostTypes'
  BY DEF Expire, StreamTypes, WireTypes, HostTypes, Safe, TypeOK, streamVars, wireVars,
         hostVars, ownerVars
<1>6. CallersAreServed'
  BY <1>2 DEF Expire, Safe, CallersAreServed
<1>7. InOrder'
  BY OrderUntouched DEF Expire, streamVars, ownerVars
<1> QED BY <1>4, <1>5, <1>6, <1>7, Types DEF Safe

LEMMA ConnectionLostSafe ==
    ASSUME Safe, ConnectionLost
    PROVE  Safe'
<1>1. faults' \in 0 .. MaxFaults
  BY ProtocolAssumption DEF ConnectionLost, Safe, TypeOK
<1>2. ClientTypes' /\ WireTypes' /\ HostTypes' /\ CallersAreServed'
  BY <1>1, DisconnectedFacts DEF ConnectionLost
<1>3. StreamTypes'
  BY DEF ConnectionLost, StreamTypes, Safe, TypeOK, streamVars, ownerVars
<1>4. InOrder'
  BY OrderUntouched DEF ConnectionLost, streamVars, ownerVars
<1> QED BY <1>2, <1>3, <1>4, Types DEF Safe

LEMMA ReconnectSafe ==
    ASSUME Safe, Reconnect
    PROVE  Safe'
<1>1. /\ DOMAIN pending' = {} /\ uncertain' \subseteq Command
      /\ waiting' = waiting \ DOMAIN pending
      /\ told' \in [Command -> Knowledge]
  <2>1. DOMAIN pending \in SUBSET DOMAIN pending
    OBVIOUS
  <2> QED BY <2>1, Lost DEF Reconnect, Safe
<1>2. waiting' = {}
  BY <1>1 DEF Safe, CallersAreServed
<1>3. ClientTypes' /\ CallersAreServed'
  BY <1>1, <1>2 DEF Reconnect, ClientTypes, Knowledge, CallersAreServed, Safe, TypeOK
<1>4. WireTypes' /\ HostTypes'
  BY CutOffTypes DEF Reconnect, Safe
<1>5. StreamTypes'
  BY DEF Reconnect, StreamTypes, Safe, TypeOK, streamVars, ownerVars
<1>6. InOrder'
  BY OrderUntouched DEF Reconnect, streamVars, ownerVars
<1> QED BY <1>3, <1>4, <1>5, <1>6, Types DEF Safe

LEMMA SettleTypes ==
    ASSUME Safe, NEW m \in Answer, m.id \in DOMAIN pending, Settle(m), open' = open,
           faults' = faults
    PROVE  ClientTypes' /\ CallersAreServed' /\ gap' \in Cursor
<1>1. pending[m.id] \in Calls
  BY DEF Safe, TypeOK
<1>2. /\ DOMAIN pending' = DOMAIN pending \ {m.id}
      /\ \A j \in DOMAIN pending' : pending'[j] = pending[j]
  BY DEF Settle, Restrict
<1>3. told' \in [Command -> Knowledge]
  <2>1. Learned(m.outcome) \in Knowledge
    BY DEF Answer, Outcome, Learned, Knowledge
  <2>2. told \in [Command -> Knowledge]
    BY DEF Safe, TypeOK, Knowledge
  <2> QED BY <2>1, <2>2 DEF Settle
<1>4. ClientTypes'
  BY <1>2, <1>3 DEF Settle, ClientTypes, Knowledge, Safe, TypeOK
<1>5. gap' \in Cursor
  BY DEF Settle, Safe, TypeOK, Answer
<1>6. CallersAreServed'
  BY <1>2 DEF Settle, Safe, CallersAreServed
<1> QED BY <1>4, <1>5, <1>6

LEMMA ReceiveSafe ==
    ASSUME Safe, Receive
    PROVE  Safe'
<1> DEFINE m == Head(down)
<1>1. m \in Answer \union Live /\ Tail(down) \in Seq(Answer \union Live)
  BY TakeFirst DEF Receive, Safe, TypeOK
<1>2. CASE /\ Acceptable(m) /\ Ingest(m.from, m.last)
           /\ IF m.kind = "reply" THEN Settle(m)
              ELSE UNCHANGED <<phase, requestVars, gap>>
           /\ down' = Tail(down)
           /\ UNCHANGED <<open, up, notes, live, hostVars, processed, saved, handled,
                          forgone>>
  <2>1. /\ InOrder' /\ seen' \in Cursor /\ acked' = acked
        /\ mailbox' \in Seq(Cursor) /\ hashes' \subseteq 1 .. Last
    <3>1. m.from \in Nat /\ m.last \in Cursor
      BY <1>1, MessageFacts
    <3>2. m.from <= m.last => Ingestible(m.from, m.last)
      BY <1>2 DEF Acceptable
    <3> QED BY <1>2, <3>1, <3>2, Ingested
  <2>2. ClientTypes' /\ CallersAreServed' /\ gap' \in Cursor
    <3>1. CASE m.kind = "reply"
      <4>1. m \in Answer /\ m.id \in DOMAIN pending
        BY <1>1, <1>2, <3>1, MessageFacts DEF Acceptable
      <4> QED BY <1>2, <3>1, <4>1, SettleTypes DEF Receive
    <3>2. CASE m.kind # "reply"
      BY <1>2, <3>2 DEF Receive, requestVars, ClientTypes, Knowledge, CallersAreServed, Safe, TypeOK
    <3> QED BY <3>1, <3>2
  <2>3. StreamTypes'
    BY <1>2, <2>1, <2>2 DEF StreamTypes, Safe, TypeOK
  <2>4. WireTypes'
    BY <1>1, <1>2 DEF WireTypes, Safe, TypeOK
  <2>5. HostTypes'
    BY <1>2 DEF HostTypes, hostVars, Safe, TypeOK
  <2> QED BY <2>1, <2>2, <2>3, <2>4, <2>5, Types DEF Safe
<1>3. CASE Disconnected /\ UNCHANGED <<streamVars, ownerVars>>
  <2>1. ClientTypes' /\ WireTypes' /\ HostTypes' /\ CallersAreServed'
    BY <1>3, DisconnectedFacts DEF Receive, Safe, TypeOK
  <2>2. StreamTypes'
    BY <1>3 DEF StreamTypes, Safe, TypeOK, streamVars, ownerVars
  <2>3. InOrder'
    BY <1>3, OrderUntouched DEF streamVars, ownerVars
  <2> QED BY <2>1, <2>2, <2>3, Types DEF Safe
<1> QED BY <1>2, <1>3 DEF Receive

LEMMA SinceFacts ==
    ASSUME TypeOK, NEW cursor \in Cursor
    PROVE  /\ Since(cursor).from \in 1 .. Last + 1 /\ Since(cursor).last \in Cursor
           /\ Since(cursor).gap \in Cursor /\ Since(cursor).gap < oldest
<1>1. /\ oldest \in 1 .. Last + 1 /\ next \in 1 .. Last + 1 /\ cursor \in 0 .. Last
      /\ Last \in Nat /\ Page \in Nat \ {0}
  BY ProtocolAssumption DEF TypeOK, Cursor
<1>2. CASE cursor < oldest - 1 \/ cursor >= next
  <2>1. Since(cursor) = [from |-> 1, last |-> 0, gap |-> oldest - 1]
    BY <1>2 DEF Since
  <2> QED BY <1>1, <2>1 DEF Cursor
<1>3. CASE ~(cursor < oldest - 1 \/ cursor >= next)
  <2> DEFINE end == IF cursor + Page < next THEN cursor + Page ELSE next - 1
  <2>1. Since(cursor) = [from |-> cursor + 1, last |-> end, gap |-> 0]
    BY <1>3 DEF Since
  <2>2. end \in 0 .. Last
    BY <1>1
  <2> QED BY <1>1, <2>1, <2>2 DEF Cursor
<1> QED BY <1>2, <1>3

\* The answer to the request at the head of the channel.
PageOf(m, outcome) ==
    IF m.call.kind = "resume" /\ outcome = "result" THEN Since(m.call.arg) ELSE Nothing
Reply(m, outcome) ==
    [kind |-> "reply", id |-> m.id, outcome |-> outcome, from |-> PageOf(m, outcome).from,
     last |-> PageOf(m, outcome).last, gap |-> PageOf(m, outcome).gap]

LEMMA Served ==
    ASSUME TypeOK, NEW outcome \in Outcome, NEW effect \in BOOLEAN, Serve(outcome, effect)
    PROVE  LET m == Head(up)  r == Reply(m, outcome)
           IN  /\ m \in [id : Id, call : Calls] /\ m.id \in Id /\ m.call \in Calls
               /\ r \in Answer /\ r.id = m.id /\ r.kind = "reply" /\ r.outcome = outcome
               /\ r.gap < oldest
               /\ down' = Append(down, r) /\ up' = Tail(up)
               /\ executed' = IF m.call.kind = "mutate" /\ effect
                              THEN [executed EXCEPT ![m.call.arg] = @ + 1] ELSE executed
<1> DEFINE m == Head(up)  r == Reply(m, outcome)
<1>1. m \in [id : Id, call : Calls]
  BY TakeFirst DEF Serve, TypeOK
<1>2. m.id \in Id /\ m.call \in Calls
  BY <1>1
<1>3. /\ PageOf(m, outcome).from \in 1 .. Last + 1 /\ PageOf(m, outcome).last \in Cursor
      /\ PageOf(m, outcome).gap \in Cursor /\ PageOf(m, outcome).gap < oldest
  <2>1. CASE m.call.kind = "resume" /\ outcome = "result"
    BY <1>2, <2>1, CallFacts, SinceFacts DEF PageOf
  <2>2. CASE ~(m.call.kind = "resume" /\ outcome = "result")
    <3>1. PageOf(m, outcome) = [from |-> 1, last |-> 0, gap |-> 0]
      BY <2>2 DEF PageOf, Nothing
    <3>2. Last \in Nat
      BY ProtocolAssumption
    <3>3. oldest \in 1 .. Last + 1
      BY DEF TypeOK
    <3> QED BY <3>1, <3>2, <3>3 DEF Cursor
  <2> QED BY <2>1, <2>2
<1>4. /\ r \in Answer /\ r.id = m.id /\ r.kind = "reply" /\ r.outcome = outcome
      /\ r.gap = PageOf(m, outcome).gap
  BY <1>2, <1>3 DEF Reply, Answer
<1>5. /\ down' = Append(down, r) /\ up' = Tail(up)
      /\ executed' = IF m.call.kind = "mutate" /\ effect
                     THEN [executed EXCEPT ![m.call.arg] = @ + 1] ELSE executed
  BY DEF Serve, Reply, PageOf
<1> QED BY <1>1, <1>2, <1>3, <1>4, <1>5

LEMMA ServeSafe ==
    ASSUME Safe, Serving
    PROVE  Safe'
<1> PICK outcome \in Outcome, effect \in BOOLEAN : Serve(outcome, effect)
  BY DEF Serving
<1> DEFINE m == Head(up)  r == Reply(m, outcome)
<1>1. /\ m.call \in Calls /\ r \in Answer /\ down' = Append(down, r) /\ up' = Tail(up)
      /\ executed' = IF m.call.kind = "mutate" /\ effect
                     THEN [executed EXCEPT ![m.call.arg] = @ + 1] ELSE executed
  BY Served DEF Safe
<1>2. WireTypes'
  <2>1. down' \in Seq(Answer \union Live)
    <3>1. down \in Seq(Answer \union Live)
      BY DEF Safe, TypeOK
    <3> HIDE DEF r
    <3> QED BY <1>1, <3>1, PutLast
  <2>2. up' \in Seq([id : Id, call : Calls])
    BY <1>1, TakeFirst DEF Serve, Safe, TypeOK
  <2>3. notes' = notes /\ live' \in BOOLEAN
    BY DEF Serve, Safe, TypeOK
  <2> QED BY <2>1, <2>2, <2>3 DEF WireTypes, Safe, TypeOK
<1>3. HostTypes'
  <2>1. \/ executed' = executed
        \/ m.call.kind = "mutate" /\ executed' = [executed EXCEPT ![m.call.arg] = @ + 1]
    BY <1>1
  <2>2. executed \in [Command -> Nat]
    BY DEF Safe, TypeOK
  <2>3. executed' \in [Command -> Nat]
    <3> HIDE DEF m
    <3>1. m.call.kind = "mutate" => m.call.arg \in Command
      BY <1>1, CallFacts
    <3> QED BY <2>1, <2>2, <3>1
  <2>4. UNCHANGED <<oldest, next, late>>
    BY DEF Serve
  <2> QED BY <2>3, <2>4 DEF HostTypes, Safe, TypeOK
<1>4. faults' \in 0 .. MaxFaults
  <2>1. faults' = faults \/ (faults < MaxFaults /\ faults' = faults + 1)
    BY DEF Serve
  <2>2. faults \in 0 .. MaxFaults /\ MaxFaults \in Nat
    BY ProtocolAssumption DEF Safe, TypeOK
  <2> QED BY <2>1, <2>2
<1>5. ClientTypes' /\ StreamTypes' /\ CallersAreServed'
  BY <1>4, Types
  DEF Serve, ClientTypes, Knowledge, StreamTypes, CallersAreServed, Safe, requestVars,
      streamVars, ownerVars
<1>6. InOrder'
  BY OrderUntouched DEF Serve, streamVars, ownerVars
<1> QED BY <1>2, <1>3, <1>5, <1>6, Types DEF Safe

LEMMA EmitSafe ==
    ASSUME Safe, Emit
    PROVE  Safe'
<1>1. Last \in Nat /\ Retained \in Nat \ {0} /\ next \in 1 .. Last /\ oldest \in 1 .. Last + 1
  BY ProtocolAssumption DEF Emit, Safe, TypeOK
<1>2. next' \in 1 .. Last + 1
  BY <1>1 DEF Emit
<1>3. oldest' \in 1 .. Last + 1
  BY <1>1 DEF Emit
<1>4. notes' \in Seq(Cursor)
  <2>1. next \in Cursor
    BY <1>1 DEF Cursor
  <2>2. notes \in Seq(Cursor)
    BY DEF Safe, TypeOK
  <2> QED BY <2>1, <2>2, PutLast DEF Emit
<1>5. WireTypes' /\ HostTypes'
  BY <1>2, <1>3, <1>4 DEF Emit, WireTypes, HostTypes, Safe, TypeOK
<1>6. ClientTypes' /\ StreamTypes' /\ CallersAreServed'
  BY DEF Emit, ClientTypes, Knowledge, StreamTypes, CallersAreServed, Safe, TypeOK, requestVars,
         streamVars, ownerVars
<1>7. InOrder'
  BY OrderUntouched DEF Emit, streamVars, ownerVars
<1> QED BY <1>5, <1>6, <1>7, Types DEF Safe

LEMMA PushSafe ==
    ASSUME Safe, Push
    PROVE  Safe'
<1>1. Head(notes) \in Cursor /\ notes' \in Seq(Cursor)
  BY TakeFirst DEF Push, Safe, TypeOK
<1> DEFINE m == [kind |-> "live", from |-> Head(notes), last |-> Head(notes)]
<1>2. m \in Answer \union Live
  BY <1>1 DEF Live
<1>3. down' \in Seq(Answer \union Live)
  <2>1. down' = Append(down, m) /\ down \in Seq(Answer \union Live)
    BY DEF Push, Safe, TypeOK
  <2> QED BY <1>2, <2>1, PutLast
<1>4. WireTypes' /\ HostTypes'
  BY <1>1, <1>3 DEF Push, WireTypes, HostTypes, hostVars, Safe, TypeOK
<1>5. ClientTypes' /\ StreamTypes' /\ CallersAreServed'
  BY DEF Push, ClientTypes, Knowledge, StreamTypes, CallersAreServed, Safe, TypeOK, requestVars,
         streamVars, ownerVars
<1>6. InOrder'
  BY OrderUntouched DEF Push, streamVars, ownerVars
<1> QED BY <1>4, <1>5, <1>6, Types DEF Safe

LEMMA FinishLateSafe ==
    ASSUME Safe, NEW c \in Command, FinishLate(c)
    PROVE  Safe'
<1>1. executed' \in [Command -> Nat] /\ late' \subseteq Command
  BY DEF FinishLate, Safe, TypeOK
<1>2. WireTypes' /\ HostTypes'
  BY <1>1 DEF FinishLate, WireTypes, HostTypes, wireVars, Safe, TypeOK
<1>3. ClientTypes' /\ StreamTypes' /\ CallersAreServed'
  BY DEF FinishLate, ClientTypes, Knowledge, StreamTypes, CallersAreServed, Safe, TypeOK,
         requestVars, streamVars, ownerVars
<1>4. InOrder'
  BY OrderUntouched DEF FinishLate, streamVars, ownerVars
<1> QED BY <1>2, <1>3, <1>4, Types DEF Safe

LEMMA ProcessSafe ==
    ASSUME Safe, Process
    PROVE  Safe'
<1>1. seen - processed \in Nat \ {0}
  <2>1. seen - processed \in Nat /\ processed \in Nat
    BY OrderFacts
  <2>2. Run(processed, seen - processed) # <<>>
    BY OrderFacts DEF Process
  <2> QED BY <2>1, <2>2, RunFacts
<1>2. /\ Head(mailbox) = processed + 1
      /\ Tail(mailbox) = Run(processed + 1, (seen - processed) - 1)
  <2>1. processed \in Nat /\ mailbox = Run(processed, seen - processed)
    BY OrderFacts
  <2> QED BY <1>1, <2>1, RunShortens
<1>3. /\ processed' = processed + 1 /\ processed' \in 0 .. Last /\ processed' <= seen
      /\ mailbox' = Run(processed', seen - processed') /\ mailbox' \in Seq(Cursor)
  <2>1. processed' = processed + 1 /\ mailbox' = Run(processed + 1, (seen - processed) - 1)
    BY <1>2 DEF Process
  <2>2. processed' \in 0 .. Last /\ processed' <= seen
    BY <1>1, <2>1, OrderFacts
  <2>3. (seen - processed) - 1 = seen - processed'
    BY <2>1, OrderFacts
  <2>4. mailbox' = Run(processed', seen - processed')
    BY <2>1, <2>3
  <2> QED BY <2>1, <2>2, <2>4, OrderFacts, MailboxType
<1>4. handled' \subseteq 1 .. Last
  <2>1. handled' = handled \union {processed + 1}
    BY <1>2 DEF Process
  <2>2. processed + 1 \in 1 .. Last
    BY <1>1, OrderFacts
  <2> QED BY <2>1, <2>2 DEF Safe, TypeOK
<1>5. StreamTypes'
  BY <1>3, <1>4 DEF Process, StreamTypes, streamVars, Cursor, Safe, TypeOK
<1>6. InOrder'
  <2>1. seen' = seen /\ acked' = acked
    BY DEF Process, streamVars
  <2>2. mailbox' = [k \in 1 .. seen' - processed' |-> processed' + k]
    BY <1>3, <2>1 DEF Run
  <2>3. acked' <= processed' /\ processed' <= seen'
    BY <1>3, <2>1, OrderFacts
  <2> QED BY <2>2, <2>3 DEF InOrder, ForwardedInOrder
<1>7. ClientTypes' /\ WireTypes' /\ HostTypes' /\ CallersAreServed'
  BY DEF Process, ClientTypes, Knowledge, WireTypes, HostTypes, CallersAreServed, Safe, TypeOK,
         requestVars, wireVars, hostVars
<1> QED BY <1>5, <1>6, <1>7, Types DEF Safe

LEMMA AckCursorSafe ==
    ASSUME Safe, AckCursor
    PROVE  Safe'
<1>1. ClientTypes' /\ WireTypes' /\ HostTypes' /\ CallersAreServed'
  BY DEF AckCursor, ClientTypes, Knowledge, WireTypes, HostTypes, CallersAreServed, Safe, TypeOK,
         requestVars, wireVars, hostVars
<1>2. StreamTypes'
  BY DEF AckCursor, StreamTypes, ownerVars, Safe, TypeOK
<1>3. InOrder'
  BY OrderFacts DEF AckCursor, ownerVars, Safe, InOrder, ForwardedInOrder
<1> QED BY <1>1, <1>2, <1>3, Types DEF Safe

LEMMA SaveSafe ==
    ASSUME Safe, Save
    PROVE  Safe'
<1>1. ClientTypes' /\ WireTypes' /\ HostTypes' /\ CallersAreServed'
  BY DEF Save, ClientTypes, Knowledge, WireTypes, HostTypes, CallersAreServed, Safe, TypeOK,
         requestVars, wireVars, hostVars
<1>2. StreamTypes'
  BY DEF Save, StreamTypes, streamVars, Safe, TypeOK
<1>3. InOrder'
  BY OrderUntouched DEF Save, streamVars
<1> QED BY <1>1, <1>2, <1>3, Types DEF Safe

LEMMA ResolveUncertainSafe ==
    ASSUME Safe, NEW c \in Command, ResolveUncertain(c)
    PROVE  Safe'
<1>1. told' \in [Command -> Knowledge]
  BY DEF ResolveUncertain, Safe, TypeOK, Knowledge
<1>2. ClientTypes' /\ CallersAreServed'
  BY <1>1 DEF ResolveUncertain, ClientTypes, Knowledge, CallersAreServed, Safe, TypeOK
<1>3. WireTypes' /\ HostTypes' /\ StreamTypes'
  BY DEF ResolveUncertain, WireTypes, HostTypes, StreamTypes, Safe, TypeOK, wireVars,
         hostVars, streamVars, ownerVars
<1>4. InOrder'
  BY OrderUntouched DEF ResolveUncertain, streamVars, ownerVars
<1> QED BY <1>2, <1>3, <1>4, Types DEF Safe

LEMMA ReconcileSafe ==
    ASSUME Safe, NEW c \in Command, Reconcile(c)
    PROVE  Safe'
<1>1. told' \in [Command -> Knowledge]
  BY DEF Reconcile, Safe, TypeOK, Knowledge
<1>2. ClientTypes' /\ CallersAreServed'
  BY <1>1 DEF Reconcile, ClientTypes, Knowledge, CallersAreServed, Safe, TypeOK
<1>3. WireTypes' /\ HostTypes' /\ StreamTypes'
  BY DEF Reconcile, WireTypes, HostTypes, StreamTypes, Safe, TypeOK, wireVars,
         hostVars, streamVars, ownerVars
<1>4. InOrder'
  BY OrderUntouched DEF Reconcile, streamVars, ownerVars
<1> QED BY <1>2, <1>3, <1>4, Types DEF Safe

LEMMA RestartSafe ==
    ASSUME Safe, NEW checkpoint \in Cursor, Restart(checkpoint), faults' \in 0 .. MaxFaults,
           saved' \in Cursor, handled' \subseteq 1 .. Last, forgone' \subseteq 1 .. Last
    PROVE  Safe'
<1>1. WireTypes' /\ HostTypes'
  BY CutOffTypes DEF Restart, Safe
<1>2. DOMAIN pending' = {}
  BY DEF Restart, EmptyMap
<1>3. told' \in [Command -> Knowledge]
  BY DEF Restart, Safe, TypeOK, Knowledge
<1>4. ClientTypes' /\ CallersAreServed'
  BY <1>2, <1>3 DEF Restart, ClientTypes, Knowledge, CallersAreServed
<1>5. 0 \in Cursor /\ mailbox' \in Seq(Cursor)
  BY ProtocolAssumption DEF Restart, Cursor
<1>6. StreamTypes'
  BY <1>5 DEF Restart, StreamTypes
<1>7. InOrder'
  <2>1. checkpoint \in Nat
    BY ProtocolAssumption DEF Cursor
  <2>2. seen' = checkpoint /\ acked' = checkpoint /\ processed' = checkpoint
    BY DEF Restart
  <2>3. mailbox' = [k \in 1 .. seen' - processed' |-> processed' + k]
    <3>1. seen' - processed' = 0
      BY <2>1, <2>2
    <3>2. [k \in 1 .. 0 |-> processed' + k] = <<>>
      OBVIOUS
    <3> QED BY <3>1, <3>2 DEF Restart
  <2> QED BY <2>1, <2>2, <2>3 DEF InOrder, ForwardedInOrder
<1> QED BY <1>1, <1>4, <1>6, <1>7, Types DEF Safe

LEMMA CrashSafe ==
    ASSUME Safe, Crash
    PROVE  Safe'
<1>1. faults' \in 0 .. MaxFaults
  BY ProtocolAssumption DEF Crash, Safe, TypeOK
<1>2. saved \in Cursor /\ saved' \in Cursor /\ handled' \subseteq 1 .. Last
      /\ forgone' \subseteq 1 .. Last
  BY DEF Crash, Safe, TypeOK
<1> QED BY <1>1, <1>2, RestartSafe DEF Crash

LEMMA AcceptGapSafe ==
    ASSUME Safe, AcceptGap
    PROVE  Safe'
<1>1. forgone' \subseteq 1 .. Last
  <2>1. processed + 1 .. gap \subseteq 1 .. Last
    BY OrderFacts
  <2> QED BY <2>1 DEF AcceptGap, Safe, TypeOK
<1>2. gap \in Cursor /\ saved' \in Cursor /\ handled' \subseteq 1 .. Last
      /\ faults' \in 0 .. MaxFaults
  BY DEF AcceptGap, Safe, TypeOK
<1> QED BY <1>1, <1>2, RestartSafe DEF AcceptGap

LEMMA NextSafe == Safe /\ [Next]_vars => Safe'
<1> SUFFICES ASSUME Safe, [Next]_vars PROVE Safe'
  OBVIOUS
<1>1. CASE UNCHANGED vars
  <2>1. ClientTypes' /\ StreamTypes' /\ WireTypes' /\ HostTypes' /\ CallersAreServed'
    BY <1>1 DEF vars, requestVars, streamVars, wireVars, hostVars, ownerVars, Safe, TypeOK,
               ClientTypes, Knowledge, StreamTypes, WireTypes, HostTypes, CallersAreServed
  <2>2. InOrder'
    BY <1>1, OrderUntouched DEF vars, streamVars, ownerVars
  <2> QED BY <2>1, <2>2, Types DEF Safe
<1>2. TypeOK
  BY DEF Safe
<1> QED BY <1>1, <1>2, NextCases, AskingSafe, ExpireSafe, ConnectionLostSafe, ReconnectSafe,
           ReceiveSafe, ServeSafe, EmitSafe, PushSafe, FinishLateSafe, ProcessSafe,
           AckCursorSafe, SaveSafe, ResolveUncertainSafe, ReconcileSafe, CrashSafe,
           AcceptGapSafe

LEMMA AlwaysSafe == Spec => []Safe
  BY InitSafe, NextSafe, PTL DEF Spec

\* Client, channels, host and owner are well typed in every reachable state.
THEOREM TypeCorrect == Spec => []TypeOK
<1>1. Safe => TypeOK
  BY DEF Safe
<1> QED BY <1>1, AlwaysSafe, PTL

\* What the owner has still to handle is always exactly what follows what it
\* handled, through replays, live events, overflows, disconnects and crashes.
THEOREM ForwardedInOrderHolds == Spec => []ForwardedInOrder
<1>1. Safe => ForwardedInOrder
  BY DEF Safe, InOrder
<1> QED BY <1>1, AlwaysSafe, PTL

\* The transport's callers are always those of the core's pending requests.
THEOREM NobodyForgotten == Spec => []CallersAreServed
<1>1. Safe => CallersAreServed
  BY DEF Safe
<1> QED BY <1>1, AlwaysSafe, PTL

-----------------------------------------------------------------------------
(* Nothing is skipped *)

\* What the owner went past it handled or gave up, and what it gave up, or may
\* yet give up for a gap it was told or will be, the host has dropped.
Accounted ==
    /\ 1 .. processed \subseteq handled \union forgone
    /\ 1 .. saved \subseteq handled \union forgone
    /\ \A n \in forgone : n < oldest
    /\ gap < oldest
    /\ \A m \in Range(down) : m.kind = "reply" => m.gap < oldest

LEMMA NothingIn == Range(<<>>) = {}
  BY DEF Range

LEMMA GapsAreNumbers ==
    ASSUME TypeOK
    PROVE  /\ oldest \in Nat \ {0} /\ gap \in Nat /\ \A n \in forgone : n \in Nat
           /\ \A m \in Range(down) : m \in Answer \union Live
           /\ \A m \in Range(down) : m.kind = "reply" => m.gap \in Nat
<1>1. oldest \in Nat \ {0} /\ gap \in Nat /\ \A n \in forgone : n \in Nat
  <2>1. Last \in Nat
    BY ProtocolAssumption
  <2>2. oldest \in 1 .. Last + 1 /\ gap \in 0 .. Last /\ forgone \subseteq 1 .. Last
    BY DEF TypeOK, Cursor
  <2> QED BY <2>1, <2>2
<1>2. \A m \in Range(down) : m \in Answer \union Live
  <2>1. down \in Seq(Answer \union Live)
    BY DEF TypeOK
  <2> QED BY <2>1, Within
<1>3. \A m \in Range(down) : m.kind = "reply" => m.gap \in Nat
  BY <1>2, MessageFacts, ProtocolAssumption DEF Cursor
<1> QED BY <1>1, <1>2, <1>3

LEMMA AccountedUntouched ==
    ASSUME TypeOK, Accounted, processed' = processed, saved' = saved, handled' = handled,
           forgone' = forgone, gap' = gap, oldest' = oldest,
           \A m \in Range(down') : m.kind = "reply" => m \in Range(down) \/ m.gap < oldest
    PROVE  Accounted'
  BY DEF Accounted

LEMMA RestartAccounted ==
    ASSUME TypeOK, NEW checkpoint \in Cursor, Restart(checkpoint),
           1 .. checkpoint \subseteq handled' \union forgone',
           1 .. saved' \subseteq handled' \union forgone', \A n \in forgone' : n < oldest
    PROVE  Accounted'
<1>1. processed' = checkpoint /\ gap' = 0 /\ oldest' = oldest /\ down' = <<>>
  BY DEF Restart, CutOff
<1> QED BY <1>1, NothingIn, GapsAreNumbers DEF Accounted

LEMMA NextAccounted == Safe /\ Accounted /\ [Next]_vars => Accounted'
<1> SUFFICES ASSUME Safe, Accounted, [Next]_vars PROVE Accounted'
  OBVIOUS
<1>1. TypeOK
  BY DEF Safe
<1>2. CASE Asking
  <2>1. PICK call \in Calls : Request(call)
    BY <1>2 DEF Asking
  <2> QED BY <1>1, <2>1, AccountedUntouched DEF Request, hostVars, ownerVars
<1>3. ASSUME NEW i \in Id, Expire(i) PROVE Accounted'
  BY <1>1, <1>3, AccountedUntouched DEF Expire, wireVars, hostVars, ownerVars
<1>4. CASE ConnectionLost \/ Reconnect
  <2>1. CutOff /\ UNCHANGED ownerVars
    BY <1>4 DEF ConnectionLost, Reconnect, Disconnected
  <2>2. down' = <<>> /\ oldest' = oldest
    BY <2>1 DEF CutOff
  <2> QED BY <1>1, <2>1, <2>2, NothingIn, AccountedUntouched DEF ownerVars
<1>5. CASE Receive
  <2> DEFINE m == Head(down)
  <2>1. m \in Answer \union Live /\ Range(down) = {m} \union Range(Tail(down))
    BY <1>5, TakeFirst DEF Receive, Safe, TypeOK
  <2>2. CASE /\ IF m.kind = "reply" THEN Settle(m)
                ELSE UNCHANGED <<phase, requestVars, gap>>
             /\ down' = Tail(down)
             /\ UNCHANGED <<open, up, notes, live, hostVars, processed, saved, handled,
                            forgone>>
    <3>1. m.kind = "reply" => m.gap < oldest
      BY <2>1 DEF Accounted
    <3>2. gap' < oldest
      BY <2>2, <3>1 DEF Settle, Accounted
    <3>3. oldest' = oldest
      BY <2>2 DEF hostVars
    <3> QED BY <2>1, <2>2, <3>2, <3>3 DEF Accounted
  <2>3. CASE Disconnected /\ UNCHANGED <<streamVars, ownerVars>>
    <3>1. down' = <<>> /\ oldest' = oldest
      BY <2>3 DEF Disconnected, CutOff
    <3> QED BY <1>1, <2>3, <3>1, NothingIn, AccountedUntouched DEF ownerVars
  <2> QED BY <1>5, <2>2, <2>3 DEF Receive
<1>6. CASE Serving
  <2>1. PICK outcome \in Outcome, effect \in BOOLEAN : Serve(outcome, effect)
    BY <1>6 DEF Serving
  <2> DEFINE r == Reply(Head(up), outcome)
  <2>2. down' = Append(down, r) /\ r \in Answer /\ r.gap < oldest
    BY <1>1, <2>1, Served
  <2>3. Range(down') = Range(down) \union {r}
    <3>1. down \in Seq(Answer \union Live)
      BY <1>1 DEF TypeOK
    <3> HIDE DEF r
    <3> QED BY <2>2, <3>1, PutLast
  <2> QED BY <1>1, <2>1, <2>2, <2>3, AccountedUntouched DEF Serve, ownerVars
<1>7. CASE Emit
  <2>1. oldest' \in Nat /\ oldest <= oldest'
    BY <1>1, <1>7, GapsAreNumbers DEF Emit
  <2>2. UNCHANGED <<down, processed, saved, gap, handled, forgone>>
    BY <1>7 DEF Emit, ownerVars
  <2> QED BY <1>1, <2>1, <2>2, GapsAreNumbers DEF Accounted
<1>8. CASE Push
  <2> DEFINE m == [kind |-> "live", from |-> Head(notes), last |-> Head(notes)]
  <2>1. Head(notes) \in Cursor
    BY <1>8, TakeFirst DEF Push, Safe, TypeOK
  <2>2. m \in Answer \union Live /\ m.kind = "live"
    BY <2>1 DEF Live
  <2>3. Range(down') = Range(down) \union {m}
    <3>1. down' = Append(down, m) /\ down \in Seq(Answer \union Live)
      BY <1>8 DEF Push, Safe, TypeOK
    <3> QED BY <2>2, <3>1, PutLast
  <2> QED BY <1>1, <1>8, <2>2, <2>3, AccountedUntouched DEF Push, hostVars, ownerVars
<1>9. ASSUME NEW c \in Command, FinishLate(c) PROVE Accounted'
  BY <1>1, <1>9, AccountedUntouched DEF FinishLate, wireVars, ownerVars
<1>10. CASE Process
  <2>1. processed' \in Nat /\ processed \in Nat /\ processed' <= processed + 1
        /\ processed' \in handled'
    <3>1. processed' = Head(mailbox) /\ handled' = handled \union {Head(mailbox)}
      BY <1>10 DEF Process
    <3>2. seen - processed \in Nat \ {0} /\ processed \in Nat
          /\ mailbox = Run(processed, seen - processed)
      <4>1. Run(processed, seen - processed) # <<>> /\ seen - processed \in Nat
            /\ processed \in Nat
        BY <1>10, OrderFacts DEF Process
      <4> QED BY <4>1, OrderFacts, RunFacts
    <3>3. Head(mailbox) = processed + 1
      BY <3>2, RunShortens
    <3> QED BY <3>1, <3>2, <3>3
  <2>2. handled \subseteq handled' /\ UNCHANGED <<down, oldest, saved, gap, forgone>>
    BY <1>10 DEF Process, wireVars, hostVars
  <2>3. \A n \in 1 .. processed' : n \in 1 .. processed \/ n = processed'
    BY <2>1
  <2> QED BY <2>1, <2>2, <2>3 DEF Accounted
<1>11. CASE AckCursor
  BY <1>1, <1>11, AccountedUntouched DEF AckCursor, wireVars, hostVars, ownerVars
<1>12. CASE Save
  <2>1. saved' = acked /\ UNCHANGED <<down, oldest, processed, gap, handled, forgone>>
    BY <1>12 DEF Save, wireVars, hostVars
  <2>2. 1 .. acked \subseteq 1 .. processed
    BY OrderFacts
  <2> QED BY <2>1, <2>2 DEF Accounted
<1>13. ASSUME NEW c \in Command, ResolveUncertain(c) \/ Reconcile(c) PROVE Accounted'
  BY <1>1, <1>13, AccountedUntouched
     DEF ResolveUncertain, Reconcile, wireVars, hostVars, ownerVars
<1>14. CASE Crash
  <2>1. saved \in Cursor /\ Restart(saved) /\ UNCHANGED <<saved, handled, forgone>>
    BY <1>1, <1>14 DEF Crash, TypeOK
  <2> QED BY <1>1, <2>1, RestartAccounted DEF Accounted
<1>15. CASE AcceptGap
  <2>1. /\ gap \in Cursor /\ Restart(gap) /\ saved' = gap /\ handled' = handled
        /\ forgone' = forgone \union (processed + 1 .. gap)
    BY <1>1, <1>15 DEF AcceptGap, TypeOK
  <2>2. 1 .. gap \subseteq (1 .. processed) \union (processed + 1 .. gap)
    BY OrderFacts
  <2>3. \A n \in processed + 1 .. gap : n < oldest
    BY <1>1, OrderFacts, GapsAreNumbers DEF Accounted
  <2>4. /\ 1 .. gap \subseteq handled' \union forgone'
        /\ \A n \in forgone' : n < oldest
    BY <2>1, <2>2, <2>3 DEF Accounted
  <2> QED BY <1>1, <2>1, <2>4, RestartAccounted
<1>16. CASE UNCHANGED vars
  BY <1>1, <1>16, AccountedUntouched DEF vars, wireVars, hostVars, ownerVars
<1> QED BY <1>1, <1>2, <1>3, <1>4, <1>5, <1>6, <1>7, <1>8, <1>9, <1>10, <1>11, <1>12, <1>13,
           <1>14, <1>15, <1>16, NextCases

LEMMA InitAccounted == Init => Accounted
  BY NothingIn DEF Init, Accounted

\* The durable checkpoint covers only events that were handled or that the owner
\* gave up, and none of those was still in the host's log.
THEOREM NothingIsSkipped == Spec => []NothingSkipped
<1>1. Accounted => NothingSkipped
  BY DEF Accounted, NothingSkipped
<1>2. Spec => []Accounted
  BY AlwaysSafe, InitAccounted, NextAccounted, PTL DEF Spec
<1> QED BY <1>1, <1>2, PTL

-----------------------------------------------------------------------------
(* Nothing is done twice, no outcome is lost *)

Pending(c) == \E i \in DOMAIN pending : pending[i] = Call("mutate", c)
Sent(c) == \E m \in Range(up) : m.call = Call("mutate", c)
Placed(c) == executed[c] > 0 \/ c \in late \/ Sent(c)

\* A command has one request or is uncertain, and the owner knows it asked.
Tracked ==
    /\ \A i, j \in DOMAIN pending : \A c :
         pending[i] = Call("mutate", c) /\ pending[j] = Call("mutate", c) => i = j
    /\ \A c \in uncertain : ~Pending(c)
    /\ \A c \in Command :
         told[c] \in {"none", "failed"} => c \notin uncertain /\ ~Pending(c)

\* An answer about c tells what is so, and is the last that c is heard of.
Holds(m, c) ==
    /\ m.outcome = "result" => executed[c] > 0
    /\ m.outcome = "refused" => executed[c] = 0
    /\ c \notin late /\ ~Sent(c)

\* What travels under the id of a pending request belongs to it.
Carried ==
    /\ \A m \in Range(up) : m.id \in DOMAIN pending => pending[m.id] = m.call
    /\ \A m \in Range(down) : \A c \in Command :
         m.kind = "reply" /\ m.id \in DOMAIN pending /\ pending[m.id] = Call("mutate", c) =>
           Holds(m, c)

\* A command was done once, or may still be read by the host once, or neither.
Single ==
    \A c \in Command :
        /\ executed[c] \in {0, 1}
        /\ \A j, k \in 1 .. Len(up) :
             up[j].call = Call("mutate", c) /\ up[k].call = Call("mutate", c) => j = k
        /\ c \in late => executed[c] = 0 /\ ~Sent(c)
        /\ Sent(c) => executed[c] = 0

\* Whatever the host did or may do with it is on some account.
Known ==
    \A c \in Command :
        /\ Placed(c) => \/ told[c] \in {"done", "failed", "unknown"}
                        \/ c \in uncertain \/ Pending(c)
        /\ told[c] = "done" => executed[c] > 0
        /\ told[c] = "failed" => c \notin late /\ ~Sent(c)

Once == Tracked /\ Carried /\ Single /\ Known

LEMMA PendingIs ==
    ASSUME TypeOK
    PROVE  \A c : c \in Mutations(DOMAIN pending) <=> Pending(c)
<1>1. DOMAIN pending \in SUBSET DOMAIN pending
  OBVIOUS
<1> QED BY <1>1, MutationsAre DEF Pending

LEMMA MessagesUp ==
    ASSUME TypeOK
    PROVE  \A m \in Range(up) : m \in [id : Id, call : Calls] /\ m.call \in Calls
<1>1. up \in Seq([id : Id, call : Calls])
  BY DEF TypeOK
<1>2. \A m \in Range(up) : m \in [id : Id, call : Calls]
  BY <1>1, Within
<1> QED BY <1>2

LEMMA SentAt ==
    ASSUME TypeOK, NEW k \in 1 .. Len(up)
    PROVE  up[k] \in Range(up)
<1>1. DOMAIN up = 1 .. Len(up)
  BY DEF TypeOK
<1> QED BY <1>1 DEF Range

\* Steps that leave all of it alone.
LEMMA OnceUntouched ==
    ASSUME Once, UNCHANGED <<pending, uncertain, told, up, late, executed>>,
           \A m \in Range(down') : m.kind = "reply" => m \in Range(down)
    PROVE  Once'
<1>1. Tracked'
  BY DEF Once, Tracked, Pending
<1>2. Carried'
  BY DEF Once, Carried, Holds, Sent
<1>3. Single'
  BY DEF Once, Single, Sent
<1>4. Known'
  BY DEF Once, Known, Placed, Sent, Pending
<1> QED BY <1>1, <1>2, <1>3, <1>4 DEF Once

LEMMA AskingOnce ==
    ASSUME Safe, Once, Asking
    PROVE  Once'
<1>1. PICK call \in Calls :
        /\ Request(call)
        /\ call.kind = "mutate" => told[call.arg] \in {"none", "ambiguous"}
  BY DEF Asking
<1> DEFINE n == [id |-> FreshId, call |-> call]
<1>2. TypeOK
  BY DEF Safe
<1>3. FreshId \in Id /\ Fresh(FreshId)
  BY <1>1, FreshIdFacts
<1>4. /\ DOMAIN pending' = DOMAIN pending \union {FreshId}
      /\ \A i \in DOMAIN pending' : pending'[i] = IF i = FreshId THEN call ELSE pending[i]
      /\ FreshId \notin DOMAIN pending
  BY <1>1, <1>3 DEF Request, Fresh
<1>5. /\ up' = Append(up, n) /\ Len(up') = Len(up) + 1 /\ Len(up) \in Nat
      /\ \A k \in 1 .. Len(up) : up'[k] = up[k]
      /\ up'[Len(up) + 1] = n /\ Range(up') = Range(up) \union {n}
  <2> DEFINE S == [id : Id, call : Calls]
  <2>1. n \in S /\ up \in Seq(S)
    BY <1>2, <1>3 DEF TypeOK
  <2>2. up' = Append(up, n)
    BY <1>1 DEF Request
  <2> HIDE DEF S, n
  <2> QED BY <2>1, <2>2, PutLast
<1>6. UNCHANGED <<uncertain, down, late, executed>>
  BY <1>1 DEF Request, hostVars
<1>7. \A c : call = Call("mutate", c) <=> call.kind = "mutate" /\ call.arg = c
  BY CallFacts
<1>8. \A c : call = Call("mutate", c) =>
        /\ c \in Command /\ c \notin uncertain /\ ~Pending(c)
        /\ told[c] \in {"none", "ambiguous"} /\ told'[c] = "waiting"
  <2>1. ASSUME NEW c, call = Call("mutate", c)
        PROVE  /\ c \in Command /\ c \notin uncertain /\ ~Pending(c)
               /\ told[c] \in {"none", "ambiguous"} /\ told'[c] = "waiting"
    <3>1. call.kind = "mutate" /\ call.arg = c /\ c \in Command
      BY <2>1, <1>7, CallFacts
    <3>2. c \notin uncertain \union Mutations(DOMAIN pending)
      BY <1>1, <3>1 DEF Request, Allowed
    <3>3. told'[c] = "waiting"
      BY <1>1, <1>2, <3>1 DEF Request, TypeOK
    <3> QED BY <1>1, <1>2, <3>1, <3>2, <3>3, PendingIs
  <2> QED BY <2>1
<1>9. \A c \in Command : call # Call("mutate", c) => told'[c] = told[c]
  <2>1. CASE call.kind = "mutate"
    BY <1>1, <1>2, <1>7, <2>1 DEF Request, TypeOK
  <2>2. CASE call.kind # "mutate"
    BY <1>1, <2>2 DEF Request
  <2> QED BY <2>1, <2>2
<1>10. \A c : Pending(c)' <=> Pending(c) \/ call = Call("mutate", c)
  BY <1>4 DEF Pending
<1>11. \A c : Sent(c)' <=> Sent(c) \/ call = Call("mutate", c)
  BY <1>5 DEF Sent
<1>12. \A c \in Command : call = Call("mutate", c) => ~Placed(c)
  BY <1>8 DEF Once, Known
<1>13. Tracked'
  <2>1. \A i, j \in DOMAIN pending' : \A c :
          pending'[i] = Call("mutate", c) /\ pending'[j] = Call("mutate", c) => i = j
    BY <1>4, <1>8 DEF Once, Tracked, Pending
  <2>2. \A c \in uncertain' : ~Pending(c)'
    BY <1>6, <1>8, <1>10 DEF Once, Tracked
  <2>3. \A c \in Command :
          told'[c] \in {"none", "failed"} => c \notin uncertain' /\ ~Pending(c)'
    BY <1>6, <1>8, <1>9, <1>10 DEF Once, Tracked
  <2> QED BY <2>1, <2>2, <2>3 DEF Tracked
<1>14. Carried'
  <2>1. \A m \in Range(up) : m.id # FreshId
    BY <1>3 DEF Fresh
  <2>2. \A m \in Range(down) : m.kind = "reply" => m.id # FreshId
    BY <1>3 DEF Fresh
  <2>3. \A m \in Range(up') : m.id \in DOMAIN pending' => pending'[m.id] = m.call
    BY <1>4, <1>5, <2>1 DEF Once, Carried
  <2>4. \A m \in Range(down') : \A c \in Command :
          m.kind = "reply" /\ m.id \in DOMAIN pending' /\ pending'[m.id] = Call("mutate", c) =>
            Holds(m, c)'
    <3> SUFFICES ASSUME NEW m \in Range(down'), NEW c \in Command, m.kind = "reply",
                        m.id \in DOMAIN pending', pending'[m.id] = Call("mutate", c)
                 PROVE  Holds(m, c)'
      OBVIOUS
    <3>1. m \in Range(down) /\ m.id \in DOMAIN pending /\ pending[m.id] = Call("mutate", c)
      BY <1>4, <1>6, <2>2
    <3>2. Holds(m, c) /\ call # Call("mutate", c)
      BY <1>8, <3>1 DEF Once, Carried, Pending
    <3> QED BY <1>6, <1>11, <3>2 DEF Holds
  <2> QED BY <2>3, <2>4 DEF Carried
<1>15. Single'
  <2> SUFFICES ASSUME NEW c \in Command
      PROVE  /\ executed'[c] \in {0, 1}
             /\ \A j, k \in 1 .. Len(up') :
                  up'[j].call = Call("mutate", c) /\ up'[k].call = Call("mutate", c) => j = k
             /\ c \in late' => executed'[c] = 0 /\ ~Sent(c)'
             /\ Sent(c)' => executed'[c] = 0
    BY DEF Single
  <2>1. executed'[c] \in {0, 1} /\ executed' = executed /\ late' = late
    BY <1>6 DEF Once, Single
  <2>2. CASE call = Call("mutate", c)
    <3>1. executed[c] = 0 /\ c \notin late /\ ~Sent(c)
      BY <1>12, <2>2, <2>1 DEF Placed
    <3>2. \A j \in 1 .. Len(up) : up[j].call # Call("mutate", c)
      BY <3>1, <1>2, SentAt DEF Sent
    <3>3. \A j \in 1 .. Len(up') : j = Len(up) + 1 \/ j \in 1 .. Len(up)
      BY <1>5
    <3>4. \A j \in 1 .. Len(up') : up'[j].call = Call("mutate", c) => j = Len(up) + 1
      BY <1>5, <3>2, <3>3
    <3> QED BY <2>1, <3>1, <3>4
  <2>3. CASE call # Call("mutate", c)
    <3>1. \A j \in 1 .. Len(up') :
            up'[j].call = Call("mutate", c) => j \in 1 .. Len(up) /\ up'[j] = up[j]
      <4>1. n.call = call
        OBVIOUS
      <4>2. \A j \in 1 .. Len(up') : j = Len(up) + 1 \/ j \in 1 .. Len(up)
        BY <1>5
      <4> QED BY <1>5, <2>3, <4>1, <4>2
    <3> QED BY <1>11, <2>1, <2>3, <3>1 DEF Once, Single
  <2> QED BY <2>2, <2>3
<1>16. Known'
  <2> SUFFICES ASSUME NEW c \in Command
      PROVE  /\ Placed(c)' => \/ told'[c] \in {"done", "failed", "unknown"}
                              \/ c \in uncertain' \/ Pending(c)'
             /\ told'[c] = "done" => executed'[c] > 0
             /\ told'[c] = "failed" => c \notin late' /\ ~Sent(c)'
    BY DEF Known
  <2>1. CASE call = Call("mutate", c)
    BY <2>1, <1>8, <1>10
  <2>2. CASE call # Call("mutate", c)
    BY <2>2, <1>6, <1>9, <1>10, <1>11 DEF Once, Known, Placed
  <2> QED BY <2>1, <2>2
<1> QED BY <1>13, <1>14, <1>15, <1>16 DEF Once

\* The connection's death moves what was on its way to what may still be read.
LEMMA CutOffPlaced ==
    ASSUME TypeOK, Once, CutOff
    PROVE  /\ up' = <<>> /\ down' = <<>> /\ executed' = executed
           /\ \A c : ~Sent(c)'
           /\ \A c \in Command : (c \in late' <=> c \in late \/ Sent(c))
           /\ Single'
<1>1. up' = <<>> /\ down' = <<>> /\ executed' = executed
  BY DEF CutOff
<1>2. \A c \in Command : c \in late' <=> c \in late \/ Sent(c)
  BY CutOffTypes DEF Sent
<1>3. \A c : ~Sent(c)'
  BY <1>1, NothingIn DEF Sent
<1>4. \A j \in 1 .. Len(up') : FALSE
  BY <1>1
<1>5. Single'
  BY <1>1, <1>2, <1>3, <1>4 DEF Once, Single
<1> QED BY <1>1, <1>2, <1>3, <1>5

\* Lost requests leave their commands uncertain, with or without the connection.
LEMMA LosingOnce ==
    ASSUME Safe, Once, NEW ids \in SUBSET DOMAIN pending, LosePending(ids),
           CutOff \/ UNCHANGED <<up, down, late, executed>>
    PROVE  Once'
<1>1. /\ DOMAIN pending' = DOMAIN pending \ ids
      /\ \A i \in DOMAIN pending' : pending'[i] = pending[i]
      /\ uncertain' = uncertain \union Mutations(ids)
      /\ \A c \in Command : \/ told'[c] = told[c]
                            \/ c \in Mutations(ids) /\ told'[c] = "ambiguous"
  BY Lost DEF Safe
<1>2. \A c : c \in Mutations(ids) <=> \E i \in ids : pending[i] = Call("mutate", c)
  BY MutationsAre DEF Safe
<1>3. \A c : /\ Pending(c)' => Pending(c)
             /\ Pending(c) => c \in Mutations(ids) \/ Pending(c)'
             /\ c \in Mutations(ids) => Pending(c) /\ ~Pending(c)'
  BY <1>1, <1>2 DEF Pending, Once, Tracked
<1>4. Tracked'
  <2>1. \A i, j \in DOMAIN pending' : \A c :
          pending'[i] = Call("mutate", c) /\ pending'[j] = Call("mutate", c) => i = j
    BY <1>1 DEF Once, Tracked
  <2>2. \A c \in uncertain' : ~Pending(c)'
    BY <1>1, <1>3 DEF Once, Tracked
  <2>3. \A c \in Command :
          told'[c] \in {"none", "failed"} => c \notin uncertain' /\ ~Pending(c)'
    BY <1>1, <1>3 DEF Once, Tracked
  <2> QED BY <2>1, <2>2, <2>3 DEF Tracked
<1>5. Carried' /\ Single' /\ \A c \in Command : Placed(c)' => Placed(c)
  <2>1. CASE CutOff
    <3>1. Single' /\ executed' = executed /\ \A c \in Command : Placed(c)' => Placed(c)
      BY <2>1, CutOffPlaced DEF Safe, Placed
    <3>2. Carried'
      BY <2>1, CutOffPlaced, NothingIn DEF Safe, Carried
    <3> QED BY <3>1, <3>2
  <2>2. CASE UNCHANGED <<up, down, late, executed>>
    BY <1>1, <2>2 DEF Once, Carried, Holds, Single, Placed, Sent
  <2> QED BY <2>1, <2>2
<1>6. executed' = executed
  BY CutOffPlaced DEF Safe
<1>7. \A c \in Command : c \notin late /\ ~Sent(c) => c \notin late' /\ ~Sent(c)'
  <2>1. CASE CutOff
    BY <2>1, CutOffPlaced DEF Safe
  <2>2. CASE UNCHANGED <<up, down, late, executed>>
    BY <2>2 DEF Sent
  <2> QED BY <2>1, <2>2
<1>8. Known'
  BY <1>1, <1>3, <1>5, <1>6, <1>7 DEF Once, Known
<1> QED BY <1>4, <1>5, <1>8 DEF Once

\* A new process knows of what it left only that it was asked for.
LEMMA RestartOnce ==
    ASSUME Safe, Once, NEW checkpoint, Restart(checkpoint)
    PROVE  Once'
<1>1. DOMAIN pending' = {} /\ uncertain' = {} /\ \A c : ~Pending(c)'
  BY DEF Restart, EmptyMap, Pending
<1>2. CutOff /\ TypeOK
  BY DEF Restart, Safe
<1>3. \A c \in Command :
        told'[c] = IF told[c] \in {"waiting", "ambiguous"} THEN "unknown" ELSE told[c]
  BY DEF Restart
<1>4. \A c \in Command : /\ Placed(c)' => Placed(c)
                         /\ Placed(c) => told[c] # "none"
  BY <1>2, CutOffPlaced DEF Placed, Once, Known, Tracked
<1>5. Tracked'
  BY <1>1 DEF Tracked
<1>6. Carried'
  BY <1>2, CutOffPlaced, NothingIn DEF Carried
<1>7. Known'
  BY <1>2, <1>3, <1>4, CutOffPlaced DEF Known, Once, Safe, TypeOK
<1> QED BY <1>2, <1>5, <1>6, <1>7, CutOffPlaced DEF Once

LEMMA SettleOnce ==
    ASSUME Safe, Once, NEW m \in Range(down), m.kind = "reply", m.outcome \in Outcome,
           m.id \in DOMAIN pending, Settle(m), UNCHANGED <<up, late, executed>>,
           \A r \in Range(down') : r \in Range(down)
    PROVE  Once'
<1>1. /\ DOMAIN pending' = DOMAIN pending \ {m.id}
      /\ \A i \in DOMAIN pending' : pending'[i] = pending[i]
      /\ uncertain' = uncertain
  BY DEF Settle, Restrict
<1>2. pending[m.id] \in Calls
  BY DEF Safe, TypeOK
<1>3. ASSUME NEW c \in Command, pending[m.id] = Call("mutate", c)
      PROVE  Holds(m, c) /\ told'[c] = Learned(m.outcome) /\ ~Pending(c)' /\ c \notin uncertain
  <2>1. Holds(m, c)
    BY <1>3 DEF Once, Carried
  <2>2. told'[c] = Learned(m.outcome)
    BY <1>2, <1>3, CallFacts DEF Settle, Safe, TypeOK
  <2>3. ~Pending(c)'
    BY <1>1, <1>3 DEF Pending, Once, Tracked
  <2>4. c \notin uncertain
    BY <1>3 DEF Pending, Once, Tracked
  <2> QED BY <2>1, <2>2, <2>3, <2>4
<1>4. ASSUME NEW c \in Command, pending[m.id] # Call("mutate", c)
      PROVE  told'[c] = told[c] /\ (Pending(c)' <=> Pending(c))
  <2>1. told'[c] = told[c]
    BY <1>2, <1>4, CallFacts DEF Settle, Safe, TypeOK
  <2>2. Pending(c)' <=> Pending(c)
    BY <1>1, <1>4 DEF Pending
  <2> QED BY <2>1, <2>2
<1>5. Tracked'
  <2>1. \A i, j \in DOMAIN pending' : \A c :
          pending'[i] = Call("mutate", c) /\ pending'[j] = Call("mutate", c) => i = j
    BY <1>1 DEF Once, Tracked
  <2>2. \A c \in uncertain' : ~Pending(c)'
    BY <1>1 DEF Pending, Once, Tracked
  <2>3. \A c \in Command :
          told'[c] \in {"none", "failed"} => c \notin uncertain' /\ ~Pending(c)'
    BY <1>1, <1>3, <1>4 DEF Once, Tracked
  <2> QED BY <2>1, <2>2, <2>3 DEF Tracked
<1>6. Carried'
  BY <1>1 DEF Once, Carried, Holds, Sent
<1>7. Single'
  BY DEF Once, Single, Sent
<1>8. \A c \in Command : Placed(c)' <=> Placed(c)
  BY DEF Placed, Sent
<1>9. \A c \in Command : Sent(c)' <=> Sent(c)
  BY DEF Sent
<1>10. Known'
  <2> SUFFICES ASSUME NEW c \in Command
      PROVE  /\ Placed(c)' => \/ told'[c] \in {"done", "failed", "unknown"}
                              \/ c \in uncertain' \/ Pending(c)'
             /\ told'[c] = "done" => executed'[c] > 0
             /\ told'[c] = "failed" => c \notin late' /\ ~Sent(c)'
    BY DEF Known
  <2>1. CASE pending[m.id] = Call("mutate", c)
    <3>1. Holds(m, c) /\ told'[c] = Learned(m.outcome)
      BY <1>3, <2>1
    <3>2. executed[c] \in Nat
      BY DEF Safe, TypeOK
    <3>3. CASE m.outcome = "result"
      BY <3>1, <3>3 DEF Holds, Learned
    <3>4. CASE m.outcome = "refused"
      <4>1. told'[c] = "none" /\ ~Placed(c)
        BY <3>1, <3>2, <3>4 DEF Holds, Learned, Placed
      <4> QED BY <4>1, <1>8
    <3>5. CASE m.outcome = "failed"
      <4>1. told'[c] = "failed" /\ c \notin late /\ ~Sent(c)
        BY <3>1, <3>5 DEF Holds, Learned
      <4> QED BY <4>1, <1>9
    <3> QED BY <3>3, <3>4, <3>5 DEF Outcome
  <2>2. CASE pending[m.id] # Call("mutate", c)
    BY <1>1, <1>4, <1>8, <1>9, <2>2 DEF Once, Known
  <2> QED BY <2>1, <2>2
<1> QED BY <1>5, <1>6, <1>7, <1>10 DEF Once

LEMMA ReceiveOnce ==
    ASSUME Safe, Once, Receive
    PROVE  Once'
<1> DEFINE m == Head(down)
<1>1. m \in Answer \union Live /\ Range(down) = {m} \union Range(Tail(down))
  BY TakeFirst DEF Receive, Safe, TypeOK
<1>2. CASE /\ Acceptable(m)
           /\ IF m.kind = "reply" THEN Settle(m)
              ELSE UNCHANGED <<phase, requestVars, gap>>
           /\ down' = Tail(down)
           /\ UNCHANGED <<open, up, notes, live, hostVars, processed, saved, handled,
                          forgone>>
  <2>1. UNCHANGED <<up, late, executed>> /\ \A r \in Range(down') : r \in Range(down)
    BY <1>1, <1>2 DEF hostVars
  <2>2. CASE m.kind = "reply"
    <3>1. m.id \in DOMAIN pending /\ m.outcome \in Outcome
      BY <1>1, <1>2, <2>2, MessageFacts DEF Acceptable
    <3> QED BY <1>1, <1>2, <2>1, <2>2, <3>1, SettleOnce
  <2>3. CASE m.kind # "reply"
    BY <1>2, <2>1, <2>3, OnceUntouched DEF requestVars
  <2> QED BY <2>2, <2>3
<1>3. CASE Disconnected
  <2>1. DOMAIN pending \in SUBSET DOMAIN pending
    OBVIOUS
  <2> QED BY <1>3, <2>1, LosingOnce DEF Disconnected
<1> QED BY <1>2, <1>3 DEF Receive

LEMMA ServeOnce ==
    ASSUME Safe, Once, Serving
    PROVE  Once'
<1> PICK outcome \in Outcome, effect \in BOOLEAN : Serve(outcome, effect)
  BY DEF Serving
<1> DEFINE m == Head(up)  r == Reply(m, outcome)
<1>1. TypeOK
  BY DEF Safe
<1>2. /\ m.call \in Calls /\ r \in Answer /\ r.id = m.id /\ r.outcome = outcome
      /\ down' = Append(down, r) /\ up' = Tail(up)
      /\ executed' = IF m.call.kind = "mutate" /\ effect
                     THEN [executed EXCEPT ![m.call.arg] = @ + 1] ELSE executed
  BY <1>1, Served
<1>3. /\ Len(up) \in Nat \ {0} /\ m = up[1] /\ Len(up') = Len(up) - 1
      /\ \A k \in 1 .. Len(up') : up'[k] = up[k + 1]
      /\ Range(up) = {m} \union Range(up')
  <2> DEFINE S == [id : Id, call : Calls]
  <2>1. up \in Seq(S) /\ up # <<>>
    BY <1>1 DEF Serve, TypeOK
  <2> HIDE DEF S
  <2> QED BY <1>2, <2>1, TakeFirst
<1>4. Range(down') = Range(down) \union {r}
  <2> DEFINE S == Answer \union Live
  <2>1. down \in Seq(S) /\ r \in S
    BY <1>1, <1>2 DEF TypeOK
  <2> HIDE DEF S, m, r
  <2> QED BY <1>2, <2>1, PutLast
<1>5. UNCHANGED <<pending, uncertain, told, late>>
  BY DEF Serve, requestVars
<1>6. \A c : Sent(c) <=> m.call = Call("mutate", c) \/ Sent(c)'
  BY <1>3 DEF Sent
<1>7. ASSUME NEW c \in Command, m.call = Call("mutate", c)
      PROVE  /\ executed[c] = 0 /\ c \notin late /\ ~Sent(c)'
             /\ effect => executed'[c] = 1
             /\ ~effect => executed'[c] = 0
  <2>1. Sent(c) /\ executed[c] = 0 /\ c \notin late
    BY <1>6, <1>7 DEF Once, Single
  <2>2. m.call.kind = "mutate" /\ m.call.arg = c /\ executed \in [Command -> Nat]
    BY <1>1, <1>2, <1>7, CallFacts DEF TypeOK
  <2>4. effect => executed'[c] = 1
    <3>1. ASSUME effect PROVE executed'[c] = 1
      <4>1. executed' = [executed EXCEPT ![c] = @ + 1]
        BY <1>2, <2>2, <3>1
      <4> QED BY <2>1, <2>2, <4>1
    <3> QED BY <3>1
  <2>5. ~effect => executed'[c] = 0
    <3>1. ASSUME ~effect PROVE executed'[c] = 0
      <4>1. executed' = executed
        BY <1>2, <3>1
      <4> QED BY <2>1, <4>1
    <3> QED BY <3>1
  <2>3. ASSUME Sent(c)' PROVE FALSE
    <3>1. PICK k \in DOMAIN up' : up'[k].call = Call("mutate", c)
      BY <2>3 DEF Sent, Range
    <3>2. DOMAIN up' = 1 .. Len(up')
      <4>1. up' \in Seq([id : Id, call : Calls])
        BY <1>1, <1>2, TakeFirst DEF Serve, TypeOK
      <4> QED BY <4>1
    <3>3. k + 1 \in 1 .. Len(up) /\ 1 \in 1 .. Len(up) /\ k + 1 # 1
      BY <1>3, <3>1, <3>2
    <3>4. up[k + 1].call = Call("mutate", c) /\ up[1].call = Call("mutate", c)
      BY <1>3, <1>7, <3>1, <3>2
    <3> QED BY <3>3, <3>4 DEF Once, Single
  <2> QED BY <2>1, <2>3, <2>4, <2>5
<1>8. ASSUME NEW c \in Command, m.call # Call("mutate", c)
      PROVE  executed'[c] = executed[c]
  BY <1>1, <1>2, <1>8, CallFacts DEF TypeOK
<1>9. Tracked'
  BY <1>5 DEF Once, Tracked, Pending
<1>10. Carried'
  <2>1. \A q \in Range(up') : q.id \in DOMAIN pending' => pending'[q.id] = q.call
    BY <1>3, <1>5 DEF Once, Carried
  <2>2. ASSUME NEW a \in Range(down'), NEW c \in Command, a.kind = "reply",
               a.id \in DOMAIN pending', pending'[a.id] = Call("mutate", c)
        PROVE  Holds(a, c)'
    <3>1. CASE a \in Range(down)
      <4>1. Holds(a, c)
        BY <1>5, <2>2, <3>1 DEF Once, Carried
      <4>2. m.call # Call("mutate", c)
        BY <1>6, <4>1 DEF Holds
      <4>3. ~Sent(c)' /\ late' = late /\ executed'[c] = executed[c]
        BY <1>5, <1>6, <1>8, <4>1, <4>2 DEF Holds
      <4> QED BY <4>1, <4>3 DEF Holds
    <3>2. CASE a = r
      <4>1. m \in Range(up) /\ m.id \in DOMAIN pending /\ pending[m.id] = Call("mutate", c)
        BY <1>2, <1>3, <1>5, <2>2, <3>2
      <4>2. m.call = Call("mutate", c)
        BY <4>1 DEF Once, Carried
      <4>3. a.outcome = outcome
        BY <1>2, <3>2
      <4>4. (outcome = "result" => effect) /\ (outcome = "refused" => ~effect)
        BY DEF Serve
      <4>5. /\ a.outcome = "result" => executed'[c] > 0
            /\ a.outcome = "refused" => executed'[c] = 0
        BY <1>7, <4>2, <4>3, <4>4
      <4>6. c \notin late' /\ ~Sent(c)'
        BY <1>5, <1>7, <4>2
      <4> QED BY <4>5, <4>6 DEF Holds
    <3> QED BY <1>4, <2>2, <3>1, <3>2
  <2> QED BY <2>1, <2>2 DEF Carried
<1>11. Single'
  <2>1. \A c \in Command :
          /\ executed'[c] \in {0, 1}
          /\ c \in late' => executed'[c] = 0 /\ ~Sent(c)'
          /\ Sent(c)' => executed'[c] = 0
    <3> SUFFICES ASSUME NEW c \in Command
                 PROVE  /\ executed'[c] \in {0, 1}
                        /\ c \in late' => executed'[c] = 0 /\ ~Sent(c)'
                        /\ Sent(c)' => executed'[c] = 0
      OBVIOUS
    <3>1. CASE m.call = Call("mutate", c)
      BY <1>5, <1>7, <3>1
    <3>2. CASE m.call # Call("mutate", c)
      BY <1>5, <1>6, <1>8, <3>2 DEF Once, Single
    <3> QED BY <3>1, <3>2
  <2>2. ASSUME NEW c \in Command, NEW j \in 1 .. Len(up'), NEW k \in 1 .. Len(up'),
               up'[j].call = Call("mutate", c), up'[k].call = Call("mutate", c)
        PROVE  j = k
    <3>1. j + 1 \in 1 .. Len(up) /\ k + 1 \in 1 .. Len(up)
      BY <1>3
    <3>2. up[j + 1].call = Call("mutate", c) /\ up[k + 1].call = Call("mutate", c)
      BY <1>3, <2>2
    <3>3. j + 1 = k + 1
      BY <3>1, <3>2 DEF Once, Single
    <3> QED BY <3>3
  <2> QED BY <2>1, <2>2 DEF Single
<1>12. Known'
  <2>1. \A c \in Command : Placed(c)' => Placed(c)
    BY <1>5, <1>6, <1>7, <1>8 DEF Placed
  <2>2. \A c \in Command : executed[c] > 0 => executed'[c] > 0
    BY <1>7, <1>8
  <2>3. \A c \in Command : Sent(c)' => Sent(c)
    BY <1>6
  <2> QED BY <1>5, <2>1, <2>2, <2>3 DEF Once, Known, Pending
<1> QED BY <1>9, <1>10, <1>11, <1>12 DEF Once

LEMMA FinishLateOnce ==
    ASSUME Safe, Once, NEW c \in Command, FinishLate(c)
    PROVE  Once'
<1>1. UNCHANGED <<pending, uncertain, told, up, down>> /\ late' = late \ {c} /\ c \in late
  BY DEF FinishLate, requestVars, wireVars
<1>2. executed[c] = 0 /\ ~Sent(c)
  BY <1>1 DEF Once, Single
<1>3. /\ executed'[c] \in {0, 1}
      /\ \A d \in Command \ {c} : executed'[d] = executed[d]
      /\ \A d \in Command : executed[d] > 0 => executed'[d] > 0
  <2>1. executed \in [Command -> Nat]
    BY DEF Safe, TypeOK
  <2>2. CASE executed' = [executed EXCEPT ![c] = @ + 1]
    BY <1>2, <2>1, <2>2
  <2>3. CASE executed' = executed
    BY <1>2, <2>3
  <2> QED BY <2>2, <2>3 DEF FinishLate
<1>4. Tracked'
  BY <1>1 DEF Once, Tracked, Pending
<1>5. Carried'
  BY <1>1, <1>3 DEF Once, Carried, Holds, Sent
<1>6. Single'
  BY <1>1, <1>2, <1>3 DEF Once, Single, Sent
<1>7. Known'
  <2>1. \A d \in Command : Placed(d)' => Placed(d)
    BY <1>1, <1>3 DEF Placed, Sent
  <2>2. \A d \in Command : Sent(d)' <=> Sent(d)
    BY <1>1 DEF Sent
  <2> QED BY <1>1, <1>3, <2>1, <2>2 DEF Once, Known, Pending
<1> QED BY <1>4, <1>5, <1>6, <1>7 DEF Once

LEMMA ResolveUncertainOnce ==
    ASSUME Safe, Once, NEW c \in Command, ResolveUncertain(c)
    PROVE  Once'
<1>1. /\ UNCHANGED <<pending, up, down, late, executed>> /\ uncertain' = uncertain \ {c}
      /\ c \in uncertain /\ c \notin late /\ ~Sent(c)
  BY DEF ResolveUncertain, wireVars, hostVars, Sent
<1>2. ~Pending(c)
  BY <1>1 DEF Once, Tracked
<1>3. /\ told'[c] = IF executed[c] > 0 THEN "done" ELSE "none"
      /\ \A d \in Command \ {c} : told'[d] = told[d]
  BY DEF ResolveUncertain, Safe, TypeOK
<1>4. Tracked'
  BY <1>1, <1>2, <1>3 DEF Once, Tracked, Pending
<1>5. Carried' /\ Single'
  BY <1>1 DEF Once, Carried, Holds, Single, Sent
<1>6. Known'
  BY <1>1, <1>3 DEF Once, Known, Placed, Sent, Pending
<1> QED BY <1>4, <1>5, <1>6 DEF Once

LEMMA ReconcileOnce ==
    ASSUME Safe, Once, NEW c \in Command, Reconcile(c)
    PROVE  Once'
<1>1. UNCHANGED <<pending, uncertain, up, down, late, executed>> /\ told[c] = "failed"
  BY DEF Reconcile, wireVars, hostVars
<1>2. c \notin late /\ ~Sent(c) /\ c \notin uncertain /\ ~Pending(c)
  BY <1>1 DEF Once, Known, Tracked
<1>3. /\ told'[c] = IF executed[c] > 0 THEN "done" ELSE "none"
      /\ \A d \in Command \ {c} : told'[d] = told[d]
  BY DEF Reconcile, Safe, TypeOK
<1>4. Tracked'
  BY <1>1, <1>2, <1>3 DEF Once, Tracked, Pending
<1>5. Carried' /\ Single'
  BY <1>1 DEF Once, Carried, Holds, Single, Sent
<1>6. Known'
  BY <1>1, <1>2, <1>3 DEF Once, Known, Placed, Sent, Pending
<1> QED BY <1>4, <1>5, <1>6 DEF Once

LEMMA InitOnce == Init => Once
  BY NothingIn DEF Init, EmptyMap, Once, Tracked, Carried, Single, Known, Placed, Sent, Pending

LEMMA NextOnce == Safe /\ Once /\ [Next]_vars => Once'
<1> SUFFICES ASSUME Safe, Once, [Next]_vars PROVE Once'
  OBVIOUS
<1>1. TypeOK
  BY DEF Safe
<1>2. ASSUME NEW i \in Id, Expire(i) PROVE Once'
  <2>1. {i} \in SUBSET DOMAIN pending
    BY <1>2 DEF Expire, Safe, CallersAreServed
  <2> QED BY <1>2, <2>1, LosingOnce DEF Expire, wireVars, hostVars
<1>3. CASE ConnectionLost \/ Reconnect
  <2>1. DOMAIN pending \in SUBSET DOMAIN pending
    OBVIOUS
  <2>2. LosePending(DOMAIN pending) /\ CutOff
    BY <1>3 DEF ConnectionLost, Reconnect, Disconnected
  <2> QED BY <2>1, <2>2, LosingOnce
<1>4. CASE Emit
  BY <1>4, OnceUntouched DEF Emit, requestVars
<1>5. CASE Push
  <2> DEFINE S == Answer \union Live
             m == [kind |-> "live", from |-> Head(notes), last |-> Head(notes)]
  <2>1. Head(notes) \in Cursor
    BY <1>1, <1>5, TakeFirst DEF Push, TypeOK
  <2>2. m \in S /\ m.kind = "live" /\ down \in Seq(S) /\ down' = Append(down, m)
    BY <1>1, <1>5, <2>1 DEF Live, Push, TypeOK
  <2> HIDE DEF S, m
  <2>3. Range(down') = Range(down) \union {m}
    BY <2>2, PutLast
  <2> QED BY <1>5, <2>2, <2>3, OnceUntouched DEF Push, requestVars, hostVars
<1>6. CASE Process \/ AckCursor \/ Save
  BY <1>6, OnceUntouched DEF Process, AckCursor, Save, requestVars, wireVars, hostVars
<1>7. CASE Crash \/ AcceptGap
  <2>1. PICK checkpoint : Restart(checkpoint)
    BY <1>7 DEF Crash, AcceptGap
  <2> QED BY <2>1, RestartOnce
<1>8. CASE UNCHANGED vars
  BY <1>8, OnceUntouched DEF vars, requestVars, wireVars, hostVars
<1> QED BY <1>1, <1>2, <1>3, <1>4, <1>5, <1>6, <1>7, <1>8, NextCases, AskingOnce, ReceiveOnce,
           ServeOnce, FinishLateOnce, ResolveUncertainOnce, ReconcileOnce

LEMMA AlwaysOnce == Spec => []Once
  BY AlwaysSafe, InitOnce, NextOnce, PTL DEF Spec

\* An owner that asks again whenever it has no answer, or was refused, has nothing
\* done twice, whatever times out, is cut off, is read late, fails after its work,
\* or is reconciled (client.ex:5).
THEOREM DoneOnceHolds == Spec => []DoneOnce
<1>1. Once => DoneOnce
  BY DEF Once, Single, DoneOnce
<1> QED BY <1>1, AlwaysOnce, PTL

\* What the host did, or may still do, is pending, uncertain, or known to the owner
\* as done, as unknown or as left to it by an answer that tells nothing (README.md:97
\* of the protocol).  What is answered as done was done, and after either answer the
\* host does it no more.
THEOREM OutcomesKept == Spec => []OutcomesAreKept
<1>1. Safe /\ Once => OutcomesAreKept
  <2> SUFFICES ASSUME TypeOK, Single, Known PROVE OutcomesAreKept
    BY DEF Safe, Once
  <2> QED BY PendingIs DEF Single, Known, Placed, Sent, MayDo, OutcomesAreKept
<1> QED BY <1>1, AlwaysSafe, AlwaysOnce, PTL

=============================================================================
