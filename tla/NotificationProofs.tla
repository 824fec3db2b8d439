------------------------- MODULE NotificationProofs -------------------------
(* What the abstract notification of Notification promises, proved. *)
EXTENDS Notification, TLAPS

TypeInv ==
    /\ copy \in [Id -> Copy]
    /\ wire \subseteq Id
    /\ belief \in [Id -> Belief]

HonestInv == TypeInv /\ Honest

\* Honesty is inductive once the types are known: a doubt is given up only when
\* nothing has arrived and nothing can (Deny), and a promise is made only of what
\* the Agent keeps (Confirm).
LEMMA HonestStep == HonestInv /\ [Next]_vars => HonestInv'
<1> SUFFICES ASSUME HonestInv, [Next]_vars
             PROVE  HonestInv'
    OBVIOUS
<1> USE DEF HonestInv, TypeInv, Honest, Copy, Belief
<1>1. CASE UNCHANGED vars
    BY <1>1 DEF vars
<1>2. ASSUME NEW d \in Id, Send(d)
      PROVE  HonestInv'
    BY <1>2 DEF Send
<1>3. ASSUME NEW d \in Id, Refuse(d)
      PROVE  HonestInv'
    BY <1>3 DEF Refuse
<1>4. ASSUME NEW d \in Id, Persist(d)
      PROVE  HonestInv'
    BY <1>4 DEF Persist
<1>5. ASSUME NEW d \in Id, Forget(d)
      PROVE  HonestInv'
    BY <1>5 DEF Forget
<1>6. ASSUME NEW d \in Id, Deny(d)
      PROVE  HonestInv'
    BY <1>6 DEF Deny
<1>7. ASSUME NEW d \in Id, Confirm(d)
      PROVE  HonestInv'
    BY <1>7 DEF Confirm
<1>8. ASSUME NEW d \in Id, NEW c \in {"received", "durable"}, NEW left \in BOOLEAN,
             Arrive(d, c, left)
      PROVE  HonestInv'
    BY <1>8 DEF Arrive
<1>9. ASSUME NEW S \in SUBSET Id, Doubt(S)
      PROVE  HonestInv'
    BY <1>9 DEF Doubt
<1> QED
    BY <1>1, <1>2, <1>3, <1>4, <1>5, <1>6, <1>7, <1>8, <1>9 DEF Next

\* The Hub never denies a notification that the Agent has or may still get, and
\* never claims that the Agent keeps one it does not.
THEOREM AlwaysHonest == Spec => []Honest
<1>1. Init => HonestInv
    BY DEF Init, HonestInv, TypeInv, Honest, Copy, Belief
<1>2. HonestInv /\ [Next]_vars => HonestInv'
    BY HonestStep
<1>3. HonestInv => Honest
    BY DEF HonestInv
<1> QED
    BY <1>1, <1>2, <1>3, PTL DEF Spec

=============================================================================
