------------------------------ MODULE TaskLease ------------------------------
(***************************************************************************)
(* What the execution core promises about a Task, without connections,     *)
(* epochs, deadlines or management states: an execution is granted at most *)
(* once, one at a time, and never while a former execution of the same     *)
(* Task is unsettled, that is, lost without evidence of its effects.       *)
(***************************************************************************)
CONSTANTS Id,           \* the executions that may ever be granted
          SameTask(_, _)

VARIABLES granted,      \* executions granted so far
          holding,      \* executions that hold their Task
          unsettled     \* executions that lost it with effects unknown

vars == <<granted, holding, unsettled>>

Init == granted = {} /\ holding = {} /\ unsettled = {}

Grant(a) ==
    /\ a \notin granted
    /\ \A b \in holding \cup unsettled : ~SameTask(a, b)
    /\ granted' = granted \cup {a}
    /\ holding' = holding \cup {a}
    /\ UNCHANGED unsettled

\* The execution ends and says what it did.
Finish(a) ==
    /\ a \in holding
    /\ holding' = holding \ {a}
    /\ UNCHANGED <<granted, unsettled>>

\* Executions are cut off, several at once when the platform closes.
Lose(S) ==
    /\ S # {}
    /\ S \subseteq holding
    /\ holding' = holding \ S
    /\ unsettled' = unsettled \cup S
    /\ UNCHANGED granted

Settle(a) ==
    /\ a \in unsettled
    /\ unsettled' = unsettled \ {a}
    /\ UNCHANGED <<granted, holding>>

Next ==
    \/ \E a \in Id : Grant(a) \/ Finish(a) \/ Settle(a)
    \/ \E S \in SUBSET Id : Lose(S)

Spec == Init /\ [][Next]_vars

\* No two executions of a Task are open, whether running or unsettled.
Exclusive ==
    \A a, b \in holding \cup unsettled : SameTask(a, b) => a = b

=============================================================================
