---------------------------- MODULE Notification ----------------------------
(***************************************************************************)
(* What the delivery of an event promises about what it says of the        *)
(* Agent's side: it may doubt as long as it likes, but it never denies a   *)
(* notification the Agent has, or can still get, and never claims that the *)
(* Agent keeps one it does not.                                            *)
(***************************************************************************)
CONSTANT Id             \* the notifications

VARIABLES copy,         \* what the Agent has of each
          wire,         \* those with a request that may still arrive
          belief        \* what the Hub says of each

vars == <<copy, wire, belief>>

Copy == {"absent", "received", "durable"}
Belief == {"none", "maybe", "durable"}

Init ==
    /\ copy = [d \in Id |-> "absent"]
    /\ wire = {}
    /\ belief = [d \in Id |-> "none"]

Send(d) ==
    /\ wire' = wire \cup {d}
    /\ belief' = [belief EXCEPT ![d] = IF belief[d] = "none" THEN "maybe"
                                       ELSE belief[d]]
    /\ UNCHANGED copy

\* A request arrives, is refused or is lost; another may still be on its way.
Arrive(d, c, left) ==
    /\ d \in wire
    /\ copy' = [copy EXCEPT ![d] = IF copy[d] = "durable" THEN "durable" ELSE c]
    /\ wire' = IF left THEN wire ELSE wire \ {d}
    /\ UNCHANGED belief

Refuse(d) ==
    /\ wire' = wire \ {d}
    /\ UNCHANGED <<copy, belief>>

\* The Agent keeps for good what it has received, or loses it.
Persist(d) ==
    /\ copy[d] = "received"
    /\ copy' = [copy EXCEPT ![d] = "durable"]
    /\ UNCHANGED <<wire, belief>>

Forget(d) ==
    /\ copy[d] = "received"
    /\ copy' = [copy EXCEPT ![d] = "absent"]
    /\ UNCHANGED <<wire, belief>>

\* Several at once when the platform closes.
Doubt(S) ==
    /\ \A d \in S : belief[d] = "none"
    /\ belief' = [d \in Id |-> IF d \in S THEN "maybe" ELSE belief[d]]
    /\ UNCHANGED <<copy, wire>>

Deny(d) ==
    /\ copy[d] = "absent"
    /\ d \notin wire
    /\ belief[d] = "maybe"
    /\ belief' = [belief EXCEPT ![d] = "none"]
    /\ UNCHANGED <<copy, wire>>

Confirm(d) ==
    /\ copy[d] = "durable"
    /\ belief' = [belief EXCEPT ![d] = "durable"]
    /\ UNCHANGED <<copy, wire>>

Next ==
    \/ \E d \in Id :
        \/ Send(d) \/ Refuse(d) \/ Persist(d) \/ Forget(d) \/ Deny(d) \/ Confirm(d)
        \/ \E c \in {"received", "durable"}, left \in BOOLEAN : Arrive(d, c, left)
    \/ \E S \in SUBSET Id : Doubt(S)

Spec == Init /\ [][Next]_vars

\* What is said is never less than what is, nor a promise the Agent does not keep.
Honest == \A d \in Id :
    /\ belief[d] = "none" => copy[d] = "absent" /\ d \notin wire
    /\ belief[d] = "durable" => copy[d] = "durable"

=============================================================================
