----------------------------- MODULE MCCommands -----------------------------
(* Two Projects with a Task each, two Agents that follow both Projects. *)
EXTENDS Commands, TLC

CONSTANTS c1, c2, c3

MCProjectOf == [t \in 1 .. Projects |-> t]
MCSubscriber == [p \in Project |-> Agent]

\* Each kind of request that locks in a way of its own: claims of one Agent
\* in two Projects, a management transition by the other and by an operator,
\* the switches of authority, and what works without an Agent.
MCRequests ==
    [op : {"claim"}, actor : {1}, id : 1 .. Ids, task : 1 .. Projects]
    \union [op : {"transition"}, actor : {2, 0}, id : {1}, task : {1}]
    \union [op : {"revoke"}, actor : {0}, id : {1}, agent : {1}]
    \union [op : {"register", "activate", "close"}, actor : {0}, id : 1 .. Ids]
    \union [op : {"associate"}, actor : {0}, id : {1}, project : {2}]
    \union [op : {"ingest"}]
    \union [op : {"tick"}, project : {2}]

ClientSymmetry == Permutations(Client)
=============================================================================
