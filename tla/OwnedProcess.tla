---------------------------- MODULE OwnedProcess ----------------------------
(***************************************************************************)
(* The process a Codex connection owns: the Python helper                  *)
(* (priv/stdio_owner.py) that starts the child in a process group of its   *)
(* own and kills and reaps it, and the Erlang Owner process                *)
(* (transport/stdio/owner.ex) that holds the port to the helper, asks it   *)
(* to shut down and records in an atomic whether cleanup was confirmed.    *)
(*                                                                         *)
(* One Session opens one generation after another, so the state is indexed *)
(* by generation.  Time is abstract: a bounded wait may end early whenever *)
(* what it waits for has not happened.  The platform is Linux, where the   *)
(* helper is the subreaper of every descendant.                            *)
(***************************************************************************)
EXTENDS Naturals

CONSTANT MaxGeneration          \* bound: connections opened by one Session

ASSUME MaxGenerationAssumption == MaxGeneration \in Nat \ {0}

Generation == 1 .. MaxGeneration

VARIABLES
    helper,        \* the Python helper of a generation
    group,         \* the child and its process group
    escapee,       \* is a descendant that left the group alive?
    acked,         \* has the helper written the cleanup NUL?
    port,          \* the port: open, asked to stop (NUL queued) or closed
    owner,         \* the Owner process
    completion,    \* atomic 1: 0 unknown, 1 confirmed, 2 unconfirmed
    notices        \* generations whose exit_status waits for the Session

processVars ==
    <<helper, group, escapee, acked, port, owner, completion, notices>>
tree == <<helper, group, escapee, acked>>

ProcessTypeOK ==
    /\ helper \in [Generation -> {"none", "starting", "running", "stopping",
                                  "reaping", "ended"}]
    /\ group \in [Generation -> {"none", "alive", "dead"}]
    /\ escapee \in [Generation -> BOOLEAN]
    /\ acked \in [Generation -> BOOLEAN]
    /\ port \in [Generation -> {"none", "open", "asked", "closed"}]
    /\ owner \in [Generation -> {"none", "up", "shutting", "gone"}]
    /\ completion \in [Generation -> 0 .. 2]
    /\ notices \subseteq Generation

\* The Session starts with generation 1 opened.
AtFirst(first, rest) == [g \in Generation |-> IF g = 1 THEN first ELSE rest]

ProcessInit ==
    /\ helper = AtFirst("starting", "none")
    /\ group = [g \in Generation |-> "none"]
    /\ escapee = [g \in Generation |-> FALSE]
    /\ acked = [g \in Generation |-> FALSE]
    /\ port = AtFirst("open", "none")
    /\ owner = AtFirst("up", "none")
    /\ completion = [g \in Generation |-> 0]
    /\ notices = {}

\* Is anything the generation started still running?
Alive(g) == group[g] = "alive" \/ escapee[g]

-----------------------------------------------------------------------------
(* The helper *)

\* The child starts, or it cannot: the helper acknowledges and exits 127.
Spawn(g) ==
    /\ helper[g] = "starting"
    /\ \/ /\ helper' = [helper EXCEPT ![g] = "running"]
          /\ group' = [group EXCEPT ![g] = "alive"]
          /\ UNCHANGED acked
       \/ /\ helper' = [helper EXCEPT ![g] = "ended"]
          /\ acked' = [acked EXCEPT ![g] = TRUE]
          /\ UNCHANGED group
    /\ UNCHANGED <<escapee, port, owner, completion, notices>>

\* The main loop ends: the child exited, a signal came, stdin brought a NUL
\* or its end, a copying thread failed or the child wrote a NUL.
HelperStops(g) ==
    /\ helper[g] = "running"
    /\ helper' = [helper EXCEPT ![g] = "stopping"]
    /\ UNCHANGED <<group, escapee, acked, port, owner, completion, notices>>

\* SIGTERM, a second of patience, SIGKILL to the group, wait for the leader.
TerminateGroup(g) ==
    /\ helper[g] = "stopping"
    /\ helper' = [helper EXCEPT ![g] = "reaping"]
    /\ group' = [group EXCEPT ![g] = "dead"]
    /\ UNCHANGED <<escapee, acked, port, owner, completion, notices>>

DescendantsReaped(g) == ~escapee[g]

\* Reap the descendants and join the output thread, a second each; the NUL
\* is written only when both succeeded, and the exit status follows it.
HelperFinishes(g) ==
    /\ helper[g] = "reaping"
    /\ helper' = [helper EXCEPT ![g] = "ended"]
    /\ \E outputDrained \in BOOLEAN :
         acked' = [acked EXCEPT ![g] = DescendantsReaped(g) /\ outputDrained]
    /\ UNCHANGED <<group, escapee, port, owner, completion, notices>>

\* Somebody kills the helper itself: the group loses its guardian.
HelperKilled(g) ==
    /\ helper[g] \in {"starting", "running", "stopping", "reaping"}
    /\ helper' = [helper EXCEPT ![g] = "ended"]
    /\ UNCHANGED <<group, escapee, acked, port, owner, completion, notices>>

\* A member of the group starts a session of its own, out of killpg's reach.
Escape(g) ==
    /\ group[g] = "alive" /\ ~escapee[g]
    /\ escapee' = [escapee EXCEPT ![g] = TRUE]
    /\ UNCHANGED <<helper, group, acked, port, owner, completion, notices>>

\* What was started may end by itself.
TreeExits(g) ==
    /\ \/ group[g] = "alive" /\ group' = [group EXCEPT ![g] = "dead"]
                             /\ UNCHANGED escapee
       \/ escapee[g] /\ escapee' = [escapee EXCEPT ![g] = FALSE]
                     /\ UNCHANGED group
    /\ UNCHANGED <<helper, acked, port, owner, completion, notices>>

-----------------------------------------------------------------------------
(* The Owner *)

\* The port delivers data in order, so a NUL is read before the exit status.
CleanupResult(g) == IF acked[g] THEN 1 ELSE 2

\* The Session opens a generation: an Owner with a port to a new helper.
Opened(g) ==
    /\ helper' = [helper EXCEPT ![g] = "starting"]
    /\ port' = [port EXCEPT ![g] = "open"]
    /\ owner' = [owner EXCEPT ![g] = "up"]
    /\ UNCHANGED <<group, escapee, acked, completion, notices>>

\* The helper exited unasked: record the result, then tell the Session.
OwnerSeesExit(g) ==
    /\ owner[g] = "up" /\ helper[g] = "ended"
    /\ completion' = [completion EXCEPT ![g] = CleanupResult(g)]
    /\ owner' = [owner EXCEPT ![g] = "gone"]
    /\ port' = [port EXCEPT ![g] = "closed"]
    /\ notices' = notices \union {g}
    /\ UNCHANGED tree

\* The Owner takes the close call, or the DOWN of its Session.
OwnerShutsDown(g) ==
    /\ owner[g] = "up"
    /\ owner' = [owner EXCEPT ![g] = "shutting"]
    /\ port' = [port EXCEPT ![g] = "asked"]
    /\ UNCHANGED <<helper, group, escapee, acked, completion, notices>>

OwnerAwaitsExit(g) ==
    /\ owner[g] = "shutting" /\ helper[g] = "ended"
    /\ completion' = [completion EXCEPT ![g] = CleanupResult(g)]
    /\ owner' = [owner EXCEPT ![g] = "gone"]
    /\ port' = [port EXCEPT ![g] = "closed"]
    /\ UNCHANGED <<helper, group, escapee, acked, notices>>

\* Five seconds without an exit status: close the port, which ends stdin.
OwnerTimesOut(g) ==
    /\ owner[g] = "shutting"
    /\ completion' = [completion EXCEPT ![g] = 2]
    /\ owner' = [owner EXCEPT ![g] = "gone"]
    /\ port' = [port EXCEPT ![g] = "closed"]
    /\ UNCHANGED <<helper, group, escapee, acked, notices>>

\* The Owner dies and its port with it; the atomic stays unknown.
OwnerCrashes(g) ==
    /\ owner[g] \in {"up", "shutting"}
    /\ owner' = [owner EXCEPT ![g] = "gone"]
    /\ port' = [port EXCEPT ![g] = "closed"]
    /\ UNCHANGED <<helper, group, escapee, acked, completion, notices>>

ProcessStep(g) ==
    \/ Spawn(g) \/ HelperStops(g) \/ TerminateGroup(g) \/ HelperFinishes(g)
    \/ HelperKilled(g) \/ Escape(g) \/ TreeExits(g)
    \/ OwnerSeesExit(g) \/ OwnerAwaitsExit(g) \/ OwnerTimesOut(g)
    \/ OwnerCrashes(g)

StopsWhenTold(g) == port[g] = "asked" /\ HelperStops(g)   \* (mutant)

\* A helper that was asked to stop, or lost its port, goes on to its end.
StopsWhenAsked(g) == port[g] \in {"asked", "closed"} /\ HelperStops(g)

ProcessFairness ==
    \A g \in Generation :
        /\ WF_processVars(Spawn(g))
        /\ WF_processVars(StopsWhenAsked(g))
        /\ WF_processVars(TerminateGroup(g))
        /\ WF_processVars(HelperFinishes(g))
        /\ WF_processVars(OwnerAwaitsExit(g) \/ OwnerTimesOut(g))
=============================================================================
