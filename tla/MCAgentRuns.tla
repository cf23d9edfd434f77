---------------------------- MODULE MCAgentRuns ----------------------------
(* Instances of AgentRuns for TLC.                                          *)
EXTENDS AgentRuns, TLC

CONSTANTS alice, bob, run1, run2

MCUser  == {alice, bob}
MCRun   == {run1, run2}
MCOwner == run1 :> alice @@ run2 :> bob

As(n, t, u) == [run |-> n, token |-> t, user |-> u]
Agent == As(run1, run1, alice)

Complete(as, s, usage) ==
  [op |-> "complete", as |-> as, report |-> [status |-> s, last_seq |-> 1, usage |-> usage]]
Update(n, s) == [op |-> "update", run |-> n, status |-> s]

\* One agent and its dispatcher, with every case of the checks once.
MCInput ==
  {[op |-> "status", as |-> a] : a \in {Agent, As(Null, run1, alice)}}
    \cup {[op |-> o, as |-> Agent] : o \in {"manifest", "files"}}
    \cup {[op |-> "list"], [op |-> "create"]}
    \cup {[op |-> "events", as |-> Agent, events |-> k] : k \in {0, 2}}
    \cup {Complete(Agent, s, FALSE) : s \in {"completed", "failed", "queued", "done"}}
    \cup {Complete(Agent, "completed", TRUE)}
    \cup {Complete(As(run1, t, bob), "completed", FALSE) : t \in MCRun}
    \cup {Update(run1, s) : s \in {"running", "cancelled"}}
    \cup {Update(run2, "running"), Update(Null, "running")}

Symmetry == Permutations(Request)
=============================================================================
