-------------------------- MODULE ExclusiveEndpoint --------------------------
(***************************************************************************)
(* What the daemon lifecycle promises the rest of cl-ai: there is one      *)
(* endpoint, and over time the daemons that accept connections take turns  *)
(* at it.  A daemon begins to accept only while no other daemon accepts,   *)
(* accepts for one uninterrupted stretch, and never comes back once its    *)
(* accept loop is over.  How daemons are probed for, spawned, bound,       *)
(* stopped, killed and unlinked is left to DaemonLifecycle.                *)
(***************************************************************************)

CONSTANT Daemon        \* the daemon processes ever spawned

VARIABLE phase         \* phase[d]: before, during and after d's turn

Phases == {"new", "serving", "over"}

Init == phase = [d \in Daemon |-> "new"]

\* d's accept loop begins: nobody else's may be running.
Take(d) ==
    /\ phase[d] = "new"
    /\ \A e \in Daemon : phase[e] # "serving"
    /\ phase' = [phase EXCEPT ![d] = "serving"]

\* d is over: its loop ended, its process died, or it never came up.
Leave(d) ==
    /\ phase[d] # "over"
    /\ phase' = [phase EXCEPT ![d] = "over"]

Next == \E d \in Daemon : Take(d) \/ Leave(d)

Spec == Init /\ [][Next]_phase

=============================================================================
