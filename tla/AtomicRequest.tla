---------------------------- MODULE AtomicRequest ----------------------------
(***************************************************************************)
(* What a request to the daemon promises the rest of cl-ai: it settles     *)
(* once, an answer means that the daemon acted on it, and it is acted on   *)
(* at most twice, possibly after its sender has given up.                  *)
(***************************************************************************)
EXTENDS Naturals

VARIABLES
    taken,   \* how many times a daemon has acted on the request
    result   \* what the caller holds

Outcomes == {"answer", "none", "raised"}

Init == taken = 0 /\ result = "pending"

Act == taken < 2 /\ taken' = taken + 1 /\ UNCHANGED result

Settle ==
    /\ result = "pending"
    /\ \E r \in Outcomes :
        /\ r = "answer" => taken > 0
        /\ result' = r
    /\ UNCHANGED taken

Next == Act \/ Settle

Spec == Init /\ [][Next]_<<taken, result>> /\ WF_<<taken, result>>(Settle)
=============================================================================
