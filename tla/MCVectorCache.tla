--------------------------- MODULE MCVectorCache ---------------------------
(***************************************************************************)
(* Two threads, in one process or in two.  "base" and "tuned" make vectors *)
(* of one width under different keys; "wide" has the key of "base" and     *)
(* another width.  Two of the three tools share one description.           *)
(***************************************************************************)
EXTENDS VectorCache, TLC

MCLayouts == [Threads -> Procs]
MCSymmetry == Permutations(Threads) \cup Permutations(Procs)
MCKey == "base" :> "k1" @@ "tuned" :> "k2" @@ "wide" :> "k1"
MCWidth == "base" :> 2 @@ "tuned" :> 2 @@ "wide" :> 3
MCDocSets == {<<"d1", "d2", "d1">>}
=============================================================================
