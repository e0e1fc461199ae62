-------------------------- MODULE MCDaemonLifecycle --------------------------
(***************************************************************************)
(* DaemonLifecycle on a few processes and shells.  The safety runs treat   *)
(* daemons and shells as interchangeable: no definition tells them apart.  *)
(***************************************************************************)
EXTENDS DaemonLifecycle, TLC

Interchangeable == Permutations(Daemon) \cup Permutations(Client)

=============================================================================
