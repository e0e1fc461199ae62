--------------------------- MODULE MCCatalogStore ---------------------------
(* CatalogStore with interchangeable processes and states of PATH.          *)
EXTENDS CatalogStore, TLC

Interchangeable == Permutations(Proc) \cup Permutations(Path)

=============================================================================
