---------------------------- MODULE MCCorpusFetch ----------------------------
(* CorpusFetch with interchangeable fetches and releases.                    *)
EXTENDS CorpusFetch, TLC

Interchangeable == Permutations(Fetch) \cup Permutations(Release)

=============================================================================
