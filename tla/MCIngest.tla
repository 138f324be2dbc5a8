------------------------------ MODULE MCIngest -------------------------------
(* Instances of Ingest for TLC.                                            *)
EXTENDS Ingest, TLC

\* Clients and threads differ in nothing but their names: used by the run
\* that checks no liveness.
Symmetry == Permutations(Clients) \cup Permutations(CONN_THREADS)
                \cup Permutations(READ_THREADS)
=============================================================================
