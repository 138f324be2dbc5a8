----------------------------- MODULE MCCondQueue -----------------------------
(* Instances of CondQueue for TLC.  The threads of each stage are model    *)
(* values named in its cfg: MCReadStage.cfg, MCWriteStage.cfg.             *)
EXTENDS CondQueue
=============================================================================
