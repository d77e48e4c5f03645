---------------------------- MODULE MC_AfuDevice ----------------------------
(* Model-checking instance of AfuDevice: two capptags. *)
EXTENDS AfuDevice

MC_Tags == {1, 2}
MC_OneTag == {1}
MC_AllKinds == {"cfg_rd", "cfg_wr", "pr_rd", "pr_wr"}
MC_WriteKinds == {"cfg_wr", "pr_wr"}
====
