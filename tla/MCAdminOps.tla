---- MODULE MCAdminOps ----
(* Finite instances of AdminOps. *)
EXTENDS AdminOps, TLC

AllOps == {"rebuild", "prune", "migrate", "seed", "use"}

ProcSymmetry == Permutations(Procs)
====
