---------------------------- MODULE MCEvolution ----------------------------
(* Model checking of EvolutionLifecycle: worker slots are interchangeable.  *)
EXTENDS EvolutionLifecycle, TLC

Sym == Permutations(Workers)
============================================================================
