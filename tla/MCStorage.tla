------------------------------ MODULE MCStorage -------------------------------
(* Small instances of GpuLocalStore and PlanCache: a behaviour is one of them. *)
EXTENDS GpuLocalStore, PlanCache, TLC

ThreeValues == {<<>>, <<1>>, <<2, 3, 4>>}
WithEmpty == {<<>>, <<1, 2>>}

Symmetry == Permutations(Writers) \cup Permutations(Threads) \cup Permutations(Roots)

VARIABLE part \* which of the two the behaviour is

allVars == <<vars, planVars, part>>

MCInit == Init /\ PlanInit /\ part \in {"store", "plans"}
MCNext == \/ part = "store" /\ Next /\ UNCHANGED <<planVars, part>>
          \/ part = "plans" /\ PlanNext /\ UNCHANGED <<vars, part>>
MCSpec == MCInit /\ [][MCNext]_allVars
=============================================================================
