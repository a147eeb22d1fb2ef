--------------------------- MODULE MCCoordination ---------------------------
(* Small instances of Coordination for TLC.                                *)
EXTENDS Coordination, FiniteSets, TLC

Starting(n) == Cardinality({p \in Runs : pc[p] = "idle"}) = n

\* Three runs within one tick, when the clock and the cache are left alone.
Crowd == Starting(3) /\ gen = MaxGeneration /\ back = MaxStepBack /\ boot = MaxTime - WorkBudget

\* Two runs from the start of the clock, which is stepped back, while the cache
\* is cleared.
Span == Starting(2) /\ gen = 0 /\ back = 0 /\ boot = 0

SceneInit == Init /\ (Crowd \/ Span)
SceneSpec == SceneInit /\ [][Next]_vars

\* Two runs, the clock and the cache left alone.
PairInit == Init /\ Starting(Cardinality(Runs)) /\ gen = 0 /\ back = 0 /\ boot = 0
PairSpec == PairInit /\ [][Next]_vars

\* Runs are interchangeable: no action or property names one.
RunSymmetry == Permutations(Runs)
=============================================================================
