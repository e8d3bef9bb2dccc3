----------------------------- MODULE MCCoroTask -----------------------------
(***************************************************************************)
(* CoroTask with three coroutines, two task objects, two primitives and    *)
(* two resources with room for two frames each.                            *)
(***************************************************************************)
EXTENDS CoroTask, TLC

CONSTANTS f1, f2, f3, t1, t2, p1, p2, r1, r2

MCFrames     == {f1, f2, f3}
MCTasks      == {t1, t2}
MCPrimitives == {p1, p2}
MCResources  == {r1, r2}

\* Frames, tasks and primitives are interchangeable.
MCSymmetry == Permutations(MCFrames) \cup Permutations(MCTasks)
                \cup Permutations(MCPrimitives)
=============================================================================
