---------------------------- MODULE MCWorkflows ----------------------------
(* Small instances of Workflows: the recipes.                              *)
EXTENDS Workflows, TLC

CONSTANTS x,        \* run ids
          Shapes   \* the names of the recipes a run saves

\* Three steps; the second is timed.
Recipe(gated, deps, width) ==
  [steps |-> Steps, deps |-> deps, gated |-> gated, timed |-> {2}, width |-> width]

After(s, T) == [t \in Steps |-> IF t = s THEN T ELSE {}]

\* A chain of gates, a fan with the gate behind it, a gate beside free steps,
\* one step fewer, and two gates that are ready together.
Shape(name) ==
  CASE name = "chain" -> Recipe({2, 3}, [t \in Steps |-> {s \in Steps : s < t}], 1)
    [] name = "join"  -> Recipe({3}, After(3, {1, 2}), 2)
    [] name = "side"  -> Recipe({2}, After(3, {1}), 1)
    [] name = "short" -> [Recipe({2}, After(2, {1}), 1) EXCEPT !.steps = {1, 2}]
    [] name = "twin"  -> Recipe({1, 2}, After(3, {1, 2}), 2)

MCRecipes == {Shape(name) : name \in Shapes}
=============================================================================
