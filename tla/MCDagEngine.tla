----------------------------- MODULE MCDagEngine -----------------------------
(***************************************************************************)
(* Instances of the DAG engine for TLC: descriptors of three stages whose  *)
(* outputs are x, y and z, with in as the input of the DAG.                *)
(***************************************************************************)
EXTENDS DagEngine, TLC

CONSTANTS a, b, c, in, x, y, z

Symmetry == Permutations(Workers)

Shape(depsOf, refsOf, outputs) ==
  [dependencies       |-> depsOf,
   inputArtifactRefs  |-> refsOf,
   outputArtifactRef  |-> a :> x @@ b :> y @@ c :> z,
   inputArtifacts     |-> {in},
   outputArtifactRefs |-> outputs]

Chain == Shape(a :> {} @@ b :> {a} @@ c :> {b},
               a :> <<in>> @@ b :> <<x>> @@ c :> <<y>>, {z})
\* b and c both consume the output of a.
Fork == Shape(a :> {} @@ b :> {a} @@ c :> {a},
              a :> <<in>> @@ b :> <<x>> @@ c :> <<in, x>>, {y, z})
\* c waits for a and b; it consumes both outputs.
Join == Shape(a :> {} @@ b :> {} @@ c :> {a, b},
              a :> <<in>> @@ b :> <<in>> @@ c :> <<x, y>>, {z})
\* a -> b, a -> c and b -> c.
Triangle == Shape(a :> {} @@ b :> {a} @@ c :> {a, b},
                  a :> <<in>> @@ b :> <<x>> @@ c :> <<y, x>>, {z})
\* Rejected by validateDag: a cycle, a stage that waits for itself.
Cycle == Shape(a :> {} @@ b :> {c} @@ c :> {b},
               a :> <<in>> @@ b :> <<x>> @@ c :> <<y>>, {z})
SelfLoop == Shape(a :> {} @@ b :> {b} @@ c :> {a},
                  a :> <<in>> @@ b :> <<in>> @@ c :> <<x>>, {z})

Regular == {Chain, Fork, Join, Triangle, Cycle, SelfLoop}
OnlyChain == {Chain}

=============================================================================
