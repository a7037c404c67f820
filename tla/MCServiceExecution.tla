------------------------- MODULE MCServiceExecution -------------------------
(* Instances of ServiceExecution: a nested tree, and flat ones. *)
EXTENDS ServiceExecution, TLC
CONSTANTS root, group, a, b, t1, t2, loop

\* A combined execution in a combined one, in a sequence or beside another execution
NestedExec    == {root, group, a, b}
NestedKids    == (root :> <<a, group>>) @@ (group :> <<b>>) @@ (a :> <<>>) @@ (b :> <<>>)
NestedMethods == {(root :> "sequential") @@ (group :> "parallel"),
                  (root :> "parallel") @@ (group :> "sequential")}
NestedModes   == [{a, b} -> {"synchronous", "asynchronous"}]

\* A sequence of two
SequenceExec    == {root, a, b}
SequenceKids    == (root :> <<a, b>>) @@ (a :> <<>>) @@ (b :> <<>>)
SequenceMethods == {root :> "sequential"}
SequenceModes   == [{a, b} -> {"synchronous", "asynchronous"}]

\* Two at once
PairExec    == {root, a, b}
PairKids    == (root :> <<a, b>>) @@ (a :> <<>>) @@ (b :> <<>>)
PairMethods == {root :> "parallel"}
PairModes   == [{a, b} -> {"asynchronous"}]
=============================================================================
