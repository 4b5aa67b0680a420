----------------------------- MODULE MCSimTree ------------------------------
(* Names of which one is two others strung together.                         *)
EXTENDS SimTree

a == <<"a">>
b == <<"b">>
ab == a \o b

Rel(comps) == [abs |-> FALSE, comps |-> comps]
Abs(comps) == [abs |-> TRUE, comps |-> comps]

\* Above and below the current node, and deep enough for the components to run
\* together.
DeepPaths == {Rel(<<>>), Rel(<<a>>), Rel(<<ab>>), Rel(<<ab, a>>), Abs(<<a, b, a>>)}

SomeFiles == {Rel(<<a>>)}

=============================================================================
