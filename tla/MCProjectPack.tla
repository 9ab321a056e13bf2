--------------------------- MODULE MCProjectPack ---------------------------
(* Instances of ProjectPack for TLC: configurations, symmetry. *)
EXTENDS ProjectPack, TLC

CONSTANTS n1, n2, l1

NoConfig == [valid |-> FALSE, name |-> Null, link |-> Null]
Named(n) == [valid |-> TRUE, name |-> n, link |-> Null]
Linked(n) == [valid |-> TRUE, name |-> n, link |-> l1]

\* The two jobs that differ most.
MCRaceConfig == {NoConfig, Linked(n1)}

\* No config.toml, one with a name, one with a name and a footprint link.
MCConfig == {NoConfig, Named(n1), Linked(n1)}

\* Compilers play the same part, and so do hashes.
Permuted == Permutations(Proc) \cup Permutations(Hash)
=============================================================================
