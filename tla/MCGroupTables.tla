--------------------------- MODULE MCGroupTables ----------------------------
(* The instance of GroupTables that TLC checks. *)
EXTENDS GroupTables, TLC

CONSTANTS a, b, c, s, t, u

\* Three threads, two of them of the same node.
Shared == s :> a @@ t :> a @@ u :> b

\* a and b send to each other.
Mutual == {<<a, b>>, <<b, a>>}

\* a may join twice, b and c once.
Joins == a :> 2 @@ b :> 1 @@ c :> 1

\* a gives c and b as replicas.
TwoReplicas == a :> {<<c, b>>} @@ b :> {} @@ c :> {}

\* a gives b as replica, and b gives a.
EachOther == a :> {<<b>>} @@ b :> {<<a>>} @@ c :> {}

\* The threads of a are alike.
ThreadSymmetry == Permutations({s, t})
=============================================================================
