---------------------------- MODULE MCMulticast -----------------------------
(* Task lists of the instances of Multicast that TLC checks. *)
EXTENDS Multicast, TLC

\* Two tasks of two and three fragments.
FiveFragments == 0 :> 0 @@ 1 :> 2 @@ 2 :> 5

\* One task of two fragments.
OneTask == 0 :> 0 @@ 1 :> 2

\* Two tasks of one fragment each.
TwoFragments == 0 :> 0 @@ 1 :> 1 @@ 2 :> 2
=============================================================================
