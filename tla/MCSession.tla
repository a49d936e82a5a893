----------------------------- MODULE MCSession ------------------------------
(* Task lists of the instances of Session that TLC checks. *)
EXTENDS Session, TLC

\* Two tasks of two and one fragments.
ShortTasks == 0 :> 0 @@ 1 :> 2 @@ 2 :> 3

\* Two tasks of two and three fragments: one fragment more than four slots.
MediumTasks == 0 :> 0 @@ 1 :> 2 @@ 2 :> 5

\* Three tasks, eight fragments in all.
LongTasks == 0 :> 0 @@ 1 :> 3 @@ 2 :> 5 @@ 3 :> 8
=============================================================================
