--------------------------- MODULE MCFileTransfer ---------------------------
(* The instances of FileTransfer that TLC checks. *)
EXTENDS FileTransfer, TLC

CONSTANTS s, t, q, r

\* s has two targets, and r receives two files.
Shared == {<<s, q>>, <<s, r>>, <<t, r>>}

\* Two chunks, and one.
TwoAndOne == s :> 2 @@ t :> 1

\* One sender, one target.
OneLink == {<<t, q>>}

\* An empty file.
Empty == t :> 0

\* As many files as connections.
OnePerLink == q :> 1 @@ r :> 2
=============================================================================
