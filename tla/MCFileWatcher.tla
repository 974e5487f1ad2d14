--------------------------- MODULE MCFileWatcher ----------------------------
(***************************************************************************)
(* Instances of FileWatcher for TLC.                                       *)
(***************************************************************************)
EXTENDS FileWatcher, TLC

CONSTANTS b1, t1, x, y, p1, p2

\* One bot with two plugins, of the same identifier or not.
OneBot == (b1 :> t1)
Two    == (b1 :> <<p1, p2>>)
SameId == (p1 :> x) @@ (p2 :> x)
TwoIds == (p1 :> x) @@ (p2 :> y)
=============================================================================
