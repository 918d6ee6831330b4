--------------------------- MODULE MCFullRebuild ---------------------------
(* FullRebuild for TLC: f changed and g was removed since the old commit,  *)
(* h did not change.                                                       *)
EXTENDS FullRebuild, TLC

CONSTANTS f, g, h, a, b

MCTree == "old"  :> (f :> a @@ g :> a @@ h :> a)
       @@ "head" :> (f :> b @@ g :> Absent @@ h :> a)
=============================================================================
