--------------------------- MODULE MCNativeUpdate ---------------------------
(***************************************************************************)
(* NativeUpdate on small instances: two versions, the second of which      *)
(* migrates the schema; or one, for more requests.                         *)
(***************************************************************************)
EXTENDS NativeUpdate, TLC

TwoVersions == {1, 2}
Migrating == 1 :> 1 @@ 2 :> 2
OneVersion == {1}
Unmigrated == 1 :> 1
=============================================================================
