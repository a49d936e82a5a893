--------------------------- MODULE MCSafeSession ----------------------------
(* Instances of Session whose constants are safe. *)
EXTENDS MCSession

ASSUME InstanceIsSafe == SafeConstants
=============================================================================
