--------------------------- MODULE MCCloudHandoff ---------------------------
(* CloudHandoff with a handful of clouds and timestamps: enough for a      *)
(* cloud to be published, one to be overwritten, one rejected, and one to  *)
(* be pending at shutdown, in any order.                                   *)
EXTENDS CloudHandoff
=============================================================================
