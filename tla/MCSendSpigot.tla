---------------------------- MODULE MCSendSpigot ----------------------------
(***************************************************************************)
(* The instance of SendSpigot that Spigot.cfg checks: three requests, for  *)
(* a delayed request must be told from the one that takes its place and    *)
(* from the last one on the wire.                                          *)
(***************************************************************************)
EXTENDS SendSpigot
=============================================================================
