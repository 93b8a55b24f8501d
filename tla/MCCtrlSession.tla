--------------------------- MODULE MCCtrlSession ---------------------------
(***************************************************************************)
(* Instances of CtrlSession for the three crawl levels and for servers     *)
(* that surprise the program in different ways.                            *)
(***************************************************************************)
EXTENDS CtrlSession
=============================================================================
