----------------------------- MODULE MCHalConf -----------------------------
(***************************************************************************)
(* HalConf with at most MaxEdits changes made by the application to any of *)
(* the three templates.  A rule about two modules needs two.               *)
(***************************************************************************)
EXTENDS HalConf
=============================================================================
