--------------------------- MODULE MCCratePublish ---------------------------
(* Two runs, which may have been built from different files.                *)
EXTENDS CratePublish
=============================================================================
