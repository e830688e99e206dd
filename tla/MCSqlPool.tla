----------------------------- MODULE MCSqlPool -----------------------------
(***************************************************************************)
(* Instance of SqlPool for TLC.  init opens one connection, or two, or as  *)
(* many as there are threads: both a scarce and a sufficient pool.         *)
(***************************************************************************)
EXTENDS SqlPool
=============================================================================
