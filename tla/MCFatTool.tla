---------------------------- MODULE MCFatTool ----------------------------
(***************************************************************************)
(* Instances of FatTool: the names, contents and paths of MCFatfs.         *)
(***************************************************************************)
EXTENDS FatTool, MCFatfs
=============================================================================
