------------------------------ MODULE MCSession ------------------------------
(***************************************************************************)
(* A small instance of Session: one root that can be watched and one that  *)
(* cannot, and the database that the schema file of aelion/src/db leaves,  *)
(* or both schema files one after the other.                               *)
(***************************************************************************)
EXTENDS Session

MCRoot == {"home", "absent"}
MCDirs == {"home"}
MCDatabases == {{"fs_changes"}, {"fs_changes", "fs_items", "hud_events"}}
===============================================================================
