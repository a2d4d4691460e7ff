---------------------------- MODULE MCPluginTable ----------------------------
(***************************************************************************)
(* A small instance of PluginTable.  "hello" and "Hello" are two names of  *)
(* one file on Windows; "long" is cut to "cut", which names no file; the   *)
(* table has four slots, as many as there are plugins.                     *)
(***************************************************************************)
EXTENDS PluginTable

MCName == {"hello", "Hello", "logger", "long", "cut"}
MCStored == [n \in MCName |-> IF n = "long" THEN "cut" ELSE n]
MCLibrary == [n \in MCName |-> IF n \in {"hello", "Hello"} THEN "hello.dll"
                               ELSE IF n = "cut" THEN "none" ELSE n]
MCDll == {"hello.dll", "logger", "long"}
MCManifest ==
    UNION {[1 .. k -> {e \in Entry : e.name \in {"hello", "logger", "long"}}] : k \in 0 .. 2}
===============================================================================
