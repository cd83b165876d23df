---- MODULE MCScriptBuild ----
(* Two scripts, one of them in the catalog, and two sources, both of which *)
(* compile: a validation that finds errors only keeps the save disabled.   *)
EXTENDS ScriptBuild
====
