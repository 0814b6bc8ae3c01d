------------------------------- MODULE MCServer -------------------------------
(* Two workspaces of a package each, and clients of several abilities.       *)
EXTENDS LanguageServer
==============================================================================
