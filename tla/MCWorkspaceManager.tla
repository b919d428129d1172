-------------------------- MODULE MCWorkspaceManager --------------------------
(* The instance of WorkspaceManager for TLC: a pool of two, two callers.    *)
EXTENDS WorkspaceManager
=============================================================================
