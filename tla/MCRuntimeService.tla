---------------------------- MODULE MCRuntimeService ----------------------------
(* RuntimeService with one chat of two runs in one of two workspaces.        *)
EXTENDS RuntimeService, TLC

CONSTANTS wA, wB, k1, g1, g2

MCWorkspaceOf == k1 :> wA
MCChatOf == (g1 :> k1) @@ (g2 :> k1)
===============================================================================
