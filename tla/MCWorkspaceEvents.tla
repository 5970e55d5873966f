-------------------------- MODULE MCWorkspaceEvents --------------------------
(* Instance of WorkspaceEvents for TLC. *)
EXTENDS WorkspaceEvents

CONSTANTS c1, c2, u1, supply, finance

MCConns == {c1, c2}
MCUsers == {u1}
MCRoles == {supply, finance}
=============================================================================
