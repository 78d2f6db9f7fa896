----------------------------- MODULE MCDeletions -----------------------------
(***************************************************************************)
(* Two documents with the same content, one of them in another database, and *)
(* the two leaves of the first: the second keeps the content in use where    *)
(* the routes cannot see it.                                               *)
(***************************************************************************)
EXTENDS Deletions, TLC

CONSTANTS d1, d2, x1, x2, g1

MCPaperOf == (x1 :> d1) @@ (x2 :> d1)
MCHashOf == (d1 :> g1) @@ (d2 :> g1)

MCSpec == DelSpec /\ DelFairness
=============================================================================
