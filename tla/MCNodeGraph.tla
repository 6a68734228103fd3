------------------------------ MODULE MCNodeGraph ------------------------------
(* A remote reader, and two local writers recorded under one GUID, as in a node whose  *)
(* handles get_repoid does not know.  Both listeners have changes to announce.         *)
EXTENDS NodeGraph, TLC

CONSTANTS rs, lp, lq, unknown

MCKindOf == (rs :> "sub") @@ (lp :> "pub") @@ (lq :> "pub")
MCGuidOf == (lp :> unknown) @@ (lq :> unknown)

===============================================================================
