--------------------------- MODULE MCRewriteUUID ----------------------------
(***************************************************************************)
(* Three UUIDs, so a rewrite can change the UUID, write the one it         *)
(* already had, or write one an earlier run wrote; the rest of the         *)
(* geometry is one opaque value.                                           *)
(***************************************************************************)
EXTENDS RewriteUUID

CONSTANTS u1, u2, u3, noUUID

MCUUIDs == {u1, u2, u3}

MCGeometry == [uuid |-> u1, rest |-> "regions"]

=============================================================================
