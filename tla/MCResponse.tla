----------------------------- MODULE MCResponse -----------------------------
(* Four replies: three to ourselves, one to another station. *)
EXTENDS Response, TLC

CONSTANTS r1, r2, r3, r4

MCReplies == {r1, r2, r3, r4}
MCRecipientOf == r1 :> "A" @@ r2 :> "A" @@ r3 :> "A" @@ r4 :> "B"
MCLocalOnly == {r1, r2, r3}
=============================================================================
