---------------------------- MODULE MCEditorial ----------------------------
(* Two executions of the script, four rows: two that match one book of the *)
(* catalogue, and two new books by one author, one with an ISBN.            *)
EXTENDS Editorial, TLC

CONSTANTS x1, x2, r1, r2, r3, r4, f1, f2, ponni, kalki

MCExecution == {x1, x2}
MCScript == <<PromotionFlow, ReviewFieldOrder, BulkApproveFlow>>
MCRow == {r1, r2, r3, r4}
MCFiring == {f1, f2}
MCExisting == {ponni}
MCMatch == (r1 :> None) @@ (r2 :> ponni) @@ (r3 :> None) @@ (r4 :> ponni)
MCAuthors == (r1 :> <<kalki>>) @@ (r2 :> <<kalki>>) @@ (r3 :> <<kalki>>) @@ (r4 :> <<>>)
MCNone == {}
MCHasIsbn == {r3}
MCCovers == {r2}
MCCrawls == (r1 :> 1) @@ (r2 :> 2) @@ (r3 :> 1) @@ (r4 :> 1)
MCDoubtful == {r2}
MCListing == {0, None}
MCSelection == {<<r3, r2>>}
=============================================================================
