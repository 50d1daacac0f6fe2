------------------------------ MODULE MCImport ------------------------------
(* Two runs over a catalogue of two pages. Where liveness is checked, the   *)
(* catalogue has two books and not three.                                   *)
EXTENDS Import, TLC

CONSTANTS b1, b2, b3, r1, r2

MCBook == {b1, b2, b3}
MCCatalogue == <<<<b1, b2>>, <<b3>>>>

MCTwoBooks == {b1, b2}
MCTwoBookCatalogue == <<<<b1>>, <<b2>>>>

MCRun == {r1, r2}
MCLimit == {1, None}

\* The last book has a cover, and it is the one that editors come to.
MCReviewed == {b3}
MCWithCover == MCRun \X MCReviewed
MCReviewedOfTwo == {b2}
MCWithCoverOfTwo == {<<r1, b2>>}

Symmetry == Permutations(MCRun)
=============================================================================
