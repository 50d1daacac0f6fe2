SPECIFICATION Spec
CONSTANTS
  b1 = b1
  b2 = b2
  b3 = b3
  r1 = r1
  r2 = r2
  None = None
  Book <- MCBook
  Catalogue <- MCCatalogue
  Run <- MCRun
  Limit <- MCLimit
  WithCover <- MCWithCover
  Reviewed <- MCReviewed
  MaxFaults = 1
INVARIANTS
  CursorSkipsNothing
  DecisionStands
  NewBooksAreCreditedOnce
PROPERTY CompletedCountsAreFinal
\* The runs are finite: the system stops when they are over.
CHECK_DEADLOCK FALSE
SYMMETRY Symmetry
