SPECIFICATION FairSpec
CONSTANTS
  b1 = b1
  b2 = b2
  b3 = b3
  r1 = r1
  r2 = r2
  None = None
  Book <- MCTwoBooks
  Catalogue <- MCTwoBookCatalogue
  Run <- MCRun
  Limit <- MCLimit
  WithCover <- MCWithCoverOfTwo
  Reviewed <- MCReviewedOfTwo
  MaxFaults = 1
PROPERTY RunEnds
\* The runs are finite: the system stops when they are over.
CHECK_DEADLOCK FALSE
