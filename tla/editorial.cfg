SPECIFICATION EditorialSpec
CONSTANTS
  x1 = x1
  x2 = x2
  r1 = r1
  r2 = r2
  r3 = r3
  r4 = r4
  f1 = f1
  f2 = f2
  ponni = ponni
  kalki = kalki
  None = None
  Execution <- MCExecution
  Script <- MCScript
  MaxDeaths = 1
  MaxDrifts = 1
  Row <- MCRow
  Firing <- MCFiring
  Existing <- MCExisting
  Match <- MCMatch
  Authors <- MCAuthors
  HasIsbn <- MCHasIsbn
  HasCover <- MCCovers
  Incomplete <- MCNone
  Selection <- MCSelection
  Doubtful <- MCDoubtful
  MaxStock = 1
  Listing <- MCListing
  MaxCrawls <- MCCrawls
  MaxSales = 1
  MaxFailures = 1
INVARIANTS
  CompletedLeavesWhole
  CreatedOnce
  CoverMatchesRow
  StockFollowsCrawl
PROPERTIES
  RejectionStands
  ApprovalIsHeard
  ApprovedIsPromoted
\* Everything is bounded: the system stops when it is used up.
CHECK_DEADLOCK FALSE
