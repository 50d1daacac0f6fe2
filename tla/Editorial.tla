------------------------------ MODULE Editorial ------------------------------
(***************************************************************************)
(* The editorial workbench while it is being set up: an approval fires the *)
(* promotion flow, and that is there only when an execution of the script  *)
(* has made it, wired to its end. Two flows of the name, from executions   *)
(* that overlapped, both fire.                                             *)
(***************************************************************************)
EXTENDS Bootstrap, Promotion, FiniteSetsExt

ASSUME EditorialAssumption == PromotionFlow \in Steps

VARIABLE atWork   \* the workbench has been set up

vars == <<bootstrapVars, promotionVars, atWork>>

Flows(s) == {c \in copies : c[2] = s /\ Whole(c)}

\* What executions leave that completed, one alone or all of them at once.
SetUpBy(makers) ==
  /\ at = [x \in Execution |-> Len(Script) + 1]
  /\ request = [x \in Execution |-> "read"]
  /\ copies = {c \in makers \X (Steps \ Settings) :
                 c[2] = PromotionFlow \/ c[1] = CHOOSE x \in makers : TRUE}
  /\ wired = [c \in Execution \X Steps |-> IF c \in copies THEN c[2].requests ELSE 0]
  /\ correct = Tuned
  /\ ended = [x \in Execution |-> "completed"]
  /\ overlapped = IF Cardinality(makers) > 1 THEN {PromotionFlow} ELSE {}
  /\ deaths = 0 /\ drifts = 0

EditorialInit ==
  /\ PromotionInit
  /\ \/ atWork = FALSE /\ BootstrapInit
     \/ atWork = TRUE /\ \E makers \in {Execution, {CHOOSE x \in Execution : TRUE}} : SetUpBy(makers)

MayApprove == atWork \/ \A r \in Row : status[r] = "open"

\* approve-button writes the status of its page's row.
ApproveButton(r) ==
  /\ MayApprove
  /\ \E by \in kSubset(Cardinality(Flows(PromotionFlow)), Firing) : Approve(<<r>>, by)
  /\ UNCHANGED <<bootstrapVars, atWork>>

\* The bulk flow's item-update, if that flow is in order.
ApproveSelected(selected) ==
  /\ MayApprove
  /\ Flows(BulkApproveFlow) # {}
  /\ \E by \in kSubset(Cardinality(Flows(PromotionFlow)), Firing) : Approve(selected, by)
  /\ UNCHANGED <<bootstrapVars, atWork>>

SetUp == ~atWork /\ BootstrapNext /\ UNCHANGED <<promotionVars, atWork>>

EditorialNext ==
  \/ SetUp
  \/ atWork /\ Meanwhile /\ UNCHANGED <<bootstrapVars, atWork>>
  \/ atWork /\ \E f \in Firing : Advance(f) /\ UNCHANGED <<bootstrapVars, atWork>>
  \/ \E r \in Row : ApproveButton(r)
  \/ \E selected \in Selection : ApproveSelected(selected)

\* Directus goes on with the operations it has started.
EditorialSpec ==
  /\ EditorialInit
  /\ [][EditorialNext]_vars
  /\ \A f \in Firing : WF_vars(atWork /\ Advance(f) /\ UNCHANGED <<bootstrapVars, atWork>>)

-----------------------------------------------------------------------------
(* Properties *)

\* An approval falls on deaf ears only before an execution of the script has
\* completed, or when one has died inside the promotion flow: then no later
\* execution mends it. About the early return of ensurePromotionFlow.
ApprovalIsHeard ==
  [][\A r \in Row : unfired'[r] = "no flow" /\ unfired[r] # "no flow" =>
       \/ \A x \in Execution : ended[x] # "completed"
       \/ Stranded(PromotionFlow)
       \/ PromotionFlow \in overlapped]_vars

\* An approved row is promoted, or rejected again, unless its operation
\* failed, it lacks what a new book needs, no flow was there to fire, or it
\* was not the first row of a selection: the flow promotes keys[0] alone.
ApprovedIsPromoted ==
  \A r \in {q \in Row : q \notin Incomplete \/ Match[q] # None} :
    (atWork /\ status[r] = "approved") ~>
      \/ status[r] = "rejected" \/ promoted[r] # None
      \/ unfired[r] # "no"
      \/ \E f \in failed : row[f] = r
=============================================================================
