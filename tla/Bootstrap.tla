------------------------------ MODULE Bootstrap ------------------------------
(***************************************************************************)
(* apps/directus/scripts/bootstrap.ts: the script that configures the      *)
(* editorial workbench, one HTTP request after another. Each step reads    *)
(* what Directus has and creates or corrects what it finds missing.        *)
(*                                                                         *)
(* The script can die at any request (or be cancelled), it is run again    *)
(* after that, and nothing keeps two executions of it apart: a deployment  *)
(* starts one and anybody can start another by hand.                       *)
(***************************************************************************)
EXTENDS Naturals, Sequences, FiniteSets, SequencesExt

CONSTANTS
  Execution,   \* executions of the script
  Script,      \* the steps of main() that the instance has, in its order
  MaxDeaths,   \* bound: executions that die
  MaxDrifts    \* bound: settings changed by hand in the admin app

VARIABLES
  at,          \* main()'s position in Script, for each execution
  request,     \* the next request of that step
  copies,      \* what Directus has: <<execution, step>> for each object made
  wired,       \* how many of an object's further requests have been made
  correct,     \* steps whose settings or location are as the script wants them
  ended,       \* how an execution ended
  overlapped,  \* history: steps that two executions worked on at once
  deaths, drifts

bootstrapVars == <<at, request, copies, wired, correct, ended, overlapped, deaths, drifts>>

-----------------------------------------------------------------------------
(* The steps. "record": one object, created if none of its name is found.  *)
(* "flow": the object, then its operations and links, "requests" of them,  *)
(* all of which a flow that is found is spared. "tuned": a flow whose      *)
(* location is corrected where it is found. "setting": fields that are     *)
(* read and corrected on every run. Where main() calls a function for two  *)
(* objects, or a name is there twice, one stands for both; its last two    *)
(* functions write nothing.                                                *)

Step(kind, name, requests, unique) ==
  [kind |-> kind, name |-> name, requests |-> requests, unique |-> unique]

\* A collection that is already tracked cannot be created again.
CollectionsTracked == Step("record", "collections", 0, TRUE)
Policy             == Step("record", "policy", 0, FALSE)
Permissions        == Step("record", "permissions", 0, FALSE)
RoleWithPolicy     == Step("record", "role", 0, FALSE)

\* The policy is attached to the role, whether that was found or made.
Access             == Step("record", "access", 0, FALSE)

\* Two operations, the link from the first to the second and the flow's entry.
PromotionFlow == Step("flow", "Promote Staging Book", 4, FALSE)

\* Its id is fixed, so a second one is refused.
InventoryDecrementFlow == Step("flow", "Decrement Inventory Stock", 2, TRUE)
BulkApproveFlow        == Step("tuned", "Approve Staging Books", 2, FALSE)
PublishToggleBulkFlows == Step("tuned", "Publish Books", 2, FALSE)

ImageThumbnailDisplays == Step("setting", "displays", 0, FALSE)
ApproveButtonInterface == Step("setting", "approve button", 0, FALSE)
ReviewFieldOrder       == Step("setting", "field order", 0, FALSE)
ImportRunRelation      == Step("setting", "import run", 0, FALSE)
PublishToggleInterface == Step("setting", "publish toggle", 0, FALSE)

Main == <<CollectionsTracked, Policy, Permissions, RoleWithPolicy, Access,
          PromotionFlow, InventoryDecrementFlow, ImageThumbnailDisplays,
          ApproveButtonInterface, ReviewFieldOrder, ImportRunRelation, BulkApproveFlow,
          PublishToggleInterface, PublishToggleBulkFlows>>

ASSUME BootstrapAssumption ==
  /\ \E kept \in SUBSET DOMAIN Main :
       Script = [i \in 1..Cardinality(kept) |->
                   Main[CHOOSE k \in kept :
                          Cardinality({j \in kept : j <= k}) = i]]
  /\ IsInjective(Script)
  /\ Script \in Seq([kind : {"record", "flow", "tuned", "setting"}, name : STRING,
                     requests : Nat, unique : BOOLEAN])
  /\ IsFiniteSet(Execution) /\ Execution # {}
  /\ MaxDeaths \in Nat /\ MaxDrifts \in Nat

Steps == ToSet(Script)
Settings == {s \in Steps : s.kind = "setting"}

\* What is corrected where it has been changed.
Tuned == {s \in Steps : s.kind \in {"setting", "tuned"}}

-----------------------------------------------------------------------------

BootstrapTypeOK ==
  /\ at \in [Execution -> 1..Len(Script) + 1]
  /\ request \in [Execution -> {"read", "create", "wire", "correct"}]
  /\ copies \subseteq Execution \X Steps
  /\ wired \in [Execution \X Steps -> Nat]
  /\ correct \subseteq Tuned
  /\ ended \in [Execution -> {"no", "completed", "died"}]
  /\ overlapped \subseteq Steps

BootstrapInit ==
  /\ at = [x \in Execution |-> 1]
  /\ request = [x \in Execution |-> "read"]
  /\ copies = {}
  /\ wired = [c \in Execution \X Steps |-> 0]
  /\ correct = {}
  /\ ended = [x \in Execution |-> "no"]
  /\ overlapped = {}
  /\ deaths = 0
  /\ drifts = 0

Active(x) == ended[x] = "no" /\ at[x] <= Len(Script)
Now(x) == Script[at[x]]
Found(s) == \E c \in copies : c[2] = s

NextStep(x) ==
  /\ at' = [at EXCEPT ![x] = @ + 1]
  /\ request' = [request EXCEPT ![x] = "read"]
  /\ UNCHANGED ended

GoOn(x, r) ==
  /\ request' = [request EXCEPT ![x] = r]
  /\ UNCHANGED <<at, ended>>

Die(x) ==
  /\ ended' = [ended EXCEPT ![x] = "died"]
  /\ UNCHANGED <<at, request>>

\* Mutant: the script creates without having looked.
CreateAlways(x) ==
  /\ Active(x) /\ request[x] = "read"
  /\ GoOn(x, IF Now(x).kind = "setting" THEN "correct" ELSE "create")
  /\ UNCHANGED <<copies, wired, correct, overlapped, deaths, drifts>>

\* The read that every ensure... function starts with; of a flow, its location.
ReadCurrent(x) ==
  /\ Active(x) /\ request[x] = "read"
  /\ IF Now(x).kind = "setting" \/ (Now(x).kind = "tuned" /\ Found(Now(x)))
     THEN IF Now(x) \in correct THEN NextStep(x) ELSE GoOn(x, "correct")
     ELSE IF Found(Now(x)) THEN NextStep(x) ELSE GoOn(x, "create")
  /\ overlapped' = overlapped \union
       {s \in {Now(x)} : \E y \in Execution \ {x} : Active(y) /\ Now(y) = s
                                                    /\ request[y] # "read"}
  /\ UNCHANGED <<copies, wired, correct, deaths, drifts>>

\* Mutant: a flow is created and its operations are left out.
CreateUnwired(x) ==
  /\ Active(x) /\ request[x] = "create"
  /\ copies' = copies \union {<<x, Now(x)>>}
  /\ NextStep(x)
  /\ UNCHANGED <<wired, correct, overlapped, deaths, drifts>>

Create(x) ==
  LET s == Now(x) IN
  /\ Active(x) /\ request[x] = "create"
  /\ IF s.unique /\ Found(s)
     THEN Die(x) /\ UNCHANGED <<copies, correct>>
     ELSE /\ copies' = copies \union {<<x, s>>}
          /\ correct' = IF s.kind = "tuned" THEN correct \union {s} ELSE correct
          /\ IF s.requests = 0 THEN NextStep(x) ELSE GoOn(x, "wire")
  /\ UNCHANGED <<wired, overlapped, deaths, drifts>>

\* createOperation, updateOperation and updateFlow.
Wire(x) ==
  LET c == <<x, Now(x)>> IN
  /\ Active(x) /\ request[x] = "wire"
  /\ wired' = [wired EXCEPT ![c] = @ + 1]
  /\ IF wired[c] + 1 = Now(x).requests THEN NextStep(x) ELSE GoOn(x, "wire")
  /\ UNCHANGED <<copies, correct, overlapped, deaths, drifts>>

Correct(x) ==
  /\ Active(x) /\ request[x] = "correct"
  /\ correct' = correct \union {Now(x)}
  /\ NextStep(x)
  /\ UNCHANGED <<copies, wired, overlapped, deaths, drifts>>

\* main() ends with process.exit(0).
Complete(x) ==
  /\ ended[x] = "no" /\ at[x] = Len(Script) + 1
  /\ ended' = [ended EXCEPT ![x] = "completed"]
  /\ UNCHANGED <<at, request, copies, wired, correct, overlapped, deaths, drifts>>

\* A request fails or the job is cancelled: main().catch ends the process.
Fail(x) ==
  /\ Active(x)
  /\ deaths < MaxDeaths /\ deaths' = deaths + 1
  /\ Die(x)
  /\ UNCHANGED <<copies, wired, correct, overlapped, drifts>>

\* Somebody changes a setting in Directus, or where a flow is shown.
Drift(s) ==
  /\ s \in correct
  /\ drifts < MaxDrifts /\ drifts' = drifts + 1
  /\ correct' = correct \ {s}
  /\ UNCHANGED <<at, request, copies, wired, ended, overlapped, deaths>>

Proceed(x) ==
  ReadCurrent(x) \/ Create(x) \/ Wire(x) \/ Correct(x) \/ Complete(x)

BootstrapNext ==
  \/ \E x \in Execution : Proceed(x) \/ Fail(x)
  \/ \E s \in Tuned : Drift(s)

-----------------------------------------------------------------------------
(* Properties *)

Whole(c) == c \in copies /\ wired[c] = c[2].requests

\* An object that an execution left half made when it died.
Stranded(s) ==
  \E x \in Execution : ended[x] = "died" /\ <<x, s>> \in copies /\ ~Whole(<<x, s>>)

\* An execution that completes leaves every object of its script in working
\* order, unless another one is still at it or has died over it: the check by
\* name spares a half-made flow for ever. And however many there are, nothing is
\* made twice, unless two were at the same step at once, each having found
\* nothing. About the early return of the four flow functions.
CompletedLeavesWhole ==
  /\ \A x \in Execution, s \in Steps \ Settings :
       ended[x] = "completed" =>
         \/ \E y \in Execution : Whole(<<y, s>>)
         \/ Stranded(s)
         \/ \E y \in Execution : Active(y) /\ Now(y) = s
  /\ \A s \in Steps :
       Cardinality({c \in copies : c[2] = s}) > 1 => s \in overlapped
=============================================================================
