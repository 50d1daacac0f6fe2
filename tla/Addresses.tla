----------------------------- MODULE Addresses -----------------------------
(***************************************************************************)
(* A customer's address book: apps/api-identity's addresses service, whose *)
(* create and update are transactions at READ COMMITTED over the table     *)
(* with the partial unique index idx_addresses_one_default_per_user, and   *)
(* the page of apps/web that shows it, open on several devices.            *)
(***************************************************************************)
EXTENDS Integers, FiniteSets

CONSTANTS
  Address,  \* addresses the customer ever enters
  Device,   \* devices with the address book open: one request each at a time
  NoAddress

VARIABLES
  exists,   \* identity.addresses, as committed
  default,  \* ... those with is_default
  entered,  \* addresses ever created
  tx,       \* the request of a device: operation, transaction's step and writes
  list,     \* what a device shows: its rows and which of them is the default
  chosen    \* history: the last choice of a default still stands

addressVars == <<exists, default, entered, tx, list, chosen>>

NoTx == [op |-> "none", step |-> "none", target |-> NoAddress, flag |-> FALSE,
         seen |-> {}, cleared |-> {}]
Loading == [rows |-> {}, default |-> {}, open |-> FALSE]

Transactions ==
  [op : {"none", "create", "update", "remove"},
   step : {"none", "clear", "cleared", "write", "commit", "answer", "failed"},
   target : Address \union {NoAddress}, flag : BOOLEAN,
   seen : SUBSET Address, cleared : SUBSET Address]
Lists == [rows : SUBSET Address, default : SUBSET Address, open : BOOLEAN]

AddressesTypeOK ==
  /\ default \subseteq exists /\ exists \subseteq entered /\ entered \subseteq Address
  /\ tx \in [Device -> Transactions] /\ list \in [Device -> Lists]
  /\ \A d \in Device :
       /\ tx[d].cleared \subseteq default
       /\ list[d].default \subseteq list[d].rows /\ list[d].rows \subseteq entered
  /\ chosen \in BOOLEAN

AddressesInit ==
  /\ exists = {} /\ default = {} /\ entered = {}
  /\ tx = [d \in Device |-> NoTx]
  /\ list = [d \in Device |-> Loading]
  /\ chosen = FALSE

TxAt(d, step) == tx[d].step = step
TxGoTo(d, step) == tx' = [tx EXCEPT ![d].step = step]

\* Rows a transaction has written and not committed. Another's update or
\* delete of such a row waits for it.
Locked(d) ==
  tx[d].cleared \union
    (IF TxAt(d, "commit") /\ tx[d].op = "update" THEN {tx[d].target} ELSE {})
LockedByOthers(d) == UNION {Locked(e) : e \in Device \ {d}}
\* A default row written and not committed. The index makes others wait for it.
WritesDefault(d) == TxAt(d, "commit") /\ tx[d].flag

-----------------------------------------------------------------------------
(* AddressesService *)

\* list, when the page opens or is loaded again, and at no other time.
List(d) ==
  /\ tx[d] = NoTx
  /\ list' = [list EXCEPT ![d] = [rows |-> exists, default |-> default, open |-> TRUE]]
  /\ UNCHANGED <<exists, default, entered, tx, chosen>>

\* The page's buttons are disabled while its request is pending.
Ask(d, op, a, flag, step) ==
  /\ list[d].open /\ tx[d] = NoTx
  /\ tx' = [tx EXCEPT ![d] = [op |-> op, step |-> step, target |-> a, flag |-> flag,
                              seen |-> {}, cleared |-> {}]]

\* create: the page sends isDefault: false, the API takes either.
CreateAddress(d, a, flag) ==
  /\ a \notin entered
  /\ Ask(d, "create", a, flag, IF flag THEN "clear" ELSE "write")
  /\ entered' = entered \union {a}
  /\ UNCHANGED <<exists, default, list, chosen>>

\* update: assertOwnership finds the row, or there is nothing to do.
UpdateAddress(d, a, flag) ==
  /\ a \in list[d].rows /\ a \in exists
  /\ Ask(d, "update", a, flag, IF flag THEN "clear" ELSE "write")
  /\ UNCHANGED <<exists, default, entered, list, chosen>>

\* clearExistingDefault: the statement takes its snapshot,
FindDefault(d) ==
  /\ TxAt(d, "clear")
  /\ tx' = [tx EXCEPT ![d].seen = default, ![d].step = "cleared"]
  /\ UNCHANGED <<exists, default, entered, list, chosen>>

\* Mutant: the old default is cleared outside the transaction.
ClearAtOnce(d) ==
  /\ TxAt(d, "cleared")
  /\ tx[d].seen \intersect LockedByOthers(d) = {}
  /\ default' = default \ tx[d].seen
  /\ TxGoTo(d, "write")
  /\ UNCHANGED <<exists, entered, list, chosen>>

\* ... waits for the rows in it, and writes those still a default.
ClearExistingDefault(d) ==
  /\ TxAt(d, "cleared")
  /\ tx[d].seen \intersect LockedByOthers(d) = {}
  /\ tx' = [tx EXCEPT ![d].cleared = tx[d].seen \intersect default, ![d].step = "write"]
  /\ UNCHANGED <<exists, default, entered, list, chosen>>

\* The index refuses a second default that is committed,
IndexRefuses(d) == tx[d].flag /\ default \ (tx[d].cleared \union {tx[d].target}) # {}

\* The insert, or the update, which waits for another's write of the row or
\* of a default; a row gone meanwhile, or a second default, throws.
WriteAddress(d) ==
  /\ TxAt(d, "write")
  /\ tx[d].target \notin LockedByOthers(d)
  /\ tx[d].flag => /\ \A e \in Device \ {d} : ~WritesDefault(e)
                   /\ default \intersect LockedByOthers(d) = {}
  /\ IF IndexRefuses(d) \/ (tx[d].op = "update" /\ tx[d].target \notin exists)
     THEN TxGoTo(d, "failed")
     ELSE TxGoTo(d, "commit")
  /\ UNCHANGED <<exists, default, entered, list, chosen>>

CommitAddress(d) ==
  LET a == tx[d].target
      others == default \ (tx[d].cleared \union {a}) IN
  /\ TxAt(d, "commit")
  /\ exists' = exists \union {a}
  /\ default' = IF tx[d].flag THEN others \union {a} ELSE others
  /\ chosen' = IF tx[d].flag THEN TRUE ELSE chosen /\ a \notin default
  /\ tx' = [tx EXCEPT ![d].cleared = {}, ![d].step = "answer"]
  /\ UNCHANGED <<entered, list>>

\* remove: one statement.
RemoveAddress(d, a) ==
  /\ a \in list[d].rows /\ a \notin LockedByOthers(d)
  /\ Ask(d, "remove", a, FALSE, IF a \in exists THEN "answer" ELSE "failed")
  /\ exists' = exists \ {a} /\ default' = default \ {a}
  /\ chosen' = (chosen /\ a \notin default)
  /\ UNCHANGED <<entered, list>>

-----------------------------------------------------------------------------
(* AddressesPage *)

\* onAdd, onSetDefault and onDelete change the page by what was answered.
Shown(d) ==
  LET rows == list[d].rows
      old  == list[d].default
      a    == tx[d].target IN
  CASE tx[d].op = "create" -> [open |-> TRUE, rows |-> rows \union {a},
                               default |-> IF tx[d].flag THEN old \union {a} ELSE old]
    [] tx[d].op = "update" -> [open |-> TRUE, rows |-> rows,
                               default |-> IF tx[d].flag THEN {a} ELSE {}]
    [] tx[d].op = "remove" -> [open |-> TRUE, rows |-> rows \ {a}, default |-> old \ {a}]

AddressAnswered(d) ==
  /\ TxAt(d, "answer")
  /\ list' = [list EXCEPT ![d] = Shown(d)]
  /\ tx' = [tx EXCEPT ![d] = NoTx]
  /\ UNCHANGED <<exists, default, entered, chosen>>

\* A throw rolls back; the page shows the error and enables its buttons.
AddressFailed(d) ==
  /\ TxAt(d, "failed")
  /\ tx' = [tx EXCEPT ![d] = NoTx]
  /\ UNCHANGED <<exists, default, entered, list, chosen>>

\* The invocation dies, and its transaction with it.
AddressDies(d) ==
  /\ tx[d].step \in {"clear", "cleared", "write", "commit"}
  /\ tx' = [tx EXCEPT ![d] = NoTx]
  /\ UNCHANGED <<exists, default, entered, list, chosen>>

AddressesPage(d) ==
  \/ List(d)
  \/ \E a \in Address :
       \/ \E flag \in BOOLEAN : CreateAddress(d, a, flag) \/ UpdateAddress(d, a, flag)
       \/ RemoveAddress(d, a)
  \/ AddressAnswered(d) \/ AddressFailed(d)

AddressesNext ==
  \E d \in Device :
    \/ AddressesPage(d)
    \/ FindDefault(d) \/ ClearExistingDefault(d) \/ WriteAddress(d) \/ CommitAddress(d)
    \/ AddressDies(d)

AddressesSpec == AddressesInit /\ [][AddressesNext]_addressVars

-----------------------------------------------------------------------------
(* Properties *)

\* A customer who chose a default has one, and only one, until it is deleted
\* or made an ordinary address; a choice that fails half-way leaves the old
\* one standing. No row lock covers two devices choosing at once when there
\* was no default: the index does.
DefaultStands ==
  Cardinality(default) = IF chosen THEN 1 ELSE 0
=============================================================================
