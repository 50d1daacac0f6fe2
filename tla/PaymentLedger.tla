--------------------------- MODULE PaymentLedger ---------------------------
(***************************************************************************)
(* What SPEC-06's "Idempotent payment processing" promises the rest of the *)
(* store: a payment belongs to one order for good, it is announced once    *)
(* and only when that order is settled, and it takes stock once.           *)
(***************************************************************************)
EXTENDS Naturals

CONSTANTS Order, Payment, None

VARIABLES
  owner,      \* the order a payment is for, None until it is made
  settled,    \* orders that are paid
  announced,  \* OrderPaid events sent, per payment
  requested   \* stock requests sent, per payment

LInit ==
  /\ owner = [p \in Payment |-> None]
  /\ settled = {}
  /\ announced = [p \in Payment |-> 0]
  /\ requested = [p \in Payment |-> 0]

Pay(p, o) ==
  /\ owner[p] = None
  /\ owner' = [owner EXCEPT ![p] = o]
  /\ UNCHANGED <<settled, announced, requested>>

\* Only the order of a payment can be settled.
Settle(p) ==
  /\ owner[p] # None
  /\ settled' = settled \union {owner[p]}
  /\ UNCHANGED <<owner, announced, requested>>

Announce(p) ==
  /\ owner[p] \in settled
  /\ announced[p] = 0
  /\ announced' = [announced EXCEPT ![p] = 1]
  /\ UNCHANGED <<owner, settled, requested>>

Request(p) ==
  /\ owner[p] # None
  /\ requested[p] = 0
  /\ requested' = [requested EXCEPT ![p] = 1]
  /\ UNCHANGED <<owner, settled, announced>>

LNext ==
  \E p \in Payment :
    \/ \E o \in Order : Pay(p, o)
    \/ Settle(p) \/ Announce(p) \/ Request(p)

LSpec == LInit /\ [][LNext]_<<owner, settled, announced, requested>>
=============================================================================
