--------------------------- MODULE InventoryProofs ---------------------------
(***************************************************************************)
(* Proofs about InventorySync, for any sales, items, deliveries, attempts  *)
(* and faults, and every interleaving of the transactions.                 *)
(***************************************************************************)
EXTENDS InventorySync, FiniteSetTheorems, SequenceTheorems, TLAPS

\* A delivery waits for its last invocation's call, has invocations left while
\* it is queued, and has no calls but those it made.
Invoked ==
  \A d \in Delivery :
    /\ d[2] > deliveries[d[1]] => relay[d] = "none"
    /\ relay[d] = "none" => tries[d] = 0
    /\ relay[d] = "waiting" => tries[d] \in 1..MaxAttempts
    /\ relay[d] = "queued" => tries[d] < MaxAttempts
    /\ \A n \in 1..MaxAttempts : n > tries[d] => call[<<d, n>>] = "none"

\* Calls that have taken a sale's stock or may yet,
Live(s) == {c \in Call : c[1][1] = s /\ call[c] \in {"open", "committed"}}

\* ... and deliveries that will make another one.
Owed(s) ==
  {d \in Delivery : /\ d[1] = s
                    /\ \/ relay[d] = "queued"
                       \/ relay[d] = "waiting" /\ call[CurrentCall(d)] = "aborted"}

Budget(s) ==
  /\ Cardinality(Live(s)) + Cardinality(Owed(s)) <= requests[s] + repeats[s]
  /\ Cardinality(Live(s)) + Cardinality(Owed(s)) <= deliveries[s] + repeats[s]

SyncInv == TypeOK /\ Invoked /\ \A s \in Sale : Budget(s)
-----------------------------------------------------------------------------
(* Counting *)

LEMMA Counts ==
  ASSUME NEW s \in Sale
  PROVE  /\ IsFiniteSet(Live(s)) /\ Cardinality(Live(s)) \in Nat
         /\ IsFiniteSet(Owed(s)) /\ Cardinality(Owed(s)) \in Nat
<1>1. IsFiniteSet(1..MaxDeliveries) /\ IsFiniteSet(1..MaxAttempts)
  BY FS_Interval, InventoryAssumption
<1>2. IsFiniteSet({s} \X (1..MaxDeliveries))
  BY <1>1, FS_Singleton, FS_Product
<1>3. IsFiniteSet(({s} \X (1..MaxDeliveries)) \X (1..MaxAttempts))
  BY <1>1, <1>2, FS_Product
<1>4. Live(s) \subseteq ({s} \X (1..MaxDeliveries)) \X (1..MaxAttempts)
  BY DEF Live, Call, Delivery
<1>5. Owed(s) \subseteq {s} \X (1..MaxDeliveries)
  BY DEF Owed, Delivery
<1>6. IsFiniteSet(Live(s)) /\ IsFiniteSet(Owed(s))
  BY <1>2, <1>3, <1>4, <1>5, FS_Subset
<1> QED BY <1>6, FS_CardinalityType

LEMMA AtMostOneMore ==
  ASSUME NEW S, NEW T, NEW x, IsFiniteSet(S), T \subseteq S \union {x}
  PROVE  Cardinality(T) \in Nat /\ Cardinality(T) <= Cardinality(S) + 1
<1>0. Cardinality(S) \in Nat
  BY FS_CardinalityType
<1>1. IsFiniteSet(S \union {x}) /\ Cardinality(S \union {x}) <= Cardinality(S) + 1
  <2>1. /\ IsFiniteSet(S \union {x})
        /\ Cardinality(S \union {x}) = IF x \in S THEN Cardinality(S) ELSE Cardinality(S) + 1
    BY FS_AddElement
  <2> QED BY <1>0, <2>1
<1>2. IsFiniteSet(T) /\ Cardinality(T) <= Cardinality(S \union {x})
  BY <1>1, FS_Subset
<1>3. Cardinality(T) \in Nat /\ Cardinality(S \union {x}) \in Nat
  BY <1>1, <1>2, FS_CardinalityType
<1> QED BY <1>0, <1>1, <1>2, <1>3

LEMMA AtLeastOneLess ==
  ASSUME NEW S, NEW T, NEW x \in S, IsFiniteSet(S), T \subseteq S \ {x}
  PROVE  Cardinality(T) \in Nat /\ Cardinality(T) <= Cardinality(S) - 1
<1>1. IsFiniteSet(S \ {x}) /\ Cardinality(S \ {x}) = Cardinality(S) - 1
  BY FS_RemoveElement
<1>2. IsFiniteSet(T) /\ Cardinality(T) <= Cardinality(S \ {x})
  BY <1>1, FS_Subset
<1> QED BY <1>1, <1>2, FS_CardinalityType

LEMMA NotMore ==
  ASSUME NEW S, NEW T, IsFiniteSet(S), T \subseteq S
  PROVE  Cardinality(T) \in Nat /\ Cardinality(T) <= Cardinality(S)
BY FS_Subset, FS_CardinalityType
-----------------------------------------------------------------------------
(* Types *)

LEMMA Calls ==
  ASSUME NEW c \in Call
  PROVE  c[1] \in Delivery /\ c[1][1] \in Sale /\ c[2] \in 1..MaxAttempts /\ c = <<c[1], c[2]>>
BY DEF Call, Delivery

LEMMA Deliveries ==
  ASSUME NEW d \in Delivery
  PROVE  d[1] \in Sale /\ d[2] \in 1..MaxDeliveries /\ d = <<d[1], d[2]>>
BY DEF Delivery

LEMMA NextItemType ==
  ASSUME TypeOK, NEW c \in Call, updated[c] < Len(ItemsOf(c))
  PROVE  NextBook(c) \in Book /\ NextItem(c).quantity \in Nat
<1>1. ItemsOf(c) \in Seq([book : Book, quantity : Nat \ {0}])
  BY Calls, InventoryAssumption DEF ItemsOf
<1>2. updated[c] + 1 \in 1..Len(ItemsOf(c))
  BY <1>1 DEF TypeOK
<1>3. NextItem(c) \in [book : Book, quantity : Nat \ {0}]
  BY <1>1, <1>2, ElementOfSeq DEF NextItem
<1> QED BY <1>3 DEF NextBook

LEMMA DecrementedType ==
  ASSUME NEW row \in Row, NEW n \in Nat
  PROVE  Decremented(row, n) \in Row
BY DEF Decremented, Monus, Row, Availability
-----------------------------------------------------------------------------
(* Each action keeps the invariant *)

LEMMA InitSync == Init => SyncInv
<1> SUFFICES ASSUME Init PROVE SyncInv
  OBVIOUS
<1>1. TypeOK
  <2>1. /\ OpeningStock \in [Book -> Nat] /\ OpeningState \in [Book -> Availability]
        /\ MaxRequests \in Nat /\ MaxDeliveries \in Nat /\ MaxFaults \in Nat
        /\ MaxAttempts \in Nat
    BY InventoryAssumption
  <2> QED BY <2>1 DEF Init, TypeOK, Relay, Row
<1>2. Invoked
  BY DEF Init, Invoked, Delivery, Call
<1>3. \A s \in Sale : Live(s) = {} /\ Owed(s) = {}
  BY DEF Init, Live, Owed
<1>4. Cardinality({}) = 0
  BY FS_EmptySet
<1>5. ASSUME NEW s \in Sale
      PROVE  Budget(s)
  <2>1. Cardinality(Live(s)) = 0 /\ Cardinality(Owed(s)) = 0
    BY <1>3, <1>4
  <2>2. requests[s] = 0 /\ repeats[s] = 0 /\ deliveries[s] = 0
    BY DEF Init
  <2> QED BY <2>1, <2>2 DEF Budget
<1> QED BY <1>1, <1>2, <1>5 DEF SyncInv

\* More events of any sales leave the invariant as it is.
LEMMA MoreRequestsKeep ==
  ASSUME SyncInv, requests' \in [Sale -> Nat],
         \A q \in Sale : requests[q] <= requests'[q],
         faults' \in 0..MaxFaults,
         UNCHANGED <<deliveries, relay, tries, call, updated, stock, availability,
                     written, repeats>>
  PROVE  SyncInv'
<1> USE DEF SyncInv
<1>1. TypeOK'
  BY DEF TypeOK
<1>2. Invoked'
  BY DEF Invoked
<1>3. \A q \in Sale : Live(q)' = Live(q) /\ Owed(q)' = Owed(q)
  BY DEF Live, Owed, CurrentCall
<1>4. ASSUME NEW q \in Sale
      PROVE  Budget(q)'
  <2>1. Budget(q) /\ requests[q] \in Nat /\ requests'[q] \in Nat /\ repeats[q] \in Nat
    BY DEF TypeOK
  <2> QED BY <1>3, <2>1, Counts DEF Budget
<1> QED BY <1>1, <1>2, <1>4

LEMMA RequestKeeps ==
  ASSUME SyncInv, NEW s \in Sale, Request(s)
  PROVE  SyncInv'
<1>1. requests' \in [Sale -> Nat] /\ \A q \in Sale : requests[q] <= requests'[q]
  BY DEF Request, SyncInv, TypeOK
<1>2. faults' \in 0..MaxFaults
  BY DEF Request, SyncInv, TypeOK
<1> QED BY <1>1, <1>2, MoreRequestsKeep DEF Request, http, trx, rows

LEMMA DeliverKeeps ==
  ASSUME SyncInv, NEW s \in Sale, Deliver(s)
  PROVE  SyncInv'
<1> DEFINE d == <<s, deliveries[s] + 1>>
<1> USE DEF SyncInv, trx, rows
<1>0. d \in Delivery /\ deliveries[s] \in Nat /\ MaxDeliveries \in Nat /\ MaxFaults \in Nat
  BY InventoryAssumption DEF Deliver, TypeOK, Delivery
<1>a. /\ deliveries' = [deliveries EXCEPT ![s] = @ + 1]
      /\ relay' = [relay EXCEPT ![d] = "queued"]
      /\ UNCHANGED <<requests, tries, call, updated, stock, availability, written>>
  BY DEF Deliver
<1>1. TypeOK'
  <2>1. faults' \in 0..MaxFaults /\ repeats' \in [Sale -> Nat]
    BY <1>0 DEF Deliver, UseFault, TypeOK
  <2>2. deliveries' \in [Sale -> 0..MaxDeliveries] /\ relay' \in [Delivery -> Relay]
    BY <1>0 DEF Deliver, TypeOK, Relay
  <2> QED BY <1>a, <2>1, <2>2 DEF TypeOK
<1>2. Invoked'
  <2>1. relay[d] = "none" /\ tries[d] = 0 /\ 0 < MaxAttempts /\ d[1] = s /\ d[2] = deliveries[s] + 1
    BY <1>0, InventoryAssumption DEF Invoked
  <2>2. \A e \in Delivery : deliveries'[e[1]] >= deliveries[e[1]]
                             /\ deliveries'[e[1]] \in Nat /\ deliveries[e[1]] \in Nat
    BY <1>a, Deliveries DEF TypeOK
  <2>3. deliveries'[s] = deliveries[s] + 1
    BY <1>a DEF TypeOK
  <2>4. relay'[d] = "queued" /\ \A e \in Delivery : e # d => relay'[e] = relay[e]
    BY <1>0, <1>a DEF TypeOK
  <2> HIDE DEF d
  <2>5. ASSUME NEW e \in Delivery, e[2] > deliveries'[e[1]]
        PROVE  relay'[e] = "none"
    <3>1. e # d
      BY <1>0, <2>1, <2>3, <2>5
    <3>2. e[2] > deliveries[e[1]]
      BY <2>2, <2>5, Deliveries
    <3> QED BY <2>4, <3>1, <3>2 DEF Invoked
  <2> QED BY <1>a, <2>1, <2>4, <2>5 DEF Invoked
<1>3. Live(s)' = Live(s) /\ Owed(s)' \subseteq Owed(s) \union {d}
  <2>1. Live(s)' = Live(s)
    BY <1>a DEF Live
  <2>2. \A e \in Delivery : e # d => relay'[e] = relay[e] /\ CurrentCall(e)' = CurrentCall(e)
    BY <1>0, <1>a DEF CurrentCall, TypeOK
  <2>3. call' = call
    BY <1>a
  <2> HIDE DEF d
  <2>4. Owed(s)' \subseteq Owed(s) \union {d}
    BY <2>2, <2>3 DEF Owed
  <2> QED BY <2>1, <2>4
<1>4. \A q \in Sale \ {s} : Live(q)' = Live(q) /\ Owed(q)' = Owed(q)
  BY <1>0, <1>a DEF Live, Owed, CurrentCall, TypeOK
<1>5. Budget(s)'
  <2>1. Cardinality(Owed(s)') <= Cardinality(Owed(s)) + 1
    BY <1>3, Counts, AtMostOneMore
  <2>2. Cardinality(Owed(s)') \in Nat
    BY <1>3, Counts, AtMostOneMore
  <2>3. /\ requests[s] \in Nat /\ repeats[s] \in Nat
        /\ deliveries'[s] = deliveries[s] + 1 /\ requests'[s] = requests[s]
    BY <1>a DEF TypeOK
  <2>4. \/ deliveries[s] < requests[s] /\ repeats'[s] = repeats[s]
        \/ repeats'[s] = repeats[s] + 1
    BY DEF Deliver, TypeOK
  <2>5. Budget(s)
    OBVIOUS
  <2> QED BY <1>0, <1>3, <2>1, <2>2, <2>3, <2>4, <2>5, Counts DEF Budget
<1>6. ASSUME NEW q \in Sale \ {s} PROVE Budget(q)'
  <2>1. deliveries'[q] = deliveries[q] /\ requests'[q] = requests[q] /\ repeats'[q] = repeats[q]
    BY <1>a DEF Deliver, TypeOK
  <2>2. Budget(q)
    OBVIOUS
  <2> QED BY <1>4, <2>1, <2>2 DEF Budget
<1> QED BY <1>1, <1>2, <1>5, <1>6

LEMMA InvokeKeeps ==
  ASSUME SyncInv, NEW d \in Delivery, Invoke(d)
  PROVE  SyncInv'
<1> DEFINE s == d[1]
           c == <<d, tries[d] + 1>>
<1> USE DEF SyncInv, bus, rows
<1>0. /\ s \in Sale /\ c \in Call /\ tries[d] \in Nat /\ tries[d] < MaxAttempts
      /\ MaxAttempts \in Nat /\ call[c] = "none" /\ relay[d] = "queued"
  BY Deliveries, InventoryAssumption DEF Invoke, Invoked, TypeOK, Call
<1>a. /\ relay' = [relay EXCEPT ![d] = "waiting"]
      /\ tries' = [tries EXCEPT ![d] = @ + 1]
      /\ call' = [call EXCEPT ![c] = "open"]
      /\ UNCHANGED <<requests, deliveries, updated, stock, availability, written, repeats, faults>>
  BY DEF Invoke
<1>1. TypeOK'
  BY <1>0, <1>a DEF TypeOK, Relay
<1>2. Invoked'
  BY <1>0, <1>a DEF Invoked, TypeOK, Call
<1>3. Live(s)' \subseteq Live(s) \union {c}
  BY <1>0, <1>a DEF Live, TypeOK
<1>4. Owed(s)' \subseteq Owed(s) \ {d} /\ d \in Owed(s)
  <2>1. relay'[d] = "waiting" /\ \A e \in Delivery : e # d => relay'[e] = relay[e]
    BY <1>a DEF TypeOK
  <2>2. CurrentCall(d)' = c /\ \A e \in Delivery : e # d => CurrentCall(e)' = CurrentCall(e)
    BY <1>a DEF TypeOK, CurrentCall
  <2>3. call'[c] = "open"
    BY <1>0, <1>a DEF TypeOK
  <2>4. \A e \in Delivery : e # d => call'[CurrentCall(e)] = call[CurrentCall(e)]
    BY <1>0, <1>a DEF TypeOK, CurrentCall
  <2> HIDE DEF c
  <2> QED BY <1>0, <2>1, <2>2, <2>3, <2>4 DEF Owed
<1>5. Budget(s)'
  <2>1. Cardinality(Live(s)') \in Nat /\ Cardinality(Live(s)') <= Cardinality(Live(s)) + 1
    BY <1>0, <1>3, Counts, AtMostOneMore
  <2>2. Cardinality(Owed(s)') \in Nat /\ Cardinality(Owed(s)') <= Cardinality(Owed(s)) - 1
    BY <1>0, <1>4, Counts, AtLeastOneLess
  <2>4. Budget(s)
    BY <1>0
  <2>5. requests[s] \in Nat /\ repeats[s] \in Nat /\ deliveries[s] \in Nat
    BY <1>0 DEF TypeOK
  <2> QED BY <1>0, <1>a, <2>1, <2>2, <2>4, <2>5, Counts DEF Budget
<1>6. ASSUME NEW q \in Sale \ {s} PROVE Budget(q)'
  <2>1. Live(q)' = Live(q)
    BY <1>0, <1>a DEF Live, TypeOK
  <2>2. Owed(q)' = Owed(q)
    BY <1>0, <1>a DEF Owed, CurrentCall, TypeOK, Call
  <2>3. Budget(q)
    OBVIOUS
  <2> QED BY <1>a, <2>1, <2>2, <2>3 DEF Budget
<1> QED BY <1>1, <1>2, <1>5, <1>6

\* What an answer or a lost one leaves of a delivery that waited.
LEMMA RequeueKeeps ==
  ASSUME TypeOK, Invoked, NEW d \in Delivery, relay[d] = "waiting",
         relay' = [relay EXCEPT ![d] = "done"] \/ Requeue(d),
         UNCHANGED <<bus, tries, trx>>
  PROVE  /\ relay' \in [Delivery -> Relay]
         /\ Invoked'
         /\ \A s \in Sale : Live(s)' = Live(s)
         /\ \A s \in Sale \ {d[1]} : Owed(s)' = Owed(s)
         /\ Owed(d[1])' \subseteq Owed(d[1]) \union {d}
         /\ relay'[d] = "done" => Owed(d[1])' \subseteq Owed(d[1])
<1> USE DEF bus, trx
<1>0. PICK answer \in Relay :
        /\ relay' = [relay EXCEPT ![d] = answer]
        /\ answer \in {"done", "queued", "dropped"}
        /\ answer = "queued" => tries[d] < MaxAttempts
  BY DEF Requeue, Relay
<1>1. relay' \in [Delivery -> Relay]
  BY <1>0 DEF TypeOK
<1>2. Invoked'
  BY <1>0 DEF Invoked, TypeOK
<1>3. \A s \in Sale : Live(s)' = Live(s)
  BY DEF Live
<1>4. \A e \in Delivery : CurrentCall(e)' = CurrentCall(e) /\ (e # d => relay'[e] = relay[e])
  BY <1>0 DEF CurrentCall, TypeOK
<1>5. relay'[d] = answer
  BY <1>0 DEF TypeOK
<1>6. \A s \in Sale \ {d[1]} : Owed(s)' = Owed(s)
  BY <1>4 DEF Owed
<1>7. Owed(d[1])' \subseteq Owed(d[1]) \union {d}
  BY <1>4 DEF Owed
<1>8. relay'[d] = "done" => Owed(d[1])' \subseteq Owed(d[1])
  BY <1>4 DEF Owed
<1> QED BY <1>1, <1>2, <1>3, <1>6, <1>7, <1>8

LEMMA AnswerKeeps ==
  ASSUME SyncInv, NEW d \in Delivery, Answer(d)
  PROVE  SyncInv'
<1> USE DEF SyncInv
<1>0. relay[d] = "waiting" /\ d[1] \in Sale /\ UNCHANGED <<bus, tries, trx, rows, repeats, faults>>
  BY Deliveries DEF Answer
<1>1. \/ relay' = [relay EXCEPT ![d] = "done"]
      \/ call[CurrentCall(d)] = "aborted" /\ Requeue(d)
  BY DEF Answer
<1>2. TypeOK'
  BY <1>0, <1>1, RequeueKeeps DEF TypeOK, bus, trx, rows
<1>3. Invoked'
  BY <1>0, <1>1, RequeueKeeps
<1>4. Owed(d[1])' \subseteq Owed(d[1])
  <2>1. CASE relay' = [relay EXCEPT ![d] = "done"]
    <3>1. relay'[d] = "done"
      BY <2>1 DEF TypeOK
    <3> QED BY <1>0, <2>1, <3>1, RequeueKeeps
  <2>2. CASE call[CurrentCall(d)] = "aborted" /\ Requeue(d)
    <3>1. d \in Owed(d[1])
      BY <1>0, <2>2 DEF Owed
    <3> QED BY <1>0, <2>2, <3>1, RequeueKeeps
  <2> QED BY <1>1, <2>1, <2>2
<1>5. ASSUME NEW s \in Sale PROVE Budget(s)'
  <2>1. Live(s)' = Live(s) /\ Owed(s)' \subseteq Owed(s)
    BY <1>0, <1>1, <1>4, RequeueKeeps
  <2>2. Cardinality(Owed(s)') \in Nat /\ Cardinality(Owed(s)') <= Cardinality(Owed(s))
    BY <2>1, Counts, NotMore
  <2>3. Budget(s) /\ requests[s] \in Nat /\ repeats[s] \in Nat /\ deliveries[s] \in Nat
    BY DEF TypeOK
  <2> QED BY <1>0, <2>1, <2>2, <2>3, Counts DEF Budget, bus
<1> QED BY <1>2, <1>3, <1>5

LEMMA GiveUpKeeps ==
  ASSUME SyncInv, NEW d \in Delivery, GiveUp(d)
  PROVE  SyncInv'
<1> USE DEF SyncInv
<1>0. /\ relay[d] = "waiting" /\ d[1] \in Sale /\ UNCHANGED <<bus, tries, trx, rows>>
      /\ repeats' = [repeats EXCEPT ![d[1]] = @ + 1]
      /\ Requeue(d)
  BY Deliveries DEF GiveUp
<1>1. faults' \in 0..MaxFaults
  BY InventoryAssumption DEF GiveUp, UseFault, TypeOK
<1>2. TypeOK'
  BY <1>0, <1>1, RequeueKeeps DEF TypeOK, bus, trx, rows
<1>3. Invoked'
  BY <1>0, RequeueKeeps
<1>4. Budget(d[1])'
  <2> DEFINE s == d[1]
  <2>1. Live(s)' = Live(s) /\ Owed(s)' \subseteq Owed(s) \union {d}
    BY <1>0, RequeueKeeps
  <2>2. Cardinality(Owed(s)') \in Nat /\ Cardinality(Owed(s)') <= Cardinality(Owed(s)) + 1
    BY <1>0, <2>1, Counts, AtMostOneMore
  <2>3. Budget(s) /\ requests[s] \in Nat /\ repeats[s] \in Nat /\ deliveries[s] \in Nat
    BY <1>0 DEF TypeOK
  <2>4. repeats'[s] = repeats[s] + 1
    BY <1>0 DEF TypeOK
  <2> QED BY <1>0, <2>1, <2>2, <2>3, <2>4, Counts DEF Budget, bus
<1>5. ASSUME NEW s \in Sale \ {d[1]} PROVE Budget(s)'
  <2>1. Live(s)' = Live(s) /\ Owed(s)' = Owed(s)
    BY <1>0, RequeueKeeps
  <2>2. repeats'[s] = repeats[s] /\ Budget(s)
    BY <1>0
  <2> QED BY <1>0, <2>1, <2>2 DEF Budget, bus
<1> QED BY <1>2, <1>3, <1>4, <1>5

LEMMA UpdateRowKeeps ==
  ASSUME SyncInv, NEW c \in Call, UpdateRow(c)
  PROVE  SyncInv'
<1> USE DEF SyncInv, bus, http
<1>1. TypeOK'
  <2>1. NextBook(c) \in Book /\ NextItem(c).quantity \in Nat
    BY NextItemType DEF UpdateRow
  <2>2. Decremented(written[NextBook(c)], NextItem(c).quantity) \in Row
    BY <2>1, DecrementedType DEF TypeOK
  <2>3. written' \in [Book -> Row]
    BY <2>1, <2>2 DEF UpdateRow, TypeOK
  <2>4. updated' \in [Call -> Nat]
    BY DEF UpdateRow, TypeOK
  <2> QED BY <2>3, <2>4 DEF UpdateRow, TypeOK
<1>2. Invoked'
  BY DEF UpdateRow, Invoked
<1>3. \A s \in Sale : Live(s)' = Live(s) /\ Owed(s)' = Owed(s)
  BY DEF UpdateRow, Live, Owed, CurrentCall
<1>4. \A s \in Sale : Budget(s)'
  BY <1>3 DEF UpdateRow, Budget
<1> QED BY <1>1, <1>2, <1>4

LEMMA CommitKeeps ==
  ASSUME SyncInv, NEW c \in Call, Commit(c)
  PROVE  SyncInv'
<1> USE DEF SyncInv, bus, http
<1>1. TypeOK'
  BY DEF Commit, TypeOK, Row
<1>2. Invoked'
  BY DEF Commit, Invoked, TypeOK, Call
<1>3. \A s \in Sale : Live(s)' = Live(s)
  BY DEF Commit, Live, TypeOK
<1>4. \A s \in Sale : Owed(s)' = Owed(s)
  <2>1. \A e \in Delivery : relay[e] = "waiting" => CurrentCall(e) \in Call
    BY DEF Invoked, CurrentCall, Call
  <2>2. \A e \in Delivery : relay[e] = "waiting" =>
          (call'[CurrentCall(e)] = "aborted" <=> call[CurrentCall(e)] = "aborted")
    BY <2>1 DEF Commit, TypeOK
  <2>3. relay' = relay /\ \A e \in Delivery : CurrentCall(e)' = CurrentCall(e)
    BY DEF Commit, CurrentCall
  <2> QED BY <2>2, <2>3 DEF Owed
<1>5. \A s \in Sale : Budget(s)'
  BY <1>3, <1>4 DEF Commit, Budget
<1> QED BY <1>1, <1>2, <1>5

LEMMA AbortKeeps ==
  ASSUME SyncInv, NEW c \in Call, call[c] = "open", Abort(c), faults' \in 0..MaxFaults
  PROVE  SyncInv'
<1> DEFINE d == c[1]
           s == d[1]
<1> USE DEF SyncInv, bus, http
<1>0. d \in Delivery /\ s \in Sale
  BY Calls
<1>1. TypeOK'
  BY DEF Abort, TypeOK, Row
<1>2. Invoked'
  BY DEF Abort, Invoked, TypeOK, Call
<1>3. Live(s)' \subseteq Live(s) \ {c} /\ c \in Live(s)
  BY DEF Abort, Live, TypeOK
<1>4. \A q \in Sale \ {s} : Live(q)' = Live(q)
  BY DEF Abort, Live, TypeOK
<1>5. \A e \in Delivery : relay[e] = "waiting" /\ e # d =>
        call'[CurrentCall(e)] = call[CurrentCall(e)]
  <2>1. \A e \in Delivery : relay[e] = "waiting" => CurrentCall(e) \in Call
    BY DEF Invoked, CurrentCall, Call
  <2>2. \A e \in Delivery : e # d => CurrentCall(e) # c
    BY Calls DEF CurrentCall
  <2> QED BY <2>1, <2>2 DEF Abort, TypeOK
<1>6. relay' = relay /\ \A e \in Delivery : CurrentCall(e)' = CurrentCall(e)
  BY DEF Abort, CurrentCall
<1>7. Owed(s)' \subseteq Owed(s) \union {d}
  BY <1>5, <1>6 DEF Owed
<1>8. \A q \in Sale \ {s} : Owed(q)' = Owed(q)
  BY <1>5, <1>6 DEF Owed
<1>9. Budget(s)'
  <2>1. Cardinality(Live(s)') \in Nat /\ Cardinality(Live(s)') <= Cardinality(Live(s)) - 1
    BY <1>0, <1>3, Counts, AtLeastOneLess
  <2>2. Cardinality(Owed(s)') \in Nat /\ Cardinality(Owed(s)') <= Cardinality(Owed(s)) + 1
    BY <1>0, <1>7, Counts, AtMostOneMore
  <2>3. Budget(s) /\ requests[s] \in Nat /\ repeats[s] \in Nat /\ deliveries[s] \in Nat
    BY <1>0 DEF TypeOK
  <2> QED BY <1>0, <2>1, <2>2, <2>3, Counts DEF Abort, Budget
<1>10. \A q \in Sale \ {s} : Budget(q)'
  BY <1>4, <1>8 DEF Abort, Budget
<1> QED BY <1>0, <1>1, <1>2, <1>9, <1>10
-----------------------------------------------------------------------------
(* What the rows hold *)

\* A row after n units of its book were taken of it.
After(row, n) ==
  [stock |-> Monus(row.stock, n),
   availability |-> IF n > 0 /\ Monus(row.stock, n) = 0
                      THEN "out_of_stock" ELSE row.availability]

OpeningRow(b) == [stock |-> OpeningStock[b], availability |-> OpeningState[b]]
CommittedRow(b) == [stock |-> stock[b], availability |-> availability[b]]

\* Units that an open transaction has taken and may give back.
PendingUnits(b) ==
  UNION {Units(c, updated[c], b) : c \in {d \in Call : call[d] = "open"}}

\* One transaction at a time holds a row; what is committed is the opening row
\* less the units taken, and its locker sees that less what it has taken itself.
RowInv(b) ==
  /\ \A c, d \in Call : Locks(c, b) /\ Locks(d, b) => c = d
  /\ IsFiniteSet(TakenUnits(b)) /\ IsFiniteSet(PendingUnits(b))
  /\ CommittedRow(b) = After(OpeningRow(b), Cardinality(TakenUnits(b)))
  /\ written[b] = After(CommittedRow(b), Cardinality(PendingUnits(b)))

InItems ==
  \A c \in Call : /\ updated[c] <= Len(ItemsOf(c))
                  /\ call[c] = "none" => updated[c] = 0

StockInv == InItems /\ \A b \in Book : RowInv(b)

LEMMA ItemType ==
  ASSUME NEW c \in Call, NEW i \in 1..Len(ItemsOf(c))
  PROVE  ItemsOf(c)[i] \in [book : Book, quantity : Nat \ {0}] /\ Len(ItemsOf(c)) \in Nat
<1>1. ItemsOf(c) \in Seq([book : Book, quantity : Nat \ {0}])
  BY Calls, InventoryAssumption DEF ItemsOf
<1>2. Len(ItemsOf(c)) \in Nat
  BY <1>1, LenProperties
<1> QED BY <1>1, <1>2, ElementOfSeq

\* Taking m and then n is taking m + n.
LEMMA AfterAfter ==
  ASSUME NEW row \in Row, NEW m \in Nat, NEW n \in Nat
  PROVE  After(row, m) \in Row /\ After(After(row, m), n) = After(row, m + n)
<1>1. After(row, m) \in Row
  BY DEF After, Monus, Row, Availability
<1>2. Monus(Monus(row.stock, m), n) = Monus(row.stock, m + n)
  BY DEF Monus, Row
<1>3. \/ ~(n > 0 /\ Monus(row.stock, m + n) = 0) /\ ~(m > 0 /\ Monus(row.stock, m) = 0)
            /\ ~(m + n > 0 /\ Monus(row.stock, m + n) = 0)
      \/ m + n > 0 /\ Monus(row.stock, m + n) = 0
  BY DEF Monus, Row
<1>4. m + n > 0 /\ Monus(row.stock, m + n) = 0 =>
        \/ n > 0 /\ Monus(row.stock, m + n) = 0
        \/ m > 0 /\ Monus(row.stock, m) = 0
  BY DEF Monus, Row
<1>5. After(After(row, m), n).availability = After(row, m + n).availability
  BY <1>2, <1>3, <1>4 DEF After
<1> QED BY <1>1, <1>2, <1>5 DEF After

LEMMA AfterNone ==
  ASSUME NEW row \in Row
  PROVE  After(row, 0) = row
<1>1. Monus(row.stock, 0) = row.stock /\ row = [stock |-> row.stock, availability |-> row.availability]
  BY DEF Monus, Row
<1> QED BY <1>1 DEF After

LEMMA DecrementedIsAfter ==
  ASSUME NEW row \in Row, NEW n \in Nat \ {0}
  PROVE  Decremented(row, n) = After(row, n)
BY DEF Decremented, After

LEMMA UnitsMembers ==
  ASSUME NEW c, NEW n, NEW b, NEW u
  PROVE  u \in Units(c, n, b) <=>
           \E i \in 1..n : /\ ItemsOf(c)[i].book = b
                           /\ \E k \in 1..ItemsOf(c)[i].quantity : u = <<c, i, k>>
BY DEF Units

LEMMA UnitsOfCall ==
  ASSUME NEW c, NEW n, NEW b, NEW u \in Units(c, n, b)
  PROVE  u[1] = c
BY UnitsMembers

LEMMA UnitsUnlessLocked ==
  ASSUME NEW c \in Call, call[c] = "open", NEW b, ~Locks(c, b)
  PROVE  Units(c, updated[c], b) = {}
BY UnitsMembers DEF Locks

\* Units of one item.
ItemUnits(c, i, q) == {<<c, i, k>> : k \in 1..q}

LEMMA ItemUnitsCount ==
  ASSUME NEW c, NEW i, NEW q \in Nat
  PROVE  IsFiniteSet(ItemUnits(c, i, q)) /\ Cardinality(ItemUnits(c, i, q)) = q
<1> DEFINE U == ItemUnits(c, i, q)
           f == [k \in 1..q |-> <<c, i, k>>]
<1>1. f \in Bijection(1..q, U)
  <2>1. f \in [1..q -> U]
    BY DEF ItemUnits
  <2>2. \A k, l \in 1..q : f[k] = f[l] => k = l
    OBVIOUS
  <2>3. \A u \in U : \E k \in 1..q : f[k] = u
    BY DEF ItemUnits
  <2> QED BY <2>1, <2>2, <2>3 DEF Bijection, Injection, Surjection, IsInjective
<1>2. IsFiniteSet(1..q) /\ Cardinality(1..q) = q
  BY FS_Interval
<1>3. ExistsBijection(1..q, U)
  BY <1>1 DEF ExistsBijection
<1> QED BY <1>2, <1>3, FS_Bijection

LEMMA Disjoint ==
  ASSUME NEW S, NEW T, IsFiniteSet(S), IsFiniteSet(T), S \cap T = {}
  PROVE  /\ IsFiniteSet(S \union T)
         /\ Cardinality(S \union T) = Cardinality(S) + Cardinality(T)
         /\ Cardinality(S) \in Nat /\ Cardinality(T) \in Nat
<1>1. IsFiniteSet(S \union T) /\ Cardinality(S \union T) = Cardinality(S) + Cardinality(T) - Cardinality(S \cap T)
  BY FS_Union
<1>2. Cardinality(S \cap T) = 0
  BY FS_EmptySet
<1> QED BY <1>1, <1>2, FS_CardinalityType

LEMMA StockInit == Init => StockInv
<1> SUFFICES ASSUME Init PROVE StockInv
  OBVIOUS
<1>1. InItems
  <2>1. \A c \in Call : Len(ItemsOf(c)) \in Nat
    BY Calls, InventoryAssumption, LenProperties DEF ItemsOf
  <2> QED BY <2>1 DEF Init, InItems
<1>2. ASSUME NEW b \in Book PROVE RowInv(b)
  <2>1. \A c \in Call : call[c] = "none"
    BY DEF Init
  <2>2. TakenUnits(b) = {} /\ PendingUnits(b) = {}
    BY <2>1 DEF TakenUnits, PendingUnits
  <2>3. IsFiniteSet({}) /\ Cardinality({}) = 0
    BY FS_EmptySet
  <2>4. CommittedRow(b) = OpeningRow(b) /\ written[b] = OpeningRow(b)
    BY DEF Init, CommittedRow, OpeningRow
  <2>5. OpeningRow(b) \in Row
    BY InventoryAssumption DEF OpeningRow, Row
  <2>6. After(OpeningRow(b), 0) = OpeningRow(b)
    BY <2>5, AfterNone
  <2>7. \A c \in Call : ~Locks(c, b)
    BY <2>1 DEF Locks
  <2> QED BY <2>2, <2>3, <2>4, <2>6, <2>7 DEF RowInv
<1> QED BY <1>1, <1>2 DEF StockInv

\* A call begins with nothing updated.
LEMMA InvokeKeepsStock ==
  ASSUME TypeOK, Invoked, StockInv, NEW e \in Delivery, Invoke(e)
  PROVE  StockInv'
<1>0. PICK c \in Call : c = <<e, tries[e] + 1>> /\ call[c] = "none"
  BY InventoryAssumption DEF Invoke, Invoked, TypeOK, Call
<1>1. updated[c] = 0
  BY <1>0 DEF StockInv, InItems
<1>2. /\ call' = [call EXCEPT ![c] = "open"]
      /\ UNCHANGED <<updated, stock, availability, written>>
  BY <1>0 DEF Invoke, rows
<1>3. \A d \in Call : d # c => call'[d] = call[d]
  BY <1>0, <1>2 DEF TypeOK
<1>4. call'[c] = "open"
  BY <1>0, <1>2 DEF TypeOK
<1>5. InItems'
  BY <1>1, <1>2, <1>3, <1>4 DEF StockInv, InItems, ItemsOf
<1>6. ASSUME NEW b \in Book PROVE RowInv(b)'
  <2>1. Units(c, updated[c], b) = {}
    <3>1. 1..updated[c] = {}
      BY <1>1
    <3> QED BY <3>1, UnitsMembers
  <2>2. \A d \in Call : Units(d, updated[d], b)' = Units(d, updated[d], b)
    BY <1>2 DEF Units, ItemsOf
  <2>3. PendingUnits(b)' = PendingUnits(b)
    BY <1>0, <1>3, <1>4, <2>1, <2>2 DEF PendingUnits
  <2>4. TakenUnits(b)' = TakenUnits(b)
    BY <1>0, <1>3, <1>4 DEF TakenUnits, Units, ItemsOf
  <2>5. \A d \in Call : Locks(d, b)' => Locks(d, b)
    <3>1. ~Locks(c, b)'
      <4>1. 1..updated'[c] = {}
        BY <1>1, <1>2
      <4> QED BY <4>1 DEF Locks
    <3>2. \A d \in Call \ {c} : Locks(d, b)' => Locks(d, b)
      BY <1>2, <1>3 DEF Locks, ItemsOf
    <3> QED BY <3>1, <3>2
  <2>6. CommittedRow(b)' = CommittedRow(b) /\ written'[b] = written[b]
    BY <1>2 DEF CommittedRow
  <2>7. RowInv(b)
    BY DEF StockInv
  <2> QED BY <2>3, <2>4, <2>5, <2>6, <2>7 DEF RowInv, OpeningRow
<1> QED BY <1>5, <1>6 DEF StockInv
LEMMA RowTypes ==
  ASSUME TypeOK, NEW b \in Book
  PROVE  OpeningRow(b) \in Row /\ CommittedRow(b) \in Row /\ written[b] \in Row
BY InventoryAssumption DEF TypeOK, OpeningRow, CommittedRow, Row

\* A statement takes the units of its item of a row that no other call holds.
LEMMA UpdateRowKeepsStock ==
  ASSUME TypeOK, StockInv, NEW c \in Call, UpdateRow(c)
  PROVE  StockInv'
<1>0. PICK i \in Nat \ {0} : i = updated[c] + 1
  BY DEF TypeOK
<1>1. /\ call[c] = "open" /\ call' = call
      /\ UNCHANGED <<stock, availability>>
      /\ \A d \in Call : ~WaitsFor(c, d)
      /\ updated[c] < Len(ItemsOf(c))
  BY DEF UpdateRow
<1>2. \A d \in Call : updated'[d] = IF d = c THEN i ELSE updated[d]
  BY <1>0 DEF UpdateRow, TypeOK
<1>3. i \in 1..Len(ItemsOf(c)) /\ Len(ItemsOf(c)) \in Nat /\ updated[c] \in Nat
  <2>1. Len(ItemsOf(c)) \in Nat
    BY Calls, InventoryAssumption, LenProperties DEF ItemsOf
  <2> QED BY <1>0, <1>1, <2>1 DEF TypeOK
<1>4. PICK item \in [book : Book, quantity : Nat \ {0}] :
        item = ItemsOf(c)[i] /\ NextItem(c) = item /\ NextBook(c) = item.book
  BY <1>0, <1>3, ItemType DEF NextItem, NextBook
<1>5. /\ item.book \in Book /\ item.quantity \in Nat \ {0}
      /\ written' = [written EXCEPT ![item.book] = Decremented(@, item.quantity)]
  BY <1>4 DEF UpdateRow
<1>6. InItems'
  BY <1>1, <1>2, <1>3 DEF StockInv, InItems, ItemsOf
<1>7. \A j : j \in 1..i <=> j \in 1..updated[c] \/ j = i
  BY <1>0, <1>3
<1>8. \A d \in Call \ {c}, b \in Book :
        Units(d, updated[d], b)' = Units(d, updated[d], b) /\ Locks(d, b)' = Locks(d, b)
  BY <1>1, <1>2 DEF Units, Locks, ItemsOf
<1>9. ASSUME NEW b \in Book, b # item.book PROVE RowInv(b)'
  <2>1. Units(c, i, b) = Units(c, updated[c], b)
    <3>1. \A u : u \in Units(c, i, b) <=> u \in Units(c, updated[c], b)
      BY <1>4, <1>7, <1>9, UnitsMembers
    <3> QED BY <3>1
  <2>2. Units(c, updated[c], b)' = Units(c, i, b)
    BY <1>2 DEF Units, ItemsOf
  <2>3. PendingUnits(b)' = PendingUnits(b)
    <3>1. \A d \in Call : Units(d, updated[d], b)' = Units(d, updated[d], b)
      BY <1>8, <2>1, <2>2
    <3> QED BY <1>1, <3>1 DEF PendingUnits
  <2>4. TakenUnits(b)' = TakenUnits(b)
    BY <1>1 DEF TakenUnits, Units, ItemsOf
  <2>5. Locks(c, b)' = Locks(c, b)
    <3>1. Locks(c, b)' <=> \E j \in 1..i : ItemsOf(c)[j].book = b
      BY <1>1, <1>2 DEF Locks, ItemsOf
    <3>2. Locks(c, b) <=> \E j \in 1..updated[c] : ItemsOf(c)[j].book = b
      BY <1>1 DEF Locks
    <3>3. Locks(c, b)' <=> Locks(c, b)
      BY <1>4, <1>7, <1>9, <3>1, <3>2
    <3> QED BY <3>3 DEF Locks
  <2>6. CommittedRow(b)' = CommittedRow(b) /\ written'[b] = written[b]
    BY <1>1, <1>5, <1>9 DEF CommittedRow, TypeOK
  <2>7. RowInv(b)
    BY DEF StockInv
  <2> QED BY <1>8, <2>3, <2>4, <2>5, <2>6, <2>7 DEF RowInv, OpeningRow
<1>10. RowInv(item.book)'
  <2> DEFINE U == ItemUnits(c, i, item.quantity)
  <2>0. PICK b \in Book : b = item.book
    BY <1>5
  <2>1. \A d \in Call \ {c} : ~Locks(d, b)
    BY <1>1, <1>4, <2>0 DEF WaitsFor
  <2>2. PendingUnits(b)' = PendingUnits(b) \union U /\ PendingUnits(b) \cap U = {}
    <3>1. Units(c, updated[c], b)' = Units(c, i, b)
      BY <1>2 DEF Units, ItemsOf
    <3>2. \A u : u \in Units(c, i, b) <=> u \in Units(c, updated[c], b) \/ u \in U
      BY <1>4, <1>7, <2>0, UnitsMembers DEF ItemUnits
    <3>3. PendingUnits(b)' = PendingUnits(b) \union U
      <4>1. \A u : u \in PendingUnits(b)' <=>
                     \E d \in Call : call[d] = "open" /\ u \in Units(d, updated[d], b)'
        BY <1>1 DEF PendingUnits
      <4>2. \A u : u \in PendingUnits(b) <=>
                     \E d \in Call : call[d] = "open" /\ u \in Units(d, updated[d], b)
        BY DEF PendingUnits
      <4>3. \A u : u \in PendingUnits(b)' <=> u \in PendingUnits(b) \/ u \in U
        BY <1>1, <1>8, <3>1, <3>2, <4>1, <4>2
      <4> QED BY <4>3
    <3>4. ASSUME NEW u \in U, u \in PendingUnits(b) PROVE FALSE
      <4>1. PICK d \in Call : u \in Units(d, updated[d], b)
        BY <3>4 DEF PendingUnits
      <4>2. d = c
        BY <4>1, UnitsOfCall DEF ItemUnits
      <4>3. PICK j \in 1..updated[c] : u[2] = j
        BY <4>1, <4>2, UnitsMembers
      <4>4. u[2] = i
        BY DEF ItemUnits
      <4> QED BY <1>0, <1>3, <4>3, <4>4
    <3> QED BY <3>3, <3>4
  <2>3. IsFiniteSet(U) /\ Cardinality(U) = item.quantity
    <3>1. item.quantity \in Nat
      BY <1>5
    <3> QED BY <3>1, ItemUnitsCount
  <2>4. RowInv(b)
    BY DEF StockInv
  <2> HIDE DEF U
  <2>5. PICK n \in Nat : n = Cardinality(PendingUnits(b))
    BY <2>4, FS_CardinalityType DEF RowInv
  <2>6. IsFiniteSet(PendingUnits(b)') /\ Cardinality(PendingUnits(b)') = n + item.quantity
    BY <2>2, <2>3, <2>4, <2>5, Disjoint DEF RowInv
  <2>7. CommittedRow(b)' = CommittedRow(b) /\ TakenUnits(b)' = TakenUnits(b)
    BY <1>1 DEF CommittedRow, TakenUnits, Units, ItemsOf
  <2>8. written'[b] = After(CommittedRow(b), n + item.quantity)
    <3>1. written'[b] = Decremented(written[b], item.quantity)
      BY <1>5, <2>0 DEF TypeOK
    <3>2. written[b] = After(CommittedRow(b), n)
      BY <2>4, <2>5 DEF RowInv
    <3>3. written[b] \in Row /\ CommittedRow(b) \in Row
      BY RowTypes
    <3>4. PICK q \in Nat \ {0} : q = item.quantity
      BY <1>5
    <3>5. written'[b] = After(After(CommittedRow(b), n), q)
      BY <3>1, <3>2, <3>3, <3>4, DecrementedIsAfter
    <3> QED BY <3>3, <3>4, <3>5, AfterAfter
  <2>9. \A d \in Call \ {c} : ~Locks(d, b)'
    BY <1>8, <2>1
  <2>10. RowInv(b)'
    BY <2>4, <2>6, <2>7, <2>8, <2>9 DEF RowInv, OpeningRow
  <2> QED BY <2>0, <2>10
<1> QED BY <1>6, <1>9, <1>10 DEF StockInv

\* What a call that ends held, and nothing else is pending of its rows.
LEMMA OnlyLocker ==
  ASSUME TypeOK, NEW b \in Book, RowInv(b), NEW c \in Call, Locks(c, b)
  PROVE  PendingUnits(b) = Units(c, updated[c], b)
<1>1. \A d \in Call \ {c} : call[d] = "open" => Units(d, updated[d], b) = {}
  BY UnitsUnlessLocked DEF RowInv
<1>2. call[c] = "open"
  BY DEF Locks
<1> QED BY <1>1, <1>2 DEF PendingUnits

\* The call ends: it holds no row, and the other calls hold theirs.
LEMMA Ended ==
  ASSUME TypeOK, StockInv, NEW c \in Call, call[c] = "open", NEW end,
         end # "open", call' = [call EXCEPT ![c] = end], updated' = updated
  PROVE  \A b \in Book :
           /\ \A d \in Call : Locks(d, b)' <=> d # c /\ Locks(d, b)
           /\ PendingUnits(b)' = IF Locks(c, b) THEN {} ELSE PendingUnits(b)
<1>1. \A d \in Call : call'[d] = IF d = c THEN end ELSE call[d]
  BY DEF TypeOK
<1>2. \A d \in Call, b \in Book : Units(d, updated[d], b)' = Units(d, updated[d], b)
  BY DEF Units, ItemsOf
<1>3. ASSUME NEW b \in Book
      PROVE  \A d \in Call : Locks(d, b)' <=> d # c /\ Locks(d, b)
  BY <1>1 DEF Locks, ItemsOf
<1>4. ASSUME NEW b \in Book, Locks(c, b)
      PROVE  PendingUnits(b)' = {}
  <2>1. \A d \in Call \ {c} : call[d] = "open" => Units(d, updated[d], b) = {}
    BY <1>4, UnitsUnlessLocked DEF StockInv, RowInv
  <2> QED BY <1>1, <1>2, <2>1 DEF PendingUnits
<1>5. ASSUME NEW b \in Book, ~Locks(c, b)
      PROVE  PendingUnits(b)' = PendingUnits(b)
  <2>1. Units(c, updated[c], b) = {}
    BY <1>5, UnitsUnlessLocked
  <2> QED BY <1>1, <1>2, <2>1 DEF PendingUnits
<1> QED BY <1>3, <1>4, <1>5

LEMMA CommitKeepsStock ==
  ASSUME TypeOK, StockInv, NEW c \in Call, Commit(c)
  PROVE  StockInv'
<1>1. /\ call[c] = "open" /\ call' = [call EXCEPT ![c] = "committed"]
      /\ updated[c] = Len(ItemsOf(c)) /\ UNCHANGED <<updated, written>>
      /\ stock' = [b \in Book |-> IF Locks(c, b) THEN written[b].stock ELSE stock[b]]
      /\ availability' = [b \in Book |-> IF Locks(c, b) THEN written[b].availability
                                                        ELSE availability[b]]
  BY DEF Commit
<1>2. InItems'
  BY <1>1 DEF StockInv, InItems, ItemsOf, TypeOK
<1>3. ASSUME NEW b \in Book PROVE RowInv(b)'
  <2> DEFINE U == Units(c, updated[c], b)
  <2>1. /\ \A d \in Call : Locks(d, b)' <=> d # c /\ Locks(d, b)
        /\ PendingUnits(b)' = IF Locks(c, b) THEN {} ELSE PendingUnits(b)
    BY <1>1, Ended
  <2>2. RowInv(b) /\ CommittedRow(b) \in Row /\ written[b] \in Row /\ OpeningRow(b) \in Row
    BY RowTypes DEF StockInv
  <2>3. TakenUnits(b)' = TakenUnits(b) \union U
    <3>1. \A d \in Call : call'[d] = IF d = c THEN "committed" ELSE call[d]
      BY <1>1 DEF TypeOK
    <3>2. \A d \in Call : Units(d, Len(ItemsOf(d)), b)' = Units(d, Len(ItemsOf(d)), b)
      BY DEF Units, ItemsOf
    <3>3. \A u : u \in TakenUnits(b)' <=>
                   \E d \in Call : call'[d] = "committed" /\ u \in Units(d, Len(ItemsOf(d)), b)'
      BY DEF TakenUnits
    <3>4. \A u : u \in TakenUnits(b) <=>
                   \E d \in Call : call[d] = "committed" /\ u \in Units(d, Len(ItemsOf(d)), b)
      BY DEF TakenUnits
    <3>5. \A u : u \in TakenUnits(b)' <=> u \in TakenUnits(b) \/ u \in U
      BY <1>1, <3>1, <3>2, <3>3, <3>4
    <3> QED BY <3>5
  <2>4. CASE ~Locks(c, b)
    <3>1. U = {}
      BY <1>1, <2>4, UnitsUnlessLocked
    <3>2. CommittedRow(b)' = CommittedRow(b) /\ written'[b] = written[b]
      BY <1>1, <2>4 DEF CommittedRow
    <3>3. TakenUnits(b)' = TakenUnits(b) /\ PendingUnits(b)' = PendingUnits(b)
      BY <2>1, <2>3, <2>4, <3>1
    <3> HIDE DEF U
    <3> QED BY <2>1, <2>2, <3>2, <3>3 DEF RowInv, OpeningRow
  <2>5. CASE Locks(c, b)
    <3>1. PendingUnits(b) = U
      BY <2>2, <2>5, OnlyLocker
    <3>2. TakenUnits(b) \cap U = {}
      <4>1. ASSUME NEW u \in TakenUnits(b), u \in U PROVE FALSE
        <5>1. PICK d \in Call : call[d] = "committed" /\ u \in Units(d, Len(ItemsOf(d)), b)
          BY DEF TakenUnits
        <5>2. u[1] = d /\ u[1] = c
          BY <4>1, <5>1, UnitsOfCall
        <5> QED BY <1>1, <5>1, <5>2
      <4> QED BY <4>1
    <3> HIDE DEF U
    <3>3. PICK m \in Nat : m = Cardinality(TakenUnits(b))
      BY <2>2, FS_CardinalityType DEF RowInv
    <3>4. PICK n \in Nat : n = Cardinality(U)
      BY <2>2, <3>1, FS_CardinalityType DEF RowInv
    <3>5. IsFiniteSet(TakenUnits(b)') /\ Cardinality(TakenUnits(b)') = m + n
      BY <2>2, <2>3, <3>1, <3>2, <3>3, <3>4, Disjoint DEF RowInv
    <3>6. CommittedRow(b)' = written[b]
      BY <1>1, <2>2, <2>5 DEF CommittedRow, Row
    <3>7. written[b] = After(After(OpeningRow(b), m), n)
      BY <2>2, <3>1, <3>3, <3>4 DEF RowInv
    <3>8. CommittedRow(b)' = After(OpeningRow(b), m + n)
      BY <2>2, <3>6, <3>7, AfterAfter
    <3>9. PendingUnits(b)' = {} /\ IsFiniteSet({}) /\ Cardinality({}) = 0
      BY <2>1, <2>5, FS_EmptySet
    <3>10. written'[b] = After(CommittedRow(b)', 0)
      BY <1>1, <2>2, <3>6, AfterNone
    <3> QED BY <2>1, <2>2, <3>5, <3>8, <3>9, <3>10 DEF RowInv, OpeningRow
  <2> QED BY <2>4, <2>5
<1> QED BY <1>2, <1>3 DEF StockInv

LEMMA AbortKeepsStock ==
  ASSUME TypeOK, StockInv, NEW c \in Call, call[c] = "open", Abort(c)
  PROVE  StockInv'
<1>1. /\ call' = [call EXCEPT ![c] = "aborted"]
      /\ UNCHANGED <<updated, stock, availability>>
      /\ \A b \in Book : written'[b] = IF Locks(c, b) THEN CommittedRow(b) ELSE written[b]
  BY DEF Abort, CommittedRow
<1>2. InItems'
  BY <1>1 DEF StockInv, InItems, ItemsOf, TypeOK
<1>3. ASSUME NEW b \in Book PROVE RowInv(b)'
  <2>1. /\ \A d \in Call : Locks(d, b)' <=> d # c /\ Locks(d, b)
        /\ PendingUnits(b)' = IF Locks(c, b) THEN {} ELSE PendingUnits(b)
    BY <1>1, Ended
  <2>2. RowInv(b) /\ CommittedRow(b) \in Row
    BY RowTypes DEF StockInv
  <2>3. TakenUnits(b)' = TakenUnits(b) /\ CommittedRow(b)' = CommittedRow(b)
    BY <1>1 DEF TakenUnits, Units, ItemsOf, CommittedRow, TypeOK
  <2>4. IsFiniteSet({}) /\ Cardinality({}) = 0
    BY FS_EmptySet
  <2>5. CASE Locks(c, b)
    <3>1. written'[b] = After(CommittedRow(b), 0)
      BY <1>1, <2>2, <2>5, AfterNone
    <3> QED BY <2>1, <2>2, <2>3, <2>4, <2>5, <3>1 DEF RowInv, OpeningRow
  <2>6. CASE ~Locks(c, b)
    BY <1>1, <2>1, <2>2, <2>3, <2>6 DEF RowInv, OpeningRow
  <2> QED BY <2>5, <2>6
<1> QED BY <1>2, <1>3 DEF StockInv
-----------------------------------------------------------------------------
(* The theorems *)

\* What the bus, the relay and Directus do keeps the invariant.
LEMMA SyncNextKeeps ==
  ASSUME SyncInv, SyncNext
  PROVE  SyncInv'
<1>1. ASSUME NEW s \in Sale, Deliver(s) PROVE SyncInv'
  BY <1>1, DeliverKeeps
<1>2. ASSUME NEW d \in Delivery, RelayStep(d) PROVE SyncInv'
  BY <1>2, InvokeKeeps, AnswerKeeps, GiveUpKeeps DEF RelayStep
<1>3. ASSUME NEW c \in Call, Transact(c) PROVE SyncInv'
  <2>1. CASE AbortDeadlocked(c)
    <3>1. faults' \in 0..MaxFaults
      BY <2>1 DEF AbortDeadlocked, SyncInv, TypeOK
    <3> QED BY <2>1, <3>1, AbortKeeps DEF AbortDeadlocked
  <2>2. CASE Fail(c)
    <3>1. faults' \in 0..MaxFaults
      BY <2>2, InventoryAssumption DEF Fail, UseFault, SyncInv, TypeOK
    <3> QED BY <2>2, <3>1, AbortKeeps DEF Fail
  <2> QED BY <1>3, <2>1, <2>2, UpdateRowKeeps, CommitKeeps DEF Transact
<1> QED BY <1>1, <1>2, <1>3 DEF SyncNext

\* The inductive invariant: the calls that have taken a sale's stock or may yet,
\* and the deliveries that will make another, are as many as its events and
\* repeats at most.
THEOREM SyncInvariant == Spec => []SyncInv
<1>1. SyncInv /\ [Next]_vars => SyncInv'
  <2> SUFFICES ASSUME SyncInv, [Next]_vars PROVE SyncInv'
    OBVIOUS
  <2>1. CASE UNCHANGED vars
    BY <2>1 DEF vars, bus, http, trx, rows, SyncInv, TypeOK, Invoked, Budget, Live, Owed, CurrentCall
  <2> QED BY <2>1, RequestKeeps, SyncNextKeeps DEF Next
<1> QED BY <1>1, InitSync, PTL DEF Spec

\* Events, deliveries, calls, rows and faults have their types; a row's stock is
\* never negative.
THEOREM SyncTypes == Spec => []TypeOK
<1>1. SyncInv => TypeOK
  BY DEF SyncInv
<1> QED BY <1>1, SyncInvariant, PTL

\* A sale's committed calls are among those it may have.
LEMMA CommittedWithinBudget ==
  ASSUME SyncInv, NEW s \in Sale
  PROVE  /\ Cardinality(Committed(s)) \in Nat
         /\ Cardinality(Committed(s)) <= requests[s] + repeats[s]
<1>1. Committed(s) \subseteq Live(s)
  BY DEF Committed, Live
<1>2. Cardinality(Committed(s)) \in Nat /\ Cardinality(Committed(s)) <= Cardinality(Live(s))
  BY <1>1, Counts, NotMore
<1>3. Budget(s) /\ requests[s] \in Nat /\ repeats[s] \in Nat
  BY DEF SyncInv, TypeOK
<1> QED BY <1>2, <1>3, Counts DEF Budget

\* A sale takes its stock once for each event it published, unless the bus
\* repeated a delivery or the relay missed an answer.
THEOREM RepeatNeedsMissedAnswerHolds == Spec => []RepeatNeedsMissedAnswer
<1>1. SyncInv => RepeatNeedsMissedAnswer
  BY CommittedWithinBudget DEF RepeatNeedsMissedAnswer
<1> QED BY <1>1, SyncInvariant, PTL

\* A sale that asked once, and of which nothing was repeated, has one of them.
LEMMA OnceWithinBudget ==
  ASSUME SyncInv, NEW s \in Sale, requests[s] + repeats[s] <= 1
  PROVE  \A c, d \in Committed(s) : c = d
<1> SUFFICES ASSUME NEW c \in Committed(s), NEW d \in Committed(s), c # d PROVE FALSE
  OBVIOUS
<1>1. IsFiniteSet(Committed(s)) /\ Cardinality(Committed(s)) \in 0..1
  <2>1. Committed(s) \subseteq Live(s) /\ IsFiniteSet(Live(s))
    BY Counts DEF Committed, Live
  <2>2. requests[s] \in Nat /\ repeats[s] \in Nat
    BY DEF SyncInv, TypeOK
  <2> QED BY <2>1, <2>2, FS_Subset, CommittedWithinBudget
<1>2. /\ IsFiniteSet(Committed(s) \ {c})
      /\ Cardinality(Committed(s) \ {c}) = Cardinality(Committed(s)) - 1
  BY <1>1, FS_RemoveElement
<1>3. Committed(s) \ {c} = {}
  <2>1. Cardinality(Committed(s) \ {c}) = 0
    BY <1>1, <1>2, FS_CardinalityType
  <2> QED BY <1>2, <2>1, FS_EmptySet
<1> QED BY <1>3

\* Nothing is committed for a sale of which no event was delivered.
LEMMA NothingUndelivered ==
  ASSUME SyncInv, NEW s \in Sale, deliveries[s] = 0
  PROVE  Committed(s) = {}
<1> SUFFICES ASSUME NEW c \in Committed(s) PROVE FALSE
  OBVIOUS
<1>1. c \in Call /\ c[1] \in Delivery /\ c[1][1] = s /\ call[c] = "committed"
  BY Calls DEF Committed
<1>2. c[1][2] \in 1..MaxDeliveries /\ c[2] \in 1..MaxAttempts /\ c = <<c[1], c[2]>>
  BY <1>1, Calls, Deliveries
<1>3. c[1][2] > deliveries[c[1][1]]
  BY <1>1, <1>2
<1>4. tries[c[1]] = 0
  BY <1>1, <1>3 DEF SyncInv, Invoked
<1>5. call[<<c[1], c[2]>>] = "none"
  BY <1>1, <1>2, <1>4 DEF SyncInv, Invoked
<1> QED BY <1>1, <1>2, <1>5

\* A step that leaves calls and rows alone,
LEMMA StillKeepsStock ==
  ASSUME StockInv, UNCHANGED <<call, updated, stock, availability, written>>
  PROVE  StockInv'
<1>1. InItems'
  BY DEF StockInv, InItems, ItemsOf
<1>2. \A b \in Book : /\ TakenUnits(b)' = TakenUnits(b) /\ PendingUnits(b)' = PendingUnits(b)
                      /\ CommittedRow(b)' = CommittedRow(b)
  BY DEF TakenUnits, PendingUnits, Units, ItemsOf, CommittedRow
<1>3. \A b \in Book, c \in Call : Locks(c, b)' = Locks(c, b)
  BY DEF Locks, ItemsOf
<1>4. ASSUME NEW b \in Book PROVE RowInv(b)'
  BY <1>2, <1>3 DEF StockInv, RowInv, OpeningRow
<1> QED BY <1>1, <1>4 DEF StockInv

\* ... and any of the bus, the relay and Directus.
LEMMA SyncNextKeepsStock ==
  ASSUME SyncInv, StockInv, SyncNext
  PROVE  StockInv'
<1>0. TypeOK /\ Invoked
  BY DEF SyncInv
<1>1. ASSUME NEW s \in Sale, Deliver(s) PROVE StockInv'
  BY <1>1, StillKeepsStock DEF Deliver, trx, rows
<1>2. ASSUME NEW d \in Delivery, RelayStep(d) PROVE StockInv'
  BY <1>0, <1>2, StillKeepsStock, InvokeKeepsStock DEF RelayStep, Answer, GiveUp, trx, rows
<1>3. ASSUME NEW c \in Call, Transact(c) PROVE StockInv'
  BY <1>0, <1>3, UpdateRowKeepsStock, CommitKeepsStock, AbortKeepsStock
     DEF Transact, AbortDeadlocked, Fail
<1> QED BY <1>1, <1>2, <1>3 DEF SyncNext

\* What the rows hold, committed and uncommitted, is the opening stock less the
\* units that calls have taken, and one call at a time holds a row.
THEOREM StockInvariant == Spec => []StockInv
<1>1. SyncInv /\ StockInv /\ [Next]_vars => StockInv'
  <2> SUFFICES ASSUME SyncInv, StockInv, [Next]_vars PROVE StockInv'
    OBVIOUS
  <2>1. ASSUME NEW s \in Sale, Request(s) PROVE StockInv'
    BY <2>1, StillKeepsStock DEF Request, trx, rows
  <2>2. CASE UNCHANGED vars
    BY <2>2, StillKeepsStock DEF vars, trx, rows
  <2> QED BY <2>1, <2>2, SyncNextKeepsStock DEF Next
<1> QED BY <1>1, StockInit, SyncInvariant, PTL DEF Spec

\* The committed rows are what the property says.
LEMMA StockAccounts == StockInv => StockIsAccountedFor
<1>1. ASSUME StockInv, NEW b \in Book
      PROVE  /\ stock[b] = Monus(OpeningStock[b], Taken(b))
             /\ availability[b] = IF stock[b] = 0 /\ Taken(b) > 0
                                    THEN "out_of_stock" ELSE OpeningState[b]
  <2>1. CommittedRow(b) = After(OpeningRow(b), Taken(b))
    BY <1>1 DEF StockInv, RowInv, Taken
  <2> QED BY <2>1 DEF CommittedRow, OpeningRow, After
<1> QED BY <1>1 DEF StockIsAccountedFor

\* No decrement is lost, split or invented, whatever ran at the same time, was
\* rolled back or deadlocked.
THEOREM StockIsAccountedForHolds == Spec => []StockIsAccountedFor
BY StockAccounts, StockInvariant, PTL
=============================================================================
