--------------------------- MODULE EditorialProofs ---------------------------
(***************************************************************************)
(* Proofs about Editorial, the workbench that Bootstrap and Promotion make *)
(* up. First the script: what any number of its executions, however they   *)
(* overlap and die, leave for the approvals. Then the promotion flow: for  *)
(* any rows, books and firings, whatever was set up.                       *)
(***************************************************************************)
EXTENDS Editorial, FiniteSetTheorems, SequenceTheorems, TLAPS

\* The step an execution is at, and what it has not come to yet.
Position(x) ==
  /\ ended[x] = "completed" => at[x] = Len(Script) + 1
  /\ Active(x) /\ request[x] = "correct" => Now(x).kind \in {"setting", "tuned"}
  /\ Active(x) /\ request[x] = "wire" =>
       <<x, Now(x)>> \in copies /\ wired[<<x, Now(x)>>] < Now(x).requests
  /\ \A i \in 1..Len(Script) :
       i > at[x] \/ (i = at[x] /\ request[x] # "wire") =>
         <<x, Script[i]>> \notin copies /\ wired[<<x, Script[i]>>] = 0

Positions == \A x \in Execution : Position(x)

Wiring(x, s) == Active(x) /\ Now(x) = s /\ request[x] = "wire"

\* An object is whole, or its maker is at it or has died over it.
Made == \A c \in copies : Whole(c) \/ ended[c[1]] = "died" \/ Wiring(c[1], c[2])

\* What an execution leaves behind, or has found to correct, is whole, unless a maker has died over it or
\* was found at it.
Past ==
  \A x \in Execution, i \in 1..Len(Script) :
    (i < at[x] \/ (i = at[x] /\ request[x] = "correct")) /\ Script[i].kind # "setting" =>
      \/ \E y \in Execution : Whole(<<y, Script[i]>>)
      \/ Stranded(Script[i])
      \/ Script[i] \in overlapped /\ \E y \in Execution : Wiring(y, Script[i])

\* Without an overlap one execution has made an object or is about to.
Makes(x, s) == <<x, s>> \in copies \/ (Active(x) /\ Now(x) = s /\ request[x] = "create")

Alone ==
  \A s \in Steps \ overlapped, x, y \in Execution : Makes(x, s) /\ Makes(y, s) => x = y

BootInv == BootstrapTypeOK /\ Positions /\ Made /\ Past /\ Alone
-----------------------------------------------------------------------------
(* The script *)

LEMMA ScriptSteps ==
  /\ Len(Script) \in Nat
  /\ \A i \in 1..Len(Script) : Script[i] \in Steps
  /\ \A s \in Steps : \E i \in 1..Len(Script) : s = Script[i]
  /\ \A i, j \in 1..Len(Script) : Script[i] = Script[j] => i = j
  /\ \A s \in Steps : s.requests \in Nat
<1>1. Script \in Seq([kind : {"record", "flow", "tuned", "setting"}, name : STRING,
                     requests : Nat, unique : BOOLEAN])
  BY BootstrapAssumption
<1>2. Len(Script) \in Nat /\ DOMAIN Script = 1..Len(Script)
  BY <1>1, LenProperties
<1>3. \A i \in 1..Len(Script) : Script[i].requests \in Nat
  <2>1. \A i \in 1..Len(Script) :
          Script[i] \in [kind : {"record", "flow", "tuned", "setting"}, name : STRING,
                        requests : Nat, unique : BOOLEAN]
    BY <1>1, ElementOfSeq, Zenon
  <2> QED BY <2>1
<1>4. Steps = {Script[i] : i \in 1..Len(Script)}
  BY <1>2 DEF Steps, ToSet
<1>5. \A i, j \in 1..Len(Script) : Script[i] = Script[j] => i = j
  BY <1>2, BootstrapAssumption DEF IsInjective
<1> QED BY <1>2, <1>3, <1>4, <1>5

LEMMA NowInScript ==
  ASSUME BootstrapTypeOK, NEW x \in Execution, Active(x)
  PROVE  /\ at[x] \in 1..Len(Script) /\ Now(x) = Script[at[x]] /\ Now(x) \in Steps
         /\ <<x, Now(x)>> \in Execution \X Steps /\ ended[x] = "no"
         /\ Now(x).requests \in Nat
<1>1. at[x] \in 1..Len(Script)
  BY ScriptSteps DEF BootstrapTypeOK, Active
<1> QED BY <1>1, ScriptSteps DEF Now, Active

\* The step an execution is at now, and how the others see its move.
LEMMA Moving ==
  ASSUME BootstrapTypeOK, NEW x \in Execution, Active(x),
         at' \in [Execution -> Nat], request' \in [Execution -> STRING], ended' \in [Execution -> STRING],
         \A y \in Execution : y # x => at'[y] = at[y] /\ request'[y] = request[y] /\ ended'[y] = ended[y]
  PROVE  \A y \in Execution : y # x =>
           /\ Active(y)' <=> Active(y)
           /\ Now(y)' = Now(y)
           /\ \A s : Wiring(y, s)' <=> Wiring(y, s)
BY DEF Active, Now, Wiring

LEMMA NextStepMoves ==
  ASSUME BootstrapTypeOK, NEW x \in Execution, Active(x), NextStep(x)
  PROVE  /\ at'[x] = at[x] + 1 /\ request'[x] = "read" /\ ended' = ended
         /\ \A y \in Execution : y # x => at'[y] = at[y] /\ request'[y] = request[y]
         /\ at' \in [Execution -> 1..Len(Script) + 1]
         /\ request' \in [Execution -> {"read", "create", "wire", "correct"}]
<1>1. at[x] \in 1..Len(Script) /\ Len(Script) \in Nat
  BY NowInScript, ScriptSteps
<1> QED BY <1>1 DEF NextStep, BootstrapTypeOK

LEMMA GoOnMoves ==
  ASSUME BootstrapTypeOK, NEW x \in Execution,
         NEW r \in {"read", "create", "wire", "correct"}, GoOn(x, r)
  PROVE  /\ request'[x] = r /\ ended' = ended /\ at' = at
         /\ \A y \in Execution : y # x => request'[y] = request[y]
         /\ request' \in [Execution -> {"read", "create", "wire", "correct"}]
BY DEF GoOn, BootstrapTypeOK

LEMMA DieMoves ==
  ASSUME BootstrapTypeOK, NEW x \in Execution, Die(x)
  PROVE  /\ ended'[x] = "died" /\ request' = request /\ at' = at
         /\ \A y \in Execution : y # x => ended'[y] = ended[y]
         /\ ended' \in [Execution -> {"no", "completed", "died"}]
BY DEF Die, BootstrapTypeOK

\* ReadCurrent: where it goes.
LEMMA ReadGoes ==
  ASSUME BootstrapTypeOK, NEW x \in Execution, ReadCurrent(x)
  PROVE  /\ Active(x) /\ request[x] = "read"
         /\ ended' = ended /\ copies' = copies /\ wired' = wired /\ correct' = correct
         /\ overlapped' = overlapped \union
              {s \in {Now(x)} : \E y \in Execution \ {x} : Active(y) /\ Now(y) = s
                                                           /\ request[y] # "read"}
         /\ at' \in [Execution -> 1..Len(Script) + 1]
         /\ request' \in [Execution -> {"read", "create", "wire", "correct"}]
         /\ \A y \in Execution : y # x => at'[y] = at[y] /\ request'[y] = request[y]
         /\ \/ /\ at'[x] = at[x] + 1 /\ request'[x] = "read"
               /\ Now(x).kind # "setting" => Found(Now(x))
            \/ /\ at'[x] = at[x] /\ request'[x] = "correct"
               /\ Now(x).kind \in {"setting", "tuned"}
               /\ Now(x).kind # "setting" => Found(Now(x))
            \/ at'[x] = at[x] /\ request'[x] = "create" /\ ~Found(Now(x))
<1>1. Active(x)
  BY DEF ReadCurrent
<1>2. CASE NextStep(x) /\ (Now(x).kind # "setting" => Found(Now(x)))
  BY <1>1, <1>2, NextStepMoves DEF ReadCurrent
<1>3. CASE /\ GoOn(x, "correct") /\ Now(x).kind \in {"setting", "tuned"}
           /\ Now(x).kind # "setting" => Found(Now(x))
  BY <1>1, <1>3, GoOnMoves DEF ReadCurrent, BootstrapTypeOK
<1>4. CASE GoOn(x, "create") /\ ~Found(Now(x))
  BY <1>1, <1>4, GoOnMoves DEF ReadCurrent, BootstrapTypeOK
<1> QED BY <1>2, <1>3, <1>4 DEF ReadCurrent

LEMMA ReadCurrentKeeps ==
  ASSUME BootInv, NEW x \in Execution, ReadCurrent(x)
  PROVE  BootInv'
<1> USE DEF BootInv
<1> DEFINE s == Now(x)
<1>1. /\ Active(x) /\ request[x] = "read"
      /\ ended' = ended /\ copies' = copies /\ wired' = wired /\ correct' = correct
      /\ overlapped' = overlapped \union
           {q \in {s} : \E y \in Execution \ {x} : Active(y) /\ Now(y) = q /\ request[y] # "read"}
      /\ at' \in [Execution -> 1..Len(Script) + 1]
      /\ request' \in [Execution -> {"read", "create", "wire", "correct"}]
      /\ \A y \in Execution : y # x => at'[y] = at[y] /\ request'[y] = request[y]
  BY ReadGoes
<1>2. \/ at'[x] = at[x] + 1 /\ request'[x] = "read" /\ (s.kind # "setting" => Found(s))
      \/ /\ at'[x] = at[x] /\ request'[x] = "correct" /\ s.kind \in {"setting", "tuned"}
         /\ s.kind # "setting" => Found(s)
      \/ at'[x] = at[x] /\ request'[x] = "create" /\ ~Found(s)
  BY ReadGoes
<1>3. at[x] \in 1..Len(Script) /\ s = Script[at[x]] /\ s \in Steps /\ ended[x] = "no"
  BY <1>1, NowInScript
<1>4. \A y \in Execution : y # x => (Active(y)' <=> Active(y)) /\ Now(y)' = Now(y)
  BY <1>1 DEF Active, Now
<1>5. \A y \in Execution : \A q : Wiring(y, q)' <=> Wiring(y, q)
  BY <1>1, <1>2, <1>4 DEF Wiring
<1>6. \A c : Whole(c)' <=> Whole(c)
  BY <1>1 DEF Whole
<1>7. \A q : Stranded(q)' <=> Stranded(q)
  BY <1>1, <1>6 DEF Stranded
<1>8. BootstrapTypeOK'
  BY <1>1, <1>3 DEF BootstrapTypeOK
<1>9. Positions'
  <2>1. ASSUME NEW y \in Execution, y # x PROVE Position(y)'
    <3>1. Position(y)
      BY DEF Positions
    <3> QED BY <1>1, <1>4, <2>1, <3>1 DEF Position
  <2>2. /\ ended'[x] # "completed" /\ request'[x] # "wire"
        /\ request'[x] = "correct" => Now(x)'.kind \in {"setting", "tuned"}
    BY <1>1, <1>2, <1>3 DEF Now
  <2>3. ASSUME NEW i \in 1..Len(Script), i >= at'[x]
        PROVE  <<x, Script[i]>> \notin copies' /\ wired'[<<x, Script[i]>>] = 0
    <3>1. i > at[x] \/ i = at[x]
      BY <1>2, <1>3, <2>3
    <3> QED BY <1>1, <3>1 DEF Positions, Position
  <2>4. at'[x] \in Nat /\ Len(Script) \in Nat
    BY <1>1, ScriptSteps
  <2>5. Position(x)'
    BY <2>2, <2>3, <2>4 DEF Position
  <2> QED BY <2>1, <2>5 DEF Positions
<1>10. Made'
  <2>1. ASSUME NEW c \in copies PROVE Whole(c)' \/ ended'[c[1]] = "died" \/ Wiring(c[1], c[2])'
    <3>1. c[1] \in Execution
      BY DEF BootstrapTypeOK
    <3> QED BY <1>1, <1>5, <1>6, <3>1 DEF Made
  <2> QED BY <1>1, <2>1 DEF Made
<1>11. ASSUME NEW q, Found(q), Now(x) = q
       PROVE  \/ \E y \in Execution : Whole(<<y, q>>)
              \/ Stranded(q)
              \/ q \in overlapped' /\ \E y \in Execution : Wiring(y, q)
  <2>1. PICK c \in copies : c[2] = q
    BY <1>11 DEF Found
  <2>2. c \in Execution \X Steps /\ c = <<c[1], q>> /\ c[1] \in Execution
    BY <2>1 DEF BootstrapTypeOK
  <2>3. Whole(c) \/ ended[c[1]] = "died" \/ Wiring(c[1], q)
    BY <2>1 DEF Made
  <2>4. CASE Wiring(c[1], q)
    <3>1. c[1] # x /\ Active(c[1]) /\ Now(c[1]) = q /\ request[c[1]] # "read"
      BY <1>1, <2>4 DEF Wiring
    <3> QED BY <1>1, <1>11, <2>2, <2>4, <3>1
  <2> QED BY <2>1, <2>2, <2>3, <2>4 DEF Stranded
<1>12. Past'
  <2>1. ASSUME NEW y \in Execution, NEW i \in 1..Len(Script), Script[i].kind # "setting",
               i < at[y] \/ (i = at[y] /\ request[y] = "correct")
        PROVE  \/ \E z \in Execution : Whole(<<z, Script[i]>>)'
               \/ Stranded(Script[i])'
               \/ Script[i] \in overlapped' /\ \E z \in Execution : Wiring(z, Script[i])'
    BY <1>1, <1>5, <1>6, <1>7, <2>1 DEF Past
  <2>2. ASSUME NEW y \in Execution, NEW i \in 1..Len(Script), Script[i].kind # "setting",
               i < at'[y] \/ (i = at'[y] /\ request'[y] = "correct"),
               ~(i < at[y] \/ (i = at[y] /\ request[y] = "correct"))
        PROVE  \/ \E z \in Execution : Whole(<<z, Script[i]>>)'
               \/ Stranded(Script[i])'
               \/ Script[i] \in overlapped' /\ \E z \in Execution : Wiring(z, Script[i])'
    <3>1. y = x /\ i = at[x] /\ Found(Script[i]) /\ Now(x) = Script[i]
      BY <1>1, <1>2, <1>3, <2>2
    <3> QED BY <1>5, <1>6, <1>7, <1>11, <3>1
  <2> QED BY <2>1, <2>2 DEF Past
<1>13. Alone'
  <2>1. ASSUME NEW q \in Steps \ overlapped', NEW y \in Execution, NEW z \in Execution,
               Makes(y, q)', Makes(z, q)', z = x
        PROVE  y = z
    <3>1. CASE Makes(x, q)
      <4>1. Makes(y, q)
        <5>1. CASE y = x
          BY <3>1, <5>1
        <5>2. CASE y # x
          BY <1>1, <1>4, <2>1, <5>2 DEF Makes
        <5> QED BY <5>1, <5>2
      <4> QED BY <1>1, <2>1, <3>1, <4>1 DEF Alone
    <3>2. CASE ~Makes(x, q)
      <4>1. q = s /\ request'[x] = "create" /\ ~Found(s)
        BY <1>1, <1>2, <1>3, <2>1, <3>2 DEF Makes, Now
      <4>2. \A c \in copies : c[2] # q
        BY <4>1 DEF Found
      <4>3. \A v \in Execution \ {x} : ~(Active(v) /\ Now(v) = q /\ request[v] = "create")
        BY <1>1, <2>1, <4>1
      <4> QED BY <1>1, <1>4, <2>1, <4>2, <4>3 DEF Makes
    <3> QED BY <3>1, <3>2
  <2>2. ASSUME NEW q \in Steps \ overlapped', NEW y \in Execution, NEW z \in Execution,
               Makes(y, q)', Makes(z, q)', y # x, z # x
        PROVE  y = z
    <3>1. Makes(y, q) /\ Makes(z, q)
      BY <1>1, <1>4, <2>2 DEF Makes
    <3> QED BY <1>1, <2>2, <3>1 DEF Alone
  <2> QED BY <2>1, <2>2 DEF Alone
<1> QED BY <1>8, <1>9, <1>10, <1>12, <1>13

LEMMA CreateKeeps ==
  ASSUME BootInv, NEW x \in Execution, Create(x)
  PROVE  BootInv'
<1> USE DEF BootInv
<1>0. PICK s : s = Now(x)
  OBVIOUS
<1> DEFINE c == <<x, s>>
<1>1. /\ Active(x) /\ request[x] = "create"
      /\ wired' = wired /\ overlapped' = overlapped
  BY DEF Create
<1>2. at[x] \in 1..Len(Script) /\ s = Script[at[x]] /\ s \in Steps /\ ended[x] = "no"
      /\ c \in Execution \X Steps /\ s.requests \in Nat
  BY <1>0, <1>1, NowInScript
<1>3. c \notin copies /\ wired[c] = 0
  BY <1>1, <1>2 DEF Positions, Position
<1>4. CASE Die(x) /\ copies' = copies /\ correct' = correct
  <2>1. /\ ended'[x] = "died" /\ request' = request /\ at' = at
        /\ \A y \in Execution : y # x => ended'[y] = ended[y]
        /\ ended' \in [Execution -> {"no", "completed", "died"}]
    BY <1>4, DieMoves
  <2>2. \A y \in Execution : (Active(y)' => Active(y)) /\ (y # x => (Active(y)' <=> Active(y)))
                             /\ Now(y)' = Now(y)
    BY <2>1 DEF Active, Now
  <2>3. \A y \in Execution : \A q : Wiring(y, q)' <=> Wiring(y, q)
    BY <1>1, <2>1, <2>2 DEF Wiring
  <2>4. \A d : Whole(d)' <=> Whole(d)
    BY <1>1, <1>4 DEF Whole
  <2>5. \A q : Stranded(q) => Stranded(q)'
    BY <1>2, <1>4, <2>1, <2>4 DEF Stranded
  <2>6. BootstrapTypeOK'
    BY <1>1, <1>4, <2>1 DEF BootstrapTypeOK
  <2>7. Positions'
    <3>1. ASSUME NEW y \in Execution PROVE Position(y)'
      <4>1. Position(y)
        BY DEF Positions
      <4> QED BY <1>1, <1>4, <2>1, <2>2, <4>1 DEF Position
    <3> QED BY <3>1 DEF Positions
  <2>8. Made'
    <3>1. ASSUME NEW d \in copies PROVE Whole(d)' \/ ended'[d[1]] = "died" \/ Wiring(d[1], d[2])'
      <4>1. d[1] \in Execution
        BY DEF BootstrapTypeOK
      <4> QED BY <2>1, <2>3, <2>4, <4>1 DEF Made
    <3> QED BY <1>4, <3>1 DEF Made
  <2>9. Past'
    BY <1>1, <2>1, <2>3, <2>4, <2>5 DEF Past
  <2>10. Alone'
    BY <1>1, <1>4, <2>1, <2>2 DEF Alone, Makes
  <2> QED BY <2>6, <2>7, <2>8, <2>9, <2>10
<1>5. CASE /\ copies' = copies \union {c} /\ correct' \subseteq Tuned
           /\ IF s.requests = 0 THEN NextStep(x) ELSE GoOn(x, "wire")
  <2>1. /\ ended' = ended
        /\ at' \in [Execution -> 1..Len(Script) + 1]
        /\ request' \in [Execution -> {"read", "create", "wire", "correct"}]
        /\ \A y \in Execution : y # x => at'[y] = at[y] /\ request'[y] = request[y]
        /\ \/ s.requests = 0 /\ at'[x] = at[x] + 1 /\ request'[x] = "read"
           \/ s.requests > 0 /\ at'[x] = at[x] /\ request'[x] = "wire"
    <3>1. CASE s.requests = 0
      BY <1>1, <1>5, <3>1, NextStepMoves
    <3>2. CASE s.requests # 0
      BY <1>1, <1>2, <1>5, <3>2, GoOnMoves DEF BootstrapTypeOK
    <3> QED BY <3>1, <3>2
  <2>2. \A y \in Execution : y # x => (Active(y)' <=> Active(y)) /\ Now(y)' = Now(y)
    BY <2>1 DEF Active, Now
  <2>3. \A y \in Execution : \A q : y # x => (Wiring(y, q)' <=> Wiring(y, q))
    BY <1>1, <2>1, <2>2 DEF Wiring
  <2>4. \A q : ~Wiring(x, q)
    BY <1>1 DEF Wiring
  <2>5. \A d \in copies : Whole(d)' <=> Whole(d)
    BY <1>1, <1>5 DEF Whole
  <2>6. \A q : Stranded(q) => Stranded(q)'
    BY <1>5, <2>1, <2>5 DEF Stranded
  <2>7. BootstrapTypeOK'
    BY <1>1, <1>2, <1>5, <2>1 DEF BootstrapTypeOK
  <2>8. c \in copies' /\ (s.requests = 0 => Whole(c)') /\ (s.requests > 0 => Wiring(x, s)')
    <3>1. s.requests > 0 => Active(x)' /\ Now(x)' = s
      BY <1>0, <1>1, <2>1 DEF Active, Now
    <3>2. c \in copies' /\ c[2] = s /\ wired'[c] = 0
      BY <1>1, <1>3, <1>5
    <3>3. s.requests = 0 => Whole(c)'
      BY <3>2 DEF Whole
    <3>4. s.requests > 0 => request'[x] = "wire"
      BY <2>1
    <3>5. s.requests > 0 => Wiring(x, s)'
      BY <3>1, <3>4 DEF Wiring
    <3> QED BY <3>2, <3>3, <3>5
  <2>9. Positions'
    <3>1. ASSUME NEW y \in Execution, y # x PROVE Position(y)'
      <4>1. Position(y)
        BY DEF Positions
      <4>2. \A q : <<y, q>> \in copies' <=> <<y, q>> \in copies
        BY <1>5, <3>1
      <4> QED BY <1>1, <2>1, <2>2, <3>1, <4>1, <4>2 DEF Position
    <3>2. /\ ended'[x] # "completed" /\ request'[x] # "correct"
          /\ Active(x)' /\ request'[x] = "wire" =>
               <<x, Now(x)'>> \in copies' /\ wired'[<<x, Now(x)'>>] < Now(x)'.requests
      <4>1. request'[x] = "wire" => Now(x)' = s /\ s.requests > 0
        BY <1>0, <2>1 DEF Now
      <4> QED BY <1>1, <1>2, <1>3, <1>5, <2>1, <4>1
    <3>3. ASSUME NEW i \in 1..Len(Script), i > at'[x] \/ (i = at'[x] /\ request'[x] # "wire")
          PROVE  <<x, Script[i]>> \notin copies' /\ wired'[<<x, Script[i]>>] = 0
      <4>1. i > at[x]
        BY <1>2, <2>1, <3>3
      <4>2. Script[i] # s
        BY <1>2, <4>1, ScriptSteps
      <4>3. <<x, Script[i]>> \notin copies /\ wired[<<x, Script[i]>>] = 0
        BY <4>1 DEF Positions, Position
      <4> QED BY <1>1, <1>5, <4>2, <4>3
    <3>4. Position(x)'
      BY <3>2, <3>3 DEF Position
    <3> QED BY <3>1, <3>4 DEF Positions
  <2>10. Made'
    <3>1. ASSUME NEW d \in copies PROVE Whole(d)' \/ ended'[d[1]] = "died" \/ Wiring(d[1], d[2])'
      <4>1. d[1] \in Execution
        BY DEF BootstrapTypeOK
      <4> QED BY <2>1, <2>3, <2>4, <2>5, <4>1 DEF Made
    <3>2. Whole(c)' \/ Wiring(c[1], c[2])'
      BY <1>2, <2>8
    <3>3. \A d \in copies' : d \in copies \/ d = c
      BY <1>5
    <3> HIDE DEF c
    <3>4. \A d \in copies' : Whole(d)' \/ ended'[d[1]] = "died" \/ Wiring(d[1], d[2])'
      BY <3>1, <3>2, <3>3
    <3> QED BY <3>4 DEF Made
  <2>11. Past'
    <3>1. ASSUME NEW y \in Execution, NEW i \in 1..Len(Script), Script[i].kind # "setting",
                 i < at[y] \/ (i = at[y] /\ request[y] = "correct")
          PROVE  \/ \E z \in Execution : Whole(<<z, Script[i]>>)'
                 \/ Stranded(Script[i])'
                 \/ Script[i] \in overlapped' /\ \E z \in Execution : Wiring(z, Script[i])'
      <4>1. \/ \E z \in Execution : Whole(<<z, Script[i]>>)
            \/ Stranded(Script[i])
            \/ Script[i] \in overlapped /\ \E z \in Execution : Wiring(z, Script[i])
        BY <3>1 DEF Past
      <4>2. \A z \in Execution : Whole(<<z, Script[i]>>) => Whole(<<z, Script[i]>>)'
        BY <2>5 DEF Whole
      <4> QED BY <1>1, <2>3, <2>4, <2>6, <4>1, <4>2
    <3>2. ASSUME NEW y \in Execution, NEW i \in 1..Len(Script), Script[i].kind # "setting",
                 i < at'[y] \/ (i = at'[y] /\ request'[y] = "correct"),
                 ~(i < at[y] \/ (i = at[y] /\ request[y] = "correct"))
          PROVE  \E z \in Execution : Whole(<<z, Script[i]>>)'
      <4>1. y = x /\ i = at[x] /\ s.requests = 0
        BY <1>2, <2>1, <3>2
      <4>2. Script[i] = s /\ Whole(<<x, s>>)'
        BY <1>2, <2>8, <4>1
      <4> QED BY <4>2
    <3> QED BY <3>1, <3>2 DEF Past
  <2>12. Alone'
    <3>1. Makes(x, s)
      BY <1>0, <1>1 DEF Makes
    <3>2. \A y \in Execution : \A q : Makes(y, q)' => Makes(y, q)
      <4>1. ASSUME NEW y \in Execution, NEW q, Makes(y, q)', y # x PROVE Makes(y, q)
        BY <1>5, <2>1, <2>2, <4>1 DEF Makes
      <4>2. ASSUME NEW q, Makes(x, q)' PROVE Makes(x, q)
        BY <1>5, <2>1, <3>1, <4>2 DEF Makes
      <4> QED BY <4>1, <4>2
    <3> QED BY <1>1, <3>2 DEF Alone
  <2> QED BY <2>7, <2>9, <2>10, <2>11, <2>12
<1>6. \/ Die(x) /\ copies' = copies /\ correct' = correct
      \/ /\ copies' = copies \union {c} /\ correct' \subseteq Tuned
         /\ IF s.requests = 0 THEN NextStep(x) ELSE GoOn(x, "wire")
  <2>1. correct \subseteq Tuned /\ (s.kind = "tuned" => correct \union {s} \subseteq Tuned)
    BY <1>2 DEF BootstrapTypeOK, Tuned
  <2> QED BY <1>0, <2>1 DEF Create
<1> QED BY <1>4, <1>5, <1>6

LEMMA WireKeeps ==
  ASSUME BootInv, NEW x \in Execution, Wire(x)
  PROVE  BootInv'
<1> USE DEF BootInv
<1>0. PICK s : s = Now(x)
  OBVIOUS
<1> DEFINE c == <<x, s>>
<1>1. /\ Active(x) /\ request[x] = "wire" /\ wired' = [wired EXCEPT ![c] = @ + 1]
      /\ copies' = copies /\ correct' = correct /\ overlapped' = overlapped
  BY <1>0 DEF Wire
<1>2. /\ at[x] \in 1..Len(Script) /\ s = Script[at[x]] /\ s \in Steps /\ ended[x] = "no"
      /\ c \in Execution \X Steps /\ s.requests \in Nat
  BY <1>0, <1>1, NowInScript
<1>3. c \in copies /\ wired[c] < s.requests /\ wired[c] \in Nat
  BY <1>0, <1>1, <1>2 DEF Positions, Position, BootstrapTypeOK
<1>4. wired'[c] = wired[c] + 1 /\ wired' \in [Execution \X Steps -> Nat]
      /\ \A d \in Execution \X Steps : d # c => wired'[d] = wired[d]
  BY <1>1, <1>2, <1>3 DEF BootstrapTypeOK
<1>5. /\ ended' = ended
      /\ at' \in [Execution -> 1..Len(Script) + 1]
      /\ request' \in [Execution -> {"read", "create", "wire", "correct"}]
      /\ \A y \in Execution : y # x => at'[y] = at[y] /\ request'[y] = request[y]
      /\ \/ wired'[c] = s.requests /\ at'[x] = at[x] + 1 /\ request'[x] = "read"
         \/ wired'[c] < s.requests /\ at'[x] = at[x] /\ request'[x] = "wire"
  <2>1. CASE NextStep(x) /\ wired[c] + 1 = s.requests
    BY <1>1, <1>4, <2>1, NextStepMoves
  <2>2. CASE GoOn(x, "wire") /\ wired[c] + 1 # s.requests
    <3>1. wired'[c] < s.requests
      BY <1>2, <1>3, <1>4, <2>2
    <3> QED BY <2>2, <3>1, GoOnMoves DEF BootstrapTypeOK
  <2> QED BY <1>0, <2>1, <2>2 DEF Wire
<1>6. \A y \in Execution : y # x => (Active(y)' <=> Active(y)) /\ Now(y)' = Now(y)
  BY <1>5 DEF Active, Now
<1>7. \A y \in Execution : \A q : y # x => (Wiring(y, q)' <=> Wiring(y, q))
  BY <1>5, <1>6 DEF Wiring
<1>8. \A q : Wiring(x, q) => q = s
  BY <1>0 DEF Wiring
<1>9. Whole(c)' \/ Wiring(x, s)'
  <2>1. CASE wired'[c] = s.requests
    BY <1>1, <1>3, <2>1 DEF Whole
  <2>2. CASE at'[x] = at[x] /\ request'[x] = "wire"
    <3>1. Active(x)' /\ Now(x)' = s
      BY <1>0, <1>1, <1>5, <2>2 DEF Active, Now
    <3> QED BY <2>2, <3>1 DEF Wiring
  <2> QED BY <1>5, <2>1, <2>2
<1>10. ASSUME NEW d \in Execution \X Steps, d # c PROVE Whole(d)' <=> Whole(d)
  BY <1>1, <1>4, <1>10 DEF Whole
<1>11. ASSUME NEW q, Stranded(q) PROVE Stranded(q)'
  <2>1. PICK y \in Execution : ended[y] = "died" /\ <<y, q>> \in copies /\ ~Whole(<<y, q>>)
    BY <1>11 DEF Stranded
  <2>2. <<y, q>> \in Execution \X Steps /\ y # x
    BY <1>2, <2>1 DEF BootstrapTypeOK
  <2>3. ~Whole(<<y, q>>)'
    BY <1>10, <2>1, <2>2
  <2> QED BY <1>1, <1>5, <2>1, <2>3 DEF Stranded
<1>12. BootstrapTypeOK'
  BY <1>1, <1>4, <1>5 DEF BootstrapTypeOK
<1>13. Positions'
  <2>1. ASSUME NEW y \in Execution, y # x PROVE Position(y)'
    <3>1. Position(y)
      BY DEF Positions
    <3>2. \A q \in Steps : wired'[<<y, q>>] = wired[<<y, q>>]
      BY <1>4, <2>1
    <3>3. Active(y) => Now(y) \in Steps
      BY NowInScript
    <3>4. \A i \in 1..Len(Script) : Script[i] \in Steps
      BY ScriptSteps
    <3> QED BY <1>1, <1>5, <1>6, <2>1, <3>1, <3>2, <3>3, <3>4 DEF Position
  <2>2. /\ ended'[x] # "completed" /\ request'[x] # "correct"
        /\ Active(x)' /\ request'[x] = "wire" =>
             <<x, Now(x)'>> \in copies' /\ wired'[<<x, Now(x)'>>] < Now(x)'.requests
    <3>1. request'[x] = "wire" => Now(x)' = s /\ wired'[c] < s.requests
      BY <1>0, <1>5 DEF Now
    <3> QED BY <1>1, <1>2, <1>3, <1>5, <3>1
  <2>3. ASSUME NEW i \in 1..Len(Script), i > at'[x] \/ (i = at'[x] /\ request'[x] # "wire")
        PROVE  <<x, Script[i]>> \notin copies' /\ wired'[<<x, Script[i]>>] = 0
    <3>1. i > at[x] /\ Script[i] \in Steps
      BY <1>2, <1>5, <2>3, ScriptSteps
    <3>2. Script[i] # s
      BY <1>2, <3>1, ScriptSteps
    <3>3. <<x, Script[i]>> \notin copies /\ wired[<<x, Script[i]>>] = 0
      BY <3>1 DEF Positions, Position
    <3> QED BY <1>1, <1>4, <3>1, <3>2, <3>3
  <2>4. Position(x)'
    BY <2>2, <2>3 DEF Position
  <2> QED BY <2>1, <2>4 DEF Positions
<1>14. Made'
  <2>1. ASSUME NEW d \in copies, d # c
        PROVE Whole(d)' \/ ended'[d[1]] = "died" \/ Wiring(d[1], d[2])'
    <3>1. d \in Execution \X Steps /\ d = <<d[1], d[2]>> /\ d[1] \in Execution
      BY DEF BootstrapTypeOK
    <3>2. Wiring(d[1], d[2]) => d[1] # x
      BY <1>8, <2>1, <3>1
    <3> QED BY <1>5, <1>7, <1>10, <2>1, <3>1, <3>2 DEF Made
  <2>2. Whole(c)' \/ Wiring(c[1], c[2])'
    BY <1>9
  <2> HIDE DEF c
  <2>3. \A d \in copies' : Whole(d)' \/ ended'[d[1]] = "died" \/ Wiring(d[1], d[2])'
    BY <1>1, <2>1, <2>2
  <2> QED BY <2>3 DEF Made
<1>15. Past'
  <2>1. ASSUME NEW y \in Execution, NEW i \in 1..Len(Script), Script[i].kind # "setting",
               i < at[y] \/ (i = at[y] /\ request[y] = "correct")
        PROVE  \/ \E z \in Execution : Whole(<<z, Script[i]>>)'
               \/ Stranded(Script[i])'
               \/ Script[i] \in overlapped' /\ \E z \in Execution : Wiring(z, Script[i])'
    <3>1. CASE \E z \in Execution : Whole(<<z, Script[i]>>)
      <4>1. PICK z \in Execution : Whole(<<z, Script[i]>>)
        BY <3>1
      <4>2. <<z, Script[i]>> # c
        BY <1>2, <1>3, <4>1 DEF Whole
      <4> QED BY <1>10, <4>1, <4>2, ScriptSteps
    <3>2. CASE Stranded(Script[i])
      BY <1>11, <3>2
    <3>3. CASE Script[i] \in overlapped /\ \E z \in Execution : Wiring(z, Script[i])
      <4>1. PICK z \in Execution : Wiring(z, Script[i])
        BY <3>3
      <4>2. CASE z # x
        BY <1>1, <1>7, <3>3, <4>1, <4>2
      <4>3. CASE z = x
        BY <1>1, <1>8, <1>9, <3>3, <4>1, <4>3
      <4> QED BY <4>2, <4>3
    <3> QED BY <2>1, <3>1, <3>2, <3>3 DEF Past
  <2>2. ASSUME NEW y \in Execution, NEW i \in 1..Len(Script),
               i < at'[y] \/ (i = at'[y] /\ request'[y] = "correct"),
               ~(i < at[y] \/ (i = at[y] /\ request[y] = "correct"))
        PROVE  \E z \in Execution : Whole(<<z, Script[i]>>)'
    <3>1. y = x /\ i = at[x] /\ wired'[c] = s.requests
      BY <1>2, <1>5, <2>2
    <3>2. Script[i] = s /\ Whole(<<x, s>>)'
      BY <1>1, <1>2, <1>3, <3>1 DEF Whole
    <3> QED BY <3>2
  <2> QED BY <2>1, <2>2 DEF Past
<1>16. Alone'
  <2>1. \A y \in Execution : \A q : Makes(y, q)' => Makes(y, q)
    <3>1. ASSUME NEW y \in Execution, NEW q, y # x, Makes(y, q)' PROVE Makes(y, q)
      BY <1>1, <1>5, <1>6, <3>1 DEF Makes
    <3>2. ASSUME NEW q, Makes(x, q)' PROVE Makes(x, q)
      BY <1>1, <1>5, <3>2 DEF Makes
    <3> QED BY <3>1, <3>2
  <2> QED BY <1>1, <2>1 DEF Alone
<1> QED BY <1>12, <1>13, <1>14, <1>15, <1>16

\* A setting is corrected, or a script ends: objects stay as they are.
LEMMA CorrectKeeps ==
  ASSUME BootInv, NEW x \in Execution, Correct(x)
  PROVE  BootInv'
<1> USE DEF BootInv
<1>1. /\ Active(x) /\ request[x] = "correct" /\ correct' = correct \union {Now(x)}
      /\ copies' = copies /\ wired' = wired /\ overlapped' = overlapped
      /\ at'[x] = at[x] + 1 /\ request'[x] = "read" /\ ended' = ended
      /\ \A y \in Execution : y # x => at'[y] = at[y] /\ request'[y] = request[y]
      /\ at' \in [Execution -> 1..Len(Script) + 1]
      /\ request' \in [Execution -> {"read", "create", "wire", "correct"}]
  BY NextStepMoves DEF Correct
<1>2. /\ at[x] \in 1..Len(Script) /\ Now(x) = Script[at[x]] /\ Now(x) \in Steps /\ ended[x] = "no"
      /\ Now(x).kind \in {"setting", "tuned"}
  BY <1>1, NowInScript DEF Positions, Position
<1>3. \A y \in Execution : y # x => (Active(y)' <=> Active(y)) /\ Now(y)' = Now(y)
  BY <1>1 DEF Active, Now
<1>4. \A y \in Execution : \A q : Wiring(y, q)' <=> Wiring(y, q)
  BY <1>1, <1>3 DEF Wiring
<1>5. \A d : Whole(d)' <=> Whole(d)
  BY <1>1 DEF Whole
<1>6. \A q : Stranded(q)' <=> Stranded(q)
  BY <1>1, <1>5 DEF Stranded
<1>7. BootstrapTypeOK'
  BY <1>1, <1>2 DEF BootstrapTypeOK, Tuned
<1>8. Positions'
  <2>1. ASSUME NEW y \in Execution, y # x PROVE Position(y)'
    <3>1. Position(y)
      BY DEF Positions
    <3> QED BY <1>1, <1>3, <2>1, <3>1 DEF Position
  <2>2. ASSUME NEW i \in 1..Len(Script), i >= at'[x]
        PROVE  <<x, Script[i]>> \notin copies' /\ wired'[<<x, Script[i]>>] = 0
    <3>1. i > at[x]
      BY <1>1, <1>2, <2>2
    <3> QED BY <1>1, <3>1 DEF Positions, Position
  <2>3. at'[x] \in Nat /\ Len(Script) \in Nat
    BY <1>1, ScriptSteps
  <2>4. Position(x)'
    BY <1>1, <1>2, <2>2, <2>3 DEF Position
  <2> QED BY <2>1, <2>4 DEF Positions
<1>9. Made'
  <2>1. ASSUME NEW d \in copies PROVE Whole(d)' \/ ended'[d[1]] = "died" \/ Wiring(d[1], d[2])'
    <3>1. d[1] \in Execution
      BY DEF BootstrapTypeOK
    <3> QED BY <1>1, <1>4, <1>5, <3>1 DEF Made
  <2> QED BY <1>1, <2>1 DEF Made
<1>10. Past'
  <2>1. \A y \in Execution, i \in 1..Len(Script) :
          i < at'[y] \/ (i = at'[y] /\ request'[y] = "correct")
            => i < at[y] \/ (i = at[y] /\ request[y] = "correct")
    BY <1>1, <1>2
  <2> QED BY <1>1, <1>4, <1>5, <1>6, <2>1 DEF Past
<1>11. Alone'
  <2>1. ASSUME NEW y \in Execution, NEW q, Makes(y, q)' PROVE Makes(y, q)
    BY <1>1, <1>3, <2>1 DEF Makes
  <2> QED BY <1>1, <2>1 DEF Alone
<1> QED BY <1>7, <1>8, <1>9, <1>10, <1>11

LEMMA EndKeeps ==
  ASSUME BootInv, NEW x \in Execution, Complete(x) \/ Fail(x)
  PROVE  BootInv'
<1> USE DEF BootInv
<1>1. /\ at' = at /\ request' = request /\ copies' = copies /\ wired' = wired
      /\ correct' = correct /\ overlapped' = overlapped /\ ended[x] = "no"
      /\ \A y \in Execution : y # x => ended'[y] = ended[y]
      /\ ended' \in [Execution -> {"no", "completed", "died"}]
      /\ \/ ended'[x] = "completed" /\ at[x] = Len(Script) + 1
         \/ ended'[x] = "died"
  BY DieMoves DEF Complete, Fail, Active, BootstrapTypeOK
<1>2. \A y \in Execution : ~Active(x)' /\ Now(y)' = Now(y) /\ (y # x => (Active(y)' <=> Active(y)))
  BY <1>1 DEF Active, Now
<1>3. \A y \in Execution : \A q : y # x => (Wiring(y, q)' <=> Wiring(y, q))
  BY <1>1, <1>2 DEF Wiring
<1>4. \A d : Whole(d)' <=> Whole(d)
  BY <1>1 DEF Whole
<1>5. \A q : Stranded(q) => Stranded(q)'
  BY <1>1, <1>4 DEF Stranded
<1>6. ASSUME NEW q, Wiring(x, q)
      PROVE  ended'[x] = "died" /\ Stranded(q)'
  <2>0. Active(x) /\ at[x] \in 1..Len(Script) /\ Len(Script) \in Nat
    BY <1>6, NowInScript, ScriptSteps DEF Wiring
  <2>1. at[x] # Len(Script) + 1
    BY <2>0
  <2>2. <<x, q>> \in copies /\ wired[<<x, q>>] < q.requests
    BY <1>6 DEF Wiring, Positions, Position
  <2>3. wired[<<x, q>>] # q.requests
    <3>1. q.requests \in Nat /\ <<x, q>> \in Execution \X Steps
      BY <1>6, NowInScript DEF Wiring
    <3>2. wired[<<x, q>>] \in Nat
      BY <3>1 DEF BootstrapTypeOK
    <3> QED BY <2>2, <3>1, <3>2
  <2>4. ~Whole(<<x, q>>)
    BY <2>3 DEF Whole
  <2> QED BY <1>1, <1>4, <2>1, <2>2, <2>4 DEF Stranded
<1>7. BootstrapTypeOK'
  BY <1>1 DEF BootstrapTypeOK
<1>8. Positions'
  <2>1. ASSUME NEW y \in Execution PROVE Position(y)'
    <3>1. Position(y)
      BY DEF Positions
    <3> QED BY <1>1, <1>2, <3>1 DEF Position
  <2> QED BY <2>1 DEF Positions
<1>9. Made'
  <2>1. ASSUME NEW d \in copies PROVE Whole(d)' \/ ended'[d[1]] = "died" \/ Wiring(d[1], d[2])'
    <3>1. d[1] \in Execution
      BY DEF BootstrapTypeOK
    <3> QED BY <1>1, <1>3, <1>4, <1>6, <3>1 DEF Made
  <2> QED BY <1>1, <2>1 DEF Made
<1>10. Past'
  BY <1>1, <1>3, <1>4, <1>5, <1>6 DEF Past
<1>11. Alone'
  <2>1. ASSUME NEW y \in Execution, NEW q, Makes(y, q)' PROVE Makes(y, q)
    BY <1>1, <1>2, <2>1 DEF Makes
  <2> QED BY <1>1, <2>1 DEF Alone
<1> QED BY <1>7, <1>8, <1>9, <1>10, <1>11

\* Settings drift, and editors work.
LEMMA UntouchedKeeps ==
  ASSUME BootInv, correct' \subseteq correct,
         UNCHANGED <<at, request, copies, wired, ended, overlapped>>
  PROVE  BootInv'
<1> USE DEF BootInv
<1>1. BootstrapTypeOK'
  BY DEF BootstrapTypeOK
<1>2. \A x \in Execution : (Active(x)' <=> Active(x)) /\ Now(x)' = Now(x)
  BY DEF Active, Now
<1>3. Positions'
  <2>1. ASSUME NEW x \in Execution PROVE Position(x)'
    <3>1. Position(x)
      BY DEF Positions
    <3> QED BY <1>2, <3>1 DEF Position
  <2> QED BY <2>1 DEF Positions
<1>4. (Made /\ Past)'
  BY DEF Made, Past, Wiring, Whole, Stranded, Active, Now
<1>5. Alone'
  BY <1>2 DEF Alone, Makes
<1> QED BY <1>1, <1>3, <1>4, <1>5

LEMMA SetUpKeeps ==
  ASSUME BootInv, BootstrapNext
  PROVE  BootInv'
<1>1. ASSUME NEW x \in Execution, Proceed(x) PROVE BootInv'
  BY <1>1, ReadCurrentKeeps, CreateKeeps, WireKeeps, CorrectKeeps, EndKeeps DEF Proceed
<1>2. ASSUME NEW x \in Execution, Fail(x) PROVE BootInv'
  BY <1>2, EndKeeps
<1>3. ASSUME NEW s \in Tuned, Drift(s) PROVE BootInv'
  <2>1. /\ correct' \subseteq correct
        /\ UNCHANGED <<at, request, copies, wired, ended, overlapped>>
    BY <1>3 DEF Drift
  <2> QED BY <2>1, UntouchedKeeps
<1> QED BY <1>1, <1>2, <1>3 DEF BootstrapNext
-----------------------------------------------------------------------------
(* Where it begins *)

LEMMA SomeTwo ==
  ASSUME NEW S, IsFiniteSet(S), NEW x \in S, NEW y \in S, x # y
  PROVE  Cardinality(S) > 1
<1>1. {x, y} \subseteq S /\ Cardinality({x, y}) = 2
  <2>1. IsFiniteSet({x}) /\ Cardinality({x}) = 1
    BY FS_Singleton
  <2>2. Cardinality({x} \union {y}) = Cardinality({x}) + 1
    BY <2>1, FS_AddElement
  <2>3. {x} \union {y} = {x, y}
    OBVIOUS
  <2> QED BY <2>1, <2>2, <2>3
<1>2. Cardinality({x, y}) <= Cardinality(S)
  BY <1>1, FS_Subset
<1>3. Cardinality(S) \in Nat
  BY FS_CardinalityType
<1> QED BY <1>1, <1>2, <1>3

LEMMA AtMostOneOf ==
  ASSUME NEW S, \A x, y \in S : x = y
  PROVE  ~(Cardinality(S) > 1)
<1>1. CASE S = {}
  BY <1>1, FS_EmptySet
<1>2. CASE S # {}
  <2>1. PICK x \in S : S = {x}
    BY <1>2
  <2>2. Cardinality({x}) = 1
    BY FS_Singleton
  <2> QED BY <2>1, <2>2
<1> QED BY <1>1, <1>2

LEMMA InitBoot == BootstrapInit => BootInv
<1> SUFFICES ASSUME BootstrapInit PROVE BootInv
  OBVIOUS
<1> USE DEF BootstrapInit
<1>1. Len(Script) \in Nat /\ \A i \in 1..Len(Script) : Script[i] \in Steps
  BY ScriptSteps
<1>2. BootstrapTypeOK
  BY <1>1 DEF BootstrapTypeOK
<1>3. Positions
  <2>1. ASSUME NEW x \in Execution PROVE Position(x)
    BY <1>1 DEF Position
  <2> QED BY <2>1 DEF Positions
<1>4. Made /\ Past /\ Alone
  <2>1. \A x \in Execution, i \in 1..Len(Script) : ~(i < at[x]) /\ request[x] = "read"
    OBVIOUS
  <2> QED BY <2>1 DEF Made, Past, Alone, Makes
<1> QED BY <1>2, <1>3, <1>4 DEF BootInv

LEMMA SetUpInit ==
  ASSUME NEW makers \in {Execution, {CHOOSE x \in Execution : TRUE}}, SetUpBy(makers)
  PROVE  BootInv
<1> DEFINE one == CHOOSE x \in makers : TRUE
<1> USE DEF SetUpBy
<1>1. makers \subseteq Execution /\ makers # {} /\ one \in makers
  BY BootstrapAssumption
<1> HIDE DEF one
<1>2. /\ Len(Script) \in Nat /\ \A i \in 1..Len(Script) : Script[i] \in Steps
      /\ \A s \in Steps : s.requests \in Nat
  BY ScriptSteps
<1>3. /\ copies = {c \in makers \X (Steps \ Settings) : c[2] = PromotionFlow \/ c[1] = one}
      /\ \A x \in Execution : at[x] = Len(Script) + 1 /\ request[x] = "read"
                              /\ ended[x] = "completed" /\ ~Active(x)
  BY <1>2 DEF Active, one
<1>4. \A c \in copies : c \in Execution \X Steps /\ Whole(c)
  BY <1>1, <1>3 DEF Whole
<1>5. BootstrapTypeOK
  <2>1. copies \subseteq Execution \X Steps
    BY <1>4
  <2>2. wired \in [Execution \X Steps -> Nat]
    BY <1>2
  <2>3. overlapped \subseteq Steps
    BY EditorialAssumption
  <2> QED BY <1>2, <2>1, <2>2, <2>3 DEF BootstrapTypeOK, Tuned
<1>6. Positions
  <2>1. ASSUME NEW x \in Execution PROVE Position(x)
    BY <1>2, <1>3 DEF Position
  <2> QED BY <2>1 DEF Positions
<1>7. Made
  BY <1>4 DEF Made
<1>8. Past
  <2>1. ASSUME NEW i \in 1..Len(Script), Script[i].kind # "setting"
        PROVE  one \in Execution /\ Whole(<<one, Script[i]>>)
    <3>1. <<one, Script[i]>> \in copies
      BY <1>1, <1>2, <1>3, <2>1 DEF Settings
    <3> QED BY <1>1, <1>4, <3>1
  <2> QED BY <2>1 DEF Past
<1>9. Alone
  <2>1. ASSUME NEW s \in Steps \ overlapped, NEW x \in Execution, NEW y \in Execution,
               Makes(x, s), Makes(y, s)
        PROVE  x = y
    <3>1. <<x, s>> \in copies /\ <<y, s>> \in copies
      BY <1>3, <2>1 DEF Makes
    <3>2. CASE s = PromotionFlow
      <4>1. ~(Cardinality(makers) > 1)
        BY <2>1, <3>2
      <4>2. x \in makers /\ y \in makers /\ IsFiniteSet(makers)
        BY <1>1, <1>3, <3>1, BootstrapAssumption, FS_Subset
      <4> QED BY <4>1, <4>2, SomeTwo
    <3>3. CASE s # PromotionFlow
      BY <1>3, <3>1, <3>3
    <3> QED BY <3>2, <3>3
  <2> QED BY <2>1 DEF Alone
<1> QED BY <1>5, <1>6, <1>7, <1>8, <1>9 DEF BootInv
-----------------------------------------------------------------------------
(* The theorems *)

LEMMA EditorialKeeps ==
  ASSUME BootInv, [EditorialNext]_vars
  PROVE  BootInv'
<1>1. CASE SetUp
  BY <1>1, SetUpKeeps DEF SetUp
<1>2. CASE UNCHANGED bootstrapVars
  BY <1>2, UntouchedKeeps DEF bootstrapVars
<1>3. CASE UNCHANGED vars
  BY <1>2, <1>3 DEF vars
<1> QED BY <1>1, <1>2, <1>3 DEF EditorialNext, ApproveButton, ApproveSelected

\* The inductive invariant of the script: what its executions have made is whole
\* or is being made, or died over; and it is made once unless they overlap.
THEOREM SetUpInvariant == EditorialSpec => []BootInv
<1>1. EditorialInit => BootInv
  BY InitBoot, SetUpInit DEF EditorialInit
<1>2. BootInv /\ [EditorialNext]_vars => BootInv'
  BY EditorialKeeps
<1> QED BY <1>1, <1>2, PTL DEF EditorialSpec

\* What the script has made and where its executions are has its type.
THEOREM BootstrapTypes == EditorialSpec => []BootstrapTypeOK
<1>1. BootInv => BootstrapTypeOK
  BY DEF BootInv
<1> QED BY <1>1, SetUpInvariant, PTL

\* bootstrap.ts: an execution that completes leaves every object whole, unless
\* another is at it or has died over it, and none is made twice without an
\* overlap.
THEOREM CompletedLeavesWholeHolds == EditorialSpec => []CompletedLeavesWhole
<1>1. ASSUME BootInv PROVE CompletedLeavesWhole
  <2>1. ASSUME NEW x \in Execution, NEW s \in Steps \ Settings, ended[x] = "completed"
        PROVE  \/ \E y \in Execution : Whole(<<y, s>>)
               \/ Stranded(s)
               \/ \E y \in Execution : Active(y) /\ Now(y) = s
    <3>1. PICK i \in 1..Len(Script) : s = Script[i]
      BY ScriptSteps
    <3>2. at[x] = Len(Script) + 1 /\ Len(Script) \in Nat /\ s.kind # "setting"
      BY <1>1, <2>1, ScriptSteps DEF BootInv, Positions, Position, Settings
    <3>3. i < at[x]
      BY <3>2
    <3> QED BY <1>1, <3>1, <3>2, <3>3 DEF BootInv, Past, Wiring
  <2>2. ASSUME NEW s \in Steps, s \notin overlapped
        PROVE  ~(Cardinality({c \in copies : c[2] = s}) > 1)
    <3>1. ASSUME NEW c \in copies, NEW d \in copies, c[2] = s, d[2] = s PROVE c = d
      <4>1. /\ c = <<c[1], s>> /\ d = <<d[1], s>> /\ c[1] \in Execution /\ d[1] \in Execution
        BY <1>1, <3>1 DEF BootInv, BootstrapTypeOK
      <4>2. Makes(c[1], s) /\ Makes(d[1], s)
        BY <4>1 DEF Makes
      <4>3. c[1] = d[1]
        BY <1>1, <2>2, <4>1, <4>2 DEF BootInv, Alone
      <4> QED BY <4>1, <4>3
    <3> QED BY <3>1, AtMostOneOf
  <2> QED BY <2>1, <2>2 DEF CompletedLeavesWhole
<1>2. BootInv => CompletedLeavesWhole
  BY <1>1
<1> QED BY <1>2, SetUpInvariant, PTL

\* Where a completed execution leaves no flow whole, one died over it or two
\* made it at once.
LEMMA FlowIsThere ==
  ASSUME BootInv, NEW x \in Execution, ended[x] = "completed", Flows(PromotionFlow) = {}
  PROVE  Stranded(PromotionFlow) \/ PromotionFlow \in overlapped
<1>1. PICK i \in 1..Len(Script) : PromotionFlow = Script[i]
  BY EditorialAssumption, ScriptSteps
<1>2. at[x] = Len(Script) + 1 /\ Len(Script) \in Nat
  BY ScriptSteps DEF BootInv, Positions, Position
<1>3. i < at[x]
  BY <1>2
<1>4. Script[i].kind # "setting"
  <2>1. PromotionFlow.kind = "flow"
    BY DEF PromotionFlow, Step
  <2> QED BY <1>1, <2>1
<1>5. \A y \in Execution : ~Whole(<<y, PromotionFlow>>)
  BY DEF Flows, Whole
<1> QED BY <1>1, <1>3, <1>4, <1>5 DEF BootInv, Past

LEMMA NoFlowFires ==
  ASSUME BootInv, NEW by \in kSubset(Cardinality(Flows(PromotionFlow)), Firing), by = {}
  PROVE  Flows(PromotionFlow) = {}
<1>1. Flows(PromotionFlow) \subseteq Execution \X {PromotionFlow}
  BY DEF Flows, BootInv, BootstrapTypeOK
<1>2. IsFiniteSet(Execution \X {PromotionFlow})
  BY BootstrapAssumption, FS_Singleton, FS_Product
<1>3. IsFiniteSet(Flows(PromotionFlow))
  BY <1>1, <1>2, FS_Subset
<1>4. Cardinality(by) = Cardinality(Flows(PromotionFlow))
  BY DEF kSubset
<1> QED BY <1>3, <1>4, FS_EmptySet

\* The approve flows: an approval finds no flow only before an execution of the
\* script has completed, or when one died inside the flow, or two made it.
THEOREM ApprovalIsHeardHolds == EditorialSpec => ApprovalIsHeard
<1> DEFINE Heard ==
      \A r \in Row : unfired'[r] = "no flow" /\ unfired[r] # "no flow" =>
        \/ \A x \in Execution : ended[x] # "completed"
        \/ Stranded(PromotionFlow)
        \/ PromotionFlow \in overlapped
<1>1. ASSUME BootInv, [EditorialNext]_vars PROVE Heard
  <2>1. ASSUME NEW selected,
               \E by \in kSubset(Cardinality(Flows(PromotionFlow)), Firing) : Approve(selected, by)
        PROVE  Heard
    <3>1. PICK by \in kSubset(Cardinality(Flows(PromotionFlow)), Firing) : Approve(selected, by)
      BY <2>1
    <3>2. \A r \in Row : unfired'[r] = "no flow" /\ unfired[r] # "no flow" => by = {}
      BY <3>1 DEF Approve
    <3> QED BY <1>1, <3>2, NoFlowFires, FlowIsThere
  <2>2. CASE UNCHANGED unfired
    BY <2>2
  <2>3. UNCHANGED unfired \/ (\E r \in Row : ApproveButton(r))
          \/ (\E selected \in Selection : ApproveSelected(selected))
    BY <1>1 DEF EditorialNext, SetUp, Meanwhile, Advance, Reject, CrawlAgain, PutCover, RecordCover, Sell, Abort,
       ReadRow, LinkAuthor, InsertBook, MergeBook, ReadMedia, CopyCover, Commit, vars, promotionVars, marks
  <2> QED BY <2>1, <2>2, <2>3 DEF ApproveButton, ApproveSelected
<1>2. BootInv /\ [EditorialNext]_vars => Heard
  BY <1>1
<1>3. [][EditorialNext]_vars /\ []BootInv => [][Heard]_vars
  BY <1>2, PTL
<1> QED BY <1>3, SetUpInvariant, PTL DEF EditorialSpec, ApprovalIsHeard

-----------------------------------------------------------------------------
(* The promotion flow *)

\* What an operation holds at each of its steps.
OperationShape(f) ==
  /\ step[f] # "idle" => row[f] \in Row
  /\ step[f] \in {"idle", "fired"} => born[f] = {}
  /\ step[f] = "link" => names[f] # <<>>
  /\ step[f] \in {"idle", "fired", "link", "insert", "merge"} => on[f] = None
  /\ step[f] \in {"link", "insert"} => Match[row[f]] = None
  /\ step[f] = "merge" => Match[row[f]] # None
  /\ step[f] \in {"media", "copy", "write"} =>
       on[f] = IF Match[row[f]] = None THEN f ELSE Match[row[f]]
  /\ f \in failed => step[f] = "done"

Shapes == \A f \in Firing : OperationShape(f)

\* What was made is never forgotten: the row stays with its book.
Promoted ==
  \A r \in Row :
    /\ promoted[r] # None => status[r] \in {"approved", "promoted"}
    /\ promoted[r] \in Existing => promoted[r] = Match[r]

\* A row stays approved behind an operation's read, or its rejection was noted;
\* it is promoted there only by an operation that ran at the same time.
Judged ==
  \A f \in Firing : Running(f) =>
    /\ status[row[f]] \in {"approved", "promoted"} \/ row[f] \in caught
    /\ promoted[row[f]] # None => f \in crossed

Together ==
  /\ \A f, g \in Firing : Running(f) /\ Running(g) /\ f # g => f \in crossed
  /\ \A f \in crossed : step[f] # "idle"

\* No two transactions write one book.
Exclusive ==
  \A f, g \in Firing : Running(f) /\ Running(g) /\ on[f] = on[g] /\ on[f] # None => f = g

\* A new book has one operation behind it, and the index keeps the ISBN.
Written(f, r) == Match[r] = None /\ row[f] = r /\ step[f] \in {"media", "copy", "write"}
MadeOnce ==
  /\ \A f \in Firing : source[f] # None =>
       promoted[source[f]] # None /\ row[f] = source[f] /\ step[f] = "done"
  /\ \A f, g \in Firing : source[f] = source[g] /\ source[f] # None /\ f # g =>
       (f \in crossed \/ g \in crossed) /\ source[f] \notin HasIsbn
  /\ \A r \in HasIsbn, f, g \in Firing : Written(f, r) /\ Written(g, r) => f = g
  /\ \A r \in HasIsbn, f, g \in Firing : Written(f, r) => source[g] # r

\* An author that an operation has found missing is there only by one that ran
\* at the same time.
Named ==
  /\ \A n \in Name, f \in Firing : Running(f) /\ n \in born[f] /\ authors[n] > 0 => f \in crossed
  /\ \A n \in Name : authors[n] > 1 => \E f \in Firing : n \in born[f] /\ f \in crossed

\* Unless one submission has overtaken another, or an operation has looked
\* between the two, a row's object and its media row are of one submission once
\* both are written.
Recorded ==
  \A r \in Row \ interrupted :
    /\ \A u \in toRecord : u[1] = r => object[r] = u[2]
    /\ (\A u \in toRecord : u[1] # r) => object[r] = described[r]

\* What an operation copies is what it will describe.
Covered ==
  /\ \A f \in Firing : step[f] = "copy" =>
       found[f] # 0 /\ (row[f] \in interrupted \/ found[f] = object[row[f]])
  /\ \A f \in Firing : step[f] = "write" /\ found[f] # 0 =>
       row[f] \in interrupted \/ cover[on[f]] = <<row[f], found[f]>>
  /\ \A b \in Book : cover[b] # media[b] =>
       \E f \in Firing :
         on[f] = b /\ (f \in failed \/ row[f] \in interrupted \/ (step[f] = "write" /\ found[f] # 0))

\* What was listed of a row, and what an operation has read of it, is what is
\* left, until a copy is sold; the row a book's stock is of was promoted to it.
ListedFits(r) ==
  promoted[r] = None /\ listed[r] # None => listed[r] = left[r] \/ r \in late
SeenFits(f) ==
  Running(f) /\ seen[f] # None =>
    seen[f] = left[row[f]] \/ row[f] \in late \/ row[f] \in caught \/ f \in crossed
StockedRow(b) ==
  stockedBy[b] # None => promoted[stockedBy[b]] # None /\ Match[stockedBy[b]] = b

Stocked ==
  /\ \A r \in Row : ListedFits(r)
  /\ \A f \in Firing : SeenFits(f)
  /\ \A b \in Existing : StockedRow(b)
  /\ StockFollowsCrawl

PromotionInv ==
  /\ PromotionTypeOK /\ Shapes /\ Promoted /\ Judged /\ Together
  /\ Exclusive /\ MadeOnce /\ Named /\ Recorded /\ Covered /\ Stocked
-----------------------------------------------------------------------------
(* Types *)

\* An approval, of a selection that is a sequence of rows.
Approval(selected, by) ==
  /\ selected # <<>> /\ selected \in Seq(Row) /\ by \subseteq Firing
  /\ Approve(selected, by)

LEMMA Selected ==
  ASSUME NEW selected \in Seq(Row), selected # <<>>
  PROVE  TriggerKey(selected) \in Row
<1>1. Len(selected) \in Nat /\ Len(selected) # 0
  BY LenProperties, EmptySeq
<1> QED BY <1>1, ElementOfSeq DEF TriggerKey

LEMMA InitTypes == PromotionInit => PromotionTypeOK
<1> SUFFICES ASSUME PromotionInit PROVE PromotionTypeOK
  OBVIOUS
<1>1. \A r \in Row : MaxCrawls[r] >= 1
  BY PromotionAssumption
<1>2. <<>> \in Seq(Name)
  OBVIOUS
<1>3. None \notin Book /\ MaxStock \in Nat /\ MaxSales \in Nat /\ MaxFailures \in Nat
  BY PromotionAssumption
<1> QED BY <1>1, <1>2, <1>3 DEF PromotionInit, PromotionTypeOK, Status, OperationStep, Book, Stock, Submission

LEMMA ApprovalTypes ==
  ASSUME PromotionTypeOK, NEW selected, NEW by, Approval(selected, by)
  PROVE  PromotionTypeOK'
<1>1. TriggerKey(selected) \in Row
  BY Selected DEF Approval
<1> QED BY <1>1 DEF Approval, Approve, PromotionTypeOK, Status, OperationStep, uploads, catalogue, shop

LEMMA LessFits == ASSUME NEW n \in Stock PROVE Less(n) \in Stock
<1>1. MaxStock \in Nat
  BY PromotionAssumption
<1> QED BY <1>1 DEF Less, Stock

LEMMA DoubtfulRows == Doubtful \subseteq Row
BY PromotionAssumption

LEMMA MeanwhileTypes ==
  ASSUME PromotionTypeOK, Meanwhile
  PROVE  PromotionTypeOK'
<1>1. ASSUME NEW r \in Row, Reject(r) PROVE PromotionTypeOK'
  BY <1>1 DEF Reject, PromotionTypeOK, Status, uploads, catalogue, operation, shop
<1>2. ASSUME NEW r \in Row, NEW n \in Listing, CrawlAgain(r, n) PROVE PromotionTypeOK'
  <2>1. MaxCrawls[r] \in Nat /\ n \in Stock \union {None}
    BY PromotionAssumption DEF Stock
  <2>2. crawl \in [Row -> Nat] /\ \A q \in Row : crawl[q] <= MaxCrawls[q]
    BY DEF PromotionTypeOK
  <2>3. crawl' \in [Row -> Nat] /\ \A q \in Row : crawl'[q] <= MaxCrawls[q]
    BY <1>2, <2>1, <2>2 DEF CrawlAgain
  <2>4. status' \in [Row -> Status] /\ listed' \in [Row -> Stock \union {None}]
    BY <1>2, <2>1 DEF CrawlAgain, PromotionTypeOK, Status
  <2>5. left' \in [Row -> Stock] /\ late' \subseteq Row
    BY <1>2, <2>1 DEF CrawlAgain, PromotionTypeOK
  <2>6. toPut' \subseteq Submission
    <3>1. <<r, crawl[r] + 1>> \in Submission
      <4>1. crawl[r] + 1 \in Nat
        BY <2>2
      <4> QED BY <4>1 DEF Submission
    <3>2. toPut \subseteq Submission
      BY DEF PromotionTypeOK
    <3> QED BY <1>2, <3>1, <3>2 DEF CrawlAgain
  <2> QED BY <1>2, <2>3, <2>4, <2>5, <2>6 DEF CrawlAgain, PromotionTypeOK, catalogue, operation, marks
<1>3. ASSUME NEW b \in Existing, Sell(b) PROVE PromotionTypeOK'
  <2>1. MaxSales \in Nat /\ stock \in [Book -> Stock] /\ left \in [Row -> Stock]
        /\ sales \in [Existing -> 0..MaxSales] /\ late \subseteq Row /\ b \in Book
    BY PromotionAssumption DEF PromotionTypeOK, Book
  <2>2. stock' \in [Book -> Stock] /\ left' \in [Row -> Stock]
    BY <1>3, <2>1, LessFits DEF Sell
  <2>3. sales' \in [Existing -> 0..MaxSales]
    BY <1>3, <2>1 DEF Sell
  <2>4. late' \subseteq Row
    BY <1>3, <2>1 DEF Sell
  <2> QED BY <1>3, <2>2, <2>3, <2>4 DEF Sell, PromotionTypeOK, staging, uploads, operation, marks
<1>4. ASSUME NEW f \in Firing, Abort(f) PROVE PromotionTypeOK'
  <2>1. MaxFailures \in Nat
    BY PromotionAssumption
  <2>2. failures \in 0..MaxFailures
    BY DEF PromotionTypeOK
  <2>3. failures' \in 0..MaxFailures
    BY <1>4, <2>1, <2>2 DEF Abort
  <2> QED BY <1>4, <2>3 DEF Abort, PromotionTypeOK, OperationStep, staging, uploads, catalogue, shop
<1>5. ASSUME NEW u \in toPut, PutCover(u[1], u[2]) PROVE PromotionTypeOK'
  <2>1. u[1] \in Row /\ u[2] \in Nat
    BY DEF PromotionTypeOK, Submission
  <2> QED BY <1>5, <2>1 DEF PutCover, PromotionTypeOK, Submission, staging, catalogue, operation, marks, shop
<1>6. ASSUME NEW u \in toRecord, RecordCover(u[1], u[2]) PROVE PromotionTypeOK'
  <2>1. u[1] \in Row /\ u[2] \in Nat
    BY DEF PromotionTypeOK, Submission
  <2> QED BY <1>6, <2>1 DEF RecordCover, PromotionTypeOK, staging, catalogue, operation, marks, shop
<1> QED BY <1>1, <1>2, <1>3, <1>4, <1>5, <1>6, DoubtfulRows DEF Meanwhile

LEMMA Rows ==
  ASSUME PromotionTypeOK, NEW f \in Firing, OperationShape(f), step[f] # "idle"
  PROVE  /\ row[f] \in Row /\ Authors[row[f]] \in Seq(Name) /\ None \notin Book
         /\ Match[row[f]] \in Existing \union {None}
BY PromotionAssumption DEF OperationShape

LEMMA OneMoreEach ==
  ASSUME NEW S, NEW n \in [S -> Nat], NEW T, NEW m,
         m = [s \in S |-> n[s] + (IF s \in T THEN 1 ELSE 0)]
  PROVE  m \in [S -> Nat]
OBVIOUS

LEMMA AdvanceTypes ==
  ASSUME PromotionTypeOK, Shapes, NEW f \in Firing, Advance(f)
  PROVE  PromotionTypeOK'
<1> USE DEF PromotionTypeOK, Goto
<1>0. OperationShape(f)
  BY DEF Shapes
<1>1. CASE ReadRow(f)
  <2>1. step[f] = "fired"
    BY <1>1 DEF ReadRow
  <2>2. row[f] \in Row /\ Authors[row[f]] \in Seq(Name)
    BY <1>0, <2>1, Rows
  <2>3. step' \in [Firing -> OperationStep] /\ crossed' \subseteq Firing
    BY <1>1 DEF ReadRow, OperationStep
  <2>4. seen' \in [Firing -> Stock \union {None}]
    BY <1>1, <2>2 DEF ReadRow
  <2>5. names' \in [Firing -> Seq(Name)]
    BY <1>1, <2>2 DEF ReadRow
  <2> QED BY <1>1, <2>3, <2>4, <2>5 DEF ReadRow, staging, uploads, catalogue, shop
<1>2. CASE LinkAuthor(f)
  <2>1. names[f] \in Seq(Name) /\ names[f] # <<>>
    BY <1>0, <1>2 DEF LinkAuthor, OperationShape
  <2>2. Head(names[f]) \in Name /\ Tail(names[f]) \in Seq(Name)
    BY <2>1, HeadTailProperties
  <2>3. step' \in [Firing -> OperationStep]
    BY <1>2 DEF LinkAuthor, OperationStep
  <2>4. names' \in [Firing -> Seq(Name)] /\ born' \in [Firing -> SUBSET Name]
    BY <1>2, <2>2 DEF LinkAuthor
  <2> QED BY <1>2, <2>3, <2>4 DEF LinkAuthor, staging, uploads, catalogue, marks, shop
<1>3. CASE InsertBook(f)
  BY <1>3 DEF InsertBook, OperationStep, Book, staging, uploads, catalogue, shop
<1>4. CASE MergeBook(f)
  <2>1. Match[row[f]] \in Existing \union {None}
    BY <1>0, <1>4, Rows DEF MergeBook
  <2> QED BY <1>4, <2>1 DEF MergeBook, OperationStep, Book, staging, uploads, catalogue, marks, shop
<1>5. CASE CopyCover(f)
  <2>1. row[f] \in Row
    BY <1>0, <1>5, Rows DEF CopyCover
  <2>2. <<row[f], object[row[f]]>> \in Submission
    BY <2>1 DEF Submission
  <2> QED BY <1>5, <2>2 DEF CopyCover, OperationStep, staging, uploads, catalogue, marks, shop
<1>7. CASE ReadMedia(f)
  <2>1. row[f] \in Row
    BY <1>0, <1>7, Rows DEF ReadMedia
  <2> QED BY <1>7, <2>1 DEF ReadMedia, OperationStep, staging, catalogue, marks, shop
<1>6. CASE Commit(f)
  <2>1. row[f] \in Row
    BY <1>0, <1>6, Rows DEF Commit
  <2>2. step' \in [Firing -> OperationStep]
    BY <1>6 DEF Commit, OperationStep
  <2>9. <<row[f], found[f]>> \in Submission
    BY <2>1 DEF Submission
  <2>3. media' \in [Book -> Submission \union {None}] /\ stock' \in [Book -> Stock]
    BY <1>6, <2>9 DEF Commit, DescribeCover, PromoteInventory
  <2>10. stockedBy' \in [Existing -> Row \union {None}]
    BY <1>6, <2>1 DEF Commit
  <2>6. authors \in [Name -> Nat]
    OBVIOUS
  <2>4. authors' = [n \in Name |-> authors[n] + (IF n \in born[f] THEN 1 ELSE 0)]
    BY <1>6 DEF Commit
  <2>7. authors' \in [Name -> Nat]
    BY ONLY <2>4, <2>6, OneMoreEach
  <2>8. source' \in [Firing -> Row \union {None}]
    BY <1>6, <2>1 DEF Commit
  <2>5. status' \in [Row -> Status] /\ promoted' \in [Row -> Book \union {None}]
    BY <1>6, <2>1 DEF Commit, Status
  <2> QED BY <1>6, <2>2, <2>3, <2>5, <2>7, <2>8, <2>10 DEF Commit, uploads, marks
<1> QED BY <1>1, <1>2, <1>3, <1>4, <1>5, <1>6, <1>7 DEF Advance

-----------------------------------------------------------------------------
(* Operations *)

LEMMA ShapeStays ==
  ASSUME Shapes, NEW f \in Firing, step'[f] = step[f], row'[f] = row[f], born'[f] = born[f],
         names'[f] = names[f], on'[f] = on[f], f \in failed' => f \in failed
  PROVE  OperationShape(f)'
BY DEF Shapes, OperationShape

LEMMA ApprovalShapes ==
  ASSUME PromotionTypeOK, Shapes, NEW selected, NEW by, Approval(selected, by)
  PROVE  Shapes'
<1>1. TriggerKey(selected) \in Row
  BY Selected DEF Approval
<1>2. ASSUME NEW f \in Firing, f \notin by PROVE OperationShape(f)'
  BY <1>2, ShapeStays DEF Approval, Approve, PromotionTypeOK
<1>3. ASSUME NEW f \in by PROVE OperationShape(f)'
  <2>1. f \in Firing /\ step[f] = "idle" /\ OperationShape(f)
    BY <1>3 DEF Approval, Approve, Shapes
  <2>2. step'[f] = "fired" /\ row'[f] = TriggerKey(selected) /\ on'[f] = on[f]
        /\ born'[f] = born[f] /\ failed' = failed
    BY <1>3, <2>1 DEF Approval, Approve
  <2> QED BY <1>1, <2>1, <2>2 DEF OperationShape
<1> QED BY <1>2, <1>3 DEF Shapes

LEMMA MeanwhileShapes ==
  ASSUME PromotionTypeOK, Shapes, Meanwhile
  PROVE  Shapes'
<1>1. CASE UNCHANGED <<operation, failed>>
  BY <1>1, ShapeStays DEF Shapes, operation
<1>2. ASSUME NEW f \in Firing, Abort(f) PROVE Shapes'
  <2>1. ASSUME NEW g \in Firing, g # f PROVE OperationShape(g)'
    BY <1>2, <2>1, ShapeStays DEF Abort, PromotionTypeOK
  <2>2. OperationShape(f)'
    BY <1>2 DEF Abort, PromotionTypeOK, Shapes, OperationShape
  <2> QED BY <2>1, <2>2 DEF Shapes
<1> QED BY <1>1, <1>2 DEF Meanwhile, Reject, CrawlAgain, PutCover, RecordCover, Sell, marks

LEMMA AdvanceShapes ==
  ASSUME PromotionTypeOK, Shapes, NEW f \in Firing, Advance(f)
  PROVE  Shapes'
<1>0. OperationShape(f)
  BY DEF Shapes
<1>1. ASSUME NEW g \in Firing, g # f PROVE OperationShape(g)'
  <2>1. step'[g] = step[g] /\ row' = row /\ born'[g] = born[g] /\ names'[g] = names[g]
        /\ on'[g] = on[g] /\ (g \in failed' => g \in failed)
    BY <1>1 DEF Advance, ReadRow, LinkAuthor, InsertBook, MergeBook, ReadMedia, CopyCover, Commit, Goto,
       marks, PromotionTypeOK
  <2> QED BY <2>1, ShapeStays
<1>2. ASSUME ReadRow(f) PROVE OperationShape(f)'
  BY <1>0, <1>2 DEF ReadRow, Goto, OperationShape, PromotionTypeOK
<1>3. ASSUME LinkAuthor(f) PROVE OperationShape(f)'
  <2>1. names[f] \in Seq(Name) /\ names[f] # <<>> /\ step[f] = "link"
    BY <1>0, <1>3 DEF LinkAuthor, Goto, OperationShape, PromotionTypeOK
  <2>2. Len(names[f]) # 1 => Tail(names[f]) # <<>>
    <3>1. Len(names[f]) \in Nat /\ Len(Tail(names[f])) = Len(names[f]) - 1
      BY <2>1, HeadTailProperties, LenProperties
    <3>2. Len(names[f]) # 0
      BY <2>1, EmptySeq
    <3>3. Len(names[f]) # 1 => Len(Tail(names[f])) # 0
      BY ONLY <3>1, <3>2
    <3>4. Tail(names[f]) = <<>> => Len(Tail(names[f])) = 0
      BY ONLY EmptySeq
    <3> QED BY ONLY <3>3, <3>4
  <2> QED BY <1>0, <1>3, <2>1, <2>2 DEF LinkAuthor, Goto, OperationShape, PromotionTypeOK, marks
<1>4. ASSUME InsertBook(f) PROVE OperationShape(f)'
  BY <1>0, <1>4 DEF InsertBook, Goto, OperationShape, PromotionTypeOK
<1>5. ASSUME MergeBook(f) PROVE OperationShape(f)'
  BY <1>0, <1>5 DEF MergeBook, Goto, OperationShape, PromotionTypeOK, marks
<1>6. ASSUME CopyCover(f) PROVE OperationShape(f)'
  BY <1>0, <1>6 DEF CopyCover, Goto, OperationShape, PromotionTypeOK, marks
<1>7. ASSUME Commit(f) PROVE OperationShape(f)'
  BY <1>0, <1>7 DEF Commit, Goto, OperationShape, PromotionTypeOK, marks
<1>8. ASSUME ReadMedia(f) PROVE OperationShape(f)'
  BY <1>0, <1>8 DEF ReadMedia, Goto, OperationShape, PromotionTypeOK, marks
<1>9. OperationShape(f)'
  BY <1>2, <1>3, <1>4, <1>5, <1>6, <1>7, <1>8 DEF Advance
<1> QED BY <1>1, <1>9 DEF Shapes

\* Running operations go on, and one that begins to run has read its row.
LEMMA ApprovalRuns ==
  ASSUME PromotionTypeOK, NEW selected, NEW by, Approval(selected, by), NEW f \in Firing, Running(f)'
  PROVE  Running(f) /\ step'[f] = step[f] /\ row'[f] = row[f]
BY DEF Approval, Approve, Running, PromotionTypeOK

LEMMA MeanwhileRuns ==
  ASSUME PromotionTypeOK, Meanwhile, NEW f \in Firing, Running(f)'
  PROVE  Running(f) /\ step'[f] = step[f] /\ row'[f] = row[f]
BY DEF Meanwhile, Reject, CrawlAgain, PutCover, RecordCover, Sell, Abort, operation, Running, PromotionTypeOK

LEMMA AdvanceRuns ==
  ASSUME PromotionTypeOK, NEW f \in Firing, Advance(f)
  PROVE  /\ row' = row
         /\ \A g \in Firing \ {f} : step'[g] = step[g] /\ seen'[g] = seen[g] /\ found'[g] = found[g]
                                    /\ born'[g] = born[g] /\ on'[g] = on[g]
         /\ Running(f)' => Running(f) \/ ReadRow(f)
         /\ ~ReadRow(f) => seen' = seen /\ crossed' = crossed
         /\ crossed \subseteq crossed' /\ caught' = caught
BY DEF Advance, ReadRow, LinkAuthor, InsertBook, MergeBook, ReadMedia, CopyCover, Commit, Goto, Running, marks,
   PromotionTypeOK

LEMMA ReadRowRuns ==
  ASSUME PromotionTypeOK, NEW f \in Firing, ReadRow(f), Running(f)'
  PROVE  /\ MayPromote(row[f]) /\ step[f] = "fired"
         /\ staging' = staging /\ catalogue' = catalogue /\ cover' = cover /\ shop' = shop
         /\ seen'[f] = listed[row[f]]
         /\ \A g \in Firing : Running(g) => g \in crossed' /\ f \in crossed'
BY DEF ReadRow, Goto, Running, PromotionTypeOK

PromotionStep ==
  \/ \E selected, by : Approval(selected, by)
  \/ Meanwhile
  \/ \E f \in Firing : Advance(f)

-----------------------------------------------------------------------------
(* Rows and operations *)

LEMMA StepPromoted ==
  ASSUME PromotionInv, PromotionStep
  PROVE  Promoted'
<1> USE DEF PromotionInv
<1>1. ASSUME NEW selected, NEW by, Approval(selected, by) PROVE Promoted'
  BY <1>1 DEF Approval, Approve, Promoted, PromotionTypeOK
<1>2. CASE Meanwhile
  BY <1>2, DoubtfulRows DEF Meanwhile, Reject, CrawlAgain, PutCover, RecordCover, Sell, Abort, staging, Promoted, PromotionTypeOK
<1>3. ASSUME NEW f \in Firing, Advance(f) PROVE Promoted'
  <2>1. CASE UNCHANGED <<status, promoted>>
    BY <2>1 DEF Promoted
  <2>2. CASE Commit(f)
    <3>1. row[f] \in Row /\ step[f] = "write"
      BY <2>2, Rows DEF Commit, Goto, Shapes
    <3>2. on[f] = (IF Match[row[f]] = None THEN f ELSE Match[row[f]])
      BY <3>1 DEF Shapes, OperationShape
    <3>3. Existing \intersect Firing = {}
      BY PromotionAssumption
    <3> QED BY <2>2, <3>1, <3>2, <3>3 DEF Commit, Promoted, PromotionTypeOK
  <2> QED BY <1>3, <2>1, <2>2 DEF Advance, ReadRow, LinkAuthor, InsertBook, MergeBook, ReadMedia, CopyCover, staging
<1> QED BY <1>1, <1>2, <1>3 DEF PromotionStep

LEMMA StepTogether ==
  ASSUME PromotionInv, PromotionStep
  PROVE  Together'
<1> USE DEF PromotionInv
<1>1. ASSUME NEW selected, NEW by, Approval(selected, by) PROVE Together'
  <2>1. crossed' = crossed
    BY <1>1 DEF Approval, Approve
  <2>2. \A f \in Firing : step[f] # "idle" => step'[f] # "idle"
    BY <1>1 DEF Approval, Approve, PromotionTypeOK
  <2>3. crossed \subseteq Firing
    BY DEF PromotionTypeOK
  <2> QED BY <1>1, <2>1, <2>2, <2>3, ApprovalRuns DEF Together
<1>2. CASE Meanwhile
  <2>1. crossed' = crossed
    BY <1>2 DEF Meanwhile, Reject, CrawlAgain, PutCover, RecordCover, Sell, Abort, marks
  <2>2. \A f \in Firing : step[f] # "idle" => step'[f] # "idle"
    BY <1>2 DEF Meanwhile, Reject, CrawlAgain, PutCover, RecordCover, Sell, Abort, operation, PromotionTypeOK
  <2>3. crossed \subseteq Firing
    BY DEF PromotionTypeOK
  <2> QED BY <1>2, <2>1, <2>2, <2>3, MeanwhileRuns DEF Together
<1>3. ASSUME NEW f \in Firing, Advance(f) PROVE Together'
  <2>1. \A g \in Firing : g # f => (Running(g)' <=> Running(g))
    BY <1>3, AdvanceRuns DEF Running
  <2>4. step'[f] # "idle" /\ \A g \in Firing : step[g] # "idle" => step'[g] # "idle"
    <3>1. step'[f] # "idle"
      BY <1>3 DEF Advance, ReadRow, LinkAuthor, InsertBook, MergeBook, ReadMedia, CopyCover, Commit, Goto, PromotionTypeOK
    <3> QED BY <1>3, <3>1, AdvanceRuns
  <2>5. \A g \in crossed' : g \in Firing /\ (g \in crossed \/ g = f \/ step[g] # "idle")
    <3>1. CASE ReadRow(f)
      <4>1. crossed' \subseteq crossed \union {g \in Firing : Running(g)} \union {f}
        BY <3>1 DEF ReadRow
      <4> QED BY <4>1 DEF Running, PromotionTypeOK
    <3>2. CASE crossed' = crossed
      BY <3>2 DEF PromotionTypeOK
    <3> QED BY <1>3, <3>1, <3>2 DEF Advance, LinkAuthor, InsertBook, MergeBook, ReadMedia, CopyCover, Commit, marks
  <2>6. \A g \in crossed' : step'[g] # "idle"
    BY <2>4, <2>5 DEF Together
  <2>2. CASE ReadRow(f) /\ Running(f)'
    <3>1. \A g \in Firing : Running(g) => g \in crossed' /\ f \in crossed'
      BY <2>2, ReadRowRuns
    <3>2. SUFFICES ASSUME NEW g \in Firing, NEW h \in Firing, Running(g)', Running(h)', g # h
                   PROVE  g \in crossed'
      BY <2>6 DEF Together
    <3> QED BY <2>1, <3>1, <3>2
  <2>3. CASE ~(ReadRow(f) /\ Running(f)')
    <3>1. crossed \subseteq crossed' /\ \A g \in Firing : Running(g)' => Running(g)
      BY <1>3, <2>1, <2>3, AdvanceRuns
    <3> QED BY <2>6, <3>1 DEF Together
  <2> QED BY <2>2, <2>3
<1> QED BY <1>1, <1>2, <1>3 DEF PromotionStep

LEMMA StepJudged ==
  ASSUME PromotionInv, PromotionStep
  PROVE  Judged'
<1> USE DEF PromotionInv
<1>1. ASSUME NEW selected, NEW by, Approval(selected, by) PROVE Judged'
  <2>1. SUFFICES ASSUME NEW f \in Firing, Running(f)'
                 PROVE  /\ status'[row'[f]] \in {"approved", "promoted"} \/ row'[f] \in caught'
                        /\ promoted'[row'[f]] # None => f \in crossed'
    BY DEF Judged
  <2>2. Running(f) /\ row'[f] = row[f] /\ row[f] \in Row
    BY <1>1, <2>1, ApprovalRuns, Rows DEF Running, Shapes
  <2> QED BY <1>1, <2>2 DEF Approval, Approve, Judged, PromotionTypeOK
<1>2. CASE Meanwhile
  <2>1. SUFFICES ASSUME NEW f \in Firing, Running(f)'
                 PROVE  /\ status'[row'[f]] \in {"approved", "promoted"} \/ row'[f] \in caught'
                        /\ promoted'[row'[f]] # None => f \in crossed'
    BY DEF Judged
  <2>2. Running(f) /\ row'[f] = row[f] /\ row[f] \in Row
    BY <1>2, <2>1, MeanwhileRuns, Rows DEF Running, Shapes
  <2>3. promoted' = promoted /\ crossed' = crossed
    BY <1>2 DEF Meanwhile, Reject, CrawlAgain, PutCover, RecordCover, Sell, Abort, staging, marks
  <2>4. CASE UNCHANGED <<status, caught>>
    BY <2>2, <2>3, <2>4 DEF Judged
  <2>5. ASSUME NEW r \in Row, Reject(r)
        PROVE  status'[row[f]] \in {"approved", "promoted"} \/ row[f] \in caught'
    BY <2>2, <2>5 DEF Reject, Judged, PromotionTypeOK
  <2>6. ASSUME NEW r \in Row, NEW n, CrawlAgain(r, n)
        PROVE  status'[row[f]] \in {"approved", "promoted"} \/ row[f] \in caught'
    BY <2>2, <2>6 DEF CrawlAgain, Judged, PromotionTypeOK, marks
  <2> QED BY <1>2, <2>2, <2>3, <2>4, <2>5, <2>6, DoubtfulRows
          DEF Judged, Meanwhile, PutCover, RecordCover, Sell, Abort, staging, marks
<1>3. ASSUME NEW f \in Firing, Advance(f) PROVE Judged'
  <2>1. SUFFICES ASSUME NEW g \in Firing, Running(g)'
                 PROVE  /\ status'[row'[g]] \in {"approved", "promoted"} \/ row'[g] \in caught'
                        /\ promoted'[row'[g]] # None => g \in crossed'
    BY DEF Judged
  <2>2. row'[g] = row[g] /\ caught' = caught /\ crossed \subseteq crossed'
    BY <1>3, AdvanceRuns
  <2>3. CASE g = f /\ ReadRow(f)
    <3>1. MayPromote(row[f]) /\ staging' = staging
      BY <2>1, <2>3, ReadRowRuns
    <3> QED BY <2>2, <2>3, <3>1 DEF MayPromote, staging
  <2>4. CASE ~(g = f /\ ReadRow(f))
    <3>1. Running(g)
      BY <1>3, <2>1, <2>4, AdvanceRuns DEF Running
    <3>2. row[g] \in Row
      BY <3>1, Rows DEF Running, Shapes
    <3>3. CASE UNCHANGED <<status, promoted>>
      BY <2>2, <3>1, <3>3 DEF Judged
    <3>4. CASE Commit(f)
      <4>1. Running(f) /\ step[f] = "write" /\ row[f] \in Row /\ ~Running(f)'
        BY <3>4, Rows DEF Commit, Goto, Running, Shapes, PromotionTypeOK
      <4>2. g \in crossed
        BY <2>1, <3>1, <4>1 DEF Together
      <4> QED BY <2>2, <3>1, <3>2, <3>4, <4>1, <4>2 DEF Commit, Judged, PromotionTypeOK
    <3> QED BY <1>3, <3>3, <3>4 DEF Advance, ReadRow, LinkAuthor, InsertBook, MergeBook, ReadMedia, CopyCover, staging
  <2> QED BY <2>3, <2>4
<1> QED BY <1>1, <1>2, <1>3 DEF PromotionStep

LEMMA StepExclusive ==
  ASSUME PromotionInv, PromotionStep
  PROVE  Exclusive'
<1> USE DEF PromotionInv
<1>1. ASSUME NEW selected, NEW by, Approval(selected, by) PROVE Exclusive'
  <2>1. on' = on
    BY <1>1 DEF Approval, Approve
  <2> QED BY <1>1, <2>1, ApprovalRuns DEF Exclusive
<1>2. CASE Meanwhile
  <2>1. on' = on
    BY <1>2 DEF Meanwhile, Reject, CrawlAgain, PutCover, RecordCover, Sell, Abort, operation
  <2> QED BY <1>2, <2>1, MeanwhileRuns DEF Exclusive
<1>3. ASSUME NEW f \in Firing, Advance(f) PROVE Exclusive'
  <2>1. \A g \in Firing : g # f => (Running(g)' <=> Running(g)) /\ on'[g] = on[g]
    BY <1>3, AdvanceRuns DEF Running
  <2>2. CASE on'[f] = on[f]
    <3>1. Running(f)' /\ on[f] # None => Running(f)
      <4>1. step[f] = "fired" => on[f] = None
        BY DEF Shapes, OperationShape
      <4>2. ReadRow(f) => step[f] = "fired"
        BY DEF ReadRow, Goto
      <4> QED BY <1>3, <4>1, <4>2, AdvanceRuns
    <3> QED BY <2>1, <2>2, <3>1 DEF Exclusive
  <2>3. CASE MergeBook(f)
    <3>1. on'[f] = Match[row[f]]
      BY <2>3 DEF MergeBook, PromotionTypeOK
    <3>2. \A g \in Firing : g # f => ~(on[g] = Match[row[f]] /\ Running(g))
      BY <2>3 DEF MergeBook
    <3> QED BY <2>1, <3>1, <3>2 DEF Exclusive
  <2>4. CASE InsertBook(f)
    <3>1. on'[f] = f
      BY <2>4 DEF InsertBook, PromotionTypeOK
    <3>2. ASSUME NEW g \in Firing, g # f, Running(g) PROVE on[g] # f
      <4>1. OperationShape(g) /\ step[g] # "idle" /\ None \notin Book /\ f \in Book
            /\ Existing \intersect Firing = {}
        BY <3>2, PromotionAssumption DEF Shapes, Running, Book
      <4>2. Match[row[g]] \in Existing \union {None}
        BY <4>1, Rows
      <4> QED BY <3>2, <4>1, <4>2 DEF OperationShape, Running, PromotionTypeOK, OperationStep
    <3> QED BY <2>1, <3>1, <3>2 DEF Exclusive
  <2> QED BY <1>3, <2>2, <2>3, <2>4 DEF Advance, ReadRow, LinkAuthor, ReadMedia, CopyCover, Commit
<1> QED BY <1>1, <1>2, <1>3 DEF PromotionStep

-----------------------------------------------------------------------------
(* Books and authors *)

\* What InsertBook keeps apart: operations at a new book's copy and write.
LEMMA StepMade ==
  ASSUME PromotionInv, PromotionStep
  PROVE  MadeOnce'
<1> USE DEF PromotionInv
<1>0. \A g \in Firing : source[g] # None => source[g] \in Row
  <2>1. source \in [Firing -> Row \union {None}]
    BY DEF PromotionTypeOK
  <2> QED BY ONLY <2>1
<1>1. ASSUME NEW selected, NEW by, Approval(selected, by) PROVE MadeOnce'
  <2>1. source' = source /\ crossed' = crossed
    BY <1>1 DEF Approval, Approve, catalogue
  <2>2. \A f \in Firing : \A r : Written(f, r)' => Written(f, r)
    BY <1>1 DEF Approval, Approve, Written, PromotionTypeOK
  <2>3. \A f \in Firing : step[f] = "done" => step'[f] = "done" /\ row'[f] = row[f]
    BY <1>1 DEF Approval, Approve, PromotionTypeOK
  <2>4. promoted' = promoted
    BY <1>1 DEF Approval, Approve
  <2> QED BY <2>1, <2>2, <2>3, <2>4 DEF MadeOnce
<1>2. CASE Meanwhile
  <2>1. source' = source /\ crossed' = crossed /\ promoted' = promoted /\ row' = row
    BY <1>2 DEF Meanwhile, Reject, CrawlAgain, PutCover, RecordCover, Sell, Abort, catalogue, staging, operation, marks
  <2>2. \A f \in Firing : \A r : Written(f, r)' => Written(f, r)
    BY <1>2, <2>1 DEF Meanwhile, Reject, CrawlAgain, PutCover, RecordCover, Sell, Abort, operation, Written, PromotionTypeOK
  <2>3. \A f \in Firing : step[f] = "done" => step'[f] = "done"
    BY <1>2 DEF Meanwhile, Reject, CrawlAgain, PutCover, RecordCover, Sell, Abort, operation, PromotionTypeOK
  <2> QED BY <2>1, <2>2, <2>3 DEF MadeOnce
<1>3. ASSUME NEW f \in Firing, Advance(f) PROVE MadeOnce'
  <2>1. row' = row /\ crossed \subseteq crossed'
        /\ \A g \in Firing : g # f => step'[g] = step[g]
    BY <1>3, AdvanceRuns
  <2>2. \A g \in Firing : \A r : g # f => (Written(g, r)' <=> Written(g, r))
    BY <2>1 DEF Written
  <2>3. step[f] # "done" /\ source[f] = None
    BY <1>3 DEF Advance, ReadRow, LinkAuthor, InsertBook, MergeBook, ReadMedia, CopyCover, Commit, Goto, MadeOnce
  <2>4. CASE InsertBook(f)
    <3>1. source' = source /\ promoted' = promoted
      BY <2>4 DEF InsertBook, staging, catalogue
    <3>2. ASSUME NEW r \in HasIsbn, Written(f, r)'
          PROVE  (\A g \in Firing : source[g] # r) /\ (\A g \in Firing \ {f} : ~Written(g, r))
      <4>1. row[f] = r /\ ~IsbnTaken(f) /\ ~IsbnLocked(f)
        BY <2>1, <2>4, <3>2 DEF InsertBook, Goto, Written, PromotionTypeOK
      <4> QED BY <4>1 DEF IsbnTaken, IsbnLocked, Written
    <3> QED BY <2>1, <2>2, <2>3, <3>1, <3>2 DEF MadeOnce
  <2>5. CASE Commit(f)
    <3>1. OperationShape(f) /\ step[f] = "write" /\ row[f] \in Row /\ on[f] # None
      BY <2>5, Rows, PromotionAssumption DEF Commit, Goto, Shapes, OperationShape, Book
    <3>2. step'[f] = "done" /\ promoted' = [promoted EXCEPT ![row[f]] = on[f]]
          /\ crossed' = crossed
      BY <2>5 DEF Commit, Goto, PromotionTypeOK, marks
    <3>3. promoted'[row[f]] # None
      BY <3>1, <3>2 DEF PromotionTypeOK
    <3>4. \A r \in Row : promoted[r] # None => promoted'[r] # None
      BY <3>1, <3>2 DEF PromotionTypeOK
    <3>5. ~Written(f, row[f])' /\ \A r : ~Written(f, r)'
      BY <3>2 DEF Written
    <3>6. CASE source' = source
      <4>1. \A g \in Firing : source'[g] # None =>
              promoted'[source'[g]] # None /\ row'[g] = source'[g] /\ step'[g] = "done"
        <5>1. \A g \in Firing \ {f} : step'[g] = step[g]
          BY <2>1
        <5> QED BY <1>0, <2>1, <2>3, <3>4, <3>6, <5>1 DEF MadeOnce
      <4>2. \A r \in HasIsbn, g, h \in Firing : Written(g, r)' /\ Written(h, r)' => g = h
        BY <2>2, <3>5 DEF MadeOnce
      <4>3. \A r \in HasIsbn, g, h \in Firing : Written(g, r)' => source'[h] # r
        BY <2>2, <3>5, <3>6 DEF MadeOnce
      <4> QED BY <3>2, <3>6, <4>1, <4>2, <4>3 DEF MadeOnce
    <3>7. CASE source' # source
      <4>1. on[f] = f /\ source' = [source EXCEPT ![f] = row[f]]
        BY <2>5, <3>7 DEF Commit
      <4>2. Match[row[f]] = None
        BY <3>1, <4>1, PromotionAssumption DEF OperationShape
      <4>3. source'[f] = row[f] /\ \A g \in Firing \ {f} : source'[g] = source[g]
        BY <4>1 DEF PromotionTypeOK
      <4>4. Written(f, row[f])
        BY <3>1, <4>2 DEF Written
      <4>5. ASSUME NEW g \in Firing \ {f}, source[g] = row[f]
            PROVE  f \in crossed' /\ row[f] \notin HasIsbn
        <5>1. promoted[row[f]] # None
          BY <3>1, <4>5, PromotionAssumption DEF MadeOnce
        <5>2. f \in crossed
          BY <3>1, <5>1 DEF Judged, Running
        <5> QED BY <3>2, <4>4, <4>5, <5>2 DEF MadeOnce
      <4>6. ASSUME NEW r \in HasIsbn, NEW g \in Firing, Written(g, r)', NEW h \in Firing
            PROVE  source'[h] # r
        <5>1. g # f /\ Written(g, r)
          BY <2>2, <3>5, <4>6
        <5>2. r # row[f]
          BY <4>4, <4>6, <5>1 DEF MadeOnce
        <5> QED BY <4>3, <5>1, <5>2 DEF MadeOnce
      <4>7. \A g \in Firing : source'[g] # None =>
              promoted'[source'[g]] # None /\ row'[g] = source'[g] /\ step'[g] = "done"
        <5>1. \A g \in Firing \ {f} : source[g] # None =>
                source[g] \in Row /\ promoted[source[g]] # None
                /\ row[g] = source[g] /\ step[g] = "done"
          BY <1>0 DEF MadeOnce
        <5> QED BY <2>1, <3>2, <3>3, <3>4, <4>3, <5>1
      <4>8. \A g, h \in Firing : source'[g] = source'[h] /\ source'[g] # None /\ g # h =>
              (g \in crossed' \/ h \in crossed') /\ source'[g] \notin HasIsbn
        BY <2>1, <3>2, <4>3, <4>5 DEF MadeOnce
      <4>9. \A r \in HasIsbn, g, h \in Firing : Written(g, r)' /\ Written(h, r)' => g = h
        BY <2>2, <3>5 DEF MadeOnce
      <4> QED BY <4>6, <4>7, <4>8, <4>9 DEF MadeOnce
    <3> QED BY <3>6, <3>7
  <2>6. CASE ReadRow(f) \/ LinkAuthor(f) \/ MergeBook(f) \/ ReadMedia(f) \/ CopyCover(f)
    <3>1. source' = source /\ promoted' = promoted
      BY <2>6 DEF ReadRow, LinkAuthor, MergeBook, ReadMedia, CopyCover, staging, catalogue
    <3>2. ASSUME NEW r, Written(f, r)' PROVE Written(f, r)
      <4>1. CASE CopyCover(f)
        BY <2>1, <3>2, <4>1 DEF CopyCover, Goto, Written
      <4>2. CASE MergeBook(f)
        BY <2>1, <3>2, <4>2 DEF MergeBook, Goto, Written, Shapes, OperationShape
      <4>3. CASE ReadRow(f) \/ LinkAuthor(f)
        BY <3>2, <4>3 DEF ReadRow, LinkAuthor, Goto, Written, PromotionTypeOK
      <4>4. CASE ReadMedia(f)
        BY <2>1, <3>2, <4>4 DEF ReadMedia, Goto, Written
      <4> QED BY <2>6, <4>1, <4>2, <4>3, <4>4
    <3> QED BY <2>1, <2>2, <2>3, <3>1, <3>2 DEF MadeOnce
  <2> QED BY <1>3, <2>4, <2>5, <2>6 DEF Advance
<1> QED BY <1>1, <1>2, <1>3 DEF PromotionStep

LEMMA StepNamed ==
  ASSUME PromotionInv, PromotionStep
  PROVE  Named'
<1> USE DEF PromotionInv
<1>1. ASSUME NEW selected, NEW by, Approval(selected, by) PROVE Named'
  <2>1. authors' = authors /\ crossed' = crossed /\ born' = born
    BY <1>1 DEF Approval, Approve, catalogue
  <2> QED BY <1>1, <2>1, ApprovalRuns DEF Named
<1>2. CASE Meanwhile
  <2>1. authors' = authors /\ crossed' = crossed /\ born' = born
    BY <1>2 DEF Meanwhile, Reject, CrawlAgain, PutCover, RecordCover, Sell, Abort, catalogue, operation, marks
  <2> QED BY <1>2, <2>1, MeanwhileRuns DEF Named
<1>3. ASSUME NEW f \in Firing, Advance(f) PROVE Named'
  <2>1. crossed \subseteq crossed' /\ \A g \in Firing : g # f => born'[g] = born[g]
        /\ (Running(g)' => Running(g))
    BY <1>3, AdvanceRuns DEF Running
  <2>2. born[f] \subseteq born'[f]
    <3>1. CASE LinkAuthor(f)
      BY <3>1 DEF LinkAuthor, PromotionTypeOK
    <3>2. CASE born' = born
      BY <3>2
    <3> QED BY <1>3, <3>1, <3>2 DEF Advance, ReadRow, InsertBook, MergeBook, ReadMedia, CopyCover, Commit
  <2>3. \A n \in Name : authors[n] > 1 => \E g \in Firing : n \in born'[g] /\ g \in crossed'
    BY <2>1, <2>2 DEF Named
  <2>4. CASE Commit(f)
    <3>1. Running(f) /\ ~Running(f)' /\ born' = born /\ crossed' = crossed
      BY <2>4 DEF Commit, Goto, Running, marks, PromotionTypeOK
    <3>2. \A n \in Name :
            /\ authors'[n] > 1 => authors[n] > 1 \/ (n \in born[f] /\ authors[n] > 0)
            /\ authors'[n] > 0 => authors[n] > 0 \/ n \in born[f]
      <4>1. authors \in [Name -> Nat]
        BY DEF PromotionTypeOK
      <4>2. authors' = [n \in Name |-> authors[n] + (IF n \in born[f] THEN 1 ELSE 0)]
        BY <2>4 DEF Commit
      <4> QED BY ONLY <4>1, <4>2
    <3>3. \A n \in Name : n \in born[f] /\ authors[n] > 0 => f \in crossed
      BY <3>1 DEF Named
    <3>4. \A g \in Firing : Running(g)' => g \in crossed \/ ~Running(g)
      BY <2>1, <3>1 DEF Together
    <3>5. \A n \in Name : authors'[n] > 1 => \E g \in Firing : n \in born'[g] /\ g \in crossed'
      BY <2>3, <3>1, <3>2, <3>3
    <3>6. \A g \in Firing : Running(g)' => g \in crossed'
      BY <2>1, <3>1, <3>4
    <3> QED BY <3>5, <3>6 DEF Named
  <2>5. CASE LinkAuthor(f)
    <3>1. authors' = authors /\ crossed' = crossed /\ Running(f)
      BY <2>5 DEF LinkAuthor, Goto, Running, catalogue, marks
    <3>2. \A n \in born'[f] : n \in born[f] \/ authors[n] = 0
      BY <2>5 DEF LinkAuthor, PromotionTypeOK
    <3> QED BY <2>1, <2>3, <3>1, <3>2 DEF Named
  <2>6. CASE ReadRow(f)
    <3>1. authors' = authors /\ born' = born /\ born[f] = {}
      BY <2>6 DEF ReadRow, Goto, catalogue, Shapes, OperationShape
    <3> QED BY <2>1, <2>3, <3>1 DEF Named
  <2>7. CASE InsertBook(f) \/ MergeBook(f) \/ ReadMedia(f) \/ CopyCover(f)
    <3>1. authors' = authors /\ born' = born /\ Running(f)
      BY <2>7 DEF InsertBook, MergeBook, ReadMedia, CopyCover, Goto, Running, catalogue
    <3> QED BY <2>1, <2>3, <3>1 DEF Named
  <2> QED BY <1>3, <2>4, <2>5, <2>6, <2>7 DEF Advance
<1> QED BY <1>1, <1>2, <1>3 DEF PromotionStep

-----------------------------------------------------------------------------
(* Covers and stock *)

LEMMA StepRecorded ==
  ASSUME PromotionInv, PromotionStep
  PROVE  Recorded'
<1> USE DEF PromotionInv
<1>1. CASE UNCHANGED <<toRecord, object, described>> /\ interrupted \subseteq interrupted'
  BY <1>1 DEF Recorded
<1>2. ASSUME NEW r \in Row, NEW n \in Nat, PutCover(r, n) PROVE Recorded'
  <2>1. toRecord' = toRecord \union {<<r, n>>} /\ described' = described /\ object'[r] = n
        /\ (\A q \in Row \ {r} : object'[q] = object[q]) /\ interrupted \subseteq interrupted'
    BY <1>2 DEF PutCover, PromotionTypeOK
  <2>2. r \in interrupted' \/ \A u \in toRecord : u[1] # r
    BY <1>2 DEF PutCover
  <2>3. \A u \in toRecord' : u = <<r, n>> \/ u \in toRecord
    BY <2>1
  <2>4. ASSUME NEW q \in Row \ interrupted', NEW u \in toRecord', u[1] = q PROVE object'[q] = u[2]
    <3>1. CASE u = <<r, n>>
      BY <2>1, <2>4, <3>1
    <3>2. CASE u \in toRecord
      BY <2>1, <2>2, <2>4, <3>2 DEF Recorded
    <3> QED BY <2>3, <3>1, <3>2
  <2>5. ASSUME NEW q \in Row \ interrupted', \A u \in toRecord' : u[1] # q PROVE object'[q] = described'[q]
    <3>1. <<r, n>> \in toRecord' /\ <<r, n>>[1] = r
      BY <2>1
    <3>2. q # r
      BY <2>5, <3>1
    <3> QED BY <2>1, <2>5, <3>2 DEF Recorded
  <2> QED BY <2>4, <2>5 DEF Recorded
<1>3. ASSUME NEW r \in Row, NEW n \in Nat, RecordCover(r, n) PROVE Recorded'
  <2>1. toRecord' = toRecord \ {<<r, n>>} /\ <<r, n>> \in toRecord /\ object' = object
        /\ described'[r] = n /\ (\A q \in Row \ {r} : described'[q] = described[q])
        /\ interrupted' = interrupted
    BY <1>3 DEF RecordCover, PromotionTypeOK
  <2>2. r \in interrupted \/ object[r] = n
    <3>1. <<r, n>>[1] = r /\ <<r, n>>[2] = n
      OBVIOUS
    <3> QED BY <2>1, <3>1 DEF Recorded
  <2>3. ASSUME NEW q \in Row \ interrupted, NEW u \in toRecord', u[1] = q PROVE object'[q] = u[2]
    BY <2>1, <2>3 DEF Recorded
  <2>4. ASSUME NEW q \in Row \ interrupted, q # r, \A u \in toRecord' : u[1] # q
        PROVE  object'[q] = described'[q]
    <3>1. ASSUME NEW u \in toRecord PROVE u[1] # q
      <4>1. u \in toRecord' \/ u = <<r, n>>
        BY <2>1
      <4> QED BY <2>4, <4>1
    <3> QED BY <2>1, <2>4, <3>1 DEF Recorded
  <2> QED BY <2>1, <2>2, <2>3, <2>4 DEF Recorded
<1>4. ASSUME NEW u \in toPut, PutCover(u[1], u[2]) PROVE Recorded'
  <2>1. u[1] \in Row /\ u[2] \in Nat
    BY DEF PromotionTypeOK, Submission
  <2> QED BY <1>2, <1>4, <2>1
<1>5. ASSUME NEW u \in toRecord, RecordCover(u[1], u[2]) PROVE Recorded'
  <2>1. u[1] \in Row /\ u[2] \in Nat
    BY DEF PromotionTypeOK, Submission
  <2> QED BY <1>3, <1>5, <2>1
<1>6. ASSUME NEW selected, NEW by, Approval(selected, by) PROVE Recorded'
  BY <1>1, <1>6 DEF Approval, Approve, uploads
<1>7. CASE Meanwhile
  BY <1>1, <1>4, <1>5, <1>7 DEF Meanwhile, Reject, CrawlAgain, Sell, Abort, uploads
<1>8. ASSUME NEW f \in Firing, Advance(f) PROVE Recorded'
  BY <1>1, <1>8 DEF Advance, ReadRow, LinkAuthor, InsertBook, MergeBook, ReadMedia, CopyCover, Commit, uploads
<1> QED BY <1>6, <1>7, <1>8 DEF PromotionStep

\* Between the two looks of an operation nothing replaces the object, or the
\* row is noted.
LEMMA ObjectStays ==
  ASSUME PromotionInv, Meanwhile, NEW f \in Firing, step[f] = "copy"
  PROVE  row[f] \in interrupted' \/ object'[row[f]] = object[row[f]]
<1> USE DEF PromotionInv
<1>1. row[f] \in Row
  BY Rows DEF Shapes
<1>2. ASSUME NEW u \in toPut, PutCover(u[1], u[2])
      PROVE  row[f] \in interrupted' \/ object'[row[f]] = object[row[f]]
  BY <1>1, <1>2 DEF PutCover, PromotionTypeOK
<1> QED BY <1>2 DEF Meanwhile, Reject, CrawlAgain, RecordCover, Sell, Abort, uploads

LEMMA StepCovered ==
  ASSUME PromotionInv, PromotionStep
  PROVE  Covered'
<1> USE DEF PromotionInv
<1>1. ASSUME NEW selected, NEW by, Approval(selected, by) PROVE Covered'
  <2>1. cover' = cover /\ media' = media /\ on' = on /\ failed' = failed /\ found' = found
        /\ interrupted' = interrupted /\ object' = object
    BY <1>1 DEF Approval, Approve, catalogue, uploads
  <2>2. \A f \in Firing : /\ step'[f] \in {"copy", "write"} <=> step[f] \in {"copy", "write"}
                          /\ step[f] # "idle" => step'[f] = step[f] /\ row'[f] = row[f]
    BY <1>1 DEF Approval, Approve, PromotionTypeOK
  <2>3. \A f \in Firing : on[f] # None => step[f] # "idle"
    BY DEF Shapes, OperationShape
  <2>4. \A b \in Book : b # None
    BY PromotionAssumption
  <2> QED BY <2>1, <2>2, <2>3, <2>4 DEF Covered
<1>2. CASE Meanwhile
  <2>1. cover' = cover /\ media' = media /\ on' = on /\ row' = row /\ found' = found
        /\ interrupted \subseteq interrupted' /\ failed \subseteq failed'
    BY <1>2 DEF Meanwhile, Reject, CrawlAgain, PutCover, RecordCover, Sell, Abort, catalogue, operation,
       uploads, marks
  <2>2. \A f \in Firing : /\ step'[f] = "write" => step[f] = "write"
                          /\ step'[f] = "copy" => step[f] = "copy"
                          /\ step[f] = "write" => step'[f] = "write" \/ f \in failed'
    BY <1>2 DEF Meanwhile, Reject, CrawlAgain, PutCover, RecordCover, Sell, Abort, operation, marks, PromotionTypeOK
  <2>3. \A f \in Firing : step'[f] = "copy" =>
          found'[f] # 0 /\ (row'[f] \in interrupted' \/ found'[f] = object'[row'[f]])
    BY <1>2, <2>1, <2>2, ObjectStays DEF Covered
  <2>4. \A f \in Firing : step'[f] = "write" /\ found'[f] # 0 =>
          row'[f] \in interrupted' \/ cover'[on'[f]] = <<row'[f], found'[f]>>
    BY <2>1, <2>2 DEF Covered
  <2>5. ASSUME NEW b \in Book, cover'[b] # media'[b]
        PROVE  \E f \in Firing : on'[f] = b /\ (f \in failed' \/ row'[f] \in interrupted'
                                                \/ (step'[f] = "write" /\ found'[f] # 0))
    <3>1. PICK f \in Firing : on[f] = b /\ (f \in failed \/ row[f] \in interrupted
                                            \/ (step[f] = "write" /\ found[f] # 0))
      BY <2>1, <2>5 DEF Covered
    <3> QED BY <2>1, <2>2, <3>1
  <2> QED BY <2>3, <2>4, <2>5 DEF Covered
<1>3. ASSUME NEW f \in Firing, Advance(f) PROVE Covered'
  <2> DEFINE Behind(g, b) ==
        on[g] = b /\ (g \in failed \/ row[g] \in interrupted \/ (step[g] = "write" /\ found[g] # 0))
  <2>1. row' = row /\ object' = object
        /\ \A g \in Firing : g # f => step'[g] = step[g] /\ found'[g] = found[g] /\ on'[g] = on[g]
    BY <1>3, AdvanceRuns DEF Advance, ReadRow, LinkAuthor, InsertBook, MergeBook, ReadMedia, CopyCover,
       Commit, uploads
  <2>2. OperationShape(f) /\ f \notin failed
    BY <1>3 DEF Shapes, OperationShape, Advance, ReadRow, LinkAuthor, InsertBook, MergeBook, ReadMedia,
       CopyCover, Commit, Goto
  <2>3. failed \subseteq failed' /\ interrupted \subseteq interrupted'
    BY <1>3 DEF Advance, ReadRow, LinkAuthor, InsertBook, MergeBook, ReadMedia, CopyCover, Commit, marks, uploads
  <2>4. \A g \in Firing : \A b : g # f /\ Behind(g, b) => Behind(g, b)'
    BY <2>1, <2>3
  <2>5. \A b \in Book : cover[b] # media[b] => \E g \in Firing : Behind(g, b)
    BY DEF Covered
  <2>6. None \notin Book
    BY PromotionAssumption
  <2>11. \A g \in Firing \ {f} : step'[g] = "copy" =>
           found'[g] # 0 /\ (row'[g] \in interrupted' \/ found'[g] = object'[row'[g]])
    BY <2>1, <2>3 DEF Covered
  <2>7. CASE /\ UNCHANGED <<cover, media>> /\ step[f] # "write"
             /\ on[f] = None \/ on'[f] = on[f]
             /\ step'[f] # "copy" /\ (step'[f] = "write" => found'[f] = 0)
    <3>1. \A b \in Book : Behind(f, b) => Behind(f, b)'
      BY <2>1, <2>2, <2>3, <2>6, <2>7
    <3>2. \A b \in Book : cover'[b] # media'[b] => \E g \in Firing : Behind(g, b)'
      BY <2>4, <2>5, <2>7, <3>1
    <3>3. \A g \in Firing : step'[g] = "write" /\ found'[g] # 0 =>
            row'[g] \in interrupted' \/ cover'[on'[g]] = <<row'[g], found'[g]>>
      BY <2>1, <2>3, <2>7 DEF Covered
    <3> QED BY <2>7, <2>11, <3>2, <3>3 DEF Covered
  <2>8. CASE CopyCover(f)
    <3>1. step[f] = "copy" /\ step'[f] = "write" /\ on' = on /\ found' = found /\ media' = media
          /\ failed' = failed /\ found[f] # 0
      BY <2>8 DEF CopyCover, Goto, catalogue, marks, PromotionTypeOK, Covered
    <3>2. Running(f) /\ on[f] \in Book
      <4>1. Match[row[f]] \in Existing \union {None}
        BY <2>2, <3>1, Rows
      <4> QED BY <2>2, <3>1, <4>1 DEF Running, OperationShape, Book
    <3>3. \A b \in Book \ {on[f]} : cover'[b] = cover[b]
      BY <2>8 DEF CopyCover, PromotionTypeOK
    <3>4. cover'[on[f]] = <<row[f], object[row[f]]>>
      BY <2>8, <3>2 DEF CopyCover, PromotionTypeOK
    <3>5. row[f] \in interrupted \/ found[f] = object[row[f]]
      BY <3>1 DEF Covered
    <3>6. ASSUME NEW g \in Firing, g # f, step[g] = "write" PROVE on[g] \in Book /\ on[g] # on[f]
      <4>1. OperationShape(g) /\ Match[row[g]] \in Existing \union {None}
        BY <3>6, Rows DEF Shapes
      <4>2. on[g] \in Book /\ Running(g)
        BY <3>6, <4>1 DEF Running, OperationShape, Book
      <4> QED BY <2>6, <3>2, <3>6, <4>2 DEF Exclusive
    <3>7. ASSUME NEW g \in Firing, step'[g] = "write", found'[g] # 0
          PROVE  row'[g] \in interrupted' \/ cover'[on'[g]] = <<row'[g], found'[g]>>
      <4>1. CASE g = f
        BY <2>1, <2>3, <3>1, <3>4, <3>5, <4>1
      <4>2. CASE g # f
        BY <2>1, <2>3, <3>1, <3>3, <3>6, <3>7, <4>2 DEF Covered
      <4> QED BY <4>1, <4>2
    <3>8. ASSUME NEW b \in Book, cover'[b] # media'[b] PROVE \E g \in Firing : Behind(g, b)'
      <4>1. CASE b = on[f]
        BY <2>1, <3>1, <4>1
      <4>2. CASE b # on[f]
        <5>1. cover[b] # media[b] /\ ~Behind(f, b)
          BY <3>1, <3>3, <3>8, <4>2
        <5> QED BY <2>4, <2>5, <5>1
      <4> QED BY <4>1, <4>2
    <3> QED BY <2>11, <3>1, <3>7, <3>8 DEF Covered
  <2>9. CASE Commit(f)
    <3>1. step[f] = "write" /\ step'[f] = "done" /\ on' = on /\ found' = found /\ cover' = cover
      BY <2>9 DEF Commit, Goto, PromotionTypeOK
    <3>2. on[f] \in Book
      <4>1. Match[row[f]] \in Existing \union {None}
        BY <2>2, <3>1, Rows
      <4> QED BY <2>2, <3>1, <4>1 DEF OperationShape, Book
    <3>3. \A b \in Book \ {on[f]} : media'[b] = media[b]
      BY <2>9 DEF Commit, DescribeCover, PromotionTypeOK
    <3>4. found[f] # 0 => media'[on[f]] = cover'[on[f]] \/ row[f] \in interrupted
      <4>1. found[f] # 0 => row[f] \in interrupted \/ cover[on[f]] = <<row[f], found[f]>>
        BY <3>1 DEF Covered
      <4> QED BY <2>9, <3>1, <3>2, <4>1 DEF Commit, DescribeCover, PromotionTypeOK
    <3>5. found[f] = 0 => media' = media
      BY <2>9 DEF Commit, DescribeCover
    <3>6. ASSUME NEW b \in Book, cover'[b] # media'[b] PROVE \E g \in Firing : Behind(g, b)'
      <4>1. CASE b = on[f] /\ row[f] \in interrupted
        BY <2>1, <2>3, <3>1, <4>1
      <4>2. CASE ~(b = on[f] /\ row[f] \in interrupted)
        <5>1. cover[b] # media[b] /\ ~Behind(f, b)
          BY <2>2, <3>1, <3>3, <3>4, <3>5, <3>6, <4>2
        <5> QED BY <2>4, <2>5, <5>1
      <4> QED BY <4>1, <4>2
    <3>7. \A g \in Firing : step'[g] = "write" /\ found'[g] # 0 =>
            row'[g] \in interrupted' \/ cover'[on'[g]] = <<row'[g], found'[g]>>
      BY <2>1, <2>3, <3>1 DEF Covered
    <3> QED BY <2>11, <3>1, <3>6, <3>7 DEF Covered
  <2>10. CASE ReadRow(f) \/ LinkAuthor(f) \/ InsertBook(f) \/ MergeBook(f)
    <3>1. /\ UNCHANGED <<cover, media>> /\ step[f] # "write"
          /\ step'[f] # "copy" /\ step'[f] # "write"
      BY <2>10 DEF ReadRow, LinkAuthor, InsertBook, MergeBook, Goto, catalogue, PromotionTypeOK
    <3>2. on[f] = None
      BY <2>2, <2>10 DEF ReadRow, LinkAuthor, InsertBook, MergeBook, Goto, OperationShape
    <3> QED BY <2>7, <3>1, <3>2
  <2>12. CASE ReadMedia(f)
    <3>1. /\ UNCHANGED <<cover, media, on>> /\ step[f] = "media" /\ found'[f] = described[row[f]]
          /\ step'[f] = IF described[row[f]] = 0 THEN "write" ELSE "copy"
      BY <2>12 DEF ReadMedia, Goto, catalogue, PromotionTypeOK
    <3>2. CASE described[row[f]] = 0
      BY <2>7, <3>1, <3>2
    <3>3. CASE described[row[f]] # 0
      <4>1. row[f] \in Row
        BY <2>2, <3>1, Rows
      <4>2. row[f] \in interrupted' \/ object[row[f]] = described[row[f]]
        <5>1. row[f] \in interrupted' \/ \A u \in toRecord : u[1] # row[f]
          BY <2>12 DEF ReadMedia
        <5> QED BY <2>3, <4>1, <5>1 DEF Recorded
      <4>3. \A g \in Firing : step'[g] = "copy" =>
              found'[g] # 0 /\ (row'[g] \in interrupted' \/ found'[g] = object'[row'[g]])
        BY <2>1, <2>11, <3>1, <3>3, <4>2
      <4>4. \A g \in Firing : step'[g] = "write" /\ found'[g] # 0 =>
              row'[g] \in interrupted' \/ cover'[on'[g]] = <<row'[g], found'[g]>>
        BY <2>1, <2>3, <3>1, <3>3 DEF Covered
      <4>5. \A b \in Book : Behind(f, b) => Behind(f, b)'
        BY <2>1, <2>2, <2>3, <3>1
      <4>6. \A b \in Book : cover'[b] # media'[b] => \E g \in Firing : Behind(g, b)'
        BY <2>4, <2>5, <3>1, <4>5
      <4> QED BY <4>3, <4>4, <4>6 DEF Covered
    <3> QED BY <3>2, <3>3
  <2> QED BY <1>3, <2>8, <2>9, <2>10, <2>12 DEF Advance
<1> QED BY <1>1, <1>2, <1>3 DEF PromotionStep

\* A book's part of StockFollowsCrawl, by the row whose stock it has.
StockFits(b) ==
  IF stockedBy[b] = None
  THEN stock[b] = IF sales[b] < MaxStock THEN MaxStock - sales[b] ELSE 0
  ELSE \/ stock[b] = left[stockedBy[b]] \/ stockedBy[b] \in late \/ stockedBy[b] \in caught
       \/ Crossed({f \in Firing : row[f] = stockedBy[b]})

LEMMA StockedFits ==
  Stocked <=> /\ \A r \in Row : ListedFits(r)
              /\ \A f \in Firing : SeenFits(f)
              /\ \A b \in Existing : StockedRow(b) /\ StockFits(b)
BY DEF Stocked, StockFits, StockFollowsCrawl

LEMMA StockedFitsNext ==
  ASSUME \A r \in Row : ListedFits(r)', \A f \in Firing : SeenFits(f)',
         \A b \in Existing : StockedRow(b)' /\ StockFits(b)'
  PROVE  Stocked'
BY DEF Stocked, StockFits, StockFollowsCrawl

\* Several rows may match one book.
LEMMA Matches ==
  /\ \A r \in Row : Match[r] \in Existing \union {None}
  /\ None \notin Book /\ None \notin Existing /\ None \notin Row /\ Existing \intersect Firing = {}
BY PromotionAssumption DEF Book

LEMMA StockRow ==
  ASSUME PromotionInv, NEW b \in Existing, stockedBy[b] # None
  PROVE  stockedBy[b] \in Row /\ promoted[stockedBy[b]] # None /\ Match[stockedBy[b]] = b
<1>1. StockedRow(b)
  BY DEF PromotionInv, Stocked
<1> QED BY <1>1 DEF PromotionInv, PromotionTypeOK, StockedRow

\* A step that leaves the shop alone, and the rows of operations that crossed.
LEMMA StockStays ==
  ASSUME PromotionInv, UNCHANGED <<promoted, listed, left, late, stock, stockedBy, sales>>,
         caught \subseteq caught', crossed \subseteq crossed',
         \A f \in crossed : row'[f] = row[f],
         \A f \in Firing : SeenFits(f)'
  PROVE  Stocked'
<1> USE DEF PromotionInv
<1>1. ASSUME NEW r \in Row PROVE ListedFits(r)'
  BY StockedFits DEF ListedFits
<1>2. ASSUME NEW b \in Existing PROVE StockedRow(b)'
  BY StockedFits DEF StockedRow
<1>3. ASSUME NEW b \in Existing PROVE StockFits(b)'
  <2>1. StockFits(b)
    BY StockedFits
  <2>2. Crossed({f \in Firing : row[f] = stockedBy[b]}) => Crossed({f \in Firing : row[f] = stockedBy[b]})'
    BY DEF Crossed
  <2> QED BY <2>1, <2>2 DEF StockFits
<1> QED BY <1>1, <1>2, <1>3, StockedFitsNext

LEMMA ApprovalStocked ==
  ASSUME PromotionInv, NEW selected, NEW by, Approval(selected, by)
  PROVE  Stocked'
<1> USE DEF PromotionInv
<1>1. UNCHANGED <<promoted, listed, left, late, seen, caught, crossed, stock, stockedBy, sales>>
  BY DEF Approval, Approve, catalogue, shop
<1>2. ASSUME NEW f \in Firing PROVE SeenFits(f)'
  BY <1>1, <1>2, ApprovalRuns, StockedFits DEF SeenFits
<1>3. \A f \in crossed : row'[f] = row[f]
  BY DEF Approval, Approve, Together, PromotionTypeOK
<1> QED BY <1>1, <1>2, <1>3, StockStays

LEMMA MeanwhileStocked ==
  ASSUME PromotionInv, Meanwhile
  PROVE  Stocked'
<1> USE DEF PromotionInv
<1>0. /\ \A r \in Row : ListedFits(r)
      /\ \A f \in Firing : SeenFits(f)
      /\ \A b \in Existing : StockedRow(b) /\ StockFits(b)
  BY StockedFits
<1>1. /\ promoted' = promoted /\ seen' = seen /\ row' = row /\ crossed' = crossed
      /\ stockedBy' = stockedBy /\ caught \subseteq caught'
      /\ \A f \in Firing : Running(f)' => Running(f)
  <2>1. promoted' = promoted /\ seen' = seen /\ row' = row /\ crossed' = crossed /\ stockedBy' = stockedBy
    BY DEF Meanwhile, Reject, CrawlAgain, PutCover, RecordCover, Sell, Abort, staging, operation, marks, shop
  <2>2. caught \subseteq caught'
    BY DEF Meanwhile, Reject, CrawlAgain, PutCover, RecordCover, Sell, Abort, marks
  <2> QED BY <2>1, <2>2, MeanwhileRuns
<1>2. CASE UNCHANGED <<listed, left, late, stock, sales>>
  <2>1. ASSUME NEW f \in Firing PROVE SeenFits(f)'
    BY <1>0, <1>1, <1>2 DEF SeenFits
  <2> QED BY <1>1, <1>2, <2>1, StockStays
<1>5. ASSUME NEW b \in Existing PROVE StockedRow(b)'
  BY <1>0, <1>1 DEF StockedRow
<1>3. ASSUME NEW q \in Row, NEW n \in Listing, CrawlAgain(q, n) PROVE Stocked'
  <2>1. /\ status[q] \in {"open", "rejected"} /\ stock' = stock /\ sales' = sales /\ late' = late \ {q}
        /\ listed'[q] = n /\ (\A r \in Row \ {q} : listed'[r] = listed[r] /\ left'[r] = left[r])
        /\ (n # None => left'[q] = n)
    BY <1>3 DEF CrawlAgain, catalogue, PromotionTypeOK
  <2>2. promoted[q] = None
    BY <2>1 DEF Promoted
  <2>3. ASSUME NEW r \in Row PROVE ListedFits(r)'
    BY <1>0, <1>1, <2>1 DEF ListedFits
  <2>4. ASSUME NEW f \in Firing PROVE SeenFits(f)'
    <3>1. SUFFICES ASSUME Running(f), seen[f] # None
                   PROVE  seen[f] = left'[row[f]] \/ row[f] \in late' \/ row[f] \in caught' \/ f \in crossed'
      BY <1>1 DEF SeenFits
    <3>2. row[f] \in Row
      BY <3>1, Rows DEF Running, Shapes
    <3>3. CASE row[f] = q
      BY <1>1, <2>1, <3>1, <3>3 DEF Judged
    <3>4. CASE row[f] # q
      BY <1>0, <1>1, <2>1, <3>1, <3>2, <3>4 DEF SeenFits
    <3> QED BY <3>3, <3>4
  <2>5. ASSUME NEW b \in Existing PROVE StockFits(b)'
    <3>1. StockFits(b)
      BY <1>0
    <3>2. CASE stockedBy[b] = None
      BY <1>1, <2>1, <3>1, <3>2 DEF StockFits
    <3>3. CASE stockedBy[b] # None
      <4>1. stockedBy[b] \in Row /\ stockedBy[b] # q
        BY <2>2, <3>3, StockRow
      <4>2. left'[stockedBy[b]] = left[stockedBy[b]] /\ (stockedBy[b] \in late => stockedBy[b] \in late')
        BY <2>1, <4>1
      <4> QED BY <1>1, <2>1, <3>1, <3>3, <4>2 DEF StockFits, Crossed
    <3> QED BY <3>2, <3>3
  <2> QED BY <1>5, <2>3, <2>4, <2>5, StockedFitsNext
<1>4. ASSUME NEW b \in Existing, Sell(b) PROVE Stocked'
  <2>1. /\ listed' = listed /\ late \subseteq late'
        /\ \A r \in Row : Match[r] = b /\ promoted[r] = None => r \in late'
    BY <1>4 DEF Sell, staging
  <2>2. \A r \in Row : left'[r] = IF Match[r] = b THEN Less(left[r]) ELSE left[r]
    BY <1>4 DEF Sell
  <2>3. \A c \in Existing \ {b} : stock'[c] = stock[c] /\ sales'[c] = sales[c]
    BY <1>4 DEF Sell, PromotionTypeOK, Book
  <2>4. stock'[b] = Less(stock[b]) /\ sales'[b] = sales[b] + 1
    BY <1>4 DEF Sell, PromotionTypeOK, Book
  <2>5. ASSUME NEW r \in Row PROVE ListedFits(r)'
    BY <1>0, <1>1, <2>1, <2>2 DEF ListedFits
  <2>6. ASSUME NEW f \in Firing PROVE SeenFits(f)'
    <3>1. SUFFICES ASSUME Running(f), seen[f] # None
                   PROVE  seen[f] = left'[row[f]] \/ row[f] \in late' \/ row[f] \in caught' \/ f \in crossed'
      BY <1>1 DEF SeenFits
    <3>2. row[f] \in Row
      BY <3>1, Rows DEF Running, Shapes
    <3>3. CASE Match[row[f]] = b
      BY <1>1, <2>1, <3>1, <3>2, <3>3 DEF Judged
    <3>4. CASE Match[row[f]] # b
      BY <1>0, <1>1, <2>1, <2>2, <3>1, <3>2, <3>4 DEF SeenFits
    <3> QED BY <3>3, <3>4
  <2>7. ASSUME NEW c \in Existing PROVE StockFits(c)'
    <3>1. StockFits(c)
      BY <1>0
    <3>2. CASE stockedBy[c] = None
      <4>1. CASE c = b
        <5>1. sales[b] \in Nat /\ MaxStock \in Nat
          <6>1. MaxSales \in Nat /\ MaxStock \in Nat /\ sales \in [Existing -> 0..MaxSales]
            BY PromotionAssumption DEF PromotionTypeOK
          <6> QED BY ONLY <6>1, b \in Existing
        <5>2. stock[b] = IF sales[b] < MaxStock THEN MaxStock - sales[b] ELSE 0
          BY <3>1, <3>2, <4>1 DEF StockFits
        <5>3. stock'[b] = IF sales'[b] < MaxStock THEN MaxStock - sales'[b] ELSE 0
          BY ONLY <2>4, <5>1, <5>2 DEF Less
        <5> QED BY <1>1, <3>2, <4>1, <5>3 DEF StockFits
      <4>2. CASE c # b
        BY <1>1, <2>3, <3>1, <3>2, <4>2 DEF StockFits
      <4> QED BY <4>1, <4>2
    <3>3. CASE stockedBy[c] # None
      <4>1. stockedBy[c] \in Row /\ Match[stockedBy[c]] = c
        BY <3>3, StockRow
      <4>2. stock[c] = left[stockedBy[c]] => stock'[c] = left'[stockedBy[c]]
        BY <2>2, <2>3, <2>4, <4>1
      <4> QED BY <1>1, <2>1, <3>1, <3>3, <4>2 DEF StockFits, Crossed
    <3> QED BY <3>2, <3>3
  <2> QED BY <1>5, <2>5, <2>6, <2>7, StockedFitsNext
<1> QED BY <1>2, <1>3, <1>4 DEF Meanwhile, Reject, PutCover, RecordCover, Abort, staging, catalogue, shop

LEMMA AdvanceStocked ==
  ASSUME PromotionInv, NEW f \in Firing, Advance(f)
  PROVE  Stocked'
<1> USE DEF PromotionInv
<1>0. /\ \A r \in Row : ListedFits(r)
      /\ \A g \in Firing : SeenFits(g)
      /\ \A b \in Existing : StockedRow(b) /\ StockFits(b)
  BY StockedFits
<1>1. /\ row' = row /\ crossed \subseteq crossed' /\ caught' = caught
      /\ \A g \in Firing \ {f} : (Running(g)' <=> Running(g)) /\ seen'[g] = seen[g]
  BY AdvanceRuns DEF Running
<1>2. left' = left /\ late' = late /\ listed' = listed /\ sales' = sales
  BY DEF Advance, ReadRow, LinkAuthor, InsertBook, MergeBook, ReadMedia, CopyCover, Commit, staging, shop
<1>3. ASSUME NEW g \in Firing, ~(g = f /\ ReadRow(f)) PROVE SeenFits(g)'
  <2>1. seen'[g] = seen[g] /\ (Running(g)' => Running(g))
    BY <1>1, <1>3, AdvanceRuns
  <2> QED BY <1>0, <1>1, <1>2, <2>1 DEF SeenFits
<1>4. ASSUME ReadRow(f) PROVE SeenFits(f)'
  <2>1. SUFFICES ASSUME Running(f)', seen'[f] # None
                 PROVE  seen'[f] = left[row[f]] \/ row[f] \in late
    BY <1>1, <1>2 DEF SeenFits
  <2>2. step[f] = "fired" /\ MayPromote(row[f]) /\ seen'[f] = listed[row[f]]
    BY <1>4, <2>1, ReadRowRuns
  <2>3. promoted[row[f]] = None /\ row[f] \in Row
    BY <2>2, Rows DEF MayPromote, Shapes
  <2> QED BY <1>0, <2>1, <2>2, <2>3 DEF ListedFits
<1>5. CASE UNCHANGED <<promoted, stock, stockedBy>>
  <2>1. \A g \in Firing : SeenFits(g)'
    BY <1>3, <1>4
  <2> QED BY <1>1, <1>2, <1>5, <2>1, StockStays
<1>6. CASE Commit(f)
  <2>1. /\ step[f] = "write" /\ row[f] \in Row /\ Running(f)
        /\ on[f] = (IF Match[row[f]] = None THEN f ELSE Match[row[f]])
    BY <1>6, Rows DEF Commit, Goto, Shapes, OperationShape, Running
  <2>8. on[f] \in Book /\ (on[f] \in Existing => on[f] = Match[row[f]]) /\ on[f] # None
    BY <2>1, Matches DEF Book
  <2>2. /\ promoted'[row[f]] = on[f] /\ \A r \in Row \ {row[f]} : promoted'[r] = promoted[r]
        /\ \A b \in Book \ {on[f]} : stock'[b] = stock[b]
        /\ stock'[on[f]] = IF seen[f] = None THEN stock[on[f]] ELSE seen[f]
    BY <1>6, <2>1, <2>8 DEF Commit, PromoteInventory, PromotionTypeOK
  <2>9. \A b \in Existing :
          stockedBy'[b] = IF b = on[f] /\ seen[f] # None THEN row[f] ELSE stockedBy[b]
    BY <1>6 DEF Commit
  <2>3. ASSUME NEW r \in Row PROVE ListedFits(r)'
    <3>1. promoted'[r] = None => promoted[r] = None
      BY <2>2, <2>8
    <3> QED BY <1>0, <1>2, <3>1 DEF ListedFits
  <2>4. ASSUME NEW b \in Existing, b = on[f], seen[f] # None PROVE StockedRow(b)' /\ StockFits(b)'
    <3>1. stockedBy'[b] = row[f] /\ stock'[b] = seen[f] /\ row[f] # None
      BY <2>1, <2>2, <2>4, <2>9, Matches
    <3>2. StockedRow(b)'
      BY <2>2, <2>4, <2>8, <3>1 DEF StockedRow
    <3>3. seen[f] = left[row[f]] \/ row[f] \in late \/ row[f] \in caught \/ f \in crossed
      BY <1>0, <2>1, <2>4 DEF SeenFits
    <3> QED BY <1>1, <1>2, <3>1, <3>2, <3>3 DEF StockFits, Crossed
  <2>5. ASSUME NEW b \in Existing, ~(b = on[f] /\ seen[f] # None) PROVE StockedRow(b)' /\ StockFits(b)'
    <3>1. stockedBy'[b] = stockedBy[b]
      BY <2>5, <2>9
    <3>4. stock'[b] = stock[b]
      BY <2>2, <2>5 DEF Book
    <3>2. StockedRow(b)'
      <4>1. stockedBy[b] # None => promoted'[stockedBy[b]] # None
        BY <2>2, <2>8, StockRow
      <4> QED BY <1>0, <3>1, <4>1 DEF StockedRow
    <3>3. StockFits(b)
      BY <1>0
    <3> QED BY <1>1, <1>2, <3>1, <3>2, <3>3, <3>4 DEF StockFits, Crossed
  <2>6. ~ReadRow(f)
    BY <2>1 DEF ReadRow, Goto
  <2>7. \A g \in Firing : SeenFits(g)'
    BY <1>3, <2>6
  <2> QED BY <2>3, <2>4, <2>5, <2>7, StockedFitsNext
<1> QED BY <1>5, <1>6 DEF Advance, ReadRow, LinkAuthor, InsertBook, MergeBook, ReadMedia, CopyCover, staging, catalogue, shop

-----------------------------------------------------------------------------
(* The theorems *)

LEMMA InitPromotionInv == PromotionInit => PromotionInv
<1> SUFFICES ASSUME PromotionInit PROVE PromotionInv
  OBVIOUS
<1>1. PromotionTypeOK
  BY InitTypes
<1>2. \A f \in Firing : step[f] = "idle" /\ ~Running(f) /\ on[f] = None /\ born[f] = {} /\ source[f] = None
  BY DEF PromotionInit, Running
<1>3. Shapes /\ Judged /\ Together /\ Exclusive /\ MadeOnce
  BY <1>2 DEF PromotionInit, Shapes, OperationShape, Judged, Together, Exclusive, MadeOnce, Written
<1>4. Promoted
  BY Matches DEF PromotionInit, Promoted
<1>5. Named /\ Recorded /\ Covered
  BY <1>2 DEF PromotionInit, Named, Recorded, Covered
<1>6. Stocked
  <2>1. MaxStock \in Nat
    BY PromotionAssumption
  <2>2. \A b \in Existing : stock[b] = MaxStock /\ sales[b] = 0 /\ stockedBy[b] = None
    BY DEF PromotionInit, Book
  <2>3. StockFollowsCrawl
    BY <2>1, <2>2 DEF StockFollowsCrawl
  <2>4. \A r \in Row : ListedFits(r)
    BY DEF PromotionInit, ListedFits
  <2> QED BY <1>2, <2>2, <2>3, <2>4 DEF Stocked, SeenFits, StockedRow
<1> QED BY <1>1, <1>3, <1>4, <1>5, <1>6 DEF PromotionInv

LEMMA PromotionMoves ==
  ASSUME PromotionInv, PromotionStep
  PROVE  PromotionInv'
<1> USE DEF PromotionInv
<1>1. PromotionTypeOK' /\ Shapes'
  BY ApprovalTypes, MeanwhileTypes, AdvanceTypes, ApprovalShapes, MeanwhileShapes, AdvanceShapes
     DEF PromotionStep
<1>2. Stocked'
  BY ApprovalStocked, MeanwhileStocked, AdvanceStocked DEF PromotionStep
<1> QED BY <1>1, <1>2, StepPromoted, StepJudged, StepTogether, StepExclusive, StepMade, StepNamed,
        StepRecorded, StepCovered

LEMMA SequenceOfOne == ASSUME NEW r \in Row PROVE <<r>> # <<>> /\ <<r>> \in Seq(Row)
OBVIOUS

LEMMA EditorialMoves ==
  ASSUME [EditorialNext]_vars
  PROVE  PromotionStep \/ UNCHANGED promotionVars
<1>1. CASE UNCHANGED vars \/ SetUp
  BY <1>1 DEF SetUp, vars
<1>2. ASSUME NEW r \in Row, ApproveButton(r) PROVE PromotionStep
  <2>1. PICK by \in kSubset(Cardinality(Flows(PromotionFlow)), Firing) : Approve(<<r>>, by)
    BY <1>2 DEF ApproveButton
  <2>2. Approval(<<r>>, by)
    BY <2>1, SequenceOfOne DEF Approval, kSubset
  <2> QED BY <2>2 DEF PromotionStep
<1>3. ASSUME NEW selected \in Selection, ApproveSelected(selected) PROVE PromotionStep
  <2>1. PICK by \in kSubset(Cardinality(Flows(PromotionFlow)), Firing) : Approve(selected, by)
    BY <1>3 DEF ApproveSelected
  <2>2. Approval(selected, by)
    BY <2>1, PromotionAssumption DEF Approval, kSubset
  <2> QED BY <2>2 DEF PromotionStep
<1> QED BY <1>1, <1>2, <1>3 DEF EditorialNext, PromotionStep

LEMMA PromotionStutters ==
  ASSUME PromotionInv, UNCHANGED promotionVars
  PROVE  PromotionInv'
<1>1. PromotionTypeOK'
  BY DEF PromotionInv, PromotionTypeOK, promotionVars, staging, uploads, catalogue, operation, shop, marks
<1>2. Shapes' /\ Promoted' /\ Judged' /\ Together' /\ Exclusive'
  BY DEF PromotionInv, Shapes, OperationShape, Promoted, Judged, Together, Exclusive, Running,
     promotionVars, staging, uploads, catalogue, operation, shop, marks
<1>3. MadeOnce' /\ Named' /\ Recorded' /\ Covered'
  BY DEF PromotionInv, MadeOnce, Written, Named, Recorded, Covered, Running,
     promotionVars, staging, uploads, catalogue, operation, shop, marks
<1>4. Stocked'
  BY DEF PromotionInv, Stocked, ListedFits, SeenFits, StockedRow, StockFollowsCrawl, Crossed, Running,
     promotionVars, staging, uploads, catalogue, operation, shop, marks
<1> QED BY <1>1, <1>2, <1>3, <1>4 DEF PromotionInv

\* What operations, rows, books, names, covers and stock keep holds in every
\* reachable state, whatever the script of bootstrap.ts has left.
THEOREM PromotionInvariant == EditorialSpec => []PromotionInv
<1>1. EditorialInit => PromotionInv
  BY InitPromotionInv DEF EditorialInit
<1>2. PromotionInv /\ [EditorialNext]_vars => PromotionInv'
  BY EditorialMoves, PromotionMoves, PromotionStutters
<1> QED BY <1>1, <1>2, PTL DEF EditorialSpec

\* Rows, books and operations have their types; crawls, sales and failures stay
\* within their bounds.
THEOREM PromotionTypes == EditorialSpec => []PromotionTypeOK
<1>1. PromotionInv => PromotionTypeOK
  BY DEF PromotionInv
<1> QED BY <1>1, PromotionInvariant, PTL

LEMMA TwoOf ==
  ASSUME NEW S, Cardinality(S) > 1
  PROVE  \E s, q \in S : s # q
<1> SUFFICES ASSUME \A s, q \in S : s = q PROVE FALSE
  OBVIOUS
<1>1. CASE S = {}
  BY <1>1, FS_EmptySet
<1>2. CASE S # {}
  <2>1. PICK s \in S : S = {s}
    BY <1>2
  <2>2. Cardinality(S) = 1
    BY <2>1, FS_Singleton
  <2> QED BY <2>2
<1> QED BY <1>1, <1>2

\* A row becomes one book and a name one author, unless operations that ran at
\* once read the same (promoteStagingBook, linkAuthors); not even then with an
\* ISBN.
THEOREM CreatedOnceHolds == EditorialSpec => []CreatedOnce
<1>1. ASSUME PromotionInv PROVE CreatedOnce
  <2>1. ASSUME NEW r \in Row, Cardinality({f \in Firing : source[f] = r}) > 1
        PROVE  Crossed({f \in Firing : source[f] = r}) /\ r \notin HasIsbn
    <3>1. PICK f, g \in {h \in Firing : source[h] = r} : f # g
      BY <2>1, TwoOf
    <3>2. r # None
      BY PromotionAssumption
    <3> QED BY <1>1, <3>1, <3>2 DEF PromotionInv, MadeOnce, Crossed
  <2>2. ASSUME NEW n \in Name, authors[n] > 1 PROVE Crossed({f \in Firing : n \in born[f]})
    BY <1>1, <2>2 DEF PromotionInv, Named, Crossed
  <2> QED BY <2>1, <2>2 DEF CreatedOnce
<1>2. PromotionInv => CreatedOnce
  BY <1>1
<1> QED BY <1>2, PromotionInvariant, PTL

\* promoteMedia: the row and the object differ only between the two, behind a
\* failure, or where a crawl's cover came between the row it read and the copy.
THEOREM CoverMatchesRowHolds == EditorialSpec => []CoverMatchesRow
<1>1. PromotionInv => CoverMatchesRow
  BY DEF PromotionInv, Covered, CoverMatchesRow
<1> QED BY <1>1, PromotionInvariant, PTL

\* promoteInventory writes what the publisher has left by the row that it has
\* promoted last with a price, except over a sale, beside another operation or
\* behind a rejection; without a price it writes nothing.
THEOREM StockFollowsCrawlHolds == EditorialSpec => []StockFollowsCrawl
<1>1. PromotionInv => StockFollowsCrawl
  BY DEF PromotionInv, Stocked
<1> QED BY <1>1, PromotionInvariant, PTL

\* A rejected row is promoted only by an operation that had read it before.
THEOREM RejectionStandsHolds == EditorialSpec => RejectionStands
<1> DEFINE Stands == \A r \in Row : status[r] = "rejected" /\ status'[r] = "promoted" => r \in caught
<1>1. ASSUME PromotionInv, PromotionStep PROVE Stands
  <2>1. ASSUME NEW f \in Firing, Commit(f) PROVE Stands
    <3>1. Running(f) /\ \A r \in Row : r # row[f] => status'[r] = status[r]
      BY <1>1, <2>1 DEF Commit, Goto, Running, PromotionInv, PromotionTypeOK
    <3> QED BY <1>1, <3>1 DEF PromotionInv, Judged
  <2>2. ASSUME NEW selected, NEW by, Approval(selected, by) PROVE Stands
    BY <1>1, <2>2 DEF Approval, Approve
  <2>3. CASE Meanwhile
    BY <1>1, <2>3 DEF Meanwhile, Reject, CrawlAgain, PutCover, RecordCover, Sell, Abort, staging, PromotionInv, PromotionTypeOK
  <2>4. CASE status' = status
    BY <2>4
  <2> QED BY <1>1, <2>1, <2>2, <2>3, <2>4
          DEF PromotionStep, Advance, ReadRow, LinkAuthor, InsertBook, MergeBook, ReadMedia, CopyCover, staging
<1>2. UNCHANGED promotionVars => Stands
  BY DEF promotionVars, staging
<1>3. PromotionInv /\ [EditorialNext]_vars => [Stands]_promotionVars
  BY <1>1, <1>2, EditorialMoves
<1>4. []PromotionInv /\ [][EditorialNext]_vars => [][Stands]_promotionVars
  BY <1>3, PTL
<1> QED BY <1>4, PromotionInvariant, PTL DEF EditorialSpec, RejectionStands
=============================================================================
