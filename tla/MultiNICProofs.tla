---------------------------- MODULE MultiNICProofs ----------------------------
(***************************************************************************)
(* Proofs about MultiNIC for every number of cards, bridges and changes of *)
(* cards.                                                                  *)
(*                                                                         *)
(* IInv says that, while the cards do not change, the table of a card the  *)
(* script has set up is its rank among the cards with an address           *)
(* (TablesOwn), as everything before it in the list was counted            *)
(* (CountedSoFar): so a card in work never gets the table of another.      *)
(***************************************************************************)
EXTENDS MultiNIC, FiniteSetTheorems, WellFoundedInduction, TLAPS

\* A set of cards is finite; one more or one fewer card is one.
LEMMA CountCards ==
  ASSUME NEW S \in SUBSET Cards
  PROVE  /\ IsFiniteSet(S) /\ Cardinality(S) \in 0 .. N
         /\ \A i \in Cards \ S : Cardinality(S \cup {i}) = Cardinality(S) + 1
         /\ \A i \in S : Cardinality(S \ {i}) = Cardinality(S) - 1
         /\ S # {} => Cardinality(S) >= 1
<1>1. IsFiniteSet(Cards) /\ Cardinality(Cards) = N
  <2>1. 1 \in Int /\ N \in Int /\ (IF 1 > N THEN 0 ELSE N - 1 + 1) = N
    BY MultiNICAssumption
  <2> QED
    BY <2>1, FS_Interval DEF Cards
<1>2. IsFiniteSet(S) /\ Cardinality(S) <= N
  BY <1>1, FS_Subset
<1>3. Cardinality(S) \in Nat
  BY <1>2, FS_CardinalityType
<1>4. \A i \in Cards \ S : Cardinality(S \cup {i}) = Cardinality(S) + 1
  BY <1>2, FS_AddElement
<1>5. \A i \in S : Cardinality(S \ {i}) = Cardinality(S) - 1
  BY <1>2, FS_RemoveElement
<1>6. S # {} => Cardinality(S) # 0
  BY <1>2, FS_EmptySet
<1> QED
  BY <1>2, <1>3, <1>4, <1>5, <1>6, MultiNICAssumption

\* The loop works on the first card that is left.
LEMMA HereIsFirst ==
  ASSUME todo \in SUBSET Cards, todo # {}
  PROVE  Here \in todo /\ Here \in Cards /\ \A j \in todo : Here <= j
<1> DEFINE Less == {p \in Nat \X Nat : p[1] < p[2]}
<1>1. IsWellFoundedOn(Less, Nat)
  BY NatLessThanWellFounded, Zenon DEF OpToRel
<1>2. todo \subseteq Nat
  BY MultiNICAssumption DEF Cards
<1>3. PICK i \in todo : \A j \in todo : ~(<<j, i>> \in Less)
  <2> HIDE DEF Less
  <2> QED
    BY <1>1, <1>2, WFMin
<1>4. ASSUME NEW j \in todo PROVE i <= j
  <2>1. i \in Nat /\ j \in Nat
    BY <1>2
  <2>2. j < i => <<j, i>> \in Less
    BY <2>1
  <2> QED
    BY <1>3, <2>1, <2>2
<1> QED
  BY <1>4 DEF Here

\* Ranks are numbers of tables, and those of two cards with addresses differ.
LEMMA RanksDiffer ==
  ASSUME addressed \in SUBSET Cards
  PROVE  /\ \A i \in Cards : Rank(i) \in 0 .. N
         /\ \A i, k \in addressed : i # k => Rank(i) # Rank(k)
<1>1. \A i \in Cards : Below(i) \in SUBSET Cards
  BY DEF Below
<1>2. \A i \in Cards : Rank(i) \in 0 .. N
  BY <1>1, CountCards DEF Rank
<1>3. ASSUME NEW i \in addressed, NEW k \in addressed, i < k PROVE Rank(i) < Rank(k)
  <2>1. /\ i \in Nat /\ k \in Nat /\ i \in Cards /\ k \in Cards
        /\ \A j \in addressed : j \in Nat
    BY MultiNICAssumption DEF Cards
  <2>2. k \in Below(k) /\ k \notin Below(i)
    BY <1>3, <2>1 DEF Below
  <2>3. Below(i) \in SUBSET (Below(k) \ {k})
    <3>1. \A j \in addressed : j <= i => j <= k /\ j # k
      BY <1>3, <2>1
    <3> QED
      BY <3>1 DEF Below
  <2>4. /\ IsFiniteSet(Below(k) \ {k}) /\ Cardinality(Below(k) \ {k}) = Cardinality(Below(k)) - 1
        /\ Cardinality(Below(k)) \in 0 .. N /\ Cardinality(Below(i)) \in 0 .. N
    <3>1. Below(k) \ {k} \in SUBSET Cards
      BY <1>1, <2>1
    <3> QED
      BY <1>1, <2>1, <2>2, <3>1, CountCards
  <2>5. Cardinality(Below(i)) <= Cardinality(Below(k) \ {k})
    BY <2>3, <2>4, FS_Subset
  <2> QED
    BY <2>4, <2>5, MultiNICAssumption DEF Rank
<1>4. \A i, k \in addressed : i # k => i < k \/ k < i
  BY MultiNICAssumption DEF Cards
<1> QED
  BY <1>2, <1>3, <1>4, MultiNICAssumption DEF Cards

\* The card in work has the table of its rank, which no rule leads to yet.
LEMMA OwnTable ==
  ASSUME IInv, ~changed, InWork
  PROVE  /\ count = Rank(Here) /\ Here \in addressed
         /\ \A i \in Cards : rule[i] # count
<1> USE MultiNICAssumption DEF Cards, Tables, OtherTable
<1>1. TypeOK /\ Place /\ CountedSoFar /\ TablesOwn
  BY DEF IInv
<1>2. /\ pc # "off" /\ todo \in SUBSET Cards /\ todo # {} /\ addressed \in SUBSET Cards
      /\ addressed \subseteq attached /\ count \in 1 .. N
  BY <1>1 DEF TypeOK, Place, InWork
<1>3. Here \in todo /\ Here \in Cards /\ \A j \in todo : Here <= j
  BY <1>2, HereIsFirst
<1>4. /\ todo \subseteq attached /\ \A i \in attached \ todo : \A j \in todo : i < j
      /\ count = Cardinality((addressed \ todo) \cup {Here})
      /\ Here \in addressed /\ rule[Here] \in {None, OtherTable(Here)}
  BY <1>1, <1>2 DEF CountedSoFar
<1>5. Below(Here) = (addressed \ todo) \cup {Here}
  <2>1. ASSUME NEW j \in addressed, j <= Here PROVE j \notin todo \/ j = Here
    BY <1>2, <1>3, <2>1
  <2>2. ASSUME NEW j \in addressed, j \notin todo PROVE j <= Here
    BY <1>2, <1>3, <1>4, <2>2
  <2>3. Here <= Here
    BY <1>3
  <2> QED
    BY <1>3, <1>4, <2>1, <2>2, <2>3 DEF Below
<1>6. count = Rank(Here)
  BY <1>4, <1>5 DEF Rank
<1>7. ASSUME NEW i \in Cards, rule[i] # None PROVE rule[i] # count
  <2>1. CASE i = Here
    BY <1>2, <1>4, <1>7, <2>1
  <2>2. CASE i # Here /\ rule[i] = OtherTable(i)
    BY <1>2, <2>2
  <2>3. CASE i # Here /\ rule[i] # OtherTable(i)
    <3>1. i \in addressed /\ rule[i] = Rank(i)
      BY <1>1, <1>7, <2>3 DEF TablesOwn
    <3> QED
      BY <1>2, <1>4, <1>6, <2>3, <3>1, RanksDiffer
  <2> QED
    BY <2>1, <2>2, <2>3
<1>8. None # count
  BY <1>2
<1> QED
  BY <1>4, <1>6, <1>7, <1>8

\* The invariant holds before the first step.
LEMMA InitEstablishesIInv == Init => IInv
<1> SUFFICES ASSUME Init PROVE IInv
  OBVIOUS
<1> USE MultiNICAssumption
<1>1. TypeOK
  <2>1. 0 \in 0 .. MaxPlugs /\ 0 \in 0 .. N
    OBVIOUS
  <2>2. /\ rule \in [Cards -> Tables \cup {None}] /\ net \in [Tables -> Cards \cup {None}]
        /\ via \in [Tables -> Cards \cup {None}]
    BY DEF Init, NoRules, NoRoutes
  <2> QED
    BY <2>1, <2>2 DEF Init, TypeOK
<1>2. Cardinality({}) = 0
  BY FS_EmptySet
<1>3. Place
  BY <1>2 DEF Init, Place, InWork
<1>4. CountedSoFar /\ TablesOwn /\ AllSetUp
  BY DEF Init, CountedSoFar, TablesOwn, AllSetUp, InWork, NoRules, Cards
<1> QED
  BY <1>1, <1>3, <1>4 DEF IInv

\* Every step keeps the invariant.
LEMMA NextKeepsIInv == IInv /\ [Next]_vars => IInv'
<1> SUFFICES ASSUME IInv, [Next]_vars PROVE IInv'
  OBVIOUS
<1> USE MultiNICAssumption DEF Cards, Tables, OtherTable, host, routing, script, history
<1>1. TypeOK /\ Place /\ CountedSoFar /\ TablesOwn /\ AllSetUp
  BY DEF IInv
<1>2. TypeOK' /\ Place' /\ CountedSoFar' /\ TablesOwn' /\ AllSetUp' => IInv'
  BY DEF IInv
<1>3. /\ todo \in SUBSET Cards /\ addressed \in SUBSET Cards /\ attached \in SUBSET Cards
      /\ addressed \subseteq attached
  BY <1>1 DEF TypeOK
<1>4. todo # {} => Here \in todo /\ Here \in Cards /\ \A j \in todo : Here <= j
  BY <1>3, HereIsFirst
<1>5. ~changed /\ InWork => /\ count = Rank(Here) /\ Here \in addressed
                            /\ \A i \in Cards : rule[i] # count
  BY OwnTable
\* What does not change addresses changes no rank, and what keeps the list keeps Here.
<1>6. addressed' = addressed => \A i \in Cards : Rank(i)' = Rank(i)
  BY DEF Rank, Below
<1>7. todo' = todo => Here' = Here
  BY DEF Here
<1>8. /\ Cardinality(todo) \in 0 .. N /\ (todo # {} => Cardinality(todo) >= 1)
      /\ todo # {} => Cardinality(todo \ {Here}) = Cardinality(todo) - 1
  BY <1>3, <1>4, CountCards
<1>9. Cardinality({}) = 0
  BY FS_EmptySet
\* What leaves the list is behind all that stays there.
<1>10. todo # {} => \A j \in todo \ {Here} : Here < j
  BY <1>3, <1>4
<1>11. ~changed /\ pc = "visit" => count = Cardinality(addressed \ todo)
  <2>1. (addressed \ todo) \cup {} = addressed \ todo
    OBVIOUS
  <2> QED
    BY <1>1, <2>1 DEF CountedSoFar, InWork
<1>12. CASE Begin
  <2>1. /\ Cardinality(attached) \in 0 .. N /\ attached \ attached = {}
        /\ addressed \ attached = {} /\ {} \cup {} = {}
    BY <1>3, CountCards
  <2>2. TypeOK'
    BY <1>1, <1>3, <1>4, <1>12 DEF Begin, TypeOK, Place, InWork
  <2>3. Place'
    BY <1>1, <2>1, <1>12 DEF Begin, Place, InWork
  <2>4. CountedSoFar'
    BY <1>1, <1>3, <1>9, <2>1, <1>12 DEF Begin, CountedSoFar, InWork
  <2>5. TablesOwn'
    BY <1>1, <1>3, <1>4, <1>5, <1>6, <1>7, <1>12
      DEF Begin, TypeOK, Place, InWork, CountedSoFar, TablesOwn
  <2>6. AllSetUp'
    BY <1>1, <1>3, <1>4, <1>12
      DEF Begin, TypeOK, Place, InWork, CountedSoFar, TablesOwn, AllSetUp
  <2> QED
    BY <1>2, <2>2, <2>3, <2>4, <2>5, <2>6
<1>13. CASE Skip
  <2>1. addressed \ (todo \ {Here}) = addressed \ todo
    BY <1>1, <1>3, <1>4, <1>13 DEF Skip
  <2>2. /\ pc = "visit" /\ ~InWork'
        /\ ~changed => count = Cardinality((addressed \ (todo \ {Here})) \cup {})
    BY <1>11, <2>1, <1>13 DEF Skip, InWork
  <2>3. TypeOK'
    BY <1>1, <1>3, <1>4, <1>13 DEF Skip, TypeOK, Place, InWork
  <2>4. Place'
    BY <1>1, <1>3, <1>4, <1>8, <1>13 DEF Skip, TypeOK, Place, InWork, AllSetUp
  <2>5. CountedSoFar'
    <3>1. ~changed => \A i \in attached \ todo' :
            i \in addressed \cup skipped' /\ \A j \in todo' : i < j
      BY <1>1, <1>4, <1>10, <2>2, <1>13 DEF Skip, CountedSoFar
    <3>2. ~changed => \A i \in addressed \ todo' : rule[i] # None
      BY <1>1, <2>1, <2>2, <1>13 DEF Skip, CountedSoFar
    <3> QED
      BY <1>1, <2>2, <3>1, <3>2, <1>13 DEF Skip, CountedSoFar
  <2>6. TablesOwn'
    BY <1>1, <1>3, <1>4, <1>5, <1>6, <1>7, <1>13
      DEF Skip, TypeOK, Place, InWork, CountedSoFar, TablesOwn
  <2>7. AllSetUp'
    BY <1>1, <1>3, <1>4, <1>13
      DEF Skip, TypeOK, Place, InWork, CountedSoFar, TablesOwn, AllSetUp
  <2> QED
    BY <1>2, <2>3, <2>4, <2>5, <2>6, <2>7
<1>14. CASE Keep
  <2>1. /\ Here \in Cards \ (addressed \ todo) /\ addressed \ todo \in SUBSET Cards
        /\ addressed \ (todo \ {Here}) = (addressed \ todo) \cup {Here}
    BY <1>1, <1>3, <1>4, <1>14 DEF Keep
  <2>2. Cardinality((addressed \ todo) \cup {Here}) = Cardinality(addressed \ todo) + 1
    BY <2>1, CountCards
  <2>3. /\ pc = "visit" /\ ~InWork'
        /\ ~changed => count' = Cardinality((addressed \ (todo \ {Here})) \cup {})
    BY <1>11, <2>1, <2>2, <1>14 DEF Keep, InWork
  <2>4. TypeOK'
    BY <1>1, <1>3, <1>4, <1>14, <1>8 DEF Keep, TypeOK, Place, InWork
  <2>5. Place'
    BY <1>1, <1>3, <1>4, <1>8, <1>14 DEF Keep, TypeOK, Place, InWork, AllSetUp
  <2>6. CountedSoFar'
    <3>1. ~changed => \A i \in attached \ todo' :
            i \in addressed \cup skipped /\ \A j \in todo' : i < j
      BY <1>1, <1>4, <1>10, <2>3, <1>14 DEF Keep, CountedSoFar
    <3>2. ~changed => \A i \in addressed \ todo' : rule[i] # None
      BY <1>1, <2>1, <2>3, <1>14 DEF Keep, CountedSoFar
    <3> QED
      BY <1>1, <2>3, <3>1, <3>2, <1>14 DEF Keep, CountedSoFar
  <2>7. TablesOwn'
    BY <1>1, <1>3, <1>4, <1>5, <1>6, <1>7, <1>14
      DEF Keep, TypeOK, Place, InWork, CountedSoFar, TablesOwn
  <2>8. AllSetUp'
    BY <1>1, <1>3, <1>4, <1>14
      DEF Keep, TypeOK, Place, InWork, CountedSoFar, TablesOwn, AllSetUp
  <2> QED
    BY <1>2, <2>4, <2>5, <2>6, <2>7, <2>8
<1>15. CASE Configure
  <2>1. /\ Here \in Cards \ (addressed \ todo) /\ addressed \ todo \in SUBSET Cards
    BY <1>1, <1>3, <1>4, <1>15 DEF Configure
  <2>2. Cardinality((addressed \ todo) \cup {Here}) = Cardinality(addressed \ todo) + 1
    BY <2>1, CountCards
  <2>3. /\ pc = "visit" /\ InWork' /\ Here' = Here
        /\ ~changed => count' = Cardinality((addressed \ todo) \cup {Here})
    BY <1>7, <1>11, <2>2, <1>15 DEF Configure, InWork
  <2>4. TypeOK'
    BY <1>1, <1>3, <1>4, <1>15, <1>8 DEF Configure, TypeOK, Place, InWork
  <2>5. Place'
    BY <1>1, <1>3, <1>4, <1>8, <1>15 DEF Configure, TypeOK, Place, InWork, AllSetUp
  <2>6. CountedSoFar'
    BY <1>1, <2>3, <1>15 DEF Configure, CountedSoFar
  <2>7. TablesOwn'
    BY <1>1, <1>3, <1>4, <1>5, <1>6, <1>7, <1>15
      DEF Configure, TypeOK, Place, InWork, CountedSoFar, TablesOwn
  <2>8. AllSetUp'
    BY <1>1, <1>3, <1>4, <1>15
      DEF Configure, TypeOK, Place, InWork, CountedSoFar, TablesOwn, AllSetUp
  <2> QED
    BY <1>2, <2>4, <2>5, <2>6, <2>7, <2>8
<1>16. CASE Flush
  <2>1. ~changed => \A i \in Cards : rule[i] # None =>
           /\ rule[i] \in Tables /\ rule[i] # count
           /\ net'[rule[i]] = net[rule[i]] /\ via'[rule[i]] = via[rule[i]]
    BY <1>1, <1>5, <1>16 DEF Flush, TypeOK, InWork
  <2>2. TypeOK'
    BY <1>1, <1>3, <1>4, <1>16 DEF Flush, TypeOK, Place, InWork
  <2>3. Place'
    BY <1>1, <1>3, <1>4, <1>8, <1>16 DEF Flush, TypeOK, Place, InWork, AllSetUp
  <2>4. CountedSoFar'
    BY <1>1, <1>3, <1>4, <1>7, <1>16 DEF Flush, TypeOK, Place, InWork, CountedSoFar, TablesOwn
  <2>5. TablesOwn'
    BY <1>1, <1>6, <1>7, <2>1, <1>16 DEF Flush, TablesOwn
  <2>6. AllSetUp'
    BY <1>1, <1>3, <1>4, <1>16
      DEF Flush, TypeOK, Place, InWork, CountedSoFar, TablesOwn, AllSetUp
  <2> QED
    BY <1>2, <2>2, <2>3, <2>4, <2>5, <2>6
<1>17. CASE AddNet
  <2>1. ~changed => \A i \in Cards : rule[i] # None =>
           /\ rule[i] \in Tables /\ rule[i] # count
           /\ net'[rule[i]] = net[rule[i]] /\ via'[rule[i]] = via[rule[i]]
    BY <1>1, <1>5, <1>17 DEF AddNet, TypeOK, InWork
  <2>2. net'[count] = Here
    BY <1>1, <1>17 DEF AddNet, TypeOK, Place, InWork
  <2>3. TypeOK'
    BY <1>1, <1>3, <1>4, <1>17 DEF AddNet, TypeOK, Place, InWork
  <2>4. Place'
    BY <1>1, <1>3, <1>4, <1>8, <1>17 DEF AddNet, TypeOK, Place, InWork, AllSetUp
  <2>5. CountedSoFar'
    BY <1>1, <1>3, <1>4, <1>7, <1>17 DEF AddNet, TypeOK, Place, InWork, CountedSoFar, TablesOwn
  <2>6. TablesOwn'
    BY <1>1, <1>6, <1>7, <2>1, <2>2, <1>17 DEF AddNet, TablesOwn
  <2>7. AllSetUp'
    BY <1>1, <1>3, <1>4, <1>17
      DEF AddNet, TypeOK, Place, InWork, CountedSoFar, TablesOwn, AllSetUp
  <2> QED
    BY <1>2, <2>3, <2>4, <2>5, <2>6, <2>7
<1>18. CASE AddDefault
  <2>1. ~changed => \A i \in Cards : rule[i] # None =>
           /\ rule[i] \in Tables /\ rule[i] # count
           /\ net'[rule[i]] = net[rule[i]] /\ via'[rule[i]] = via[rule[i]]
    BY <1>1, <1>5, <1>18 DEF AddDefault, TypeOK, InWork
  <2>2. via'[count] = Here
    BY <1>1, <1>18 DEF AddDefault, TypeOK, Place, InWork
  <2>3. TypeOK'
    BY <1>1, <1>3, <1>4, <1>18 DEF AddDefault, TypeOK, Place, InWork
  <2>4. Place'
    BY <1>1, <1>3, <1>4, <1>8, <1>18 DEF AddDefault, TypeOK, Place, InWork, AllSetUp
  <2>5. CountedSoFar'
    BY <1>1, <1>3, <1>4, <1>7, <1>18
      DEF AddDefault, TypeOK, Place, InWork, CountedSoFar, TablesOwn
  <2>6. TablesOwn'
    BY <1>1, <1>6, <1>7, <2>1, <2>2, <1>18 DEF AddDefault, TablesOwn
  <2>7. AllSetUp'
    BY <1>1, <1>3, <1>4, <1>18
      DEF AddDefault, TypeOK, Place, InWork, CountedSoFar, TablesOwn, AllSetUp
  <2> QED
    BY <1>2, <2>3, <2>4, <2>5, <2>6, <2>7
<1>19. CASE AddRule
  <2>1. /\ count \in 1 .. N /\ todo # {} /\ pc # "off" /\ InWork /\ ~InWork' /\ count \in Tables
    BY <1>1, <1>19 DEF AddRule, Place, InWork
  <2>2. addressed \ (todo \ {Here}) = (addressed \ todo) \cup ({Here} \cap addressed)
    BY <1>1, <1>3, <1>4, <1>19, <2>1
  <2>3. ~changed => count = Cardinality((addressed \ (todo \ {Here})) \cup {})
    BY <1>1, <1>5, <2>1, <2>2 DEF CountedSoFar
  <2>4. TypeOK'
    BY <1>1, <1>3, <1>4, <1>19, <2>1 DEF AddRule, TypeOK
  <2>5. Place'
    BY <1>1, <1>3, <1>4, <1>8, <1>19 DEF AddRule, TypeOK, Place, InWork, AllSetUp
  <2>6. CountedSoFar'
    <3>1. ~changed => \A i \in attached \ todo' :
            i \in addressed \cup skipped /\ \A j \in todo' : i < j
      BY <1>1, <1>4, <1>5, <1>10, <2>1, <1>19 DEF AddRule, CountedSoFar
    <3>2. ~changed => \A i \in addressed \ todo' : rule'[i] # None
      BY <1>1, <1>3, <1>4, <2>1, <2>2, <1>19 DEF AddRule, TypeOK, CountedSoFar
    <3> QED
      BY <1>1, <2>1, <2>3, <3>1, <3>2, <1>19 DEF AddRule, CountedSoFar
  <2>7. TablesOwn'
    BY <1>1, <1>3, <1>4, <1>5, <1>6, <1>7, <1>19
      DEF AddRule, TypeOK, Place, InWork, CountedSoFar, TablesOwn
  <2>8. AllSetUp'
    BY <1>1, <1>3, <1>4, <1>19
      DEF AddRule, TypeOK, Place, InWork, CountedSoFar, TablesOwn, AllSetUp
  <2> QED
    BY <1>2, <2>4, <2>5, <2>6, <2>7, <2>8
<1>20. CASE Finish
  <2>1. TypeOK'
    BY <1>1, <1>3, <1>4, <1>20 DEF Finish, TypeOK, Place, InWork
  <2>2. Place'
    BY <1>1, <1>3, <1>4, <1>8, <1>20 DEF Finish, TypeOK, Place, InWork, AllSetUp
  <2>3. CountedSoFar'
    BY <1>1, <1>3, <1>4, <1>7, <1>20 DEF Finish, TypeOK, Place, InWork, CountedSoFar, TablesOwn
  <2>4. TablesOwn'
    BY <1>1, <1>3, <1>4, <1>5, <1>6, <1>7, <1>20
      DEF Finish, TypeOK, Place, InWork, CountedSoFar, TablesOwn
  <2>5. AllSetUp'
    BY <1>1, <1>3, <1>4, <1>20
      DEF Finish, TypeOK, Place, InWork, CountedSoFar, TablesOwn, AllSetUp
  <2> QED
    BY <1>2, <2>1, <2>2, <2>3, <2>4, <2>5
<1>21. CASE Die
  <2>1. TypeOK'
    BY <1>1, <1>3, <1>4, <1>21 DEF Die, TypeOK, Place, InWork
  <2>2. Place'
    BY <1>1, <1>9, <1>21 DEF Die, Place, InWork
  <2>3. CountedSoFar'
    BY <1>1, <1>3, <1>4, <1>7, <1>21 DEF Die, TypeOK, Place, InWork, CountedSoFar, TablesOwn
  <2>4. TablesOwn'
    BY <1>1, <1>3, <1>4, <1>5, <1>6, <1>7, <1>21
      DEF Die, TypeOK, Place, InWork, CountedSoFar, TablesOwn
  <2>5. AllSetUp'
    BY <1>1, <1>3, <1>4, <1>21 DEF Die, TypeOK, Place, InWork, CountedSoFar, TablesOwn, AllSetUp
  <2> QED
    BY <1>2, <2>1, <2>2, <2>3, <2>4, <2>5
<1>22. ASSUME NEW i \in Cards, Attach(i) PROVE IInv'
  <2>1. TypeOK'
    BY <1>1, <1>3, <1>4, <1>22 DEF Attach, TypeOK, Place, InWork
  <2>2. Place'
    BY <1>1, <1>3, <1>4, <1>8, <1>22 DEF Attach, TypeOK, Place, InWork, AllSetUp
  <2>3. CountedSoFar'
    BY <1>1, <1>3, <1>4, <1>7, <1>22 DEF Attach, TypeOK, Place, InWork, CountedSoFar, TablesOwn
  <2>4. TablesOwn'
    BY <1>1, <1>3, <1>4, <1>5, <1>6, <1>7, <1>22
      DEF Attach, TypeOK, Place, InWork, CountedSoFar, TablesOwn
  <2>5. AllSetUp'
    BY <1>1, <1>3, <1>4, <1>22
      DEF Attach, TypeOK, Place, InWork, CountedSoFar, TablesOwn, AllSetUp
  <2> QED
    BY <1>2, <2>1, <2>2, <2>3, <2>4, <2>5
<1>23. ASSUME NEW i \in Cards, Detach(i) PROVE IInv'
  <2>1. TypeOK'
    BY <1>1, <1>3, <1>4, <1>23 DEF Detach, TypeOK, Place, InWork
  <2>2. Place'
    BY <1>1, <1>3, <1>4, <1>8, <1>23 DEF Detach, TypeOK, Place, InWork, AllSetUp
  <2>3. CountedSoFar'
    BY <1>1, <1>3, <1>4, <1>7, <1>23 DEF Detach, TypeOK, Place, InWork, CountedSoFar, TablesOwn
  <2>4. TablesOwn'
    BY <1>1, <1>3, <1>4, <1>5, <1>6, <1>7, <1>23
      DEF Detach, TypeOK, Place, InWork, CountedSoFar, TablesOwn
  <2>5. AllSetUp'
    BY <1>1, <1>3, <1>4, <1>23
      DEF Detach, TypeOK, Place, InWork, CountedSoFar, TablesOwn, AllSetUp
  <2> QED
    BY <1>2, <2>1, <2>2, <2>3, <2>4, <2>5
<1>24. ASSUME NEW i \in Cards, GetAddress(i) PROVE IInv'
  <2>1. ~changed' =>
          ~changed /\ ~complete /\ i \notin skipped /\ i \in attached /\ i \notin addressed
    BY <1>24 DEF GetAddress
  <2>2. ~changed' /\ pc # "off" => i \in todo /\ addressed' \ todo = addressed \ todo
    BY <1>1, <1>3, <2>1, <1>24 DEF GetAddress, CountedSoFar
  <2>3. ~changed' => \A k \in Cards :
          rule[k] # None /\ rule[k] # OtherTable(k) => Rank(k)' = Rank(k)
    <3>1. ASSUME ~changed', NEW k \in Cards, rule[k] # None, rule[k] # OtherTable(k)
          PROVE  Below(k)' = Below(k)
      <4>1. ~(i < k) /\ i # k
        BY <1>1, <2>1, <3>1 DEF TablesOwn
      <4>2. ~(i <= k)
        BY <4>1
      <4> QED
        BY <4>2, <1>24 DEF GetAddress, Below
    <3> QED
      BY <3>1 DEF Rank
  <2>4. TypeOK'
    BY <1>1, <1>3, <1>4, <1>24 DEF GetAddress, TypeOK, Place, InWork
  <2>5. Place'
    BY <1>1, <1>3, <1>4, <1>8, <1>24 DEF GetAddress, TypeOK, Place, InWork, AllSetUp
  <2>6. CountedSoFar'
    <3>1. todo' = todo /\ Here' = Here /\ (InWork' <=> InWork)
      BY <1>7, <1>24 DEF GetAddress, InWork
    <3> QED
      BY <1>1, <2>1, <2>2, <3>1, <1>24 DEF GetAddress, CountedSoFar
  <2>7. TablesOwn'
    BY <1>1, <1>7, <2>1, <2>3, <1>24 DEF GetAddress, TablesOwn
  <2>8. AllSetUp'
    BY <1>1, <1>3, <1>4, <1>24
      DEF GetAddress, TypeOK, Place, InWork, CountedSoFar, TablesOwn, AllSetUp
  <2> QED
    BY <1>2, <2>4, <2>5, <2>6, <2>7, <2>8
<1>25. ASSUME NEW i \in Cards, OtherTool(i) PROVE IInv'
  <2>1. ~changed => \A k \in Cards : rule[k] # None =>
          k # i /\ rule[k] \in Tables /\ rule[k] # OtherTable(i)
    <3>1. ASSUME ~changed, NEW k \in Cards, rule[k] # None PROVE rule[k] # OtherTable(i)
      <4>1. CASE rule[k] = OtherTable(k)
        BY <3>1, <4>1, <1>25 DEF OtherTool
      <4>2. CASE rule[k] # OtherTable(k)
        BY <1>1, <1>3, <3>1, <4>2, RanksDiffer DEF TablesOwn
      <4> QED
        BY <4>1, <4>2
    <3> QED
      BY <1>1, <3>1, <1>25 DEF OtherTool, TypeOK
  <2>2. /\ i \in addressed /\ OtherTable(i) \in Tables
        /\ rule' = [rule EXCEPT ![i] = OtherTable(i)]
        /\ net' = [net EXCEPT ![OtherTable(i)] = i] /\ via' = [via EXCEPT ![OtherTable(i)] = i]
    BY <1>25 DEF OtherTool
  <2>3. pc \in {"default", "rule"} => count # OtherTable(i) /\ count \in Tables
    BY <1>1 DEF Place, InWork
  <2>4. TypeOK'
    BY <1>1, <1>3, <1>4, <1>25 DEF OtherTool, TypeOK, Place, InWork
  <2>5. Place'
    BY <1>1, <1>3, <1>4, <1>8, <1>25 DEF OtherTool, TypeOK, Place, InWork, AllSetUp
  <2>6. CountedSoFar'
    BY <1>1, <1>3, <1>4, <1>7, <1>25
      DEF OtherTool, TypeOK, Place, InWork, CountedSoFar, TablesOwn
  <2>7. TablesOwn'
    <3>1. ~changed => \A k \in Cards : rule'[k] # None =>
            net'[rule'[k]] = k /\ via'[rule'[k]] = k /\ k \in addressed
      BY <1>1, <2>1, <2>2 DEF TypeOK, TablesOwn
    <3>2. ~changed => \A k \in Cards : rule'[k] # None /\ rule'[k] # OtherTable(k) =>
            rule'[k] = rule[k] /\ rule[k] # None
      BY <1>1, <2>2 DEF TypeOK
    <3>3. ~changed =>
            /\ pc \in {"default", "rule"} => net'[count] = Here
            /\ pc = "rule" => via'[count] = Here
      BY <1>1, <2>2, <2>3 DEF TypeOK, TablesOwn
    <3> QED
      BY <1>1, <1>6, <1>7, <3>1, <3>2, <3>3, <1>25 DEF OtherTool, TablesOwn
  <2>8. AllSetUp'
    BY <1>1, <1>3, <1>4, <1>25
      DEF OtherTool, TypeOK, Place, InWork, CountedSoFar, TablesOwn, AllSetUp
  <2> QED
    BY <1>2, <2>4, <2>5, <2>6, <2>7, <2>8
<1>26. CASE UNCHANGED vars
  BY <1>1, <1>2, <1>6, <1>7, <1>26
    DEF vars, TypeOK, Place, CountedSoFar, TablesOwn, AllSetUp, InWork
<1> QED
  BY <1>12, <1>13, <1>14, <1>15, <1>16, <1>17, <1>18, <1>19, <1>20, <1>21, <1>22, <1>23, <1>24,
     <1>25, <1>26
    DEF Next, Script

\* The invariant holds in every state.
THEOREM Invariance == Spec => []IInv
<1>1. Init => IInv
  BY InitEstablishesIInv
<1>2. IInv /\ [Next]_vars => IInv'
  BY NextKeepsIInv
<1> QED
  BY <1>1, <1>2, PTL DEF Spec

\* Type correctness of the routing script and its host.
THEOREM TypeCorrect == Spec => []TypeOK
<1>1. IInv => TypeOK
  BY DEF IInv
<1> QED
  BY <1>1, Invariance, PTL

\* Wherever runs of the script broke off, a rule leads to a complete table of its own
\* card, as long as the cards do not change.
THEOREM RulesAreRouted == Spec => []RuleMeansRouted
<1>1. IInv => RuleMeansRouted
  BY DEF IInv, TablesOwn, RuleMeansRouted
<1> QED
  BY <1>1, Invariance, PTL

\* After a complete run every address that LocalIPv4s offers as a source leaves by its
\* own card, those of bridges excepted.
THEOREM SourcesLeaveByOwnCard == Spec => []SourcesOwnCard
<1>1. ASSUME IInv, complete, ~changed, NEW i \in LocalIPv4s \ Bridges PROVE Egress(i) = i
  <2>1. CASE i = Primary
    BY <2>1, MultiNICAssumption DEF Egress, Cards
  <2>2. CASE i # Primary
    <3>1. i \in addressed /\ i \in Cards
      BY <1>1, <2>2 DEF LocalIPv4s, IInv, TypeOK
    <3>2. rule[i] # None
      BY <1>1, <3>1 DEF IInv, AllSetUp
    <3>3. via[rule[i]] = i
      BY <1>1, <3>1, <3>2 DEF IInv, TablesOwn
    <3>4. i # None
      BY <3>1, MultiNICAssumption DEF Cards
    <3> QED
      BY <3>1, <3>2, <3>3, <3>4 DEF Egress
  <2> QED
    BY <2>1, <2>2
<1>2. IInv => SourcesOwnCard
  BY <1>1 DEF SourcesOwnCard
<1> QED
  BY <1>2, Invariance, PTL

\* A run over a host that is set up changes no rule and no route.
THEOREM RerunsAreIdle == Spec => RerunIdle
<1>1. ASSUME IInv, [Next]_vars, complete, Script, ~changed PROVE UNCHANGED routing
  <2>1. ~InWork /\ \A i \in addressed : rule[i] # None
    BY <1>1 DEF IInv, AllSetUp
  <2> QED
    BY <1>1, <2>1
      DEF Script, Begin, Skip, Keep, Configure, Flush, AddNet, AddDefault, AddRule, Finish, Die,
          InWork, routing
<1>2. IInv /\ [Next]_vars => [complete /\ Script /\ ~changed => UNCHANGED routing]_vars
  BY <1>1
<1> QED
  BY <1>2, Invariance, PTL DEF Spec, RerunIdle

===============================================================================
