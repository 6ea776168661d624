----------------------------- MODULE NetworkProofs -----------------------------
(***************************************************************************)
(* Theorems about the two parts that shape the network under a benchmark:  *)
(* the dialer of the S3 client, for any number of goroutines, names,       *)
(* source addresses and answers, and the host's settings as                *)
(* tune-network.sh changes them, for any set of keys.                      *)
(*                                                                         *)
(* The dialer: a round robin is taken as a relation between how often each *)
(* was taken and whose turn it is (InTurn), which one turn keeps           *)
(* (TurnTaken).  It holds of the addresses of each name, where an expired  *)
(* answer that comes again goes on with the old turn, and of the source    *)
(* addresses, where a connection counts from when its source is bound.     *)
(*                                                                         *)
(* The settings: the invariant is inductive, hence the snapshot keeps the  *)
(* host's values through every sequence of applies, reverts, interruptions *)
(* and reboots, and a complete revert restores them.                       *)
(***************************************************************************)
EXTENDS Dialer, NetTuning, FiniteSetTheorems, TLAPS

\* The next number modulo n.
LEMMA NextMod ==
  ASSUME NEW x \in Nat, NEW n \in Nat \ {0}
  PROVE  /\ x % n \in 0 .. (n - 1)
         /\ (x + 1) % n = IF x % n = n - 1 THEN 0 ELSE (x % n) + 1
<1> DEFINE q == x \div n
           r == x % n
<1>1. q \in Nat /\ r \in 0 .. (n - 1) /\ x = n * q + r
  OBVIOUS
<1>2. CASE r = n - 1
  <2>1. x + 1 = n * (q + 1)
    BY <1>1, <1>2
  <2>2. (n * (q + 1)) % n = 0
    BY <1>1
  <2> QED
    BY <1>1, <1>2, <2>1, <2>2
<1>3. CASE r # n - 1
  <2> DEFINE p == (x + 1) \div n
             t == (x + 1) % n
  <2>1. p \in Nat /\ t \in 0 .. (n - 1) /\ x + 1 = n * p + t
    OBVIOUS
  <2>2. r + 1 \in 0 .. (n - 1) /\ n * p + t = n * q + (r + 1)
    BY <1>1, <1>3, <2>1
  <2> HIDE DEF p, q, r, t
  <2>3. n * p \in Nat /\ n * q \in Nat
    BY <1>1, <2>1
  <2>4. ~(p > q)
    <3>1. p > q => n * p >= n * q + n
      BY <1>1, <2>1
    <3> QED
      BY <2>1, <2>2, <2>3, <3>1
  <2>5. ~(q > p)
    <3>1. q > p => n * q >= n * p + n
      BY <1>1, <2>1
    <3> QED
      BY <2>1, <2>2, <2>3, <3>1
  <2>6. p = q
    BY <1>1, <2>1, <2>4, <2>5
  <2>7. t = r + 1
    BY <2>1, <2>2, <2>3, <2>6
  <2> QED
    BY <1>3, <2>7 DEF t, r
<1> QED
  BY <1>1, <1>2, <1>3

\* Whoever's turn it is may be taken once more: then it waits longest.
LEMMA TurnTaken ==
  ASSUME NEW n \in Nat \ {0}, NEW x \in Nat,
         NEW taken \in [1 .. n -> Nat], NEW after \in [1 .. n -> Nat],
         InTurn(taken, (x % n) + 1, n),
         after = [taken EXCEPT ![(x % n) + 1] = @ + 1]
  PROVE  InTurn(after, ((x + 1) % n) + 1, n)
<1> DEFINE m == (x % n) + 1
           o == ((x + 1) % n) + 1
<1>1. m \in 1 .. n /\ o = IF m = n THEN 1 ELSE m + 1
  <2>1. /\ x % n \in 0 .. (n - 1)
        /\ (x + 1) % n = IF x % n = n - 1 THEN 0 ELSE (x % n) + 1
    BY NextMod
  <2> QED
    BY <2>1
<1>2. InTurn(taken, m, n) /\ after = [taken EXCEPT ![m] = @ + 1]
  OBVIOUS
<1> HIDE DEF m, o
<1>3. \A k \in 1 .. n : /\ Wait(k, m, n) \in 0 .. (n - 1)
                        /\ k # m => Wait(k, o, n) = Wait(k, m, n) - 1
  BY <1>1 DEF Wait
<1>4. Wait(m, m, n) = 0 /\ Wait(m, o, n) = n - 1
  BY <1>1 DEF Wait
<1>5. after[m] = taken[m] + 1 /\ \A k \in 1 .. n : k # m => after[k] = taken[k]
  BY <1>1, <1>2
<1>6. ASSUME NEW k \in 1 .. n, NEW l \in 1 .. n, Wait(k, o, n) <= Wait(l, o, n)
      PROVE  after[k] <= after[l] /\ after[l] <= after[k] + 1
  <2>1. taken[k] \in Nat /\ taken[l] \in Nat /\ taken[m] \in Nat
    BY <1>1
  <2>2. CASE k # m /\ l # m
    <3>1. Wait(k, m, n) <= Wait(l, m, n)
      BY <1>3, <1>6, <2>2
    <3> QED
      BY <1>2, <1>5, <2>2, <3>1 DEF InTurn
  <2>3. CASE k # m /\ l = m
    <3>1. Wait(m, m, n) <= Wait(k, m, n)
      BY <1>3, <1>4
    <3> QED
      BY <1>1, <1>2, <1>5, <2>1, <2>3, <3>1 DEF InTurn
  <2>4. CASE k = m /\ l # m
    BY <1>1, <1>3, <1>4, <1>6, <2>4
  <2>5. CASE k = m /\ l = m
    BY <2>1, <2>5, <1>5
  <2> QED
    BY <2>2, <2>3, <2>4, <2>5
<1> QED
  BY <1>6 DEF InTurn, o

\* When none was taken yet, it may be anybody's turn.
LEMMA NoneTaken ==
  ASSUME NEW n \in Nat, NEW next, NEW taken, \A k \in 1 .. n : taken[k] = 0
  PROVE  InTurn(taken, next, n)
BY DEF InTurn

\* In a round robin none is taken twice more than another.
LEMMA TurnsAreFair ==
  ASSUME NEW n \in Nat, NEW next \in 1 .. n, NEW taken \in [1 .. n -> Nat],
         InTurn(taken, next, n)
  PROVE  \A k, l \in 1 .. n : taken[k] <= taken[l] + 1
<1> SUFFICES ASSUME NEW k \in 1 .. n, NEW l \in 1 .. n PROVE taken[k] <= taken[l] + 1
  OBVIOUS
<1>1. Wait(k, next, n) \in Int /\ Wait(l, next, n) \in Int
  BY DEF Wait
<1>2. Wait(k, next, n) <= Wait(l, next, n) \/ Wait(l, next, n) <= Wait(k, next, n)
  BY <1>1
<1> QED
  BY <1>2 DEF InTurn

\* Answers have addresses, and no address twice.
LEMMA Shapes ==
  /\ Len(Sources) \in Nat /\ (Sources = <<>> <=> Len(Sources) = 0)
  /\ \A answer \in Answers :
       /\ Len(answer) \in Nat \ {0} /\ DOMAIN answer = 1 .. Len(answer)
       /\ \A k, l \in 1 .. Len(answer) : answer[k] = answer[l] => k = l
       /\ ToSet(answer) = {answer[k] : k \in 1 .. Len(answer)}
       /\ \A k \in 1 .. Len(answer) : answer[k] \in Addresses
<1>1. Len(Sources) \in Nat /\ (Sources = <<>> <=> Len(Sources) = 0)
  BY DialerAssumption
<1>2. ASSUME NEW answer \in Answers
      PROVE  /\ Len(answer) \in Nat \ {0} /\ DOMAIN answer = 1 .. Len(answer)
             /\ \A k, l \in 1 .. Len(answer) : answer[k] = answer[l] => k = l
             /\ ToSet(answer) = {answer[k] : k \in 1 .. Len(answer)}
             /\ \A k \in 1 .. Len(answer) : answer[k] \in Addresses
  <2>1. answer \in Seq(STRING) /\ answer # <<>> /\ IsInjective(answer)
    BY DialerAssumption
  <2>2. Len(answer) \in Nat \ {0} /\ DOMAIN answer = 1 .. Len(answer)
    BY <2>1
  <2>3. ToSet(answer) = {answer[k] : k \in 1 .. Len(answer)}
    BY <2>2 DEF ToSet
  <2> QED
    BY <2>1, <2>2, <2>3 DEF IsInjective, Addresses
<1> QED
  BY <1>1, <1>2

\* A pick keeps the turns of the name's addresses, also when the answer is new.
LEMMA PickInTurn ==
  ASSUME TypeOK, PicksInTurn, NEW c \in Conns, NEW h \in Hosts,
         NEW e \in [ips : Answers, age : 0 .. (TTL + 1), idx : Nat],
         e.idx = cache[h].idx, Pick(c, h, e)
  PROVE  /\ cache' \in [Hosts -> [ips : Answers \cup {<<>>}, age : 0 .. (TTL + 1), idx : Nat]]
         /\ DOMAIN used' = Hosts
         /\ \A g \in Hosts : used'[g] \in [ToSet(cache'[g].ips) -> Nat]
         /\ cache'[h].ips = e.ips /\ cache'[h].age = e.age
         /\ \A g \in Hosts : g # h => cache'[g] = cache[g]
         /\ dest'[c] \in Addresses /\ Contains(e.ips, dest'[c])
         /\ dest' = [dest EXCEPT ![c] = dest'[c]]
         /\ at' = [at EXCEPT ![c] = "dial"]
         /\ PicksInTurn'
<1> DEFINE n == Len(e.ips)
           m == (e.idx % n) + 1
           ip == e.ips[m]
           known == IF e.ips = cache[h].ips THEN used[h] ELSE [a \in ToSet(e.ips) |-> 0]
           taken == [k \in 1 .. n |-> known[e.ips[k]]]
           after == [k \in 1 .. n |-> used'[h][e.ips[k]]]
<1>1. /\ cache' = [cache EXCEPT ![h] = [e EXCEPT !.idx = @ + 1]]
      /\ used' = [used EXCEPT ![h] = [known EXCEPT ![ip] = @ + 1]]
      /\ dest' = [dest EXCEPT ![c] = ip]
      /\ at' = [at EXCEPT ![c] = "dial"]
  BY DEF Pick
<1>2. /\ n \in Nat \ {0} /\ m \in 1 .. n /\ ip \in Addresses /\ ip \in ToSet(e.ips)
      /\ \A k, l \in 1 .. n : e.ips[k] = e.ips[l] => k = l
      /\ \A k \in 1 .. n : e.ips[k] \in ToSet(e.ips)
  <2>1. n \in Nat \ {0}
    BY Shapes
  <2>2. m \in 1 .. n
    <3>1. e.idx \in Nat
      OBVIOUS
    <3> HIDE DEF n
    <3>2. e.idx % n \in 0 .. (n - 1)
      BY <2>1, <3>1, NextMod
    <3> QED
      BY <2>1, <3>2
  <2> HIDE DEF m
  <2> QED
    BY <2>1, <2>2, Shapes
<1>3. /\ cache \in [Hosts -> [ips : Answers \cup {<<>>}, age : 0 .. (TTL + 1), idx : Nat]]
      /\ DOMAIN used = Hosts
      /\ \A g \in Hosts : used[g] \in [ToSet(cache[g].ips) -> Nat]
      /\ dest \in [Conns -> Addresses \cup {Plain}]
  BY DEF TypeOK
<1>4. known \in [ToSet(e.ips) -> Nat]
  BY <1>3
<1> HIDE DEF known
<1>5. [known EXCEPT ![ip] = @ + 1] \in [ToSet(e.ips) -> Nat]
  BY <1>2, <1>4
<1>6. /\ cache'[h].ips = e.ips /\ cache'[h].age = e.age /\ cache'[h].idx = e.idx + 1
      /\ \A g \in Hosts : g # h => cache'[g] = cache[g]
      /\ cache' \in [Hosts -> [ips : Answers \cup {<<>>}, age : 0 .. (TTL + 1), idx : Nat]]
  <2> DEFINE fresh == [e EXCEPT !.idx = @ + 1]
  <2>1. /\ fresh \in [ips : Answers \cup {<<>>}, age : 0 .. (TTL + 1), idx : Nat]
        /\ fresh.ips = e.ips /\ fresh.age = e.age /\ fresh.idx = e.idx + 1
    OBVIOUS
  <2>2. cache' = [cache EXCEPT ![h] = fresh]
    BY <1>1
  <2> HIDE DEF fresh
  <2> QED
    BY <1>3, <2>1, <2>2
<1>7. /\ used'[h] = [known EXCEPT ![ip] = @ + 1] /\ DOMAIN used' = Hosts
      /\ \A g \in Hosts : g # h => used'[g] = used[g]
  BY <1>1, <1>3
<1>8. \A g \in Hosts : used'[g] \in [ToSet(cache'[g].ips) -> Nat]
  BY <1>3, <1>5, <1>6, <1>7
<1>9. dest'[c] = ip /\ dest' = [dest EXCEPT ![c] = ip] /\ Contains(e.ips, ip)
  BY <1>1, <1>2, <1>3 DEF Contains
<1>10. taken \in [1 .. n -> Nat] /\ after = [taken EXCEPT ![m] = @ + 1] /\ after \in [1 .. n -> Nat]
  <2>1. taken \in [1 .. n -> Nat]
    BY <1>2, <1>4
  <2>2. \A k \in 1 .. n : used'[h][e.ips[k]] = IF k = m THEN known[e.ips[k]] + 1
                                               ELSE known[e.ips[k]]
    <3> HIDE DEF m
    <3> QED
      BY <1>2, <1>4, <1>7
  <2> HIDE DEF m, n
  <2>3. after = [taken EXCEPT ![m] = @ + 1]
    BY <1>2, <2>1, <2>2
  <2> HIDE DEF taken, after
  <2> QED
    BY <1>2, <2>1, <2>3
<1>11. InTurn(taken, m, n)
  <2>1. CASE e.ips = cache[h].ips
    <3>1. taken = Picks(h)
      BY <2>1 DEF known, Picks
    <3>2. n = Len(cache[h].ips) /\ m = (cache[h].idx % n) + 1 /\ n > 0
      BY <1>2, <2>1
    <3>3. n > 0 => InTurn(Picks(h), (cache[h].idx % n) + 1, n)
      BY <3>2 DEF PicksInTurn
    <3> HIDE DEF taken, m, n
    <3> QED
      BY <3>1, <3>2, <3>3
  <2>2. CASE e.ips # cache[h].ips
    <3>1. \A k \in 1 .. n : taken[k] = 0
      BY <1>2, <2>2 DEF known
    <3> HIDE DEF taken, m, n
    <3> QED
      BY <1>2, <3>1, NoneTaken
  <2> QED
    BY <2>1, <2>2
<1>12. InTurn(after, ((e.idx + 1) % n) + 1, n)
  <2>1. e.idx \in Nat
    OBVIOUS
  <2> HIDE DEF taken, after, n
  <2> QED
    BY <1>2, <1>10, <1>11, <2>1, TurnTaken
<1>13. PicksInTurn'
  <2> SUFFICES ASSUME NEW g \in Hosts, Len(cache'[g].ips) > 0
               PROVE  InTurn(Picks(g)', (cache'[g].idx % Len(cache'[g].ips)) + 1,
                             Len(cache'[g].ips))
    BY DEF PicksInTurn, InTurn
  <2>1. CASE g = h
    <3>1. Picks(g)' = after
      BY <1>6, <2>1 DEF Picks
    <3> QED
      BY <1>6, <1>12, <2>1, <3>1
  <2>2. CASE g # h
    <3>1. Picks(g)' = Picks(g)
      BY <1>6, <1>7, <2>2 DEF Picks
    <3> QED
      BY <1>6, <2>2, <3>1 DEF PicksInTurn
  <2> QED
    BY <2>1, <2>2
<1> QED
  BY <1>1, <1>2, <1>6, <1>7, <1>8, <1>9, <1>13

\* What is bound or sent from a source is a number.
LEMMA TakenType ==
  ASSUME TypeOK, SourcesInTurn
  PROVE  /\ Taken \in [1 .. Len(Sources) -> Nat]
         /\ \A s \in 1 .. Len(Sources) : Cardinality(From(s)) \in Nat /\ sent[s] \in Nat
<1>1. \A s \in 1 .. Len(Sources) : Cardinality(From(s)) \in Nat
  BY FS_CardinalityType DEF SourcesInTurn
<1>2. \A s \in 1 .. Len(Sources) : sent[s] \in Nat
  BY DEF TypeOK
<1> QED
  BY <1>1, <1>2 DEF Taken

\* A call that begins takes the source whose turn it is.
LEMMA BeginInTurn ==
  ASSUME TypeOK, CallsInStep, SourcesInTurn, NEW c \in Conns, NEW h \in Hosts,
         BeginDial(c, h)
  PROVE  SourcesInTurn'
<1> DEFINE n == Len(Sources)
<1>1. CASE n = 0
  BY <1>1 DEF SourcesInTurn
<1>2. CASE n # 0
  <2>1. /\ n \in Nat \ {0} /\ Sources # <<>> /\ li + 1 \in Nat /\ n > 0
        /\ local \in [Conns -> 0 .. n] /\ sent \in [1 .. n -> Nat] /\ local[c] = 0
    BY <1>2, Shapes DEF TypeOK, CallsInStep, BeginDial
  <2>2. PICK s \in 1 .. n : s = ((li + 1) % n) + 1
    <3> HIDE DEF n
    <3>1. (li + 1) % n \in 0 .. (n - 1)
      BY <2>1, NextMod
    <3> QED
      BY <2>1, <3>1
  <2>3. li' = li + 1 /\ local' = [local EXCEPT ![c] = s] /\ sent' = sent
    BY <2>1, <2>2 DEF BeginDial, Bound
  <2>4. /\ From(s)' = From(s) \cup {c} /\ c \notin From(s)
        /\ \A t \in 1 .. n : t # s => From(t)' = From(t)
    BY <2>1, <2>3 DEF From
  <2>5. \A t \in 1 .. n : IsFiniteSet(From(t))
    BY DEF SourcesInTurn
  <2>6. /\ \A t \in 1 .. n : IsFiniteSet(From(t)')
        /\ Cardinality(From(s)') = Cardinality(From(s)) + 1
    BY <2>4, <2>5, FS_AddElement
  <2>7. /\ Taken \in [1 .. n -> Nat]
        /\ \A t \in 1 .. n : Cardinality(From(t)) \in Nat /\ sent[t] \in Nat
    BY TakenType
  <2>8. Taken' = [Taken EXCEPT ![s] = @ + 1]
    <3>1. Taken' = [t \in 1 .. n |-> sent[t] + Cardinality(From(t)')]
      BY <2>3 DEF Taken
    <3>2. \A t \in 1 .. n : sent[t] + Cardinality(From(t)') =
                              IF t = s THEN Taken[t] + 1 ELSE Taken[t]
      <4> SUFFICES ASSUME NEW t \in 1 .. n
                   PROVE  sent[t] + Cardinality(From(t)') = IF t = s THEN Taken[t] + 1 ELSE Taken[t]
        OBVIOUS
      <4>1. Taken[t] = sent[t] + Cardinality(From(t))
        BY DEF Taken
      <4>2. CASE t = s
        <5>1. From(t)' = From(s)' /\ From(t) = From(s)
          BY <4>2
        <5>2. Cardinality(From(t)') = Cardinality(From(t)) + 1
          BY <2>6, <5>1
        <5>3. Cardinality(From(t)) \in Nat /\ sent[t] \in Nat
          BY <2>7
        <5> QED
          BY <4>1, <4>2, <5>2, <5>3
      <4>3. CASE t # s
        BY <2>4, <4>1, <4>3
      <4> QED
        BY <4>2, <4>3
    <3> HIDE DEF n
    <3> QED
      BY <2>7, <3>1, <3>2
  <2>9. Taken' \in [1 .. n -> Nat]
    BY <2>7, <2>8
  <2>10. InTurn(Taken, ((li + 1) % n) + 1, n)
    BY <2>1 DEF SourcesInTurn
  <2>11. InTurn(Taken', ((li + 1 + 1) % n) + 1, n)
    <3> HIDE DEF n
    <3>1. Taken' = [Taken EXCEPT ![((li + 1) % n) + 1] = @ + 1]
      BY <2>2, <2>8
    <3> QED
      BY <2>1, <2>7, <2>9, <2>10, <3>1, TurnTaken
  <2> QED
    BY <2>3, <2>6, <2>11 DEF SourcesInTurn, InTurn
<1> QED
  BY <1>1, <1>2

\* A connection is counted on its way and when attempted, and once.
LEMMA ConnectInTurn ==
  ASSUME TypeOK, SourcesInTurn, NEW c \in Conns, Connect(c)
  PROVE  SourcesInTurn'
<1> DEFINE n == Len(Sources)
           s == local[c]
<1>1. /\ n \in Nat /\ local \in [Conns -> 0 .. n] /\ sent \in [1 .. n -> Nat] /\ li' = li
      /\ local' = [local EXCEPT ![c] = 0]
      /\ sent' = IF s = 0 THEN sent ELSE [sent EXCEPT ![s] = @ + 1]
  BY Shapes DEF TypeOK, Connect
<1>2. /\ \A t \in 1 .. n : IsFiniteSet(From(t)) /\ Cardinality(From(t)) \in Nat /\ sent[t] \in Nat
      /\ Taken \in [1 .. n -> Nat]
  BY TakenType DEF SourcesInTurn
<1>3. \A t \in 1 .. n : From(t)' = From(t) \ {c} /\ (c \in From(t) <=> t = s)
  BY <1>1 DEF From
<1>4. \A t \in 1 .. n : /\ IsFiniteSet(From(t)')
                        /\ Cardinality(From(t)') = IF t = s THEN Cardinality(From(t)) - 1
                                                   ELSE Cardinality(From(t))
  BY <1>2, <1>3, FS_RemoveElement
<1>5. \A t \in 1 .. n : sent'[t] = IF t = s THEN sent[t] + 1 ELSE sent[t]
  BY <1>1
<1>6. \A t \in 1 .. n : sent'[t] + Cardinality(From(t)') = sent[t] + Cardinality(From(t))
  <2> SUFFICES ASSUME NEW t \in 1 .. n
               PROVE  sent'[t] + Cardinality(From(t)') = sent[t] + Cardinality(From(t))
    OBVIOUS
  <2>1. Cardinality(From(t)) \in Nat /\ sent[t] \in Nat
    BY <1>2
  <2>2. CASE t = s
    BY <1>4, <1>5, <2>1, <2>2
  <2>3. CASE t # s
    BY <1>4, <1>5, <2>1, <2>3
  <2> QED
    BY <2>2, <2>3
<1>7. Taken' = Taken
  BY <1>6 DEF Taken
<1> QED
  BY <1>1, <1>4, <1>7 DEF SourcesInTurn, InTurn

\* Every step keeps the invariant.
LEMMA NextPreservesIInv ==
  ASSUME IInv, [Next]_vars
  PROVE  IInv'
<1> USE DEF IInv
<1>1. TypeOK /\ CallsInStep /\ PicksInTurn /\ SourcesInTurn
  OBVIOUS
<1>2. ASSUME UNCHANGED <<local, li, sent>> PROVE SourcesInTurn'
  <2>1. \A s : From(s)' = From(s)
    BY <1>2 DEF From
  <2>2. Taken' = Taken
    BY <1>2, <2>1 DEF Taken
  <2> QED
    BY <1>2, <2>1, <2>2 DEF SourcesInTurn, InTurn
<1>3. ASSUME UNCHANGED <<cache, used>> PROVE PicksInTurn'
  <2>1. \A h : Picks(h)' = Picks(h)
    BY <1>3 DEF Picks
  <2> QED
    BY <1>3, <2>1 DEF PicksInTurn, InTurn
<1>4. ASSUME NEW c \in Conns, NEW h \in Hosts, BeginDial(c, h) PROVE IInv'
  <2>1. TypeOK'
    <3> DEFINE n == Len(Sources)
    <3>1. n # 0 => ((li + 1) % n) + 1 \in 1 .. n
      <4>1. n \in Nat /\ li + 1 \in Nat
        BY Shapes DEF TypeOK
      <4> HIDE DEF n
      <4>2. n # 0 => (li + 1) % n \in 0 .. (n - 1)
        BY <4>1, NextMod
      <4> QED
        BY <4>1, <4>2
    <3>2. local' \in [Conns -> 0 .. n] /\ li' \in Nat
      <4>1. CASE n = 0
        BY <1>4, <4>1, Shapes DEF TypeOK, BeginDial
      <4>2. CASE n # 0
        <5>1. li' = li + 1 /\ local' = [local EXCEPT ![c] = ((li + 1) % n) + 1]
          BY <1>4, <4>2, Shapes DEF BeginDial, Bound
        <5> QED
          BY <3>1, <4>2, <5>1 DEF TypeOK
      <4> QED
        BY <4>1, <4>2
    <3>3. /\ at' \in [Conns -> {"idle", "lock", "lookup", "dial"}]
          /\ host' \in [Conns -> Hosts \cup {None}] /\ dials' \in 0 .. MaxDials
          /\ UNCHANGED <<spread, dest, lock, cache, used, sent>>
      BY <1>4, DialerAssumption DEF TypeOK, BeginDial, picker
    <3> QED
      BY <3>2, <3>3 DEF TypeOK
  <2>2. CallsInStep'
    BY <1>4 DEF TypeOK, CallsInStep, BeginDial, Bound, picker, Stale
  <2>3. PicksInTurn'
    BY <1>3, <1>4 DEF BeginDial, picker
  <2>4. SourcesInTurn'
    BY <1>4, BeginInTurn
  <2> QED
    BY <2>1, <2>2, <2>3, <2>4
<1>5. ASSUME NEW c \in Conns, PickCached(c) PROVE IInv'
  <2> DEFINE h == host[c]
             e == cache[h]
  <2>1. h \in Hosts /\ at[c] = "lock" /\ lock = None /\ Pick(c, h, e) /\ ~Stale(h)
        /\ UNCHANGED <<spread, dials, host, local, li, lock, sent>>
    BY <1>5 DEF PickCached, CallsInStep
  <2>2. e \in [ips : Answers, age : 0 .. (TTL + 1), idx : Nat]
    BY <2>1 DEF TypeOK, Stale
  <2> HIDE DEF h, e
  <2>3. e.idx = cache[h].idx
    BY DEF e
  <2>4. /\ cache' \in [Hosts -> [ips : Answers \cup {<<>>}, age : 0 .. (TTL + 1), idx : Nat]]
        /\ DOMAIN used' = Hosts
        /\ \A g \in Hosts : used'[g] \in [ToSet(cache'[g].ips) -> Nat]
        /\ dest'[c] \in Addresses /\ dest' = [dest EXCEPT ![c] = dest'[c]]
        /\ at' = [at EXCEPT ![c] = "dial"]
        /\ PicksInTurn'
    BY <2>1, <2>2, <2>3, PickInTurn
  <2>5. TypeOK'
    BY <2>1, <2>4 DEF TypeOK
  <2>6. \A d \in Conns : at[d] # "lookup"
    BY <2>1, DialerAssumption DEF CallsInStep
  <2>7. CallsInStep'
    BY <2>1, <2>4, <2>6 DEF TypeOK, CallsInStep
  <2>8. SourcesInTurn'
    BY <1>2, <2>1
  <2> QED
    BY <2>4, <2>5, <2>7, <2>8
<1>6. ASSUME NEW c \in Conns, BeginLookup(c) PROVE IInv'
  <2>1. TypeOK'
    BY <1>6 DEF TypeOK, BeginLookup
  <2>2. CallsInStep'
    <3>1. \A d \in Conns : at[d] # "lookup"
      BY <1>6, DialerAssumption DEF CallsInStep, BeginLookup
    <3> QED
      BY <1>6, <3>1 DEF TypeOK, CallsInStep, BeginLookup, Stale
  <2>3. PicksInTurn' /\ SourcesInTurn'
    BY <1>2, <1>3, <1>6 DEF BeginLookup
  <2> QED
    BY <2>1, <2>2, <2>3
<1>7. ASSUME NEW c \in Conns, LookupOk(c) PROVE IInv'
  <2> DEFINE h == host[c]
  <2>1. /\ h \in Hosts /\ at[c] = "lookup" /\ lock = c /\ lock' = None
        /\ UNCHANGED <<spread, dials, host, local, li, sent>>
    BY <1>7 DEF LookupOk, CallsInStep
  <2>2. PICK answer \in Answers : Pick(c, h, Refreshed(h, answer))
    BY <1>7 DEF LookupOk
  <2> HIDE DEF h
  <2>3. /\ Refreshed(h, answer) \in [ips : Answers, age : 0 .. (TTL + 1), idx : Nat]
        /\ Refreshed(h, answer).idx = cache[h].idx
    BY <2>1, DialerAssumption DEF Refreshed, TypeOK
  <2>4. /\ cache' \in [Hosts -> [ips : Answers \cup {<<>>}, age : 0 .. (TTL + 1), idx : Nat]]
        /\ DOMAIN used' = Hosts
        /\ \A g \in Hosts : used'[g] \in [ToSet(cache'[g].ips) -> Nat]
        /\ dest'[c] \in Addresses /\ dest' = [dest EXCEPT ![c] = dest'[c]]
        /\ at' = [at EXCEPT ![c] = "dial"]
        /\ PicksInTurn'
    BY <2>1, <2>2, <2>3, PickInTurn
  <2>5. TypeOK'
    BY <2>1, <2>4 DEF TypeOK
  <2>6. \A d \in Conns : d # c => at[d] # "lookup"
    BY <2>1 DEF CallsInStep
  <2>7. CallsInStep'
    BY <2>1, <2>4, <2>6 DEF TypeOK, CallsInStep
  <2>8. SourcesInTurn'
    BY <1>2, <2>1
  <2> QED
    BY <2>4, <2>5, <2>7, <2>8
<1>8. ASSUME NEW c \in Conns, LookupFails(c) PROVE IInv'
  <2>1. TypeOK'
    BY <1>8 DEF TypeOK, LookupFails
  <2>2. CallsInStep'
    <3>1. \A d \in Conns : d # c => at[d] # "lookup"
      BY <1>8 DEF CallsInStep, LookupFails
    <3> QED
      BY <1>8, <3>1 DEF TypeOK, CallsInStep, LookupFails
  <2>3. PicksInTurn' /\ SourcesInTurn'
    BY <1>2, <1>3, <1>8 DEF LookupFails
  <2> QED
    BY <2>1, <2>2, <2>3
<1>9. ASSUME NEW c \in Conns, Connect(c) PROVE IInv'
  <2>1. TypeOK'
    BY <1>9, Shapes DEF TypeOK, Connect, picker
  <2>2. CallsInStep'
    BY <1>9 DEF TypeOK, CallsInStep, Connect, picker, Stale
  <2>3. PicksInTurn' /\ SourcesInTurn'
    BY <1>3, <1>9, ConnectInTurn DEF Connect, picker
  <2> QED
    BY <2>1, <2>2, <2>3
<1>10. CASE Tick
  <2>1. /\ UNCHANGED <<spread, dials, at, host, local, dest, li, lock, used, sent>>
        /\ cache' = [h \in Hosts |-> IF Stale(h) THEN cache[h]
                                     ELSE [cache[h] EXCEPT !.age = @ + 1]]
    BY <1>10 DEF Tick, call
  <2>2. ASSUME NEW h \in Hosts
        PROVE  /\ cache'[h] \in [ips : Answers \cup {<<>>}, age : 0 .. (TTL + 1), idx : Nat]
               /\ cache'[h].ips = cache[h].ips /\ cache'[h].idx = cache[h].idx
               /\ Stale(h) => Stale(h)'
    <3>1. cache[h] \in [ips : Answers \cup {<<>>}, age : 0 .. (TTL + 1), idx : Nat]
      BY DEF TypeOK
    <3>2. CASE Stale(h)
      BY <2>1, <3>1, <3>2 DEF Stale
    <3>3. CASE ~Stale(h)
      <4>1. cache'[h] = [cache[h] EXCEPT !.age = @ + 1] /\ cache[h].age + 1 \in 0 .. (TTL + 1)
        BY <2>1, <3>1, <3>3, DialerAssumption DEF Stale
      <4> QED
        BY <3>1, <3>3, <4>1
    <3> QED
      BY <3>2, <3>3
  <2>3. TypeOK'
    <3>1. cache' \in [Hosts -> [ips : Answers \cup {<<>>}, age : 0 .. (TTL + 1), idx : Nat]]
      BY <2>1, <2>2
    <3> QED
      BY <2>1, <2>2, <3>1 DEF TypeOK
  <2>4. CallsInStep'
    BY <2>1, <2>2 DEF CallsInStep
  <2>5. PicksInTurn'
    <3>1. \A h \in Hosts : Picks(h)' = Picks(h)
      BY <2>1, <2>2 DEF Picks
    <3> QED
      BY <2>2, <3>1 DEF PicksInTurn, InTurn
  <2>6. SourcesInTurn'
    BY <1>2, <2>1
  <2> QED
    BY <2>3, <2>4, <2>5, <2>6
<1>11. CASE UNCHANGED vars
  <2>1. TypeOK' /\ CallsInStep'
    BY <1>11 DEF vars, call, picker, TypeOK, CallsInStep, Stale
  <2>2. PicksInTurn' /\ SourcesInTurn'
    BY <1>2, <1>3, <1>11 DEF vars, call, picker
  <2> QED
    BY <2>1, <2>2
<1> QED
  BY <1>4, <1>5, <1>6, <1>7, <1>8, <1>9, <1>10, <1>11 DEF Next, Acquire

\* The invariant of the dialer holds of every reachable state.
THEOREM DialerInvariance == Spec => []IInv
<1>1. Init => IInv
  <2> SUFFICES ASSUME Init PROVE IInv
    OBVIOUS
  <2>1. TypeOK /\ CallsInStep
    <3>1. ToSet(<<>>) = {}
      BY DEF ToSet
    <3>2. \A h \in Hosts : cache[h] = NoEntry /\ used[h] = <<>>
      BY DEF Init
    <3>3. <<>> \in [{} -> Nat]
      OBVIOUS
    <3>4. \A h \in Hosts : used[h] \in [ToSet(cache[h].ips) -> Nat]
      <4> SUFFICES ASSUME NEW h \in Hosts PROVE used[h] \in [ToSet(cache[h].ips) -> Nat]
        OBVIOUS
      <4>1. ToSet(cache[h].ips) = {}
        BY <3>1, <3>2 DEF NoEntry
      <4> QED
        BY <3>2, <3>3, <4>1
    <3> QED
      BY <3>4, Shapes, DialerAssumption DEF Init, TypeOK, CallsInStep, NoEntry
  <2>2. PicksInTurn
    BY DEF Init, PicksInTurn, NoEntry
  <2>3. SourcesInTurn
    <3>1. \A s \in 1 .. Len(Sources) : From(s) = {}
      BY DEF Init, From
    <3>2. \A s \in 1 .. Len(Sources) : IsFiniteSet(From(s)) /\ Cardinality(From(s)) = 0
      BY <3>1, FS_EmptySet
    <3>3. \A s \in 1 .. Len(Sources) : Taken[s] = 0
      BY <3>2 DEF Init, Taken
    <3> QED
      BY <3>2, <3>3, Shapes, NoneTaken DEF SourcesInTurn
  <2> QED
    BY <2>1, <2>2, <2>3 DEF IInv
<1>2. IInv /\ [Next]_vars => IInv'
  BY NextPreservesIInv
<1> QED
  BY <1>1, <1>2, PTL DEF Spec

\* However dials, expiries and lookups overlap, no address of an unchanged answer is
\* picked twice more than another, and when no dial is under way the cards have as many
\* attempts, up to one.
THEOREM SpreadIsEven == Spec => []SpreadEvenly
<1>1. IInv => SpreadEvenly
  <2> SUFFICES ASSUME IInv PROVE SpreadEvenly
    OBVIOUS
  <2>1. TypeOK /\ CallsInStep /\ PicksInTurn /\ SourcesInTurn
    BY DEF IInv
  <2>2. ASSUME NEW h \in Hosts, NEW a \in DOMAIN used[h], NEW b \in DOMAIN used[h]
        PROVE  used[h][a] <= used[h][b] + 1
    <3> DEFINE ips == cache[h].ips
               n == Len(ips)
    <3>1. /\ cache[h] \in [ips : Answers \cup {<<>>}, age : 0 .. (TTL + 1), idx : Nat]
          /\ used[h] \in [ToSet(ips) -> Nat]
      BY <2>1 DEF TypeOK
    <3>2. PICK k \in DOMAIN ips, l \in DOMAIN ips : a = ips[k] /\ b = ips[l]
      BY <3>1 DEF ToSet
    <3>3. ips \in Answers
      BY <3>1, <3>2
    <3>4. n \in Nat \ {0} /\ DOMAIN ips = 1 .. n /\ \A j \in 1 .. n : ips[j] \in ToSet(ips)
      BY <3>3, Shapes
    <3>5. InTurn(Picks(h), (cache[h].idx % n) + 1, n)
      BY <2>1, <3>4 DEF PicksInTurn
    <3>6. Picks(h) \in [1 .. n -> Nat] /\ (cache[h].idx % n) + 1 \in 1 .. n
      <4>1. cache[h].idx % n \in 0 .. (n - 1)
        <5>1. cache[h].idx \in Nat
          BY <3>1
        <5> HIDE DEF n
        <5> QED
          BY <3>4, <5>1, NextMod
      <4>2. (cache[h].idx % n) + 1 \in 1 .. n
        <5> HIDE DEF n
        <5> QED
          BY <3>4, <4>1
      <4>3. Picks(h) \in [1 .. n -> Nat]
        BY <3>1, <3>4 DEF Picks
      <4> QED
        BY <4>2, <4>3
    <3>7. Picks(h)[k] <= Picks(h)[l] + 1
      <4> HIDE DEF n
      <4> QED
        BY <3>2, <3>4, <3>5, <3>6, TurnsAreFair
    <3>8. Picks(h)[k] = used[h][a] /\ Picks(h)[l] = used[h][b]
      BY <3>2, <3>4 DEF Picks
    <3> QED
      BY <3>7, <3>8
  <2>3. ASSUME \A c \in Conns : at[c] = "idle", NEW s \in DOMAIN sent, NEW t \in DOMAIN sent
        PROVE  sent[s] <= sent[t] + 1
    <3> DEFINE n == Len(Sources)
    <3>1. n \in Nat /\ sent \in [1 .. n -> Nat] /\ li + 1 \in Nat
      BY <2>1, Shapes DEF TypeOK
    <3>2. n # 0 /\ n \in Nat \ {0}
      BY <3>1
    <3>3. \A r \in 1 .. n : From(r) = {}
      BY <2>1, <2>3 DEF CallsInStep, From
    <3>4. \A r \in 1 .. n : Taken[r] = sent[r]
      BY <3>1, <3>3, FS_EmptySet DEF Taken
    <3>5. InTurn(Taken, ((li + 1) % n) + 1, n)
      BY <2>1, <3>2 DEF SourcesInTurn
    <3>6. Taken \in [1 .. n -> Nat]
      BY <2>1, TakenType
    <3> HIDE DEF n
    <3>7. ((li + 1) % n) + 1 \in 1 .. n
      <4>1. (li + 1) % n \in 0 .. (n - 1)
        BY <3>1, <3>2, NextMod
      <4> QED
        BY <3>2, <4>1
    <3> QED
      BY <3>1, <3>4, <3>5, <3>6, <3>7, TurnsAreFair
  <2> QED
    BY <2>2, <2>3 DEF SpreadEvenly
<1> QED
  BY <1>1, DialerInvariance, PTL

\* A dial gets an address of an answer within its TTL, or the plain destination because
\* its own lookup failed.
THEOREM DestinationsAreFresh == Spec => FreshOrPlain
<1>1. IInv /\ [Next]_vars =>
        \A c \in Conns :
          at[c] \in {"lock", "lookup"} /\ at'[c] = "dial" =>
            LET e == cache'[host[c]] IN
            \/ at[c] = "lookup" /\ dest'[c] = Plain /\ UNCHANGED cache
            \/ Contains(e.ips, dest'[c]) /\ e.age <= TTL
  <2> SUFFICES ASSUME IInv, [Next]_vars, NEW c \in Conns,
                      at[c] \in {"lock", "lookup"}, at'[c] = "dial"
               PROVE  \/ at[c] = "lookup" /\ dest'[c] = Plain /\ UNCHANGED cache
                      \/ Contains(cache'[host[c]].ips, dest'[c]) /\ cache'[host[c]].age <= TTL
    OBVIOUS
  <2>1. host[c] \in Hosts /\ dest[c] = Plain /\ TypeOK /\ PicksInTurn
    BY DEF IInv, CallsInStep
  <2>2. PickCached(c) \/ LookupOk(c) \/ LookupFails(c)
    <3>1. at \in [Conns -> {"idle", "lock", "lookup", "dial"}] /\ at' # at
      BY <2>1 DEF TypeOK
    <3>2. ASSUME NEW d \in Conns, NEW h \in Hosts, BeginDial(d, h) PROVE FALSE
      BY <3>1, <3>2 DEF BeginDial
    <3>3. ASSUME NEW d \in Conns, BeginLookup(d) \/ Connect(d) PROVE FALSE
      BY <3>1, <3>3 DEF BeginLookup, Connect
    <3>4. ASSUME NEW d \in Conns, PickCached(d) \/ LookupOk(d) \/ LookupFails(d) PROVE c = d
      BY <3>1, <3>4 DEF PickCached, LookupOk, LookupFails, Pick
    <3>5. ~Tick /\ ~UNCHANGED vars
      BY <3>1 DEF Tick, vars, call
    <3> QED
      BY <3>2, <3>3, <3>4, <3>5 DEF Next, Acquire
  <2>3. CASE PickCached(c)
    <3> DEFINE h == host[c]
               e == cache[h]
    <3>1. Pick(c, h, e) /\ e \in [ips : Answers, age : 0 .. TTL, idx : Nat]
      BY <2>1, <2>3, DialerAssumption DEF PickCached, TypeOK, Stale
    <3>2. e.age <= TTL /\ e \in [ips : Answers, age : 0 .. (TTL + 1), idx : Nat]
      BY <3>1, DialerAssumption
    <3>3. h \in Hosts /\ e.idx = cache[h].idx
      BY <2>1
    <3> HIDE DEF h, e
    <3>4. cache'[h].ips = e.ips /\ cache'[h].age = e.age /\ Contains(e.ips, dest'[c])
      BY <2>1, <3>1, <3>2, <3>3, PickInTurn
    <3>5. Contains(cache'[h].ips, dest'[c]) /\ cache'[h].age <= TTL
      BY <3>2, <3>4
    <3> QED
      BY <3>5 DEF h
  <2>4. CASE LookupOk(c)
    <3> DEFINE h == host[c]
    <3>1. PICK answer \in Answers : Pick(c, h, Refreshed(h, answer))
      BY <2>4 DEF LookupOk
    <3>2. h \in Hosts
      BY <2>1
    <3> HIDE DEF h
    <3> DEFINE e == Refreshed(h, answer)
    <3>3. /\ e \in [ips : Answers, age : 0 .. (TTL + 1), idx : Nat]
          /\ e.idx = cache[h].idx /\ e.age <= TTL
      BY <2>1, <3>2, DialerAssumption DEF Refreshed, TypeOK
    <3>4. Pick(c, h, e)
      BY <3>1
    <3> HIDE DEF e
    <3>5. cache'[h].ips = e.ips /\ cache'[h].age = e.age /\ Contains(e.ips, dest'[c])
      BY <2>1, <3>2, <3>3, <3>4, PickInTurn
    <3>6. Contains(cache'[h].ips, dest'[c]) /\ cache'[h].age <= TTL
      BY <3>3, <3>5
    <3> QED
      BY <3>6 DEF h
  <2>5. CASE LookupFails(c)
    BY <2>1, <2>5 DEF LookupFails
  <2> QED
    BY <2>2, <2>3, <2>4, <2>5
<1> QED
  BY <1>1, DialerInvariance, PTL DEF Spec, FreshOrPlain

\* Whoever waited for the mutex, an answer is replaced only once it has expired.
THEOREM LookupsAreApart == Spec => LookupsApart
<1>1. IInv /\ [Next]_vars =>
        \A h \in Hosts :
          (\E c \in Conns : at[c] = "lookup" /\ at'[c] = "dial" /\ host[c] = h) => Stale(h)
  BY DEF IInv, CallsInStep
<1> QED
  BY <1>1, DialerInvariance, PTL DEF Spec, LookupsApart

-----------------------------------------------------------------------------
\* tune-network.sh.

\* The settings of an untouched host satisfy the invariant.
LEMMA TuningStarts == TuningInit => TuningIInv
BY TuningAssumption
DEF TuningInit, TuningIInv, TuningTypeOK, Located, SnapshotUnderWay, SnapshotComplete,
    NoEntriesWithoutFile, OwnKnown, RestoredSoFar, BootHasBackup, SnapshotGenuine,
    Values, Empty

\* Every command, interruption and reboot keeps it.
LEMMA TuningIsKept == TuningIInv /\ [TuningNext]_tuningVars => TuningIInv'
<1> SUFFICES ASSUME TuningIInv, [TuningNext]_tuningVars PROVE TuningIInv'
  OBVIOUS
<1> USE TuningAssumption DEF TuningTypeOK, Values
<1> USE DEF TuningIInv, Located, SnapshotUnderWay, SnapshotComplete,
            NoEntriesWithoutFile, OwnKnown, RestoredSoFar,
            BootHasBackup, SnapshotGenuine
<1>1. CASE BeginSnapshot
  BY <1>1 DEF BeginSnapshot, Empty
<1>2. CASE KeepSnapshot
  BY <1>2 DEF KeepSnapshot
<1>3. ASSUME NEW k \in Keys, SaveKey(k) PROVE TuningIInv'
  BY <1>3 DEF SaveKey
<1>4. CASE SnapshotDone
  BY <1>4 DEF SnapshotDone
<1>5. CASE Persist
  BY <1>5 DEF Persist
<1>6. ASSUME NEW k \in Keys, LoadKey(k) PROVE TuningIInv'
  BY <1>6 DEF LoadKey
<1>7. CASE LoadDone
  BY <1>7 DEF LoadDone
<1>8. CASE TuneRoute
  BY <1>8 DEF TuneRoute
<1>9. CASE Revert
  BY <1>9 DEF Revert, Empty
<1>10. ASSUME NEW k \in Keys, RestoreKey(k) PROVE TuningIInv'
  BY <1>10 DEF RestoreKey
<1>11. CASE RestoreDone
  BY <1>11 DEF RestoreDone, Empty
<1>12. ASSUME NEW k \in Keys, DefaultKey(k) PROVE TuningIInv'
  BY <1>12 DEF DefaultKey
<1>13. CASE DefaultDone
  BY <1>13 DEF DefaultDone
<1>14. CASE ResetRoute
  BY <1>14 DEF ResetRoute
<1>15. CASE Interrupt
  BY <1>15 DEF Interrupt, StillWhole
<1>16. CASE Reboot
  BY <1>16 DEF Reboot, StillWhole
<1>17. CASE UNCHANGED tuningVars
  BY <1>17 DEF tuningVars
<1>18. QED
  BY <1>1, <1>2, <1>3, <1>4, <1>5, <1>6, <1>7, <1>8, <1>9, <1>10, <1>11, <1>12, <1>13,
     <1>14, <1>15, <1>16, <1>17 DEF TuningNext, Apply, Undo

\* The snapshot of tune-network.sh keeps what the host had, whatever is
\* interrupted: the invariant holds of every reachable state.
THEOREM TuningInvariance == TuningSpec => []TuningIInv
<1>1. TuningInit => TuningIInv
  BY TuningStarts
<1>2. TuningIInv /\ [TuningNext]_tuningVars => TuningIInv'
  BY TuningIsKept
<1>3. QED
  BY <1>1, <1>2, PTL DEF TuningSpec

\* No value of the script is ever kept as the host's own, up to interrupted
\* snapshots and keys that could not be restored.
THEOREM SnapshotStaysGenuine == TuningSpec => []SnapshotGenuine
<1>1. TuningIInv => SnapshotGenuine
  BY DEF TuningIInv
<1>2. QED
  BY <1>1, TuningInvariance, PTL

\* What is applied at every boot can be reverted.
THEOREM BootIsRevertible == TuningSpec => []BootHasBackup
<1>1. TuningIInv => BootHasBackup
  BY DEF TuningIInv
<1>2. QED
  BY <1>1, TuningInvariance, PTL

\* A revert that runs to its end after a whole snapshot restores every key it
\* did not warn of.
THEOREM RevertIsExact == TuningSpec => RevertRestores
<1>1. TuningIInv /\ [TuningNext]_tuningVars =>
        (pc = "restore" /\ pc' = "unroute" /\ whole => Restored)
  <2> SUFFICES ASSUME TuningIInv, [TuningNext]_tuningVars,
                      pc = "restore", pc' = "unroute", whole
               PROVE Restored
    OBVIOUS
  <2>1. RestoreDone
    BY DEF TuningNext, Apply, Undo, tuningVars, BeginSnapshot,
           KeepSnapshot, SaveKey, SnapshotDone, Persist,
           LoadKey, LoadDone, TuneRoute, Revert,
           RestoreKey, DefaultKey, DefaultDone, ResetRoute,
           Interrupt, Reboot
  <2>2. todo = {} /\ DOMAIN saved = Keys
    BY <2>1 DEF RestoreDone, TuningIInv, SnapshotComplete, Located
  <2>3. \A k \in Keys \ warned : runtime[k] = saved[k] /\ saved[k] = before[k]
    BY <2>2 DEF TuningIInv, RestoredSoFar, SnapshotGenuine
  <2>4. QED
    BY <2>3 DEF Restored
<1>2. QED
  BY <1>1, TuningInvariance, PTL DEF TuningSpec, RevertRestores

===============================================================================
