---------------------------- MODULE SeedingProofs ----------------------------
(***************************************************************************)
(* Proofs about Seeding, and the parts it is made of, for every set of     *)
(* configurations, every width of the integers and every length of the     *)
(* block.                                                                  *)
(*                                                                         *)
(* The properties speak of where a run ends: a row, a missing object, a    *)
(* panic.  IInv says what leads there.  An upload in its group g that no   *)
(* signal has reached has left the objects of the groups before and of     *)
(* this one up to i in the bucket (Seeded), each as long as the labels     *)
(* that make its key say (BucketTrue: labels that differ but have one key  *)
(* have one size).  So a download finds them, and the bytes of its pass    *)
(* are the size of the group times the objects so far, as in the upload,   *)
(* or less after a signal (GroupSoFar); what wraps around in between is    *)
(* ruled out by the product not doing so.                                  *)
(*                                                                         *)
(* PartsInv follows the parts of a body through the calls of Read that     *)
(* fill them (BodyCut) into the bucket (BucketCut); those of a row are a   *)
(* product (RowsCut), and the same as the pairs of object and part in the  *)
(* bucket, as all objects of a group are as long.                          *)
(*                                                                         *)
(* SignalInv is about what follows a signal.  From the end of the pass or  *)
(* the transfer that it reached, the run is idle and stays so: it passes   *)
(* over everything and moves nothing (ShortLastSoFar).  And a pass cannot  *)
(* be whole with an object passed over, as nothing makes up for its bytes; *)
(* so one that is whole has left each of its objects (WholeIsStored).      *)
(***************************************************************************)
EXTENDS Seeding, FiniteSetTheorems, SequenceTheorems, WellFoundedInduction, TLAPS

\* The larger and the smaller of two integers.
LEMMA MaxOfTwo ==
  ASSUME NEW a \in Int, NEW b \in Int
  PROVE  /\ Max({a, b}) = IF a >= b THEN a ELSE b
         /\ Min({a, b}) = IF a <= b THEN a ELSE b
<1>1. \A x \in {a, b} : (\A y \in {a, b} : x >= y) <=> x = IF a >= b THEN a ELSE b
  OBVIOUS
<1>2. \A x \in {a, b} : (\A y \in {a, b} : x <= y) <=> x = IF a <= b THEN a ELSE b
  OBVIOUS
<1> QED
  BY <1>1, <1>2 DEF Max, Min

\* What Wrap makes of an integer is in int64, and what was there stays.
LEMMA Wrapped ==
  ASSUME NEW x \in Int
  PROVE  /\ Wrap(x) \in MinInt..MaxInt
         /\ x \in MinInt..MaxInt => Wrap(x) = x
<1> DEFINE y == x + MaxInt + 1
<1> DEFINE width == 2 * MaxInt + 2
<1>1. MaxInt \in Nat \ {0} /\ width \in Nat \ {0} /\ y \in Int
  BY SettingsAssumption
<1>2. y % width \in 0..(width - 1) /\ (y \in 0..(width - 1) => y % width = y)
  BY <1>1, Z3
<1>3. Wrap(x) = (y % width) - MaxInt - 1
  BY DEF Wrap
<1> HIDE DEF y
<1> QED
  BY <1>1, <1>2, <1>3 DEF MinInt, y

\* The quotient is an integer; of positive numbers it is the floor.
LEMMA Quotient ==
  ASSUME NEW a \in Int, NEW b \in Int \ {0}
  PROVE  /\ Quot(a, b) \in Int
         /\ a > 0 /\ b > 0 => Quot(a, b) \in Nat /\ b * Quot(a, b) <= a
<1>1. Max({a, -a}) \in Nat /\ (a > 0 => Max({a, -a}) = a)
  BY MaxOfTwo
<1>2. Max({b, -b}) \in Nat \ {0} /\ (b > 0 => Max({b, -b}) = b)
  BY MaxOfTwo
<1>3. Max({a, -a}) \div Max({b, -b}) \in Int
  BY <1>1, <1>2
<1>4. a > 0 /\ b > 0 => (a \div b \in Nat) /\ b * (a \div b) <= a
  BY Z3
<1> QED
  BY <1>1, <1>2, <1>3, <1>4 DEF Quot

\* A label that parses is an int64.
LEMMA SizeType ==
  ASSUME NEW label
  PROVE  /\ ParseSize(label) = Err \/ ParseSize(label) \in MinInt..MaxInt
         /\ ParseSize(label) # Err => ParseSize(label) \in Int
<1>1. TooBig \in MinInt..MaxInt /\ MaxInt \in Nat
  BY SettingsAssumption DEF MinInt
<1>2. ASSUME NEW num, NEW m, NEW den PROVE ToInt64(num, m, den) \in MinInt..MaxInt
  BY <1>1 DEF ToInt64
<1>3. ParseSize(label) = Err \/ ParseSize(label) \in MinInt..MaxInt
  BY <1>2, Zenon DEF ParseSize
<1> QED
  BY <1>1, <1>3 DEF MinInt

\* A label whose letters are no unit does not parse, even if they end in one.
LEMMA Endings ==
  ASSUME NEW label \in SizeLabels, ParseSize(label) # Err
  PROVE  label.unit \notin {"kB", "kib"}
<1> DEFINE hits == {k \in DOMAIN Suffixes : Suffixes[k] \in EndingsOf(label.unit)}
<1> DEFINE unit == Suffixes[Min(hits)]
<1>1. hits = {} => label.unit = ""
  BY DEF ParseSize
<1>2. hits # {} => unit = label.unit
  BY DEF ParseSize
<1>3. label.unit = "kib" => hits = {}
  BY DEF EndingsOf
<1>4. label.unit = "kB" => hits = {7}
  BY DEF EndingsOf, Suffixes
<1>5. Min({7}) = 7
  BY DEF Min
<1>6. Suffixes[7] = "B"
  BY DEF Suffixes
<1> HIDE DEF hits
<1> QED
  BY <1>1, <1>2, <1>3, <1>4, <1>5, <1>6

\* Labels of one key that parse mean the same size: no two units differ in case only.
LEMMA SameKeySameSize ==
  ASSUME NEW a \in SizeLabels, NEW b \in SizeLabels, NEW x, NEW y, Key(a, x) = Key(b, y),
         ParseSize(a) # Err, ParseSize(b) # Err
  PROVE  ParseSize(a) = ParseSize(b)
<1>1. a.num = b.num /\ a.den = b.den /\ ToLower(a.unit) = ToLower(b.unit)
  BY DEF Key
<1>2. a.unit \in Units \ {"kB", "kib"} /\ b.unit \in Units \ {"kB", "kib"}
  BY Endings DEF SizeLabels
<1>3. a.unit = b.unit
  BY <1>1, <1>2 DEF ToLower, Units
<1>4. a = b
  BY <1>1, <1>3 DEF SizeLabels
<1> QED
  BY <1>4

\* A group has a key at least, and otherwise one per object, all of its label.
LEMMA KeysOfSpec ==
  ASSUME NEW spec \in SizeGroups
  PROVE  /\ Len(KeysFor(spec)) = Max({1, spec.count}) /\ Len(KeysFor(spec)) \in Nat \ {0}
         /\ DOMAIN KeysFor(spec) = 1..Len(KeysFor(spec))
         /\ \A n \in DOMAIN KeysFor(spec) : \E x : KeysFor(spec)[n] = Key(spec.size, x)
<1>1. Max({1, spec.count}) = IF 1 >= spec.count THEN 1 ELSE spec.count
  BY MaxOfTwo DEF SizeGroups
<1>2. CASE spec.count <= 1
  BY <1>1, <1>2 DEF KeysFor, SizeGroups
<1>3. CASE ~(spec.count <= 1)
  <2>1. KeysFor(spec) = [j \in 1..spec.count |-> Key(spec.size, j)] /\ spec.count \in Nat
    BY <1>3 DEF KeysFor, SizeGroups
  <2>2. KeysFor(spec) \in Seq({Key(spec.size, j) : j \in Int})
    BY <2>1
  <2>3. Len(KeysFor(spec)) = spec.count
    BY <2>1, <2>2
  <2> QED
    BY <1>1, <1>3, <2>1, <2>3
<1> QED
  BY <1>2, <1>3

\* The defaults leave a configuration one, with the same groups and with passes to run.
LEMMA Defaults ==
  ASSUME NEW f \in ConfigFiles
  PROVE  LET cf == WithDefaults(f) IN
         /\ cf \in ConfigFiles /\ cf.sizes = f.sizes
         /\ cf.up.iterations >= 1 /\ cf.down.iterations >= 1
<1> DEFINE down == [f.down EXCEPT !.api = Else(f.down.api, "get"),
                                  !.getObjectType = Else(f.down.getObjectType, "parts"),
                                  !.sink = Else(f.down.sink, "discard"),
                                  !.partSize = ElseLabel(f.down.partSize, DownPart),
                                  !.iterations = ElseOne(f.down.iterations)]
<1> DEFINE up == [f.up EXCEPT !.partSize = ElseLabel(f.up.partSize, UpPart),
                              !.iterations = ElseOne(f.up.iterations)]
<1>1. f.down \in DownSettings /\ f.up \in UpSettings
  BY DEF ConfigFiles
<1>2. down \in DownSettings /\ down.iterations >= 1
  <2>1. /\ Else(f.down.api, "get") \in Words
        /\ Else(f.down.getObjectType, "parts") \in Words
        /\ Else(f.down.sink, "discard") \in Words
    BY <1>1 DEF Else, Words, DownSettings
  <2>2. ElseLabel(f.down.partSize, DownPart) \in PartLabels
    BY <1>1, SettingsAssumption DEF ElseLabel, PartLabels, DownSettings
  <2>3. ElseOne(f.down.iterations) \in Int /\ ElseOne(f.down.iterations) >= 1
    BY <1>1 DEF ElseOne, DownSettings
  <2> QED
    BY <1>1, <2>1, <2>2, <2>3 DEF DownSettings
<1>3. up \in UpSettings /\ up.iterations >= 1
  <2>1. ElseLabel(f.up.partSize, UpPart) \in PartLabels
    BY <1>1, SettingsAssumption DEF ElseLabel, PartLabels, UpSettings
  <2>2. ElseOne(f.up.iterations) \in Int /\ ElseOne(f.up.iterations) >= 1
    BY <1>1 DEF ElseOne, UpSettings
  <2> QED
    BY <1>1, <2>1, <2>2 DEF UpSettings
<1>4. WithDefaults(f) = [f EXCEPT !.down = down, !.up = up]
  BY <1>1 DEF WithDefaults, ConfigFiles, DownSettings, UpSettings
<1> HIDE DEF down, up
<1> QED
  BY <1>2, <1>3, <1>4 DEF ConfigFiles

\* Naturals are well-ordered.
LEMMA Smallest ==
  ASSUME NEW S \in SUBSET Nat, S # {}
  PROVE  \E k \in S : \A j \in S : k <= j
<1> DEFINE Less == {p \in Nat \X Nat : p[1] < p[2]}
<1>1. IsWellFoundedOn(Less, Nat)
  BY NatLessThanWellFounded, Zenon DEF OpToRel
<1>2. \A j, k \in Nat : <<j, k>> \in Less <=> j < k
  OBVIOUS
<1>3. PICK k \in S : \A j \in S : ~(<<j, k>> \in Less)
  <2> HIDE DEF Less
  <2> QED
    BY <1>1, WFMin
<1>4. ASSUME NEW j \in S PROVE k <= j
  <2>1. j \in Nat /\ k \in Nat
    OBVIOUS
  <2>2. ~(j < k)
    <3> HIDE DEF Less
    <3> QED
      BY <1>2, <1>3, <2>1
  <2> QED
    BY <2>1, <2>2
<1> QED
  BY <1>4

\* A finite list of integers has a largest element: the least prefix without one
\* would be one longer than a prefix that has.
LEMMA Largest ==
  ASSUME NEW n \in Nat, NEW f \in [1..n -> Int]
  PROVE  Max({1} \cup {f[k] : k \in 1..n}) \in Int
<1> DEFINE Values(k) == {1} \cup {f[j] : j \in 1..k}
<1> DEFINE HasTop(k) == \E m \in Values(k) : \A v \in Values(k) : m >= v
<1> DEFINE Bad == {k \in 0..n : ~HasTop(k)}
<1>2. Bad = {}
  <2>1. SUFFICES ASSUME Bad # {} PROVE FALSE
    OBVIOUS
  <2>2. PICK k \in Bad : \A j \in Bad : k <= j
    <3>1. Bad \in SUBSET Nat
      OBVIOUS
    <3> HIDE DEF Bad
    <3> QED
      BY <2>1, <3>1, Smallest
  <2>3. k # 0
    <3>1. Values(0) = {1}
      OBVIOUS
    <3> QED
      BY <3>1
  <2>4. k - 1 \in 0..n /\ ~(k <= k - 1)
    BY <2>3
  <2>5. HasTop(k - 1)
    BY <2>2, <2>4
  <2>6. Values(k) = Values(k - 1) \cup {f[k]} /\ f[k] \in Int /\ Values(k - 1) \subseteq Int
    BY <2>3
  <2> HIDE DEF Values
  <2>7. HasTop(k)
    <3>1. PICK m \in Values(k - 1) : \A v \in Values(k - 1) : m >= v
      BY <2>5
    <3>2. CASE m >= f[k]
      BY <2>6, <3>1, <3>2
    <3>3. CASE ~(m >= f[k])
      <4>1. \A v \in Values(k) : f[k] >= v
        BY <2>6, <3>1, <3>3
      <4> QED
        BY <2>6, <4>1
    <3> QED
      BY <3>2, <3>3
  <2> QED
    BY <2>7
<1>3. HasTop(n) /\ Values(n) \subseteq Int
  <2>1. n \in 0..n
    OBVIOUS
  <2>2. HasTop(n)
    <3> HIDE DEF HasTop
    <3> QED
      BY <1>2, <2>1
  <2> QED
    BY <2>2
<1> HIDE DEF Values
<1>4. Max(Values(n)) \in Values(n)
  BY <1>3 DEF Max
<1> QED
  BY <1>3, <1>4 DEF Values

\* What the resolution of a configuration that is not refused yields.
LEMMA PlanOf ==
  ASSUME NEW c \in ConfigFiles, ~Refused(c)
  PROVE  LET p == Plan(c) IN
         /\ p.upObj \in Nat \ {0} /\ p.upPer \in Nat \ {0}
         /\ p.downObj \in Nat \ {0} /\ p.downPer \in Nat \ {0}
         /\ p.upPart \in Int /\ p.downPart \in Int
         /\ p.buffer = GetBuffer(c.down.maxBufferedBytes, p.downObj, p.downPer, p.downPart)
         /\ p.conns = MaxConns(p.upObj * p.upPer, p.downObj * p.downPer)
         /\ p # NoPlan
<1> DEFINE objects == MaxObjectCount(c)
<1>1. objects \in Int
  <2> DEFINE count == [k \in 1..Len(c.sizes) |-> c.sizes[k].count]
  <2>1. c.sizes \in Seq(SizeGroups)
    BY DEF ConfigFiles
  <2>2. /\ Len(c.sizes) \in Nat /\ DOMAIN c.sizes = 1..Len(c.sizes)
        /\ \A k \in 1..Len(c.sizes) : c.sizes[k].count \in Int
    <3>1. /\ Len(c.sizes) \in Nat /\ DOMAIN c.sizes = 1..Len(c.sizes)
          /\ \A k \in 1..Len(c.sizes) : c.sizes[k] \in SizeGroups
      BY <2>1
    <3> QED
      BY <3>1 DEF SizeGroups
  <2>3. {c.sizes[k].count : k \in DOMAIN c.sizes} = {count[k] : k \in 1..Len(c.sizes)}
    BY <2>2
  <2>4. count \in [1..Len(c.sizes) -> Int]
    BY <2>2
  <2> HIDE DEF count
  <2> QED
    BY <2>2, <2>3, <2>4, Largest DEF MaxObjectCount
<1>2. /\ ParseSize(c.down.partSize) \in Int /\ ParseSize(c.up.partSize) \in Int
  BY SizeType DEF Refused
<1>3. ASSUME NEW n \in Int PROVE ObjConc(n, objects) \in Nat \ {0} /\ PerObjConc(n) \in Nat \ {0}
  <2> HIDE DEF objects
  <2> DEFINE m == IF n <= 0 THEN objects ELSE n
  <2>1. m \in Int
    BY <1>1
  <2>2. Max({1, m}) \in Nat \ {0}
    BY <2>1, MaxOfTwo
  <2> QED
    BY <2>2, SettingsAssumption DEF ObjConc, PerObjConc
<1>4. /\ c.up.objectConcurrency \in Int /\ c.up.concurrency \in Int
      /\ c.down.objectConcurrency \in Int /\ c.down.concurrency \in Int
  BY DEF ConfigFiles, UpSettings, DownSettings
<1>5. Plan(c).upObj \in Nat \ {0} /\ Plan(c).upPer \in Nat \ {0}
  BY <1>3, <1>4 DEF Plan
<1>6. Plan(c).downObj \in Nat \ {0} /\ Plan(c).downPer \in Nat \ {0}
  BY <1>3, <1>4 DEF Plan
<1>7. Plan(c).upPart \in Int /\ Plan(c).downPart \in Int
  BY <1>2 DEF Plan
<1>8. Plan(c) # NoPlan
  BY DEF Plan, NoPlan
<1> QED
  BY <1>5, <1>6, <1>7, <1>8 DEF Plan

\* The read-ahead of an object is a part at least and within its share of the budget.
LEMMA BufferOf ==
  ASSUME NEW budget \in Int, NEW obj \in Nat \ {0}, NEW per \in Nat \ {0}, NEW part \in Int
  PROVE  LET b == GetBuffer(budget, obj, per, part) IN
         /\ b \in Int
         /\ b >= part \/ per * part > MaxInt
         /\ budget > 0 => obj * b <= budget \/ b = part
<1>1. CASE budget > 0
  <2>1. GetBuffer(budget, obj, per, part) = Max({Quot(budget, obj), part})
    BY <1>1 DEF GetBuffer
  <2>2. Quot(budget, obj) \in Int /\ obj * Quot(budget, obj) <= budget
    BY <1>1, Quotient
  <2>3. Max({Quot(budget, obj), part})
          = IF Quot(budget, obj) >= part THEN Quot(budget, obj) ELSE part
    BY <2>2, MaxOfTwo
  <2> QED
    BY <2>1, <2>2, <2>3
<1>2. CASE ~(budget > 0)
  <2>1. GetBuffer(budget, obj, per, part) = Max({Wrap(per * part), DefaultBuffer})
    BY <1>2 DEF GetBuffer
  <2>2. per * part \in Int /\ (part >= 0 => per * part >= part)
    BY Z3
  <2>3. Wrap(per * part) \in Int
    BY <2>2, Wrapped, SettingsAssumption DEF MinInt
  <2>4. DefaultBuffer \in Nat \ {0} /\ MaxInt \in Nat
    BY SettingsAssumption
  <2>5. Max({Wrap(per * part), DefaultBuffer})
          = IF Wrap(per * part) >= DefaultBuffer THEN Wrap(per * part) ELSE DefaultBuffer
    BY <2>3, <2>4, MaxOfTwo
  <2>6. part >= 0 /\ ~(per * part > MaxInt) => Wrap(per * part) = per * part
    BY <2>2, <2>4, Wrapped DEF MinInt
  <2> HIDE DEF GetBuffer
  <2> QED
    BY <1>2, <2>1, <2>2, <2>3, <2>4, <2>5, <2>6
<1> QED
  BY <1>1, <1>2

\* Slower is a strict weak order on samples: rates are compared by products.
LEMMA SlowerOrder ==
  ASSUME NEW s \in Samples, NEW t \in Samples, NEW u \in Samples
  PROVE  /\ ~Slower(s, s)
         /\ Slower(s, t) => ~Slower(t, s)
         /\ ~Slower(s, t) /\ ~Slower(t, u) => ~Slower(s, u)
<1> DEFINE b(x) == IF x.secs = 0 THEN 0 ELSE x.bytes
<1> DEFINE d(x) == IF x.secs = 0 THEN 1 ELSE x.secs
<1>1. ASSUME NEW x \in Samples PROVE b(x) \in Int /\ d(x) \in Nat \ {0}
  BY SeedingAssumption DEF Samples
<1>2. \A x, y : Slower(x, y) <=> b(x) * d(y) < b(y) * d(x)
  BY DEF Slower
<1> HIDE DEF b, d
<1>3. ASSUME NEW bs \in Int, NEW bt \in Int, NEW bu \in Int,
             NEW ds \in Nat \ {0}, NEW dt \in Nat \ {0}, NEW du \in Nat \ {0},
             ~(bs * dt < bt * ds), ~(bt * du < bu * dt)
      PROVE  ~(bs * du < bu * ds)
  <2>1. (bs * dt) * du >= (bt * ds) * du
    BY <1>3, Z3
  <2>2. (bt * du) * ds >= (bu * dt) * ds
    BY <1>3, Z3
  <2>3. dt * (bs * du) >= dt * (bu * ds)
    BY <2>1, <2>2, Z3
  <2> QED
    BY <2>3, Z3
<1>4. b(s) * d(t) \in Int /\ b(t) * d(s) \in Int
  BY <1>1
<1>5. ~Slower(s, s)
  BY <1>1, <1>2
<1>6. Slower(s, t) => ~Slower(t, s)
  BY <1>2, <1>4
<1>7. ~Slower(s, t) /\ ~Slower(t, u) => ~Slower(s, u)
  BY <1>1, <1>2, <1>3
<1> QED
  BY <1>5, <1>6, <1>7

\* The resolution of a configuration keeps the budget and has the connections, for a
\* group of any number of objects.
LEMMA PlanIsSound ==
  ASSUME NEW c \in ConfigFiles, ~Refused(c), cfg = c, plan = Plan(c),
         mode \in {"upload", "download"}
  PROVE  /\ BudgetKept
         /\ \A n \in Nat : LET obj == IF mode = "upload" THEN plan.upObj ELSE plan.downObj
                               per == IF mode = "upload" THEN plan.upPer ELSE plan.downPer
                           IN  Min({obj, n}) * per <= InFlight /\ InFlight <= plan.conns
<1> DEFINE up == plan.upObj * plan.upPer
<1> DEFINE down == plan.downObj * plan.downPer
<1>1. /\ plan.upObj \in Nat \ {0} /\ plan.upPer \in Nat \ {0}
      /\ plan.downObj \in Nat \ {0} /\ plan.downPer \in Nat \ {0} /\ plan.downPart \in Int
      /\ plan.buffer = GetBuffer(c.down.maxBufferedBytes, plan.downObj, plan.downPer, plan.downPart)
      /\ plan.conns = MaxConns(up, down)
  BY PlanOf
<1>2. BudgetKept
  <2>1. c.down.maxBufferedBytes \in Int
    BY DEF ConfigFiles, DownSettings
  <2> DEFINE budget == c.down.maxBufferedBytes
  <2> DEFINE b == GetBuffer(budget, plan.downObj, plan.downPer, plan.downPart)
  <2>2. /\ b >= plan.downPart \/ plan.downPer * plan.downPart > MaxInt
        /\ budget > 0 => plan.downObj * b <= budget \/ b = plan.downPart
    BY <1>1, <2>1, BufferOf
  <2> QED
    BY <1>1, <2>2 DEF BudgetKept
<1>3. up \in Nat /\ down \in Nat /\ MinConns \in Nat
  BY <1>1, SettingsAssumption
<1>4. up <= plan.conns /\ down <= plan.conns
  <2> DEFINE S == {up, down, MinConns}
  <2>1. \E x \in S : \A y \in S : x >= y
    <3>1. CASE up >= down /\ up >= MinConns
      BY <1>3, <3>1
    <3>2. CASE down >= up /\ down >= MinConns
      BY <1>3, <3>2
    <3>3. CASE MinConns >= up /\ MinConns >= down
      BY <1>3, <3>3
    <3> QED
      BY <1>3, <3>1, <3>2, <3>3
  <2>2. \A y \in S : Max(S) >= y
    <3> HIDE DEF S
    <3> QED
      BY <2>1 DEF Max
  <2> QED
    BY <1>1, <2>2 DEF MaxConns
<1>5. ASSUME NEW n \in Nat, NEW obj \in Nat \ {0}, NEW per \in Nat \ {0}
      PROVE  Min({obj, n}) * per <= obj * per
  <2>1. Min({obj, n}) \in Nat /\ Min({obj, n}) <= obj
    <3>1. Min({obj, n}) = IF obj <= n THEN obj ELSE n
      BY MaxOfTwo
    <3> QED
      BY <3>1
  <2> HIDE DEF Min
  <2> DEFINE m == Min({obj, n})
  <2>2. m \in Nat /\ m <= obj
    BY <2>1
  <2> HIDE DEF m
  <2>3. m * per <= obj * per
    BY <2>2, Z3
  <2> QED
    BY <2>3 DEF m
<1> QED
  BY <1>1, <1>2, <1>3, <1>4, <1>5 DEF InFlight

\* A list of samples has one that none is faster than: the shortest prefix without one
\* would be one longer than a prefix that has.
LEMMA Fastest ==
  ASSUME NEW ss \in Seq(Samples), ss # <<>>
  PROVE  \E m \in DOMAIN ss : \A k \in DOMAIN ss : ~Slower(ss[m], ss[k])
<1> DEFINE Top(m, n) == \A k \in 1..n : ~Slower(ss[m], ss[k])
<1> DEFINE Bad == {n \in 1..Len(ss) : ~\E m \in 1..n : Top(m, n)}
<1>1. DOMAIN ss = 1..Len(ss) /\ Len(ss) \in Nat \ {0} /\ \A k \in 1..Len(ss) : ss[k] \in Samples
  BY EmptySeq, LenProperties, ElementOfSeq
<1>2. Bad = {}
  <2>1. SUFFICES ASSUME Bad # {} PROVE FALSE
    OBVIOUS
  <2>2. PICK n \in Bad : \A j \in Bad : n <= j
    <3>1. Bad \in SUBSET Nat
      BY <1>1
    <3> HIDE DEF Bad
    <3> QED
      BY <2>1, <3>1, Smallest
  <2>3. n \in 1..Len(ss) /\ ~\E m \in 1..n : Top(m, n)
    OBVIOUS
  <2>4. n # 1
    <3>1. ~Slower(ss[1], ss[1])
      BY <1>1, <2>3, SlowerOrder
    <3> QED
      BY <2>3, <3>1
  <2>5. n - 1 \in 1..Len(ss) /\ n - 1 \notin Bad
    <3>1. n - 1 \in 1..Len(ss) /\ ~(n <= n - 1)
      BY <1>1, <2>3, <2>4
    <3> HIDE DEF Bad
    <3> QED
      BY <2>2, <3>1
  <2>6. PICK m \in 1..(n - 1) : Top(m, n - 1)
    BY <2>5
  <2>7. m \in 1..Len(ss) /\ \A k \in 1..n : k \in 1..Len(ss) /\ (k = n \/ k \in 1..(n - 1))
    BY <1>1, <2>3
  <2>8. CASE ~Slower(ss[m], ss[n])
    BY <2>3, <2>6, <2>7, <2>8
  <2>9. CASE Slower(ss[m], ss[n])
    <3>1. ~Slower(ss[n], ss[m]) /\ ~Slower(ss[n], ss[n])
      BY <1>1, <2>3, <2>7, <2>9, SlowerOrder
    <3>2. \A k \in 1..(n - 1) : ~Slower(ss[n], ss[k])
      <4> TAKE k \in 1..(n - 1)
      <4>1. ~Slower(ss[m], ss[k])
        BY <2>6
      <4>2. k \in 1..Len(ss)
        BY <1>1, <2>3
      <4> QED
        BY <1>1, <2>3, <2>7, <3>1, <4>1, <4>2, SlowerOrder
    <3>3. Top(n, n)
      BY <2>7, <3>1, <3>2
    <3> QED
      BY <2>3, <3>3
  <2> QED
    BY <2>8, <2>9
<1>3. Len(ss) \in 1..Len(ss) /\ Len(ss) \notin Bad
  BY <1>1, <1>2
<1> QED
  BY <1>1, <1>3

\* The best sample is one that none is faster than.
LEMMA BestOf ==
  ASSUME NEW ss \in Seq(Samples)
  PROVE  LET best == BestSample(ss) IN
         /\ best \in Samples
         /\ \A k \in DOMAIN ss : ~Slower(best, ss[k])
         /\ best \in Range(ss) \/ ~Slower(ZeroSample, best)
<1> DEFINE better == {m \in DOMAIN ss : /\ Slower(ZeroSample, ss[m])
                                        /\ \A k \in DOMAIN ss : ~Slower(ss[m], ss[k])
                                        /\ \A k \in 1..(m - 1) : Slower(ss[k], ss[m])}
<1>1. DOMAIN ss = 1..Len(ss) /\ Len(ss) \in Nat /\ \A k \in 1..Len(ss) : ss[k] \in Samples
  BY LenProperties, ElementOfSeq
<1>2. ZeroSample \in Samples
  BY SeedingAssumption DEF ZeroSample, Samples
<1>3. CASE better = {}
  <2>1. BestSample(ss) = ZeroSample
    BY <1>3 DEF BestSample
  <2>2. ASSUME NEW n \in DOMAIN ss, Slower(ZeroSample, ss[n]) PROVE FALSE
    <3> DEFINE Tops == {m \in DOMAIN ss : \A k \in DOMAIN ss : ~Slower(ss[m], ss[k])}
    <3>1. Tops # {} /\ Tops \in SUBSET Nat
      <4>1. ss # <<>>
        BY <2>2
      <4>2. \E m \in DOMAIN ss : \A k \in DOMAIN ss : ~Slower(ss[m], ss[k])
        BY <4>1, Fastest
      <4>3. Tops # {}
        BY <4>2
      <4>4. Tops \in SUBSET Nat
        BY <1>1
      <4> QED
        BY <4>3, <4>4
    <3>2. PICK m \in Tops : \A j \in Tops : m <= j
      <4> HIDE DEF Tops
      <4> QED
        BY <3>1, Smallest
    <3>3. m \in 1..Len(ss) /\ \A k \in 1..Len(ss) : ~Slower(ss[m], ss[k])
      BY <1>1
    <3>4. Slower(ZeroSample, ss[m])
      BY <1>1, <1>2, <2>2, <3>3, SlowerOrder
    <3>5. ASSUME NEW k \in 1..(m - 1) PROVE Slower(ss[k], ss[m])
      <4>1. k \in 1..Len(ss) /\ ~(m <= k)
        BY <1>1, <3>3
      <4>2. k \notin Tops
        <5> HIDE DEF Tops
        <5> QED
          BY <3>2, <4>1
      <4>3. PICK j \in 1..Len(ss) : Slower(ss[k], ss[j])
        BY <1>1, <4>1, <4>2
      <4> QED
        BY <1>1, <3>3, <4>1, <4>3, SlowerOrder
    <3>6. m \in better
      BY <1>1, <3>3, <3>4, <3>5
    <3> QED
      BY <1>3, <3>6
  <2>3. ~Slower(ZeroSample, ZeroSample)
    BY <1>2, SlowerOrder
  <2> QED
    BY <1>2, <2>1, <2>2, <2>3
<1>4. CASE better # {}
  <2>1. PICK m \in better : BestSample(ss) = ss[m]
    <3>1. BestSample(ss) = ss[CHOOSE m \in better : TRUE]
      BY <1>4 DEF BestSample
    <3> QED
      BY <1>4, <3>1
  <2>2. ss[m] \in Samples /\ ss[m] \in Range(ss) /\ \A k \in DOMAIN ss : ~Slower(ss[m], ss[k])
    BY <1>1 DEF Range
  <2> QED
    BY <2>1, <2>2
<1> QED
  BY <1>3, <1>4

\* The median is a sample; no more than half of them are slower, and no more than half
\* are faster.
LEMMA MedianOf ==
  ASSUME NEW ss \in Seq(Samples), NEW median \in MedianSamples(ss)
  PROVE  /\ median \in Samples
         /\ ss # <<>> =>
              /\ median \in Range(ss)
              /\ 2 * Cardinality({k \in DOMAIN ss : Slower(ss[k], median)}) <= Len(ss)
              /\ 2 * Cardinality({k \in DOMAIN ss : Slower(median, ss[k])}) <= Len(ss)
<1>1. DOMAIN ss = 1..Len(ss) /\ Len(ss) \in Nat /\ \A k \in 1..Len(ss) : ss[k] \in Samples
  BY LenProperties, ElementOfSeq
<1>2. CASE ss = <<>>
  BY <1>2, SeedingAssumption DEF MedianSamples, ZeroSample, Samples
<1>3. CASE ss # <<>>
  <2>1. PICK m \in DOMAIN ss :
          /\ median = ss[m]
          /\ Cardinality({k \in DOMAIN ss : Slower(ss[k], ss[m])}) <= Len(ss) \div 2
          /\ Cardinality({k \in DOMAIN ss : ~Slower(ss[m], ss[k])}) > Len(ss) \div 2
    BY <1>3 DEF MedianSamples
  <2> DEFINE slower == {k \in DOMAIN ss : Slower(ss[k], median)}
  <2> DEFINE others == {k \in DOMAIN ss : ~Slower(median, ss[k])}
  <2> DEFINE faster == {k \in DOMAIN ss : Slower(median, ss[k])}
  <2>2. IsFiniteSet(DOMAIN ss) /\ Cardinality(DOMAIN ss) = Len(ss)
    <3>1. 1 \in Int /\ Len(ss) \in Int /\ (IF 1 > Len(ss) THEN 0 ELSE Len(ss) - 1 + 1) = Len(ss)
      BY <1>1
    <3> QED
      BY <1>1, <3>1, FS_Interval
  <2>3. faster = DOMAIN ss \ others /\ DOMAIN ss \cap others = others
        /\ slower \subseteq DOMAIN ss
    OBVIOUS
  <2>4. IsFiniteSet(others) /\ IsFiniteSet(slower)
    BY <2>2, FS_Subset
  <2>5. Cardinality(faster) = Len(ss) - Cardinality(others)
    <3> DEFINE all == DOMAIN ss
    <3>1. IsFiniteSet(all) /\ faster = all \ others /\ all \cap others = others
      BY <2>2, <2>3
    <3> HIDE DEF all, faster, others
    <3>2. Cardinality(all \ others) = Cardinality(all) - Cardinality(all \cap others)
      BY <3>1, FS_Difference
    <3> QED
      BY <2>2, <3>1, <3>2 DEF all
  <2>6. Cardinality(others) \in Nat /\ Cardinality(slower) \in Nat
    BY <2>4, FS_CardinalityType
  <2>7. Cardinality(slower) <= Len(ss) \div 2 /\ Cardinality(others) > Len(ss) \div 2
    BY <2>1
  <2> HIDE DEF slower, others, faster
  <2>8. 2 * Cardinality(slower) <= Len(ss) /\ 2 * Cardinality(faster) <= Len(ss)
    BY <1>1, <2>5, <2>6, <2>7
  <2>9. median \in Samples /\ median \in Range(ss)
    BY <1>1, <2>1 DEF Range
  <2> QED
    BY <2>8, <2>9 DEF slower, faster
<1> QED
  BY <1>2, <1>3

-----------------------------------------------------------------------------

\* One call of Read, one copy or one return keeps what is known of the stream.
LEMMA Streaming ==
  ASSUME ReaderInv, ReaderNext
  PROVE  ReaderInv' /\ UNCHANGED asked
<1>1. PatternLen \in Nat \ {0}
  BY ReaderAssumption
<1>2. /\ ReaderTypeOK /\ InStep /\ PatternRepeats /\ ExactlyAsked
      /\ Len(body) \in Nat
  BY LenProperties DEF ReaderInv, StreamSound, ReaderTypeOK
<1>3. CASE \E len \in Nat \ {0} : Read(len)
  <2>1. PICK len \in Nat \ {0} : Read(len)
    BY <1>3
  <2>2. want' \in Nat \ {0} /\ want' <= remaining /\ total' = 0 /\ want = 0 /\ total = 0
    BY <1>2, <2>1 DEF Read, Least, ReaderTypeOK
  <2>3. UNCHANGED <<asked, remaining, off, body>>
    BY <2>1 DEF Read
  <2>4. ReaderTypeOK' /\ InStep'
    BY <1>2, <2>2, <2>3 DEF ReaderTypeOK, InStep
  <2>5. PatternRepeats' /\ ExactlyAsked'
    BY <1>2, <2>2, <2>3 DEF ReaderTypeOK, PatternRepeats, ExactlyAsked
  <2> QED
    BY <2>3, <2>4, <2>5 DEF ReaderInv, StreamSound
<1>4. CASE Return
  <2>1. ReaderTypeOK' /\ InStep'
    BY <1>2, <1>4 DEF Return, ReaderTypeOK, InStep
  <2>2. PatternRepeats' /\ ExactlyAsked'
    BY <1>2, <1>4 DEF Return, ReaderTypeOK, InStep, PatternRepeats, ExactlyAsked
  <2> QED
    BY <1>4, <2>1, <2>2 DEF ReaderInv, StreamSound, Return
<1>5. CASE Copy
  <2> DEFINE n == Least(want - total, PatternLen - off)
  <2> DEFINE piece == [k \in 1..n |-> off + k - 1]
  <2>1. n \in Nat \ {0} /\ n <= want - total /\ off + n <= PatternLen
    BY <1>1, <1>2, <1>5 DEF Copy, Least, ReaderTypeOK
  <2>2. /\ body' = body \o piece /\ off' = (off + n) % PatternLen /\ total' = total + n
        /\ UNCHANGED <<asked, remaining, want>>
    BY <1>5 DEF Copy
  <2> HIDE DEF n
  <2>20. /\ asked \in Int /\ remaining \in Int /\ off \in 0..(PatternLen - 1)
         /\ want \in Nat \ {0} /\ total \in 0..want /\ total < want /\ want <= remaining
         /\ Len(body) + (remaining - total) = asked
    BY <1>2, <1>5 DEF ReaderTypeOK, InStep, Copy
  <2>3. piece \in Seq(0..(PatternLen - 1)) /\ Len(piece) = n /\ DOMAIN piece = 1..n
    <3>1. \A k \in 1..n : off + k - 1 \in 0..(PatternLen - 1)
      BY <1>1, <1>2, <2>1 DEF ReaderTypeOK
    <3>2. piece \in [1..n -> 0..(PatternLen - 1)]
      BY <3>1
    <3>3. piece \in Seq(0..(PatternLen - 1))
      BY <2>1, <3>2
    <3> QED
      BY <2>1, <3>2, <3>3, LenProperties
  <2>4. /\ body' \in Seq(0..(PatternLen - 1)) /\ Len(body') = Len(body) + n
        /\ \A k \in 1..Len(body') :
             body'[k] = IF k <= Len(body) THEN body[k] ELSE piece[k - Len(body)]
    <3>1. body \in Seq(0..(PatternLen - 1))
      BY <1>2 DEF ReaderTypeOK
    <3> HIDE DEF piece
    <3>2. /\ body \o piece \in Seq(0..(PatternLen - 1))
          /\ Len(body \o piece) = Len(body) + Len(piece)
          /\ \A k \in 1..(Len(body) + Len(piece)) : (body \o piece)[k] =
               IF k <= Len(body) THEN body[k] ELSE piece[k - Len(body)]
      BY <2>3, <3>1, ConcatProperties
    <3> QED
      BY <2>2, <2>3, <3>2
  <2>5. PICK q \in Nat : Len(body) = q * PatternLen + off
    <3>1. /\ Len(body) = PatternLen * (Len(body) \div PatternLen) + (Len(body) % PatternLen)
          /\ Len(body) \div PatternLen \in Nat
      BY <1>1, <1>2, Z3
    <3>2. off = Len(body) % PatternLen
      BY <1>2 DEF InStep
    <3>3. PatternLen * (Len(body) \div PatternLen) = (Len(body) \div PatternLen) * PatternLen
      BY <1>1, <3>1, Z3
    <3> QED
      BY <3>1, <3>2, <3>3
  <2>6. ASSUME NEW r \in Nat, NEW p \in Nat, p < PatternLen
        PROVE  (r * PatternLen + p) % PatternLen = p
    BY <1>1, <2>6, Z3
  <2>7. off' = Len(body') % PatternLen /\ off' \in 0..(PatternLen - 1)
    <3>1. CASE off + n < PatternLen
      <4>1. off + n \in Nat /\ (0 * PatternLen + (off + n)) % PatternLen = off + n
        BY <1>1, <1>2, <2>1, <2>6, <3>1 DEF ReaderTypeOK
      <4>2. off' = off + n
        BY <1>1, <2>2, <4>1
      <4>3. Len(body') = q * PatternLen + (off + n)
        BY <1>1, <1>2, <2>1, <2>4, <2>5 DEF ReaderTypeOK
      <4>4. (q * PatternLen + (off + n)) % PatternLen = off + n
        BY <2>6, <3>1, <4>1
      <4> QED
        BY <1>1, <3>1, <4>1, <4>2, <4>3, <4>4
    <3>2. CASE off + n = PatternLen
      <4>1. (1 * PatternLen + 0) % PatternLen = 0
        BY <1>1, <2>6
      <4>2. off' = 0
        BY <1>1, <2>2, <3>2, <4>1
      <4>3. Len(body') = q * PatternLen + PatternLen
        BY <1>1, <1>2, <2>1, <2>4, <2>5, <3>2 DEF ReaderTypeOK
      <4>4. q * PatternLen + PatternLen = (q + 1) * PatternLen + 0
        BY <1>1, Z3
      <4>5. ((q + 1) * PatternLen + 0) % PatternLen = 0
        BY <1>1, <2>6
      <4> QED
        BY <1>1, <4>2, <4>3, <4>4, <4>5
    <3> QED
      BY <1>1, <1>2, <2>1, <3>1, <3>2 DEF ReaderTypeOK
  <2>8. ReaderTypeOK' /\ InStep'
    <3>1. total' \in 0..want'
      BY <2>1, <2>2, <2>20
    <3>2. ReaderTypeOK'
      BY <2>2, <2>4, <2>7, <2>20, <3>1 DEF ReaderTypeOK
    <3>3. Len(body') + (remaining' - total') = asked'
      BY <1>2, <2>1, <2>2, <2>4, <2>20
    <3> QED
      BY <2>2, <2>7, <2>20, <3>2, <3>3 DEF InStep
  <2>9. PatternRepeats'
    <3>1. ASSUME NEW k \in 1..Len(body') PROVE body'[k] = (k - 1) % PatternLen
      <4>1. CASE k <= Len(body)
        <5>1. k \in 1..Len(body)
          BY <1>2, <2>1, <2>4, <3>1, <4>1
        <5> QED
          BY <1>2, <2>4, <3>1, <4>1, <5>1 DEF PatternRepeats
      <4>2. CASE ~(k <= Len(body))
        <5> DEFINE j == k - Len(body)
        <5>1. j \in 1..n
          BY <1>2, <2>1, <2>4, <3>1, <4>2
        <5>2. body'[k] = off + j - 1 /\ off + j - 1 \in Nat /\ off + j - 1 < PatternLen
          <6>1. body'[k] = piece[j]
            BY <2>4, <3>1, <4>2
          <6>2. piece[j] = off + j - 1
            BY <5>1
          <6> QED
            BY <1>1, <2>1, <2>20, <5>1, <6>1, <6>2
        <5>3. k - 1 = q * PatternLen + (off + j - 1)
          BY <1>1, <1>2, <2>5, <3>1 DEF ReaderTypeOK
        <5> QED
          BY <2>6, <5>2, <5>3
      <4> QED
        BY <4>1, <4>2
    <3> QED
      BY <3>1 DEF PatternRepeats
  <2>10. ExactlyAsked'
    <3>1. asked > 0
      BY <1>2, <2>20
    <3>2. remaining' >= want' /\ asked' = asked
      BY <2>2, <2>20
    <3>3. Len(body') + (remaining' - total') = asked'
      BY <2>8 DEF InStep
    <3> QED
      BY <2>20, <3>1, <3>2, <3>3 DEF ExactlyAsked
  <2> QED
    BY <2>2, <2>8, <2>9, <2>10 DEF ReaderInv, StreamSound
<1> QED
  BY <1>3, <1>4, <1>5 DEF ReaderNext

\* A reader just made has yielded nothing.
LEMMA Opening ==
  ASSUME NEW size \in Int
  PROVE  /\ Made(size) => ReaderInv
         /\ Open(size) => ReaderInv' /\ asked' = size
<1>1. 0 % PatternLen = 0 /\ 0 \in 0..(PatternLen - 1) /\ 0 \in Nat /\ 0 \in 0..0
  BY ReaderAssumption, Z3
<1>2. <<>> \in Seq(0..(PatternLen - 1)) /\ Len(<<>>) = 0 /\ 1..0 = {}
  BY EmptySeq
<1>3. Made(size) => ReaderInv
  BY <1>1, <1>2 DEF Made, ReaderInv, ReaderTypeOK, InStep, StreamSound, PatternRepeats, ExactlyAsked
<1>4. Open(size) => ReaderInv' /\ asked' = size
  BY <1>1, <1>2 DEF Open, ReaderInv, ReaderTypeOK, InStep, StreamSound, PatternRepeats, ExactlyAsked
<1> QED
  BY <1>3, <1>4

-----------------------------------------------------------------------------

\* What the types say of the configuration in force.
LEMMA Facts ==
  ASSUME TypeOK, Configured
  PROVE  /\ file \in ConfigFiles /\ cfg \in ConfigFiles /\ cfg.sizes = file.sizes
         /\ DOMAIN cfg.sizes = 1..Len(cfg.sizes) /\ Len(cfg.sizes) \in Nat
         /\ \A k \in DOMAIN cfg.sizes :
              /\ cfg.sizes[k] \in SizeGroups /\ cfg.sizes[k].size \in SizeLabels
              /\ Objects(k) = Len(KeysFor(cfg.sizes[k])) /\ Objects(k) \in Nat \ {0}
              /\ DOMAIN KeysFor(cfg.sizes[k]) = 1..Objects(k)
              /\ PerFileSize(k) # Err => PerFileSize(k) \in Int
              /\ ParseSize(cfg.sizes[k].size) # Err => ParseSize(cfg.sizes[k].size) \in Int
         /\ Section.warmup \in Int /\ Section.iterations \in Int
         /\ main # "load" => Section.iterations >= 1
         /\ plan # NoPlan =>
              /\ plan.upPart \in Int /\ InFlight \in Int /\ PartInUse \in Nat \ {0}
<1>1. file \in ConfigFiles
  BY SeedingAssumption DEF TypeOK
<1>2. cfg \in ConfigFiles /\ cfg.sizes = file.sizes
  BY <1>1, Defaults DEF Configured
<1>3. main # "load" => cfg.up.iterations >= 1 /\ cfg.down.iterations >= 1
  BY <1>1, Defaults DEF Configured
<1>4. /\ DOMAIN cfg.sizes = 1..Len(cfg.sizes) /\ Len(cfg.sizes) \in Nat
      /\ \A k \in 1..Len(cfg.sizes) : cfg.sizes[k] \in SizeGroups
  <2>1. cfg.sizes \in Seq(SizeGroups)
    BY <1>2 DEF ConfigFiles
  <2> QED
    BY <2>1, LenProperties, ElementOfSeq
<1>5. ASSUME NEW k \in DOMAIN cfg.sizes
      PROVE  /\ cfg.sizes[k] \in SizeGroups /\ cfg.sizes[k].size \in SizeLabels
             /\ Objects(k) = Len(KeysFor(cfg.sizes[k])) /\ Objects(k) \in Nat \ {0}
             /\ DOMAIN KeysFor(cfg.sizes[k]) = 1..Objects(k)
             /\ PerFileSize(k) # Err => PerFileSize(k) \in Int
             /\ ParseSize(cfg.sizes[k].size) # Err => ParseSize(cfg.sizes[k].size) \in Int
  <2>1. cfg.sizes[k] \in SizeGroups
    BY <1>4, <1>5
  <2>2. cfg.sizes[k].size \in SizeLabels
    BY <2>1 DEF SizeGroups
  <2>3. Objects(k) = Len(KeysFor(cfg.sizes[k])) /\ Objects(k) \in Nat \ {0}
        /\ DOMAIN KeysFor(cfg.sizes[k]) = 1..Objects(k)
    BY <2>1, KeysOfSpec DEF Objects, Spec
  <2>4. ParseSize(cfg.sizes[k].size) # Err => ParseSize(cfg.sizes[k].size) \in Int
    BY SizeType
  <2>5. PerFileSize(k) # Err => PerFileSize(k) \in Int
    BY <2>4 DEF PerFileSize, Spec
  <2> QED
    BY <2>1, <2>2, <2>3, <2>4, <2>5
<1>6. /\ cfg.up.warmup \in Int /\ cfg.up.iterations \in Int
      /\ cfg.down.warmup \in Int /\ cfg.down.iterations \in Int
  BY <1>2 DEF ConfigFiles, UpSettings, DownSettings
<1>7. ASSUME plan # NoPlan
      PROVE  plan.upPart \in Int /\ InFlight \in Int /\ PartInUse \in Nat \ {0}
  <2>1. ~Refused(cfg) /\ plan = Plan(cfg)
    BY <1>7 DEF Configured
  <2>2. /\ plan.upObj \in Nat \ {0} /\ plan.upPer \in Nat \ {0}
        /\ plan.downObj \in Nat \ {0} /\ plan.downPer \in Nat \ {0} /\ plan.upPart \in Int
    BY <1>2, <2>1, PlanOf
  <2>3. InFlight \in Int
    BY <2>2 DEF InFlight
  <2>4. PartInUse \in Nat \ {0}
    BY <2>2, SeedingAssumption DEF PartInUse
  <2> QED
    BY <2>2, <2>3, <2>4
<1> QED
  BY <1>1, <1>2, <1>3, <1>4, <1>5, <1>6, <1>7 DEF Section

\* Rows stay true while their run stays.
LEMMA RowsKept ==
  ASSUME RowsTrue, UNCHANGED <<mode, cfg, rows>>, cancelled => cancelled'
  PROVE  RowsTrue'
BY DEF RowsTrue, RowTrue, Countable, Spec, WholeOrCut, Whole, PassesKept, Section,
       MedianInTheMiddle, BestIsFastest

\* A run starts in IInv.
LEMMA InitEstablishesIInv ==
  ASSUME Init
  PROVE  IInv
<1>1. ReaderInv
  BY Opening DEF Init
<1>2. TypeOK
  <2>1. <<>> \in Seq(Samples) /\ <<>> \in Seq(Rows) /\ DOMAIN <<>> = {}
    BY EmptySeq
  <2>2. cancelled \in BOOLEAN
    BY DEF Init
  <2> QED
    BY <2>1, <2>2 DEF Init, TypeOK, Running
<1>3. Configured /\ InLoops
  BY DEF Init, Configured, InLoops, Running, InGroup
<1>4. DOMAIN s3 = {} /\ DOMAIN rows = {}
  BY DEF Init
<1>5. BucketTrue /\ Seeded
  BY <1>4 DEF Init, BucketTrue, Seeded, Running, InGroup
<1>6. GroupSoFar /\ RowsTrue /\ PanicIsZeroPart /\ NothingMissing
  BY <1>4 DEF Init, GroupSoFar, MovedBy, InGroup, RowsTrue, PanicIsZeroPart, NothingMissing
<1> QED
  BY <1>1, <1>2, <1>3, <1>5, <1>6 DEF IInv

\* No bytes of less than j objects, or as many as that, are out of range.
LEMMA Upto ==
  ASSUME NEW size \in Nat, NEW j \in Nat \ {0}
  PROVE  size * (j - 1) \in 0..(size * (j - 1))
<1>1. size * (j - 1) \in Nat
  BY Z3
<1> QED
  BY <1>1

\* One more object of a group adds its size to the bytes of a pass or is passed over.
\* Neither leaves int64, as long as the bytes of the group do not; and what is whole
\* after it was so before.
LEMMA Adding ==
  ASSUME NEW size \in Nat, NEW n \in Nat, NEW j \in 1..n, size * n <= MaxInt,
         NEW b \in 0..(size * (j - 1))
  PROVE  /\ Wrap(b + size) \in 0..(size * j) /\ b \in 0..(size * j)
         /\ Wrap(b + size) = size * j <=> b = size * (j - 1)
         /\ size > 0 => b # size * j
<1>1. size * j <= size * n /\ size * j \in Nat
  BY Z3
<1>2. size * (j - 1) + size = size * j /\ size * (j - 1) \in Nat
  BY Z3
<1>3. MaxInt \in Nat /\ size * n \in Nat
  BY SettingsAssumption
<1>4. b + size \in 0..(size * j) /\ b + size \in MinInt..MaxInt
  BY <1>1, <1>2, <1>3 DEF MinInt
<1>5. Wrap(b + size) = b + size
  BY <1>4, Wrapped
<1> QED
  BY <1>1, <1>2, <1>4, <1>5

\* So they do when a true row is added.
LEMMA RowsGrow ==
  ASSUME RowsTrue, rows \in Seq(Rows), NEW r \in Rows, RowTrue(r), rows' = Append(rows, r),
         UNCHANGED <<mode, cfg, cancelled>>
  PROVE  RowsTrue'
<1>1. /\ DOMAIN rows = 1..Len(rows) /\ Len(rows) \in Nat
      /\ DOMAIN rows' = 1..(Len(rows) + 1)
      /\ \A k \in 1..(Len(rows) + 1) :
           rows'[k] = IF k <= Len(rows) THEN rows[k] ELSE r
  BY LenProperties, AppendProperties
<1>2. ASSUME NEW k \in 1..(Len(rows) + 1) PROVE RowTrue(rows'[k])
  <2>1. CASE k <= Len(rows)
    BY <1>1, <1>2, <2>1 DEF RowsTrue
  <2>2. CASE ~(k <= Len(rows))
    BY <1>1, <1>2, <2>2
  <2> QED
    BY <2>1, <2>2
<1>3. ASSUME NEW row PROVE RowTrue(row)' <=> RowTrue(row)
  BY DEF RowTrue, Countable, Spec, WholeOrCut, Whole, PassesKept, Section, MedianInTheMiddle,
         BestIsFastest
<1> QED
  BY <1>1, <1>2, <1>3 DEF RowsTrue

\* One step preserves IInv; an action at a time, and under it a conjunct at a time.
LEMMA StepKeepsIInv ==
  ASSUME IInv, [Next]_vars
  PROVE  IInv'
<1>1. /\ TypeOK /\ ReaderInv /\ Configured /\ InLoops /\ BucketTrue /\ Seeded
      /\ GroupSoFar /\ RowsTrue /\ PanicIsZeroPart /\ NothingMissing
  BY DEF IInv
<1>2. /\ file \in ConfigFiles /\ cfg \in ConfigFiles /\ cfg.sizes = file.sizes
      /\ DOMAIN cfg.sizes = 1..Len(cfg.sizes) /\ Len(cfg.sizes) \in Nat
      /\ Section.warmup \in Int /\ Section.iterations \in Int
      /\ main # "load" => Section.iterations >= 1
      /\ plan # NoPlan =>
           /\ plan.upPart \in Int /\ InFlight \in Int /\ PartInUse \in Nat \ {0}
      /\ mode \in {"upload", "download"}
      /\ main \in {"load", "check", "group", "pass", "object", "body",
                   "done", "error", "missing", "panic"}
      /\ g \in Nat \ {0} /\ it \in Nat /\ i \in Nat /\ bytes \in Int
      /\ samples \in Seq(Samples) /\ rows \in Seq(Rows) /\ filled \in Nat /\ cut \in Nat
      /\ asked \in Int /\ total \in Nat
  <2>1. total \in Nat /\ asked \in Int
    BY <1>1 DEF ReaderInv, ReaderTypeOK
  <2> QED
    BY <1>1, <2>1, Facts DEF TypeOK, Running
<1>3. \A k \in DOMAIN cfg.sizes :
        /\ cfg.sizes[k] \in SizeGroups /\ cfg.sizes[k].size \in SizeLabels
        /\ Objects(k) = Len(KeysFor(cfg.sizes[k])) /\ Objects(k) \in Nat \ {0}
        /\ DOMAIN KeysFor(cfg.sizes[k]) = 1..Objects(k)
        /\ PerFileSize(k) # Err => PerFileSize(k) \in Int
        /\ ParseSize(cfg.sizes[k].size) # Err => ParseSize(cfg.sizes[k].size) \in Int
  BY <1>1, Facts
<1>4. ASSUME UNCHANGED vars PROVE IInv'
  <2>1. UNCHANGED <<file, mode, main, cfg, plan, cancelled, s3, seeding, g, it, i, bytes, samples, rows,
                    filled, cut, asked, remaining, off, want, total, body>>
    BY <1>4 DEF vars, process, loop, cutter, readerVars
  <2>2. TypeOK' /\ ReaderInv'
    BY <1>1, <2>1 DEF TypeOK, ReaderInv, ReaderTypeOK, InStep, StreamSound, PatternRepeats,
                      ExactlyAsked
  <2>3. Configured' /\ InLoops'
    BY <1>1, <2>1 DEF Configured, InLoops, AllPasses, Section, PerFileSize, Spec, Objects
  <2>4. BucketTrue' /\ Seeded'
    BY <1>1, <2>1 DEF BucketTrue, Seeded, Stored, AllPasses, Section, Spec
  <2>5. GroupSoFar'
    BY <1>1, <2>1 DEF GroupSoFar, MovedBy, Counts, PerFileSize, Spec, Objects, Section
  <2>6. RowsTrue' /\ PanicIsZeroPart' /\ NothingMissing'
    BY <1>1, <2>1, RowsKept DEF PanicIsZeroPart, NothingMissing, Section
  <2> QED
    BY <2>2, <2>3, <2>4, <2>5, <2>6 DEF IInv
<1>5. CASE Load
  <2>1. /\ Stored(g)' <=> Stored(g)
        /\ Stored(g - 1)' <=> Stored(g - 1)
        /\ Stored(Len(file.sizes))' <=> Stored(Len(file.sizes))
    BY <1>5 DEF Load, process, loop, Stored
  <2>2. TypeOK'
    BY <1>1, <1>2, <1>5 DEF Load, process, loop, cutter, TypeOK, Running
  <2>3. ReaderInv'
    BY <1>1, <1>5 DEF Load, readerVars, ReaderInv, ReaderTypeOK, InStep, StreamSound,
                     PatternRepeats, ExactlyAsked
  <2>4. Configured'
    BY <1>1, <1>2, <1>5 DEF Load, process, loop, cutter, Configured, Running
  <2>5. InLoops'
    BY <1>1, <1>2, <1>5 DEF Load, process, loop, cutter, InLoops, InGroup
  <2>6. BucketTrue'
    BY <1>1, <1>2, <1>5 DEF Load, process, loop, cutter, BucketTrue
  <2>7. Seeded'
    BY <1>1, <1>2, <2>1, <1>5 DEF Load, process, loop, cutter, Seeded, Running, InGroup
  <2>8. GroupSoFar'
    BY <1>1, <1>2, <1>5 DEF Load, process, loop, cutter, GroupSoFar, MovedBy, InGroup
  <2>9. RowsTrue'
    <3>1. rows' = <<>>
      BY <1>1, <1>5 DEF Load, loop, Configured
    <3>2. DOMAIN rows' = {}
      BY <3>1
    <3> QED
      BY <3>2 DEF RowsTrue
  <2>10. PanicIsZeroPart'
    BY <1>1, <1>2, <1>5 DEF Load, process, loop, cutter, PanicIsZeroPart
  <2>11. NothingMissing'
    BY <1>1, <1>2, <1>5 DEF Load, process, loop, cutter, NothingMissing
  <2> QED
    BY <2>2, <2>3, <2>4, <2>5, <2>6, <2>7, <2>8, <2>9, <2>10, <2>11 DEF IInv
<1>6. CASE Refuse
  <2>1. /\ Objects(g)' = Objects(g) /\ PerFileSize(g)' = PerFileSize(g) /\ Spec(g)' = Spec(g)
        /\ Section' = Section /\ AllPasses' = AllPasses /\ (Counts(g)' <=> Counts(g))
    BY <1>6 DEF Refuse, process, loop, Objects, PerFileSize, Spec, Section, AllPasses, Counts
  <2>2. /\ Stored(g)' <=> Stored(g)
        /\ Stored(g - 1)' <=> Stored(g - 1)
        /\ Stored(Len(file.sizes))' <=> Stored(Len(file.sizes))
    BY <1>6 DEF Refuse, process, loop, Stored
  <2>3. TypeOK'
    BY <1>1, <1>2, <1>6 DEF Refuse, process, loop, cutter, TypeOK, Running
  <2>4. ReaderInv'
    BY <1>1, <1>6 DEF Refuse, readerVars, ReaderInv, ReaderTypeOK, InStep, StreamSound,
                     PatternRepeats, ExactlyAsked
  <2>5. Configured'
    BY <1>1, <1>2, <1>6 DEF Refuse, process, loop, cutter, Configured, Running
  <2>6. InLoops'
    BY <1>1, <1>2, <2>1, <1>6 DEF Refuse, process, loop, cutter, InLoops, InGroup
  <2>7. BucketTrue'
    BY <1>1, <1>2, <1>6 DEF Refuse, process, loop, cutter, BucketTrue
  <2>8. Seeded'
    BY <1>1, <1>2, <2>1, <2>2, <1>6 DEF Refuse, process, loop, cutter, Seeded, Running, InGroup
  <2>9. GroupSoFar'
    BY <1>1, <1>2, <2>1, <1>6 DEF Refuse, process, loop, cutter, GroupSoFar, MovedBy, InGroup
  <2>10. RowsTrue'
    BY <1>1, <1>6, RowsKept DEF Refuse, process, loop
  <2>11. PanicIsZeroPart'
    BY <1>1, <1>2, <2>1, <1>6 DEF Refuse, process, loop, cutter, PanicIsZeroPart
  <2>12. NothingMissing'
    BY <1>1, <1>2, <1>6 DEF Refuse, process, loop, cutter, NothingMissing
  <2> QED
    BY <2>3, <2>4, <2>5, <2>6, <2>7, <2>8, <2>9, <2>10, <2>11, <2>12 DEF IInv
<1>7. CASE Resolve
  <2>1. Plan(cfg) # NoPlan
    BY <1>2, <1>7, PlanOf DEF Resolve
  <2>2. Stored(g - 1)'
    <3>1. g' - 1 = 0 /\ UNCHANGED file
      BY <1>1, <1>7 DEF Resolve, process, loop, InLoops
    <3>2. \A k \in DOMAIN file.sizes : ~(k <= 0)
      BY <1>2
    <3> QED
      BY <3>1, <3>2 DEF Stored
  <2>3. /\ Objects(g)' = Objects(g) /\ PerFileSize(g)' = PerFileSize(g) /\ Spec(g)' = Spec(g)
        /\ Section' = Section /\ AllPasses' = AllPasses /\ (Counts(g)' <=> Counts(g))
    BY <1>7 DEF Resolve, process, loop, Objects, PerFileSize, Spec, Section, AllPasses, Counts
  <2>4. /\ Stored(g)' <=> Stored(g)
        /\ Stored(g - 1)' <=> Stored(g - 1)
        /\ Stored(Len(file.sizes))' <=> Stored(Len(file.sizes))
    BY <1>7 DEF Resolve, process, loop, Stored
  <2>5. TypeOK'
    BY <1>1, <1>2, <1>7 DEF Resolve, process, loop, cutter, TypeOK, Running
  <2>6. ReaderInv'
    BY <1>1, <1>7 DEF Resolve, readerVars, ReaderInv, ReaderTypeOK, InStep, StreamSound,
                     PatternRepeats, ExactlyAsked
  <2>7. Configured'
    BY <1>1, <2>1, <1>7 DEF Resolve, process, loop, Configured, Running
  <2>8. InLoops'
    BY <1>1, <1>2, <2>3, <1>7 DEF Resolve, process, loop, cutter, InLoops, InGroup
  <2>9. BucketTrue'
    BY <1>1, <1>2, <1>7 DEF Resolve, process, loop, cutter, BucketTrue
  <2>10. Seeded'
    BY <1>1, <1>2, <2>2, <2>3, <2>4, <1>7
      DEF Resolve, process, loop, cutter, Seeded, Running, InGroup
  <2>11. GroupSoFar'
    BY <1>1, <1>2, <2>3, <1>7 DEF Resolve, process, loop, cutter, GroupSoFar, MovedBy, InGroup
  <2>12. RowsTrue'
    BY <1>1, <1>7, RowsKept DEF Resolve, process, loop
  <2>13. PanicIsZeroPart'
    BY <1>1, <1>2, <2>3, <1>7 DEF Resolve, process, loop, cutter, PanicIsZeroPart
  <2>14. NothingMissing'
    BY <1>1, <1>2, <1>7 DEF Resolve, process, loop, cutter, NothingMissing
  <2> QED
    BY <2>5, <2>6, <2>7, <2>8, <2>9, <2>10, <2>11, <2>12, <2>13, <2>14 DEF IInv
<1>8. CASE BeginGroup
  <2>1. /\ Objects(g)' = Objects(g) /\ PerFileSize(g)' = PerFileSize(g) /\ Spec(g)' = Spec(g)
        /\ Section' = Section /\ AllPasses' = AllPasses /\ (Counts(g)' <=> Counts(g))
    BY <1>8
      DEF BeginGroup, process, loop, Objects, PerFileSize, Spec, Section, AllPasses, Counts
  <2>2. /\ Stored(g)' <=> Stored(g)
        /\ Stored(g - 1)' <=> Stored(g - 1)
        /\ Stored(Len(file.sizes))' <=> Stored(Len(file.sizes))
    BY <1>8 DEF BeginGroup, process, loop, Stored
  <2>3. TypeOK'
    BY <1>1, <1>2, <1>8 DEF BeginGroup, process, loop, cutter, TypeOK, Running
  <2>4. ReaderInv'
    BY <1>1, <1>8 DEF BeginGroup, readerVars, ReaderInv, ReaderTypeOK, InStep, StreamSound,
                     PatternRepeats, ExactlyAsked
  <2>5. Configured'
    BY <1>1, <1>2, <1>8 DEF BeginGroup, process, loop, cutter, Configured, Running
  <2>6. InLoops'
    BY <1>1, <1>2, <2>1, <1>8 DEF BeginGroup, process, loop, cutter, InLoops, InGroup
  <2>7. BucketTrue'
    BY <1>1, <1>2, <1>8 DEF BeginGroup, process, loop, cutter, BucketTrue
  <2>8. Seeded'
    BY <1>1, <1>2, <2>1, <2>2, <1>8
      DEF BeginGroup, process, loop, cutter, Seeded, Running, InGroup
  <2>9. GroupSoFar'
    BY <1>1, <1>2, <2>1, <1>8 DEF BeginGroup, process, loop, cutter, GroupSoFar, MovedBy, InGroup
  <2>10. RowsTrue'
    BY <1>1, <1>8, RowsKept DEF BeginGroup, process, loop
  <2>11. PanicIsZeroPart'
    BY <1>1, <1>2, <2>1, <1>8 DEF BeginGroup, process, loop, cutter, PanicIsZeroPart
  <2>12. NothingMissing'
    BY <1>1, <1>2, <1>8 DEF BeginGroup, process, loop, cutter, NothingMissing
  <2> QED
    BY <2>3, <2>4, <2>5, <2>6, <2>7, <2>8, <2>9, <2>10, <2>11, <2>12 DEF IInv
<1>9. CASE RefuseGroup
  <2>1. /\ Objects(g)' = Objects(g) /\ PerFileSize(g)' = PerFileSize(g) /\ Spec(g)' = Spec(g)
        /\ Section' = Section /\ AllPasses' = AllPasses /\ (Counts(g)' <=> Counts(g))
    BY <1>9
      DEF RefuseGroup, process, loop, Objects, PerFileSize, Spec, Section, AllPasses, Counts
  <2>2. /\ Stored(g)' <=> Stored(g)
        /\ Stored(g - 1)' <=> Stored(g - 1)
        /\ Stored(Len(file.sizes))' <=> Stored(Len(file.sizes))
    BY <1>9 DEF RefuseGroup, process, loop, Stored
  <2>3. TypeOK'
    BY <1>1, <1>2, <1>9 DEF RefuseGroup, process, loop, cutter, TypeOK, Running
  <2>4. ReaderInv'
    BY <1>1, <1>9 DEF RefuseGroup, readerVars, ReaderInv, ReaderTypeOK, InStep, StreamSound,
                     PatternRepeats, ExactlyAsked
  <2>5. Configured'
    BY <1>1, <1>2, <1>9 DEF RefuseGroup, process, loop, cutter, Configured, Running
  <2>6. InLoops'
    BY <1>1, <1>2, <2>1, <1>9 DEF RefuseGroup, process, loop, cutter, InLoops, InGroup
  <2>7. BucketTrue'
    BY <1>1, <1>2, <1>9 DEF RefuseGroup, process, loop, cutter, BucketTrue
  <2>8. Seeded'
    BY <1>1, <1>2, <2>1, <2>2, <1>9
      DEF RefuseGroup, process, loop, cutter, Seeded, Running, InGroup
  <2>9. GroupSoFar'
    BY <1>1, <1>2, <2>1, <1>9 DEF RefuseGroup, process, loop, cutter, GroupSoFar, MovedBy, InGroup
  <2>10. RowsTrue'
    BY <1>1, <1>9, RowsKept DEF RefuseGroup, process, loop
  <2>11. PanicIsZeroPart'
    BY <1>1, <1>2, <2>1, <1>9 DEF RefuseGroup, process, loop, cutter, PanicIsZeroPart
  <2>12. NothingMissing'
    BY <1>1, <1>2, <1>9 DEF RefuseGroup, process, loop, cutter, NothingMissing
  <2> QED
    BY <2>3, <2>4, <2>5, <2>6, <2>7, <2>8, <2>9, <2>10, <2>11, <2>12 DEF IInv
<1>10. CASE BeginPass
  <2>1. /\ g \in DOMAIN cfg.sizes /\ Objects(g) \in Nat \ {0} /\ PerFileSize(g) \in Int
        /\ DOMAIN KeysFor(Spec(g)) = 1..Objects(g)
        /\ AllPasses = Section.warmup + Section.iterations
    <3>1. main \in InGroup
      BY <1>10 DEF BeginPass, PassesOver, InGroup
    <3> QED
      BY <1>1, <1>2, <1>3, <3>1 DEF InLoops, Spec, AllPasses
  <2>2. /\ Objects(g)' = Objects(g) /\ PerFileSize(g)' = PerFileSize(g) /\ Spec(g)' = Spec(g)
        /\ Section' = Section /\ AllPasses' = AllPasses /\ (Counts(g)' <=> Counts(g))
    BY <1>10
      DEF BeginPass, process, loop, Objects, PerFileSize, Spec, Section, AllPasses, Counts
  <2>3. /\ Stored(g)' <=> Stored(g)
        /\ Stored(g - 1)' <=> Stored(g - 1)
        /\ Stored(Len(file.sizes))' <=> Stored(Len(file.sizes))
    BY <1>10 DEF BeginPass, process, loop, Stored
  <2>4. TypeOK'
    BY <1>1, <1>2, <1>10 DEF BeginPass, process, loop, cutter, TypeOK, Running
  <2>5. ReaderInv'
    BY <1>1, <1>10 DEF BeginPass, readerVars, ReaderInv, ReaderTypeOK, InStep, StreamSound,
                     PatternRepeats, ExactlyAsked
  <2>6. Configured'
    BY <1>1, <1>2, <1>10 DEF BeginPass, process, loop, cutter, Configured, Running
  <2>7. InLoops'
    BY <1>1, <1>2, <2>1, <2>2, <1>10 DEF BeginPass, process, loop, cutter, InLoops, InGroup
  <2>8. BucketTrue'
    BY <1>1, <1>2, <1>10 DEF BeginPass, process, loop, cutter, BucketTrue
  <2>9. Seeded'
    BY <1>1, <1>2, <2>1, <2>2, <2>3, <1>10
      DEF BeginPass, process, loop, cutter, Seeded, Running, InGroup
  <2>10. GroupSoFar'
    BY <1>1, <1>2, <2>1, <2>2, <1>10 DEF BeginPass, process, loop, cutter, GroupSoFar, MovedBy, InGroup
  <2>11. RowsTrue'
    BY <1>1, <1>10, RowsKept DEF BeginPass, process, loop
  <2>12. PanicIsZeroPart'
    BY <1>1, <1>2, <2>2, <1>10 DEF BeginPass, process, loop, cutter, PanicIsZeroPart
  <2>13. NothingMissing'
    BY <1>1, <1>2, <1>10 DEF BeginPass, process, loop, cutter, NothingMissing
  <2> QED
    BY <2>4, <2>5, <2>6, <2>7, <2>8, <2>9, <2>10, <2>11, <2>12, <2>13 DEF IInv
<1>11. CASE BeginUpload
  <2>1. ReaderInv' /\ asked' = PerFileSize(g)
    BY <1>1, <1>2, <1>3, <1>11, Opening DEF BeginUpload, Call, InLoops, InGroup
  <2>2. i \in DOMAIN KeysFor(Spec(g))
    <3>1. g \in DOMAIN cfg.sizes /\ i \in 1..Objects(g)
      BY <1>1, <1>11 DEF BeginUpload, Call, InLoops, InGroup
    <3> QED
      BY <1>3, <3>1 DEF Spec
  <2>3. /\ Objects(g)' = Objects(g) /\ PerFileSize(g)' = PerFileSize(g) /\ Spec(g)' = Spec(g)
        /\ Section' = Section /\ AllPasses' = AllPasses /\ (Counts(g)' <=> Counts(g))
    BY <1>11
      DEF BeginUpload, Call, process, loop, Objects, PerFileSize, Spec, Section, AllPasses, Counts
  <2>4. /\ Stored(g)' <=> Stored(g)
        /\ Stored(g - 1)' <=> Stored(g - 1)
        /\ Stored(Len(file.sizes))' <=> Stored(Len(file.sizes))
    BY <1>11 DEF BeginUpload, Call, process, loop, Stored
  <2>5. TypeOK'
    BY <1>1, <1>2, <1>11 DEF BeginUpload, Call, process, loop, cutter, TypeOK, Running
  <2>6. ReaderInv'
    BY <2>1
  <2>7. Configured'
    BY <1>1, <1>2, <1>11 DEF BeginUpload, Call, process, loop, cutter, Configured, Running
  <2>8. InLoops'
    BY <1>1, <1>2, <2>3, <2>1, <1>11 DEF BeginUpload, Call, process, loop, cutter, InLoops, InGroup
  <2>9. BucketTrue'
    BY <1>1, <1>2, <1>11 DEF BeginUpload, Call, process, loop, cutter, BucketTrue
  <2>10. Seeded'
    BY <1>1, <1>2, <2>3, <2>4, <1>11
      DEF BeginUpload, Call, process, loop, cutter, Seeded, Running, InGroup
  <2>11. GroupSoFar'
    BY <1>1, <1>2, <2>3, <1>11 DEF BeginUpload, Call, process, loop, cutter, GroupSoFar, MovedBy, InGroup
  <2>12. RowsTrue'
    BY <1>1, <1>11, RowsKept DEF BeginUpload, Call, process, loop
  <2>13. PanicIsZeroPart'
    BY <2>2, <1>11 DEF BeginUpload, Call, PanicIsZeroPart
  <2>14. NothingMissing'
    BY <1>1, <1>2, <1>11 DEF BeginUpload, Call, process, loop, cutter, NothingMissing
  <2> QED
    BY <2>5, <2>6, <2>7, <2>8, <2>9, <2>10, <2>11, <2>12, <2>13, <2>14 DEF IInv
<1>12. CASE AskBody
  <2>1. ReaderNext
    <3>1. PICK len \in 1..(PartInUse - filled) : Read(len)
      BY <1>12 DEF AskBody
    <3>2. plan # NoPlan
      BY <1>1, <1>12 DEF AskBody, Configured, Running
    <3>3. len \in Nat \ {0}
      BY <1>2, <3>2
    <3> QED
      BY <3>1, <3>3 DEF ReaderNext
  <2>2. ReaderInv' /\ UNCHANGED asked
    BY <1>1, <2>1, Streaming
  <2>3. /\ Objects(g)' = Objects(g) /\ PerFileSize(g)' = PerFileSize(g) /\ Spec(g)' = Spec(g)
        /\ Section' = Section /\ AllPasses' = AllPasses /\ (Counts(g)' <=> Counts(g))
    BY <1>12 DEF AskBody, process, loop, Objects, PerFileSize, Spec, Section, AllPasses, Counts
  <2>4. /\ Stored(g)' <=> Stored(g)
        /\ Stored(g - 1)' <=> Stored(g - 1)
        /\ Stored(Len(file.sizes))' <=> Stored(Len(file.sizes))
    BY <1>12 DEF AskBody, process, loop, Stored
  <2>5. TypeOK'
    BY <1>1, <1>2, <1>12 DEF AskBody, process, loop, cutter, TypeOK, Running
  <2>6. ReaderInv'
    BY <2>2
  <2>7. Configured'
    BY <1>1, <1>2, <1>12 DEF AskBody, process, loop, cutter, Configured, Running
  <2>8. InLoops'
    BY <1>1, <1>2, <2>3, <2>2, <1>12 DEF AskBody, process, loop, cutter, InLoops, InGroup
  <2>9. BucketTrue'
    BY <1>1, <1>2, <1>12 DEF AskBody, process, loop, cutter, BucketTrue
  <2>10. Seeded'
    BY <1>1, <1>2, <2>3, <2>4, <1>12
      DEF AskBody, process, loop, cutter, Seeded, Running, InGroup
  <2>11. GroupSoFar'
    BY <1>1, <1>2, <2>3, <1>12 DEF AskBody, process, loop, cutter, GroupSoFar, MovedBy, InGroup
  <2>12. RowsTrue'
    BY <1>1, <1>12, RowsKept DEF AskBody, process, loop
  <2>13. PanicIsZeroPart'
    BY <1>1, <1>2, <2>3, <1>12 DEF AskBody, process, loop, cutter, PanicIsZeroPart
  <2>14. NothingMissing'
    BY <1>1, <1>2, <1>12 DEF AskBody, process, loop, cutter, NothingMissing
  <2> QED
    BY <2>5, <2>6, <2>7, <2>8, <2>9, <2>10, <2>11, <2>12, <2>13, <2>14 DEF IInv
<1>13. CASE CopyBody
  <2>1. ReaderNext
    BY <1>13 DEF CopyBody, ReaderNext
  <2>2. ReaderInv' /\ UNCHANGED asked
    BY <1>1, <2>1, Streaming
  <2>3. /\ Objects(g)' = Objects(g) /\ PerFileSize(g)' = PerFileSize(g) /\ Spec(g)' = Spec(g)
        /\ Section' = Section /\ AllPasses' = AllPasses /\ (Counts(g)' <=> Counts(g))
    BY <1>13 DEF CopyBody, process, loop, Objects, PerFileSize, Spec, Section, AllPasses, Counts
  <2>4. /\ Stored(g)' <=> Stored(g)
        /\ Stored(g - 1)' <=> Stored(g - 1)
        /\ Stored(Len(file.sizes))' <=> Stored(Len(file.sizes))
    BY <1>13 DEF CopyBody, process, loop, Stored
  <2>5. TypeOK'
    BY <1>1, <1>2, <1>13 DEF CopyBody, process, loop, cutter, TypeOK, Running
  <2>6. ReaderInv'
    BY <2>2
  <2>7. Configured'
    BY <1>1, <1>2, <1>13 DEF CopyBody, process, loop, cutter, Configured, Running
  <2>8. InLoops'
    BY <1>1, <1>2, <2>3, <2>2, <1>13 DEF CopyBody, process, loop, cutter, InLoops, InGroup
  <2>9. BucketTrue'
    BY <1>1, <1>2, <1>13 DEF CopyBody, process, loop, cutter, BucketTrue
  <2>10. Seeded'
    BY <1>1, <1>2, <2>3, <2>4, <1>13
      DEF CopyBody, process, loop, cutter, Seeded, Running, InGroup
  <2>11. GroupSoFar'
    BY <1>1, <1>2, <2>3, <1>13 DEF CopyBody, process, loop, cutter, GroupSoFar, MovedBy, InGroup
  <2>12. RowsTrue'
    BY <1>1, <1>13, RowsKept DEF CopyBody, process, loop
  <2>13. PanicIsZeroPart'
    BY <1>1, <1>2, <2>3, <1>13 DEF CopyBody, process, loop, cutter, PanicIsZeroPart
  <2>14. NothingMissing'
    BY <1>1, <1>2, <1>13 DEF CopyBody, process, loop, cutter, NothingMissing
  <2> QED
    BY <2>5, <2>6, <2>7, <2>8, <2>9, <2>10, <2>11, <2>12, <2>13, <2>14 DEF IInv
<1>14. CASE TakeBody
  <2>1. ReaderNext
    BY <1>14 DEF TakeBody, ReaderNext
  <2>2. ReaderInv' /\ UNCHANGED asked
    BY <1>1, <2>1, Streaming
  <2>3. /\ Objects(g)' = Objects(g) /\ PerFileSize(g)' = PerFileSize(g) /\ Spec(g)' = Spec(g)
        /\ Section' = Section /\ AllPasses' = AllPasses /\ (Counts(g)' <=> Counts(g))
    BY <1>14 DEF TakeBody, process, loop, Objects, PerFileSize, Spec, Section, AllPasses, Counts
  <2>4. /\ Stored(g)' <=> Stored(g)
        /\ Stored(g - 1)' <=> Stored(g - 1)
        /\ Stored(Len(file.sizes))' <=> Stored(Len(file.sizes))
    BY <1>14 DEF TakeBody, process, loop, Stored
  <2>5. TypeOK'
    BY <1>1, <1>2, <1>14 DEF TakeBody, process, loop, cutter, TypeOK, Running
  <2>6. ReaderInv'
    BY <2>2
  <2>7. Configured'
    BY <1>1, <1>2, <1>14 DEF TakeBody, process, loop, cutter, Configured, Running
  <2>8. InLoops'
    BY <1>1, <1>2, <2>3, <2>2, <1>14 DEF TakeBody, process, loop, cutter, InLoops, InGroup
  <2>9. BucketTrue'
    BY <1>1, <1>2, <1>14 DEF TakeBody, process, loop, cutter, BucketTrue
  <2>10. Seeded'
    BY <1>1, <1>2, <2>3, <2>4, <1>14
      DEF TakeBody, process, loop, cutter, Seeded, Running, InGroup
  <2>11. GroupSoFar'
    BY <1>1, <1>2, <2>3, <1>14 DEF TakeBody, process, loop, cutter, GroupSoFar, MovedBy, InGroup
  <2>12. RowsTrue'
    BY <1>1, <1>14, RowsKept DEF TakeBody, process, loop
  <2>13. PanicIsZeroPart'
    BY <1>1, <1>2, <2>3, <1>14 DEF TakeBody, process, loop, cutter, PanicIsZeroPart
  <2>14. NothingMissing'
    BY <1>1, <1>2, <1>14 DEF TakeBody, process, loop, cutter, NothingMissing
  <2> QED
    BY <2>5, <2>6, <2>7, <2>8, <2>9, <2>10, <2>11, <2>12, <2>13, <2>14 DEF IInv
<1>15. CASE EndUpload
  <2>1. /\ g \in DOMAIN cfg.sizes /\ Objects(g) \in Nat \ {0} /\ PerFileSize(g) \in Int
        /\ DOMAIN KeysFor(Spec(g)) = 1..Objects(g)
        /\ AllPasses = Section.warmup + Section.iterations
    <3>1. main \in InGroup
      BY <1>15 DEF EndUpload, PassesOver, InGroup
    <3> QED
      BY <1>1, <1>2, <1>3, <3>1 DEF InLoops, Spec, AllPasses
  <2>2. ReaderInv'
    BY <1>1, <1>15, Opening DEF EndUpload
  <2>3. /\ i \in 1..Objects(g) /\ mode = "upload" /\ asked = ParseSize(Spec(g).size)
        /\ asked \in Int /\ asked = PerFileSize(g) /\ ParseSize(Spec(g).size) # Err
    BY <1>1, <1>2, <1>15 DEF EndUpload, InLoops, InGroup, PerFileSize
  <2>4. Len(body) = (IF asked > 0 THEN asked ELSE 0) /\ Len(body) \in Nat
    <3>1. /\ Len(body) + (remaining - total) = asked /\ total \in 0..want /\ remaining \in Int
          /\ want = 0 /\ remaining <= 0 /\ Len(body) \in Nat
          /\ asked > 0 => remaining >= want
          /\ asked <= 0 => body = <<>>
      BY <1>1, <1>15, LenProperties
        DEF EndUpload, AtEOF, ReaderInv, ReaderTypeOK, InStep, StreamSound, ExactlyAsked
    <3> QED
      BY <2>3, <3>1, EmptySeq
  <2>5. /\ DOMAIN s3' = DOMAIN s3 \cup {KeysFor(Spec(g))[i]}
        /\ s3'[KeysFor(Spec(g))[i]] \in [size : Nat, parts : Nat \ {0}]
        /\ s3'[KeysFor(Spec(g))[i]].size = Len(body)
        /\ \A key \in DOMAIN s3 \ {KeysFor(Spec(g))[i]} : s3'[key] = s3[key]
    <3> DEFINE parts == IF filled > 0 \/ cut = 0 THEN cut + 1 ELSE cut
    <3>1. parts \in Nat \ {0}
      BY <1>2
    <3>2. s3' = [k \in DOMAIN s3 \cup {KeysFor(Spec(g))[i]} |->
                   IF k = KeysFor(Spec(g))[i] THEN [size |-> Len(body), parts |-> parts] ELSE s3[k]]
      BY <1>15 DEF EndUpload
    <3> HIDE DEF parts
    <3> QED
      BY <2>4, <3>1, <3>2
  <2>6. bytes' \in Int /\ (Counts(g) => MovedBy(bytes', PerFileSize(g) * i))
    <3>1. bytes' = Wrap(bytes + PerFileSize(g)) /\ bytes + PerFileSize(g) \in Int
      BY <1>2, <2>1, <1>15 DEF EndUpload
    <3>2. bytes' \in Int
      BY <3>1, Wrapped, SettingsAssumption DEF MinInt
    <3>3. ASSUME Counts(g) PROVE MovedBy(bytes', PerFileSize(g) * i)
      <4>1. MovedBy(bytes, PerFileSize(g) * (i - 1))
        BY <1>1, <3>3, <1>15 DEF EndUpload, GroupSoFar, InGroup
      <4>2. PerFileSize(g) \in Nat /\ PerFileSize(g) * Objects(g) <= MaxInt
        BY <2>1, <2>3, <3>3 DEF Counts
      <4>3. bytes \in 0..(PerFileSize(g) * (i - 1))
        BY <2>1, <2>3, <4>1, <4>2, Upto DEF MovedBy
      <4>4. /\ bytes' \in 0..(PerFileSize(g) * i)
            /\ bytes' = PerFileSize(g) * i <=> bytes = PerFileSize(g) * (i - 1)
        BY <2>1, <2>3, <3>1, <4>2, <4>3, Adding
      <4> QED
        BY <4>1, <4>4 DEF MovedBy
    <3> QED
      BY <3>2, <3>3
  <2>7. /\ Stored(g) => Stored(g)'
        /\ Stored(g - 1) => Stored(g - 1)'
        /\ Stored(Len(file.sizes)) => Stored(Len(file.sizes))'
    BY <2>5, <1>15 DEF EndUpload, process, loop, Stored
  <2>8. /\ Objects(g)' = Objects(g) /\ PerFileSize(g)' = PerFileSize(g) /\ Spec(g)' = Spec(g)
        /\ Section' = Section /\ AllPasses' = AllPasses /\ (Counts(g)' <=> Counts(g))
    BY <1>15
      DEF EndUpload, process, loop, Objects, PerFileSize, Spec, Section, AllPasses, Counts
  <2>9. TypeOK'
    BY <1>1, <1>2, <2>5, <2>6, <1>15 DEF EndUpload, process, loop, cutter, TypeOK, Running
  <2>10. ReaderInv'
    BY <2>2
  <2>11. Configured'
    BY <1>1, <1>2, <1>15 DEF EndUpload, process, loop, cutter, Configured, Running
  <2>12. InLoops'
    <3>1. main = "body" /\ main' = "object" /\ i' = i + 1 /\ UNCHANGED <<g, it, cfg>>
      BY <1>15 DEF EndUpload, process
    <3>2. i' \in 1..(Objects(g) + 1)
      BY <2>1, <2>3, <3>1
    <3> QED
      BY <1>1, <2>8, <3>1, <3>2 DEF InLoops, InGroup
  <2>13. BucketTrue'
    <3>1. SUFFICES ASSUME NEW k \in DOMAIN file.sizes, ParseSize(file.sizes[k].size) # Err,
                          NEW key \in Range(KeysFor(file.sizes[k])) \cap DOMAIN s3'
                   PROVE  s3'[key].size = IF ParseSize(file.sizes[k].size) > 0
                                          THEN ParseSize(file.sizes[k].size) ELSE 0
      BY <1>15 DEF EndUpload, process, BucketTrue
    <3>2. CASE key # KeysFor(Spec(g))[i]
      BY <1>1, <2>5, <3>1, <3>2 DEF BucketTrue
    <3>3. CASE key = KeysFor(Spec(g))[i]
      <4>1. PICK x : key = Key(Spec(g).size, x)
        BY <1>3, <2>1, <2>3, <3>3, KeysOfSpec DEF Spec
      <4>2. PICK y : key = Key(file.sizes[k].size, y)
        <5>1. file.sizes[k] \in SizeGroups
          BY <1>2, <1>3, <3>1
        <5>2. PICK j \in DOMAIN KeysFor(file.sizes[k]) : key = KeysFor(file.sizes[k])[j]
          BY <3>1 DEF Range
        <5> QED
          BY <5>1, <5>2, KeysOfSpec
      <4>3. ParseSize(file.sizes[k].size) = ParseSize(Spec(g).size)
        BY <1>2, <1>3, <2>1, <2>3, <3>1, <4>1, <4>2, SameKeySameSize DEF Spec
      <4> QED
        BY <2>3, <2>4, <2>5, <3>3, <4>3
    <3> QED
      BY <3>2, <3>3
  <2>14. Seeded'
    <3>1. mode' = "upload" /\ i' = i + 1 /\ main' = "object" /\ UNCHANGED <<file, it>>
      BY <2>3, <1>15 DEF EndUpload, process
    <3>2. ASSUME AllPasses > 0, ~cancelled, NEW j \in 1..i PROVE KeysFor(Spec(g))[j] \in DOMAIN s3'
      <4>1. j = i \/ j \in 1..(i - 1)
        BY <1>2, <3>2
      <4> QED
        BY <1>1, <2>3, <2>5, <3>2, <4>1, <1>15 DEF EndUpload, Seeded
    <3> QED
      BY <1>1, <1>2, <2>3, <2>7, <2>8, <3>1, <3>2, <1>15
        DEF EndUpload, process, Seeded, Running, InGroup
  <2>15. GroupSoFar'
    <3>1. /\ main = "body" /\ main' = "object" /\ i' = i + 1
          /\ UNCHANGED <<g, it, samples, cancelled>>
      BY <1>15 DEF EndUpload, process
    <3>2. /\ Counts(g) => \A n \in DOMAIN samples :
                           MovedBy(samples[n].bytes, PerFileSize(g) * Objects(g))
          /\ Len(samples) = IF Section.warmup <= 0 THEN it
                            ELSE IF it >= Section.warmup THEN it - Section.warmup ELSE 0
      BY <1>1, <3>1 DEF GroupSoFar, InGroup
    <3>3. i' - 1 = i
      BY <1>2, <3>1
    <3> QED
      BY <2>8, <2>6, <3>1, <3>2, <3>3 DEF GroupSoFar, MovedBy, InGroup
  <2>16. RowsTrue'
    BY <1>1, <1>15, RowsKept DEF EndUpload, process, loop
  <2>17. PanicIsZeroPart'
    BY <1>1, <1>2, <2>8, <1>15 DEF EndUpload, process, loop, cutter, PanicIsZeroPart
  <2>18. NothingMissing'
    BY <1>1, <1>2, <1>15 DEF EndUpload, process, loop, cutter, NothingMissing
  <2> QED
    BY <2>9, <2>10, <2>11, <2>12, <2>13, <2>14, <2>15, <2>16, <2>17, <2>18 DEF IInv
<1>16. CASE Download
  <2>1. /\ g \in DOMAIN cfg.sizes /\ Objects(g) \in Nat \ {0} /\ PerFileSize(g) \in Int
        /\ DOMAIN KeysFor(Spec(g)) = 1..Objects(g)
        /\ AllPasses = Section.warmup + Section.iterations
    <3>1. main \in InGroup
      BY <1>16 DEF Download, Call, PassesOver, InGroup
    <3> QED
      BY <1>1, <1>2, <1>3, <3>1 DEF InLoops, Spec, AllPasses
  <2>2. /\ mode = "download" /\ i \in 1..Objects(g) /\ KeysFor(Spec(g))[i] \in DOMAIN s3
        /\ s3[KeysFor(Spec(g))[i]].size \in Nat
        /\ bytes' = Wrap(bytes + s3[KeysFor(Spec(g))[i]].size)
    BY <1>1, <1>16 DEF Download, Call, InLoops, InGroup, TypeOK
  <2>3. bytes' \in Int /\ (Counts(g) => MovedBy(bytes', PerFileSize(g) * i))
    <3>1. bytes' \in Int
      <4>1. bytes + s3[KeysFor(Spec(g))[i]].size \in Int
        BY <1>2, <2>2
      <4> QED
        BY <2>2, <4>1, Wrapped, SettingsAssumption DEF MinInt
    <3>2. ASSUME Counts(g) PROVE MovedBy(bytes', PerFileSize(g) * i)
      <4>1. MovedBy(bytes, PerFileSize(g) * (i - 1))
        BY <1>1, <3>2, <1>16 DEF Download, Call, GroupSoFar, InGroup
      <4>2. /\ PerFileSize(g) = ParseSize(Spec(g).size) /\ ParseSize(Spec(g).size) # Err
            /\ PerFileSize(g) \in Nat /\ PerFileSize(g) * Objects(g) <= MaxInt
        BY <2>1, <2>2, <3>2 DEF Counts, PerFileSize
      <4>3. KeysFor(Spec(g))[i] \in Range(KeysFor(Spec(g)))
        BY <2>1, <2>2 DEF Range
      <4>4. s3[KeysFor(Spec(g))[i]].size = PerFileSize(g)
        <5>1. g \in DOMAIN file.sizes /\ Spec(g) = file.sizes[g]
          BY <1>2, <2>1 DEF Spec
        <5>2. s3[KeysFor(Spec(g))[i]].size = IF PerFileSize(g) > 0 THEN PerFileSize(g) ELSE 0
          BY <1>1, <2>2, <4>2, <4>3, <5>1 DEF BucketTrue
        <5> QED
          BY <4>2, <5>2
      <4>5. bytes \in 0..(PerFileSize(g) * (i - 1))
        BY <2>1, <2>2, <4>1, <4>2, Upto DEF MovedBy
      <4>6. /\ bytes' \in 0..(PerFileSize(g) * i)
            /\ bytes' = PerFileSize(g) * i <=> bytes = PerFileSize(g) * (i - 1)
        <5>1. bytes' = Wrap(bytes + PerFileSize(g))
          BY <2>2, <4>4
        <5>2. i \in 1..Objects(g) /\ Objects(g) \in Nat /\ PerFileSize(g) \in Nat
          BY <2>1, <2>2, <4>2
        <5> QED
          BY <4>2, <4>5, <5>1, <5>2, Adding
      <4> QED
        BY <4>1, <4>6 DEF MovedBy
    <3> QED
      BY <3>1, <3>2
  <2>4. /\ Objects(g)' = Objects(g) /\ PerFileSize(g)' = PerFileSize(g) /\ Spec(g)' = Spec(g)
        /\ Section' = Section /\ AllPasses' = AllPasses /\ (Counts(g)' <=> Counts(g))
    BY <1>16 DEF Download, Call, process, loop, Objects, PerFileSize, Spec, Section, AllPasses, Counts
  <2>5. /\ Stored(g)' <=> Stored(g)
        /\ Stored(g - 1)' <=> Stored(g - 1)
        /\ Stored(Len(file.sizes))' <=> Stored(Len(file.sizes))
    BY <1>16 DEF Download, Call, process, loop, Stored
  <2>6. TypeOK'
    BY <1>1, <1>2, <2>3, <1>16 DEF Download, Call, process, loop, cutter, TypeOK, Running
  <2>7. ReaderInv'
    BY <1>1, <1>16 DEF Download, Call, readerVars, ReaderInv, ReaderTypeOK, InStep, StreamSound,
                     PatternRepeats, ExactlyAsked
  <2>8. Configured'
    BY <1>1, <1>2, <1>16 DEF Download, Call, process, loop, cutter, Configured, Running
  <2>9. InLoops'
    <3>1. main = "object" /\ main' = "object" /\ i' = i + 1 /\ UNCHANGED <<g, it, cfg>>
      BY <1>16 DEF Download, Call, process
    <3>2. i' \in 1..(Objects(g) + 1)
      BY <2>1, <2>2, <3>1
    <3> QED
      BY <1>1, <2>4, <3>1, <3>2 DEF InLoops, InGroup
  <2>10. BucketTrue'
    BY <1>1, <1>2, <1>16 DEF Download, Call, process, loop, cutter, BucketTrue
  <2>11. Seeded'
    BY <1>1, <1>2, <2>4, <2>5, <2>2, <1>16
      DEF Download, Call, process, loop, cutter, Seeded, Running, InGroup
  <2>12. GroupSoFar'
    <3>1. /\ main = "object" /\ main' = "object" /\ i' = i + 1
          /\ UNCHANGED <<g, it, samples, cancelled>>
      BY <1>16 DEF Download, Call, process
    <3>2. /\ Counts(g) => \A n \in DOMAIN samples :
                           MovedBy(samples[n].bytes, PerFileSize(g) * Objects(g))
          /\ Len(samples) = IF Section.warmup <= 0 THEN it
                            ELSE IF it >= Section.warmup THEN it - Section.warmup ELSE 0
      BY <1>1, <3>1 DEF GroupSoFar, InGroup
    <3>3. i' - 1 = i
      BY <1>2, <3>1
    <3> QED
      BY <2>4, <2>3, <3>1, <3>2, <3>3 DEF GroupSoFar, MovedBy, InGroup
  <2>13. RowsTrue'
    BY <1>1, <1>16, RowsKept DEF Download, Call, process, loop
  <2>14. PanicIsZeroPart'
    BY <1>1, <1>2, <2>4, <1>16 DEF Download, Call, process, loop, cutter, PanicIsZeroPart
  <2>15. NothingMissing'
    BY <1>1, <1>2, <1>16 DEF Download, Call, process, loop, cutter, NothingMissing
  <2> QED
    BY <2>6, <2>7, <2>8, <2>9, <2>10, <2>11, <2>12, <2>13, <2>14, <2>15 DEF IInv
<1>17. CASE NotFound
  <2>1. /\ g \in DOMAIN cfg.sizes /\ Objects(g) \in Nat \ {0} /\ PerFileSize(g) \in Int
        /\ DOMAIN KeysFor(Spec(g)) = 1..Objects(g)
        /\ AllPasses = Section.warmup + Section.iterations
    <3>1. main \in InGroup
      BY <1>17 DEF NotFound, Call, PassesOver, InGroup
    <3> QED
      BY <1>1, <1>2, <1>3, <3>1 DEF InLoops, Spec, AllPasses
  <2>2. /\ Objects(g)' = Objects(g) /\ PerFileSize(g)' = PerFileSize(g) /\ Spec(g)' = Spec(g)
        /\ Section' = Section /\ AllPasses' = AllPasses /\ (Counts(g)' <=> Counts(g))
    BY <1>17 DEF NotFound, Call, process, loop, Objects, PerFileSize, Spec, Section, AllPasses, Counts
  <2>3. /\ Stored(g)' <=> Stored(g)
        /\ Stored(g - 1)' <=> Stored(g - 1)
        /\ Stored(Len(file.sizes))' <=> Stored(Len(file.sizes))
    BY <1>17 DEF NotFound, Call, process, loop, Stored
  <2>4. TypeOK'
    BY <1>1, <1>2, <1>17 DEF NotFound, Call, process, loop, cutter, TypeOK, Running
  <2>5. ReaderInv'
    BY <1>1, <1>17 DEF NotFound, Call, readerVars, ReaderInv, ReaderTypeOK, InStep, StreamSound,
                     PatternRepeats, ExactlyAsked
  <2>6. Configured'
    BY <1>1, <1>2, <1>17 DEF NotFound, Call, process, loop, cutter, Configured, Running
  <2>7. InLoops'
    BY <1>1, <1>2, <2>1, <2>2, <1>17 DEF NotFound, Call, process, loop, cutter, InLoops, InGroup
  <2>8. BucketTrue'
    BY <1>1, <1>2, <1>17 DEF NotFound, Call, process, loop, cutter, BucketTrue
  <2>9. Seeded'
    BY <1>1, <1>2, <2>1, <2>2, <2>3, <1>17
      DEF NotFound, Call, process, loop, cutter, Seeded, Running, InGroup
  <2>10. GroupSoFar'
    BY <1>1, <1>2, <2>1, <2>2, <1>17 DEF NotFound, Call, process, loop, cutter, GroupSoFar, MovedBy, InGroup
  <2>11. RowsTrue'
    BY <1>1, <1>17, RowsKept DEF NotFound, Call, process, loop
  <2>12. PanicIsZeroPart'
    BY <1>1, <1>2, <2>2, <1>17 DEF NotFound, Call, process, loop, cutter, PanicIsZeroPart
  <2>13. NothingMissing'
    <3>1. mode = "download" /\ i \in 1..Objects(g) /\ KeysFor(Spec(g))[i] \notin DOMAIN s3
      BY <1>1, <1>17 DEF NotFound, Call, InLoops, InGroup
    <3>2. ~Stored(Len(file.sizes))
      <4>1. KeysFor(Spec(g))[i] \in Range(KeysFor(Spec(g)))
        BY <2>1, <3>1 DEF Range
      <4>2. /\ g \in DOMAIN file.sizes /\ g <= Len(file.sizes)
            /\ KeysFor(Spec(g))[i] \in Range(KeysFor(file.sizes[g]))
        BY <1>2, <2>1, <4>1 DEF Spec
      <4> QED
        BY <3>1, <4>2 DEF Stored
    <3>3. cfg = WithDefaults(file)
      BY <1>1, <1>17 DEF NotFound, Call, Configured
    <3> QED
      BY <1>1, <3>1, <3>2, <3>3, <1>17 DEF NotFound, Call, process, Seeded, NothingMissing
  <2> QED
    BY <2>4, <2>5, <2>6, <2>7, <2>8, <2>9, <2>10, <2>11, <2>12, <2>13 DEF IInv
<1>18. CASE EndPass
  <2>1. /\ g \in DOMAIN cfg.sizes /\ Objects(g) \in Nat \ {0} /\ PerFileSize(g) \in Int
        /\ DOMAIN KeysFor(Spec(g)) = 1..Objects(g)
        /\ AllPasses = Section.warmup + Section.iterations
    <3>1. main \in InGroup
      BY <1>18 DEF EndPass, PassesOver, InGroup
    <3> QED
      BY <1>1, <1>2, <1>3, <3>1 DEF InLoops, Spec, AllPasses
  <2>2. i = Objects(g) + 1 /\ it < AllPasses
    BY <1>1, <1>2, <2>1, <1>18 DEF EndPass, InLoops, InGroup
  <2>3. PICK secs \in 0..MaxSecs :
          samples' = IF it >= Section.warmup
                     THEN Append(samples, [bytes |-> bytes, secs |-> secs]) ELSE samples
    BY <1>18 DEF EndPass
  <2>4. [bytes |-> bytes, secs |-> secs] \in Samples
    BY <1>2 DEF Samples
  <2>5. /\ samples' \in Seq(Samples)
        /\ Len(samples') = IF it >= Section.warmup THEN Len(samples) + 1 ELSE Len(samples)
        /\ \A n \in DOMAIN samples' : samples'[n].bytes = bytes \/
              (n \in DOMAIN samples /\ samples'[n] = samples[n])
    BY <1>2, <2>3, <2>4, AppendProperties, LenProperties
  <2>6. /\ Objects(g)' = Objects(g) /\ PerFileSize(g)' = PerFileSize(g) /\ Spec(g)' = Spec(g)
        /\ Section' = Section /\ AllPasses' = AllPasses /\ (Counts(g)' <=> Counts(g))
    BY <1>18 DEF EndPass, process, loop, Objects, PerFileSize, Spec, Section, AllPasses, Counts
  <2>7. /\ Stored(g)' <=> Stored(g)
        /\ Stored(g - 1)' <=> Stored(g - 1)
        /\ Stored(Len(file.sizes))' <=> Stored(Len(file.sizes))
    BY <1>18 DEF EndPass, process, loop, Stored
  <2>8. TypeOK'
    BY <1>1, <1>2, <2>5, <1>18 DEF EndPass, process, loop, cutter, TypeOK, Running
  <2>9. ReaderInv'
    BY <1>1, <1>18 DEF EndPass, readerVars, ReaderInv, ReaderTypeOK, InStep, StreamSound,
                     PatternRepeats, ExactlyAsked
  <2>10. Configured'
    BY <1>1, <1>2, <1>18 DEF EndPass, process, loop, cutter, Configured, Running
  <2>11. InLoops'
    <3>1. main = "object" /\ main' = "pass" /\ g' = g /\ it' = it + 1 /\ cfg' = cfg
      BY <1>18 DEF EndPass, process
    <3>2. PerFileSize(g) # Err
      BY <1>1, <3>1 DEF InLoops, InGroup
    <3>3. it + 1 <= AllPasses
      BY <1>2, <2>1, <2>2
    <3>4. PerFileSize(g)' # Err /\ (it = 0 \/ it <= AllPasses)'
      BY <2>6, <3>1, <3>2, <3>3
    <3> QED
      BY <2>1, <3>1, <3>4 DEF InLoops, InGroup
  <2>12. BucketTrue'
    BY <1>1, <1>2, <1>18 DEF EndPass, process, loop, cutter, BucketTrue
  <2>13. Seeded'
    <3>1. ASSUME mode = "upload", AllPasses > 0, ~cancelled PROVE Stored(g)
      <4>1. /\ Stored(g - 1)
            /\ \A j \in 1..Objects(g) : KeysFor(Spec(g))[j] \in DOMAIN s3
        <5>1. i - 1 = Objects(g) /\ main = "object"
          BY <2>1, <2>2, <1>18 DEF EndPass
        <5> QED
          BY <1>1, <3>1, <5>1 DEF Seeded, Running
      <4>2. Range(KeysFor(file.sizes[g])) \subseteq DOMAIN s3
        BY <1>2, <2>1, <4>1 DEF Range, Spec
      <4>3. \A k \in DOMAIN file.sizes : k <= g => k = g \/ k <= g - 1
        BY <1>2
      <4> QED
        BY <4>1, <4>2, <4>3 DEF Stored
    <3> QED
      BY <1>1, <1>2, <2>6, <2>7, <3>1, <1>18
        DEF EndPass, process, loop, cutter, Seeded, Running, InGroup
  <2>14. GroupSoFar'
    <3>1. Counts(g) => MovedBy(bytes, PerFileSize(g) * Objects(g))
      BY <1>1, <2>1, <2>2, <1>18 DEF EndPass, GroupSoFar, MovedBy, InGroup
    <3>2. Len(samples') = IF Section.warmup <= 0 THEN it + 1
                          ELSE IF it + 1 >= Section.warmup THEN it + 1 - Section.warmup ELSE 0
      <4>1. Len(samples) = IF Section.warmup <= 0 THEN it
                           ELSE IF it >= Section.warmup THEN it - Section.warmup ELSE 0
        BY <1>1, <1>18 DEF EndPass, GroupSoFar, MovedBy, InGroup
      <4> QED
        BY <1>2, <2>5, <4>1
    <3>3. Counts(g) => \A n \in DOMAIN samples' :
                         MovedBy(samples'[n].bytes, PerFileSize(g) * Objects(g))
      BY <1>1, <2>5, <3>1, <1>18 DEF EndPass, GroupSoFar, MovedBy, InGroup
    <3> QED
      <4>1. main' = "pass" /\ it' = it + 1
        BY <1>18 DEF EndPass
      <4>2. (PerFileSize(g) * Objects(g))' = PerFileSize(g) * Objects(g)
            /\ (Counts(g)' <=> Counts(g)) /\ Section' = Section /\ UNCHANGED cancelled
        BY <2>6, <1>18 DEF EndPass, process
      <4>3. main' \notin {"object", "body"}
        BY <4>1
      <4>4. (Len(samples) = IF Section.warmup <= 0 THEN it
                            ELSE IF it >= Section.warmup THEN it - Section.warmup ELSE 0)'
        <5> DEFINE W == Section.warmup
        <5>1. W' = W /\ W \in Int /\ it \in Nat
          BY <1>2, <4>2
        <5> HIDE DEF W
        <5>2. Len(samples') = IF W <= 0 THEN it + 1
                              ELSE IF it + 1 >= W THEN it + 1 - W ELSE 0
          BY <3>2 DEF W
        <5>3. Len(samples') = IF W' <= 0 THEN it' ELSE IF it' >= W' THEN it' - W' ELSE 0
          BY <4>1, <5>1, <5>2
        <5> QED
          BY <5>3 DEF W
      <4>5. (Counts(g) => \A n \in DOMAIN samples :
                            MovedBy(samples[n].bytes, PerFileSize(g) * Objects(g)))'
        BY <3>3, <4>2 DEF MovedBy
      <4> QED
        BY <4>3, <4>4, <4>5 DEF GroupSoFar
  <2>15. RowsTrue'
    BY <1>1, <1>18, RowsKept DEF EndPass, process, loop
  <2>16. PanicIsZeroPart'
    BY <1>1, <1>2, <2>6, <1>18 DEF EndPass, process, loop, cutter, PanicIsZeroPart
  <2>17. NothingMissing'
    BY <1>1, <1>2, <1>18 DEF EndPass, process, loop, cutter, NothingMissing
  <2> QED
    BY <2>8, <2>9, <2>10, <2>11, <2>12, <2>13, <2>14, <2>15, <2>16, <2>17 DEF IInv
<1>19. CASE EndGroup
  <2>1. /\ g \in DOMAIN cfg.sizes /\ Objects(g) \in Nat \ {0} /\ PerFileSize(g) \in Int
        /\ DOMAIN KeysFor(Spec(g)) = 1..Objects(g)
        /\ AllPasses = Section.warmup + Section.iterations
    <3>1. main \in InGroup
      BY <1>19 DEF EndGroup, PassesOver, InGroup
    <3> QED
      BY <1>1, <1>2, <1>3, <3>1 DEF InLoops, Spec, AllPasses
  <2>2. main = "pass" /\ plan # NoPlan /\ it >= AllPasses /\ (it = 0 \/ it = AllPasses)
        /\ (mode = "upload" => plan.upPart # 0)
    <3>1. main = "pass" /\ it >= AllPasses /\ (mode = "upload" => plan.upPart # 0)
      BY <1>19 DEF EndGroup, PassesOver, AllPasses
    <3>2. plan # NoPlan
      BY <1>1, <3>1 DEF Configured, Running
    <3>3. it = 0 \/ it <= AllPasses
      BY <1>1, <3>1 DEF InLoops, InGroup
    <3>4. AllPasses \in Int
      BY <1>2, <2>1
    <3> QED
      BY <1>2, <3>1, <3>2, <3>3, <3>4
  <2>3. PICK median \in MedianSamples(samples) : rows' = Append(rows, Row(median))
    BY <1>19 DEF EndGroup
  <2>4. NParts(PerFileSize(g), plan.upPart, Objects(g)) \in Int \/ mode = "download"
    <3>1. ASSUME NEW x \in Int PROVE Wrap(x) \in Int
      BY Wrapped, SettingsAssumption DEF MinInt
    <3>2. ASSUME mode = "upload" PROVE NParts(PerFileSize(g), plan.upPart, Objects(g)) \in Int
      <4> DEFINE up == Wrap(Wrap(PerFileSize(g) + plan.upPart) - 1)
      <4>1. up \in Int
        <5>1. PerFileSize(g) + plan.upPart \in Int
          BY <1>2, <2>1, <2>2
        <5>2. Wrap(PerFileSize(g) + plan.upPart) - 1 \in Int
          BY <3>1, <5>1
        <5> QED
          BY <3>1, <5>2
      <4> HIDE DEF up
      <4>2. Quot(up, plan.upPart) \in Int
        BY <1>2, <2>2, <3>2, <4>1, Quotient
      <4>3. Wrap(Quot(up, plan.upPart) * Objects(g)) \in Int
        BY <2>1, <3>1, <4>2
      <4> QED
        BY <4>3 DEF NParts, up
    <3> QED
      BY <1>2, <3>2
  <2>5. Row(median) \in Rows
    <3>1. median \in Samples /\ BestSample(samples) \in Samples
      BY <1>2, <2>3, MedianOf, BestOf
    <3>2. Len(samples) \in Nat
      BY <1>2, LenProperties
    <3>3. Wrap(PerFileSize(g) * Objects(g)) \in Int
      <4>1. PerFileSize(g) * Objects(g) \in Int
        BY <2>1
      <4> QED
        BY <4>1, Wrapped, SettingsAssumption DEF MinInt
    <3>4. (IF mode = "upload" THEN NParts(PerFileSize(g), plan.upPart, Objects(g)) ELSE 0) \in Int
      BY <2>4
    <3> QED
      BY <1>2, <2>1, <2>2, <3>1, <3>2, <3>3, <3>4 DEF Row, Rows
  <2>6. RowTrue(Row(median))
    <3> DEFINE r == Row(median)
    <3>1. /\ r.group = g /\ r.files = Objects(g) /\ r.samples = samples /\ r.median = median
          /\ r.size = Wrap(PerFileSize(g) * Objects(g)) /\ r.iterations = Len(samples)
          /\ r.best = BestSample(samples)
      BY DEF Row
    <3> HIDE DEF r
    <3>2. Countable(r) => \A n \in DOMAIN r.samples : WholeOrCut(r, n)
      <4>1. SUFFICES ASSUME Countable(r)
                     PROVE  \A n \in DOMAIN samples : MovedBy(samples[n].bytes, r.size)
        BY <3>1 DEF WholeOrCut, Whole, MovedBy
      <4>2. /\ Counts(g) /\ PerFileSize(g) = ParseSize(Spec(g).size)
            /\ PerFileSize(g) >= 0 /\ PerFileSize(g) * Objects(g) <= MaxInt
        BY <3>1, <4>1 DEF Countable, Counts, PerFileSize
      <4>3. PerFileSize(g) * Objects(g) \in Nat
        BY <2>1, <4>2
      <4>4. PerFileSize(g) * Objects(g) \in MinInt..MaxInt
        BY <4>2, <4>3, SettingsAssumption DEF MinInt
      <4>5. r.size = PerFileSize(g) * Objects(g)
        BY <3>1, <4>3, <4>4, Wrapped
      <4> QED
        BY <1>1, <2>2, <4>2, <4>5 DEF GroupSoFar, InGroup
    <3>3. PassesKept(r)
      <4> DEFINE least == Section.iterations + (IF Section.warmup < 0 THEN Section.warmup ELSE 0)
      <4>1. least \in Int /\ Max({0, least}) = IF 0 >= least THEN 0 ELSE least
        BY <1>2, MaxOfTwo
      <4>2. Len(samples) = IF Section.warmup <= 0 THEN it
                           ELSE IF it >= Section.warmup THEN it - Section.warmup ELSE 0
        BY <1>1, <2>2 DEF GroupSoFar, MovedBy, InGroup
      <4>3. Section.iterations >= 1 /\ AllPasses = Section.warmup + Section.iterations
        BY <1>2, <2>2 DEF AllPasses
      <4>4. Len(samples) = IF 0 >= least THEN 0 ELSE least
        BY <1>2, <2>2, <4>2, <4>3
      <4> QED
        BY <3>1, <4>1, <4>4 DEF PassesKept
    <3>4. MedianInTheMiddle(r)
      BY <1>2, <2>3, <3>1, MedianOf DEF MedianInTheMiddle
    <3>5. BestIsFastest(r)
      BY <1>2, <3>1, BestOf DEF BestIsFastest
    <3>6. r.group \in DOMAIN cfg.sizes
      BY <2>1, <3>1
    <3> QED
      BY <3>2, <3>3, <3>4, <3>5, <3>6 DEF RowTrue, r
  <2>7. mode = "upload" /\ AllPasses > 0 /\ ~cancelled => Stored(g - 1)'
    <3>1. mode = "upload" /\ AllPasses > 0 /\ ~cancelled => Stored(g)
      BY <1>1, <1>2, <2>1, <2>2 DEF Seeded, InGroup
    <3>2. g' - 1 = g /\ UNCHANGED <<file, s3>>
      BY <1>2, <1>19 DEF EndGroup, process
    <3> QED
      BY <3>1, <3>2 DEF Stored
  <2>8. UNCHANGED <<file, mode, cfg, plan, cancelled, s3, seeding, it>> /\ main' = "group" /\ g' = g + 1
        /\ Section' = Section /\ AllPasses' = AllPasses
        /\ (Stored(Len(file.sizes))' <=> Stored(Len(file.sizes)))
    BY <1>19 DEF EndGroup, process, Section, AllPasses, Stored
  <2>9. TypeOK'
    <3>1. rows' \in Seq(Rows)
      BY <1>2, <2>3, <2>5, AppendProperties
    <3> QED
      BY <1>1, <1>2, <3>1, <1>19 DEF EndGroup, process, loop, cutter, TypeOK, Running
  <2>10. ReaderInv'
    BY <1>1, <1>19 DEF EndGroup, readerVars, ReaderInv, ReaderTypeOK, InStep, StreamSound,
                     PatternRepeats, ExactlyAsked
  <2>11. Configured'
    <3>1. cfg = WithDefaults(file) /\ ~Refused(cfg) /\ plan = Plan(cfg)
      BY <1>1, <2>2 DEF Configured
    <3>2. cfg' = WithDefaults(file') /\ ~Refused(cfg') /\ plan' = Plan(cfg') /\ plan' # NoPlan
      BY <2>2, <2>8, <3>1
    <3> QED
      BY <2>8, <3>2 DEF Configured
  <2>12. InLoops'
    BY <1>1, <1>2, <2>1, <1>19 DEF EndGroup, PassesOver, process, loop, cutter, InLoops, InGroup
  <2>13. BucketTrue'
    BY <1>1, <1>2, <1>19 DEF EndGroup, PassesOver, process, loop, cutter, BucketTrue
  <2>14. Seeded'
    <3>1. main' \notin {"object", "body", "done", "pass"}
      BY <2>8
    <3>2. mode = "upload" /\ (AllPasses > 0)' /\ ~cancelled => Stored(g - 1)'
      BY <2>7, <2>8
    <3>3. (mode = "download" /\ seeding = "done")' =>
            \/ Stored(Len(file.sizes))'
            \/ (WithDefaults(file).up.warmup + WithDefaults(file).up.iterations <= 0)'
      BY <1>1, <2>8 DEF Seeded
    <3> QED
      BY <2>8, <3>1, <3>2, <3>3 DEF Seeded, InGroup
  <2>15. GroupSoFar'
    BY <1>1, <1>2, <2>1, <1>19
      DEF EndGroup, PassesOver, process, loop, cutter, GroupSoFar, MovedBy, InGroup
  <2>16. RowsTrue'
    <3>1. UNCHANGED <<cfg, mode, cancelled>>
      BY <1>19 DEF EndGroup, process
    <3> QED
      BY <1>1, <1>2, <2>3, <2>5, <2>6, <3>1, RowsGrow
  <2>17. PanicIsZeroPart'
    BY <1>1, <1>2, <1>19 DEF EndGroup, PassesOver, process, loop, cutter, PanicIsZeroPart
  <2>18. NothingMissing'
    BY <1>1, <1>2, <1>19 DEF EndGroup, PassesOver, process, loop, cutter, NothingMissing
  <2> QED
    BY <2>9, <2>10, <2>11, <2>12, <2>13, <2>14, <2>15, <2>16, <2>17, <2>18 DEF IInv
<1>20. CASE DivideByZero
  <2>1. /\ g \in DOMAIN cfg.sizes /\ Objects(g) \in Nat \ {0} /\ PerFileSize(g) \in Int
        /\ DOMAIN KeysFor(Spec(g)) = 1..Objects(g)
        /\ AllPasses = Section.warmup + Section.iterations
    <3>1. main \in InGroup
      BY <1>20 DEF DivideByZero, PassesOver, InGroup
    <3> QED
      BY <1>1, <1>2, <1>3, <3>1 DEF InLoops, Spec, AllPasses
  <2>2. /\ Objects(g)' = Objects(g) /\ PerFileSize(g)' = PerFileSize(g) /\ Spec(g)' = Spec(g)
        /\ Section' = Section /\ AllPasses' = AllPasses /\ (Counts(g)' <=> Counts(g))
    BY <1>20
      DEF DivideByZero, process, loop, Objects, PerFileSize, Spec, Section, AllPasses, Counts
  <2>3. /\ Stored(g)' <=> Stored(g)
        /\ Stored(g - 1)' <=> Stored(g - 1)
        /\ Stored(Len(file.sizes))' <=> Stored(Len(file.sizes))
    BY <1>20 DEF DivideByZero, process, loop, Stored
  <2>4. TypeOK'
    BY <1>1, <1>2, <1>20 DEF DivideByZero, PassesOver, process, loop, cutter, TypeOK, Running
  <2>5. ReaderInv'
    BY <1>1, <1>20 DEF DivideByZero, readerVars, ReaderInv, ReaderTypeOK, InStep, StreamSound,
                     PatternRepeats, ExactlyAsked
  <2>6. Configured'
    BY <1>1, <1>2, <1>20 DEF DivideByZero, PassesOver, process, loop, Configured, Running
  <2>7. InLoops'
    BY <1>1, <1>2, <2>1, <2>2, <1>20
      DEF DivideByZero, PassesOver, process, loop, cutter, InLoops, InGroup
  <2>8. BucketTrue'
    BY <1>1, <1>2, <1>20 DEF DivideByZero, PassesOver, process, loop, cutter, BucketTrue
  <2>9. Seeded'
    BY <1>1, <1>2, <2>1, <2>2, <2>3, <1>20
      DEF DivideByZero, PassesOver, process, loop, cutter, Seeded, Running, InGroup
  <2>10. GroupSoFar'
    BY <1>1, <1>2, <2>1, <2>2, <1>20
      DEF DivideByZero, PassesOver, process, loop, cutter, GroupSoFar, MovedBy, InGroup
  <2>11. RowsTrue'
    BY <1>1, <1>20, RowsKept DEF DivideByZero, process, loop
  <2>12. PanicIsZeroPart'
    BY <1>1, <1>2, <2>2, <1>20 DEF DivideByZero, PassesOver, process, loop, PanicIsZeroPart
  <2>13. NothingMissing'
    BY <1>1, <1>2, <1>20 DEF DivideByZero, PassesOver, process, loop, cutter, NothingMissing
  <2> QED
    BY <2>4, <2>5, <2>6, <2>7, <2>8, <2>9, <2>10, <2>11, <2>12, <2>13 DEF IInv
<1>21. CASE EndRun
  <2>1. Stored(g - 1) => Stored(Len(file.sizes))'
    <3>1. \A k \in DOMAIN file.sizes : k <= g - 1
      BY <1>2, <1>21 DEF EndRun
    <3> QED
      BY <3>1, <1>21 DEF EndRun, process, Stored
  <2>2. /\ Objects(g)' = Objects(g) /\ PerFileSize(g)' = PerFileSize(g) /\ Spec(g)' = Spec(g)
        /\ Section' = Section /\ AllPasses' = AllPasses /\ (Counts(g)' <=> Counts(g))
    BY <1>21 DEF EndRun, process, loop, Objects, PerFileSize, Spec, Section, AllPasses, Counts
  <2>3. /\ Stored(g)' <=> Stored(g)
        /\ Stored(g - 1)' <=> Stored(g - 1)
        /\ Stored(Len(file.sizes))' <=> Stored(Len(file.sizes))
    BY <1>21 DEF EndRun, process, loop, Stored
  <2>4. TypeOK'
    BY <1>1, <1>2, <1>21 DEF EndRun, process, loop, cutter, TypeOK, Running
  <2>5. ReaderInv'
    BY <1>1, <1>21 DEF EndRun, readerVars, ReaderInv, ReaderTypeOK, InStep, StreamSound,
                     PatternRepeats, ExactlyAsked
  <2>6. Configured'
    BY <1>1, <1>2, <1>21 DEF EndRun, process, loop, cutter, Configured, Running
  <2>7. InLoops'
    BY <1>1, <1>2, <2>2, <1>21 DEF EndRun, process, loop, cutter, InLoops, InGroup
  <2>8. BucketTrue'
    BY <1>1, <1>2, <1>21 DEF EndRun, process, loop, cutter, BucketTrue
  <2>9. Seeded'
    BY <1>1, <1>2, <2>1, <2>2, <2>3, <1>21
      DEF EndRun, process, loop, cutter, Seeded, Running, InGroup
  <2>10. GroupSoFar'
    BY <1>1, <1>2, <2>2, <1>21 DEF EndRun, process, loop, cutter, GroupSoFar, MovedBy, InGroup
  <2>11. RowsTrue'
    BY <1>1, <1>21, RowsKept DEF EndRun, process, loop
  <2>12. PanicIsZeroPart'
    BY <1>1, <1>2, <2>2, <1>21 DEF EndRun, process, loop, cutter, PanicIsZeroPart
  <2>13. NothingMissing'
    BY <1>1, <1>2, <1>21 DEF EndRun, process, loop, cutter, NothingMissing
  <2> QED
    BY <2>4, <2>5, <2>6, <2>7, <2>8, <2>9, <2>10, <2>11, <2>12, <2>13 DEF IInv
<1>22. CASE TransferFails
  <2>1. /\ Objects(g)' = Objects(g) /\ PerFileSize(g)' = PerFileSize(g) /\ Spec(g)' = Spec(g)
        /\ Section' = Section /\ AllPasses' = AllPasses /\ (Counts(g)' <=> Counts(g))
    BY <1>22
      DEF TransferFails, Call, process, loop, Objects, PerFileSize, Spec, Section, AllPasses, Counts
  <2>2. /\ Stored(g)' <=> Stored(g)
        /\ Stored(g - 1)' <=> Stored(g - 1)
        /\ Stored(Len(file.sizes))' <=> Stored(Len(file.sizes))
    BY <1>22 DEF TransferFails, Call, process, loop, Stored
  <2>3. TypeOK'
    BY <1>1, <1>2, <1>22 DEF TransferFails, Call, process, loop, cutter, TypeOK, Running
  <2>4. ReaderInv'
    BY <1>1, <1>22 DEF TransferFails, Call, readerVars, ReaderInv, ReaderTypeOK, InStep, StreamSound,
                     PatternRepeats, ExactlyAsked
  <2>5. Configured'
    BY <1>1, <1>2, <1>22 DEF TransferFails, Call, process, loop, cutter, Configured, Running
  <2>6. InLoops'
    BY <1>1, <1>2, <2>1, <1>22 DEF TransferFails, Call, process, loop, cutter, InLoops, InGroup
  <2>7. BucketTrue'
    BY <1>1, <1>2, <1>22 DEF TransferFails, Call, process, loop, cutter, BucketTrue
  <2>8. Seeded'
    BY <1>1, <1>2, <2>1, <2>2, <1>22
      DEF TransferFails, Call, process, loop, cutter, Seeded, Running, InGroup
  <2>9. GroupSoFar'
    BY <1>1, <1>2, <2>1, <1>22 DEF TransferFails, Call, process, loop, cutter, GroupSoFar, MovedBy, InGroup
  <2>10. RowsTrue'
    BY <1>1, <1>22, RowsKept DEF TransferFails, Call, process, loop
  <2>11. PanicIsZeroPart'
    BY <1>1, <1>2, <2>1, <1>22 DEF TransferFails, Call, process, loop, cutter, PanicIsZeroPart
  <2>12. NothingMissing'
    BY <1>1, <1>2, <1>22 DEF TransferFails, Call, process, loop, cutter, NothingMissing
  <2> QED
    BY <2>3, <2>4, <2>5, <2>6, <2>7, <2>8, <2>9, <2>10, <2>11, <2>12 DEF IInv
<1>23. CASE DownloadNext
  <2>1. main # "load" /\ mode = "upload" /\ UNCHANGED <<file, s3>> /\ mode' = "download"
        /\ seeding' = (IF cancelled THEN "cancelled" ELSE main) /\ main \in {"done", "error", "missing", "panic"} /\ main' = "load"
    BY <1>23 DEF DownloadNext, Ended
  <2>2. <<>> \in Seq(Samples) /\ <<>> \in Seq(Rows)
    BY EmptySeq
  <2>3. Stored(Len(file.sizes)) => Stored(Len(file.sizes))'
    BY <2>1 DEF Stored
  <2>4. AllPasses = WithDefaults(file).up.warmup + WithDefaults(file).up.iterations
    BY <1>1, <2>1 DEF Configured, AllPasses, Section
  <2>5. TypeOK'
    <3>1. cancelled' \in BOOLEAN
      BY <1>23 DEF DownloadNext
    <3>2. seeding' \in {"none", "done", "error", "missing", "panic", "cancelled"}
      BY <2>1
    <3> QED
      BY <1>1, <1>2, <2>1, <2>2, <3>1, <3>2, <1>23
        DEF DownloadNext, process, loop, cutter, TypeOK, Running
  <2>6. ReaderInv'
    BY <1>1, <1>23 DEF DownloadNext, readerVars, ReaderInv, ReaderTypeOK, InStep, StreamSound,
                     PatternRepeats, ExactlyAsked
  <2>7. Configured'
    BY <1>1, <1>2, <1>23 DEF DownloadNext, process, loop, cutter, Configured, Running
  <2>8. InLoops'
    BY <1>1, <1>2, <1>23 DEF DownloadNext, process, loop, cutter, InLoops, InGroup
  <2>9. BucketTrue'
    BY <1>1, <1>2, <1>23 DEF DownloadNext, process, loop, cutter, BucketTrue
  <2>10. Seeded'
    BY <1>1, <1>2, <2>1, <2>3, <2>4 DEF Seeded
  <2>11. GroupSoFar'
    BY <1>1, <1>2, <1>23 DEF DownloadNext, process, loop, cutter, GroupSoFar, MovedBy, InGroup
  <2>12. RowsTrue'
    <3>1. rows' = <<>>
      BY <1>1, <1>23 DEF DownloadNext, loop, Configured
    <3>2. DOMAIN rows' = {}
      BY <3>1
    <3> QED
      BY <3>2 DEF RowsTrue
  <2>13. PanicIsZeroPart'
    BY <1>1, <1>2, <1>23 DEF DownloadNext, process, loop, cutter, PanicIsZeroPart
  <2>14. NothingMissing'
    BY <1>1, <1>2, <1>23 DEF DownloadNext, process, loop, cutter, NothingMissing
  <2> QED
    BY <2>5, <2>6, <2>7, <2>8, <2>9, <2>10, <2>11, <2>12, <2>13, <2>14 DEF IInv
<1>24. CASE Rest
  BY <1>4, <1>24 DEF Rest
<1>25. CASE PassOver
  <2>1. /\ g \in DOMAIN cfg.sizes /\ Objects(g) \in Nat \ {0} /\ PerFileSize(g) \in Int
        /\ i \in 1..Objects(g)
    <3>1. main = "object" /\ i <= Objects(g)
      BY <1>25 DEF PassOver
    <3> QED
      BY <1>1, <1>3, <3>1 DEF InLoops, InGroup
  <2>2. /\ Objects(g)' = Objects(g) /\ PerFileSize(g)' = PerFileSize(g) /\ Spec(g)' = Spec(g)
        /\ Section' = Section /\ AllPasses' = AllPasses /\ (Counts(g)' <=> Counts(g))
    BY <1>25 DEF PassOver, process, loop, Objects, PerFileSize, Spec, Section, AllPasses, Counts
  <2>3. /\ main = "object" /\ main' = "object" /\ i' = i + 1 /\ cancelled /\ cancelled'
        /\ UNCHANGED <<mode, file, g, it, samples, bytes, seeding>>
        /\ Stored(Len(file.sizes))' <=> Stored(Len(file.sizes))
    BY <1>25 DEF PassOver, process, Stored
  <2>4. TypeOK'
    BY <1>1, <1>2, <1>25 DEF PassOver, process, cutter, TypeOK, Running
  <2>5. ReaderInv'
    BY <1>1, <1>25 DEF PassOver, readerVars, ReaderInv, ReaderTypeOK, InStep, StreamSound,
                     PatternRepeats, ExactlyAsked
  <2>6. Configured'
    BY <1>1, <1>2, <1>25 DEF PassOver, process, Configured, Running
  <2>7. InLoops'
    <3>1. i' \in 1..(Objects(g) + 1) /\ UNCHANGED cfg
      BY <2>1, <2>3, <1>25 DEF PassOver, process
    <3> QED
      BY <1>1, <2>2, <2>3, <3>1 DEF InLoops, InGroup
  <2>8. BucketTrue'
    BY <1>1, <1>25 DEF PassOver, process, BucketTrue
  <2>9. Seeded'
    BY <1>1, <2>3 DEF Seeded
  <2>10. GroupSoFar'
    <3>1. ASSUME Counts(g) PROVE bytes \in 0..(PerFileSize(g) * i)
      <4>1. PerFileSize(g) \in Nat /\ PerFileSize(g) * Objects(g) <= MaxInt
        BY <1>3, <2>1, <3>1 DEF Counts, PerFileSize, Spec
      <4>2. MovedBy(bytes, PerFileSize(g) * (i - 1))
        BY <1>1, <2>3, <3>1 DEF GroupSoFar, InGroup
      <4>3. bytes \in 0..(PerFileSize(g) * (i - 1))
        BY <2>1, <4>1, <4>2, Upto DEF MovedBy
      <4> QED
        BY <2>1, <4>1, <4>3, Adding
    <3>2. i' - 1 = i
      BY <2>1, <2>3
    <3>3. /\ Counts(g) => \A n \in DOMAIN samples :
                           MovedBy(samples[n].bytes, PerFileSize(g) * Objects(g))
          /\ Len(samples) = IF Section.warmup <= 0 THEN it
                            ELSE IF it >= Section.warmup THEN it - Section.warmup ELSE 0
      BY <1>1, <2>3 DEF GroupSoFar, InGroup
    <3> QED
      BY <2>2, <2>3, <3>1, <3>2, <3>3 DEF GroupSoFar, MovedBy, InGroup
  <2>11. RowsTrue'
    BY <1>1, <1>25, RowsKept DEF PassOver, process
  <2>12. PanicIsZeroPart' /\ NothingMissing'
    BY <2>3 DEF PanicIsZeroPart, NothingMissing
  <2> QED
    BY <2>4, <2>5, <2>6, <2>7, <2>8, <2>9, <2>10, <2>11, <2>12 DEF IInv
<1>26. CASE Signal
  <2>1. /\ Objects(g)' = Objects(g) /\ PerFileSize(g)' = PerFileSize(g) /\ Spec(g)' = Spec(g)
        /\ Section' = Section /\ AllPasses' = AllPasses /\ (Counts(g)' <=> Counts(g))
    BY <1>26 DEF Signal, loop, Objects, PerFileSize, Spec, Section, AllPasses, Counts
  <2>2. /\ main \in {"group", "pass", "object", "body"} /\ ~cancelled /\ cancelled'
        /\ UNCHANGED <<main, mode, file, g, it, i, samples, bytes, seeding>>
        /\ Stored(Len(file.sizes))' <=> Stored(Len(file.sizes))
    BY <1>26 DEF Signal, loop, Stored, Running
  <2>3. TypeOK'
    BY <1>1, <1>26 DEF Signal, loop, cutter, TypeOK
  <2>4. ReaderInv'
    BY <1>1, <1>26 DEF Signal, readerVars, ReaderInv, ReaderTypeOK, InStep, StreamSound,
                     PatternRepeats, ExactlyAsked
  <2>5. Configured'
    BY <1>1, <1>26 DEF Signal, loop, Configured
  <2>6. InLoops'
    BY <1>1, <2>1, <1>26 DEF Signal, loop, readerVars, InLoops, InGroup
  <2>7. BucketTrue'
    BY <1>1, <1>26 DEF Signal, BucketTrue
  <2>8. Seeded'
    BY <1>1, <2>2 DEF Seeded
  <2>9. GroupSoFar'
    <3>1. ASSUME main \in InGroup, Counts(g), NEW n \in DOMAIN samples
          PROVE  samples[n].bytes = PerFileSize(g) * Objects(g)
      BY <1>1, <2>2, <3>1 DEF GroupSoFar, MovedBy
    <3>2. main \in {"object", "body"} /\ Counts(g) => bytes = PerFileSize(g) * (i - 1)
      BY <1>1, <2>2 DEF GroupSoFar, InGroup, MovedBy
    <3>3. main \in InGroup =>
            Len(samples) = IF Section.warmup <= 0 THEN it
                           ELSE IF it >= Section.warmup THEN it - Section.warmup ELSE 0
      BY <1>1 DEF GroupSoFar
    <3> QED
      BY <2>1, <2>2, <3>1, <3>2, <3>3 DEF GroupSoFar, InGroup, MovedBy
  <2>10. RowsTrue'
    BY <1>1, <2>2, <1>26, RowsKept DEF Signal, loop
  <2>11. PanicIsZeroPart' /\ NothingMissing'
    BY <2>2 DEF PanicIsZeroPart, NothingMissing
  <2> QED
    BY <2>3, <2>4, <2>5, <2>6, <2>7, <2>8, <2>9, <2>10, <2>11 DEF IInv
<1> QED
  BY <1>4, <1>5, <1>6, <1>7, <1>8, <1>9, <1>10, <1>11, <1>12, <1>13, <1>14, <1>15, <1>16,
     <1>17, <1>18, <1>19, <1>20, <1>21, <1>22, <1>23, <1>24, <1>25, <1>26
    DEF Next, Step

-----------------------------------------------------------------------------
(* The theorems. *)

\* IInv holds of every upload and of the download after it, for every set of
\* configurations and a signal at any step of either.
THEOREM Invariance == Behaviour => []IInv
<1>1. Init => IInv
  BY InitEstablishesIInv
<1>2. IInv /\ [Next]_vars => IInv'
  BY StepKeepsIInv
<1> QED
  BY <1>1, <1>2, PTL DEF Behaviour

\* Every part of the state has its type: the samples and rows of any number of passes
\* and groups, and every object in the bucket, which has a size and a part at least.
THEOREM TypeCorrect == Behaviour => []TypeOK
<1>1. IInv => TypeOK
  BY DEF IInv
<1> QED
  BY <1>1, Invariance, PTL

\* A reader by itself, whatever buffers it is called with, yields the block
\* repeated, and as many bytes as it was made for (sizedReader, tmbench.go 41).
THEOREM ReaderIsSound == ReaderSpec => []StreamSound
<1>1. ReaderInit => ReaderInv
  BY Opening DEF ReaderInit
<1>2. ReaderInv /\ [ReaderNext]_readerVars => ReaderInv'
  <2>1. ASSUME ReaderInv, UNCHANGED readerVars PROVE ReaderInv'
    BY <2>1 DEF readerVars, ReaderInv, ReaderTypeOK, InStep, StreamSound, PatternRepeats,
                ExactlyAsked
  <2> QED
    BY <2>1, Streaming
<1>3. ReaderInv => StreamSound
  BY DEF ReaderInv
<1> QED
  BY <1>1, <1>2, <1>3, PTL DEF ReaderSpec

\* Nor does the run that owns the reader ask it for anything else: every body it
\* uploads is made of the block, and as long as asked.
THEOREM StreamIsSound == Behaviour => []StreamSound
<1>1. IInv => StreamSound
  BY DEF IInv, ReaderInv
<1> QED
  BY <1>1, Invariance, PTL

\* No configuration makes the program panic but one with an upload part of nothing:
\* no index is out of the keys of a group, for any count.
THEOREM PanicsAreZeroParts == Behaviour => []PanicIsZeroPart
<1>1. IInv => PanicIsZeroPart
  BY DEF IInv
<1> QED
  BY <1>1, Invariance, PTL

\* A download after an upload that succeeded and that no signal reached finds every
\* object, for all lists of groups, labels and counts and whatever happens to the
\* download: the bucket keeps what the groups before have stored.
THEOREM NothingIsMissing == Behaviour => []NothingMissing
<1>1. IInv => NothingMissing
  BY DEF IInv
<1> QED
  BY <1>1, Invariance, PTL

\* In every row the samples are the passes asked for, the median is one of them with
\* half of them on either side, and none is faster than the best.
THEOREM FiguresAreSound == Behaviour => []FiguresSound
<1>1. IInv => FiguresSound
  BY DEF IInv, RowsTrue, RowTrue, FiguresSound
<1> QED
  BY <1>1, Invariance, PTL

\* For every configuration that is not refused, the objects in parallel keep within
\* maxBufferedBytes and none has less than a part of it, and there are connections for
\* all the parts in flight.
THEOREM PlanIsRight == Behaviour => []PlanSound
<1>1. ASSUME IInv PROVE PlanSound
  <2>1. /\ TypeOK /\ Configured /\ mode \in {"upload", "download"}
        /\ plan = NoPlan \/ (~Refused(cfg) /\ plan = Plan(cfg))
    BY <1>1 DEF IInv, TypeOK, Configured
  <2>2. /\ cfg \in ConfigFiles /\ DOMAIN cfg.sizes = 1..Len(cfg.sizes) /\ Len(cfg.sizes) \in Nat
        /\ \A k \in DOMAIN cfg.sizes : Objects(k) \in Nat
    BY <2>1, Facts
  <2>3. CASE plan = NoPlan
    BY <2>3 DEF PlanSound, BudgetKept, ConnsSuffice
  <2>4. CASE ~Refused(cfg) /\ plan = Plan(cfg)
    <3>1. /\ BudgetKept
          /\ \A n \in Nat : LET obj == IF mode = "upload" THEN plan.upObj ELSE plan.downObj
                                per == IF mode = "upload" THEN plan.upPer ELSE plan.downPer
                            IN  Min({obj, n}) * per <= InFlight /\ InFlight <= plan.conns
      BY <2>1, <2>2, <2>4, PlanIsSound
    <3>2. g <= Len(cfg.sizes) => Objects(g) \in Nat
      <4>1. g \in Nat \ {0}
        BY <2>1 DEF TypeOK
      <4> QED
        BY <2>2, <4>1
    <3>3. ConnsSuffice
      BY <3>1, <3>2 DEF ConnsSuffice
    <3> QED
      BY <3>1, <3>3 DEF PlanSound
  <2> QED
    BY <2>1, <2>3, <2>4
<1> QED
  BY <1>1, Invariance, PTL

-----------------------------------------------------------------------------

\* Dividing what fills p parts, the last of them not empty, up to whole parts gives p;
\* and p parts a time for n objects are counted by int64 if the bytes are.
LEMMA PartsCounted ==
  ASSUME NEW size \in Nat \ {0}, NEW part \in Nat \ {0}, NEW p \in Nat \ {0},
         FillParts(size, part, p), size + part <= MaxInt,
         NEW n \in Nat, size * n <= MaxInt
  PROVE  p = (size + part - 1) \div part /\ NParts(size, part, n) = p * n
<1>1. MaxInt \in Nat \ {0} /\ MinInt = -MaxInt - 1
  BY SettingsAssumption DEF MinInt
<1>2. Wrap(size + part) = size + part /\ Wrap(Wrap(size + part) - 1) = size + part - 1
  <2>1. size + part \in MinInt..MaxInt /\ size + part - 1 \in MinInt..MaxInt
    BY <1>1
  <2> QED
    BY <2>1, Wrapped
<1>3. Quot(size + part - 1, part) = (size + part - 1) \div part
  <2> DEFINE a == size + part - 1
  <2>1. a \in Nat \ {0} /\ a > 0 /\ part > 0 /\ -a < a /\ -part < part
    OBVIOUS
  <2>2. Max({a, -a}) = a /\ Max({part, -part}) = part
    BY <2>1, MaxOfTwo
  <2> HIDE DEF a
  <2>3. Quot(a, part) = a \div part
    BY <2>1, <2>2 DEF Quot
  <2> QED
    BY <2>3 DEF a
<1>4. (size + part - 1) \div part = p
  <2> DEFINE rest == size - (p - 1) * part - 1
  <2>1. (p - 1) * part \in Int /\ p * part = (p - 1) * part + part
    BY Z3
  <2>2. rest \in 0..(part - 1)
    BY <2>1 DEF FillParts
  <2>3. size + part - 1 = p * part + rest
    BY <2>1
  <2> HIDE DEF rest
  <2>4. (p * part + rest) \div part = p
    BY <2>2, Z3
  <2> QED
    BY <2>3, <2>4
<1>5. p * n \in MinInt..MaxInt
  <2>1. p <= size
    <3>1. (p - 1) * part >= p - 1
      BY Z3
    <3> QED
      BY <3>1 DEF FillParts
  <2>2. p * n <= size * n /\ p * n \in Nat
    BY <2>1, Z3
  <2>3. size * n \in Nat
    OBVIOUS
  <2> QED
    BY <1>1, <2>2, <2>3
<1> QED
  BY <1>2, <1>3, <1>4, <1>5, Wrapped DEF NParts

\* The keys of a group differ.
LEMMA KeysDiffer ==
  ASSUME NEW spec \in SizeGroups
  PROVE  /\ IsFiniteSet(Range(KeysFor(spec)))
         /\ Cardinality(Range(KeysFor(spec))) = Max({1, spec.count})
<1> DEFINE names == KeysFor(spec)
<1>1. /\ Len(names) = Max({1, spec.count}) /\ Len(names) \in Nat \ {0}
      /\ DOMAIN names = 1..Len(names)
  BY KeysOfSpec
<1>2. ASSUME NEW a \in DOMAIN names, NEW b \in DOMAIN names, names[a] = names[b]
      PROVE  a = b
  <2>1. CASE spec.count <= 1
    <3>1. names = <<Key(spec.size, Sole)>>
      BY <2>1 DEF KeysFor
    <3> HIDE DEF names
    <3>2. DOMAIN names = {1}
      BY <3>1
    <3> QED
      BY <1>2, <3>2
  <2>2. CASE ~(spec.count <= 1)
    <3>1. names = [j \in 1..spec.count |-> Key(spec.size, j)]
      BY <2>2 DEF KeysFor
    <3> HIDE DEF names
    <3>2. Key(spec.size, a) = Key(spec.size, b)
      BY <1>2, <3>1
    <3> QED
      BY <3>2 DEF Key
  <2> QED
    BY <2>1, <2>2
<1> HIDE DEF names
<1> DEFINE name == [j \in 1..Len(names) |-> names[j]]
<1>3. name \in Bijection(1..Len(names), Range(names))
  <2>1. name \in Injection(1..Len(names), Range(names))
    BY <1>1, <1>2 DEF Injection, IsInjective, Range
  <2>2. \A t \in Range(names) : \E j \in 1..Len(names) : name[j] = t
    BY <1>1 DEF Range
  <2> QED
    BY <2>1, <2>2 DEF Bijection, Surjection, Injection
<1>4. IsFiniteSet(1..Len(names)) /\ Cardinality(1..Len(names)) = Len(names)
  BY <1>1, FS_Interval
<1>5. IsFiniteSet(Range(names)) /\ Cardinality(Range(names)) = Len(names)
  BY <1>3, <1>4, FS_Bijection DEF ExistsBijection
<1> QED
  BY <1>1, <1>5 DEF names

\* Objects of p parts each have p times their number.
LEMMA SameParts ==
  ASSUME NEW keys, IsFiniteSet(keys), NEW p \in Nat, \A key \in keys : s3[key].parts = p
  PROVE  Cardinality(PartsOf(keys)) = p * Cardinality(keys)
<1>1. PartsOf(keys) = keys \X (1..p)
  <2>1. PartsOf(keys) = UNION {{key} \X (1..p) : key \in keys}
    BY DEF PartsOf
  <2> QED
    BY <2>1
<1>2. IsFiniteSet(1..p) /\ Cardinality(1..p) = p
  BY FS_Interval
<1>3. Cardinality(keys \X (1..p)) = Cardinality(keys) * Cardinality(1..p)
  BY <1>2, FS_Product
<1>4. Cardinality(keys) \in Nat
  BY FS_CardinalityType
<1> QED
  BY <1>1, <1>2, <1>3, <1>4

-----------------------------------------------------------------------------

\* The parts of a body: what a call of Read returns goes into the part being filled,
\* which it completes or not.
LEMMA BodyCutKept ==
  ASSUME TypeOK, ReaderInv, Configured, InLoops, BodyCut, [Next]_vars
  PROVE  BodyCut'
<1>1. /\ plan # NoPlan => PartInUse \in Nat \ {0}
      /\ \A k \in DOMAIN cfg.sizes : PerFileSize(k) # Err => PerFileSize(k) \in Int
  BY Facts
<1>2. /\ want \in Nat /\ total \in Nat /\ total <= want /\ remaining \in Int
      /\ Len(body) \in Nat /\ filled \in Nat /\ cut \in Nat
  BY LenProperties DEF ReaderInv, ReaderTypeOK, TypeOK
<1>3. main = "body" => plan # NoPlan
  BY DEF Configured, Running
<1>4. CASE AskBody
  <2>1. UNCHANGED <<main, plan, filled, cut, body>> /\ main = "body" /\ PartInUse' = PartInUse
    BY <1>4 DEF AskBody, process, cutter, Read, PartInUse
  <2>2. PICK part \in Nat \ {0} : part = PartInUse
    BY <1>1, <1>3, <2>1
  <2>3. PICK len \in Nat \ {0} : Read(len) /\ filled + len <= part
    <3>1. \E len \in 1..(part - filled) : Read(len)
      BY <1>4, <2>2 DEF AskBody
    <3>2. \A len \in 1..(part - filled) : len \in Nat \ {0} /\ filled + len <= part
      BY <1>2
    <3> QED
      BY <3>1, <3>2
  <2>4. want' \in Nat /\ want' <= len /\ total' = 0 /\ total = 0
    BY <1>2, <2>3 DEF Read, Least
  <2>5. filled + want' <= part
    <3>1. PICK w \in Nat : w = want' /\ w <= len
      BY <2>4
    <3>2. w <= len /\ filled \in Nat /\ filled + len <= part
      BY <1>2, <2>3, <3>1
    <3>3. filled + w <= part
      BY <3>2
    <3> QED
      BY <3>1, <3>3
  <2> QED
    BY <2>1, <2>2, <2>4, <2>5 DEF BodyCut
<1>5. CASE CopyBody
  <2>1. UNCHANGED <<main, plan, filled, cut, want, remaining>> /\ main = "body"
        /\ PartInUse' = PartInUse /\ Copy
    BY <1>5 DEF CopyBody, process, cutter, Copy, PartInUse
  <2>2. ReaderInv' /\ UNCHANGED asked
    BY <2>1, Streaming DEF ReaderNext
  <2>3. Len(body') \in Nat /\ total' \in Nat /\ asked \in Int
    BY <2>2, LenProperties DEF ReaderInv, ReaderTypeOK
  <2>4. Len(body') - total' = Len(body) - total
    BY <1>2, <2>1, <2>2, <2>3 DEF ReaderInv, InStep
  <2>5. cut * PartInUse \in Int
    BY <1>1, <1>2, <1>3, <2>1
  <2>6. cut * PartInUse + filled + total' = Len(body')
    BY <1>2, <2>1, <2>3, <2>4, <2>5 DEF BodyCut
  <2> QED
    BY <2>1, <2>6 DEF BodyCut
<1>6. CASE TakeBody
  <2> DEFINE full == filled + total = PartInUse
  <2>1. /\ main = "body" /\ UNCHANGED <<main, plan, body>> /\ PartInUse' = PartInUse
        /\ want > 0 /\ total = want /\ want' = 0 /\ total' = 0
        /\ filled' = (IF full THEN 0 ELSE filled + total)
        /\ cut' = (IF full THEN cut + 1 ELSE cut)
    BY <1>6 DEF TakeBody, process, Return, PartInUse
  <2>2. /\ PartInUse \in Nat \ {0} /\ filled + want <= PartInUse
        /\ cut * PartInUse + filled + total = Len(body)
    BY <1>1, <1>3, <2>1 DEF BodyCut
  <2>3. cut * PartInUse \in Int /\ (cut + 1) * PartInUse = cut * PartInUse + PartInUse
    BY <1>2, <2>2, Z3
  <2>4. filled' < PartInUse
    BY <1>2, <2>1, <2>2
  <2>5. cut' * PartInUse + filled' + total' = Len(body)
    <3>1. CASE full
      BY <1>2, <2>1, <2>2, <2>3, <3>1
    <3>2. CASE ~full
      BY <1>2, <2>1, <2>2, <2>3, <3>2
    <3> QED
      BY <3>1, <3>2
  <2> QED
    BY <2>1, <2>4, <2>5 DEF BodyCut
<1>7. CASE BeginUpload
  <2>1. filled' = 0 /\ cut' = 0 /\ want' = 0 /\ total' = 0 /\ body' = <<>>
        /\ PartInUse' = PartInUse /\ main = "object"
    BY <1>7 DEF BeginUpload, Call, Open, process, PartInUse
  <2>2. PartInUse \in Nat \ {0}
    BY <1>1, <2>1 DEF Configured, Running
  <2>3. Len(<<>>) = 0 /\ 0 * PartInUse = 0
    BY <2>2, EmptySeq, Z3
  <2> QED
    BY <2>1, <2>2, <2>3 DEF BodyCut
<1>8. CASE UNCHANGED vars
  BY <1>8 DEF vars, process, cutter, readerVars, BodyCut, PartInUse
<1>9. CASE Rest
  BY <1>9 DEF Rest, Ended, vars, BodyCut
<1>10. CASE Signal
  BY <1>10 DEF Signal, cutter, readerVars, BodyCut, PartInUse
<1>11. CASE Load \/ Refuse \/ Resolve \/ BeginGroup \/ RefuseGroup \/ BeginPass \/ PassOver
            \/ EndUpload \/ Download \/ NotFound \/ EndPass \/ EndGroup \/ DivideByZero
            \/ EndRun \/ TransferFails \/ DownloadNext
  <2>1. main' # "body"
    BY <1>11 DEF Load, Refuse, Resolve, BeginGroup, RefuseGroup, BeginPass, PassOver, EndUpload,
         Download, Call, NotFound, EndPass, EndGroup, DivideByZero, EndRun, TransferFails,
         DownloadNext
  <2> QED
    BY <2>1 DEF BodyCut
<1> QED
  BY <1>4, <1>5, <1>6, <1>7, <1>8, <1>9, <1>10, <1>11 DEF Next, Step

\* The object that an upload leaves is cut as its body was.
LEMMA BucketCutKept ==
  ASSUME TypeOK, ReaderInv, Configured, InLoops, BodyCut, BucketCut, [Next]_vars
  PROVE  BucketCut'
<1>1. ASSUME UNCHANGED <<mode, plan, s3>> PROVE BucketCut'
  BY <1>1 DEF BucketCut, PartsFit, PartInUse
<1>2. CASE Resolve
  <2>1. plan = NoPlan /\ UNCHANGED <<mode, s3>>
    BY <1>2 DEF Resolve, Configured
  <2> QED
    BY <2>1 DEF BucketCut
<1>3. CASE EndUpload
  <2> DEFINE key   == KeysFor(Spec(g))[i]
             parts == IF filled > 0 \/ cut = 0 THEN cut + 1 ELSE cut
             object == [size |-> Len(body), parts |-> parts]
  <2>1. /\ main = "body" /\ AtEOF /\ UNCHANGED <<mode, plan>> /\ PartInUse' = PartInUse
        /\ s3' = [k \in DOMAIN s3 \cup {key} |-> IF k = key THEN object ELSE s3[k]]
    BY <1>3 DEF EndUpload, process, PartInUse
  <2>2. plan # NoPlan /\ PartInUse \in Nat \ {0}
    BY <2>1, Facts DEF Configured, Running
  <2>3. /\ filled \in Nat /\ cut \in Nat /\ filled < PartInUse /\ total = 0
        /\ cut * PartInUse + filled = Len(body) /\ Len(body) \in Nat
    <3>1. total = 0 /\ Len(body) \in Nat
      BY <2>1, LenProperties DEF AtEOF, ReaderInv, ReaderTypeOK
    <3>2. filled \in Nat /\ cut \in Nat /\ cut * PartInUse \in Int
      BY <2>2 DEF TypeOK
    <3> QED
      BY <2>1, <3>1, <3>2 DEF BodyCut
  <2>4. PartsFit(object)
    <3>1. /\ cut * PartInUse \in Int /\ (cut + 1) * PartInUse = cut * PartInUse + PartInUse
          /\ (cut - 1) * PartInUse = cut * PartInUse - PartInUse /\ (cut + 1) - 1 = cut
          /\ (cut = 0 => cut * PartInUse = 0)
      BY <2>2, <2>3, Z3
    <3>2. CASE filled > 0
      <4>1. parts = cut + 1 /\ parts - 1 = cut
        BY <2>3, <3>2
      <4> HIDE DEF parts
      <4>2. (parts - 1) * PartInUse < Len(body) /\ Len(body) <= parts * PartInUse
        BY <2>2, <2>3, <3>1, <3>2, <4>1
      <4> QED
        BY <4>2 DEF PartsFit, FillParts
    <3>3. CASE filled = 0 /\ cut = 0
      BY <2>3, <3>1, <3>3 DEF PartsFit
    <3>4. CASE filled = 0 /\ cut # 0
      <4>1. parts = cut
        BY <3>4
      <4> HIDE DEF parts
      <4>2. (parts - 1) * PartInUse < Len(body) /\ Len(body) <= parts * PartInUse
        BY <2>2, <2>3, <3>1, <3>4, <4>1
      <4> QED
        BY <4>2 DEF PartsFit, FillParts
    <3> QED
      BY <2>3, <3>2, <3>3, <3>4
  <2> HIDE DEF object, key
  <2>5. ASSUME mode = "upload", NEW k \in DOMAIN s3'
        PROVE  plan' # NoPlan /\ PartsFit(s3[k])'
    <3>1. PartsFit(s3'[k])
      BY <2>1, <2>4, <2>5 DEF BucketCut
    <3> QED
      BY <2>1, <2>2, <3>1 DEF PartsFit
  <2> QED
    BY <2>1, <2>5 DEF BucketCut
<1>4. CASE DownloadNext
  BY <1>4 DEF DownloadNext, BucketCut
<1>5. CASE Load \/ Refuse \/ BeginGroup \/ RefuseGroup \/ BeginPass \/ PassOver \/ BeginUpload
           \/ AskBody \/ CopyBody \/ TakeBody \/ Download \/ NotFound \/ EndPass \/ EndGroup
           \/ DivideByZero \/ EndRun \/ TransferFails \/ Signal \/ Rest \/ UNCHANGED vars
  <2>1. UNCHANGED <<mode, plan, s3>>
    BY <1>5 DEF Load, Refuse, BeginGroup, RefuseGroup, BeginPass, PassOver, BeginUpload, AskBody,
         CopyBody, TakeBody, Download, NotFound, EndPass, EndGroup, DivideByZero, EndRun,
         TransferFails, Signal, Rest, vars, process
  <2> QED
    BY <1>1, <2>1
<1> QED
  BY <1>2, <1>3, <1>4, <1>5 DEF Next, Step

\* A row is made of what the group has at its end, and the numbers of a run do not change.
LEMMA RowsCutKept ==
  ASSUME TypeOK, Configured, RowsCut, [Next]_vars
  PROVE  RowsCut'
<1>1. ASSUME UNCHANGED <<mode, cfg, plan, rows>> PROVE RowsCut'
  BY <1>1 DEF RowsCut, Objects, PerFileSize, Spec
<1>2. CASE Load \/ Resolve
  <2>1. rows' = <<>>
    BY <1>2 DEF Load, Resolve, loop, Configured
  <2> QED
    BY <2>1 DEF RowsCut
<1>3. CASE EndGroup
  <2>1. PICK median \in MedianSamples(samples) : rows' = Append(rows, Row(median))
    BY <1>3 DEF EndGroup
  <2>2. UNCHANGED <<mode, cfg, plan>>
    BY <1>3 DEF EndGroup, process
  <2>3. /\ DOMAIN rows = 1..Len(rows) /\ Len(rows) \in Nat
        /\ DOMAIN rows' = 1..(Len(rows) + 1)
        /\ \A k \in 1..(Len(rows) + 1) :
             rows'[k] = IF k <= Len(rows) THEN rows[k] ELSE Row(median)
    <3>1. rows \in Seq(Rows)
      BY DEF TypeOK
    <3> QED
      BY <2>1, <3>1, LenProperties, AppendProperties
  <2> DEFINE Told(r) ==
        /\ r.files = Objects(r.group) /\ r.perFileSize = PerFileSize(r.group)
        /\ r.parts = NParts(r.perFileSize, plan.upPart, r.files)
  <2>4. mode = "upload" => Told(Row(median))
    BY DEF Row
  <2>5. mode = "upload" => \A k \in DOMAIN rows : Told(rows[k])
    BY DEF RowsCut
  <2>6. ASSUME mode = "upload", NEW k \in 1..(Len(rows) + 1) PROVE Told(rows'[k])
    <3> HIDE DEF Told
    <3>1. CASE k <= Len(rows)
      BY <2>3, <2>5, <2>6, <3>1
    <3>2. CASE ~(k <= Len(rows))
      BY <2>3, <2>4, <2>6, <3>2
    <3> QED
      BY <3>1, <3>2
  <2> QED
    BY <2>2, <2>3, <2>6 DEF RowsCut, Objects, PerFileSize, Spec
<1>4. CASE DownloadNext
  BY <1>4 DEF DownloadNext, RowsCut
<1>5. CASE Refuse \/ BeginGroup \/ RefuseGroup \/ BeginPass \/ PassOver \/ BeginUpload
           \/ AskBody \/ CopyBody \/ TakeBody \/ EndUpload \/ Download \/ NotFound \/ EndPass
           \/ DivideByZero \/ EndRun \/ TransferFails \/ Signal \/ Rest \/ UNCHANGED vars
  <2>1. UNCHANGED <<mode, cfg, plan, rows>>
    BY <1>5 DEF Refuse, BeginGroup, RefuseGroup, BeginPass, PassOver, BeginUpload, AskBody,
         CopyBody, TakeBody, EndUpload, Download, NotFound, EndPass, DivideByZero, EndRun,
         TransferFails, Signal, Rest, vars, process, loop
  <2> QED
    BY <1>1, <2>1
<1> QED
  BY <1>2, <1>3, <1>4, <1>5 DEF Next, Step

\* So the rows of an upload tell the parts in the bucket; and those that show a whole
\* pass, of which the next section speaks, are about objects that are there.
LEMMA PartsAreThoseCut ==
  ASSUME IInv, PartsInv, WholeIsStored
  PROVE  PartsTold
<1>0. ASSUME mode = "upload", NEW k \in DOMAIN rows, Countable(rows[k]), rows[k].perFileSize > 0,
             \E n \in DOMAIN rows[k].samples : Whole(rows[k], n)
      PROVE  Range(KeysFor(Spec(rows[k].group))) \subseteq DOMAIN s3
  BY <1>0 DEF WholeIsStored
<1>1. SUFFICES ASSUME NEW k \in DOMAIN rows,
                       mode = "upload", plan.upPart > 0,
                       Range(KeysFor(Spec(rows[k].group))) \subseteq DOMAIN s3,
                       Countable(rows[k]), rows[k].perFileSize > 0,
                       rows[k].perFileSize + plan.upPart <= MaxInt
                PROVE  rows[k].parts = Cardinality(PartsOf(Range(KeysFor(Spec(rows[k].group)))))
  BY <1>0 DEF PartsTold
<1> DEFINE spec == Spec(rows[k].group)
<1> DEFINE keys == Range(KeysFor(spec))
<1> DEFINE size == rows[k].perFileSize
<1> DEFINE part == plan.upPart
<1>2. /\ TypeOK /\ Configured /\ BucketTrue /\ RowsTrue /\ BucketCut /\ RowsCut
      /\ cfg.sizes = file.sizes
  BY Facts DEF IInv, PartsInv
<1>3. rows[k].group \in DOMAIN cfg.sizes /\ spec \in SizeGroups /\ spec = file.sizes[rows[k].group]
  BY <1>1, <1>2, Facts DEF RowsTrue, RowTrue, Spec
<1>4. /\ rows[k].files = Max({1, spec.count}) /\ size = ParseSize(spec.size)
      /\ rows[k].parts = NParts(size, part, rows[k].files)
  BY <1>1, <1>2 DEF RowsCut, Objects, PerFileSize
<1>5. rows[k].files \in Nat \ {0}
  BY <1>3, <1>4, KeysOfSpec
<1>6. IsFiniteSet(keys) /\ Cardinality(keys) = rows[k].files
  BY <1>3, <1>4, KeysDiffer
<1>7. size \in Int /\ size # Err /\ size * rows[k].files <= MaxInt
  <2>1. size # Err /\ size * rows[k].files <= MaxInt
    BY <1>1, <1>4 DEF Countable
  <2> QED
    BY <1>4, <2>1, SizeType
<1>8. PICK key \in keys : TRUE
  <2>1. Len(KeysFor(spec)) \in Nat \ {0} /\ DOMAIN KeysFor(spec) = 1..Len(KeysFor(spec))
    BY <1>3, KeysOfSpec
  <2>2. KeysFor(spec)[1] \in keys
    BY <2>1 DEF Range
  <2> QED
    BY <2>2
<1>9. plan # NoPlan /\ part \in Nat \ {0} /\ PartInUse = part
  <2>1. plan # NoPlan
    BY <1>1, <1>2, <1>8 DEF BucketCut
  <2>2. part \in Int
    BY <1>2, <2>1, Facts
  <2> QED
    BY <1>1, <2>1, <2>2 DEF PartInUse
<1>10. ASSUME NEW x \in keys
       PROVE  s3[x].parts \in Nat \ {0} /\ FillParts(size, part, s3[x].parts)
  <2>1. x \in DOMAIN s3
    BY <1>1, <1>10
  <2>2. s3[x].size = size
    BY <1>1, <1>2, <1>3, <1>4, <1>7, <1>10, <2>1 DEF BucketTrue
  <2>3. s3[x].parts \in Nat \ {0}
    BY <1>2, <2>1 DEF TypeOK
  <2>4. PartsFit(s3[x])
    BY <1>1, <1>2, <2>1 DEF BucketCut
  <2> QED
    BY <1>1, <1>9, <2>2, <2>3, <2>4 DEF PartsFit
<1>11. \A x \in keys : /\ s3[x].parts = (size + part - 1) \div part
                       /\ NParts(size, part, rows[k].files) = s3[x].parts * rows[k].files
  <2> TAKE x \in keys
  <2> HIDE DEF size, part, keys
  <2>1. size \in Nat \ {0} /\ size + part <= MaxInt
    BY <1>1, <1>7 DEF size, part
  <2>2. PICK p \in Nat \ {0} : p = s3[x].parts /\ FillParts(size, part, p)
    BY <1>10
  <2>3. PICK n \in Nat : n = rows[k].files /\ size * n <= MaxInt
    BY <1>5, <1>7
  <2>4. PICK s \in Nat \ {0}, q \in Nat \ {0} : s = size /\ q = part
    BY <1>9, <2>1
  <2>5. FillParts(s, q, p) /\ s + q <= MaxInt /\ s * n <= MaxInt
    BY <2>1, <2>2, <2>3, <2>4
  <2>6. p = (s + q - 1) \div q /\ NParts(s, q, n) = p * n
    BY <2>5, PartsCounted
  <2> QED
    BY <2>2, <2>3, <2>4, <2>6
<1>12. \A x \in keys : s3[x].parts = s3[key].parts
  BY <1>11
<1>13. Cardinality(PartsOf(keys)) = s3[key].parts * Cardinality(keys)
  BY <1>6, <1>10, <1>12, SameParts
<1> QED
  BY <1>4, <1>6, <1>8, <1>11, <1>13

LEMMA InitEstablishesPartsInv ==
  ASSUME Init
  PROVE  PartsInv
BY DEF Init, PartsInv, BodyCut, BucketCut, RowsCut

\* In every reachable state a body is cut as its parts say, and the bucket and the rows
\* of an upload follow from it.
THEOREM PartsInvariance == Behaviour => [](IInv /\ PartsInv)
<1>1. Init => IInv /\ PartsInv
  BY InitEstablishesIInv, InitEstablishesPartsInv
<1>2. IInv /\ PartsInv /\ [Next]_vars => (IInv /\ PartsInv)'
  BY StepKeepsIInv, BodyCutKept, BucketCutKept, RowsCutKept DEF IInv, PartsInv
<1> QED
  BY <1>1, <1>2, PTL DEF Behaviour

-----------------------------------------------------------------------------

\* After a signal nothing more is begun: a run that is idle stays so to its end.
LEMMA IdleStays ==
  ASSUME Idle, [Next]_vars, UNCHANGED mode
  PROVE  Idle'
<1>1. ~BeginUpload /\ ~Download /\ ~NotFound /\ ~Signal
  BY DEF Idle, BeginUpload, Download, NotFound, Call, Signal
<1>2. ~AskBody /\ ~CopyBody /\ ~TakeBody /\ ~EndUpload
  BY DEF Idle, AskBody, CopyBody, TakeBody, EndUpload
<1>3. ~DownloadNext
  BY DEF DownloadNext
<1>4. CASE BeginPass
  BY <1>4 DEF BeginPass, process, Idle
<1>5. CASE PassOver
  BY <1>5 DEF PassOver, process, Idle
<1>6. CASE Rest \/ UNCHANGED vars
  BY <1>6 DEF Rest, vars, process, loop, Idle
<1>7. CASE Load \/ Refuse \/ Resolve \/ BeginGroup \/ RefuseGroup \/ EndPass \/ EndGroup
           \/ DivideByZero \/ EndRun \/ TransferFails
  <2>1. main' \notin {"object", "body"} /\ UNCHANGED cancelled
    BY <1>7 DEF Load, Refuse, Resolve, BeginGroup, RefuseGroup, EndPass, EndGroup,
         DivideByZero, EndRun, TransferFails, process
  <2> QED
    BY <2>1 DEF Idle
<1> QED
  BY <1>1, <1>2, <1>3, <1>4, <1>5, <1>6, <1>7 DEF Next, Step

\* What was said of the passes so far holds on while there is none more.
LEMMA ShortLastKept ==
  ASSUME ShortLastSoFar, UNCHANGED <<mode, cfg, g, samples, rows>>, Idle => Idle',
         main' \in InGroup => main \in InGroup
  PROVE  ShortLastSoFar'
<1>1. /\ PerFileSize(g)' = PerFileSize(g) /\ Objects(g)' = Objects(g) /\ (Counts(g)' <=> Counts(g))
      /\ \A k \in DOMAIN rows : Countable(rows[k])' <=> Countable(rows[k])
  BY DEF PerFileSize, Objects, Counts, Countable, Spec
<1>2. ASSUME main' \in InGroup, Counts(g)
      PROVE  ShortLast(samples, PerFileSize(g) * Objects(g))'
  <2> DEFINE whole == PerFileSize(g) * Objects(g)
  <2>1. ShortLast(samples, whole)
    BY <1>2 DEF ShortLastSoFar
  <2>2. whole' = whole
    BY <1>1
  <2> HIDE DEF whole
  <2>3. ShortLast(samples, whole)'
    BY <2>1, <2>2 DEF ShortLast
  <2> QED
    BY <2>3 DEF whole
<1>3. ASSUME NEW k \in DOMAIN rows, Countable(rows[k])
      PROVE  /\ ShortLast(rows[k].samples, rows[k].size)'
             /\ (\E n \in DOMAIN rows[k].samples : ~Whole(rows[k], n)) =>
                  /\ \A l \in DOMAIN rows : l > k => MovedNothing(rows[l].samples)
                  /\ main' \in InGroup => MovedNothing(samples)
  BY <1>3 DEF ShortLastSoFar, ShortLast
<1> QED
  BY <1>1, <1>2, <1>3 DEF ShortLastSoFar, Whole, MovedNothing

\* The row of a group that int64 can count shows its size as it is.
LEMMA WholeRow ==
  ASSUME TypeOK, Configured, InLoops, main \in InGroup,
         NEW r, r.group = g, r.files = Objects(g), r.size = Wrap(PerFileSize(g) * Objects(g)),
         Countable(r)
  PROVE  /\ Counts(g) /\ PerFileSize(g) \in Nat /\ PerFileSize(g) * Objects(g) <= MaxInt
         /\ r.size = PerFileSize(g) * Objects(g)
<1>1. /\ g \in DOMAIN cfg.sizes /\ Objects(g) \in Nat \ {0}
      /\ ParseSize(Spec(g).size) # Err => ParseSize(Spec(g).size) \in Int
  BY Facts DEF InLoops, Spec
<1>2. /\ Counts(g) /\ PerFileSize(g) = ParseSize(Spec(g).size) /\ ParseSize(Spec(g).size) # Err
      /\ PerFileSize(g) >= 0 /\ PerFileSize(g) * Objects(g) <= MaxInt
  BY DEF Countable, Counts, PerFileSize
<1>3. PerFileSize(g) \in Nat /\ PerFileSize(g) * Objects(g) \in Nat
  BY <1>1, <1>2
<1>4. PerFileSize(g) * Objects(g) \in MinInt..MaxInt
  BY <1>2, <1>3, SettingsAssumption DEF MinInt
<1> QED
  BY <1>2, <1>3, <1>4, Wrapped

\* After a pass that was not whole none moves anything.
LEMMA ShortLastStep ==
  ASSUME IInv, ShortLastSoFar, [Next]_vars
  PROVE  ShortLastSoFar'
<1>1. /\ TypeOK /\ Configured /\ InLoops /\ GroupSoFar
      /\ samples \in Seq(Samples) /\ rows \in Seq(Rows) /\ mode \in {"upload", "download"}
      /\ bytes \in Int
  BY DEF IInv, TypeOK
<1>2. UNCHANGED mode => (Idle => Idle')
  BY IdleStays
<1>3. CASE Load \/ DownloadNext
  <2>1. rows' = <<>> /\ main' \notin InGroup
    BY <1>1, <1>3 DEF Load, DownloadNext, loop, Configured, InGroup
  <2>2. DOMAIN rows' = {}
    BY <2>1
  <2> QED
    BY <2>1, <2>2 DEF ShortLastSoFar
<1>4. CASE Refuse \/ Resolve \/ RefuseGroup \/ BeginPass \/ PassOver \/ BeginUpload \/ AskBody
           \/ CopyBody \/ TakeBody \/ EndUpload \/ Download \/ NotFound \/ DivideByZero
           \/ EndRun \/ TransferFails \/ Signal \/ Rest \/ UNCHANGED vars
  <2>1. UNCHANGED <<mode, cfg, g, samples, rows>>
    BY <1>4 DEF Refuse, Resolve, RefuseGroup, BeginPass, PassOver, BeginUpload, AskBody, CopyBody,
         TakeBody, EndUpload, Download, NotFound, DivideByZero, EndRun, TransferFails, Signal,
         Rest, vars, process, loop
  <2>2. main' \in InGroup => main \in InGroup
    BY <1>4 DEF Refuse, Resolve, RefuseGroup, BeginPass, PassOver, BeginUpload, AskBody, CopyBody,
         TakeBody, EndUpload, Download, Call, NotFound, DivideByZero, PassesOver, EndRun,
         TransferFails, Signal, Rest, vars, InGroup
  <2> QED
    BY <1>2, <2>1, <2>2, ShortLastKept
<1>5. CASE BeginGroup
  <2>1. UNCHANGED <<mode, cfg, rows>> /\ samples' = <<>> /\ (Idle => Idle')
    BY <1>2, <1>5 DEF BeginGroup, process
  <2>2. DOMAIN samples' = {}
    BY <2>1
  <2>3. \A k \in DOMAIN rows : Countable(rows[k])' <=> Countable(rows[k])
    BY <2>1 DEF Countable, Spec
  <2>4. ASSUME NEW k \in DOMAIN rows, Countable(rows[k])
        PROVE  /\ ShortLast(rows[k].samples, rows[k].size)'
               /\ (\E n \in DOMAIN rows[k].samples : ~Whole(rows[k], n)) =>
                    \A l \in DOMAIN rows : l > k => MovedNothing(rows[l].samples)
    BY <2>1, <2>4 DEF ShortLastSoFar, ShortLast
  <2> QED
    BY <2>1, <2>2, <2>3, <2>4 DEF ShortLastSoFar, ShortLast, Whole, MovedNothing
<1>6. CASE EndPass
  <2>1. /\ main = "object" /\ main' = "pass" /\ UNCHANGED <<mode, cfg, g, rows, cancelled>>
        /\ (Idle => Idle' /\ bytes = 0)
    BY <1>2, <1>6 DEF EndPass, process, Idle
  <2>2. /\ Len(samples) \in Nat /\ DOMAIN samples = 1..Len(samples)
        /\ \/ samples' = samples
           \/ /\ DOMAIN samples' = 1..(Len(samples) + 1)
              /\ \A n \in 1..Len(samples) : samples'[n] = samples[n]
              /\ samples'[Len(samples) + 1].bytes = bytes
    <3>1. PICK secs \in 0..MaxSecs :
            samples' = IF it >= Section.warmup
                       THEN Append(samples, [bytes |-> bytes, secs |-> secs]) ELSE samples
      BY <1>6 DEF EndPass
    <3>2. [bytes |-> bytes, secs |-> secs] \in Samples
      BY <1>1 DEF Samples
    <3> QED
      BY <1>1, <3>1, <3>2, AppendProperties, LenProperties
  <2>3. /\ PerFileSize(g)' = PerFileSize(g) /\ Objects(g)' = Objects(g)
        /\ (Counts(g)' <=> Counts(g))
        /\ \A k \in DOMAIN rows : Countable(rows[k])' <=> Countable(rows[k])
    BY <2>1 DEF PerFileSize, Objects, Counts, Countable, Spec
  <2>4. ASSUME Counts(g) PROVE ShortLast(samples, PerFileSize(g) * Objects(g))'
    <3> DEFINE whole == PerFileSize(g) * Objects(g)
    <3>1. bytes = whole \/ cancelled
      <4>1. g \in DOMAIN cfg.sizes /\ i = Objects(g) + 1
        BY <1>1, <1>6, Facts DEF EndPass, InLoops, InGroup, TypeOK
      <4>2. MovedBy(bytes, PerFileSize(g) * (i - 1)) /\ i - 1 = Objects(g)
        BY <1>1, <2>1, <2>4, <4>1, Facts DEF GroupSoFar, InGroup
      <4> QED
        BY <4>2 DEF MovedBy
    <3>2. ShortLast(samples, whole) /\ whole' = whole
      BY <2>1, <2>3, <2>4 DEF ShortLastSoFar, InGroup
    <3> HIDE DEF whole
    <3>3. bytes # whole => Idle'
      BY <2>1, <3>1 DEF Idle
    <3>4. ASSUME NEW n \in DOMAIN samples', samples'[n].bytes # whole
          PROVE  Idle' /\ \A m \in DOMAIN samples' : m > n => samples'[m].bytes = 0
      <4>1. CASE n \in DOMAIN samples /\ samples'[n] = samples[n]
        BY <2>1, <2>2, <3>2, <3>4, <4>1 DEF ShortLast
      <4>2. CASE ~(n \in DOMAIN samples /\ samples'[n] = samples[n])
        BY <2>2, <3>3, <3>4, <4>2
      <4> QED
        BY <4>1, <4>2
    <3>5. ShortLast(samples, whole)'
      BY <3>2, <3>4 DEF ShortLast
    <3> QED
      BY <3>5 DEF whole
  <2>5. ASSUME NEW k \in DOMAIN rows, Countable(rows[k])
        PROVE  /\ ShortLast(rows[k].samples, rows[k].size)'
               /\ (\E n \in DOMAIN rows[k].samples : ~Whole(rows[k], n)) =>
                    /\ \A l \in DOMAIN rows : l > k => MovedNothing(rows[l].samples)
                    /\ MovedNothing(samples)'
    <3>1. ShortLast(rows[k].samples, rows[k].size)
      BY <2>5 DEF ShortLastSoFar
    <3>2. ShortLast(rows[k].samples, rows[k].size)'
      BY <2>1, <3>1 DEF ShortLast
    <3>3. ASSUME \E n \in DOMAIN rows[k].samples : ~Whole(rows[k], n)
          PROVE  /\ \A l \in DOMAIN rows : l > k => MovedNothing(rows[l].samples)
                 /\ MovedNothing(samples)'
      <4>1. Idle
        BY <3>1, <3>3 DEF ShortLast, Whole
      <4>2. MovedNothing(samples) /\ \A l \in DOMAIN rows : l > k => MovedNothing(rows[l].samples)
        BY <2>1, <2>5, <3>3 DEF ShortLastSoFar, InGroup
      <4>3. \A n \in DOMAIN samples' : samples'[n].bytes = 0
        BY <2>1, <2>2, <4>1, <4>2 DEF MovedNothing
      <4> QED
        BY <4>2, <4>3 DEF MovedNothing
    <3> QED
      BY <3>2, <3>3
  <2> QED
    BY <2>1, <2>3, <2>4, <2>5 DEF ShortLastSoFar, Whole, MovedNothing
<1>7. CASE EndGroup
  <2>1. /\ main = "pass" /\ main' = "group" /\ UNCHANGED <<mode, cfg, samples>> /\ (Idle => Idle')
    BY <1>2, <1>7 DEF EndGroup, PassesOver, process
  <2>2. PICK r : /\ rows' = Append(rows, r) /\ r.samples = samples /\ r.group = g
                 /\ r.files = Objects(g) /\ r.size = Wrap(PerFileSize(g) * Objects(g))
    <3>1. PICK median \in MedianSamples(samples) : rows' = Append(rows, Row(median))
      BY <1>7 DEF EndGroup
    <3> QED
      BY <3>1 DEF Row
  <2>3. /\ Len(rows) \in Nat /\ DOMAIN rows = 1..Len(rows) /\ DOMAIN rows' = 1..(Len(rows) + 1)
        /\ \A k \in 1..Len(rows) : rows'[k] = rows[k]
        /\ rows'[Len(rows) + 1] = r
    BY <1>1, <2>2, LenProperties, AppendProperties
  <2>4. ASSUME NEW row PROVE Countable(row)' <=> Countable(row)
    BY <2>1 DEF Countable, Spec
  <2> DEFINE LastThen(passes, whole) ==
        \A n \in DOMAIN passes : passes[n].bytes # whole =>
          Idle' /\ \A m \in DOMAIN passes : m > n => passes[m].bytes = 0
  <2>5. ASSUME Countable(r) PROVE LastThen(r.samples, r.size)
    <3>1. Counts(g) /\ r.size = PerFileSize(g) * Objects(g)
      BY <1>1, <2>1, <2>2, <2>5, WholeRow DEF InGroup
    <3>2. ShortLast(samples, r.size)
      BY <2>1, <3>1 DEF ShortLastSoFar, InGroup
    <3> QED
      BY <2>1, <2>2, <3>2 DEF ShortLast
  <2>6. ASSUME NEW k \in 1..Len(rows), Countable(rows[k])
        PROVE  /\ LastThen(rows[k].samples, rows[k].size)
               /\ (\E n \in DOMAIN rows[k].samples : ~Whole(rows[k], n)) =>
                    /\ \A l \in DOMAIN rows : l > k => MovedNothing(rows[l].samples)
                    /\ MovedNothing(r.samples)
    <3>1. /\ ShortLast(rows[k].samples, rows[k].size)
          /\ (\E n \in DOMAIN rows[k].samples : ~Whole(rows[k], n)) =>
               /\ \A l \in DOMAIN rows : l > k => MovedNothing(rows[l].samples)
               /\ MovedNothing(samples)
      BY <2>1, <2>3, <2>6 DEF ShortLastSoFar, InGroup
    <3> QED
      BY <2>1, <2>2, <3>1 DEF ShortLast
  <2>7. ASSUME NEW k \in DOMAIN rows', Countable(rows'[k])
        PROVE  /\ LastThen(rows'[k].samples, rows'[k].size)
               /\ (\E n \in DOMAIN rows'[k].samples : ~Whole(rows'[k], n)) =>
                    \A l \in DOMAIN rows' : l > k => MovedNothing(rows'[l].samples)
    <3>1. CASE k = Len(rows) + 1
      <4>1. \A l \in DOMAIN rows' : ~(l > k)
        BY <2>3, <3>1
      <4>2. LastThen(r.samples, r.size)
        BY <2>3, <2>5, <2>7, <3>1
      <4> HIDE DEF LastThen
      <4> QED
        BY <2>3, <3>1, <4>1, <4>2
    <3>2. CASE k \in 1..Len(rows)
      <4>1. \A l \in DOMAIN rows' :
              (l \in DOMAIN rows /\ rows'[l] = rows[l]) \/ rows'[l] = r
        BY <2>3
      <4>2. rows'[k] = rows[k]
        BY <2>3, <3>2
      <4> HIDE DEF LastThen
      <4> QED
        BY <2>6, <2>7, <3>2, <4>1, <4>2 DEF Whole
    <3> QED
      BY <2>3, <3>1, <3>2
  <2> QED
    <3>1. main' \notin InGroup
      BY <2>1 DEF InGroup
    <3> QED
      BY <2>4, <2>7, <3>1 DEF ShortLastSoFar, ShortLast, Whole, MovedNothing
<1> QED
  BY <1>3, <1>4, <1>5, <1>6, <1>7 DEF Next, Step

\* What was said of the bucket holds on while the rows and the passes of the group stay,
\* if it does of the pass in progress.
LEMMA WholeKept ==
  ASSUME WholeIsStored, UNCHANGED <<mode, cfg, g, samples, rows>>, DOMAIN s3 \subseteq DOMAIN s3',
         main' \in InGroup => main \in InGroup,
         /\ mode = "upload" /\ main' \in {"object", "body"} /\ Counts(g) /\ PerFileSize(g) > 0
         /\ bytes' = PerFileSize(g) * (i' - 1)
         => \A j \in 1..(i' - 1) : KeysFor(Spec(g))[j] \in DOMAIN s3'
  PROVE  WholeIsStored'
<1>1. /\ PerFileSize(g)' = PerFileSize(g) /\ Objects(g)' = Objects(g) /\ (Counts(g)' <=> Counts(g))
      /\ Spec(g)' = Spec(g)
      /\ \A k \in DOMAIN rows : /\ Countable(rows[k])' <=> Countable(rows[k])
                               /\ Spec(rows[k].group)' = Spec(rows[k].group)
  BY DEF PerFileSize, Objects, Counts, Countable, Spec
<1> DEFINE whole == PerFileSize(g) * Objects(g)
<1>2. whole' = whole
  BY <1>1
<1>3. ASSUME mode = "upload"
      PROVE  /\ /\ main \in InGroup /\ Counts(g) /\ PerFileSize(g) > 0
                /\ \E n \in DOMAIN samples : samples[n].bytes = whole
                => Range(KeysFor(Spec(g))) \subseteq DOMAIN s3'
             /\ \A k \in DOMAIN rows :
                  /\ Countable(rows[k]) /\ rows[k].perFileSize > 0
                  /\ \E n \in DOMAIN rows[k].samples : Whole(rows[k], n)
                  => Range(KeysFor(Spec(rows[k].group))) \subseteq DOMAIN s3'
  BY <1>3 DEF WholeIsStored
<1>4. (bytes = PerFileSize(g) * (i - 1))' <=> bytes' = PerFileSize(g) * (i' - 1)
  BY <1>1
<1> HIDE DEF whole
<1>5. (\E n \in DOMAIN samples : samples[n].bytes = whole)' <=>
        \E n \in DOMAIN samples : samples[n].bytes = whole
  BY <1>2
<1> USE DEF whole
<1> QED
  BY <1>1, <1>3, <1>4, <1>5 DEF WholeIsStored, Whole, InGroup

\* A pass that is whole has uploaded each of its objects: one passed over leaves it short,
\* and no later one makes up for it.
LEMMA WholeStep ==
  ASSUME IInv, WholeIsStored, [Next]_vars
  PROVE  WholeIsStored'
<1>1. /\ TypeOK /\ Configured /\ InLoops /\ GroupSoFar
      /\ samples \in Seq(Samples) /\ rows \in Seq(Rows) /\ mode \in {"upload", "download"}
      /\ bytes \in Int /\ i \in Nat
  BY DEF IInv, TypeOK
<1>2. ASSUME main \in {"object", "body"}
      PROVE  /\ g \in DOMAIN cfg.sizes /\ i \in 1..(Objects(g) + 1) /\ Objects(g) \in Nat \ {0}
             /\ DOMAIN KeysFor(Spec(g)) = 1..Objects(g)
             /\ mode = "upload" => PerFileSize(g) = ParseSize(Spec(g).size)
             /\ PerFileSize(g) \in Int /\ PerFileSize(g) # Err
  BY <1>1, <1>2, Facts DEF InLoops, InGroup, Spec, PerFileSize
<1>3. CASE Load \/ DownloadNext \/ Download
  <2>1. CASE Load
    <3>1. rows' = <<>> /\ main' \notin InGroup
      BY <1>1, <2>1 DEF Load, loop, Configured, InGroup
    <3>2. DOMAIN rows' = {}
      BY <3>1
    <3> QED
      BY <3>1, <3>2 DEF WholeIsStored, InGroup
  <2>2. CASE DownloadNext \/ Download
    <3>1. mode' = "download"
      BY <2>2 DEF DownloadNext, Download, Call, process
    <3> QED
      BY <3>1 DEF WholeIsStored
  <2> QED
    BY <1>3, <2>1, <2>2
<1>4. CASE Refuse \/ Resolve \/ RefuseGroup \/ BeginUpload \/ AskBody \/ CopyBody \/ TakeBody
           \/ NotFound \/ DivideByZero \/ EndRun \/ TransferFails \/ Signal \/ Rest
           \/ UNCHANGED vars
  <2>1. UNCHANGED <<mode, cfg, g, i, bytes, samples, rows, s3>>
    BY <1>4 DEF Refuse, Resolve, RefuseGroup, BeginUpload, AskBody, CopyBody, TakeBody, NotFound,
         DivideByZero, EndRun, TransferFails, Signal, Rest, vars, process, loop
  <2>2. /\ main' \in InGroup => main \in InGroup
        /\ main' \in {"object", "body"} => main \in {"object", "body"}
    BY <1>4 DEF Refuse, Resolve, RefuseGroup, BeginUpload, Call, AskBody, CopyBody, TakeBody,
         NotFound, DivideByZero, EndRun, TransferFails, Signal, Rest, vars, InGroup
  <2>3. /\ mode = "upload" /\ main' \in {"object", "body"} /\ Counts(g) /\ PerFileSize(g) > 0
        /\ bytes' = PerFileSize(g) * (i' - 1)
        => \A j \in 1..(i' - 1) : KeysFor(Spec(g))[j] \in DOMAIN s3'
    BY <2>1, <2>2 DEF WholeIsStored, InGroup
  <2> QED
    BY <2>1, <2>2, <2>3, WholeKept
<1>5. CASE BeginPass
  <2>1. /\ UNCHANGED <<mode, cfg, g, samples, rows, s3>> /\ i' = 1 /\ main = "pass"
    BY <1>5 DEF BeginPass, process
  <2>2. \A j \in 1..(i' - 1) : KeysFor(Spec(g))[j] \in DOMAIN s3'
    BY <2>1
  <2> QED
    BY <2>1, <2>2, WholeKept DEF InGroup
<1>6. CASE PassOver
  <2>1. /\ UNCHANGED <<mode, cfg, g, samples, rows, s3, bytes, main>> /\ i' = i + 1
        /\ main = "object" /\ i <= Objects(g)
    BY <1>6 DEF PassOver, process
  <2>2. ~(mode = "upload" /\ Counts(g) /\ PerFileSize(g) > 0 /\ bytes' = PerFileSize(g) * (i' - 1))
    <3>1. SUFFICES ASSUME mode = "upload", Counts(g), PerFileSize(g) > 0
                   PROVE  bytes # PerFileSize(g) * i
      BY <1>1, <2>1
    <3>2. i \in 1..Objects(g) /\ Objects(g) \in Nat
      BY <1>2, <2>1
    <3>3. PerFileSize(g) \in Nat /\ PerFileSize(g) * Objects(g) <= MaxInt
      BY <1>2, <2>1, <3>1 DEF Counts
    <3>4. bytes \in 0..(PerFileSize(g) * (i - 1))
      BY <1>1, <2>1, <3>1, <3>2, <3>3, Upto DEF GroupSoFar, MovedBy, InGroup
    <3> QED
      BY <3>1, <3>2, <3>3, <3>4, Adding
  <2> QED
    BY <2>1, <2>2, WholeKept
<1>7. CASE EndUpload
  <2>1. /\ UNCHANGED <<mode, cfg, g, samples, rows>> /\ i' = i + 1 /\ main = "body"
        /\ mode = "upload" /\ i \in 1..Objects(g)
        /\ DOMAIN s3' = DOMAIN s3 \cup {KeysFor(Spec(g))[i]}
        /\ bytes' = Wrap(bytes + PerFileSize(g))
    BY <1>1, <1>2, <1>7 DEF EndUpload, process, InLoops
  <2>2. ASSUME Counts(g), PerFileSize(g) > 0, bytes' = PerFileSize(g) * (i' - 1)
        PROVE  \A j \in 1..(i' - 1) : KeysFor(Spec(g))[j] \in DOMAIN s3'
    <3>1. i \in 1..Objects(g) /\ Objects(g) \in Nat /\ i' - 1 = i
      BY <1>2, <2>1
    <3>2. PerFileSize(g) \in Nat /\ PerFileSize(g) * Objects(g) <= MaxInt
      BY <1>2, <2>1, <2>2 DEF Counts
    <3>3. bytes \in 0..(PerFileSize(g) * (i - 1))
      BY <1>1, <2>1, <2>2, <3>1, <3>2, Upto DEF GroupSoFar, MovedBy, InGroup
    <3>4. bytes' = PerFileSize(g) * i <=> bytes = PerFileSize(g) * (i - 1)
      BY <2>1, <3>1, <3>2, <3>3, Adding
    <3>5. \A j \in 1..(i - 1) : KeysFor(Spec(g))[j] \in DOMAIN s3
      BY <2>1, <2>2, <3>1, <3>4 DEF WholeIsStored, InGroup
    <3>6. \A j \in 1..i : j = i \/ j \in 1..(i - 1)
      BY <3>1
    <3> QED
      BY <2>1, <3>1, <3>5, <3>6
  <2> QED
    BY <2>1, <2>2, WholeKept DEF InGroup
<1>8. CASE BeginGroup
  <2>1. UNCHANGED <<mode, cfg, rows, s3>> /\ samples' = <<>> /\ main' = "pass"
    BY <1>8 DEF BeginGroup, process
  <2>2. DOMAIN samples' = {}
    BY <2>1
  <2>3. \A k \in DOMAIN rows : /\ Countable(rows[k])' <=> Countable(rows[k])
                              /\ Spec(rows[k].group)' = Spec(rows[k].group)
    BY <2>1 DEF Countable, Spec
  <2> QED
    BY <2>1, <2>2, <2>3 DEF WholeIsStored, Whole
<1>9. CASE EndPass
  <2>1. /\ main = "object" /\ main' = "pass" /\ UNCHANGED <<mode, cfg, g, rows, s3>>
        /\ i = Objects(g) + 1 /\ i - 1 = Objects(g)
    BY <1>2, <1>9 DEF EndPass, process
  <2>2. \A n \in DOMAIN samples' :
          samples'[n].bytes = bytes \/ (n \in DOMAIN samples /\ samples'[n] = samples[n])
    <3>1. PICK secs \in 0..MaxSecs :
            samples' = IF it >= Section.warmup
                       THEN Append(samples, [bytes |-> bytes, secs |-> secs]) ELSE samples
      BY <1>9 DEF EndPass
    <3>2. [bytes |-> bytes, secs |-> secs] \in Samples
      BY <1>1 DEF Samples
    <3> QED
      BY <1>1, <3>1, <3>2, AppendProperties, LenProperties
  <2>3. /\ PerFileSize(g)' = PerFileSize(g) /\ Objects(g)' = Objects(g)
        /\ (Counts(g)' <=> Counts(g)) /\ Spec(g)' = Spec(g)
        /\ \A k \in DOMAIN rows : /\ Countable(rows[k])' <=> Countable(rows[k])
                                 /\ Spec(rows[k].group)' = Spec(rows[k].group)
    BY <2>1 DEF PerFileSize, Objects, Counts, Countable, Spec
  <2>4. ASSUME mode = "upload", Counts(g), PerFileSize(g) > 0,
               NEW n \in DOMAIN samples', samples'[n].bytes = PerFileSize(g) * Objects(g)
        PROVE  Range(KeysFor(Spec(g))) \subseteq DOMAIN s3
    <3>1. CASE bytes = PerFileSize(g) * Objects(g)
      <4>1. \A j \in 1..Objects(g) : KeysFor(Spec(g))[j] \in DOMAIN s3
        BY <2>1, <2>4, <3>1 DEF WholeIsStored, InGroup
      <4> QED
        BY <1>2, <2>1, <4>1 DEF Range
    <3>2. CASE n \in DOMAIN samples /\ samples'[n] = samples[n]
      BY <2>1, <2>4, <3>2 DEF WholeIsStored, InGroup
    <3> QED
      BY <2>2, <2>4, <3>1, <3>2
  <2>5. (PerFileSize(g) * Objects(g))' = PerFileSize(g) * Objects(g)
    BY <2>3
  <2>6. mode = "upload" =>
          \A k \in DOMAIN rows :
            /\ Countable(rows[k]) /\ rows[k].perFileSize > 0
            /\ \E n \in DOMAIN rows[k].samples : Whole(rows[k], n)
            => Range(KeysFor(Spec(rows[k].group))) \subseteq DOMAIN s3
    BY DEF WholeIsStored
  <2> QED
    BY <2>1, <2>3, <2>4, <2>5, <2>6 DEF WholeIsStored, Whole
<1>10. CASE EndGroup
  <2>1. /\ main = "pass" /\ main' = "group" /\ UNCHANGED <<mode, cfg, s3>>
    BY <1>10 DEF EndGroup, PassesOver, process
  <2>2. PICK r : /\ rows' = Append(rows, r) /\ r.samples = samples /\ r.group = g
                 /\ r.files = Objects(g) /\ r.size = Wrap(PerFileSize(g) * Objects(g))
                 /\ r.perFileSize = PerFileSize(g)
    <3>1. PICK median \in MedianSamples(samples) : rows' = Append(rows, Row(median))
      BY <1>10 DEF EndGroup
    <3> QED
      BY <3>1 DEF Row
  <2>3. /\ DOMAIN rows = 1..Len(rows)
        /\ \A k \in DOMAIN rows' : (k \in DOMAIN rows /\ rows'[k] = rows[k]) \/ rows'[k] = r
    BY <1>1, <2>2, LenProperties, AppendProperties
  <2>4. ASSUME NEW row PROVE /\ Countable(row)' <=> Countable(row)
                             /\ Spec(row.group)' = Spec(row.group)
    BY <2>1 DEF Countable, Spec
  <2>5. ASSUME mode = "upload", Countable(r), r.perFileSize > 0,
               \E n \in DOMAIN r.samples : r.samples[n].bytes = r.size
        PROVE  Range(KeysFor(Spec(r.group))) \subseteq DOMAIN s3
    <3>1. Counts(g) /\ r.size = PerFileSize(g) * Objects(g)
      BY <1>1, <2>1, <2>2, <2>5, WholeRow DEF InGroup
    <3> QED
      BY <2>1, <2>2, <2>5, <3>1 DEF WholeIsStored, InGroup
  <2>6. mode = "upload" =>
          \A k \in DOMAIN rows :
            /\ Countable(rows[k]) /\ rows[k].perFileSize > 0
            /\ \E n \in DOMAIN rows[k].samples : rows[k].samples[n].bytes = rows[k].size
            => Range(KeysFor(Spec(rows[k].group))) \subseteq DOMAIN s3
    BY DEF WholeIsStored, Whole
  <2>7. ASSUME mode = "upload", NEW k \in DOMAIN rows', Countable(rows'[k]),
               rows'[k].perFileSize > 0,
               \E n \in DOMAIN rows'[k].samples : rows'[k].samples[n].bytes = rows'[k].size
        PROVE  Range(KeysFor(Spec(rows'[k].group))) \subseteq DOMAIN s3
    BY <2>3, <2>5, <2>6, <2>7
  <2> QED
    BY <2>1, <2>4, <2>7 DEF WholeIsStored, Whole, InGroup
<1> QED
  BY <1>3, <1>4, <1>5, <1>6, <1>7, <1>8, <1>9, <1>10 DEF Next, Step

LEMMA InitEstablishesSignalInv ==
  ASSUME Init
  PROVE  SignalInv
<1>1. main = "load" /\ DOMAIN rows = {}
  BY DEF Init
<1> QED
  BY <1>1 DEF SignalInv, ShortLastSoFar, WholeIsStored, InGroup

\* In every reachable state a pass that is not whole is the last that moved anything, and
\* an upload's pass that is whole has left each of its objects in the bucket.
THEOREM SignalInvariance == Behaviour => [](IInv /\ PartsInv /\ SignalInv)
<1>1. Init => SignalInv
  BY InitEstablishesSignalInv
<1>2. IInv /\ SignalInv /\ [Next]_vars => SignalInv'
  BY ShortLastStep, WholeStep DEF SignalInv
<1> QED
  BY <1>1, <1>2, PartsInvariance, PTL DEF Behaviour

\* A row tells the bytes its passes moved and the parts that the transfer manager cut,
\* whatever signal came: a pass that is short is the last to show any bytes at all.
THEOREM RowsAreTold == Behaviour => []RowsTell
<1>1. ASSUME IInv, SignalInv PROVE BytesTold
  <2>1. ShortLastSoFar /\ RowsTrue
    BY <1>1 DEF IInv, SignalInv
  <2>2. ASSUME NEW k \in DOMAIN rows, Countable(rows[k]) PROVE ShortIsLast(k)
    BY <2>1, <2>2 DEF ShortLastSoFar, ShortLast, MovedNothing, ShortIsLast, Whole
  <2> QED
    BY <2>1, <2>2 DEF RowsTrue, RowTrue, BytesTold
<1>2. IInv /\ PartsInv /\ SignalInv => PartsTold
  BY PartsAreThoseCut DEF SignalInv
<1> QED
  BY <1>1, <1>2, SignalInvariance, PTL DEF RowsTell
=============================================================================
