------------------------------ MODULE Settings ------------------------------
(***************************************************************************)
(* What the program makes of bench.config.json: the defaults, the key      *)
(* names and the size labels of internal/config, and the checks and the    *)
(* resolution of run in cmd/tmbench/main.go.                               *)
(*                                                                         *)
(* A size label is what its text says: a number num / den and the letters  *)
(* after it, or Empty.  Numbers are int64: MaxInt is its largest value and *)
(* what leaves the range wraps around.                                     *)
(***************************************************************************)
EXTENDS Integers, Sequences, FiniteSetsExt

CONSTANTS Kibi, Kilo,      \* 1024 and 1000
          MaxInt,          \* 2^63 - 1
          TooBig,          \* what a float beyond int64 is converted to: the
                           \* least integer on amd64, the largest on arm64
          DefaultConc,     \* defaultTMConcurrency, 5
          DefaultBuffer,   \* 50 MiB
          MinConns,        \* 64
          DownPart, UpPart, \* the labels "8MiB" and "128MiB"
          Empty,           \* the label ""
          Err              \* an error in place of a value

MinInt == -MaxInt - 1

\* "kB" stands for letters that are no unit but end in one, "kib" for letters that
\* end in none.
Units == {"GiB", "MiB", "KiB", "GB", "MB", "KB", "B", "", "kB", "kib"}
SizeLabels == [num : Int, den : Nat \ {0}, unit : Units]

ASSUME SettingsAssumption ==
  /\ {Kibi, Kilo, MaxInt, DefaultConc, DefaultBuffer, MinConns} \subseteq Nat \ {0}
  /\ TooBig \in {MinInt, MaxInt}
  /\ {DownPart, UpPart} \subseteq SizeLabels
  /\ Err \notin Int

Wrap(x) == ((x + MaxInt + 1) % (2 * MaxInt + 2)) - MaxInt - 1

\* Division of Go, which drops the fraction.
Quot(a, b) == LET q == Max({a, -a}) \div Max({b, -b})
              IN  IF (a < 0) = (b < 0) THEN q ELSE -q

-----------------------------------------------------------------------------
(* Size labels. *)

Mult == [GiB |-> Kibi * Kibi * Kibi, MiB |-> Kibi * Kibi, KiB |-> Kibi,
         GB  |-> Kilo * Kilo * Kilo, MB  |-> Kilo * Kilo, KB  |-> Kilo, B |-> 1]

\* The order in which ParseSize tries the suffixes.
Suffixes == <<"GiB", "MiB", "KiB", "GB", "MB", "KB", "B">>

\* The suffixes that the letters of a label end in.
EndingsOf(unit) ==
  {Suffixes[k] : k \in DOMAIN Suffixes} \cap
    (IF unit \in {"", "kib"} THEN {} ELSE {unit, "B"})

ToLower(unit) == CASE unit = "KiB" -> "kib"
                   [] unit = "KB"  -> "kb"
                   [] unit = "kB"  -> "kb"
                   [] unit = "B"   -> "b"
                   [] OTHER        -> unit

\* int64 of the float num * m / den.
ToInt64(num, m, den) == LET n == Quot(num * m, den)
                        IN  IF n \in MinInt..MaxInt THEN n ELSE TooBig

\* The first suffix the label ends in decides; a rest that is no number fails.
\* A label without one is an integer.
ParseSize(label) ==
  IF label = Empty THEN Err
  ELSE LET hits == {k \in DOMAIN Suffixes : Suffixes[k] \in EndingsOf(label.unit)}
           unit == Suffixes[Min(hits)]
       IN  CASE hits = {} /\ label.unit = "" /\ label.den = 1
                  /\ label.num \in MinInt..MaxInt -> label.num
             [] hits # {} /\ unit = label.unit ->
                  ToInt64(label.num, Mult[unit], label.den)
             [] OTHER -> Err

\* Labels that differ in case and spaces only have the same keys.
Key(label, i) == <<label.num, label.den, ToLower(label.unit), i>>
Sole == 0   \* in place of the index in a name without one

\* faulty: a count of nothing makes no key
KeysForFaulty(spec) ==
  IF spec.count = 1 THEN <<Key(spec.size, Sole)>>
  ELSE [i \in 1..spec.count |-> Key(spec.size, i)]

KeysFor(spec) ==
  IF spec.count <= 1 THEN <<Key(spec.size, Sole)>>
  ELSE [i \in 1..spec.count |-> Key(spec.size, i)]

-----------------------------------------------------------------------------
(* What a file may say.  A group of objects always has a label. *)

PartLabels == SizeLabels \cup {Empty}

\* "other" stands for any text the program does not know.
Words == {"", "get", "download-object", "download-file", "parts", "ranges",
          "discard", "file", "other"}

SizeGroups == [size : SizeLabels, count : Int]
DownSettings ==
  [api : Words, getObjectType : Words, sink : Words, partSize : PartLabels,
   objectConcurrency : Int, concurrency : Int, maxBufferedBytes : Int,
   iterations : Int, warmup : Int]
UpSettings ==
  [partSize : PartLabels, objectConcurrency : Int, concurrency : Int,
   iterations : Int, warmup : Int]
ConfigFiles ==
  [memoryLimit : PartLabels, sizes : Seq(SizeGroups),
   down : DownSettings, up : UpSettings]

(* Defaults. *)

Else(v, default) == IF v = "" THEN default ELSE v
ElseLabel(l, default) == IF l = Empty THEN default ELSE l
ElseOne(n) == IF n <= 0 THEN 1 ELSE n

\* Concurrencies stay as they are: 0 is "auto", resolved below.
WithDefaults(file) ==
  LET down == file.down
      up   == file.up
  IN  [file EXCEPT
         !.down = [down EXCEPT !.api = Else(down.api, "get"),
                               !.getObjectType = Else(down.getObjectType, "parts"),
                               !.sink = Else(down.sink, "discard"),
                               !.partSize = ElseLabel(down.partSize, DownPart),
                               !.iterations = ElseOne(down.iterations)],
         !.up = [up EXCEPT !.partSize = ElseLabel(up.partSize, UpPart),
                           !.iterations = ElseOne(up.iterations)]]

-----------------------------------------------------------------------------
(* The checks of run, in no order: each of them ends the program. *)

Refused(cfg) ==
  \/ cfg.memoryLimit # Empty /\ ParseSize(cfg.memoryLimit) = Err
  \/ cfg.down.api \notin {"get", "download-object", "download-file"}
  \/ cfg.down.sink \notin {"discard", "file"}
  \/ cfg.down.sink = "file" /\ cfg.down.api = "get"
  \/ cfg.down.getObjectType \notin {"parts", "ranges"}
  \/ ParseSize(cfg.down.partSize) = Err
  \/ ParseSize(cfg.up.partSize) = Err

-----------------------------------------------------------------------------
(* The resolution of the two dimensions of parallelism. *)

MaxObjectCount(cfg) == Max({1} \cup {cfg.sizes[k].count : k \in DOMAIN cfg.sizes})

ObjConc(set, objects) == Max({1, IF set <= 0 THEN objects ELSE set})

PerObjConc(set) == IF set <= 0 THEN DefaultConc ELSE set

\* faulty: the budget is divided by the parts of an object, not by the objects
GetBufferFaulty(budget, objConc, perObjConc, part) ==
  IF budget > 0 THEN Max({Quot(budget, perObjConc), part})
  ELSE Max({Wrap(perObjConc * part), DefaultBuffer})

\* The read-ahead of one object: its share of the budget, but a part at least;
\* without a budget enough for its parts.
GetBuffer(budget, objConc, perObjConc, part) ==
  IF budget > 0 THEN Max({Quot(budget, objConc), part})
  ELSE Max({Wrap(perObjConc * part), DefaultBuffer})

\* Connections kept alive: the parts in flight of the larger direction.
MaxConns(upInFlight, downInFlight) == Max({upInFlight, downInFlight, MinConns})

Plan(cfg) ==
  LET objects  == MaxObjectCount(cfg)
      upObj    == ObjConc(cfg.up.objectConcurrency, objects)
      upPer    == PerObjConc(cfg.up.concurrency)
      downObj  == ObjConc(cfg.down.objectConcurrency, objects)
      downPer  == PerObjConc(cfg.down.concurrency)
      downPart == ParseSize(cfg.down.partSize)
  IN  [upObj |-> upObj, upPer |-> upPer, downObj |-> downObj, downPer |-> downPer,
       upPart |-> ParseSize(cfg.up.partSize), downPart |-> downPart,
       buffer |-> GetBuffer(cfg.down.maxBufferedBytes, downObj, downPer, downPart),
       conns  |-> MaxConns(upObj * upPer, downObj * downPer)]
=============================================================================
