------------------------------ MODULE Seeding ------------------------------
(***************************************************************************)
(* The numbers of a run, from the configuration file to the rows of the    *)
(* report: an upload that seeds a bucket, then a download of the same      *)
(* configuration, each a process of its own.  Settings says what the file  *)
(* means, SizedReader makes the bodies, Figures sums up the passes.        *)
(*                                                                         *)
(* The objects of a pass are taken one after the other: how they overlap,  *)
(* and how a pass ends when one fails, is TransferRun's subject.  A signal *)
(* makes the pool pass over the objects not yet begun, in this pass and    *)
(* all after it, and return nil: the run goes on and may end well.  The    *)
(* transfer manager is external: it fills parts from the body with buffers *)
(* of any size, and any transfer may fail.                                 *)
(***************************************************************************)
EXTENDS Settings, SizedReader, Figures, Functions

CONSTANTS Files,        \* the configurations to consider
          DefaultPart,  \* the part size of the transfer manager, if none is set
          MaxSecs       \* bound on the length of a pass

ASSUME SeedingAssumption ==
  /\ Files \subseteq ConfigFiles
  /\ DefaultPart \in Nat \ {0} /\ MaxSecs \in Nat
  \* int64 counts the passes of a run and its parts in flight.
  /\ \A f \in Files :
       LET c == WithDefaults(f)
       IN  /\ c.up.warmup + c.up.iterations <= MaxInt
           /\ c.down.warmup + c.down.iterations <= MaxInt
           /\ Refused(c) \/ Plan(c).conns <= MaxInt

VARIABLES
  file,        \* bench.config.json as read
  mode,        \* "upload" or "download"
  main,        \* where the process is
  cfg,         \* the configuration after the defaults
  plan,        \* what run resolved
  cancelled,   \* ctx.Err() # nil
  s3,          \* the bucket: key -> size and number of parts
  seeding,     \* history: how the upload before this download ended, or
               \* "cancelled" if a signal came before it did
  g, it, i,    \* size group, pass and object
  bytes,       \* the pass's own total
  samples,     \* samples of the group
  rows,        \* result.Groups
  filled,      \* bytes in the part that the transfer manager is filling
  cut          \* full parts of the body so far

process == <<file, mode, cfg, plan, cancelled>>
loop == <<g, it, i, bytes, samples, rows>>
cutter == <<filled, cut>>
vars == <<process, main, s3, seeding, loop, cutter, readerVars>>

NoPlan == <<>>

Init ==
  /\ file \in Files
  /\ mode \in {"upload", "download"}
  /\ main = "load"
  /\ cfg = file /\ plan = NoPlan /\ cancelled = FALSE
  /\ s3 = <<>> /\ seeding = "none"
  /\ g = 1 /\ it = 0 /\ i = 0 /\ bytes = 0
  /\ samples = <<>> /\ rows = <<>>
  /\ filled = 0 /\ cut = 0
  /\ Made(0)

Load ==
  /\ main = "load"
  /\ cfg' = WithDefaults(file)
  /\ main' = "check"
  /\ UNCHANGED <<file, mode, plan, cancelled, s3, seeding, loop, cutter, readerVars>>

Refuse ==
  /\ main = "check" /\ Refused(cfg)
  /\ main' = "error"
  /\ UNCHANGED <<process, s3, seeding, loop, cutter, readerVars>>

Resolve ==
  /\ main = "check" /\ ~Refused(cfg)
  /\ plan' = Plan(cfg)
  /\ main' = "group"
  /\ UNCHANGED <<file, mode, cfg, cancelled, s3, seeding, loop, cutter, readerVars>>

-----------------------------------------------------------------------------

Section == IF mode = "upload" THEN cfg.up ELSE cfg.down
Spec(k) == cfg.sizes[k]

\* A download ignores a label that does not parse and takes 0.
PerFileSize(k) ==
  LET size == ParseSize(Spec(k).size)
  IN  IF mode = "download" /\ size = Err THEN 0 ELSE size

\* faulty: a count of nothing uploads nothing
ObjectsFaulty(k) == IF mode = "upload" THEN Max({0, Spec(k).count})
                    ELSE Len(KeysFor(Spec(k)))

\* The number of objects: an upload counts by itself, a download its keys.
Objects(k) == IF mode = "upload" THEN Max({1, Spec(k).count})
              ELSE Len(KeysFor(Spec(k)))

\* What a call of the transfer manager cuts the body into.
PartInUse == IF plan.upPart > 0 THEN plan.upPart ELSE DefaultPart

BeginGroup ==
  /\ main = "group" /\ g <= Len(cfg.sizes)
  /\ PerFileSize(g) # Err
  /\ main' = "pass"
  /\ it' = 0 /\ samples' = <<>>
  /\ UNCHANGED <<process, s3, seeding, g, i, bytes, rows, cutter, readerVars>>

\* An upload cannot do without a size.
RefuseGroup ==
  /\ main = "group" /\ g <= Len(cfg.sizes)
  /\ PerFileSize(g) = Err
  /\ main' = "error"
  /\ UNCHANGED <<process, s3, seeding, loop, cutter, readerVars>>

BeginPass ==
  /\ main = "pass" /\ it < Section.warmup + Section.iterations
  /\ main' = "object"
  /\ i' = 1 /\ bytes' = 0
  /\ UNCHANGED <<process, s3, seeding, g, it, samples, rows, cutter, readerVars>>

\* A worker of the pool does not call back once the context is cancelled.
Call == main = "object" /\ i <= Objects(g) /\ ~cancelled

PassOver ==
  /\ main = "object" /\ i <= Objects(g) /\ cancelled
  /\ i' = i + 1
  /\ UNCHANGED <<process, main, s3, seeding, g, it, bytes, samples, rows, cutter,
                 readerVars>>

\* keys[i] beyond the keys of the group ends the process.
BeginUpload ==
  /\ Call /\ mode = "upload"
  /\ Open(PerFileSize(g))
  /\ filled' = 0 /\ cut' = 0
  /\ main' = IF i \in DOMAIN KeysFor(Spec(g)) THEN "body" ELSE "panic"
  /\ UNCHANGED <<process, s3, seeding, loop>>

AskBody ==
  /\ main = "body"
  /\ \E len \in 1..(PartInUse - filled) : Read(len)
  /\ UNCHANGED <<process, main, s3, seeding, loop, cutter>>

CopyBody ==
  /\ main = "body"
  /\ Copy
  /\ UNCHANGED <<process, main, s3, seeding, loop, cutter>>

TakeBody ==
  /\ main = "body"
  /\ Return
  /\ LET full == filled + total = PartInUse
     IN  /\ filled' = IF full THEN 0 ELSE filled + total
         /\ cut' = IF full THEN cut + 1 ELSE cut
  /\ UNCHANGED <<process, main, s3, seeding, loop>>

\* The last part may be short, and an empty object is one.
EndUpload ==
  /\ main = "body" /\ AtEOF
  /\ LET key   == KeysFor(Spec(g))[i]
         parts == IF filled > 0 \/ cut = 0 THEN cut + 1 ELSE cut
         object == [size |-> Len(body), parts |-> parts]
     IN  s3' = [k \in DOMAIN s3 \cup {key} |-> IF k = key THEN object ELSE s3[k]]
  /\ bytes' = Wrap(bytes + PerFileSize(g))
  /\ Open(0)
  /\ filled' = 0 /\ cut' = 0
  /\ i' = i + 1
  /\ main' = "object"
  /\ UNCHANGED <<process, seeding, g, it, samples, rows>>

Download ==
  /\ Call /\ mode = "download"
  /\ LET key == KeysFor(Spec(g))[i]
     IN  /\ key \in DOMAIN s3
         /\ bytes' = Wrap(bytes + s3[key].size)
  /\ i' = i + 1
  /\ UNCHANGED <<process, main, s3, seeding, g, it, samples, rows, cutter, readerVars>>

\* The bucket has no such object.
NotFound ==
  /\ Call /\ mode = "download"
  /\ KeysFor(Spec(g))[i] \notin DOMAIN s3
  /\ main' = "missing"
  /\ UNCHANGED <<process, s3, seeding, loop, cutter, readerVars>>

\* Any other failure of a transfer, a signal being one reason for it.
TransferFails ==
  /\ main = "body" \/ (Call /\ mode = "download")
  /\ main' = "error"
  /\ UNCHANGED <<process, s3, seeding, loop, cutter, readerVars>>

EndPass ==
  /\ main = "object" /\ i > Objects(g)
  /\ \E secs \in 0..MaxSecs :
       samples' = IF it >= Section.warmup
                  THEN Append(samples, [bytes |-> bytes, secs |-> secs])
                  ELSE samples
  /\ it' = it + 1
  /\ main' = "pass"
  /\ UNCHANGED <<process, s3, seeding, g, i, bytes, rows, cutter, readerVars>>

-----------------------------------------------------------------------------

\* faulty: the last part is counted only if it is full
NPartsFaulty(size, part, count) == Wrap(Quot(size, part) * count)

NParts(size, part, count) ==
  Wrap(Quot(Wrap(Wrap(size + part) - 1), part) * count)

InFlight == IF mode = "upload" THEN plan.upObj * plan.upPer
            ELSE plan.downObj * plan.downPer

Row(median) ==
  [group |-> g, files |-> Objects(g), perFileSize |-> PerFileSize(g),
   size |-> Wrap(PerFileSize(g) * Objects(g)),
   parts |-> IF mode = "upload"
             THEN NParts(PerFileSize(g), plan.upPart, Objects(g)) ELSE 0,
   inFlight |-> InFlight, iterations |-> Len(samples), samples |-> samples,
   median |-> median, best |-> BestSample(samples)]

PassesOver == main = "pass" /\ it >= Section.warmup + Section.iterations

EndGroup ==
  /\ PassesOver
  /\ mode = "upload" => plan.upPart # 0
  /\ \E median \in MedianSamples(samples) : rows' = Append(rows, Row(median))
  /\ g' = g + 1
  /\ main' = "group"
  /\ UNCHANGED <<process, s3, seeding, it, i, bytes, samples, cutter, readerVars>>

\* nparts divides by the part size, which nothing keeps from being zero.
DivideByZero ==
  /\ PassesOver
  /\ mode = "upload" /\ plan.upPart = 0
  /\ main' = "panic"
  /\ UNCHANGED <<process, s3, seeding, loop, cutter, readerVars>>

EndRun ==
  /\ main = "group" /\ g > Len(cfg.sizes)
  /\ main' = "done"
  /\ UNCHANGED <<process, s3, seeding, loop, cutter, readerVars>>

\* SIGINT or SIGTERM, between or within the transfers.
Running == {"group", "pass", "object", "body"}

Signal ==
  /\ main \in Running
  /\ ~cancelled /\ cancelled' = TRUE
  /\ UNCHANGED <<file, mode, cfg, plan, main, s3, seeding, loop, cutter, readerVars>>

Ended == main \in {"done", "error", "missing", "panic"}

\* A new process reads the bucket with the same file, however the upload ended.
DownloadNext ==
  /\ Ended /\ mode = "upload"
  /\ seeding' = IF cancelled THEN "cancelled" ELSE main
  /\ mode' = "download"
  /\ main' = "load" /\ cancelled' = FALSE
  /\ cfg' = file /\ plan' = NoPlan
  /\ g' = 1 /\ it' = 0 /\ i' = 0 /\ bytes' = 0
  /\ samples' = <<>> /\ rows' = <<>>
  /\ UNCHANGED <<file, s3, cutter, readerVars>>

Rest == Ended /\ UNCHANGED vars

Step ==
  \/ Load \/ Refuse \/ Resolve
  \/ BeginGroup \/ RefuseGroup \/ BeginPass
  \/ PassOver \/ BeginUpload \/ AskBody \/ CopyBody \/ TakeBody \/ EndUpload
  \/ Download \/ NotFound
  \/ EndPass \/ EndGroup \/ DivideByZero \/ EndRun

Next == Step \/ TransferFails \/ Signal \/ DownloadNext \/ Rest

\* The process goes on; nothing makes a transfer fail, a signal come or a download
\* follow.
Behaviour == Init /\ [][Next]_vars /\ WF_vars(Step)
-----------------------------------------------------------------------------
(* Properties. *)

\* A process ends by a panic in one case only: an upload part size that is
\* nothing, which every check lets pass (main.go 122) and nparts divides by
\* (tmbench.go 195).  It takes all the passes of a group to find out, and the
\* rows with it.
PanicIsZeroPart ==
  main = "panic" =>
    /\ mode = "upload" /\ plan.upPart = 0
    /\ it >= Section.warmup + Section.iterations

\* "an upload run seeds/round-trips the exact objects a later download fetches"
\* (tmbench.go 142): after an upload that succeeded a download of the same
\* configuration misses no object, whatever counts and labels it has.  There are
\* two exceptions: an upload that ran no pass, as a negative warmup makes it; and
\* one that a signal cut short, which passes over the rest of its objects and
\* succeeds all the same (tmbench.go 530).
NothingMissing ==
  main = "missing" /\ seeding = "done" => cfg.up.warmup + cfg.up.iterations <= 0

\* A row's bytes: what a pass moved is what size and number of files say, of an
\* upload and of a download after it, even one that stopped half way.  A pass is
\* short only if a signal came, has no more than that, and is the last to move
\* anything: no row after it shows bytes that a reader could take for a result.
\* It takes a label that means a number of bytes which int64 can count; a
\* download takes any other for 0 (tmbench.go 218) and moves what is there.
Countable(r) ==
  LET size == ParseSize(Spec(r.group).size)
  IN  IF size = Err THEN FALSE ELSE size >= 0 /\ size * r.files <= MaxInt

Whole(r, n) == r.samples[n].bytes = r.size

WholeOrCut(r, n) == Whole(r, n) \/ (cancelled /\ r.samples[n].bytes \in 0..r.size)

\* No pass of the row after one that is short moved anything, nor one of a later row.
ShortIsLast(k) ==
  \A n \in DOMAIN rows[k].samples : ~Whole(rows[k], n) =>
    /\ \A m \in DOMAIN rows[k].samples : m > n => rows[k].samples[m].bytes = 0
    /\ \A l \in DOMAIN rows : l > k =>
         \A m \in DOMAIN rows[l].samples : rows[l].samples[m].bytes = 0

BytesTold ==
  \A k \in DOMAIN rows : Countable(rows[k]) =>
    /\ \A n \in DOMAIN rows[k].samples : WholeOrCut(rows[k], n)
    /\ ShortIsLast(k)

\* The parts in the bucket, each by its object and number: as many as their sum.
PartsOf(keys) == UNION {{key} \X (1..s3[key].parts) : key \in keys}

\* An upload's row that shows a whole pass is about objects that are in the bucket,
\* and its parts (nparts, tmbench.go 195) are those the transfer manager cut from
\* the bodies, with a part size that is positive and sums within int64.
PartsTold ==
  mode = "upload" =>
    \A k \in DOMAIN rows :
      LET r == rows[k]
          keys == Range(KeysFor(Spec(r.group)))
      IN  Countable(r) /\ r.perFileSize > 0 =>
            /\ (\E n \in DOMAIN r.samples : Whole(r, n)) => keys \subseteq DOMAIN s3
            /\ /\ keys \subseteq DOMAIN s3 /\ plan.upPart > 0
               /\ r.perFileSize + plan.upPart <= MaxInt
               => r.parts = Cardinality(PartsOf(keys))

\* Both hold of every row a run reports.
RowsTell == BytesTold /\ PartsTold

\* A row's figures: the passes asked for are reported and no warmup among them
\* (a negative warmup takes as many away, tmbench.go 163); the median is a pass
\* with half of them on either side; no pass is faster than the best, which is a
\* pass unless none moved anything.
PassesKept(r) == r.iterations =
  Max({0, Section.iterations + (IF Section.warmup < 0 THEN Section.warmup ELSE 0)})

MedianInTheMiddle(r) ==
  LET ss == r.samples
      slower == {k \in DOMAIN ss : Slower(ss[k], r.median)}
      faster == {k \in DOMAIN ss : Slower(r.median, ss[k])}
  IN  ss # <<>> => /\ r.median \in Range(ss)
                   /\ 2 * Cardinality(slower) <= Len(ss)
                   /\ 2 * Cardinality(faster) <= Len(ss)

BestIsFastest(r) ==
  /\ \A k \in DOMAIN r.samples : ~Slower(r.best, r.samples[k])
  /\ r.best \in Range(r.samples) \/ ~Slower(ZeroSample, r.best)

FiguresSound ==
  \A k \in DOMAIN rows :
    PassesKept(rows[k]) /\ MedianInTheMiddle(rows[k]) /\ BestIsFastest(rows[k])

\* maxBufferedBytes is a total (main.go 140): the objects in parallel do not read
\* ahead further, unless a part each is more than that; and none has less than a
\* part, which would stall it.
BudgetKept ==
  plan # NoPlan =>
    /\ plan.buffer >= plan.downPart \/ plan.downPer * plan.downPart > MaxInt
    /\ cfg.down.maxBufferedBytes > 0 =>
         \/ plan.downObj * plan.buffer <= cfg.down.maxBufferedBytes
         \/ plan.buffer = plan.downPart

\* The transport keeps a connection for every part in flight: the pool never has
\* more objects than the row says, nor the row more parts than connections,
\* in either direction, for every group.
ConnsSuffice ==
  plan # NoPlan /\ g <= Len(cfg.sizes) =>
    LET obj == IF mode = "upload" THEN plan.upObj ELSE plan.downObj
        per == IF mode = "upload" THEN plan.upPer ELSE plan.downPer
    IN  Min({obj, Objects(g)}) * per <= InFlight /\ InFlight <= plan.conns

\* The numbers run settles before the first transfer are enough and not too much.
PlanSound == BudgetKept /\ ConnsSuffice

\* Every process ends, whatever the file says: the loop of Read makes progress
\* with every buffer and every size, and so do the passes.
Settles == main = "load" ~> Ended
-----------------------------------------------------------------------------
(* What the theorems of SeedingProofs rest on. *)

InGroup == {"pass", "object", "body"}
Samples == [bytes : Int, secs : 0..MaxSecs]
Rows == [group : Nat, files : Nat, perFileSize : Int, size : Int, parts : Int,
         inFlight : Int, iterations : Nat, samples : Seq(Samples),
         median : Samples, best : Samples]

TypeOK ==
  /\ file \in Files
  /\ mode \in {"upload", "download"} /\ cancelled \in BOOLEAN
  /\ main \in Running \cup {"load", "check", "done", "error", "missing", "panic"}
  /\ seeding \in {"none", "done", "error", "missing", "panic", "cancelled"}
  /\ g \in Nat \ {0} /\ it \in Nat /\ i \in Nat
  /\ bytes \in Int
  /\ samples \in Seq(Samples) /\ rows \in Seq(Rows)
  /\ filled \in Nat /\ cut \in Nat
  /\ \A key \in DOMAIN s3 : s3[key] \in [size : Nat, parts : Nat \ {0}]

\* What was made of the file: nothing yet, the defaults, or all.
Configured ==
  /\ cfg = IF main = "load" THEN file ELSE WithDefaults(file)
  /\ plan = NoPlan \/ (main # "load" /\ ~Refused(cfg) /\ plan = Plan(cfg))
  /\ main \in Running \cup {"panic", "done"} => plan # NoPlan
  /\ main \in {"load", "check"} => plan = NoPlan /\ rows = <<>>

\* Where the loops over groups, passes and objects are.
AllPasses == Section.warmup + Section.iterations
InLoops ==
  /\ main \in InGroup =>
       g \in DOMAIN cfg.sizes /\ PerFileSize(g) # Err /\ (it = 0 \/ it <= AllPasses)
  /\ main \in {"object", "body"} => it < AllPasses /\ i \in 1..(Objects(g) + 1)
  /\ main = "body" => mode = "upload" /\ i <= Objects(g) /\ asked = PerFileSize(g)
  /\ main = "done" => g > Len(cfg.sizes)
  /\ main \in {"load", "check"} => g = 1

\* An object in the bucket is as long as a label of its key says, and labels of one
\* key that have a size have the same.
BucketTrue ==
  \A k \in DOMAIN file.sizes :
    LET size == ParseSize(file.sizes[k].size)
    IN  size # Err => \A key \in Range(KeysFor(file.sizes[k])) \cap DOMAIN s3 :
                        s3[key].size = IF size > 0 THEN size ELSE 0

\* The objects of the first n groups are in the bucket.
Stored(n) ==
  \A k \in DOMAIN file.sizes : k <= n => Range(KeysFor(file.sizes[k])) \subseteq DOMAIN s3

\* An upload that runs any pass leaves every object behind, unless a signal comes,
\* and a download none less.
Seeded ==
  /\ mode = "upload" /\ AllPasses > 0 /\ ~cancelled =>
       /\ main \in Running => Stored(g - 1)
       /\ main \in InGroup /\ it > 0 => Stored(g)
       /\ main \in {"object", "body"} =>
            \A j \in 1..(i - 1) : KeysFor(Spec(g))[j] \in DOMAIN s3
       /\ main = "done" => Stored(Len(file.sizes))
  /\ mode = "download" /\ seeding = "done" =>
       \/ Stored(Len(file.sizes))
       \/ WithDefaults(file).up.warmup + WithDefaults(file).up.iterations <= 0

\* Whether int64 can count the bytes of group k.
Counts(k) ==
  LET size == ParseSize(Spec(k).size)
  IN  IF size = Err THEN FALSE ELSE size >= 0 /\ size * Objects(k) <= MaxInt

\* What has been moved of so many bytes: less, only after a signal.
MovedBy(moved, due) == moved = due \/ (cancelled /\ moved \in 0..due)

\* The passes of the group so far: their bytes and their number.
GroupSoFar ==
  main \in InGroup =>
    /\ Counts(g) => \A n \in DOMAIN samples :
                     MovedBy(samples[n].bytes, PerFileSize(g) * Objects(g))
    /\ main \in {"object", "body"} /\ Counts(g) => MovedBy(bytes, PerFileSize(g) * (i - 1))
    /\ Len(samples) = IF Section.warmup <= 0 THEN it
                      ELSE IF it >= Section.warmup THEN it - Section.warmup ELSE 0

\* The rows so far.
RowTrue(r) ==
  /\ r.group \in DOMAIN cfg.sizes
  /\ Countable(r) => \A n \in DOMAIN r.samples : WholeOrCut(r, n)
  /\ PassesKept(r) /\ MedianInTheMiddle(r) /\ BestIsFastest(r)
RowsTrue == \A k \in DOMAIN rows : RowTrue(rows[k])

IInv ==
  /\ TypeOK /\ ReaderInv /\ Configured /\ InLoops /\ BucketTrue /\ Seeded
  /\ GroupSoFar /\ RowsTrue /\ PanicIsZeroPart /\ NothingMissing

\* What has been read of a body is in the parts cut so far, the one being filled and
\* the buffer of the call in progress, which never reaches beyond that part.
BodyCut ==
  main = "body" =>
    /\ filled < PartInUse
    /\ want > 0 => filled + want <= PartInUse
    /\ cut * PartInUse + filled + total = Len(body)

\* The bytes fill that many parts, and the last of them not to be empty.
FillParts(size, part, parts) == (parts - 1) * part < size /\ size <= parts * part

\* An object in the bucket has the parts that it takes, and an empty one has a part.
PartsFit(object) ==
  \/ object.size = 0 /\ object.parts = 1
  \/ FillParts(object.size, PartInUse, object.parts)

BucketCut ==
  mode = "upload" =>
    \A key \in DOMAIN s3 : plan # NoPlan /\ PartsFit(s3[key])

\* A row of an upload is about all objects of its group.
RowsCut ==
  mode = "upload" =>
    \A k \in DOMAIN rows :
      LET r == rows[k]
      IN  /\ r.files = Objects(r.group) /\ r.perFileSize = PerFileSize(r.group)
          /\ r.parts = NParts(r.perFileSize, plan.upPart, r.files)

PartsInv == BodyCut /\ BucketCut /\ RowsCut

\* After a signal a run moves nothing more, once a pass has ended or its object has.
Idle == cancelled /\ main # "body" /\ (main = "object" => bytes = 0)

MovedNothing(passes) == \A n \in DOMAIN passes : passes[n].bytes = 0

\* Of the passes of one group, with so many bytes each if they are whole.
ShortLast(passes, whole) ==
  \A n \in DOMAIN passes : passes[n].bytes # whole =>
    /\ Idle
    /\ \A m \in DOMAIN passes : m > n => passes[m].bytes = 0

\* A short pass is followed by nothing: in its group, in the groups after it, and in
\* what the run is about to do.
ShortLastSoFar ==
  /\ main \in InGroup /\ Counts(g) => ShortLast(samples, PerFileSize(g) * Objects(g))
  /\ \A k \in DOMAIN rows : Countable(rows[k]) =>
       /\ ShortLast(rows[k].samples, rows[k].size)
       /\ (\E n \in DOMAIN rows[k].samples : ~Whole(rows[k], n)) =>
            /\ \A l \in DOMAIN rows : l > k => MovedNothing(rows[l].samples)
            /\ main \in InGroup => MovedNothing(samples)

\* A pass that is whole, or so far is, has all its objects in the bucket.
WholeIsStored ==
  mode = "upload" =>
    /\ main \in InGroup /\ Counts(g) /\ PerFileSize(g) > 0 =>
         /\ (\E n \in DOMAIN samples : samples[n].bytes = PerFileSize(g) * Objects(g)) =>
              Range(KeysFor(Spec(g))) \subseteq DOMAIN s3
         /\ main \in {"object", "body"} /\ bytes = PerFileSize(g) * (i - 1) =>
              \A j \in 1..(i - 1) : KeysFor(Spec(g))[j] \in DOMAIN s3
    /\ \A k \in DOMAIN rows :
         /\ Countable(rows[k]) /\ rows[k].perFileSize > 0
         /\ \E n \in DOMAIN rows[k].samples : Whole(rows[k], n)
         => Range(KeysFor(Spec(rows[k].group))) \subseteq DOMAIN s3

SignalInv == ShortLastSoFar /\ WholeIsStored
=============================================================================
