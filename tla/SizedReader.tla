---------------------------- MODULE SizedReader ----------------------------
(***************************************************************************)
(* The body of an uploaded object, sizedReader in                          *)
(* internal/tmbench/tmbench.go: a number of bytes drawn from a block of    *)
(* random bytes that is repeated as often as it takes.  The block is read  *)
(* here as its positions, so that a byte of the body is known by where in  *)
(* the block it comes from.                                                *)
(***************************************************************************)
EXTENDS Integers, Sequences

CONSTANT PatternLen   \* length of the block, 1 MiB in the code

ASSUME ReaderAssumption == PatternLen \in Nat \ {0}

VARIABLES
  asked,       \* the size the reader was made for
  remaining,   \* bytes not yet yielded
  off,         \* position in the block
  want,        \* bytes the call of Read in progress will return; 0: no call
  total,       \* of these, bytes copied
  body         \* history: what the caller has been given, byte by byte

readerVars == <<asked, remaining, off, want, total, body>>

Least(a, b) == IF a < b THEN a ELSE b

Made(size) ==
  /\ asked = size
  /\ remaining = size
  /\ off = 0
  /\ want = 0
  /\ total = 0
  /\ body = <<>>

Open(size) ==
  /\ asked' = size
  /\ remaining' = size
  /\ off' = 0
  /\ want' = 0
  /\ total' = 0
  /\ body' = <<>>

\* faulty: the position starts over with every call.
ReadFaulty(len) ==
  /\ want = 0
  /\ remaining > 0
  /\ want' = Least(len, remaining)
  /\ total' = 0
  /\ off' = 0
  /\ UNCHANGED <<asked, remaining, body>>

\* The caller's buffer has room for len bytes; it is cut to what remains.
Read(len) ==
  /\ want = 0
  /\ remaining > 0
  /\ want' = Least(len, remaining)
  /\ total' = 0
  /\ UNCHANGED <<asked, remaining, off, body>>

\* faulty: the position is not taken round the block.
CopyFaulty ==
  /\ total < want
  /\ LET n == Least(want - total, PatternLen - off)
     IN  /\ body' = body \o [k \in 1..n |-> off + k - 1]
         /\ off' = off + n
         /\ total' = total + n
  /\ UNCHANGED <<asked, remaining, want>>

\* One round of the loop: up to the end of the block or of the buffer.
Copy ==
  /\ total < want
  /\ LET n == Least(want - total, PatternLen - off)
     IN  /\ body' = body \o [k \in 1..n |-> off + k - 1]
         /\ off' = (off + n) % PatternLen
         /\ total' = total + n
  /\ UNCHANGED <<asked, remaining, want>>

Return ==
  /\ want > 0
  /\ total = want
  /\ remaining' = remaining - total
  /\ want' = 0
  /\ total' = 0
  /\ UNCHANGED <<asked, off, body>>

\* What the next call answers when nothing remains.
AtEOF == want = 0 /\ remaining <= 0

ReaderInit == \E size \in Int : Made(size)
ReaderNext == Copy \/ Return \/ \E len \in Nat \ {0} : Read(len)
ReaderSpec == ReaderInit /\ [][ReaderNext]_readerVars

-----------------------------------------------------------------------------
ReaderTypeOK ==
  /\ asked \in Int
  /\ remaining \in Int
  /\ off \in 0..(PatternLen - 1)
  /\ want \in Nat
  /\ total \in 0..want
  /\ body \in Seq(0..(PatternLen - 1))

\* However the caller cuts its buffers, and wherever the end of the block falls
\* among them, byte k of the body is byte k of the block repeated for ever: two
\* uploads of one block would be equal.
PatternRepeats == \A k \in 1..Len(body) : body[k] = (k - 1) % PatternLen

\* The reader yields what it was made for and no byte more ("yields exactly
\* `remaining` bytes"), and nothing for a size that is not positive.
ExactlyAsked ==
  /\ asked > 0 => Len(body) + (remaining - total) = asked /\ remaining >= want
  /\ asked <= 0 => body = <<>>

StreamSound == PatternRepeats /\ ExactlyAsked

\* What is left of the size is what has not been copied, even of a size that is not
\* positive; and the position in the block goes with the length of the body.
InStep ==
  /\ Len(body) + (remaining - total) = asked
  /\ want > 0 => want <= remaining
  /\ off = Len(body) % PatternLen

ReaderInv == ReaderTypeOK /\ InStep /\ StreamSound
=============================================================================
