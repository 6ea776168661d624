----------------------------- MODULE MCSeeding -----------------------------
\* Configurations that differ from a plain one in one or two places.
EXTENDS Seeding

L(num, den, unit) == [num |-> num, den |-> den, unit |-> unit]
Group(size, count) == [size |-> size, count |-> count]

OneKB == L(1, 1, "KB")
OneKiB == L(1, 1, "KiB")
Amd64 == -32
TwoBytes == L(2, 1, "B")

Plain ==
  [memoryLimit |-> Empty,
   sizes |-> <<Group(L(1, 1, "KiB"), 2), Group(L(5, 2, "B"), 1)>>,
   down |-> [api |-> "", getObjectType |-> "", sink |-> "", partSize |-> Empty,
             objectConcurrency |-> 0, concurrency |-> 0, maxBufferedBytes |-> 0,
             iterations |-> 0, warmup |-> 0],
   up |-> [partSize |-> TwoBytes, objectConcurrency |-> 0, concurrency |-> 0,
           iterations |-> 1, warmup |-> 0]]

Labels == {L(0, 1, "B"), L(5, 1, "B"), L(-1, 1, "KB"), L(3, 1, ""), L(1, 2, ""),
           L(3, 2, "KB"), L(1, 1, "kB"), L(1, 1, "kib"), L(1, 1, "GiB"), Empty}

Sizes == {[Plain EXCEPT !.sizes = <<Group(l, c)>>] : l \in Labels \ {Empty}, c \in -1..3}

Twins == {[Plain EXCEPT !.sizes = <<Group(L(1, 1, "KB"), c), Group(L(1, 1, u), 1)>>] :
            c \in {1, 2}, u \in {"KB", "kB", "kib"}}

One == [Plain EXCEPT !.sizes[1].count = 1]
Parts == {[One EXCEPT !.up.partSize = l] : l \in Labels}
           \cup {[One EXCEPT !.down.partSize = l] : l \in Labels}

Passes == {[Plain EXCEPT !.sizes = <<Group(TwoBytes, 1)>>,
                         !.up.warmup = w, !.up.iterations = n,
                         !.down.warmup = w, !.down.iterations = n] :
             w \in {-2, -1, 0, 1}, n \in {-1, 1, 2, 3}}

\* Concurrencies go into the plan and the row only, so no pass is run.
Conc == {[Plain EXCEPT !.sizes = <<Group(L(0, 1, "B"), 3), Group(L(1, 1, ""), 1)>>,
                       !.up.objectConcurrency = up[1], !.up.concurrency = up[2],
                       !.down.objectConcurrency = do, !.down.concurrency = dc,
                       !.down.maxBufferedBytes = b,
                       !.up.warmup = -1, !.down.warmup = -1, !.down.iterations = 1] :
           up \in {<<0, -1>>, <<2, 4>>}, do \in {0, 1, 4}, dc \in {0, 1, 4}, b \in {0, 1, 7, 30}}

Knobs == {[Plain EXCEPT !.down.api = a, !.down.sink = s, !.down.getObjectType = t,
                        !.memoryLimit = m] :
            a \in {"", "download-file", "other"}, s \in {"file", "other"},
            t \in {"ranges", "other"}, m \in {Empty, TwoBytes, L(1, 1, "kB")}}

SomeFiles == Sizes \cup Twins \cup Parts \cup Passes \cup Conc \cup Knobs
=============================================================================
