-------------------------------- MODULE Dialer --------------------------------
(***************************************************************************)
(* newDialer and newDestPicker of internal/s3client/client.go: the dial    *)
(* function of the HTTP transport, called by many goroutines.  A dial      *)
(* takes the next of the host's own addresses as its source and, when      *)
(* spreading is on, the next address of the S3 name as its destination.    *)
(* The addresses of a name are cached for TTL under one mutex, which is    *)
(* held during a lookup.                                                   *)
(*                                                                         *)
(* Time is kept as the age of each cached answer, up to TTL + 1.  Lookups  *)
(* and connections are external.                                           *)
(***************************************************************************)
EXTENDS Integers, Sequences, SequencesExt

CONSTANTS
  Conns,     \* goroutines that dial
  Hosts,     \* names they dial
  Sources,   \* the source addresses, as parseLocalIPs leaves them
  Answers,   \* what a lookup may return: sequences of distinct addresses
  TTL,       \* "const ttl"
  MaxDials,  \* bound on the calls of the dial function
  None,      \* no holder of the mutex, no name
  Plain      \* the destination is left to the dialer of the library

ASSUME DialerAssumption ==
  /\ Sources \in Seq(STRING)
  /\ \A answer \in Answers :
       answer \in Seq(STRING) /\ answer # <<>> /\ IsInjective(answer)
  /\ TTL \in Nat /\ MaxDials \in Nat
  /\ None \notin Conns /\ None \notin Hosts
  /\ \A answer \in Answers : ~Contains(answer, Plain)

VARIABLES
  spread,  \* opts.SpreadConnections
  dials,   \* calls made, for the bound
  at,      \* at[c]: where the call of goroutine c is
  host,    \* host[c]: the name it dials
  local,   \* local[c]: index in Sources of d.LocalAddr, 0 if there is none
  dest,    \* dest[c]: the address it connects to
  li,      \* the round robin over Sources
  lock,    \* the holder of mu
  cache,   \* cache[h]: the entry of h; no addresses if there is none
  sent,    \* history: sent[s]: connections attempted from Sources[s]
  used     \* history: used[h][a]: picks of address a since the answer last changed

call == <<at, host, local, dest>>
picker == <<lock, cache, used>>
vars == <<spread, dials, call, li, picker, sent>>

NoEntry == [ips |-> <<>>, age |-> 0, idx |-> 0]
Addresses == UNION {ToSet(answer) : answer \in Answers}

TypeOK ==
  /\ spread \in BOOLEAN /\ dials \in 0 .. MaxDials
  /\ at \in [Conns -> {"idle", "lock", "lookup", "dial"}]
  /\ host \in [Conns -> Hosts \cup {None}]
  /\ local \in [Conns -> 0 .. Len(Sources)]
  /\ dest \in [Conns -> Addresses \cup {Plain}]
  /\ li \in Nat
  /\ lock \in Conns \cup {None}
  /\ cache \in [Hosts -> [ips : Answers \cup {<<>>}, age : 0 .. (TTL + 1), idx : Nat]]
  /\ DOMAIN used = Hosts
  /\ \A h \in Hosts : used[h] \in [ToSet(cache[h].ips) -> Nat]
  /\ sent \in [1 .. Len(Sources) -> Nat]

Init ==
  /\ spread \in BOOLEAN
  /\ dials = 0 /\ li = 0
  /\ at = [c \in Conns |-> "idle"]
  /\ host = [c \in Conns |-> None]
  /\ local = [c \in Conns |-> 0]
  /\ dest = [c \in Conns |-> Plain]
  /\ lock = None
  /\ cache = [h \in Hosts |-> NoEntry]
  /\ sent = [s \in 1 .. Len(Sources) |-> 0]
  /\ used = [h \in Hosts |-> <<>>]

-----------------------------------------------------------------------------

BoundFaulty(c, s) == [x \in Conns |-> s]  \* faulty: the dialer is not copied

\* "d := *base", "d.LocalAddr = ...": the copy is the goroutine's own.
Bound(c, s) == [local EXCEPT ![c] = s]

\* The call begins.  The counter is raised and read in one atomic step.
BeginDial(c, h) ==
  /\ at[c] = "idle"
  /\ dials < MaxDials
  /\ dials' = dials + 1
  /\ host' = [host EXCEPT ![c] = h]
  /\ IF Sources = <<>>
     THEN UNCHANGED <<li, local>>
     ELSE li' = li + 1 /\ local' = Bound(c, (li' % Len(Sources)) + 1)
  /\ at' = [at EXCEPT ![c] = IF spread THEN "lock" ELSE "dial"]
  /\ UNCHANGED <<spread, dest, picker, sent>>

StaleFaulty(h) == cache[h].ips = <<>>  \* faulty: an answer is kept for ever

Stale(h) == cache[h].ips = <<>> \/ cache[h].age > TTL

\* "ip := e.ips[e.idx%len(e.ips)]", "e.idx++" on an entry of host h.
Pick(c, h, e) ==
  LET ip == e.ips[(e.idx % Len(e.ips)) + 1]
      before == IF e.ips = cache[h].ips THEN used[h] ELSE [a \in ToSet(e.ips) |-> 0]
  IN /\ cache' = [cache EXCEPT ![h] = [e EXCEPT !.idx = @ + 1]]
     /\ used' = [used EXCEPT ![h] = [before EXCEPT ![ip] = @ + 1]]
     /\ dest' = [dest EXCEPT ![c] = ip]
     /\ at' = [at EXCEPT ![c] = "dial"]

\* The mutex is taken and the answer is fresh: nothing is awaited until it is
\* released.
PickCached(c) ==
  /\ at[c] = "lock" /\ lock = None
  /\ ~Stale(host[c])
  /\ Pick(c, host[c], cache[host[c]])
  /\ UNCHANGED <<spread, dials, host, local, li, lock, sent>>

BeginLookupFaulty(c) ==  \* faulty: the mutex is not held during the lookup
  /\ at[c] = "lock" /\ lock = None
  /\ Stale(host[c])
  /\ at' = [at EXCEPT ![c] = "lookup"]
  /\ UNCHANGED <<spread, dials, host, local, dest, li, picker, sent>>

\* The mutex is taken, and kept during the lookup.
BeginLookup(c) ==
  /\ at[c] = "lock" /\ lock = None
  /\ Stale(host[c])
  /\ lock' = c
  /\ at' = [at EXCEPT ![c] = "lookup"]
  /\ UNCHANGED <<spread, dials, host, local, dest, li, cache, used, sent>>

\* The new entry goes on where the old one was.
Refreshed(h, answer) == [ips |-> answer, age |-> 0, idx |-> cache[h].idx]

LookupOk(c) ==
  /\ at[c] = "lookup"
  /\ \E answer \in Answers : Pick(c, host[c], Refreshed(host[c], answer))
  /\ lock' = None
  /\ UNCHANGED <<spread, dials, host, local, li, sent>>

LookupFailsFaulty(c) ==  \* faulty: returns without unlocking
  /\ at[c] = "lookup"
  /\ at' = [at EXCEPT ![c] = "dial"]
  /\ UNCHANGED <<spread, dials, host, local, dest, li, lock, cache, used, sent>>

\* An error or an empty answer: a plain dial; what is cached stays.
LookupFails(c) ==
  /\ at[c] = "lookup"
  /\ at' = [at EXCEPT ![c] = "dial"]
  /\ lock' = None
  /\ UNCHANGED <<spread, dials, host, local, dest, li, cache, used, sent>>

\* "d.DialContext": from the source bound to d.  The call is over.
Connect(c) ==
  /\ at[c] = "dial"
  /\ at' = [at EXCEPT ![c] = "idle"]
  /\ host' = [host EXCEPT ![c] = None]
  /\ local' = [local EXCEPT ![c] = 0]
  /\ dest' = [dest EXCEPT ![c] = Plain]
  /\ sent' = IF local[c] = 0 THEN sent ELSE [sent EXCEPT ![local[c]] = @ + 1]
  /\ UNCHANGED <<spread, dials, li, picker>>

\* Time passes for every cached answer.
Tick ==
  /\ \E h \in Hosts : ~Stale(h)
  /\ cache' = [h \in Hosts |-> IF Stale(h) THEN cache[h] ELSE [cache[h] EXCEPT !.age = @ + 1]]
  /\ UNCHANGED <<spread, dials, call, li, lock, used, sent>>

-----------------------------------------------------------------------------

Acquire(c) == PickCached(c) \/ BeginLookup(c)

Next ==
  \/ \E c \in Conns :
       \/ \E h \in Hosts : BeginDial(c, h)
       \/ Acquire(c) \/ LookupOk(c) \/ LookupFails(c) \/ Connect(c)
  \/ Tick

Spec == Init /\ [][Next]_vars

\* A waiter of a sync.Mutex is not passed over for ever (its starvation mode), and
\* a connection attempt ends (Timeout of the base dialer).  A lookup gets none.
Fairness == \A c \in Conns : SF_vars(Acquire(c)) /\ WF_vars(Connect(c))

FairSpec == Spec /\ Fairness

-----------------------------------------------------------------------------

(***************************************************************************)
(* Connections are spread.  For as long as lookups give the same answer,   *)
(* however often it expires and is looked up again and whoever dials, no   *)
(* destination is picked twice more than another; and when no dial is      *)
(* under way, the connections attempted from any two cards differ by one   *)
(* at most, however the dials overlapped.                                  *)
(***************************************************************************)
SpreadEvenly ==
  /\ \A h \in Hosts : \A a, b \in DOMAIN used[h] : used[h][a] <= used[h][b] + 1
  /\ (\A c \in Conns : at[c] = "idle") =>
       \A s, t \in DOMAIN sent : sent[s] <= sent[t] + 1

(***************************************************************************)
(* A dial gets an address of an answer no older than TTL, or the plain     *)
(* destination, and that only because its own lookup failed: an expired    *)
(* answer is never fallen back on, and no failure is remembered.           *)
(***************************************************************************)
FreshOrPlain ==
  [][\A c \in Conns :
       at[c] \in {"lock", "lookup"} /\ at'[c] = "dial" =>
         LET e == cache'[host[c]] IN
         \/ at[c] = "lookup" /\ dest'[c] = Plain /\ UNCHANGED cache
         \/ Contains(e.ips, dest'[c]) /\ e.age <= TTL]_vars

(***************************************************************************)
(* No stampede: an answer is replaced only after it has expired, although  *)
(* every goroutine that waited for the mutex had found it expired.         *)
(***************************************************************************)
LookupsApart ==
  [][\A h \in Hosts :
       (\E c \in Conns : at[c] = "lookup" /\ at'[c] = "dial" /\ host[c] = h) => Stale(h)]_vars

(***************************************************************************)
(* A dial is not blocked for ever by the mutex, provided that every lookup *)
(* ends, with an answer or without.                                        *)
(***************************************************************************)
LookupsEnd == \A c \in Conns : []<>(at[c] # "lookup")
DialsProceed == LookupsEnd => \A c \in Conns : (at[c] = "lock") ~> (at[c] = "dial")

-----------------------------------------------------------------------------
(* What the theorems about the dialer rest on. *)

\* A call has its place in the code, its own lookup the mutex, and nobody else:
\* so what made it look the name up still holds when the answer comes.
CallsInStep ==
  \A c \in Conns :
    /\ at[c] # "idle" => host[c] \in Hosts
    /\ at[c] = "idle" => local[c] = 0
    /\ at[c] # "dial" => dest[c] = Plain
    /\ at[c] = "lookup" => lock = c /\ Stale(host[c])

\* How many turns k has to wait, of n, when it is the turn of next.
Wait(k, next, n) == IF k >= next THEN k - next ELSE k - next + n

\* What a round robin keeps: taken[k] is never more than that of one who waits
\* longer, nor more than one less.
InTurn(taken, next, n) ==
  \A k, l \in 1 .. n :
    Wait(k, next, n) <= Wait(l, next, n) => taken[k] <= taken[l] /\ taken[l] <= taken[k] + 1

\* The picks of each address of a name, in the order of its answer.
Picks(h) == [k \in 1 .. Len(cache[h].ips) |-> used[h][cache[h].ips[k]]]

PicksInTurn ==
  \A h \in Hosts : LET n == Len(cache[h].ips) IN
    n > 0 => InTurn(Picks(h), (cache[h].idx % n) + 1, n)

\* The connections of each source, those attempted and those on the way.
From(s) == {c \in Conns : local[c] = s}
Taken == [s \in 1 .. Len(Sources) |-> sent[s] + Cardinality(From(s))]

SourcesInTurn ==
  LET n == Len(Sources) IN
  /\ \A s \in 1 .. n : IsFiniteSet(From(s))
  /\ n > 0 => InTurn(Taken, ((li + 1) % n) + 1, n)

IInv == TypeOK /\ CallsInStep /\ PicksInTurn /\ SourcesInTurn

===============================================================================
