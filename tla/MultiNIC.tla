------------------------------- MODULE MultiNIC -------------------------------
(***************************************************************************)
(* scripts/setup-multinic.sh, command by command, on a host whose cards    *)
(* come, go and get addresses: every secondary card is given a routing     *)
(* table of its own, TABLE_BASE plus a running count, and a rule that      *)
(* sends traffic from its address there.  Rules and tables do not survive  *)
(* a reboot, after which everything begins again from Init.  With it       *)
(* LocalIPv4s of internal/s3client/client.go, which collects the source    *)
(* addresses that rely on these rules.                                     *)
(*                                                                         *)
(* A card has one address and is named in place of it.  The host has a     *)
(* default route, so the primary card is known.  rp_filter is left out: a  *)
(* complete run ends by setting it for all cards.                          *)
(***************************************************************************)
EXTENDS Integers, FiniteSets

CONSTANTS
  N,        \* number of secondary cards the host may have
  Primary,  \* the card of the default route
  Bridges,  \* bridges of containers, up and with an address
  MaxPlugs, \* bound on the cards attached or detached while the host is up
  None

ASSUME MultiNICAssumption ==
  /\ N \in Nat /\ MaxPlugs \in Nat
  /\ Primary \notin 1 .. N /\ None \notin 1 .. 2 * N
  /\ Bridges \cap (1 .. N \cup {Primary}) = {}

VARIABLES
  attached,   \* the secondary cards present
  addressed,  \* those with an IPv4 address
  plugs,      \* cards attached or detached, for the bound
  rule,       \* rule[i]: the table traffic from card i looks up, or None
  net, via,   \* net[t], via[t]: the card of table t's subnet and default route
  pc,         \* the script: "off", or what it does next
  todo,       \* cards it has yet to visit, in their order
  count,
  ran,        \* history: a run has begun since the last boot
  skipped,    \* history: cards without an address when a run passed them
  complete,   \* history: a run has come to its end since the last boot
  changed     \* history: cards have changed after a run could have counted them

host == <<attached, addressed, plugs>>
routing == <<rule, net, via>>
script == <<pc, todo, count>>
history == <<ran, skipped, complete, changed>>
vars == <<host, routing, script, history>>

Cards == 1 .. N   \* in the order ls lists them

\* Tables by their distance from TABLE_BASE; those of another tool come after.
Tables == 1 .. 2 * N
OtherTable(i) == N + i

TypeOK ==
  /\ addressed \subseteq attached /\ attached \subseteq Cards /\ plugs \in 0 .. MaxPlugs
  /\ rule \in [Cards -> Tables \cup {None}]
  /\ net \in [Tables -> Cards \cup {None}] /\ via \in [Tables -> Cards \cup {None}]
  /\ pc \in {"off", "visit", "flush", "net", "default", "rule"}
  /\ todo \subseteq Cards /\ count \in 0 .. N
  /\ skipped \subseteq Cards
  /\ ran \in BOOLEAN /\ complete \in BOOLEAN /\ changed \in BOOLEAN

NoRules == [i \in Cards |-> None]
NoRoutes == [t \in Tables |-> None]

Init ==
  /\ attached \in SUBSET Cards
  /\ addressed \in SUBSET attached
  /\ plugs = 0
  /\ rule = NoRules /\ net = NoRoutes /\ via = NoRoutes
  /\ pc = "off" /\ todo = {} /\ count = 0
  /\ ran = FALSE /\ skipped = {} /\ complete = FALSE /\ changed = FALSE

-----------------------------------------------------------------------------

\* The list of ls: the primary card is passed over, bridges are filtered out.
Begin ==
  /\ pc = "off"
  /\ pc' = "visit"
  /\ todo' = attached
  /\ count' = 0
  /\ ran' = TRUE
  /\ UNCHANGED <<host, routing, skipped, complete, changed>>

Here == CHOOSE i \in todo : \A j \in todo : i <= j

\* "continue": no address, and DHCP gives none.
Skip ==
  /\ pc = "visit" /\ todo # {}
  /\ Here \in attached \ addressed
  /\ skipped' = skipped \cup {Here}
  /\ todo' = todo \ {Here}
  /\ UNCHANGED <<host, routing, pc, count, ran, complete, changed>>

KeepFaulty ==  \* faulty: the running count passes over a card left as it is
  /\ pc = "visit" /\ todo # {}
  /\ Here \in addressed /\ rule[Here] # None
  /\ todo' = todo \ {Here}
  /\ UNCHANGED <<host, routing, pc, count, history>>

\* "policy routing already present": whatever the rule looks up.
Keep ==
  /\ pc = "visit" /\ todo # {}
  /\ Here \in addressed /\ rule[Here] # None
  /\ count' = count + 1
  /\ todo' = todo \ {Here}
  /\ UNCHANGED <<host, routing, pc, history>>

ConfigureFaulty ==  \* faulty: a rule that is there is not looked for
  /\ pc = "visit" /\ todo # {}
  /\ Here \in addressed
  /\ count' = count + 1
  /\ pc' = "flush"
  /\ UNCHANGED <<host, routing, todo, history>>

\* A card without a rule gets the table of the new count.
Configure ==
  /\ pc = "visit" /\ todo # {}
  /\ Here \in addressed /\ rule[Here] = None
  /\ count' = count + 1
  /\ pc' = "flush"
  /\ UNCHANGED <<host, routing, todo, history>>

Flush ==
  /\ pc = "flush"
  /\ net' = [net EXCEPT ![count] = None]
  /\ via' = [via EXCEPT ![count] = None]
  /\ pc' = "net"
  /\ UNCHANGED <<host, rule, todo, count, history>>

AddNetFaulty ==  \* faulty: the rule is added before the default route
  /\ pc = "net" /\ Here \in addressed
  /\ net' = [net EXCEPT ![count] = Here]
  /\ rule' = [rule EXCEPT ![Here] = count]
  /\ pc' = "default"
  /\ UNCHANGED <<host, via, todo, count, history>>

AddNet ==
  /\ pc = "net" /\ Here \in addressed
  /\ net' = [net EXCEPT ![count] = Here]
  /\ pc' = "default"
  /\ UNCHANGED <<host, rule, via, todo, count, history>>

AddDefault ==
  /\ pc = "default" /\ Here \in addressed
  /\ via' = [via EXCEPT ![count] = Here]
  /\ pc' = "rule"
  /\ UNCHANGED <<host, rule, net, todo, count, history>>

\* A rule added last is looked up first.
AddRule ==
  /\ pc = "rule"
  /\ rule' = [rule EXCEPT ![Here] = count]
  /\ todo' = todo \ {Here}
  /\ pc' = "visit"
  /\ UNCHANGED <<host, net, via, count, history>>

Finish ==
  /\ pc = "visit" /\ todo = {}
  /\ pc' = "off" /\ count' = 0
  /\ complete' = TRUE
  /\ UNCHANGED <<host, routing, todo, ran, skipped, changed>>

\* A command fails under "set -e", or the user interrupts.
Die ==
  /\ pc # "off"
  /\ pc' = "off" /\ todo' = {} /\ count' = 0
  /\ UNCHANGED <<host, routing, history>>

-----------------------------------------------------------------------------

Attach(i) ==
  /\ i \notin attached /\ plugs < MaxPlugs
  /\ plugs' = plugs + 1
  /\ attached' = attached \cup {i}
  /\ changed' = (changed \/ ran)
  /\ UNCHANGED <<addressed, routing, script, ran, skipped, complete>>

\* The kernel drops the routes of a card that goes; rules stay.
Detach(i) ==
  /\ i \in attached /\ plugs < MaxPlugs
  /\ plugs' = plugs + 1
  /\ attached' = attached \ {i} /\ addressed' = addressed \ {i}
  /\ net' = [t \in Tables |-> IF net[t] = i THEN None ELSE net[t]]
  /\ via' = [t \in Tables |-> IF via[t] = i THEN None ELSE via[t]]
  /\ changed' = TRUE
  /\ UNCHANGED <<rule, script, ran, skipped, complete>>

\* From the dhclient of the script or from the host's own; a lease may come late.
GetAddress(i) ==
  /\ i \in attached \ addressed
  /\ addressed' = addressed \cup {i}
  /\ changed' = (changed \/ i \in skipped \/ complete)
  /\ UNCHANGED <<attached, plugs, routing, script, ran, skipped, complete>>

\* amazon-ec2-net-utils sets up a card in a table of its own.
OtherTool(i) ==
  /\ i \in addressed /\ rule[i] = None
  /\ rule' = [rule EXCEPT ![i] = OtherTable(i)]
  /\ net' = [net EXCEPT ![OtherTable(i)] = i]
  /\ via' = [via EXCEPT ![OtherTable(i)] = i]
  /\ UNCHANGED <<host, script, history>>

Script ==
  \/ Begin \/ Skip \/ Keep \/ Configure \/ Flush \/ AddNet \/ AddDefault \/ AddRule
  \/ Finish \/ Die

Next ==
  \/ Script
  \/ \E i \in Cards : Attach(i) \/ Detach(i) \/ GetAddress(i) \/ OtherTool(i)

Spec == Init /\ [][Next]_vars

-----------------------------------------------------------------------------

\* The addresses LocalIPv4s collects, by their interface.
LocalIPv4s == {Primary} \cup addressed \cup Bridges

\* The card by which traffic from the address of i leaves: without a rule, or with
\* an empty table, the default route of the host.
Egress(i) == IF i \in Cards /\ rule[i] # None /\ via[rule[i]] # None THEN via[rule[i]] ELSE Primary

(***************************************************************************)
(* As a card with a rule is left as it is by every later run, a rule must  *)
(* be the last thing a card gets: as long as the cards do not change, each *)
(* rule leads to a complete table of its own card, wherever a run, or      *)
(* several, broke off.                                                     *)
(***************************************************************************)
RuleMeansRouted ==
  ~changed => \A i \in Cards : rule[i] # None => net[rule[i]] = i /\ via[rule[i]] = i

(***************************************************************************)
(* After a complete run, and as long as the cards do not change, every     *)
(* source address of the client leaves by its own card.  Bridges are       *)
(* excepted: LocalIPv4s takes their addresses, the script passes them over.*)
(***************************************************************************)
SourcesOwnCard ==
  complete /\ ~changed => \A i \in LocalIPv4s \ Bridges : Egress(i) = i

(***************************************************************************)
(* "Idempotent": a run over a host that is set up changes nothing.         *)
(***************************************************************************)
RerunIdle == [][complete /\ Script /\ ~changed => UNCHANGED routing]_vars

(***************************************************************************)
(* "Safe to re-run": no step of the script takes a card's own route away.  *)
(***************************************************************************)
RerunSafe == [][Script => \A i \in Cards : Egress(i) = i => Egress(i)' = i]_vars

-----------------------------------------------------------------------------

(***************************************************************************)
(* The strengthening from which MultiNICProofs proves the three            *)
(* properties of the run multinic: while the cards do not change, the table*)
(* of a card is its place among the cards with an address.                 *)
(***************************************************************************)

Below(i) == {j \in addressed : j <= i}
Rank(i) == Cardinality(Below(i))

\* The place of the script; a card in work is counted and still listed.
InWork == pc \notin {"off", "visit"}

Place ==
  /\ pc = "off" => todo = {} /\ count = 0
  /\ InWork => todo # {} /\ count \in 1 .. N
  /\ count + Cardinality(todo) <= N + (IF InWork THEN 1 ELSE 0)
  /\ pc # "off" \/ complete => ran

\* What is behind the script in its list was counted if it had an address.
CountedSoFar ==
  ~changed =>
    /\ skipped \cap addressed = {}
    /\ pc # "off" =>
         /\ todo \subseteq attached
         /\ \A i \in attached \ todo : i \in addressed \cup skipped /\ \A j \in todo : i < j
         /\ \A i \in addressed \ todo : rule[i] # None
         /\ count = Cardinality((addressed \ todo) \cup (IF InWork THEN {Here} ELSE {}))
    /\ InWork => Here \in addressed /\ rule[Here] \in {None, OtherTable(Here)}

\* A rule leads to a whole table; whose number, if the script chose it, is the rank.
TablesOwn ==
  ~changed =>
    /\ \A i \in Cards : rule[i] # None =>
         /\ i \in addressed /\ net[rule[i]] = i /\ via[rule[i]] = i
         /\ rule[i] # OtherTable(i) =>
              /\ ran /\ rule[i] = Rank(i)
              /\ \A j \in attached : j < i => j \in addressed \cup skipped
    /\ pc \in {"default", "rule"} => net[count] = Here
    /\ pc = "rule" => via[count] = Here

\* After a complete run no card is left to set up.
AllSetUp == complete /\ ~changed => ~InWork /\ \A i \in addressed : rule[i] # None

IInv == TypeOK /\ Place /\ CountedSoFar /\ TablesOwn /\ AllSetUp

===============================================================================
