------------------------------ MODULE AquaGuardV1 ------------------------------
(***************************************************************************)
(* The first guard contract: bounded reports only, stored per maker and     *)
(* strategy by nonce, without revocation and without an active strategy.    *)
(* A production deployment accepts the reports of one workflow through the  *)
(* forwarder, a simulation deployment whatever the forwarder brings.        *)
(***************************************************************************)
EXTENDS Naturals, FiniteSets

CONSTANTS Strategies,  \* <<maker, order hash>> pairs
          Workflows,   \* workflow id and owner of a delivery's metadata
          Workflow,    \* the one a production guard is bound to
          Reports,     \* [strategy, nonce, after, until, dirs, pair, most, post, digest]
          Pair,        \* the token pair in the programs' envelope
          Most, Post,  \* the envelope's caps of both tokens
          Start,       \* balance of each token at the beginning
          MaxLifetime, \* 600 seconds
          MaxTime, MaxSwaps

VARIABLES simulationMode, now, stored, seen, balance, swaps

vars == <<simulationMode, now, stored, seen, balance, swaps>>
Tokens == {0, 1}

Init == /\ simulationMode \in BOOLEAN /\ now = 0 /\ swaps = 0
        /\ stored = [s \in Strategies |-> {}] /\ seen = {}
        /\ balance = [s \in Strategies |-> [t \in Tokens |-> Start]]

Authentic(w) == simulationMode \/ w = Workflow
WellFormed(r) == /\ r.nonce > 0
                 /\ r.dirs # {} => r.most > 0 /\ r.post > 0
Timely(r) == r.after <= now /\ now < r.until /\ r.until - r.after <= MaxLifetime
\* Defect: another report of the stored nonce passes for its replay.
NotOlder(r) == \A old \in stored[r.strategy] : r.nonce >= old.nonce
Newer(r) == \A old \in stored[r.strategy] : r.nonce > old.nonce

\* An exact replay returns without a change; every other refusal reverts.
OnReport(r, w) ==
  /\ Authentic(w) /\ WellFormed(r) /\ Timely(r) /\ Newer(r)
  /\ stored' = [stored EXCEPT ![r.strategy] = {r}]
  /\ seen' = seen \union {<<r, w>>}
  /\ UNCHANGED <<simulationMode, now, balance, swaps>>

Lesser(a, b) == IF a < b THEN a ELSE b
After(s, tokenIn, paid, taken) ==
  [t \in Tokens |-> IF t = tokenIn THEN balance[s][t] + paid ELSE balance[s][t] - taken]
Current(r) == r.after <= now /\ now < r.until
Within(r, s, tokenIn, paid, taken) ==
  /\ paid <= Lesser(r.most, Most) /\ taken <= Lesser(r.most, Most)
  /\ \A t \in Tokens : After(s, tokenIn, paid, taken)[t] <= Lesser(r.post, Post)

\* The router's static call inside an exact-in swap of positive amounts.
Swap(s, tokenIn, paid, taken) ==
  /\ swaps < MaxSwaps /\ paid > 0 /\ taken > 0 /\ taken <= balance[s][1 - tokenIn]
  /\ \E r \in stored[s] : /\ Current(r) /\ r.pair = Pair /\ tokenIn \in r.dirs
                          /\ Within(r, s, tokenIn, paid, taken)
  /\ balance' = [balance EXCEPT ![s] = After(s, tokenIn, paid, taken)]
  /\ swaps' = swaps + 1
  /\ UNCHANGED <<simulationMode, now, stored, seen>>

Tick == /\ now < MaxTime /\ now' = now + 1
        /\ UNCHANGED <<simulationMode, stored, seen, balance, swaps>>

Next == \/ \E r \in Reports, w \in Workflows : OnReport(r, w)
        \/ \E s \in Strategies, t \in Tokens, paid, taken \in 1 .. Most + 1 : Swap(s, t, paid, taken)
        \/ Tick

Spec == Init /\ [][Next]_vars

TypeOK == /\ now \in 0 .. MaxTime /\ \A s \in Strategies : Cardinality(stored[s]) <= 1

\* The forwarder may bring reports late, twice and in any order: what is in
\* force for a strategy is always the newest report that was ever accepted for
\* it, a nonce stands for one report, and on a production guard every report
\* is the bound workflow's.  A widened or re-enabled authorization is
\* therefore never an older report coming back.
NewestInForce ==
  /\ \A a, b \in seen : a[1].strategy = b[1].strategy /\ a[1].nonce = b[1].nonce => a[1] = b[1]
  /\ \A a \in seen : \E r \in stored[a[1].strategy] : a[1].nonce <= r.nonce
  /\ ~simulationMode => \A a \in seen : a[2] = Workflow
-----------------------------------------------------------------------------
(* What makes it inductive.                                                *)

\* The reports that exist name strategies that exist.
Assigned == \A r \in Reports : r.strategy \in Strategies /\ r.nonce \in Nat

\* Every log has a report in force that is no older, and both are reports that exist.
Known ==
  /\ seen \subseteq Reports \X Workflows
  /\ DOMAIN stored = Strategies
  /\ \A s \in Strategies : stored[s] \subseteq Reports

\* One report per strategy, and a clock within its bound.
Single == now \in 0 .. MaxTime /\ \A s \in Strategies : \A p, q \in stored[s] : p = q

InForceInv == Known /\ Single /\ NewestInForce
=============================================================================
