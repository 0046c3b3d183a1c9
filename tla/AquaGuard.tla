------------------------------ MODULE AquaGuard ------------------------------
(***************************************************************************)
(* The on-chain guard (AquaGuardV2.sol): workflow reports say for each     *)
(* maker and strategy in which directions, for how much and for how long   *)
(* it may trade; the maker may revoke a strategy; every swap of a guarded  *)
(* strategy asks the guard.                                                *)
(*                                                                         *)
(* Reports reach the guard through a forwarder that may deliver any signed *)
(* report at any time, several times and in any order: Signed is the set   *)
(* of reports that exist, well formed or not.  A call of onReport that     *)
(* reverts (wrong caller, workflow, domain or form, stale, replayed)       *)
(* changes nothing and is not a step.                                      *)
(*                                                                         *)
(* Abstractions.  A block is a unit of time, so block.number and           *)
(* block.timestamp are one clock.  Tokens are named by their place in the  *)
(* program's envelope, 0 or 1; a direction is the token paid in.  Equal    *)
(* reports are those with equal digests.  The price is not modelled: a     *)
(* swap exchanges any amounts the guard lets through.                      *)
(***************************************************************************)
EXTENDS Integers

CONSTANTS
  Makers,
  Strategies,       \* strategy (order) hashes
  Signed,           \* the reports the workflow has signed or will sign
  Envelope,         \* the caps compiled into the program of a strategy
  Funding,          \* the balances a maker may ship
  Amounts,          \* the amounts of a swap
  MaxLifetime,      \* MAX_REPORT_LIFETIME: 600 seconds
  MaxTime,          \* bound: the last block of the model
  None

Tokens == {0, 1}
Balances == [Tokens -> Nat]

\* most: what one swap may move of each token; post: what it may leave.
Caps == [most : Balances, post : Balances]

Report == [maker : Makers, strategy : Strategies, schema : Nat, nonce : Nat,
           after : Nat, until : Nat, dirs : SUBSET Tokens, sorted : BOOLEAN, caps : Caps]

ASSUME GuardAssumption ==
  /\ None \notin Strategies
  /\ Signed \subseteq Report
  /\ Envelope \in [Strategies -> Caps]
  /\ Funding \subseteq Balances
  /\ Amounts \subseteq Nat \ {0}
  /\ MaxLifetime \in Nat
  /\ MaxTime \in Nat

VARIABLES
  report,           \* reports[maker][strategyHash], as a set: empty or one report
  latestReportBlock,
  active,           \* activeStrategyHash[maker], None for zero
  revoked,          \* strategyRevoked[maker][strategyHash]
  now,              \* block.timestamp
  aqua              \* rawBalances[maker][strategyHash]: tokensCount and balances

vars == <<report, latestReportBlock, active, revoked, now, aqua>>

-----------------------------------------------------------------------------
(* onReport and setStrategyRevoked.                                        *)

Enabled(r) == r.dirs # {}

WellFormed(r) ==
  /\ r.schema \in {1, 2}
  /\ r.nonce > 0
  /\ Enabled(r) => \A t \in Tokens : r.caps.most[t] > 0 /\ r.caps.post[t] > 0

\* Schema 1 is a bounded lease, schema 2 a standing authorization.
Timely(r) ==
  /\ r.after <= now
  /\ IF r.schema = 2
     THEN r.until = 0
     ELSE r.until > now /\ r.until - r.after <= MaxLifetime

\* Defect: a replay of the stored report passes for a new one.
NotOlder(r) == \A old \in report[r.maker][r.strategy] : r.nonce >= old.nonce

\* An exact replay returns early, an older or a reused nonce reverts.
Newer(r) == \A old \in report[r.maker][r.strategy] : r.nonce > old.nonce

\* Defect: a paused report leaves its strategy active.
ActiveUnlessEnabled(r) == IF Enabled(r) THEN r.strategy ELSE active[r.maker]

ActiveAfter(r) ==
  IF Enabled(r) THEN r.strategy
  ELSE IF active[r.maker] = r.strategy THEN None ELSE active[r.maker]

OnReport(r) ==
  /\ WellFormed(r)
  /\ Timely(r)
  /\ Enabled(r) => ~revoked[r.maker][r.strategy]
  /\ Newer(r)
  /\ report' = [report EXCEPT ![r.maker][r.strategy] = {r}]
  /\ latestReportBlock' = [latestReportBlock EXCEPT ![r.maker][r.strategy] = now]
  /\ active' = [active EXCEPT ![r.maker] = ActiveAfter(r)]
  /\ UNCHANGED <<revoked, now, aqua>>

\* Defect: revocation stops later reports but not the current one.
RevokedLater(m, s) == active[m]

ActiveUnder(m, s) == IF active[m] = s THEN None ELSE active[m]

SetStrategyRevoked(m, s, flag) ==
  /\ revoked' = [revoked EXCEPT ![m][s] = flag]
  /\ active' = [active EXCEPT ![m] = IF flag THEN ActiveUnder(m, s) ELSE @]
  /\ UNCHANGED <<report, latestReportBlock, now, aqua>>

-----------------------------------------------------------------------------
(* extruction: the check inside a swap, and the swap it lets through.      *)

Other(t) == 1 - t
Smaller(a, b) == IF a < b THEN a ELSE b

Cap(r, s, kind, t) == Smaller(r.caps[kind][t], Envelope[s][kind][t])

Current(r) ==
  /\ now >= r.after
  /\ r.schema = 1 => now < r.until

After(m, s, tokenIn, paid, taken) ==
  [t \in Tokens |-> IF t = tokenIn THEN aqua[m][s].balance[t] + paid
                    ELSE aqua[m][s].balance[t] - taken]

Covers(m, s, t, amount) ==
  /\ aqua[m][s].count = 2
  /\ amount <= aqua[m][s].balance[t]

Extruction(m, s, r, tokenIn, paid, taken) ==
  /\ r \in report[m][s]
  /\ active[m] = s
  /\ Current(r)
  /\ r.sorted
  /\ tokenIn \in r.dirs
  /\ paid <= Cap(r, s, "most", tokenIn)
  /\ taken <= Cap(r, s, "most", Other(tokenIn))
  /\ Covers(m, s, Other(tokenIn), taken)
  /\ \A t \in Tokens : After(m, s, tokenIn, paid, taken)[t] <= Cap(r, s, "post", t)

Swap(m, s, r, tokenIn, paid, taken) ==
  /\ Extruction(m, s, r, tokenIn, paid, taken)
  /\ aqua' = [aqua EXCEPT ![m][s].balance = After(m, s, tokenIn, paid, taken)]
  /\ UNCHANGED <<report, latestReportBlock, active, revoked, now>>

-----------------------------------------------------------------------------
(* Aqua and the chain (outside src).                                       *)

Ship(m, s, funds) ==
  /\ aqua[m][s].count = 0
  /\ aqua' = [aqua EXCEPT ![m][s] = [count |-> 2, balance |-> funds]]
  /\ UNCHANGED <<report, latestReportBlock, active, revoked, now>>

Dock(m, s) ==
  /\ aqua[m][s].count = 2
  /\ aqua' = [aqua EXCEPT ![m][s] = [count |-> 255, balance |-> [t \in Tokens |-> 0]]]
  /\ UNCHANGED <<report, latestReportBlock, active, revoked, now>>

NextBlock ==
  /\ now < MaxTime
  /\ now' = now + 1
  /\ UNCHANGED <<report, latestReportBlock, active, revoked, aqua>>

-----------------------------------------------------------------------------
Init ==
  /\ report = [m \in Makers |-> [s \in Strategies |-> {}]]
  /\ latestReportBlock = [m \in Makers |-> [s \in Strategies |-> 0]]
  /\ active = [m \in Makers |-> None]
  /\ revoked = [m \in Makers |-> [s \in Strategies |-> FALSE]]
  /\ now = 0
  /\ aqua = [m \in Makers |-> [s \in Strategies |->
               [count |-> 0, balance |-> [t \in Tokens |-> 0]]]]

Trade ==
  \E m \in Makers, s \in Strategies, t \in Tokens, paid, taken \in Amounts :
    \E r \in report[m][s] : Swap(m, s, r, t, paid, taken)

Next ==
  \/ \E r \in Signed : OnReport(r)
  \/ \E m \in Makers, s \in Strategies, flag \in BOOLEAN : SetStrategyRevoked(m, s, flag)
  \/ Trade
  \/ \E m \in Makers, s \in Strategies, funds \in Funding : Ship(m, s, funds)
  \/ \E m \in Makers, s \in Strategies : Dock(m, s)
  \/ NextBlock

Spec == Init /\ [][Next]_vars

-----------------------------------------------------------------------------
(* Properties.                                                             *)

\* The shapes of the contract's storage, and at most one report per strategy.
TypeOK ==
  /\ report \in [Makers -> [Strategies -> SUBSET Signed]]
  /\ \A m \in Makers, s \in Strategies : \A p, q \in report[m][s] : p = q
  /\ latestReportBlock \in [Makers -> [Strategies -> Nat]]
  /\ active \in [Makers -> Strategies \cup {None}]
  /\ revoked \in [Makers -> [Strategies -> BOOLEAN]]
  /\ now \in Nat
  /\ aqua \in [Makers -> [Strategies -> [count : {0, 2, 255}, balance : Balances]]]

\* Whatever order reports and revocations arrive in, an active strategy has a
\* stored report that enables it and is not revoked by its maker.
ActiveIsAuthorized ==
  \A m \in Makers, s \in Strategies :
    active[m] = s => ~revoked[m][s] /\ \E r \in report[m][s] : Enabled(r)

Latest(m, s) == IF report[m][s] = {} THEN 0 ELSE (CHOOSE r \in report[m][s] : TRUE).nonce

\* "Clearing revocation does not reactivate an old report": a strategy becomes
\* active only by a report newer than every report accepted for it.
ActivationNeedsFreshReport ==
  [][\A m \in Makers, s \in Strategies :
       active'[m] = s /\ active[m] # s => Latest(m, s)' > Latest(m, s)]_vars

\* The balances of a live strategy changed without the maker's doing.
Traded(m, s) ==
  /\ aqua[m][s].count = 2
  /\ aqua'[m][s].count = 2
  /\ aqua'[m][s] # aqua[m][s]

\* A maker's revocation stops the strategy at once and until the maker clears
\* it and a fresh report arrives, whatever the forwarder delivers meanwhile.
RevokedNeverTrades ==
  [][\A m \in Makers, s \in Strategies : Traded(m, s) => ~revoked[m][s]]_vars

\* A bounded lease is over MaxLifetime after its acceptance, even if it was
\* dated into the past or delivered late.
LeasesEnd ==
  [][\A m \in Makers, s \in Strategies : Traded(m, s) =>
       \A r \in report[m][s] :
         r.schema = 1 => now - latestReportBlock[m][s] < MaxLifetime]_vars

\* However reports change between swaps, no swap leaves more of a token than
\* the maker's own envelope allows.
EnvelopeHolds ==
  [][\A m \in Makers, s \in Strategies : Traded(m, s) =>
       \A t \in Tokens : aqua'[m][s].balance[t] <= Envelope[s].post[t]]_vars

\* What a maker relies on for every swap: nothing trades after a revocation or past
\* the end of a lease, and the envelope holds.
SwapsAreAuthorized == RevokedNeverTrades /\ LeasesEnd /\ EnvelopeHolds
=============================================================================
