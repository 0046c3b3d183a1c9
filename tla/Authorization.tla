---------------------------- MODULE Authorization ---------------------------
(***************************************************************************)
(* The confidential workflow of workflow/market-maker-auth: it intersects  *)
(* a Provider's rules with a Maker's limits at the observed market         *)
(* (src/intersect.ts), and delivers the public report to the guard         *)
(* (guard-report/delivery.ts).  Runs of several triggers overlap; every    *)
(* read of the guard is a call of its own.                                 *)
(*                                                                         *)
(* Abstractions: amounts are small integers and a price is token1 per unit *)
(* of token0, so the scales of prices and decimals cancel; the uint128     *)
(* clamp is out of range.  Encryption, identity and schema checks that     *)
(* refuse a request before anything is read are not steps.                 *)
(***************************************************************************)
EXTENDS Naturals, Sequences, FiniteSets, Functions

CONSTANTS
  Runs,
  Strategies,
  Policy,       \* the Provider's secret of each strategy: rules and inventory
  Limits,       \* what Makers may have sealed
  Markets,      \* what may be observed: book, closes, traded minutes, balances
  MaxSpread, MinTraded,  \* data quality: 100 bps and 5 minutes in the code
  Bps,          \* 10000 in the code
  Scale,        \* 10^12 in the code
  MaxLifetime,  \* 600 seconds in the code
  MaxTime,      \* bound: the clock
  MaxNonce,     \* bound: nonces raised above a stored one (2^64 - 1 in the code)
  MaxClose,     \* bound: last closes the volatility is checked for
  None

VARIABLES now, market, stored, active, run

vars == <<now, market, stored, active, run>>

Tokens == {0, 1}
Lesser(a, b) == IF a < b THEN a ELSE b
Least(f, g) == [t \in Tokens |-> Lesser(f[t], g[t])]
Zero == [t \in Tokens |-> 0]

(***************************************************************************)
(* src/market-math.ts: the movement of the last closes, every rounding up. *)
(***************************************************************************)
Distance(a, b) == IF a < b THEN b - a ELSE a - b

CeilDiv(n, d) == (n + d - 1) \div d

\* Newton's iteration from above ends at the floor of the root.
Newton[root \in Nat, sum \in Nat] ==
  LET next == (root + sum \div root) \div 2 IN IF next < root THEN Newton[next, sum] ELSE root

CeilRoot(sum) ==
  LET root == IF sum <= 1 THEN sum ELSE Newton[(sum + 1) \div 2, sum]
  IN IF root * root < sum THEN root + 1 ELSE root

VolatilityBps(closes) ==
  LET r(i) == CeilDiv(Distance(closes[i], closes[i - 1]) * Scale, closes[i - 1])
  IN CeilDiv(CeilRoot(FoldFunction(+, 0, [i \in 2 .. Len(closes) |-> r(i) * r(i)])) * Bps, Scale)

(***************************************************************************)
(* The observation: acquired and checked by every node, and checked again  *)
(* after the nodes agreed; a market that fails is no market.               *)
(***************************************************************************)
Midpoint(m) == (m.bid + m.ask) \div 2
SpreadBps(m) == CeilDiv((m.ask - m.bid) * Bps, Midpoint(m))

WellObserved(m) ==
  /\ 0 < m.bid /\ m.bid <= m.ask /\ SpreadBps(m) <= MaxSpread
  /\ m.fresh /\ m.traded >= MinTraded

(***************************************************************************)
(* src/intersect.ts                                                        *)
(***************************************************************************)
Matches(w, m) == Midpoint(m) \in w.price /\ VolatilityBps(m.closes) \in w.volatility

\* The first rule whose conditions hold, None without one.
MatchRule(policy, m) ==
  LET fits == {i \in DOMAIN policy.rules : Matches(policy.rules[i].when, m)}
  IN IF fits = {} THEN None ELSE policy.rules[CHOOSE i \in fits : \A k \in fits : i <= k]

\* Defect: a value is rounded up to whole units.
RoundedUp(value, m) == (value + Midpoint(m) - 1) \div Midpoint(m)
Token1ValueToToken0(value, m) == value \div Midpoint(m)

\* Versions 1 and 2 are bounded in time; 2 and 3 are in values; 4 is a compiled envelope.
MakerMost(l, m) ==
  IF l.version \in {2, 3}
  THEN [t \in Tokens |-> IF t = 0 THEN Token1ValueToToken0(l.swapValue, m) ELSE l.swapValue]
  ELSE l.most

MakerPost(l, m) ==
  IF l.version = 4 THEN l.post
  ELSE LET share == (l.budget * l.shareBps) \div Bps
           value == IF l.version = 1 THEN share ELSE Lesser(share, l.token0Value)
       IN [t \in Tokens |-> IF t = 0 THEN Token1ValueToToken0(value, m) ELSE l.budget]

Standing(l) == l.version \in {3, 4}

\* Paying token t in is allowed while the rule lets the Maker take it and there is room.
ComputeAuthorization(policy, l, m, t) ==
  LET rule == MatchRule(policy, m)
      most == IF rule = None THEN Zero ELSE Least(rule.most, MakerMost(l, m))
      post == Least(policy.post, MakerPost(l, m))
      dirs == IF rule = None \/ \E k \in Tokens : most[k] = 0 THEN {}
              ELSE {k \in rule.allows : m.balance[k] < post[k]}
      ttl == Lesser(IF rule = None THEN MaxLifetime ELSE rule.ttl, Lesser(l.ttl, MaxLifetime))
  IN [nonce |-> t, after |-> t, standing |-> Standing(l), until |-> IF Standing(l) THEN 0 ELSE t + ttl,
      dirs |-> dirs, most |-> IF dirs = {} THEN Zero ELSE most, post |-> IF dirs = {} THEN Zero ELSE post]

\* What the compiled envelope of a builder draft leaves of a report.
ClampBuilderReport(r, l, m) ==
  LET most == Least(r.most, l.most)
      post == Least(r.post, l.post)
      dirs == IF \E t \in Tokens : most[t] = 0 THEN {} ELSE {t \in r.dirs : m.balance[t] < post[t]}
  IN [r EXCEPT !.dirs = dirs, !.most = IF dirs = {} THEN Zero ELSE most, !.post = IF dirs = {} THEN Zero ELSE post]

\* publicReportSchema, and what onReport refuses: an enabled report has four caps.
Valid(r) ==
  /\ r.dirs # {} => \A t \in Tokens : r.most[t] > 0 /\ r.post[t] > 0
  /\ IF r.standing THEN r.until = 0 ELSE r.until \in r.after + 1 .. r.after + MaxLifetime

Terms(r) == [standing |-> r.standing, until |-> r.until, dirs |-> r.dirs, most |-> r.most, post |-> r.post]
IsCurrent(r) == r.after <= now /\ (~r.standing => r.until > now)

(***************************************************************************)
(* A run                                                                   *)
(***************************************************************************)
Idle == [phase |-> "idle", strategy |-> None, limits |-> None, market |-> None, active |-> None, report |-> None]
Goes(x, phase) == run' = [run EXCEPT ![x].phase = phase]

Init ==
  /\ now = 1 /\ market \in Markets
  /\ stored = [s \in Strategies |-> None] /\ active = None
  /\ run = [x \in Runs |-> Idle]

\* acquireMarket, the secrets, the intersection; an invalid report fails the run.
Evaluate(x, s, l) ==
  /\ run[x] = Idle /\ WellObserved(market)
  /\ LET c == ComputeAuthorization(Policy[s], l, market, now)
         r == IF l.version = 4 /\ Valid(c) THEN ClampBuilderReport(c, l, market) ELSE c IN
     run' = [run EXCEPT ![x] = [phase |-> IF Valid(r) THEN "computed" ELSE "invalid", strategy |-> s,
                                limits |-> l, market |-> market, active |-> None, report |-> r]]
  /\ UNCHANGED <<now, market, stored, active>>

ReadActive(x) ==
  /\ run[x].phase = "computed" /\ IsCurrent(run[x].report)
  /\ run' = [run EXCEPT ![x].active = active,
                        ![x].phase = IF run[x].report.standing THEN "reading" ELSE "writing"]
  /\ UNCHANGED <<now, market, stored, active>>

\* sameStandingAuthorization: equal terms, and in force exactly when they allow a trade.
SameStanding(x, saved) ==
  /\ saved.standing /\ Terms(saved) = Terms(run[x].report)
  /\ (run[x].active = run[x].strategy) <=> (saved.dirs # {})

\* getReport: nothing to do, or the nonce is raised above the stored one; a builder's
\* report keeps the nonce it was prepared with.
ReadReport(x) ==
  LET s == run[x].strategy saved == stored[s] IN
  /\ run[x].phase = "reading"
  /\ IF saved = None THEN Goes(x, "writing")
     ELSE IF SameStanding(x, saved) THEN Goes(x, "unchanged")
     ELSE IF run[x].limits.version = 4 /\ run[x].report.nonce <= saved.nonce THEN Goes(x, "stale")
     ELSE /\ saved.nonce < MaxNonce
          /\ run' = [run EXCEPT ![x].phase = "writing",
                                  ![x].report.nonce = IF @ <= saved.nonce THEN saved.nonce + 1 ELSE @]
  /\ UNCHANGED <<now, market, stored, active>>

\* writeReport: the forwarder's transaction; the guard takes a later nonce only.
Write(x) ==
  LET s == run[x].strategy r == run[x].report IN
  /\ run[x].phase = "writing"
  /\ IF IsCurrent(r) /\ (stored[s] = None \/ stored[s].nonce < r.nonce)
     THEN /\ stored' = [stored EXCEPT ![s] = r]
          /\ active' = IF r.dirs # {} THEN s ELSE IF active = s THEN None ELSE active
          /\ Goes(x, "written")
     ELSE UNCHANGED <<stored, active>> /\ Goes(x, "failed")
  /\ UNCHANGED <<now, market>>

\* Defect: a successful receipt is taken for the stored report.
ReceiptOnly(x) == TRUE
ReadsBack(x) == stored[run[x].strategy] = run[x].report

ReadBack(x) ==
  /\ run[x].phase = "written"
  /\ Goes(x, IF ReadsBack(x) THEN "accepted" ELSE "failed")
  /\ UNCHANGED <<now, market, stored, active>>

\* The trigger's result is logged; a call that fails ends the run wherever it is.
End(x) ==
  /\ run[x] # Idle
  /\ run' = [run EXCEPT ![x] = Idle]
  /\ UNCHANGED <<now, market, stored, active>>

Tick ==
  /\ now < MaxTime /\ now' = now + 1 /\ market' \in Markets
  /\ UNCHANGED <<stored, active, run>>

Next ==
  \/ Tick
  \/ \E x \in Runs :
       \/ ReadActive(x) \/ ReadReport(x) \/ Write(x) \/ ReadBack(x) \/ End(x)
       \/ \E s \in Strategies, l \in Limits : Evaluate(x, s, l)

Spec == Init /\ [][Next]_vars

(***************************************************************************)
(* Properties                                                              *)
(***************************************************************************)
Sums == [Tokens -> Nat]
Reports == [nonce : Nat, after : Nat, standing : BOOLEAN, until : Nat, dirs : SUBSET Tokens, most : Sums, post : Sums]
Phases == {"idle", "invalid", "computed", "reading", "writing", "written", "accepted", "unchanged", "stale", "failed"}

\* The types of the guard's reports and of the runs.
TypeOK ==
  /\ now \in 1 .. MaxTime /\ market \in Markets
  /\ \A s \in Strategies : stored[s] = None \/ stored[s] \in Reports
  /\ active \in Strategies \cup {None}
  /\ \A x \in Runs :
       /\ run[x].phase \in Phases
       /\ run[x] # Idle => /\ run[x].report \in Reports /\ run[x].limits \in Limits
                           /\ run[x].strategy \in Strategies

\* The value of an amount of token t, in token1, at a market's price.
Worth(amount, t, m) == IF t = 0 THEN amount * Midpoint(m) ELSE amount

\* A report for limits l computed at market m, under the secret p.
Bounded(r, l, m, p) ==
  /\ \E i \in DOMAIN p.rules :
       /\ Matches(p.rules[i].when, m) /\ \A k \in 1 .. i - 1 : ~Matches(p.rules[k].when, m)
       /\ r.dirs \subseteq p.rules[i].allows
       /\ \A t \in Tokens : r.most[t] <= p.rules[i].most[t] /\ r.post[t] <= p.post[t]
       /\ r.standing \/ r.until - r.after <= p.rules[i].ttl
  /\ \A t \in Tokens :
       /\ IF l.version \in {2, 3} THEN Worth(r.most[t], t, m) <= l.swapValue ELSE r.most[t] <= l.most[t]
       /\ IF l.version = 4 THEN r.post[t] <= l.post[t] ELSE Worth(r.post[t], t, m) <= l.budget
       /\ t \in r.dirs => m.balance[t] < r.post[t]
  /\ l.version # 4 => Worth(r.post[0], 0, m) * Bps <= l.budget * l.shareBps
  /\ l.version \in {2, 3} => Worth(r.post[0], 0, m) <= l.token0Value
  /\ IF l.version \in {3, 4} THEN r.standing ELSE r.until - r.after <= l.ttl

\* Neither side is exceeded: whatever a run authorizes lies within a rule of the
\* Provider that holds at its market and, valued at that market, within what the Maker
\* sealed; it leaves room in the balances it was computed from and ends in time.
AuthorizationIsBounded ==
  \A x \in Runs : run[x].phase # "idle" /\ run[x].report.dirs # {} =>
    Bounded(run[x].report, run[x].limits, run[x].market, Policy[run[x].strategy])

\* "integer arithmetic cannot understate the result": whatever the market's last close
\* is, the square of the volatility is at least the sum of the squared returns, taken
\* without any rounding.
VolatilityIsNotUnderstated ==
  \A c \in 1 .. MaxClose :
    LET a == market.closes[1] b == market.closes[2] v == VolatilityBps(<<a, b, c>>)
        first == Distance(b, a) * b second == Distance(c, b) * a
    IN v * v * a * a * b * b >= Bps * Bps * (first * first + second * second)

\* Of every step. What a run answers is what the guard holds when it answers: the report itself after
\* a write, the same terms after none, whichever runs wrote in between.
AnswerIsInForce ==
  \A x \in Runs : run'[x].phase \in {"accepted", "unchanged"} /\ run[x].phase # run'[x].phase =>
    LET saved == stored'[run[x].strategy] IN
    /\ saved # None /\ Terms(saved) = Terms(run[x].report)
    /\ run'[x].phase = "accepted" => saved = run[x].report

--------------------------------------------------------------------------------
\* What holds for any secrets, limits and markets of the shapes the schemas admit.
Conditions == [price : SUBSET Nat, volatility : SUBSET Nat]
Rules == [when : Conditions, allows : SUBSET Tokens, most : Sums, ttl : Nat]
LimitsAreTyped(l) ==
  /\ l.version \in 1 .. 4
  /\ l.version \in {1, 4} => l.most \in Sums
  /\ IF l.version = 4 THEN l.post \in Sums ELSE l.budget \in Nat /\ l.shareBps \in 0 .. Bps
  /\ l.version \in {2, 3} => l.token0Value \in Nat /\ l.swapValue \in Nat
  /\ l.version \in {1, 2} => l.ttl \in Nat
InputsAreTyped ==
  /\ \A s \in Strategies : Policy[s] \in [rules : Seq(Rules), post : Sums]
  /\ \A l \in Limits : LimitsAreTyped(l)
  /\ Markets \subseteq [bid : Nat, ask : Nat, fresh : BOOLEAN, traded : Nat, closes : Seq(Nat), balance : Sums]
  /\ Bps \in Nat \ {0} /\ MaxLifetime \in Nat /\ MaxTime \in Nat \ {0}
  /\ None \notin Reports /\ None \notin Strategies

Computed(x) ==
  /\ run[x].report \in Reports /\ run[x].limits \in Limits /\ run[x].strategy \in Strategies
  /\ run[x].report.dirs # {} =>
       Bounded(run[x].report, run[x].limits, run[x].market, Policy[run[x].strategy])

RunsInv ==
  /\ now \in 1 .. MaxTime /\ market \in Markets
  /\ stored \in [Strategies -> Reports \cup {None}] /\ active \in Strategies \cup {None}
  /\ DOMAIN run = Runs
  /\ \A x \in Runs :
       /\ run[x] \in [phase : Phases, strategy : Strategies \cup {None}, limits : Limits \cup {None},
                       market : Markets \cup {None}, active : Strategies \cup {None},
                       report : Reports \cup {None}]
       /\ run[x] = Idle \/ (run[x].phase # "idle" /\ Computed(x))
=============================================================================
