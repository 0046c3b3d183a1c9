--------------------------- MODULE ReportDelivery ---------------------------
(***************************************************************************)
(* From a market event to a report on the guard: the event inbox, the      *)
(* evaluation queue and the report queue of the builder service            *)
(* (event-delivery.ts), the bridge that has the reports sent by a CRE      *)
(* process (builder-cre-bridge.mjs), that process, and the guard           *)
(* (AquaGuard) it sends them to.                                           *)
(*                                                                         *)
(* Workers are many and alike: each step of an evaluation or a delivery is *)
(* one transaction or one external call, and what a worker remembers       *)
(* between two of them is a record in evals or sender.  A crash forgets    *)
(* it; the CRE process is detached and lives on.                           *)
(*                                                                         *)
(* Abstractions.  A subscription is enabled for a template instance        *)
(* without a wallet binding, so enabling it queues its first evaluation;   *)
(* paused and stopped are one state (not live).  market[s] is what an      *)
(* evaluation of s would say now: prices, balances, the Provider's policy  *)
(* and the outage flag.  Delays (available_at, next_attempt_at, the two    *)
(* confirmations) are arbitrary.  The chain does not reorganize a report.  *)
(***************************************************************************)
EXTENDS Naturals, Sequences, FiniteSets

CONSTANTS
  Owners,           \* Makers
  Strategies,       \* strategy hashes
  Owner,            \* the Maker of a strategy
  Terms,            \* what a report may say: directions and caps
  First,            \* what the market asks of every strategy at the start
  Prior,            \* what the guard was told earlier, by other means
  Sources,          \* the sources a Maker may subscribe to, or "*"
  MaxTries,         \* 3: evaluations of a job, starts of a delivery, reevaluations
  MaxSubs,          \* bound: subscriptions
  MaxMoves,         \* bound: changes of the market
  MaxFlips,         \* bound: revocations, set or cleared
  MaxFaults,        \* bound: crashes, lost leases, errors, reorganized events
  MaxInputs,        \* bound: all of these together
  None

ASSUME DeliveryAssumption ==
  /\ Owner \in [Strategies -> Owners]
  /\ {First, Prior} \subseteq Terms
  /\ Sources \subseteq {"*", "market"}
  /\ MaxTries \in Nat \ {0}
  /\ {MaxSubs, MaxMoves, MaxFlips, MaxFaults, MaxInputs} \subseteq Nat
  /\ None \notin Strategies

VARIABLES
  subs,             \* event_subscriptions, in order of creation
  events,           \* what the sources have to tell, and event_inbox
  jobs,             \* evaluation_jobs
  nonces,           \* maker_report_sequences
  deliveries,       \* report_deliveries, each with its cre_delivery_attempts row
  evals,            \* evaluations some worker is busy with
  sender,           \* where the worker that delivers it is, by delivery
  child,            \* where its CRE process is, by delivery
  pool,             \* deliveries whose transaction waits to be mined
  landed,           \* the guard's ReportAccepted log: deliveries in order
  report, active, revoked,  \* the guard's storage (AquaGuard)
  market,           \* the terms an evaluation would find now
  faults            \* faults so far

rows == <<subs, events, jobs, nonces, deliveries>>
chain == <<pool, landed, report, active, revoked>>
vars == <<rows, evals, sender, child, chain, market, faults>>

\* The delivery does not look at time, blocks and balances.
Guard == INSTANCE AquaGuard WITH
  Makers <- Owners, Signed <- {}, Envelope <- <<>>, Funding <- {}, Amounts <- {},
  MaxLifetime <- 600, MaxTime <- 0, now <- 0, aqua <- <<>>,
  latestReportBlock <- [m \in Owners |-> [s \in Strategies |-> 0]]

-----------------------------------------------------------------------------
(* Rows.                                                                   *)

Event(source, about, state, retry) ==
  [source |-> source, about |-> about, state |-> state, retry |-> retry]

Job(x, e) == [sub |-> x, event |-> e, state |-> "pending", tries |-> 0,
              leased |-> FALSE, reorged |-> FALSE]

Count(source) == Cardinality({e \in DOMAIN events : events[e].source = source})

\* The model's bound on what the surroundings do.
Within == Len(subs) + Count("market") + Count("maker") + faults < MaxInputs

Fault == Within /\ faults < MaxFaults /\ faults' = faults + 1

StrategyOf(d) == subs[deliveries[d].sub].strategy
OwnerOf(d) == Owner[StrategyOf(d)]

LiveSubs(o) == {x \in DOMAIN subs : subs[x].live /\ Owner[subs[x].strategy] = o}
Ready(x) == subs[x].live /\ subs[x].consented

Silenced(X) == [x \in DOMAIN subs |-> IF x \in X THEN [subs[x] EXCEPT !.live = FALSE] ELSE subs[x]]

\* cancelUnsentEventWork: jobs not finished and reports not claimed.
CancelledJobs(X) ==
  [j \in DOMAIN jobs |->
    IF jobs[j].sub \in X /\ jobs[j].state \in {"pending", "running"}
    THEN [jobs[j] EXCEPT !.state = "cancelled", !.leased = FALSE]
    ELSE jobs[j]]

CancelledReports(X) ==
  [d \in DOMAIN deliveries |->
    IF deliveries[d].sub \in X /\ deliveries[d].status = "pending"
    THEN [deliveries[d] EXCEPT !.status = "failed"]
    ELSE deliveries[d]]

-----------------------------------------------------------------------------
(* Subscriptions.                                                          *)

Enable(s, source) ==
  LET old == LiveSubs(Owner[s]) IN
  /\ Within /\ Len(subs) < MaxSubs
  /\ ~ \E x \in old : subs[x].strategy = s /\ subs[x].source = source /\ subs[x].consented
  /\ subs' = Append(Silenced(old), [strategy |-> s, source |-> source, live |-> TRUE,
                                    consented |-> TRUE, last |-> 0])
  /\ events' = Append(events, Event("activation", {s}, "canonical", 0))
  /\ jobs' = Append(CancelledJobs(old), Job(Len(subs) + 1, Len(events) + 1))
  /\ deliveries' = CancelledReports(old)
  /\ UNCHANGED <<nonces, evals, sender, child, chain, market, faults>>

\* stop, a revoked consent, a changed draft or a withdrawn template.
Stop(x) ==
  /\ subs[x].live
  /\ subs' = Silenced({x})
  /\ jobs' = CancelledJobs({x})
  /\ deliveries' = CancelledReports({x})
  /\ UNCHANGED <<events, nonces, evals, sender, child, chain, market, faults>>

\* The consent expires; nothing is told.
Lapse(x) ==
  /\ Ready(x)
  /\ Fault
  /\ subs' = [subs EXCEPT ![x].consented = FALSE]
  /\ UNCHANGED <<events, jobs, nonces, deliveries, evals, sender, child, chain, market>>

-----------------------------------------------------------------------------
(* Events.                                                                 *)

MoveMarket(s, t) ==
  /\ t # market[s]
  /\ Within /\ Count("market") < MaxMoves
  /\ market' = [market EXCEPT ![s] = t]
  /\ events' = Append(events, Event("market", {s}, "emitted", 0))
  /\ UNCHANGED <<subs, jobs, nonces, deliveries, evals, sender, child, chain, faults>>

Concerned(e) ==
  {x \in DOMAIN subs : /\ Ready(x)
                       /\ subs[x].source \in {"*", events[e].source}
                       /\ subs[x].strategy \in events[e].about}

Logs == {"guard", "maker"}

SameSource(e, k) ==
  events[e].source = events[k].source \/ {events[e].source, events[k].source} \subseteq Logs

\* One job for each subscription the event concerns.  A source is polled in order.
Ingest(e) ==
  /\ events[e].state \in {"emitted", "reorged"}
  /\ \A k \in 1 .. e - 1 : SameSource(e, k) => events[k].state = "canonical"
  /\ events' = [events EXCEPT ![e].state = "canonical"]
  /\ \E queue \in [1 .. Cardinality(Concerned(e)) -> Concerned(e)] :
       /\ \A i, k \in DOMAIN queue : i < k => queue[i] < queue[k]
       /\ jobs' = jobs \o [i \in DOMAIN queue |-> Job(queue[i], e)]
  /\ UNCHANGED <<subs, nonces, deliveries, evals, sender, child, chain, market, faults>>

\* The block of a log was replaced; what was computed from it is cancelled.
MarkReorg(e) ==
  /\ events[e].source = "market"
  /\ events[e].state = "canonical"
  /\ Fault
  /\ events' = [events EXCEPT ![e].state = "reorged"]
  /\ jobs' = [j \in DOMAIN jobs |->
       IF jobs[j].event = e /\ ~jobs[j].reorged
       THEN [jobs[j] EXCEPT !.reorged = TRUE, !.leased = FALSE,
               !.state = IF @ \in {"pending", "running"} THEN "cancelled" ELSE @]
       ELSE jobs[j]]
  /\ deliveries' = [d \in DOMAIN deliveries |->
       IF jobs[deliveries[d].job].event = e /\ deliveries[d].status = "pending"
       THEN [deliveries[d] EXCEPT !.status = "failed"]
       ELSE deliveries[d]]
  /\ UNCHANGED <<subs, nonces, evals, sender, child, chain, market>>

-----------------------------------------------------------------------------
(* Evaluations.                                                            *)

\* One evaluation of a subscription at a time, and only while it is live.
Claimable(j) ==
  /\ subs[jobs[j].sub].live
  /\ ~jobs[j].reorged
  /\ jobs[j].state \in {"pending", "running"} /\ ~jobs[j].leased
  /\ ~ \E k \in DOMAIN jobs : jobs[k].sub = jobs[j].sub /\ jobs[k].leased

\* A job that has not been tried and is not a reevaluation is available at once,
\* and the queue is ordered by that.
Prompt(j) == jobs[j].tries = 0 /\ events[jobs[j].event].retry = 0

Evaluation(j, token, at, terms, floor) ==
  [job |-> j, token |-> token, at |-> at, terms |-> terms, floor |-> floor]

ClaimEvaluation(j) ==
  /\ Claimable(j)
  /\ \A k \in 1 .. j - 1 : Claimable(k) => ~Prompt(k)
  /\ jobs' = [jobs EXCEPT ![j].state = "running", ![j].leased = TRUE, ![j].tries = @ + 1]
  /\ evals' = evals \cup {Evaluation(j, jobs[j].tries + 1, "claimed", First, 0)}
  /\ UNCHANGED <<subs, events, nonces, deliveries, sender, child, chain, market, faults>>

\* The event still stands.
Stands(j) == events[jobs[j].event].state = "canonical" /\ ~jobs[j].reorged

\* The event stands and the lease is still the evaluator's.
Holds(v) ==
  /\ Stands(v.job)
  /\ jobs[v.job].state = "running" /\ jobs[v.job].leased
  /\ jobs[v.job].tries = v.token

SubOf(v) == jobs[v.job].sub
Subject(v) == subs[SubOf(v)].strategy
IsRevoked(s) == revoked[Owner[s]][s]

Step(v, w) == evals' = (evals \ {v}) \cup {w}
Failing(v) == Evaluation(v.job, v.token, "failed", First, 0)
Unneeded(v) == Evaluation(v.job, v.token, "unchanged", First, 0)

\* The first transactions of evaluate, and the evaluation by a CRE process.
Simulate(v) ==
  /\ v.at = "claimed"
  /\ Holds(v)
  /\ Step(v, IF Ready(SubOf(v)) /\ ~IsRevoked(Subject(v))
             THEN [v EXCEPT !.at = "simulated", !.terms = market[Subject(v)]]
             ELSE Failing(v))
  /\ UNCHANGED <<rows, sender, child, chain, market, faults>>

StoredNonce(s) == Guard!Latest(Owner[s], s)

\* The guard says just these terms of s, and acts on them.
Effective(s, t) ==
  /\ \E r \in report[Owner[s]][s] : r.dirs = t.dirs /\ r.caps = t.caps
  /\ (active[Owner[s]] = s) = (t.dirs # {})

\* The guard is read after the evaluation.
Compare(v) ==
  /\ v.at = "simulated"
  /\ Step(v, IF IsRevoked(Subject(v)) THEN Failing(v)
             ELSE IF Effective(Subject(v), v.terms) THEN Unneeded(v)
             ELSE [v EXCEPT !.at = "changed", !.floor = StoredNonce(Subject(v))])
  /\ UNCHANGED <<rows, sender, child, chain, market, faults>>

\* Any call of the evaluation may fail.
EvaluationFails(v) ==
  /\ v.at \in {"claimed", "simulated"}
  /\ Holds(v)
  /\ Fault
  /\ Step(v, Failing(v))
  /\ UNCHANGED <<rows, sender, child, chain, market>>

\* The lease or the event was lost meanwhile: whatever was found is dropped.
Abandon(v) ==
  /\ ~Holds(v)
  /\ evals' = evals \ {v}
  /\ UNCHANGED <<rows, sender, child, chain, market, faults>>

\* The last report says the same and is not decided.
Repeats(v) ==
  LET d == subs[SubOf(v)].last IN
  /\ d # 0
  /\ deliveries[d].terms = v.terms
  /\ deliveries[d].status \in {"pending", "broadcast"}

Finished(v, state) == [jobs EXCEPT ![v.job].state = state, ![v.job].leased = FALSE]

Greater(a, b) == IF a < b THEN b ELSE a

NextNonce(v) == Greater(nonces[Subject(v)], v.floor) + 1

CompleteChanged(v) ==
  /\ v.at = "changed"
  /\ Holds(v)
  /\ ~Repeats(v)
  /\ nonces' = [nonces EXCEPT ![Subject(v)] = NextNonce(v)]
  /\ deliveries' = Append(deliveries,
       [sub |-> SubOf(v), job |-> v.job, terms |-> v.terms, nonce |-> NextNonce(v),
        status |-> "pending", tries |-> 0, attempt |-> "none"])
  /\ subs' = [subs EXCEPT ![SubOf(v)].last = Len(deliveries) + 1]
  /\ jobs' = Finished(v, "succeeded")
  /\ evals' = evals \ {v}
  /\ sender' = Append(sender, "none")
  /\ child' = Append(child, "none")
  /\ UNCHANGED <<events, chain, market, faults>>

CompleteUnchanged(v) ==
  /\ \/ v.at = "unchanged"
     \/ v.at = "changed" /\ Repeats(v)
  /\ Holds(v)
  /\ jobs' = Finished(v, "succeeded")
  /\ evals' = evals \ {v}
  /\ UNCHANGED <<subs, events, nonces, deliveries, sender, child, chain, market, faults>>

CompleteFailed(v) ==
  /\ v.at = "failed"
  /\ Holds(v)
  /\ jobs' = Finished(v, IF v.token >= MaxTries THEN "failed" ELSE "pending")
  /\ evals' = evals \ {v}
  /\ UNCHANGED <<subs, events, nonces, deliveries, sender, child, chain, market, faults>>

Attended(j) == \E v \in evals : v.job = j /\ v.token = jobs[j].tries

\* The lease of a dead worker ends, or that of a slow one.
ExpireLease(j) ==
  /\ jobs[j].leased
  /\ IF Attended(j) THEN Fault ELSE UNCHANGED faults
  /\ jobs' = [jobs EXCEPT ![j].leased = FALSE]
  /\ UNCHANGED <<subs, events, nonces, deliveries, evals, sender, child, chain, market>>

EvaluatorCrashes(v) ==
  /\ Fault
  /\ evals' = evals \ {v}
  /\ UNCHANGED <<rows, sender, child, chain, market>>

-----------------------------------------------------------------------------
(* Deliveries: the claim, the lane, the attempt.                           *)

SetStatus(d, status) == deliveries' = [deliveries EXCEPT ![d].status = status]
SetSender(d, at) == sender' = [sender EXCEPT ![d] = at]
SetChild(d, at) == child' = [child EXCEPT ![d] = at]

\* Defect: only the reports of one subscription are kept in order.
UnblockedInSub(d) ==
  \A c \in 1 .. d - 1 :
    deliveries[c].sub = deliveries[d].sub => deliveries[c].status \in {"accepted", "failed"}

\* An owner's reports go one by one, those of earlier subscriptions too.
Unblocked(d) ==
  \A c \in 1 .. d - 1 :
    OwnerOf(c) = OwnerOf(d) => deliveries[c].status \in {"accepted", "failed"}

ClaimDelivery(d) ==
  /\ deliveries[d].status = "pending"
  /\ Unblocked(d)
  /\ IF Stands(deliveries[d].job) /\ Ready(deliveries[d].sub)
     THEN /\ deliveries' = [deliveries EXCEPT ![d].status = "broadcast", ![d].tries = @ + 1]
          /\ SetSender(d, "claimed")
     ELSE SetStatus(d, "failed") /\ UNCHANGED sender
  /\ UNCHANGED <<subs, events, jobs, nonces, evals, child, chain, market, faults>>

LaneHolders == {d \in DOMAIN sender : sender[d] \in {"locked", "fenced", "running"}}

\* Defect: an attempt without an outcome is no obstacle.
LaneAlwaysFree == TRUE

LaneFree == \A d \in DOMAIN deliveries : deliveries[d].attempt # "started"

\* Defect: only the try is given back.
StillClaimed(row) == [row EXCEPT !.tries = @ - 1]

Deferred(row) ==
  IF row.status = "broadcast" THEN [row EXCEPT !.status = "pending", !.tries = @ - 1] ELSE row

\* pg_try_advisory_lock, held until the worker is done or dies, and under it the
\* look for an attempt without an outcome.  A busy lane defers the delivery.
Lock(d) ==
  /\ sender[d] = "claimed"
  /\ LaneHolders = {} /\ LaneFree
  /\ SetSender(d, "locked")
  /\ UNCHANGED <<rows, evals, child, chain, market, faults>>

Defer(d) ==
  /\ sender[d] = "claimed"
  /\ LaneHolders # {} \/ ~LaneFree
  /\ deliveries' = [deliveries EXCEPT ![d] = Deferred(@)]
  /\ SetSender(d, "none")
  /\ UNCHANGED <<subs, events, jobs, nonces, evals, child, chain, market, faults>>

Fit(d) ==
  /\ deliveries[d].status = "broadcast"
  /\ Ready(deliveries[d].sub)
  /\ ~IsRevoked(StrategyOf(d))

\* Everything is read again before the attempt is recorded.
Fence(d) ==
  /\ sender[d] = "locked"
  /\ Fit(d)
  /\ deliveries' = [deliveries EXCEPT ![d].attempt = "started"]
  /\ SetSender(d, "fenced")
  /\ UNCHANGED <<subs, events, jobs, nonces, evals, child, chain, market, faults>>

Unsent(row) ==
  IF row.status = "broadcast"
  THEN [row EXCEPT !.status = IF row.tries < MaxTries THEN "pending" ELSE "failed"]
  ELSE row

\* The subscription, its consent or the strategy is gone, or a call fails:
\* nothing was sent, the delivery may be tried again.
NotSent(d) ==
  /\ sender[d] = "locked"
  /\ IF Fit(d) THEN Fault ELSE UNCHANGED faults
  /\ deliveries' = [deliveries EXCEPT ![d] = Unsent(@)]
  /\ SetSender(d, "none")
  /\ UNCHANGED <<subs, events, jobs, nonces, evals, child, chain, market>>

Spawn(d) ==
  /\ sender[d] = "fenced"
  /\ SetSender(d, "running")
  /\ SetChild(d, "ready")
  /\ UNCHANGED <<rows, evals, chain, market, faults>>

\* The process could not be started, which is certain.
SpawnFails(d) ==
  /\ sender[d] = "fenced"
  /\ Fault
  /\ deliveries' = [deliveries EXCEPT ![d].attempt = "not started"]
  /\ SetSender(d, "none")
  /\ UNCHANGED <<subs, events, jobs, nonces, evals, child, chain, market>>

\* Defect: a process that was killed has sent nothing.
OutcomeIfKilled(d) ==
  CASE child[d] = "error" -> "not started"
    [] child[d] = "receipt" -> deliveries[d].attempt
    [] OTHER -> child[d]

Outcome(d) == IF child[d] \in {"stale", "effective"} THEN child[d] ELSE deliveries[d].attempt

\* The worker takes the result.  A transaction is proved later, from the chain.
Collect(d) ==
  /\ sender[d] = "running"
  /\ child[d] \in {"stale", "effective", "receipt", "error"}
  /\ deliveries' = [deliveries EXCEPT ![d].attempt = Outcome(d)]
  /\ SetSender(d, "none")
  /\ UNCHANGED <<subs, events, jobs, nonces, evals, child, chain, market, faults>>

SenderCrashes(d) ==
  /\ sender[d] # "none"
  /\ Fault
  /\ SetSender(d, "none")
  /\ UNCHANGED <<rows, evals, child, chain, market>>

-----------------------------------------------------------------------------
(* Reconciliation, by any worker.                                          *)

\* finish: the guard's log has the report.
Prove(d) ==
  /\ deliveries[d].status = "broadcast"
  /\ deliveries[d].attempt = "started"
  /\ \E i \in DOMAIN landed : landed[i] = d
  /\ deliveries' = [deliveries EXCEPT ![d].attempt = "accepted"]
  /\ UNCHANGED <<subs, events, jobs, nonces, evals, sender, child, chain, market, faults>>

\* acceptReceipt, after finish has verified the receipt (again).
Settle(d) ==
  /\ deliveries[d].status = "broadcast"
  /\ deliveries[d].attempt = "accepted"
  /\ SetStatus(d, "accepted")
  /\ UNCHANGED <<subs, events, jobs, nonces, evals, sender, child, chain, market, faults>>

CertainlyUnsent(d) == deliveries[d].attempt \in {"not started", "stale", "effective"}

Retry(d) == events[jobs[deliveries[d].job].event].retry + 1

\* Defect: a stale report just fails, as one that could not be started.
NeverAgain(d) == FALSE

Reevaluated(d) ==
  deliveries[d].attempt = "stale" /\ Ready(deliveries[d].sub) /\ Retry(d) <= MaxTries

\* A report that was not sent fails; a stale one is evaluated again.
Release(d) ==
  /\ deliveries[d].status = "broadcast"
  /\ CertainlyUnsent(d)
  /\ SetStatus(d, "failed")
  /\ IF Reevaluated(d)
     THEN /\ events' = Append(events, Event("retry", {StrategyOf(d)}, "canonical", Retry(d)))
          /\ jobs' = Append(jobs, Job(deliveries[d].sub, Len(events) + 1))
     ELSE UNCHANGED <<events, jobs>>
  /\ UNCHANGED <<subs, nonces, evals, sender, child, chain, market, faults>>

-----------------------------------------------------------------------------
(* The CRE process and the chain.                                          *)

\* The terms are computed again and must be the stored ones.
CheckTerms(d) ==
  /\ child[d] = "ready"
  /\ SetChild(d, IF market[StrategyOf(d)] = deliveries[d].terms THEN "checked" ELSE "stale")
  /\ UNCHANGED <<rows, evals, sender, chain, market, faults>>

\* Issued more than 300 seconds ago.
Expires(d) ==
  /\ child[d] = "ready"
  /\ Fault
  /\ SetChild(d, "stale")
  /\ UNCHANGED <<rows, evals, sender, chain, market>>

Outdated(d) == deliveries[d].nonce <= StoredNonce(StrategyOf(d))

Submit(d) ==
  /\ child[d] = "checked"
  /\ IF Effective(StrategyOf(d), deliveries[d].terms)
     THEN SetChild(d, "effective") /\ UNCHANGED pool
     ELSE IF Outdated(d) THEN SetChild(d, "stale") /\ UNCHANGED pool
     ELSE SetChild(d, "sent") /\ pool' = pool \cup {d}
  /\ UNCHANGED <<rows, evals, sender, landed, report, active, revoked, market, faults>>

\* The worker kills the process after its timeout.
Kill(d) ==
  /\ sender[d] = "running"
  /\ child[d] \in {"ready", "checked", "sent"}
  /\ Fault
  /\ SetChild(d, "error")
  /\ UNCHANGED <<rows, evals, sender, chain, market>>

Standing(s, nonce, t) ==
  [maker |-> Owner[s], strategy |-> s, schema |-> 2, nonce |-> nonce, after |-> 0,
   until |-> 0, dirs |-> t.dirs, sorted |-> TRUE, caps |-> t.caps]

Report(d) == Standing(StrategyOf(d), deliveries[d].nonce, deliveries[d].terms)
Earlier(s) == Standing(s, 1, Prior)

Answer(d, at) == child' = [child EXCEPT ![d] = IF @ = "sent" THEN at ELSE @]

\* A report tells those it makes active and those it replaces.
Mine(d) ==
  /\ d \in pool
  /\ Guard!OnReport(Report(d))
  /\ pool' = pool \ {d}
  /\ landed' = Append(landed, d)
  /\ Answer(d, "receipt")
  /\ events' = Append(events, Event("guard",
       {StrategyOf(d)} \cup (({active[OwnerOf(d)]} \cup {active'[OwnerOf(d)]}) \ {None}), "emitted", 0))
  /\ UNCHANGED <<subs, jobs, nonces, deliveries, evals, sender, market, faults>>

Refused(d) ==
  \/ IsRevoked(StrategyOf(d)) /\ deliveries[d].terms.dirs # {}
  \/ ~Guard!Newer(Report(d))

\* The forwarder's transaction is mined, the guard reverts.
Revert(d) ==
  /\ d \in pool
  /\ Refused(d)
  /\ pool' = pool \ {d}
  /\ Answer(d, "error")
  /\ UNCHANGED <<rows, evals, sender, landed, report, active, revoked, market, faults>>

\* The Maker revokes a strategy or clears the revocation.
Flip(s) ==
  /\ Within /\ Count("maker") < MaxFlips
  /\ Guard!SetStrategyRevoked(Owner[s], s, ~IsRevoked(s))
  /\ events' = Append(events, Event("maker", {s}, "emitted", 0))
  /\ UNCHANGED <<subs, jobs, nonces, deliveries, evals, sender, child, pool, landed, market, faults>>

-----------------------------------------------------------------------------
Init ==
  /\ subs = <<>> /\ events = <<>> /\ jobs = <<>> /\ deliveries = <<>>
  /\ nonces = [s \in Strategies |-> 0]
  /\ evals = {}
  /\ sender = <<>> /\ child = <<>>
  /\ pool = {} /\ landed = <<>>
  /\ report = [m \in Owners |-> [s \in Strategies |-> IF Owner[s] = m THEN {Earlier(s)} ELSE {}]]
  /\ active = [m \in Owners |-> None]
  /\ revoked = [m \in Owners |-> [s \in Strategies |-> FALSE]]
  /\ market = [s \in Strategies |-> First]
  /\ faults = 0

Maker ==
  \/ \E s \in Strategies, source \in Sources : Enable(s, source)
  \/ \E x \in DOMAIN subs : Stop(x) \/ Lapse(x)
  \/ \E s \in Strategies : Flip(s)

Inbox ==
  \/ \E s \in Strategies, t \in Terms : MoveMarket(s, t)
  \/ \E e \in DOMAIN events : Ingest(e) \/ MarkReorg(e)

Evaluate(v) ==
  \/ Simulate(v) \/ Compare(v) \/ Abandon(v)
  \/ CompleteChanged(v) \/ CompleteUnchanged(v) \/ CompleteFailed(v)

Evaluating ==
  \/ \E j \in DOMAIN jobs : ClaimEvaluation(j) \/ ExpireLease(j)
  \/ \E v \in evals : Evaluate(v) \/ EvaluationFails(v) \/ EvaluatorCrashes(v)

Deliver(d) ==
  \/ ClaimDelivery(d) \/ Lock(d) \/ Defer(d) \/ Fence(d) \/ Spawn(d) \/ Collect(d)
  \/ Prove(d) \/ Settle(d) \/ Release(d)
  \/ CheckTerms(d) \/ Submit(d) \/ Mine(d) \/ Revert(d)

\* Failures the service can tell from a report that may have been sent.
Fail(d) == NotSent(d) \/ SpawnFails(d) \/ Expires(d)

\* A worker that leaves a report behind.
Abort(d) == SenderCrashes(d) \/ Kill(d)

Steady == Maker \/ Inbox \/ Evaluating \/ \E d \in DOMAIN deliveries : Deliver(d) \/ Fail(d)

Next == Steady \/ \E d \in DOMAIN deliveries : Abort(d)

Spec == Init /\ [][Next]_vars

\* Workers poll for ever, a process ends, the chain mines, a lease runs out.
Fairness ==
  /\ WF_vars(\E e \in DOMAIN events : Ingest(e))
  /\ WF_vars(\E j \in DOMAIN jobs : ClaimEvaluation(j))
  /\ WF_vars(\E j \in DOMAIN jobs : ~Attended(j) /\ ExpireLease(j))
  /\ WF_vars(\E v \in evals : Evaluate(v))
  /\ WF_vars(\E d \in DOMAIN deliveries : ClaimDelivery(d))
  /\ WF_vars(\E d \in DOMAIN deliveries : Lock(d) \/ Defer(d))
  /\ WF_vars(\E d \in DOMAIN deliveries : Fence(d) \/ Spawn(d) \/ Collect(d))
  /\ WF_vars(\E d \in DOMAIN deliveries : ~Fit(d) /\ NotSent(d))
  /\ WF_vars(\E d \in DOMAIN deliveries : Prove(d) \/ Settle(d) \/ Release(d))
  /\ WF_vars(\E d \in DOMAIN deliveries : CheckTerms(d) \/ Submit(d) \/ Mine(d) \/ Revert(d))

FairSpec == Spec /\ Fairness
SteadySpec == Init /\ [][Steady]_vars /\ Fairness

-----------------------------------------------------------------------------
(* Properties.                                                             *)

Token == {0, 1}

Row == [sub : DOMAIN subs, job : DOMAIN jobs, terms : Terms, nonce : Nat \ {0},
        status : {"pending", "broadcast", "accepted", "failed"}, tries : 0 .. MaxTries,
        attempt : {"none", "started", "accepted", "not started", "stale", "effective"}]

\* The shapes of the tables, of the workers' memory and of the chain.
TypeOK ==
  /\ \A x \in DOMAIN subs :
       subs[x] \in [strategy : Strategies, source : Sources, live : BOOLEAN,
                    consented : BOOLEAN, last : 0 .. Len(deliveries)]
  /\ \A e \in DOMAIN events :
       events[e] \in [source : {"activation", "market", "guard", "maker", "retry"},
                      about : SUBSET Strategies, state : {"emitted", "canonical", "reorged"},
                      retry : 0 .. MaxTries]
  /\ \A j \in DOMAIN jobs :
       jobs[j] \in [sub : DOMAIN subs, event : DOMAIN events,
                    state : {"pending", "running", "succeeded", "failed", "cancelled"},
                    tries : Nat, leased : BOOLEAN, reorged : BOOLEAN]
  /\ nonces \in [Strategies -> Nat]
  /\ \A d \in DOMAIN deliveries : deliveries[d] \in Row
  /\ \A v \in evals :
       v \in [job : DOMAIN jobs, token : Nat, terms : Terms, floor : Nat,
              at : {"claimed", "simulated", "changed", "unchanged", "failed"}]
  /\ sender \in [DOMAIN deliveries -> {"none", "claimed", "locked", "fenced", "running"}]
  /\ child \in [DOMAIN deliveries -> {"none", "ready", "checked", "sent", "stale",
                                      "effective", "receipt", "error"}]
  /\ pool \subseteq DOMAIN deliveries
  /\ \A i \in DOMAIN landed : landed[i] \in DOMAIN deliveries
  /\ active \in [Owners -> Strategies \cup {None}]
  /\ market \in [Strategies -> Terms]

\* A delivery that may still reach the chain, or is on it.
Underway(d) == child[d] \in {"ready", "checked"} \/ d \in pool

Landed(d) == \E i \in DOMAIN landed : landed[i] = d

\* The broadcaster is never used for two reports at once, whatever workers
\* crash: also a process whose worker is gone has the lane.
LaneExclusive == \A c, d \in DOMAIN deliveries : Underway(c) /\ Underway(d) => c = d

\* What the service says of a report is so: one that is pending or failed is
\* not on the chain and never will be, one that is accepted is there.
OutcomeIsTrue ==
  \A d \in DOMAIN deliveries :
    /\ deliveries[d].status \in {"pending", "failed"} => ~Underway(d) /\ ~Landed(d)
    /\ deliveries[d].status = "accepted" => Landed(d)

\* A report lands only when every earlier report of its owner is decided, so
\* work of an earlier selection cannot come after that of a later one.
LandInTurn ==
  \A i \in DOMAIN landed : \A c \in 1 .. landed[i] - 1 :
    OwnerOf(c) = OwnerOf(landed[i]) => deliveries[c].status \in {"accepted", "failed"}

\* A nonce of a strategy is given out once, and later reports get higher ones,
\* whatever evaluations overlap, switch away and come back.
NoncesIncrease ==
  \A c, d \in DOMAIN deliveries :
    c < d /\ StrategyOf(c) = StrategyOf(d) => deliveries[c].nonce < deliveries[d].nonce

\* Reports reach the guard in the order in which their events were decided.
OrderIsKept == LandInTurn /\ NoncesIncrease

-----------------------------------------------------------------------------
\* Nothing is left to do: all is told, evaluated, decided and mined.
Quiet ==
  /\ \A e \in DOMAIN events : events[e].state = "canonical"
  /\ evals = {} /\ pool = {}
  /\ \A j \in DOMAIN jobs : jobs[j].state \notin {"pending", "running"}
  /\ \A d \in DOMAIN deliveries : deliveries[d].status \in {"accepted", "failed"}

\* A report that was never attempted, or once too often.
GivenUp(d) ==
  /\ deliveries[d].status = "failed"
  /\ \/ deliveries[d].attempt \in {"none", "not started"}
     \/ deliveries[d].attempt = "stale" /\ Retry(d) > MaxTries

\* The subscription's last evaluation succeeded, its last report was not given up.
Successful(x) ==
  /\ \A j \in DOMAIN jobs :
       jobs[j].sub = x /\ (\A k \in DOMAIN jobs : jobs[k].sub = x => k <= j)
         => jobs[j].state = "succeeded"
  /\ subs[x].last # 0 => ~GivenUp(subs[x].last)

\* Once there is nothing left to do, the guard says of a selected strategy what
\* its evaluation says: no switch, late report or lost lease leaves it behind.
Settled ==
  Quiet => \A x \in DOMAIN subs :
             Ready(x) /\ Successful(x) => Effective(subs[x].strategy, market[subs[x].strategy])

\* As long as no worker is lost in the middle of a delivery, everything is
\* evaluated, decided and mined in the end: no lane, queue or lease holds it up.
ComesToRest == <>[]Quiet

Claimed(d) ==
  /\ d \in DOMAIN deliveries
  /\ deliveries[d].status = "broadcast" /\ deliveries[d].attempt = "none"

\* A restart does not stop event processing: a report that was claimed is
\* attempted, put back or given up.
ClaimsResolve == \A d \in 1 .. MaxSubs : Claimed(d) ~> ~Claimed(d)
=============================================================================
