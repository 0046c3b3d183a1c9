------------------------ MODULE ReportDeliveryProofs ------------------------
(***************************************************************************)
(* What ReportDelivery guarantees for any Makers, strategies, workers and  *)
(* bounds, whatever crashes.  The argument has three parts.                *)
(*                                                                         *)
(* TypeInv: rows are well-formed and refer to rows that exist.             *)
(*                                                                         *)
(* With it every step is one of three (RowSteps, DeliverLives): one that   *)
(* only cancels reports nobody has claimed (RowsOnly), one that appends a  *)
(* report (Reported), or one in the life of one delivery (Lives).  Four    *)
(* invariants follow from these three instead of from each action:         *)
(*                                                                         *)
(*   Agreement  a delivery's row, attempt, worker, process and transaction *)
(*              agree; hence OutcomeIsTrue;                                *)
(*   Lane       one worker has the lock, no attempt is open when it gets   *)
(*              it, so one attempt at most is open; hence LaneExclusive;   *)
(*   InOrder    a claimed report has all earlier ones of its owner         *)
(*              decided; hence LandInTurn;                                 *)
(*   Numbered   no nonce is above the sequence's; hence NoncesIncrease.    *)
(*                                                                         *)
(* The last part (from Newest on) is about what is left when everything is *)
(* done, hence Settled.  Settling says of each subscription that hears of  *)
(* everything: whoever evaluates its newest job knows what the market and  *)
(* the guard say, and once that job has succeeded the guard says what it   *)
(* should, or a report that will say so is on its way (InLine).  It needs  *)
(* one evaluator a subscription (Leases), its last report to be its own    *)
(* (Books), and a report that landed but is not decided to be in effect    *)
(* still (Answered), which InOrder and Agreement give: no other report of  *)
(* the owner lands before it is decided.  All but a revocation taken back: *)
(* hence RevocationsStand.                                                 *)
(***************************************************************************)
EXTENDS ReportDelivery, FiniteSetTheorems, SequenceTheorems, TLAPS

-----------------------------------------------------------------------------
(* The invariant of the types.                                             *)

SubRow == [strategy : Strategies, source : Sources, live : BOOLEAN, consented : BOOLEAN,
           last : Nat]

EventRow == [source : {"activation", "market", "guard", "maker", "retry"},
             about : SUBSET Strategies, state : {"emitted", "canonical", "reorged"},
             retry : 0 .. MaxTries]

JobRow == [sub : Nat, event : Nat,
           state : {"pending", "running", "succeeded", "failed", "cancelled"},
           tries : Nat, leased : BOOLEAN, reorged : BOOLEAN]

DeliveryRow ==
  [sub : Nat, job : Nat, terms : Terms, nonce : Nat \ {0},
   status : {"pending", "broadcast", "accepted", "failed"}, tries : 0 .. MaxTries,
   attempt : {"none", "started", "accepted", "not started", "stale", "effective"}]

EvalRow == [job : Nat, token : Nat, terms : Terms, floor : Nat,
            at : {"claimed", "simulated", "changed", "unchanged", "failed"}]

Places == {"none", "claimed", "locked", "fenced", "running"}
Stages == {"none", "ready", "checked", "sent", "stale", "effective", "receipt", "error"}

Reports == {Standing(s, n, t) : s \in Strategies, n \in Nat, t \in Terms}

\* The tables and lists, each by itself.
Rows ==
  /\ subs \in Seq(SubRow) /\ events \in Seq(EventRow) /\ jobs \in Seq(JobRow)
  /\ deliveries \in Seq(DeliveryRow)
  /\ nonces \in [Strategies -> Nat]

Workers ==
  /\ evals \in SUBSET EvalRow
  /\ sender \in Seq(Places) /\ Len(sender) = Len(deliveries)
  /\ child \in Seq(Stages) /\ Len(child) = Len(deliveries)

OnChain ==
  /\ pool \in SUBSET DOMAIN deliveries
  /\ landed \in Seq(Nat)
  /\ report \in [Owners -> [Strategies -> SUBSET Reports]]
  /\ active \in [Owners -> Strategies \cup {None}]
  /\ revoked \in [Owners -> [Strategies -> BOOLEAN]]
  /\ market \in [Strategies -> Terms]
  /\ faults \in Nat

\* What refers to what, and how often a report may still be tried.
References ==
  /\ \A x \in DOMAIN subs : subs[x].last <= Len(deliveries)
  /\ \A j \in DOMAIN jobs : jobs[j].sub \in DOMAIN subs /\ jobs[j].event \in DOMAIN events
  /\ \A d \in DOMAIN deliveries :
       /\ deliveries[d].sub \in DOMAIN subs /\ deliveries[d].job \in DOMAIN jobs
       /\ deliveries[d].status = "pending" => deliveries[d].tries < MaxTries
       /\ deliveries[d].status = "broadcast" => deliveries[d].tries > 0
  /\ \A v \in evals : v.job \in DOMAIN jobs
  /\ \A i \in DOMAIN landed : landed[i] \in DOMAIN deliveries

TypeInv == Rows /\ Workers /\ OnChain /\ References

-----------------------------------------------------------------------------
(* Lists.                                                                  *)

\* A list of rows stays one when its entries are replaced.
LEMMA Replaced ==
  ASSUME NEW S, NEW T, NEW s \in Seq(S), NEW f \in [DOMAIN s -> T]
  PROVE  f \in Seq(T) /\ Len(f) = Len(s) /\ DOMAIN f = DOMAIN s
<1>1. DOMAIN s = 1 .. Len(s) /\ Len(s) \in Nat
  OBVIOUS
<1>2. f \in [1 .. Len(s) -> T]
  BY <1>1
<1> QED BY <1>1, <1>2

\* ... when one entry is replaced.
LEMMA Updated ==
  ASSUME NEW S, NEW s \in Seq(S), NEW i \in DOMAIN s, NEW e \in S
  PROVE  /\ [s EXCEPT ![i] = e] \in Seq(S)
         /\ Len([s EXCEPT ![i] = e]) = Len(s)
         /\ DOMAIN [s EXCEPT ![i] = e] = DOMAIN s
<1>1. [s EXCEPT ![i] = e] \in [DOMAIN s -> S]
  OBVIOUS
<1> QED BY <1>1, Replaced

\* ... when one is appended.
LEMMA Appended ==
  ASSUME NEW S, NEW s \in Seq(S), NEW e \in S
  PROVE  /\ Append(s, e) \in Seq(S)
         /\ Len(Append(s, e)) = Len(s) + 1
         /\ DOMAIN Append(s, e) = 1 .. Len(s) + 1
         /\ DOMAIN s = 1 .. Len(s)
         /\ DOMAIN s \subseteq DOMAIN Append(s, e)
         /\ \A i \in DOMAIN s : Append(s, e)[i] = s[i]
         /\ Append(s, e)[Len(s) + 1] = e
  OBVIOUS

-----------------------------------------------------------------------------
(* Types.                                                                  *)

\* At the start the tables are empty, the guard has what it was told before.
LEMMA InitTypes == Init => TypeInv
<1> SUFFICES ASSUME Init PROVE TypeInv
  OBVIOUS
<1>1. Rows /\ Workers
  BY DEF Init, Rows, Workers
<1>2. OnChain
  <2>1. \A s \in Strategies : Earlier(s) \in Reports
    BY DeliveryAssumption DEF Earlier, Reports
  <2>2. report \in [Owners -> [Strategies -> SUBSET Reports]]
    BY <2>1 DEF Init
  <2> QED BY <2>2, DeliveryAssumption DEF Init, OnChain
<1>3. References
  BY DEF Init, References
<1> QED BY <1>1, <1>2, <1>3 DEF TypeInv

\* The rows a stop or a switch leaves.
LEMMA SilencedTypes ==
  ASSUME TypeInv, NEW X
  PROVE  /\ Silenced(X) \in Seq(SubRow) /\ Len(Silenced(X)) = Len(subs)
         /\ DOMAIN Silenced(X) = DOMAIN subs
         /\ \A x \in DOMAIN subs : /\ Silenced(X)[x].last = subs[x].last
                                   /\ Silenced(X)[x].strategy = subs[x].strategy
<1>1. \A x \in DOMAIN subs : subs[x] \in SubRow
  BY DEF TypeInv, Rows
<1>2. \A x \in DOMAIN subs : [subs[x] EXCEPT !.live = FALSE] \in SubRow
  BY <1>1 DEF SubRow
<1>3. Silenced(X) \in [DOMAIN subs -> SubRow]
  BY <1>1, <1>2 DEF Silenced
<1>4. \A x \in DOMAIN subs : /\ Silenced(X)[x].last = subs[x].last
                             /\ Silenced(X)[x].strategy = subs[x].strategy
  BY <1>1 DEF Silenced, SubRow
<1>5. subs \in Seq(SubRow)
  BY DEF TypeInv, Rows
<1> QED BY <1>3, <1>4, <1>5, Replaced

\* Cancelling jobs keeps what they refer to.
LEMMA CancelledJobsTypes ==
  ASSUME TypeInv, NEW X
  PROVE  /\ CancelledJobs(X) \in Seq(JobRow) /\ Len(CancelledJobs(X)) = Len(jobs)
         /\ DOMAIN CancelledJobs(X) = DOMAIN jobs
         /\ \A j \in DOMAIN jobs : /\ CancelledJobs(X)[j].sub = jobs[j].sub
                                   /\ CancelledJobs(X)[j].event = jobs[j].event
<1>1. \A j \in DOMAIN jobs : jobs[j] \in JobRow
  BY DEF TypeInv, Rows
<1>2. \A j \in DOMAIN jobs : [jobs[j] EXCEPT !.state = "cancelled", !.leased = FALSE] \in JobRow
  BY <1>1 DEF JobRow
<1>3. CancelledJobs(X) \in [DOMAIN jobs -> JobRow]
  BY <1>1, <1>2 DEF CancelledJobs
<1>4. \A j \in DOMAIN jobs : /\ CancelledJobs(X)[j].sub = jobs[j].sub
                             /\ CancelledJobs(X)[j].event = jobs[j].event
  BY <1>1 DEF CancelledJobs, JobRow
<1>5. jobs \in Seq(JobRow)
  BY DEF TypeInv, Rows
<1> QED BY <1>3, <1>4, <1>5, Replaced

\* A row with another status is a row.
LEMMA RowWithStatus ==
  ASSUME TypeInv, NEW d \in DOMAIN deliveries,
         NEW status \in {"pending", "broadcast", "accepted", "failed"}
  PROVE  /\ deliveries[d] \in DeliveryRow
         /\ [deliveries[d] EXCEPT !.status = status] \in DeliveryRow
<1>1. deliveries[d] \in DeliveryRow
  BY DEF TypeInv, Rows
<1>2. [deliveries[d] EXCEPT !.status = status] \in DeliveryRow
  BY <1>1 DEF DeliveryRow
<1> QED BY <1>1, <1>2

\* d is as it was, or has failed.
KeptOrFailed(d) ==
  /\ deliveries'[d].sub = deliveries[d].sub /\ deliveries'[d].job = deliveries[d].job
  /\ deliveries'[d].tries = deliveries[d].tries /\ deliveries'[d].terms = deliveries[d].terms
  /\ deliveries'[d].nonce = deliveries[d].nonce
  /\ deliveries'[d].attempt = deliveries[d].attempt
  /\ \/ deliveries'[d].status = deliveries[d].status
     \/ deliveries[d].status = "pending" /\ deliveries'[d].status = "failed"

\* Cancelling reports touches only those not claimed.
LEMMA CancelledReportsTypes ==
  ASSUME TypeInv, NEW X, deliveries' = CancelledReports(X)
  PROVE  /\ deliveries' \in Seq(DeliveryRow)
         /\ Len(deliveries') = Len(deliveries) /\ DOMAIN deliveries' = DOMAIN deliveries
         /\ \A d \in DOMAIN deliveries : KeptOrFailed(d)
<1>1. CancelledReports(X) \in [DOMAIN deliveries -> DeliveryRow]
  BY RowWithStatus DEF CancelledReports
<1>2. deliveries \in Seq(DeliveryRow)
  BY DEF TypeInv, Rows
<1>3. \A d \in DOMAIN deliveries : deliveries[d] \in DeliveryRow
  BY <1>2
<1>4. \A d \in DOMAIN deliveries : KeptOrFailed(d)
  BY <1>3 DEF CancelledReports, KeptOrFailed, DeliveryRow
<1> QED BY <1>1, <1>2, <1>4, Replaced

\* What the rows refer to stays when rows are added and statuses fail.
LEMMA ReferencesKept ==
  ASSUME TypeInv, Rows', landed' = landed,
         DOMAIN subs \subseteq DOMAIN subs', DOMAIN events \subseteq DOMAIN events',
         DOMAIN jobs \subseteq DOMAIN jobs', DOMAIN deliveries' = DOMAIN deliveries,
         Len(deliveries') = Len(deliveries),
         \A v \in evals' : v.job \in DOMAIN jobs',
         \A x \in DOMAIN subs' : subs'[x].last <= Len(deliveries),
         \A j \in DOMAIN jobs' : jobs'[j].sub \in DOMAIN subs' /\ jobs'[j].event \in DOMAIN events',
         \A d \in DOMAIN deliveries : KeptOrFailed(d)
  PROVE  References'
<1>1. ASSUME NEW d \in DOMAIN deliveries'
      PROVE  /\ deliveries'[d].sub \in DOMAIN subs' /\ deliveries'[d].job \in DOMAIN jobs'
             /\ deliveries'[d].status = "pending" => deliveries'[d].tries < MaxTries
             /\ deliveries'[d].status = "broadcast" => deliveries'[d].tries > 0
  BY DEF TypeInv, References, KeptOrFailed
<1> QED BY <1>1 DEF TypeInv, References

\* A new event, and a new job for it.
LEMMA EventTypes ==
  ASSUME TypeInv,
         NEW source \in {"activation", "market", "guard", "maker", "retry"},
         NEW about \in SUBSET Strategies, NEW state \in {"emitted", "canonical", "reorged"},
         NEW n \in 0 .. MaxTries,
         events' = Append(events, Event(source, about, state, n))
  PROVE  /\ events' \in Seq(EventRow)
         /\ DOMAIN events = 1 .. Len(events) /\ DOMAIN events' = 1 .. Len(events) + 1
         /\ DOMAIN events \subseteq DOMAIN events'
<1>1. Event(source, about, state, n) \in EventRow
  BY DEF Event, EventRow
<1>2. events \in Seq(EventRow)
  BY DEF TypeInv, Rows
<1> QED BY <1>1, <1>2, Appended

\* A new job is a row.
LEMMA JobTypes ==
  ASSUME NEW x \in Nat, NEW e \in Nat
  PROVE  Job(x, e) \in JobRow /\ Job(x, e).sub = x /\ Job(x, e).event = e
BY DEF Job, JobRow

\* Enable: the old selection is silenced, the new one gets a job.
LEMMA EnableTypes ==
  ASSUME TypeInv, NEW s \in Strategies, NEW source \in Sources, Enable(s, source)
  PROVE  TypeInv'
<1> DEFINE old == LiveSubs(Owner[s])
           new == [strategy |-> s, source |-> source, live |-> TRUE, consented |-> TRUE, last |-> 0]
           job == Job(Len(subs) + 1, Len(events) + 1)
<1>1. /\ subs' = Append(Silenced(old), new)
      /\ events' = Append(events, Event("activation", {s}, "canonical", 0))
      /\ jobs' = Append(CancelledJobs(old), job)
      /\ deliveries' = CancelledReports(old)
      /\ UNCHANGED <<nonces, evals, sender, child, chain, market, faults>>
  BY DEF Enable
<1>2. Len(subs) \in Nat /\ Len(events) \in Nat /\ 0 \in 0 .. MaxTries
  BY DeliveryAssumption DEF TypeInv, Rows
<1>3. /\ new \in SubRow /\ new.last = 0
      /\ job \in JobRow /\ job.sub = Len(subs) + 1 /\ job.event = Len(events) + 1
  BY <1>2, JobTypes DEF SubRow
<1> HIDE DEF old, new, job
<1>4. /\ subs' \in Seq(SubRow) /\ Len(subs') = Len(subs) + 1
      /\ DOMAIN subs = 1 .. Len(subs) /\ DOMAIN subs' = 1 .. Len(subs) + 1
      /\ \A x \in DOMAIN subs : subs'[x].last = subs[x].last
      /\ subs'[Len(subs) + 1].last = 0
  BY <1>1, <1>3, SilencedTypes, Appended
<1>5. /\ events' \in Seq(EventRow)
      /\ DOMAIN events = 1 .. Len(events) /\ DOMAIN events' = 1 .. Len(events) + 1
  <2>1. {s} \in SUBSET Strategies
    OBVIOUS
  <2> QED BY <1>1, <1>2, <2>1, EventTypes
<1>6. /\ jobs' \in Seq(JobRow) /\ DOMAIN jobs' = 1 .. Len(jobs) + 1
      /\ DOMAIN jobs = 1 .. Len(jobs)
      /\ \A j \in DOMAIN jobs : jobs'[j].sub = jobs[j].sub /\ jobs'[j].event = jobs[j].event
      /\ jobs'[Len(jobs) + 1] = job
  BY <1>1, <1>3, CancelledJobsTypes, Appended
<1>7. /\ deliveries' \in Seq(DeliveryRow)
      /\ Len(deliveries') = Len(deliveries) /\ DOMAIN deliveries' = DOMAIN deliveries
      /\ \A d \in DOMAIN deliveries : KeptOrFailed(d)
  BY <1>1, CancelledReportsTypes
<1>8. Rows'
  BY <1>1, <1>4, <1>5, <1>6, <1>7 DEF TypeInv, Rows
<1>9. Workers' /\ OnChain'
  BY <1>1, <1>7 DEF TypeInv, Workers, OnChain, chain
<1>10. References'
  <2>1. Len(deliveries) \in Nat /\ Len(jobs) \in Nat
    BY DEF TypeInv, Rows
  <2>2. \A x \in DOMAIN subs' : subs'[x].last <= Len(deliveries)
    BY <1>2, <1>4, <2>1 DEF TypeInv, References
  <2>3. \A j \in DOMAIN jobs' : jobs'[j].sub \in DOMAIN subs' /\ jobs'[j].event \in DOMAIN events'
    <3>1. ASSUME NEW j \in DOMAIN jobs
          PROVE  jobs'[j].sub \in DOMAIN subs' /\ jobs'[j].event \in DOMAIN events'
      BY <1>2, <1>4, <1>5, <1>6 DEF TypeInv, References
    <3>2. jobs'[Len(jobs) + 1].sub \in DOMAIN subs' /\ jobs'[Len(jobs) + 1].event \in DOMAIN events'
      BY <1>2, <1>3, <1>4, <1>5, <1>6
    <3> QED BY <1>6, <2>1, <3>1, <3>2
  <2>4. \A v \in evals' : v.job \in DOMAIN jobs'
    BY <1>1, <1>6, <2>1 DEF TypeInv, References
  <2>5. /\ DOMAIN subs \subseteq DOMAIN subs' /\ DOMAIN events \subseteq DOMAIN events'
        /\ DOMAIN jobs \subseteq DOMAIN jobs'
    BY <1>2, <1>4, <1>5, <1>6, <2>1
  <2>6. landed' = landed
    BY <1>1 DEF chain
  <2> QED BY <1>7, <1>8, <2>2, <2>3, <2>4, <2>5, <2>6, ReferencesKept
<1> QED BY <1>8, <1>9, <1>10 DEF TypeInv

\* Stop: the same without a new one.
LEMMA StopTypes ==
  ASSUME TypeInv, NEW x \in DOMAIN subs, Stop(x)
  PROVE  TypeInv'
<1>1. /\ subs' = Silenced({x}) /\ jobs' = CancelledJobs({x}) /\ deliveries' = CancelledReports({x})
      /\ UNCHANGED <<events, nonces, evals, sender, child, chain, market, faults>>
  BY DEF Stop
<1>2. /\ deliveries' \in Seq(DeliveryRow)
      /\ Len(deliveries') = Len(deliveries) /\ DOMAIN deliveries' = DOMAIN deliveries
      /\ \A d \in DOMAIN deliveries : KeptOrFailed(d)
  BY <1>1, CancelledReportsTypes
<1>3. Rows'
  BY <1>1, <1>2, SilencedTypes, CancelledJobsTypes DEF TypeInv, Rows
<1>4. Workers' /\ OnChain'
  BY <1>1, <1>2 DEF TypeInv, Workers, OnChain, chain
<1>5. References'
  <2>1. /\ DOMAIN subs' = DOMAIN subs /\ DOMAIN events' = DOMAIN events
        /\ DOMAIN jobs' = DOMAIN jobs
        /\ landed' = landed /\ evals' = evals
    BY <1>1, SilencedTypes, CancelledJobsTypes DEF chain
  <2>2. \A y \in DOMAIN subs' : subs'[y].last <= Len(deliveries)
    BY <1>1, <2>1, SilencedTypes DEF TypeInv, References
  <2>3. \A j \in DOMAIN jobs' : jobs'[j].sub \in DOMAIN subs' /\ jobs'[j].event \in DOMAIN events'
    BY <1>1, <2>1, CancelledJobsTypes DEF TypeInv, References
  <2>4. \A v \in evals' : v.job \in DOMAIN jobs'
    BY <2>1 DEF TypeInv, References
  <2> QED BY <1>2, <1>3, <2>1, <2>2, <2>3, <2>4, ReferencesKept
<1> QED BY <1>3, <1>4, <1>5 DEF TypeInv

\* Lapse: a consent expires.
LEMMA LapseTypes ==
  ASSUME TypeInv, NEW x \in DOMAIN subs, Lapse(x)
  PROVE  TypeInv'
<1>1. /\ subs' = [subs EXCEPT ![x] = [subs[x] EXCEPT !.consented = FALSE]]
      /\ faults' = faults + 1
      /\ UNCHANGED <<events, jobs, nonces, deliveries, evals, sender, child, chain, market>>
  BY DEF Lapse, Fault
<1>2. subs[x] \in SubRow
  BY DEF TypeInv, Rows
<1>3. /\ [subs[x] EXCEPT !.consented = FALSE] \in SubRow
      /\ [subs[x] EXCEPT !.consented = FALSE].last = subs[x].last
  BY <1>2 DEF SubRow
<1>4. /\ subs' \in Seq(SubRow) /\ DOMAIN subs' = DOMAIN subs
      /\ \A y \in DOMAIN subs : subs'[y].last = subs[y].last
  BY <1>1, <1>3, Updated DEF TypeInv, Rows
<1>5. Rows' /\ Workers' /\ OnChain'
  BY <1>1, <1>4 DEF TypeInv, Rows, Workers, OnChain, chain
<1>6. References'
  BY <1>1, <1>4 DEF TypeInv, References, chain
<1> QED BY <1>5, <1>6 DEF TypeInv

\* MoveMarket: a source has something to tell.
LEMMA MoveMarketTypes ==
  ASSUME TypeInv, NEW s \in Strategies, NEW t \in Terms, MoveMarket(s, t)
  PROVE  TypeInv'
<1>1. /\ market' = [market EXCEPT ![s] = t]
      /\ events' = Append(events, Event("market", {s}, "emitted", 0))
      /\ UNCHANGED <<subs, jobs, nonces, deliveries, evals, sender, child, chain, faults>>
  BY DEF MoveMarket
<1>2. events' \in Seq(EventRow) /\ DOMAIN events \subseteq DOMAIN events'
  <2>1. {s} \in SUBSET Strategies /\ 0 \in 0 .. MaxTries
    BY DeliveryAssumption
  <2> QED BY <1>1, <2>1, EventTypes
<1>3. Rows' /\ Workers' /\ OnChain'
  BY <1>1, <1>2 DEF TypeInv, Rows, Workers, OnChain, chain
<1>4. References'
  BY <1>1, <1>2 DEF TypeInv, References, chain
<1> QED BY <1>3, <1>4 DEF TypeInv

\* An event becomes canonical or is reorganized away.
LEMMA EventStateTypes ==
  ASSUME TypeInv, NEW e \in DOMAIN events, NEW state \in {"emitted", "canonical", "reorged"},
         events' = [events EXCEPT ![e].state = state]
  PROVE  events' \in Seq(EventRow) /\ DOMAIN events' = DOMAIN events
<1>1. events[e] \in EventRow
  BY DEF TypeInv, Rows
<1>2. [events[e] EXCEPT !.state = state] \in EventRow
  BY <1>1 DEF EventRow
<1>3. events' = [events EXCEPT ![e] = [events[e] EXCEPT !.state = state]]
  OBVIOUS
<1> QED BY <1>2, <1>3, Updated DEF TypeInv, Rows

\* Ingest: each job made for the event refers to a subscription and to it.
LEMMA IngestTypes ==
  ASSUME TypeInv, NEW e \in DOMAIN events, Ingest(e)
  PROVE  TypeInv'
<1> DEFINE C == Concerned(e)
<1>1. /\ events' = [events EXCEPT ![e].state = "canonical"]
      /\ UNCHANGED <<subs, nonces, deliveries, evals, sender, child, chain, market, faults>>
  BY DEF Ingest
<1>2. events' \in Seq(EventRow) /\ DOMAIN events' = DOMAIN events
  BY <1>1, EventStateTypes
<1>3. Cardinality(C) \in Nat
  <2>1. C \subseteq 1 .. Len(subs)
    BY DEF Concerned, TypeInv, Rows
  <2>2. IsFiniteSet(1 .. Len(subs))
    BY FS_Interval DEF TypeInv, Rows
  <2> QED BY <2>1, <2>2, FS_Subset, FS_CardinalityType
<1>4. PICK queue \in [1 .. Cardinality(C) -> C] :
        jobs' = jobs \o [i \in DOMAIN queue |-> Job(queue[i], e)]
  BY DEF Ingest
<1> DEFINE new == [i \in DOMAIN queue |-> Job(queue[i], e)]
<1>5. C \subseteq DOMAIN subs /\ DOMAIN subs \subseteq Nat /\ e \in Nat
  BY DEF Concerned, TypeInv, Rows
<1>6. \A i \in DOMAIN queue : /\ new[i] \in JobRow
                              /\ new[i].sub \in DOMAIN subs /\ new[i].event \in DOMAIN events
  BY <1>5, JobTypes
<1>7. new \in Seq(JobRow) /\ DOMAIN new = DOMAIN queue
  BY <1>3, <1>6
<1> HIDE DEF C, new
<1>8. jobs \in Seq(JobRow) /\ Len(jobs) \in Nat /\ Len(new) \in Nat /\ DOMAIN new = 1 .. Len(new)
  BY <1>7 DEF TypeInv, Rows
<1>9. /\ jobs' \in Seq(JobRow) /\ DOMAIN jobs' = 1 .. Len(jobs) + Len(new)
      /\ \A j \in 1 .. Len(jobs) + Len(new) :
           jobs'[j] = IF j <= Len(jobs) THEN jobs[j] ELSE new[j - Len(jobs)]
  <2>1. jobs' = jobs \o new
    BY <1>4 DEF new
  <2> QED BY <1>7, <1>8, <2>1, ConcatProperties
<1>10. Rows' /\ Workers' /\ OnChain'
  BY <1>1, <1>2, <1>9 DEF TypeInv, Rows, Workers, OnChain, chain
<1>11. ASSUME NEW j \in DOMAIN jobs'
       PROVE  jobs'[j].sub \in DOMAIN subs /\ jobs'[j].event \in DOMAIN events
  <2>1. CASE j <= Len(jobs)
    BY <1>8, <1>9, <2>1 DEF TypeInv, References
  <2>2. CASE j > Len(jobs)
    <3>1. j - Len(jobs) \in DOMAIN new
      BY <1>8, <1>9, <2>2
    <3>2. jobs'[j] = new[j - Len(jobs)]
      BY <1>8, <1>9, <2>2
    <3>3. new[j - Len(jobs)].sub \in DOMAIN subs /\ new[j - Len(jobs)].event \in DOMAIN events
      BY <1>6, <1>7, <3>1
    <3> QED BY <3>2, <3>3
  <2> QED BY <1>8, <1>9, <2>1, <2>2
<1>12. DOMAIN jobs \subseteq DOMAIN jobs'
  BY <1>8, <1>9
<1>13. References'
  BY <1>1, <1>2, <1>11, <1>12 DEF TypeInv, References, chain
<1> QED BY <1>10, <1>13 DEF TypeInv

\* MarkReorg: jobs of the event are cancelled, reports not claimed fail.
LEMMA MarkReorgTypes ==
  ASSUME TypeInv, NEW e \in DOMAIN events, MarkReorg(e)
  PROVE  /\ TypeInv'
         /\ \A d \in DOMAIN deliveries : KeptOrFailed(d)
<1>1. /\ events' = [events EXCEPT ![e].state = "reorged"]
      /\ faults' = faults + 1
      /\ UNCHANGED <<subs, nonces, evals, sender, child, chain, market>>
  BY DEF MarkReorg, Fault
<1>2. events' \in Seq(EventRow) /\ DOMAIN events' = DOMAIN events
  BY <1>1, EventStateTypes
<1>3. /\ jobs' \in Seq(JobRow) /\ DOMAIN jobs' = DOMAIN jobs
      /\ \A j \in DOMAIN jobs : jobs'[j].sub = jobs[j].sub /\ jobs'[j].event = jobs[j].event
  <2>1. \A j \in DOMAIN jobs : jobs[j] \in JobRow
    BY DEF TypeInv, Rows
  <2>2. jobs' = [j \in DOMAIN jobs |->
          IF jobs[j].event = e /\ ~jobs[j].reorged
          THEN [jobs[j] EXCEPT !.reorged = TRUE, !.leased = FALSE,
                  !.state = IF @ \in {"pending", "running"} THEN "cancelled" ELSE @]
          ELSE jobs[j]]
    BY DEF MarkReorg
  <2>3. /\ jobs' \in [DOMAIN jobs -> JobRow]
        /\ \A j \in DOMAIN jobs : jobs'[j].sub = jobs[j].sub /\ jobs'[j].event = jobs[j].event
    BY <2>1, <2>2 DEF JobRow
  <2> QED BY <2>3, Replaced DEF TypeInv, Rows
<1>4. /\ deliveries' \in Seq(DeliveryRow)
      /\ Len(deliveries') = Len(deliveries) /\ DOMAIN deliveries' = DOMAIN deliveries
      /\ \A d \in DOMAIN deliveries : KeptOrFailed(d)
  <2>1. \A d \in DOMAIN deliveries : /\ deliveries[d] \in DeliveryRow
                                     /\ [deliveries[d] EXCEPT !.status = "failed"] \in DeliveryRow
    BY RowWithStatus
  <2>2. deliveries' = [d \in DOMAIN deliveries |->
          IF jobs[deliveries[d].job].event = e /\ deliveries[d].status = "pending"
          THEN [deliveries[d] EXCEPT !.status = "failed"]
          ELSE deliveries[d]]
    BY DEF MarkReorg
  <2>3. deliveries' \in [DOMAIN deliveries -> DeliveryRow]
    BY <2>1, <2>2
  <2>4. \A d \in DOMAIN deliveries : KeptOrFailed(d)
    BY <2>1, <2>2 DEF KeptOrFailed, DeliveryRow
  <2> QED BY <2>3, <2>4, Replaced DEF TypeInv, Rows
<1>5. Rows' /\ Workers' /\ OnChain'
  BY <1>1, <1>2, <1>3, <1>4 DEF TypeInv, Rows, Workers, OnChain, chain
<1>6. References'
  BY <1>1, <1>2, <1>3, <1>4, <1>5, ReferencesKept DEF TypeInv, References, chain
<1> QED BY <1>4, <1>5, <1>6 DEF TypeInv

-----------------------------------------------------------------------------
(* Evaluations.                                                            *)

\* A step of the evaluators changes rows of jobs, and what is remembered of them.
LEMMA EvaluatingTypes ==
  ASSUME TypeInv, NEW E, evals' = E, E \subseteq EvalRow, \A v \in E : v.job \in DOMAIN jobs,
         jobs' \in Seq(JobRow), DOMAIN jobs' = DOMAIN jobs,
         \A j \in DOMAIN jobs : jobs'[j].sub = jobs[j].sub /\ jobs'[j].event = jobs[j].event,
         UNCHANGED <<subs, events, nonces, deliveries, sender, child, chain, market>>,
         faults' \in Nat
  PROVE  TypeInv'
<1>1. Rows' /\ Workers' /\ OnChain'
  BY DEF TypeInv, Rows, Workers, OnChain, chain
<1>2. References'
  BY DEF TypeInv, References, chain
<1> QED BY <1>1, <1>2 DEF TypeInv

\* A row of jobs takes another state.
LEMMA JobUpdated ==
  ASSUME TypeInv, NEW j \in DOMAIN jobs, NEW row \in JobRow,
         row.sub = jobs[j].sub, row.event = jobs[j].event,
         jobs' = [jobs EXCEPT ![j] = row]
  PROVE  /\ jobs' \in Seq(JobRow) /\ DOMAIN jobs' = DOMAIN jobs
         /\ \A k \in DOMAIN jobs : jobs'[k].sub = jobs[k].sub /\ jobs'[k].event = jobs[k].event
<1>1. jobs \in Seq(JobRow)
  BY DEF TypeInv, Rows
<1> QED BY <1>1, Updated

\* ClaimEvaluation.
LEMMA ClaimEvaluationTypes ==
  ASSUME TypeInv, NEW j \in DOMAIN jobs, ClaimEvaluation(j)
  PROVE  TypeInv'
<1> DEFINE row == [jobs[j] EXCEPT !.state = "running", !.leased = TRUE, !.tries = @ + 1]
           v == Evaluation(j, jobs[j].tries + 1, "claimed", First, 0)
<1>1. jobs[j] \in JobRow /\ j \in Nat
  BY DEF TypeInv, Rows
<1>2. row \in JobRow /\ row.sub = jobs[j].sub /\ row.event = jobs[j].event
  <2>1. jobs[j].tries + 1 \in Nat
    BY <1>1 DEF JobRow
  <2>2. row = [[jobs[j] EXCEPT !.state = "running", !.leased = TRUE]
                 EXCEPT !.tries = jobs[j].tries + 1]
    BY <1>1 DEF JobRow
  <2>3. [jobs[j] EXCEPT !.state = "running", !.leased = TRUE] \in JobRow
    BY <1>1 DEF JobRow
  <2> QED BY <1>1, <2>1, <2>2, <2>3 DEF JobRow
<1>3. v \in EvalRow /\ v.job = j
  BY <1>1, DeliveryAssumption DEF EvalRow, Evaluation, JobRow
<1>4. /\ jobs' = [jobs EXCEPT ![j] = row]
      /\ evals' = evals \cup {v}
      /\ UNCHANGED <<subs, events, nonces, deliveries, sender, child, chain, market, faults>>
  BY DEF ClaimEvaluation
<1> HIDE DEF row, v
<1>5. /\ jobs' \in Seq(JobRow) /\ DOMAIN jobs' = DOMAIN jobs
      /\ \A k \in DOMAIN jobs : jobs'[k].sub = jobs[k].sub /\ jobs'[k].event = jobs[k].event
  BY <1>2, <1>4, JobUpdated
<1>6. evals' \subseteq EvalRow /\ \A w \in evals' : w.job \in DOMAIN jobs
  BY <1>3, <1>4 DEF TypeInv, Workers, References
<1>7. faults' \in Nat
  BY <1>4 DEF TypeInv, OnChain
<1> QED BY <1>4, <1>5, <1>6, <1>7, EvaluatingTypes

\* What an evaluator remembers goes on, or is forgotten.
LEMMA StepTypes ==
  ASSUME TypeInv, NEW v \in evals, NEW E, evals' = E,
         E \subseteq evals \cup {w \in EvalRow : w.job = v.job},
         UNCHANGED <<rows, sender, child, chain, market>>, faults' \in Nat
  PROVE  TypeInv'
<1>1. E \subseteq EvalRow /\ \A w \in E : w.job \in DOMAIN jobs
  BY DEF TypeInv, Workers, References
<1>2. jobs' \in Seq(JobRow) /\ UNCHANGED <<subs, events, nonces, deliveries, jobs>>
  BY DEF TypeInv, Rows, rows
<1> QED BY <1>1, <1>2, EvaluatingTypes

\* What an evaluator remembers, and may go on with.
LEMMA EvalRows ==
  ASSUME TypeInv, NEW v \in evals
  PROVE  /\ v \in EvalRow /\ v.job \in DOMAIN jobs
         /\ Failing(v) \in EvalRow /\ Failing(v).job = v.job
         /\ Unneeded(v) \in EvalRow /\ Unneeded(v).job = v.job
         /\ SubOf(v) \in DOMAIN subs /\ Subject(v) \in Strategies
<1>1. v \in EvalRow /\ v.job \in DOMAIN jobs
  BY DEF TypeInv, Workers, References
<1>2. /\ Failing(v) \in EvalRow /\ Failing(v).job = v.job
      /\ Unneeded(v) \in EvalRow /\ Unneeded(v).job = v.job
  BY <1>1, DeliveryAssumption DEF Failing, Unneeded, Evaluation, EvalRow
<1>3. SubOf(v) \in DOMAIN subs
  BY <1>1 DEF TypeInv, References, SubOf
<1>4. Subject(v) \in Strategies
  <2>1. subs[SubOf(v)] \in SubRow
    BY <1>3 DEF TypeInv, Rows
  <2> QED BY <2>1 DEF Subject, SubRow
<1> QED BY <1>1, <1>2, <1>3, <1>4

\* Simulate.
LEMMA SimulateTypes ==
  ASSUME TypeInv, NEW v \in evals, Simulate(v)
  PROVE  TypeInv'
<1> DEFINE w == [v EXCEPT !.at = "simulated", !.terms = market[Subject(v)]]
<1>1. market[Subject(v)] \in Terms
  BY EvalRows DEF TypeInv, OnChain
<1>2. w \in EvalRow /\ w.job = v.job
  BY <1>1, EvalRows DEF EvalRow
<1> HIDE DEF w
<1>3. /\ evals' = (evals \ {v}) \cup {w} \/ evals' = (evals \ {v}) \cup {Failing(v)}
      /\ UNCHANGED <<rows, sender, child, chain, market, faults>>
  BY DEF Simulate, Step, w
<1>4. evals' \subseteq evals \cup {u \in EvalRow : u.job = v.job}
  BY <1>2, <1>3, EvalRows
<1>5. faults' \in Nat
  BY <1>3 DEF TypeInv, OnChain
<1> QED BY <1>3, <1>4, <1>5, StepTypes

\* The nonce in the guard's storage is a number.
LEMMA StoredNonceType ==
  ASSUME TypeInv, NEW s \in Strategies
  PROVE  StoredNonce(s) \in Nat
<1>1. Owner[s] \in Owners
  BY DeliveryAssumption
<1>2. report[Owner[s]][s] \subseteq Reports
  BY <1>1 DEF TypeInv, OnChain
<1>3. \A r \in Reports : r.nonce \in Nat
  BY DEF Reports, Standing
<1>4. CASE report[Owner[s]][s] = {}
  BY <1>4 DEF StoredNonce, Guard!Latest
<1>5. CASE report[Owner[s]][s] # {}
  BY <1>2, <1>3, <1>5 DEF StoredNonce, Guard!Latest
<1> QED BY <1>4, <1>5

\* Compare.
LEMMA CompareTypes ==
  ASSUME TypeInv, NEW v \in evals, Compare(v)
  PROVE  TypeInv'
<1> DEFINE w == [v EXCEPT !.at = "changed", !.floor = StoredNonce(Subject(v))]
<1>1. StoredNonce(Subject(v)) \in Nat
  BY EvalRows, StoredNonceType
<1>2. w \in EvalRow /\ w.job = v.job
  BY <1>1, EvalRows DEF EvalRow
<1> HIDE DEF w
<1>3. /\ \/ evals' = (evals \ {v}) \cup {w}
         \/ evals' = (evals \ {v}) \cup {Failing(v)}
         \/ evals' = (evals \ {v}) \cup {Unneeded(v)}
      /\ UNCHANGED <<rows, sender, child, chain, market, faults>>
  BY DEF Compare, Step, w
<1>4. evals' \subseteq evals \cup {u \in EvalRow : u.job = v.job}
  BY <1>2, <1>3, EvalRows
<1>5. faults' \in Nat
  BY <1>3 DEF TypeInv, OnChain
<1> QED BY <1>3, <1>4, <1>5, StepTypes

\* An evaluation fails, is dropped or dies.
LEMMA LostEvaluationTypes ==
  ASSUME TypeInv, NEW v \in evals, EvaluationFails(v) \/ Abandon(v) \/ EvaluatorCrashes(v)
  PROVE  TypeInv'
<1>1. /\ evals' = (evals \ {v}) \cup {Failing(v)} \/ evals' = evals \ {v}
      /\ UNCHANGED <<rows, sender, child, chain, market>>
      /\ faults' = faults + 1 \/ faults' = faults
  BY DEF EvaluationFails, Abandon, EvaluatorCrashes, Step, Fault
<1>2. evals' \subseteq evals \cup {u \in EvalRow : u.job = v.job}
  BY <1>1, EvalRows
<1>3. faults' \in Nat
  BY <1>1 DEF TypeInv, OnChain
<1> QED BY <1>1, <1>2, <1>3, StepTypes

\* The job of an evaluation is done.
LEMMA FinishedTypes ==
  ASSUME TypeInv, NEW v \in evals,
         NEW state \in {"pending", "running", "succeeded", "failed", "cancelled"},
         jobs' = Finished(v, state)
  PROVE  /\ jobs' \in Seq(JobRow) /\ DOMAIN jobs' = DOMAIN jobs
         /\ \A k \in DOMAIN jobs : jobs'[k].sub = jobs[k].sub /\ jobs'[k].event = jobs[k].event
<1> DEFINE row == [jobs[v.job] EXCEPT !.state = state, !.leased = FALSE]
<1>1. v.job \in DOMAIN jobs /\ jobs[v.job] \in JobRow
  BY EvalRows DEF TypeInv, Rows
<1>2. row \in JobRow /\ row.sub = jobs[v.job].sub /\ row.event = jobs[v.job].event
  BY <1>1 DEF JobRow
<1>3. jobs' = [jobs EXCEPT ![v.job] = row]
  BY <1>1 DEF Finished
<1> HIDE DEF row
<1> QED BY <1>1, <1>2, <1>3, JobUpdated

\* An evaluation ends without a report.
LEMMA CompleteTypes ==
  ASSUME TypeInv, NEW v \in evals, CompleteUnchanged(v) \/ CompleteFailed(v)
  PROVE  TypeInv'
<1>1. /\ \E state \in {"succeeded", "failed", "pending"} : jobs' = Finished(v, state)
      /\ evals' = evals \ {v}
      /\ UNCHANGED <<subs, events, nonces, deliveries, sender, child, chain, market, faults>>
  BY DEF CompleteUnchanged, CompleteFailed
<1>2. /\ jobs' \in Seq(JobRow) /\ DOMAIN jobs' = DOMAIN jobs
      /\ \A k \in DOMAIN jobs : jobs'[k].sub = jobs[k].sub /\ jobs'[k].event = jobs[k].event
  BY <1>1, FinishedTypes
<1>3. evals' \subseteq EvalRow /\ \A w \in evals' : w.job \in DOMAIN jobs
  BY <1>1 DEF TypeInv, Workers, References
<1>4. faults' \in Nat
  BY <1>1 DEF TypeInv, OnChain
<1> QED BY <1>1, <1>2, <1>3, <1>4, EvaluatingTypes

\* ExpireLease.
LEMMA ExpireLeaseTypes ==
  ASSUME TypeInv, NEW j \in DOMAIN jobs, ExpireLease(j)
  PROVE  TypeInv'
<1> DEFINE row == [jobs[j] EXCEPT !.leased = FALSE]
<1>1. jobs[j] \in JobRow
  BY DEF TypeInv, Rows
<1>2. row \in JobRow /\ row.sub = jobs[j].sub /\ row.event = jobs[j].event
  BY <1>1 DEF JobRow
<1>3. /\ jobs' = [jobs EXCEPT ![j] = row]
      /\ faults' = faults + 1 \/ faults' = faults
      /\ UNCHANGED <<subs, events, nonces, deliveries, evals, sender, child, chain, market>>
  BY DEF ExpireLease, Fault
<1> HIDE DEF row
<1>4. /\ jobs' \in Seq(JobRow) /\ DOMAIN jobs' = DOMAIN jobs
      /\ \A k \in DOMAIN jobs : jobs'[k].sub = jobs[k].sub /\ jobs'[k].event = jobs[k].event
  BY <1>2, <1>3, JobUpdated
<1>5. evals' \subseteq EvalRow /\ \A w \in evals' : w.job \in DOMAIN jobs
  BY <1>3 DEF TypeInv, Workers, References
<1>6. faults' \in Nat
  BY <1>3 DEF TypeInv, OnChain
<1> QED BY <1>3, <1>4, <1>5, <1>6, EvaluatingTypes

\* A new report: its row, and the nonce it is given.
NewReport(v) ==
  [sub |-> SubOf(v), job |-> v.job, terms |-> v.terms, nonce |-> NextNonce(v),
   status |-> "pending", tries |-> 0, attempt |-> "none"]

\* A new report is a row, its nonce is above the last one.
LEMMA NewReportType ==
  ASSUME TypeInv, NEW v \in evals
  PROVE  /\ NextNonce(v) \in Nat \ {0} /\ NextNonce(v) > nonces[Subject(v)]
         /\ NewReport(v) \in DeliveryRow
<1>1. nonces[Subject(v)] \in Nat /\ v.floor \in Nat
  BY EvalRows DEF TypeInv, Rows, EvalRow
<1>2. NextNonce(v) \in Nat \ {0} /\ NextNonce(v) > nonces[Subject(v)]
  BY <1>1 DEF NextNonce, Greater
<1>3. SubOf(v) \in Nat /\ v.job \in Nat /\ v.terms \in Terms
  BY EvalRows DEF TypeInv, Rows, EvalRow
<1>4. 0 \in 0 .. MaxTries
  BY DeliveryAssumption
<1> QED BY <1>2, <1>3, <1>4 DEF NewReport, DeliveryRow

\* A subscription gets another last report.
LEMMA LastReport ==
  ASSUME NEW old \in SubRow, NEW n \in Nat
  PROVE  /\ [old EXCEPT !.last = n] \in SubRow
         /\ [old EXCEPT !.last = n].last = n
         /\ [old EXCEPT !.last = n].strategy = old.strategy
BY DEF SubRow

\* An evaluation ends with a new report.
LEMMA CompleteChangedTypes ==
  ASSUME TypeInv, NEW v \in evals, CompleteChanged(v)
  PROVE  TypeInv'
<1> DEFINE n == Len(deliveries)
           x == SubOf(v)
           row == [subs[x] EXCEPT !.last = n + 1]
<1>1. /\ nonces' = [nonces EXCEPT ![Subject(v)] = NextNonce(v)]
      /\ deliveries' = Append(deliveries, NewReport(v))
      /\ subs' = [subs EXCEPT ![x] = row]
      /\ jobs' = Finished(v, "succeeded")
      /\ evals' = evals \ {v}
      /\ sender' = Append(sender, "none")
      /\ child' = Append(child, "none")
      /\ UNCHANGED <<events, chain, market, faults>>
  BY DEF CompleteChanged, NewReport
<1>2. n \in Nat /\ subs[x] \in SubRow /\ x \in DOMAIN subs
  BY EvalRows DEF TypeInv, Rows
<1>3. row \in SubRow /\ row.last = n + 1
  <2>1. n + 1 \in Nat
    BY <1>2
  <2> QED BY <1>2, <2>1, LastReport
<1> HIDE DEF n, x, row
<1>4. /\ subs' \in Seq(SubRow) /\ DOMAIN subs' = DOMAIN subs
      /\ \A y \in DOMAIN subs : subs'[y].last = subs[y].last \/ subs'[y].last = n + 1
  BY <1>1, <1>2, <1>3, Updated DEF TypeInv, Rows
<1>5. /\ jobs' \in Seq(JobRow) /\ DOMAIN jobs' = DOMAIN jobs
      /\ \A k \in DOMAIN jobs : jobs'[k].sub = jobs[k].sub /\ jobs'[k].event = jobs[k].event
  BY <1>1, FinishedTypes
<1>6. /\ deliveries' \in Seq(DeliveryRow) /\ Len(deliveries') = n + 1
      /\ DOMAIN deliveries' = 1 .. n + 1 /\ DOMAIN deliveries = 1 .. n
      /\ \A d \in DOMAIN deliveries : deliveries'[d] = deliveries[d]
      /\ deliveries'[n + 1] = NewReport(v)
  BY <1>1, NewReportType, Appended DEF TypeInv, Rows, n
<1>7. nonces' \in [Strategies -> Nat]
  BY <1>1, NewReportType, EvalRows DEF TypeInv, Rows
<1>8. Rows'
  BY <1>1, <1>4, <1>5, <1>6, <1>7 DEF TypeInv, Rows
<1>9. Workers'
  <2>1. sender' \in Seq(Places) /\ Len(sender') = n + 1
    BY <1>1, Appended DEF TypeInv, Workers, Places, n
  <2>2. child' \in Seq(Stages) /\ Len(child') = n + 1
    BY <1>1, Appended DEF TypeInv, Workers, Stages, n
  <2>3. evals' \in SUBSET EvalRow
    BY <1>1 DEF TypeInv, Workers
  <2> QED BY <1>6, <2>1, <2>2, <2>3 DEF Workers
<1>10. DOMAIN deliveries \subseteq DOMAIN deliveries'
  BY <1>2, <1>6
<1>11. OnChain'
  BY <1>1, <1>10 DEF TypeInv, OnChain, chain
<1>12. References'
  <2>1. \A y \in DOMAIN subs' : subs'[y].last <= Len(deliveries')
    <3> SUFFICES ASSUME NEW y \in DOMAIN subs PROVE subs'[y].last <= n + 1
      BY <1>4, <1>6
    <3>1. subs[y] \in SubRow /\ subs[y].last <= n
      BY DEF TypeInv, References, Rows, n
    <3>2. subs[y].last \in Nat
      BY <3>1 DEF SubRow
    <3> QED BY <1>2, <1>4, <3>1, <3>2
  <2>2. \A j \in DOMAIN jobs' : jobs'[j].sub \in DOMAIN subs' /\ jobs'[j].event \in DOMAIN events'
    BY <1>1, <1>4, <1>5 DEF TypeInv, References
  <2>3. ASSUME NEW d \in DOMAIN deliveries'
        PROVE  /\ deliveries'[d].sub \in DOMAIN subs' /\ deliveries'[d].job \in DOMAIN jobs'
               /\ deliveries'[d].status = "pending" => deliveries'[d].tries < MaxTries
               /\ deliveries'[d].status = "broadcast" => deliveries'[d].tries > 0
    <3>1. CASE d \in DOMAIN deliveries
      BY <1>4, <1>5, <1>6, <3>1 DEF TypeInv, References
    <3>2. CASE d = n + 1
      <4>1. /\ deliveries'[d].sub = SubOf(v) /\ deliveries'[d].job = v.job
            /\ deliveries'[d].status = "pending" /\ deliveries'[d].tries = 0
        BY <1>6, <3>2 DEF NewReport
      <4> QED BY <1>4, <1>5, <4>1, EvalRows, DeliveryAssumption
    <3> QED BY <1>2, <1>6, <3>1, <3>2
  <2>4. \A w \in evals' : w.job \in DOMAIN jobs'
    BY <1>1, <1>5 DEF TypeInv, References
  <2>5. \A i \in DOMAIN landed' : landed'[i] \in DOMAIN deliveries'
    BY <1>1, <1>10 DEF TypeInv, References, chain
  <2> QED BY <2>1, <2>2, <2>3, <2>4, <2>5 DEF References
<1> QED BY <1>8, <1>9, <1>11, <1>12 DEF TypeInv

-----------------------------------------------------------------------------
(* Deliveries.                                                             *)

\* A list is the same when an entry is replaced by itself.
LEMMA Same ==
  ASSUME NEW S, NEW s \in Seq(S), NEW i \in DOMAIN s
  PROVE  [s EXCEPT ![i] = s[i]] = s
OBVIOUS

\* A step of a delivery looks like this: its row, its worker and its process.
At(d, row, at, stage) ==
  /\ deliveries' = [deliveries EXCEPT ![d] = row]
  /\ sender' = [sender EXCEPT ![d] = at]
  /\ child' = [child EXCEPT ![d] = stage]
  /\ UNCHANGED <<subs, events, jobs, nonces, evals, landed, report, active, revoked, market>>

Admissible(d, row) ==
  /\ row \in DeliveryRow
  /\ row.sub = deliveries[d].sub /\ row.job = deliveries[d].job
  /\ row.nonce = deliveries[d].nonce /\ row.terms = deliveries[d].terms
  /\ row.status = "pending" => row.tries < MaxTries
  /\ row.status = "broadcast" => row.tries > 0

\* The row, the worker and the process of a delivery.
LEMMA DeliveryRows ==
  ASSUME TypeInv, NEW d \in DOMAIN deliveries
  PROVE  /\ deliveries[d] \in DeliveryRow /\ Admissible(d, deliveries[d])
         /\ sender[d] \in Places /\ child[d] \in Stages
         /\ d \in DOMAIN sender /\ d \in DOMAIN child
         /\ [deliveries EXCEPT ![d] = deliveries[d]] = deliveries
         /\ [sender EXCEPT ![d] = sender[d]] = sender
         /\ [child EXCEPT ![d] = child[d]] = child
<1>1. deliveries[d] \in DeliveryRow
  BY DEF TypeInv, Rows
<1>2. Admissible(d, deliveries[d])
  BY <1>1 DEF TypeInv, References, Admissible
<1>3. /\ d \in DOMAIN sender /\ d \in DOMAIN child
      /\ sender[d] \in Places /\ child[d] \in Stages
  BY DEF TypeInv, Rows, Workers
<1>4. [deliveries EXCEPT ![d] = deliveries[d]] = deliveries
  BY Same DEF TypeInv, Rows
<1>5. [sender EXCEPT ![d] = sender[d]] = sender /\ [child EXCEPT ![d] = child[d]] = child
  BY <1>3, Same DEF TypeInv, Workers
<1> QED BY <1>1, <1>2, <1>3, <1>4, <1>5

\* Such a step keeps the types.
LEMMA AtTypes ==
  ASSUME TypeInv, NEW d \in DOMAIN deliveries, NEW row, Admissible(d, row),
         NEW at \in Places, NEW stage \in Stages, At(d, row, at, stage),
         pool' \in SUBSET DOMAIN deliveries, faults' \in Nat
  PROVE  TypeInv'
<1>1. row \in DeliveryRow
  BY DEF Admissible
<1>2. /\ deliveries' \in Seq(DeliveryRow) /\ Len(deliveries') = Len(deliveries)
      /\ DOMAIN deliveries' = DOMAIN deliveries
  BY <1>1, Updated DEF At, TypeInv, Rows
<1>3. sender' \in Seq(Places) /\ Len(sender') = Len(sender)
  BY DeliveryRows, Updated DEF At, TypeInv, Workers
<1>4. child' \in Seq(Stages) /\ Len(child') = Len(child)
  BY DeliveryRows, Updated DEF At, TypeInv, Workers
<1>5. Rows' /\ Workers' /\ OnChain'
  BY <1>2, <1>3, <1>4 DEF At, TypeInv, Rows, Workers, OnChain
<1>6. References'
  <2>1. \A c \in DOMAIN deliveries' : deliveries'[c] = IF c = d THEN row ELSE deliveries[c]
    BY <1>2 DEF At
  <2>2. ASSUME NEW c \in DOMAIN deliveries'
        PROVE  /\ deliveries'[c].sub \in DOMAIN subs' /\ deliveries'[c].job \in DOMAIN jobs'
               /\ deliveries'[c].status = "pending" => deliveries'[c].tries < MaxTries
               /\ deliveries'[c].status = "broadcast" => deliveries'[c].tries > 0
    BY <1>2, <2>1 DEF At, Admissible, TypeInv, References
  <2> QED BY <1>2, <2>2 DEF At, TypeInv, References
<1> QED BY <1>5, <1>6 DEF TypeInv

\* A row with another status and count is a row.
Retried(row, status, n) == [row EXCEPT !.status = status, !.tries = n]

\* The same report, with other bookkeeping.
SameReport(row, old) ==
  /\ row.sub = old.sub /\ row.job = old.job /\ row.nonce = old.nonce
  /\ row.attempt = old.attempt /\ row.terms = old.terms

\* It is the same report.
LEMMA RowRetried ==
  ASSUME NEW old \in DeliveryRow, NEW n \in 0 .. MaxTries,
         NEW status \in {"pending", "broadcast", "accepted", "failed"}
  PROVE  /\ Retried(old, status, n) \in DeliveryRow
         /\ SameReport(Retried(old, status, n), old)
         /\ Retried(old, status, n).status = status
         /\ Retried(old, status, n).tries = n
<1>1. [old EXCEPT !.status = status] \in DeliveryRow
  BY DEF DeliveryRow
<1> QED BY <1>1 DEF DeliveryRow, Retried, SameReport

\* What the steps of a delivery are.
LEMMA ClaimDeliveryIs ==
  ASSUME TypeInv, NEW d \in DOMAIN deliveries, ClaimDelivery(d)
  PROVE  /\ deliveries[d].status = "pending" /\ Unblocked(d)
         /\ \E row \in DeliveryRow :
              /\ Admissible(d, row) /\ row.attempt = deliveries[d].attempt
              /\ \/ row.status = "broadcast" /\ At(d, row, "claimed", child[d])
                 \/ row.status = "failed" /\ At(d, row, sender[d], child[d])
         /\ UNCHANGED <<pool, faults>>
<1>1. /\ deliveries[d] \in DeliveryRow /\ deliveries[d].tries < MaxTries
      /\ deliveries[d].status = "pending" /\ Unblocked(d)
      /\ UNCHANGED <<subs, events, jobs, nonces, evals, child, chain, market, faults>>
  BY DeliveryRows DEF ClaimDelivery, TypeInv, References
<1>2. CASE Stands(deliveries[d].job) /\ Ready(deliveries[d].sub)
  <2>1. deliveries[d].tries \in 0 .. MaxTries /\ MaxTries \in Nat
    BY <1>1, DeliveryAssumption DEF DeliveryRow
  <2>2. PICK n \in 0 .. MaxTries : n = deliveries[d].tries + 1 /\ n > 0
    BY <1>1, <2>1
  <2>3. PICK row : row = Retried(deliveries[d], "broadcast", n)
    OBVIOUS
  <2>4. /\ row \in DeliveryRow /\ SameReport(row, deliveries[d])
        /\ row.status = "broadcast" /\ row.tries = n
    BY <1>1, <2>2, <2>3, RowRetried
  <2>5. deliveries' = [deliveries EXCEPT ![d] = row] /\ sender' = [sender EXCEPT ![d] = "claimed"]
    BY <1>1, <1>2, <2>2, <2>3 DEF ClaimDelivery, SetSender, Retried
  <2>6. At(d, row, "claimed", child[d])
    BY <1>1, <2>5, DeliveryRows DEF At, chain
  <2>7. Admissible(d, row)
    BY <2>2, <2>4 DEF Admissible, SameReport
  <2> QED BY <1>1, <2>4, <2>6, <2>7 DEF chain, SameReport
<1>3. CASE ~(Stands(deliveries[d].job) /\ Ready(deliveries[d].sub))
  <2> DEFINE row == [deliveries[d] EXCEPT !.status = "failed"]
  <2>1. /\ row \in DeliveryRow /\ Admissible(d, row)
        /\ row.attempt = deliveries[d].attempt /\ row.status = "failed"
    BY <1>1 DEF DeliveryRow, Admissible
  <2>2. deliveries' = [deliveries EXCEPT ![d] = row] /\ sender' = sender
    BY <1>1, <1>3 DEF ClaimDelivery, SetStatus
  <2>3. At(d, row, sender[d], child[d])
    BY <1>1, <2>2, DeliveryRows DEF At, chain
  <2> HIDE DEF row
  <2> QED BY <1>1, <2>1, <2>3 DEF chain
<1> QED BY <1>2, <1>3

\* Lock: under the lock no attempt is open.
LEMMA LockIs ==
  ASSUME TypeInv, NEW d \in DOMAIN deliveries, Lock(d)
  PROVE  /\ sender[d] = "claimed" /\ LaneHolders = {} /\ LaneFree
         /\ At(d, deliveries[d], "locked", child[d]) /\ UNCHANGED <<pool, faults>>
BY DeliveryRows DEF Lock, SetSender, At, rows, chain

\* Defer: a delivery that was claimed is pending again.
LEMMA DeferIs ==
  ASSUME TypeInv, NEW d \in DOMAIN deliveries, Defer(d)
  PROVE  /\ sender[d] = "claimed" /\ UNCHANGED <<pool, faults>>
         /\ \/ At(d, deliveries[d], "none", child[d]) /\ deliveries[d].status # "broadcast"
            \/ \E row \in DeliveryRow :
                 /\ Admissible(d, row) /\ row.attempt = deliveries[d].attempt
                 /\ deliveries[d].status = "broadcast" /\ row.status = "pending"
                 /\ At(d, row, "none", child[d])
<1> DEFINE old == deliveries[d]
<1>1. /\ old \in DeliveryRow
      /\ old.status = "broadcast" => old.tries > 0
      /\ sender[d] = "claimed"
      /\ deliveries' = [deliveries EXCEPT ![d] = Deferred(old)]
      /\ sender' = [sender EXCEPT ![d] = "none"]
      /\ UNCHANGED <<subs, events, jobs, nonces, evals, child, chain, market, faults>>
  BY DeliveryRows DEF Defer, SetSender, TypeInv, References
<1>2. CASE old.status = "broadcast"
  <2>1. old.tries \in 0 .. MaxTries
    BY <1>1 DEF DeliveryRow
  <2>2. MaxTries \in Nat /\ old.tries > 0
    BY <1>1, <1>2, DeliveryAssumption
  <2> HIDE DEF old
  <2>3. PICK n \in 0 .. MaxTries : n = old.tries - 1 /\ n < MaxTries
    BY <2>1, <2>2
  <2>4. PICK row : row = Retried(old, "pending", n)
    OBVIOUS
  <2>5. /\ row \in DeliveryRow /\ SameReport(row, old)
        /\ row.status = "pending" /\ row.tries = n
    BY <1>1, <2>3, <2>4, RowRetried
  <2>6. Deferred(old) = row
    BY <1>2, <2>3, <2>4 DEF Deferred, Retried
  <2> USE DEF old
  <2>7. At(d, row, "none", child[d])
    BY <1>1, <2>6, DeliveryRows DEF At, chain
  <2>8. Admissible(d, row)
    BY <2>3, <2>5 DEF Admissible, SameReport
  <2> QED BY <1>1, <1>2, <2>5, <2>7, <2>8 DEF chain, SameReport
<1>3. CASE old.status # "broadcast"
  <2>1. Deferred(old) = old
    BY <1>3 DEF Deferred
  <2> QED BY <1>1, <1>3, <2>1, DeliveryRows DEF At, chain
<1> QED BY <1>2, <1>3

\* The count of faults stays a number.
LEMMA FaultType ==
  ASSUME TypeInv, Fault
  PROVE  faults' \in Nat
BY DEF Fault, TypeInv, OnChain

\* A row with another status, or another state of its attempt.
LEMMA Restated ==
  ASSUME TypeInv, NEW d \in DOMAIN deliveries,
         NEW status \in {"pending", "broadcast", "accepted", "failed"},
         status = "pending" => deliveries[d].tries < MaxTries,
         status = "broadcast" => deliveries[d].tries > 0
  PROVE  /\ Admissible(d, [deliveries[d] EXCEPT !.status = status])
         /\ [deliveries[d] EXCEPT !.status = status].status = status
         /\ [deliveries[d] EXCEPT !.status = status].attempt = deliveries[d].attempt
BY DeliveryRows DEF DeliveryRow, Admissible

\* The same for the state of its attempt.
LEMMA Attempted ==
  ASSUME TypeInv, NEW d \in DOMAIN deliveries,
         NEW attempt \in {"none", "started", "accepted", "not started", "stale", "effective"}
  PROVE  /\ Admissible(d, [deliveries[d] EXCEPT !.attempt = attempt])
         /\ [deliveries[d] EXCEPT !.attempt = attempt].attempt = attempt
         /\ [deliveries[d] EXCEPT !.attempt = attempt].status = deliveries[d].status
<1>1. deliveries[d] \in DeliveryRow /\ Admissible(d, deliveries[d])
  BY DeliveryRows
<1>2. /\ [deliveries[d] EXCEPT !.attempt = attempt] \in DeliveryRow
      /\ [deliveries[d] EXCEPT !.attempt = attempt].attempt = attempt
      /\ [deliveries[d] EXCEPT !.attempt = attempt].status = deliveries[d].status
      /\ [deliveries[d] EXCEPT !.attempt = attempt].tries = deliveries[d].tries
  BY <1>1 DEF DeliveryRow
<1>3. /\ [deliveries[d] EXCEPT !.attempt = attempt].sub = deliveries[d].sub
      /\ [deliveries[d] EXCEPT !.attempt = attempt].job = deliveries[d].job
      /\ [deliveries[d] EXCEPT !.attempt = attempt].nonce = deliveries[d].nonce
      /\ [deliveries[d] EXCEPT !.attempt = attempt].terms = deliveries[d].terms
  BY <1>1 DEF DeliveryRow
<1> QED BY <1>1, <1>2, <1>3 DEF Admissible

\* Fence: a claimed delivery gets its attempt.
LEMMA FenceIs ==
  ASSUME TypeInv, NEW d \in DOMAIN deliveries, Fence(d)
  PROVE  /\ sender[d] = "locked" /\ deliveries[d].status = "broadcast"
         /\ \E row : /\ Admissible(d, row) /\ row.status = "broadcast" /\ row.attempt = "started"
                     /\ At(d, row, "fenced", child[d])
         /\ UNCHANGED <<pool, faults>>
<1>1. PICK row : row = [deliveries[d] EXCEPT !.attempt = "started"]
  OBVIOUS
<1>2. Admissible(d, row) /\ row.status = deliveries[d].status /\ row.attempt = "started"
  BY <1>1, Attempted
<1>3. At(d, row, "fenced", child[d])
  BY <1>1, DeliveryRows DEF Fence, SetSender, At, chain
<1> QED BY <1>2, <1>3 DEF Fence, Fit, chain

\* NotSent: nothing was sent, the delivery is pending again or fails.
LEMMA NotSentIs ==
  ASSUME TypeInv, NEW d \in DOMAIN deliveries, NotSent(d)
  PROVE  /\ sender[d] = "locked" /\ pool' = pool /\ faults' \in Nat
         /\ \E row : /\ Admissible(d, row) /\ row.attempt = deliveries[d].attempt
                     /\ \/ row.status = deliveries[d].status /\ row.status # "broadcast"
                        \/ deliveries[d].status = "broadcast" /\ row.status \in {"pending", "failed"}
                     /\ At(d, row, "none", child[d])
<1>1. /\ sender[d] = "locked"
      /\ deliveries' = [deliveries EXCEPT ![d] = Unsent(deliveries[d])]
      /\ sender' = [sender EXCEPT ![d] = "none"]
      /\ UNCHANGED <<subs, events, jobs, nonces, evals, child, chain, market>>
      /\ faults' = faults + 1 \/ faults' = faults
  BY DEF NotSent, SetSender, Fault
<1>2. PICK row : row = Unsent(deliveries[d])
  OBVIOUS
<1>3. At(d, row, "none", child[d]) /\ pool' = pool
  BY <1>1, <1>2, DeliveryRows DEF At, chain
<1>4. faults' \in Nat
  BY <1>1 DEF TypeInv, OnChain
<1>5. CASE deliveries[d].status # "broadcast"
  BY <1>1, <1>2, <1>3, <1>4, <1>5, DeliveryRows DEF Unsent
<1>6. CASE deliveries[d].status = "broadcast" /\ deliveries[d].tries < MaxTries
  <2>1. row = [deliveries[d] EXCEPT !.status = "pending"]
    BY <1>2, <1>6 DEF Unsent
  <2>2. Admissible(d, row) /\ row.status = "pending" /\ row.attempt = deliveries[d].attempt
    BY <1>6, <2>1, Restated
  <2> QED BY <1>1, <1>3, <1>4, <1>6, <2>2
<1>7. CASE deliveries[d].status = "broadcast" /\ ~(deliveries[d].tries < MaxTries)
  <2>1. row = [deliveries[d] EXCEPT !.status = "failed"]
    BY <1>2, <1>7 DEF Unsent
  <2>2. Admissible(d, row) /\ row.status = "failed" /\ row.attempt = deliveries[d].attempt
    BY <1>7, <2>1, Restated
  <2> QED BY <1>1, <1>3, <1>4, <1>7, <2>2
<1> QED BY <1>5, <1>6, <1>7

\* Spawn: the process starts.
LEMMA SpawnIs ==
  ASSUME TypeInv, NEW d \in DOMAIN deliveries, Spawn(d)
  PROVE  /\ sender[d] = "fenced" /\ UNCHANGED <<pool, faults>>
         /\ At(d, deliveries[d], "running", "ready")
BY DeliveryRows DEF Spawn, SetSender, SetChild, At, rows, chain

\* SpawnFails: it did not start.
LEMMA SpawnFailsIs ==
  ASSUME TypeInv, NEW d \in DOMAIN deliveries, SpawnFails(d)
  PROVE  /\ sender[d] = "fenced" /\ pool' = pool /\ faults' \in Nat
         /\ \E row : /\ Admissible(d, row) /\ row.status = deliveries[d].status
                     /\ row.attempt = "not started"
                     /\ At(d, row, "none", child[d])
<1>1. PICK row : row = [deliveries[d] EXCEPT !.attempt = "not started"]
  OBVIOUS
<1>2. Admissible(d, row) /\ row.status = deliveries[d].status /\ row.attempt = "not started"
  BY <1>1, Attempted
<1>3. At(d, row, "none", child[d]) /\ sender[d] = "fenced" /\ pool' = pool
  BY <1>1, DeliveryRows DEF SpawnFails, SetSender, At, chain
<1>4. faults' \in Nat
  BY FaultType DEF SpawnFails
<1> QED BY <1>2, <1>3, <1>4

\* Collect: its result is stored.
LEMMA CollectIs ==
  ASSUME TypeInv, NEW d \in DOMAIN deliveries, Collect(d)
  PROVE  /\ sender[d] = "running" /\ UNCHANGED <<pool, faults>>
         /\ child[d] \in {"stale", "effective", "receipt", "error"}
         /\ \E row : /\ Admissible(d, row) /\ row.status = deliveries[d].status
                     /\ row.attempt = Outcome(d)
                     /\ At(d, row, "none", child[d])
<1>1. PICK row : row = [deliveries[d] EXCEPT !.attempt = Outcome(d)]
  OBVIOUS
<1>2. Outcome(d) \in {"none", "started", "accepted", "not started", "stale", "effective"}
  BY DeliveryRows DEF Outcome, DeliveryRow
<1>3. Admissible(d, row) /\ row.status = deliveries[d].status /\ row.attempt = Outcome(d)
  BY <1>1, <1>2, Attempted
<1>4. At(d, row, "none", child[d]) /\ UNCHANGED <<pool, faults>>
  BY <1>1, DeliveryRows DEF Collect, SetSender, At, chain
<1> QED BY <1>3, <1>4 DEF Collect

\* SenderCrashes: only the worker is lost.
LEMMA SenderCrashesIs ==
  ASSUME TypeInv, NEW d \in DOMAIN deliveries, SenderCrashes(d)
  PROVE  /\ sender[d] # "none" /\ pool' = pool /\ faults' \in Nat
         /\ At(d, deliveries[d], "none", child[d])
<1>1. At(d, deliveries[d], "none", child[d]) /\ pool' = pool /\ sender[d] # "none"
  BY DeliveryRows DEF SenderCrashes, SetSender, At, rows, chain
<1>2. faults' \in Nat
  BY FaultType DEF SenderCrashes
<1> QED BY <1>1, <1>2

\* Prove: a report in the guard's log is accepted.
LEMMA ProveIs ==
  ASSUME TypeInv, NEW d \in DOMAIN deliveries, Prove(d)
  PROVE  /\ deliveries[d].status = "broadcast" /\ deliveries[d].attempt = "started" /\ Landed(d)
         /\ UNCHANGED <<pool, faults>>
         /\ \E row : /\ Admissible(d, row) /\ row.status = "broadcast"
                     /\ row.attempt = "accepted"
                     /\ At(d, row, sender[d], child[d])
<1>1. PICK row : row = [deliveries[d] EXCEPT !.attempt = "accepted"]
  OBVIOUS
<1>2. Admissible(d, row) /\ row.status = deliveries[d].status /\ row.attempt = "accepted"
  BY <1>1, Attempted
<1>3. At(d, row, sender[d], child[d]) /\ UNCHANGED <<pool, faults>>
  BY <1>1, DeliveryRows DEF Prove, At, chain
<1> QED BY <1>2, <1>3 DEF Prove, Landed

\* Settle: and so is its delivery.
LEMMA SettleIs ==
  ASSUME TypeInv, NEW d \in DOMAIN deliveries, Settle(d)
  PROVE  /\ deliveries[d].status = "broadcast" /\ deliveries[d].attempt = "accepted"
         /\ UNCHANGED <<pool, faults>>
         /\ \E row : /\ Admissible(d, row) /\ row.status = "accepted"
                     /\ row.attempt = "accepted"
                     /\ At(d, row, sender[d], child[d])
<1>1. PICK row : row = [deliveries[d] EXCEPT !.status = "accepted"]
  OBVIOUS
<1>2. Admissible(d, row) /\ row.status = "accepted" /\ row.attempt = deliveries[d].attempt
  BY <1>1, Restated
<1>3. At(d, row, sender[d], child[d]) /\ UNCHANGED <<pool, faults>>
  BY <1>1, DeliveryRows DEF Settle, SetStatus, At, chain
<1> QED BY <1>2, <1>3 DEF Settle

\* The process: its check, its submission, its end.
LEMMA ProcessIs ==
  ASSUME TypeInv, NEW d \in DOMAIN deliveries,
         CheckTerms(d) \/ Expires(d) \/ Kill(d) \/ Submit(d)
  PROVE  /\ faults' \in Nat
         /\ \/ /\ child[d] = "ready" /\ pool' = pool
               /\ \E stage \in {"checked", "stale"} : At(d, deliveries[d], sender[d], stage)
            \/ /\ sender[d] = "running" /\ child[d] \in {"ready", "checked", "sent"} /\ pool' = pool
               /\ At(d, deliveries[d], sender[d], "error")
            \/ /\ child[d] = "checked" /\ pool' = pool
               /\ \E stage \in {"effective", "stale"} : At(d, deliveries[d], sender[d], stage)
            \/ /\ child[d] = "checked" /\ pool' = pool \cup {d}
               /\ At(d, deliveries[d], sender[d], "sent")
<1>1. faults' \in Nat
  BY DEF CheckTerms, Expires, Kill, Submit, Fault, TypeInv, OnChain
<1>2. CASE CheckTerms(d)
  BY <1>1, <1>2, DeliveryRows DEF CheckTerms, SetChild, At, rows, chain
<1>3. CASE Expires(d)
  BY <1>1, <1>3, DeliveryRows DEF Expires, SetChild, At, rows, chain
<1>4. CASE Kill(d)
  BY <1>1, <1>4, DeliveryRows DEF Kill, SetChild, At, rows, chain
<1>5. CASE Submit(d)
  BY <1>1, <1>5, DeliveryRows DEF Submit, SetChild, At, rows
<1> QED BY <1>2, <1>3, <1>4, <1>5

\* Revert: the transaction is gone.
LEMMA RevertIs ==
  ASSUME TypeInv, NEW d \in DOMAIN deliveries, Revert(d)
  PROVE  /\ d \in pool /\ pool' = pool \ {d} /\ faults' = faults
         /\ At(d, deliveries[d], sender[d], IF child[d] = "sent" THEN "error" ELSE child[d])
BY DeliveryRows DEF Revert, Answer, At, rows

\* A report is about a strategy of an owner.
LEMMA StrategyTypes ==
  ASSUME TypeInv, NEW d \in DOMAIN deliveries
  PROVE  StrategyOf(d) \in Strategies /\ OwnerOf(d) \in Owners
<1>1. deliveries[d].sub \in DOMAIN subs
  BY DEF TypeInv, References
<1>2. subs[deliveries[d].sub] \in SubRow
  BY <1>1 DEF TypeInv, Rows
<1>3. StrategyOf(d) \in Strategies
  BY <1>2 DEF StrategyOf, SubRow
<1> QED BY <1>3, DeliveryAssumption DEF OwnerOf

\* A delivery is released: its report fails, and may be evaluated again.
LEMMA ReleaseIs ==
  ASSUME TypeInv, NEW d \in DOMAIN deliveries, Release(d)
  PROVE  /\ deliveries[d].status = "broadcast" /\ CertainlyUnsent(d)
         /\ \E row : /\ Admissible(d, row) /\ row.status = "failed"
                     /\ row.attempt = deliveries[d].attempt
                     /\ deliveries' = [deliveries EXCEPT ![d] = row]
         /\ UNCHANGED <<subs, nonces, evals, sender, child, chain, market, faults>>
<1>1. PICK row : row = [deliveries[d] EXCEPT !.status = "failed"]
  OBVIOUS
<1>2. Admissible(d, row) /\ row.status = "failed" /\ row.attempt = deliveries[d].attempt
  BY <1>1, Restated
<1>3. deliveries' = [deliveries EXCEPT ![d] = row]
  BY <1>1 DEF Release, SetStatus
<1> QED BY <1>2, <1>3 DEF Release

\* Release keeps the types, also when the report is evaluated again.
LEMMA ReleaseTypes ==
  ASSUME TypeInv, NEW d \in DOMAIN deliveries, Release(d)
  PROVE  TypeInv'
<1>1. PICK row : /\ Admissible(d, row) /\ row.status = "failed"
                 /\ deliveries' = [deliveries EXCEPT ![d] = row]
  BY ReleaseIs
<1>2. UNCHANGED <<subs, nonces, evals, sender, child, chain, market, faults>>
  BY ReleaseIs
<1>3. /\ deliveries' \in Seq(DeliveryRow) /\ Len(deliveries') = Len(deliveries)
      /\ DOMAIN deliveries' = DOMAIN deliveries
  BY <1>1, Updated DEF Admissible, TypeInv, Rows
<1>4. /\ events' \in Seq(EventRow) /\ DOMAIN events \subseteq DOMAIN events'
      /\ jobs' \in Seq(JobRow) /\ DOMAIN jobs \subseteq DOMAIN jobs'
      /\ \A j \in DOMAIN jobs' : jobs'[j].sub \in DOMAIN subs /\ jobs'[j].event \in DOMAIN events'
  <2>1. CASE Reevaluated(d)
    <3> DEFINE j == Job(deliveries[d].sub, Len(events) + 1)
    <3>1. /\ events' = Append(events, Event("retry", {StrategyOf(d)}, "canonical", Retry(d)))
          /\ jobs' = Append(jobs, j)
      BY <2>1 DEF Release
    <3>2. deliveries[d].sub \in DOMAIN subs /\ deliveries[d].job \in DOMAIN jobs
      BY DEF TypeInv, References
    <3>3. {StrategyOf(d)} \in SUBSET Strategies
      BY StrategyTypes
    <3>4. Retry(d) \in 0 .. MaxTries
      <4>1. events[jobs[deliveries[d].job].event] \in EventRow
        BY <3>2 DEF TypeInv, Rows, References
      <4>2. events[jobs[deliveries[d].job].event].retry \in 0 .. MaxTries
        BY <4>1 DEF EventRow
      <4>3. MaxTries \in Nat
        BY DeliveryAssumption
      <4> QED BY <2>1, <4>2, <4>3 DEF Reevaluated, Retry
    <3>5. /\ events' \in Seq(EventRow)
          /\ DOMAIN events = 1 .. Len(events) /\ DOMAIN events' = 1 .. Len(events) + 1
          /\ DOMAIN events \subseteq DOMAIN events'
      BY <3>1, <3>3, <3>4, EventTypes
    <3>6. Len(events) \in Nat /\ deliveries[d].sub \in Nat
      BY <3>2 DEF TypeInv, Rows
    <3>7. j \in JobRow /\ j.sub = deliveries[d].sub /\ j.event = Len(events) + 1
      BY <3>6, JobTypes
    <3> HIDE DEF j
    <3>8. jobs \in Seq(JobRow) /\ Len(jobs) \in Nat
      BY DEF TypeInv, Rows
    <3>9. /\ jobs' \in Seq(JobRow) /\ DOMAIN jobs' = 1 .. Len(jobs) + 1
          /\ DOMAIN jobs = 1 .. Len(jobs) /\ DOMAIN jobs \subseteq DOMAIN jobs'
          /\ \A k \in DOMAIN jobs : jobs'[k] = jobs[k]
          /\ jobs'[Len(jobs) + 1] = j
      BY <3>1, <3>7, <3>8, Appended
    <3>10. ASSUME NEW k \in DOMAIN jobs
           PROVE  jobs'[k].sub \in DOMAIN subs /\ jobs'[k].event \in DOMAIN events'
      BY <3>5, <3>9 DEF TypeInv, References
    <3>11. jobs'[Len(jobs) + 1].sub \in DOMAIN subs /\ jobs'[Len(jobs) + 1].event \in DOMAIN events'
      BY <3>2, <3>5, <3>6, <3>7, <3>9
    <3> QED BY <3>5, <3>8, <3>9, <3>10, <3>11
  <2>2. CASE ~Reevaluated(d)
    <3>1. events' = events /\ jobs' = jobs
      BY <2>2 DEF Release
    <3> QED BY <3>1 DEF TypeInv, Rows, References
  <2> QED BY <2>1, <2>2
<1>5. Rows' /\ Workers' /\ OnChain'
  BY <1>2, <1>3, <1>4 DEF TypeInv, Rows, Workers, OnChain, chain
<1>6. References'
  <2>1. \A c \in DOMAIN deliveries' : deliveries'[c] = IF c = d THEN row ELSE deliveries[c]
    BY <1>1, <1>3
  <2>2. ASSUME NEW c \in DOMAIN deliveries'
        PROVE  /\ deliveries'[c].sub \in DOMAIN subs' /\ deliveries'[c].job \in DOMAIN jobs'
               /\ deliveries'[c].status = "pending" => deliveries'[c].tries < MaxTries
               /\ deliveries'[c].status = "broadcast" => deliveries'[c].tries > 0
    BY <1>1, <1>2, <1>3, <1>4, <2>1 DEF Admissible, TypeInv, References
  <2> QED BY <1>2, <1>3, <1>4, <2>2 DEF TypeInv, References, chain
<1> QED BY <1>5, <1>6 DEF TypeInv

\* Mine: the guard stores the report and tells of it.
LEMMA MineTypes ==
  ASSUME TypeInv, NEW d \in DOMAIN deliveries, Mine(d)
  PROVE  TypeInv'
<1> DEFINE s == StrategyOf(d)
           m == OwnerOf(d)
<1>1. s \in Strategies /\ m \in Owners /\ Report(d).maker = m /\ Report(d).strategy = s
  BY StrategyTypes DEF OwnerOf, Report, Standing
<1>2. Report(d) \in Reports
  <2>1. deliveries[d].nonce \in Nat /\ deliveries[d].terms \in Terms
    BY DeliveryRows DEF DeliveryRow
  <2> QED BY <1>1, <2>1 DEF Report, Reports
<1>3. /\ report' = [report EXCEPT ![m][s] = {Report(d)}]
      /\ active' = [active EXCEPT ![m] = Guard!ActiveAfter(Report(d))]
      /\ revoked' = revoked
      /\ pool' = pool \ {d}
      /\ landed' = Append(landed, d)
      /\ child' = [child EXCEPT ![d] = IF child[d] = "sent" THEN "receipt" ELSE child[d]]
      /\ UNCHANGED <<subs, jobs, nonces, deliveries, evals, sender, market, faults>>
  BY <1>1 DEF Mine, Guard!OnReport, Answer
<1> HIDE DEF s, m
<1>4. report' \in [Owners -> [Strategies -> SUBSET Reports]]
  BY <1>1, <1>2, <1>3 DEF TypeInv, OnChain
<1>5. active' \in [Owners -> Strategies \cup {None}]
  BY <1>1, <1>3 DEF TypeInv, OnChain, Guard!ActiveAfter, Guard!ActiveUnder
<1>6. /\ landed' \in Seq(Nat)
      /\ \A i \in DOMAIN landed' : landed'[i] \in DOMAIN deliveries
  <2>1. landed \in Seq(Nat) /\ d \in Nat /\ Len(landed) \in Nat
    BY DEF TypeInv, OnChain, Rows
  <2>2. /\ landed' \in Seq(Nat) /\ DOMAIN landed' = 1 .. Len(landed) + 1
        /\ DOMAIN landed = 1 .. Len(landed)
        /\ \A i \in DOMAIN landed : landed'[i] = landed[i]
        /\ landed'[Len(landed) + 1] = d
    BY <1>3, <2>1, Appended
  <2>3. \A i \in DOMAIN landed : landed[i] \in DOMAIN deliveries
    BY DEF TypeInv, References
  <2>4. \A i \in 1 .. Len(landed) + 1 : i \in 1 .. Len(landed) \/ i = Len(landed) + 1
    BY <2>1
  <2> QED BY <2>2, <2>3, <2>4
<1>7. child' \in Seq(Stages) /\ Len(child') = Len(child)
  <2>1. (IF child[d] = "sent" THEN "receipt" ELSE child[d]) \in Stages
    BY DeliveryRows DEF Stages
  <2> QED BY <1>3, <2>1, DeliveryRows, Updated DEF TypeInv, Workers
<1>8. events' \in Seq(EventRow) /\ DOMAIN events \subseteq DOMAIN events'
  <2> DEFINE about ==
        {StrategyOf(d)} \cup (({active[OwnerOf(d)]} \cup {active'[OwnerOf(d)]}) \ {None})
  <2>1. events' = Append(events, Event("guard", about, "emitted", 0))
    BY DEF Mine
  <2>2. about \in SUBSET Strategies
    BY <1>1, <1>5 DEF TypeInv, OnChain, s, m
  <2>3. 0 \in 0 .. MaxTries
    BY DeliveryAssumption
  <2> HIDE DEF about
  <2> QED BY <2>1, <2>2, <2>3, EventTypes
<1>9. Rows' /\ Workers' /\ OnChain'
  BY <1>3, <1>4, <1>5, <1>6, <1>7, <1>8 DEF TypeInv, Rows, Workers, OnChain
<1>10. References'
  BY <1>3, <1>6, <1>8 DEF TypeInv, References
<1> QED BY <1>9, <1>10 DEF TypeInv

\* Flip: the guard stores the revocation and tells of it.
LEMMA FlipTypes ==
  ASSUME TypeInv, NEW s \in Strategies, Flip(s)
  PROVE  TypeInv'
<1> DEFINE m == Owner[s]
           flag == ~IsRevoked(s)
<1>1. m \in Owners /\ flag \in BOOLEAN
  BY DeliveryAssumption
<1>2. /\ revoked' = [revoked EXCEPT ![m][s] = flag]
      /\ active' = [active EXCEPT ![m] = IF flag THEN Guard!ActiveUnder(m, s) ELSE active[m]]
      /\ report' = report
      /\ events' = Append(events, Event("maker", {s}, "emitted", 0))
      /\ UNCHANGED <<subs, jobs, nonces, deliveries, evals, sender, child, pool, landed, market,
                     faults>>
  BY DEF Flip, Guard!SetStrategyRevoked
<1> HIDE DEF m, flag
<1>3. revoked' \in [Owners -> [Strategies -> BOOLEAN]]
  BY <1>1, <1>2 DEF TypeInv, OnChain
<1>4. active' \in [Owners -> Strategies \cup {None}]
  BY <1>1, <1>2 DEF TypeInv, OnChain, Guard!ActiveUnder
<1>5. events' \in Seq(EventRow) /\ DOMAIN events \subseteq DOMAIN events'
  <2>1. {s} \in SUBSET Strategies /\ 0 \in 0 .. MaxTries
    BY DeliveryAssumption
  <2> QED BY <1>2, <2>1, EventTypes
<1>6. Rows' /\ Workers' /\ OnChain'
  BY <1>2, <1>3, <1>4, <1>5 DEF TypeInv, Rows, Workers, OnChain
<1>7. References'
  BY <1>2, <1>5 DEF TypeInv, References
<1> QED BY <1>6, <1>7 DEF TypeInv

\* A step of one delivery.
LEMMA DeliverTypes ==
  ASSUME TypeInv, NEW d \in DOMAIN deliveries, Deliver(d) \/ Fail(d) \/ Abort(d)
  PROVE  TypeInv'
<1>1. pool \in SUBSET DOMAIN deliveries /\ faults \in Nat
  BY DEF TypeInv, OnChain
<1>2. {"claimed", "locked", "fenced", "running", "none"} \subseteq Places
  BY DEF Places
<1>3. {"ready", "checked", "stale", "error", "effective", "sent"} \subseteq Stages
  BY DEF Stages
<1>4. CASE ClaimDelivery(d)
  BY <1>1, <1>2, <1>4, ClaimDeliveryIs, DeliveryRows, AtTypes
<1>5. CASE Lock(d)
  BY <1>1, <1>2, <1>5, LockIs, DeliveryRows, AtTypes
<1>6. CASE Defer(d)
  BY <1>1, <1>2, <1>6, DeferIs, DeliveryRows, AtTypes
<1>7. CASE Fence(d)
  BY <1>1, <1>2, <1>7, FenceIs, DeliveryRows, AtTypes
<1>8. CASE NotSent(d)
  BY <1>1, <1>2, <1>8, NotSentIs, DeliveryRows, AtTypes
<1>9. CASE Spawn(d)
  BY <1>1, <1>2, <1>3, <1>9, SpawnIs, DeliveryRows, AtTypes
<1>10. CASE SpawnFails(d)
  BY <1>1, <1>2, <1>10, SpawnFailsIs, DeliveryRows, AtTypes
<1>11. CASE Collect(d)
  BY <1>1, <1>2, <1>11, CollectIs, DeliveryRows, AtTypes
<1>12. CASE SenderCrashes(d)
  BY <1>1, <1>2, <1>12, SenderCrashesIs, DeliveryRows, AtTypes
<1>13. CASE Prove(d)
  BY <1>1, <1>13, ProveIs, DeliveryRows, AtTypes
<1>14. CASE Settle(d)
  BY <1>1, <1>14, SettleIs, DeliveryRows, AtTypes
<1>15. CASE CheckTerms(d) \/ Expires(d) \/ Kill(d) \/ Submit(d)
  <2>1. pool \cup {d} \in SUBSET DOMAIN deliveries
    BY <1>1
  <2> QED BY <1>1, <1>3, <1>15, <2>1, ProcessIs, DeliveryRows, AtTypes
<1>16. CASE Revert(d)
  <2>1. (IF child[d] = "sent" THEN "error" ELSE child[d]) \in Stages
    BY <1>3, DeliveryRows
  <2>2. pool' \in SUBSET DOMAIN deliveries /\ faults' \in Nat
    BY <1>1, <1>16, RevertIs
  <2> QED BY <1>16, <2>1, <2>2, RevertIs, DeliveryRows, AtTypes
<1>17. CASE Release(d)
  BY <1>17, ReleaseTypes
<1>18. CASE Mine(d)
  BY <1>18, MineTypes
<1> QED BY <1>4, <1>5, <1>6, <1>7, <1>8, <1>9, <1>10, <1>11, <1>12, <1>13, <1>14, <1>15,
           <1>16, <1>17, <1>18 DEF Deliver, Fail, Abort

\* The types are inductive.
LEMMA NextTypes ==
  ASSUME TypeInv, [Next]_vars
  PROVE  TypeInv'
<1>1. CASE Maker
  BY <1>1, EnableTypes, StopTypes, LapseTypes, FlipTypes DEF Maker
<1>2. CASE Inbox
  BY <1>2, MoveMarketTypes, IngestTypes, MarkReorgTypes DEF Inbox
<1>3. CASE Evaluating
  <2>1. CASE \E j \in DOMAIN jobs : ClaimEvaluation(j) \/ ExpireLease(j)
    BY <2>1, ClaimEvaluationTypes, ExpireLeaseTypes
  <2>2. CASE \E v \in evals : Evaluate(v) \/ EvaluationFails(v) \/ EvaluatorCrashes(v)
    BY <2>2, SimulateTypes, CompareTypes, LostEvaluationTypes, CompleteTypes, CompleteChangedTypes
       DEF Evaluate
  <2> QED BY <1>3, <2>1, <2>2 DEF Evaluating
<1>4. CASE \E d \in DOMAIN deliveries : Deliver(d) \/ Fail(d) \/ Abort(d)
  BY <1>4, DeliverTypes
<1>5. CASE UNCHANGED vars
  <2>1. UNCHANGED <<subs, events, jobs, nonces, deliveries, evals, sender, child, pool, landed,
                    report, active, revoked, market, faults>>
    BY <1>5 DEF vars, rows, chain
  <2> QED BY <2>1 DEF TypeInv, Rows, Workers, OnChain, References
<1> QED BY <1>1, <1>2, <1>3, <1>4, <1>5 DEF Next, Steady

\* They are those of the specification.
LEMMA TypesSuffice == TypeInv => TypeOK
<1> SUFFICES ASSUME TypeInv PROVE TypeOK
  OBVIOUS
<1>1. /\ subs \in Seq(SubRow) /\ events \in Seq(EventRow) /\ jobs \in Seq(JobRow)
      /\ deliveries \in Seq(DeliveryRow) /\ nonces \in [Strategies -> Nat]
  BY DEF TypeInv, Rows
<1>2. ASSUME NEW x \in DOMAIN subs
      PROVE  subs[x] \in [strategy : Strategies, source : Sources, live : BOOLEAN,
                          consented : BOOLEAN, last : 0 .. Len(deliveries)]
  <2>1. subs[x] \in SubRow /\ subs[x].last <= Len(deliveries)
    BY <1>1 DEF TypeInv, References
  <2>2. Len(deliveries) \in Nat
    BY <1>1
  <2>3. subs[x].last \in Nat
    BY <2>1 DEF SubRow
  <2>4. subs[x].last \in 0 .. Len(deliveries)
    BY <2>1, <2>2, <2>3
  <2> QED BY <2>1, <2>4 DEF SubRow
<1>3. \A e \in DOMAIN events : events[e] \in EventRow
  BY <1>1
<1>4. ASSUME NEW j \in DOMAIN jobs
      PROVE  jobs[j] \in [sub : DOMAIN subs, event : DOMAIN events,
                          state : {"pending", "running", "succeeded", "failed", "cancelled"},
                          tries : Nat, leased : BOOLEAN, reorged : BOOLEAN]
  <2>1. jobs[j] \in JobRow
    BY <1>1
  <2>2. jobs[j].sub \in DOMAIN subs /\ jobs[j].event \in DOMAIN events
    BY DEF TypeInv, References
  <2> QED BY <2>1, <2>2 DEF JobRow
<1>5. ASSUME NEW d \in DOMAIN deliveries
      PROVE  deliveries[d] \in Row
  <2>1. deliveries[d] \in DeliveryRow
    BY <1>1
  <2>2. deliveries[d].sub \in DOMAIN subs /\ deliveries[d].job \in DOMAIN jobs
    BY DEF TypeInv, References
  <2> QED BY <2>1, <2>2 DEF DeliveryRow, Row
<1>6. ASSUME NEW v \in evals
      PROVE  v \in [job : DOMAIN jobs, token : Nat, terms : Terms, floor : Nat,
                    at : {"claimed", "simulated", "changed", "unchanged", "failed"}]
  BY EvalRows DEF EvalRow
<1>7. /\ sender \in [DOMAIN deliveries -> Places]
      /\ child \in [DOMAIN deliveries -> Stages]
  BY <1>1 DEF TypeInv, Workers
<1> QED BY <1>1, <1>2, <1>3, <1>4, <1>5, <1>6, <1>7
        DEF TypeInv, OnChain, References, TypeOK, EventRow, Places, Stages

\* Every row, list and register keeps its type and refers to rows that exist,
\* whatever the Makers, the workers, the processes and the chain do.
THEOREM TypeCorrect == Spec => []TypeOK
<1>1. Init => TypeInv
  BY InitTypes
<1>2. TypeInv /\ [Next]_vars => TypeInv'
  BY NextTypes
<1>3. TypeInv => TypeOK
  BY TypesSuffice
<1> QED BY <1>1, <1>2, <1>3, PTL DEF Spec

-----------------------------------------------------------------------------
(* What a step does to the deliveries.                                     *)

\* A subscription stays, and so does its strategy.
StrategiesKept ==
  /\ DOMAIN subs \subseteq DOMAIN subs'
  /\ \A x \in DOMAIN subs : subs'[x].strategy = subs[x].strategy

\* A step of a Maker, of the inbox or of an evaluation that makes no report.
RowsOnly ==
  /\ DOMAIN deliveries' = DOMAIN deliveries
  /\ \A d \in DOMAIN deliveries : KeptOrFailed(d)
  /\ StrategiesKept
  /\ UNCHANGED <<nonces, sender, child, pool, landed>>

\* A step that leaves the deliveries alone is one of the rows only.
LEMMA UnchangedReports ==
  ASSUME TypeInv, StrategiesKept,
         UNCHANGED <<deliveries, nonces, sender, child, pool, landed>>
  PROVE  RowsOnly
BY DEF RowsOnly, KeptOrFailed

\* A step makes no report, makes one, or is one of a delivery.
LEMMA RowSteps ==
  ASSUME TypeInv, [Next]_vars
  PROVE  \/ RowsOnly
         \/ \E v \in evals : CompleteChanged(v)
         \/ \E d \in DOMAIN deliveries : Deliver(d) \/ Fail(d) \/ Abort(d)
<1>1. ASSUME subs' = subs PROVE StrategiesKept
  BY <1>1 DEF StrategiesKept
<1>2. ASSUME NEW s \in Strategies, NEW source \in Sources, Enable(s, source)
      PROVE  RowsOnly
  <2> DEFINE old == LiveSubs(Owner[s])
             new == [strategy |-> s, source |-> source, live |-> TRUE, consented |-> TRUE,
                     last |-> 0]
  <2>1. /\ subs' = Append(Silenced(old), new) /\ deliveries' = CancelledReports(old)
        /\ UNCHANGED <<nonces, sender, child, pool, landed>>
    BY <1>2 DEF Enable, chain
  <2>2. new \in SubRow
    BY DEF SubRow
  <2> HIDE DEF old, new
  <2>3. StrategiesKept
    BY <2>1, <2>2, SilencedTypes, Appended DEF StrategiesKept
  <2> QED BY <2>1, <2>3, CancelledReportsTypes DEF RowsOnly
<1>3. ASSUME NEW x \in DOMAIN subs, Stop(x)
      PROVE  RowsOnly
  <2>1. /\ subs' = Silenced({x}) /\ deliveries' = CancelledReports({x})
        /\ UNCHANGED <<nonces, sender, child, pool, landed>>
    BY <1>3 DEF Stop, chain
  <2>2. StrategiesKept
    BY <2>1, SilencedTypes DEF StrategiesKept
  <2> QED BY <2>1, <2>2, CancelledReportsTypes DEF RowsOnly
<1>4. ASSUME NEW x \in DOMAIN subs, Lapse(x)
      PROVE  RowsOnly
  <2>1. /\ subs' = [subs EXCEPT ![x] = [subs[x] EXCEPT !.consented = FALSE]]
        /\ UNCHANGED <<deliveries, nonces, sender, child, pool, landed>>
    BY <1>4 DEF Lapse, chain
  <2>2. subs[x] \in SubRow /\ subs \in Seq(SubRow)
    BY DEF TypeInv, Rows
  <2>3. /\ [subs[x] EXCEPT !.consented = FALSE] \in SubRow
        /\ [subs[x] EXCEPT !.consented = FALSE].strategy = subs[x].strategy
    BY <2>2 DEF SubRow
  <2>4. StrategiesKept
    BY <2>1, <2>2, <2>3, Updated DEF StrategiesKept
  <2> QED BY <2>1, <2>4, UnchangedReports
<1>5. ASSUME NEW s \in Strategies, Flip(s)
      PROVE  RowsOnly
  BY <1>1, <1>5, UnchangedReports DEF Flip
<1>6. CASE Inbox
  <2>1. ASSUME NEW s \in Strategies, NEW t \in Terms, MoveMarket(s, t)
        PROVE  RowsOnly
    BY <1>1, <2>1, UnchangedReports DEF MoveMarket, chain
  <2>2. ASSUME NEW e \in DOMAIN events, Ingest(e)
        PROVE  RowsOnly
    BY <1>1, <2>2, UnchangedReports DEF Ingest, chain
  <2>3. ASSUME NEW e \in DOMAIN events, MarkReorg(e)
        PROVE  RowsOnly
    <3>1. /\ UNCHANGED <<subs, nonces, sender, child, pool, landed>>
          /\ DOMAIN deliveries' = DOMAIN deliveries
      BY <2>3 DEF MarkReorg, chain
    <3> QED BY <1>1, <2>3, <3>1, MarkReorgTypes DEF RowsOnly
  <2> QED BY <1>6, <2>1, <2>2, <2>3 DEF Inbox
<1>7. CASE Evaluating /\ ~ \E v \in evals : CompleteChanged(v)
  <2>1. CASE \E j \in DOMAIN jobs : ClaimEvaluation(j) \/ ExpireLease(j)
    BY <1>1, <2>1, UnchangedReports DEF ClaimEvaluation, ExpireLease, chain
  <2>2. ASSUME NEW v \in evals, Simulate(v) \/ Compare(v) \/ Abandon(v)
                               \/ EvaluationFails(v) \/ EvaluatorCrashes(v)
        PROVE  RowsOnly
    BY <1>1, <2>2, UnchangedReports
       DEF Simulate, Compare, Abandon, EvaluationFails, EvaluatorCrashes, rows, chain
  <2>3. ASSUME NEW v \in evals, CompleteUnchanged(v) \/ CompleteFailed(v)
        PROVE  RowsOnly
    BY <1>1, <2>3, UnchangedReports DEF CompleteUnchanged, CompleteFailed, chain
  <2> QED BY <1>7, <2>1, <2>2, <2>3 DEF Evaluating, Evaluate
<1>8. CASE UNCHANGED vars
  BY <1>1, <1>8, UnchangedReports DEF vars, rows, chain
<1>9. CASE Maker
  BY <1>2, <1>3, <1>4, <1>5, <1>9 DEF Maker
<1> QED BY <1>6, <1>7, <1>8, <1>9 DEF Next, Steady

\* The deliveries but d are as they were.
OthersKept(d) ==
  /\ DOMAIN deliveries' = DOMAIN deliveries
  /\ \A c \in DOMAIN deliveries \ {d} :
       deliveries'[c] = deliveries[c] /\ sender'[c] = sender[c] /\ child'[c] = child[c]
  /\ deliveries'[d].sub = deliveries[d].sub /\ deliveries'[d].nonce = deliveries[d].nonce
  /\ deliveries'[d].job = deliveries[d].job /\ deliveries'[d].terms = deliveries[d].terms
  /\ subs' = subs /\ nonces' = nonces

Is(d, status, attempt, at, stage) ==
  /\ deliveries'[d].status = status /\ deliveries'[d].attempt = attempt
  /\ sender'[d] = at /\ child'[d] = stage

\* The steps of one delivery that the chain does not see: those of its row and
\* its worker ...
Attends(d) ==
  LET status == deliveries[d].status
      attempt == deliveries[d].attempt
      stage == child[d]
  IN
  \/ /\ status = "pending" /\ Unblocked(d)
     /\ Is(d, "broadcast", attempt, "claimed", stage) \/ Is(d, "failed", attempt, sender[d], stage)
  \/ /\ sender[d] = "claimed" /\ LaneHolders = {} /\ LaneFree
     /\ Is(d, status, attempt, "locked", stage)
  \/ /\ sender[d] \in {"claimed", "locked"}
     /\ \/ status # "broadcast" /\ Is(d, status, attempt, "none", stage)
        \/ status = "broadcast" /\ \E s \in {"pending", "failed"} : Is(d, s, attempt, "none", stage)
  \/ sender[d] = "locked" /\ status = "broadcast" /\ Is(d, status, "started", "fenced", stage)
  \/ sender[d] = "fenced" /\ Is(d, status, attempt, "running", "ready")
  \/ sender[d] = "fenced" /\ Is(d, status, "not started", "none", stage)
  \/ /\ sender[d] = "running" /\ stage \in {"stale", "effective", "receipt", "error"}
     /\ Is(d, status, Outcome(d), "none", stage)
  \/ sender[d] # "none" /\ Is(d, status, attempt, "none", stage)
  \/ /\ status = "broadcast" /\ attempt = "started" /\ Landed(d)
     /\ Is(d, status, "accepted", sender[d], stage)
  \/ status = "broadcast" /\ attempt = "accepted" /\ Is(d, "accepted", attempt, sender[d], stage)
  \/ status = "broadcast" /\ CertainlyUnsent(d) /\ Is(d, "failed", attempt, sender[d], stage)

\* ... and those of its process; ...
Runs(d) ==
  LET Reaches(stage) == Is(d, deliveries[d].status, deliveries[d].attempt, sender[d], stage) IN
  \/ child[d] = "ready" /\ \E stage \in {"checked", "stale"} : Reaches(stage)
  \/ child[d] = "checked" /\ \E stage \in {"effective", "stale"} : Reaches(stage)
  \/ sender[d] = "running" /\ child[d] \in {"ready", "checked", "sent"} /\ Reaches("error")

\* ... and what the chain does with its transaction.
Chained(d) ==
  LET Reaches(stage) == Is(d, deliveries[d].status, deliveries[d].attempt, sender[d], stage) IN
  \/ child[d] = "checked" /\ Reaches("sent") /\ pool' = pool \cup {d} /\ landed' = landed
  \/ /\ d \in pool /\ pool' = pool \ {d} /\ landed' = Append(landed, d)
     /\ Reaches(IF child[d] = "sent" THEN "receipt" ELSE child[d])
  \/ /\ d \in pool /\ pool' = pool \ {d} /\ landed' = landed
     /\ Reaches(IF child[d] = "sent" THEN "error" ELSE child[d])

Lives(d) ==
  /\ OthersKept(d)
  /\ \/ (Attends(d) \/ Runs(d)) /\ UNCHANGED <<pool, landed>>
     \/ Chained(d)

\* A step of a delivery leaves the others as they were.
LEMMA AtIs ==
  ASSUME TypeInv, NEW d \in DOMAIN deliveries, NEW row, NEW at, NEW stage,
         Admissible(d, row), At(d, row, at, stage)
  PROVE  /\ OthersKept(d) /\ landed' = landed
         /\ Is(d, row.status, row.attempt, at, stage)
<1>1. d \in DOMAIN sender /\ d \in DOMAIN child
  BY DeliveryRows
<1>2. DOMAIN deliveries' = DOMAIN deliveries /\ deliveries'[d] = row
  BY DEF At
<1>3. \A c \in DOMAIN deliveries \ {d} :
        deliveries'[c] = deliveries[c] /\ sender'[c] = sender[c] /\ child'[c] = child[c]
  <2> SUFFICES ASSUME NEW c \in DOMAIN deliveries \ {d}
               PROVE  deliveries'[c] = deliveries[c] /\ sender'[c] = sender[c] /\ child'[c] = child[c]
    OBVIOUS
  <2>1. c \in DOMAIN sender /\ c \in DOMAIN child
    BY DeliveryRows
  <2> QED BY <2>1 DEF At
<1>4. sender'[d] = at /\ child'[d] = stage
  BY <1>1 DEF At
<1> QED BY <1>2, <1>3, <1>4 DEF At, Admissible, OthersKept, Is

\* Release is a step of the delivery's life.
LEMMA ReleaseLives ==
  ASSUME TypeInv, NEW d \in DOMAIN deliveries, Release(d)
  PROVE  Lives(d)
<1>1. PICK row : /\ Admissible(d, row) /\ row.status = "failed"
                 /\ row.attempt = deliveries[d].attempt
                 /\ deliveries' = [deliveries EXCEPT ![d] = row]
  BY ReleaseIs
<1>2. /\ deliveries[d].status = "broadcast" /\ CertainlyUnsent(d)
      /\ UNCHANGED <<subs, nonces, sender, child, pool, landed>>
  BY ReleaseIs DEF chain
<1>3. OthersKept(d) /\ Is(d, "failed", deliveries[d].attempt, sender[d], child[d])
  BY <1>1, <1>2 DEF Admissible, OthersKept, Is
<1> QED BY <1>2, <1>3 DEF Lives, Attends

\* Mine is one too.
LEMMA MineLives ==
  ASSUME TypeInv, NEW d \in DOMAIN deliveries, Mine(d)
  PROVE  Lives(d)
<1>1. /\ d \in pool /\ pool' = pool \ {d} /\ landed' = Append(landed, d)
      /\ child' = [child EXCEPT ![d] = IF child[d] = "sent" THEN "receipt" ELSE child[d]]
      /\ UNCHANGED <<subs, nonces, deliveries, sender>>
  BY DEF Mine, Answer
<1>2. \A c \in DOMAIN deliveries : c \in DOMAIN child
  BY DeliveryRows
<1>3. /\ OthersKept(d)
      /\ Is(d, deliveries[d].status, deliveries[d].attempt, sender[d],
            IF child[d] = "sent" THEN "receipt" ELSE child[d])
  BY <1>1, <1>2 DEF OthersKept, Is
<1> QED BY <1>1, <1>3 DEF Lives, Chained

\* A step of one delivery is one of its life.
LEMMA DeliverLives ==
  ASSUME TypeInv, NEW d \in DOMAIN deliveries, Deliver(d) \/ Fail(d) \/ Abort(d)
  PROVE  Lives(d)
<1>1. Admissible(d, deliveries[d])
  BY DeliveryRows
<1>2. CASE ClaimDelivery(d)
  <2>1. PICK row : /\ Admissible(d, row) /\ row.attempt = deliveries[d].attempt
                   /\ \/ row.status = "broadcast" /\ At(d, row, "claimed", child[d])
                      \/ row.status = "failed" /\ At(d, row, sender[d], child[d])
    BY <1>2, ClaimDeliveryIs
  <2> QED BY <1>2, <2>1, ClaimDeliveryIs, AtIs DEF Lives, Attends
<1>3. CASE Lock(d)
  BY <1>1, <1>3, LockIs, AtIs DEF Lives, Attends
<1>4. CASE Defer(d)
  <2>1. CASE At(d, deliveries[d], "none", child[d]) /\ deliveries[d].status # "broadcast"
    BY <1>1, <1>4, <2>1, DeferIs, AtIs DEF Lives, Attends
  <2>2. ASSUME NEW row, Admissible(d, row), row.attempt = deliveries[d].attempt,
               deliveries[d].status = "broadcast", row.status = "pending",
               At(d, row, "none", child[d])
        PROVE  Lives(d)
    BY <1>4, <2>2, DeferIs, AtIs DEF Lives, Attends
  <2> QED BY <1>4, <2>1, <2>2, DeferIs
<1>5. CASE Fence(d)
  <2>1. PICK row : /\ Admissible(d, row) /\ row.status = "broadcast" /\ row.attempt = "started"
                   /\ At(d, row, "fenced", child[d])
    BY <1>5, FenceIs
  <2> QED BY <1>5, <2>1, FenceIs, AtIs DEF Lives, Attends
<1>6. CASE NotSent(d)
  <2>1. PICK row : /\ Admissible(d, row) /\ row.attempt = deliveries[d].attempt
                   /\ \/ row.status = deliveries[d].status /\ row.status # "broadcast"
                      \/ deliveries[d].status = "broadcast" /\ row.status \in {"pending", "failed"}
                   /\ At(d, row, "none", child[d])
    BY <1>6, NotSentIs
  <2>2. OthersKept(d) /\ landed' = landed /\ Is(d, row.status, row.attempt, "none", child[d])
    BY <2>1, AtIs
  <2>3. sender[d] = "locked" /\ pool' = pool
    BY <1>6, NotSentIs
  <2> QED BY <2>1, <2>2, <2>3 DEF Lives, Attends
<1>7. CASE Spawn(d)
  BY <1>1, <1>7, SpawnIs, AtIs DEF Lives, Attends
<1>8. CASE SpawnFails(d)
  <2>1. PICK row : /\ Admissible(d, row) /\ row.status = deliveries[d].status
                   /\ row.attempt = "not started"
                   /\ At(d, row, "none", child[d])
    BY <1>8, SpawnFailsIs
  <2> QED BY <1>8, <2>1, SpawnFailsIs, AtIs DEF Lives, Attends
<1>9. CASE Collect(d)
  <2>1. PICK row : /\ Admissible(d, row) /\ row.status = deliveries[d].status
                   /\ row.attempt = Outcome(d)
                   /\ At(d, row, "none", child[d])
    BY <1>9, CollectIs
  <2> QED BY <1>9, <2>1, CollectIs, AtIs DEF Lives, Attends
<1>10. CASE SenderCrashes(d)
  BY <1>1, <1>10, SenderCrashesIs, AtIs DEF Lives, Attends
<1>11. CASE Prove(d)
  <2>1. PICK row : /\ Admissible(d, row) /\ row.status = "broadcast" /\ row.attempt = "accepted"
                   /\ At(d, row, sender[d], child[d])
    BY <1>11, ProveIs
  <2> QED BY <1>11, <2>1, ProveIs, AtIs DEF Lives, Attends
<1>12. CASE Settle(d)
  <2>1. PICK row : /\ Admissible(d, row) /\ row.status = "accepted" /\ row.attempt = "accepted"
                   /\ At(d, row, sender[d], child[d])
    BY <1>12, SettleIs
  <2> QED BY <1>12, <2>1, SettleIs, AtIs DEF Lives, Attends
<1>13. CASE CheckTerms(d) \/ Expires(d) \/ Kill(d) \/ Submit(d)
  <2>1. ASSUME NEW stage, At(d, deliveries[d], sender[d], stage)
        PROVE  /\ OthersKept(d) /\ landed' = landed
               /\ Is(d, deliveries[d].status, deliveries[d].attempt, sender[d], stage)
    BY <1>1, <2>1, AtIs
  <2> QED BY <1>13, <2>1, ProcessIs DEF Lives, Runs, Chained
<1>14. CASE Revert(d)
  <2>1. /\ OthersKept(d) /\ landed' = landed
        /\ Is(d, deliveries[d].status, deliveries[d].attempt, sender[d],
              IF child[d] = "sent" THEN "error" ELSE child[d])
    BY <1>1, <1>14, RevertIs, AtIs
  <2> QED BY <1>14, <2>1, RevertIs DEF Lives, Chained
<1> QED BY <1>2, <1>3, <1>4, <1>5, <1>6, <1>7, <1>8, <1>9, <1>10, <1>11, <1>12, <1>13, <1>14,
           ReleaseLives, MineLives DEF Deliver, Fail, Abort

-----------------------------------------------------------------------------
(* The row, the worker, the process and the chain agree.                   *)

\* The states of one delivery: its row's status and attempt, where its worker
\* and its process are, whether its transaction waits and whether it landed.
Agree(status, attempt, at, stage, waits, landedNow) ==
  /\ status = "pending" => attempt = "none" /\ at = "none"
  /\ attempt = "none" => stage = "none"
  /\ at \in {"claimed", "locked"} => attempt = "none" /\ status = "broadcast"
  /\ at = "fenced" => attempt = "started" /\ stage = "none"
  /\ at = "running" => attempt \in {"started", "accepted"}
  /\ stage \in {"ready", "checked"} \/ waits => attempt = "started"
  /\ waits => stage \in {"sent", "error"} /\ ~landedNow
  /\ landedNow => stage \in {"receipt", "error"} /\ attempt \in {"started", "accepted"}
  /\ attempt = "accepted" => landedNow
  /\ status = "accepted" => attempt = "accepted"
  /\ status = "failed" => attempt \notin {"started", "accepted"}

Agreed(d) ==
  Agree(deliveries[d].status, deliveries[d].attempt, sender[d], child[d], d \in pool, Landed(d))

Agreement == \A d \in DOMAIN deliveries : Agreed(d)

\* Agreement is about one delivery only.
LEMMA Undisturbed ==
  ASSUME NEW d, Agreed(d),
         deliveries'[d] = deliveries[d], sender'[d] = sender[d], child'[d] = child[d],
         (d \in pool') <=> (d \in pool), Landed(d)' <=> Landed(d)
  PROVE  Agreed(d)'
BY DEF Agreed, Agree

\* A step of the row or the worker keeps agreement.
LEMMA AttendsAgree ==
  ASSUME TypeInv, NEW d \in DOMAIN deliveries, Agreed(d), Attends(d), UNCHANGED <<pool, landed>>
  PROVE  Agreed(d)'
<1>1. (d \in pool') <=> (d \in pool)
  OBVIOUS
<1>2. Landed(d)' <=> Landed(d)
  BY DEF Landed
<1>3. /\ deliveries[d].status \in {"pending", "broadcast", "accepted", "failed"}
      /\ deliveries[d].attempt \in {"none", "started", "accepted", "not started", "stale", "effective"}
      /\ sender[d] \in Places /\ child[d] \in Stages
  BY DeliveryRows DEF DeliveryRow
<1> QED BY <1>1, <1>2, <1>3 DEF Attends, Is, Agreed, Agree, Outcome, CertainlyUnsent, Places, Stages

\* A step of the process does.
LEMMA RunsAgree ==
  ASSUME TypeInv, NEW d \in DOMAIN deliveries, Agreed(d), Runs(d), UNCHANGED <<pool, landed>>
  PROVE  Agreed(d)'
<1>1. (d \in pool') <=> (d \in pool)
  OBVIOUS
<1>2. Landed(d)' <=> Landed(d)
  BY DEF Landed
<1> QED BY <1>1, <1>2 DEF Runs, Is, Agreed, Agree

\* What the log holds after a report landed.
LEMMA LandedNext ==
  ASSUME TypeInv, NEW d \in DOMAIN deliveries, landed' = Append(landed, d)
  PROVE  \A c : Landed(c)' <=> Landed(c) \/ c = d
<1>1. landed \in Seq(Nat) /\ d \in Nat /\ Len(landed) \in Nat
  BY DEF TypeInv, OnChain, Rows
<1>2. /\ DOMAIN landed' = 1 .. Len(landed) + 1 /\ DOMAIN landed = 1 .. Len(landed)
      /\ \A i \in DOMAIN landed : landed'[i] = landed[i]
      /\ landed'[Len(landed) + 1] = d
  BY <1>1, Appended
<1> QED BY <1>1, <1>2 DEF Landed

\* What the chain does keeps agreement, of all deliveries.
LEMMA ChainedAgree ==
  ASSUME TypeInv, NEW d \in DOMAIN deliveries, Agreement, Chained(d), OthersKept(d)
  PROVE  Agreement'
<1>1. Agreed(d)
  BY DEF Agreement
<1>2. DOMAIN deliveries' = DOMAIN deliveries
  BY DEF OthersKept
<1>3. ASSUME NEW c \in DOMAIN deliveries, c # d
      PROVE  /\ Agreed(c)
             /\ (c \in pool') <=> (c \in pool)
             /\ deliveries'[c] = deliveries[c] /\ sender'[c] = sender[c] /\ child'[c] = child[c]
  BY <1>3 DEF Agreement, Chained, OthersKept
<1>4. CASE landed' = landed
  <2>1. \A c : Landed(c)' <=> Landed(c)
    BY <1>4 DEF Landed
  <2>2. Agreed(d)'
    <3>1. CASE /\ child[d] = "checked" /\ pool' = pool \cup {d}
               /\ Is(d, deliveries[d].status, deliveries[d].attempt, sender[d], "sent")
      BY <1>1, <2>1, <3>1 DEF Is, Agreed, Agree
    <3>2. CASE /\ d \in pool /\ pool' = pool \ {d}
               /\ Is(d, deliveries[d].status, deliveries[d].attempt, sender[d],
                     IF child[d] = "sent" THEN "error" ELSE child[d])
      BY <1>1, <2>1, <3>2 DEF Is, Agreed, Agree
    <3>3. landed # Append(landed, d)
      <4>1. landed \in Seq(Nat) /\ d \in Nat
        BY DEF TypeInv, OnChain, Rows
      <4>2. Len(landed) \in Nat /\ Len(Append(landed, d)) = Len(landed) + 1
        BY <4>1
      <4> QED BY <4>2
    <3> QED BY <1>4, <3>1, <3>2, <3>3 DEF Chained
  <2>3. ASSUME NEW c \in DOMAIN deliveries, c # d PROVE Agreed(c)'
    BY <1>3, <2>1, <2>3, Undisturbed
  <2> QED BY <1>2, <2>2, <2>3 DEF Agreement
<1>5. CASE /\ d \in pool /\ pool' = pool \ {d} /\ landed' = Append(landed, d)
           /\ Is(d, deliveries[d].status, deliveries[d].attempt, sender[d],
                 IF child[d] = "sent" THEN "receipt" ELSE child[d])
  <2>1. \A c : Landed(c)' <=> Landed(c) \/ c = d
    BY <1>5, LandedNext
  <2>2. Agreed(d)'
    BY <1>1, <1>5, <2>1 DEF Is, Agreed, Agree
  <2>3. ASSUME NEW c \in DOMAIN deliveries, c # d PROVE Agreed(c)'
    BY <1>3, <2>1, <2>3, Undisturbed
  <2> QED BY <1>2, <2>2, <2>3 DEF Agreement
<1> QED BY <1>4, <1>5 DEF Chained

\* A new report is pending, nobody has touched it, and nothing else changes.
Reported(v) ==
  LET n == Len(deliveries) + 1 IN
  /\ DOMAIN deliveries = 1 .. Len(deliveries) /\ DOMAIN deliveries' = 1 .. n
  /\ \A d \in DOMAIN deliveries :
       deliveries'[d] = deliveries[d] /\ sender'[d] = sender[d] /\ child'[d] = child[d]
  /\ deliveries'[n] = NewReport(v) /\ sender'[n] = "none" /\ child'[n] = "none"
  /\ StrategiesKept
  /\ nonces' = [nonces EXCEPT ![Subject(v)] = NextNonce(v)]
  /\ UNCHANGED <<pool, landed>>

\* That is what CompleteChanged does.
LEMMA CompleteReports ==
  ASSUME TypeInv, NEW v \in evals, CompleteChanged(v)
  PROVE  Reported(v)
<1> DEFINE x == SubOf(v)
           row == [subs[x] EXCEPT !.last = Len(deliveries) + 1]
<1>1. /\ nonces' = [nonces EXCEPT ![Subject(v)] = NextNonce(v)]
      /\ deliveries' = Append(deliveries, NewReport(v))
      /\ subs' = [subs EXCEPT ![x] = row]
      /\ sender' = Append(sender, "none")
      /\ child' = Append(child, "none")
      /\ UNCHANGED <<pool, landed>>
  BY DEF CompleteChanged, NewReport, chain
<1>2. Len(deliveries) \in Nat /\ subs[x] \in SubRow /\ x \in DOMAIN subs /\ subs \in Seq(SubRow)
  BY EvalRows DEF TypeInv, Rows
<1>3. row \in SubRow /\ row.strategy = subs[x].strategy
  <2>1. Len(deliveries) + 1 \in Nat
    BY <1>2
  <2> QED BY <1>2, <2>1, LastReport
<1> HIDE DEF x, row
<1>4. StrategiesKept
  BY <1>1, <1>2, <1>3, Updated DEF StrategiesKept
<1>5. /\ DOMAIN deliveries = 1 .. Len(deliveries) /\ DOMAIN deliveries' = 1 .. Len(deliveries) + 1
      /\ \A d \in DOMAIN deliveries : deliveries'[d] = deliveries[d]
      /\ deliveries'[Len(deliveries) + 1] = NewReport(v)
  BY <1>1, NewReportType, Appended DEF TypeInv, Rows
<1>6. /\ DOMAIN sender = DOMAIN deliveries
      /\ \A d \in DOMAIN sender : sender'[d] = sender[d]
      /\ sender'[Len(deliveries) + 1] = "none"
  <2>1. sender \in Seq(Places) /\ Len(sender) = Len(deliveries) /\ "none" \in Places
    BY DEF TypeInv, Workers, Places
  <2> QED BY <1>1, <1>5, <2>1, Appended
<1>7. /\ DOMAIN child = DOMAIN deliveries
      /\ \A d \in DOMAIN child : child'[d] = child[d]
      /\ child'[Len(deliveries) + 1] = "none"
  <2>1. child \in Seq(Stages) /\ Len(child) = Len(deliveries) /\ "none" \in Stages
    BY DEF TypeInv, Workers, Stages
  <2> QED BY <1>1, <1>5, <2>1, Appended
<1> QED BY <1>1, <1>4, <1>5, <1>6, <1>7 DEF Reported

\* A new report agrees with nothing being there of it.
LEMMA ReportedAgree ==
  ASSUME TypeInv, Agreement, NEW v \in evals, Reported(v)
  PROVE  Agreement'
<1>0. PICK n : n = Len(deliveries) + 1
  OBVIOUS
<1>1. \A c : Landed(c)' <=> Landed(c)
  BY DEF Reported, Landed
<1>2. ASSUME NEW c \in DOMAIN deliveries PROVE Agreed(c)'
  BY <1>1, <1>2, Undisturbed DEF Agreement, Reported
<1>3. n \notin DOMAIN deliveries /\ Len(deliveries) \in Nat
  BY <1>0 DEF TypeInv, Rows
<1>4. n \notin pool /\ ~Landed(n)
  BY <1>3 DEF TypeInv, OnChain, References, Landed
<1>5. /\ DOMAIN deliveries = 1 .. Len(deliveries) /\ DOMAIN deliveries' = 1 .. n
      /\ deliveries'[n].status = "pending" /\ deliveries'[n].attempt = "none"
      /\ sender'[n] = "none" /\ child'[n] = "none" /\ pool' = pool
  BY <1>0 DEF Reported, NewReport
<1>6. \A c \in DOMAIN deliveries' : c \in DOMAIN deliveries \/ c = n
  BY <1>0, <1>3, <1>5
<1>7. Agreed(n)'
  BY <1>1, <1>4, <1>5 DEF Agreed, Agree
<1> QED BY <1>2, <1>6, <1>7 DEF Agreement

\* A report that fails unclaimed has no attempt.
LEMMA RowsOnlyAgree ==
  ASSUME TypeInv, Agreement, RowsOnly
  PROVE  Agreement'
<1>1. \A c : Landed(c)' <=> Landed(c)
  BY DEF RowsOnly, Landed
<1>2. ASSUME NEW c \in DOMAIN deliveries PROVE Agreed(c)'
  BY <1>1 DEF Agreement, RowsOnly, KeptOrFailed, Agreed, Agree
<1> QED BY <1>2 DEF Agreement, RowsOnly

\* Agreement is inductive.
LEMMA NextAgree ==
  ASSUME TypeInv, Agreement, [Next]_vars
  PROVE  Agreement'
<1>1. CASE RowsOnly
  BY <1>1, RowsOnlyAgree
<1>2. ASSUME NEW v \in evals, CompleteChanged(v) PROVE Agreement'
  BY <1>2, CompleteReports, ReportedAgree
<1>3. ASSUME NEW d \in DOMAIN deliveries, Lives(d) PROVE Agreement'
  <2>1. CASE Chained(d)
    BY <1>3, <2>1, ChainedAgree DEF Lives
  <2>2. CASE (Attends(d) \/ Runs(d)) /\ UNCHANGED <<pool, landed>>
    <3>1. Agreed(d)'
      BY <2>2, AttendsAgree, RunsAgree DEF Agreement
    <3>2. ASSUME NEW c \in DOMAIN deliveries, c # d PROVE Agreed(c)'
      <4>1. Landed(c)' <=> Landed(c)
        BY <2>2 DEF Landed
      <4> QED BY <1>3, <2>2, <3>2, <4>1, Undisturbed DEF Agreement, Lives, OthersKept
    <3> QED BY <1>3, <3>1, <3>2 DEF Agreement, Lives, OthersKept
  <2> QED BY <1>3, <2>1, <2>2 DEF Lives
<1> QED BY <1>1, <1>2, <1>3, RowSteps, DeliverLives

\* Agreement says that outcomes are true.
LEMMA AgreementSuffices == Agreement => OutcomeIsTrue
BY DEF Agreement, Agreed, Agree, OutcomeIsTrue, Underway

\* What the service says of a report is so, whatever workers crash or are
\* killed: a pending or failed one is not and will not be on the chain, an
\* accepted one is there.
THEOREM OutcomeCorrect == Spec => []OutcomeIsTrue
<1>1. Init => TypeInv /\ Agreement
  BY InitTypes DEF Init, Agreement
<1>2. TypeInv /\ Agreement /\ [Next]_vars => TypeInv' /\ Agreement'
  BY NextTypes, NextAgree
<1>3. Agreement => OutcomeIsTrue
  BY AgreementSuffices
<1> QED BY <1>1, <1>2, <1>3, PTL DEF Spec

-----------------------------------------------------------------------------
(* The lane.                                                               *)

HasLock(d) == sender[d] \in {"locked", "fenced", "running"}
Started(d) == deliveries[d].attempt = "started"

\* One worker at most has the lock, and while it only has the lock no attempt is
\* open; so there is at most one open attempt.
Lane ==
  /\ \A c, d \in DOMAIN deliveries : HasLock(c) /\ HasLock(d) => c = d
  /\ \A c, d \in DOMAIN deliveries : sender[d] = "locked" => ~Started(c)
  /\ \A c, d \in DOMAIN deliveries : Started(c) /\ Started(d) => c = d

\* d does not take the lock and opens no attempt.
NoClaim(d) ==
  /\ HasLock(d)' => HasLock(d)
  /\ sender'[d] = "locked" => sender[d] = "locked"
  /\ Started(d)' => Started(d)

\* The lane stays if nobody takes it.
LEMMA LaneKept ==
  ASSUME Lane, DOMAIN deliveries' = DOMAIN deliveries, \A d \in DOMAIN deliveries : NoClaim(d)
  PROVE  Lane'
BY DEF Lane, NoClaim

\* Deliveries that are as they were take nothing.
LEMMA OthersNoClaim ==
  ASSUME NEW d \in DOMAIN deliveries, OthersKept(d)
  PROVE  \A c \in DOMAIN deliveries : c # d => NoClaim(c)
BY DEF OthersKept, NoClaim, HasLock, Started

\* The lock is taken when it is free, an attempt opened under it.
LEMMA LivesLane ==
  ASSUME TypeInv, Agreement, Lane, NEW d \in DOMAIN deliveries, Lives(d)
  PROVE  Lane'
<1>1. DOMAIN deliveries' = DOMAIN deliveries /\ \A c \in DOMAIN deliveries : c # d => NoClaim(c)
  BY OthersNoClaim DEF Lives, OthersKept
<1>2. CASE /\ sender[d] = "claimed" /\ LaneHolders = {} /\ LaneFree
           /\ Is(d, deliveries[d].status, deliveries[d].attempt, "locked", child[d])
  <2>1. \A c \in DOMAIN deliveries : ~HasLock(c) /\ ~Started(c)
    BY <1>2, DeliveryRows DEF LaneHolders, LaneFree, HasLock, Started
  <2>2. \A c \in DOMAIN deliveries : c # d => ~HasLock(c)' /\ ~Started(c)'
    BY <1>1, <2>1 DEF NoClaim
  <2>3. ~Started(d)'
    BY <1>2, <2>1 DEF Is, Started
  <2> QED BY <1>1, <2>2, <2>3 DEF Lane, HasLock
<1>3. CASE sender[d] = "locked" /\ Is(d, deliveries[d].status, "started", "fenced", child[d])
  <2>1. \A c \in DOMAIN deliveries : (c # d => ~HasLock(c)) /\ ~Started(c)
    BY <1>3 DEF Lane, HasLock
  <2>2. \A c \in DOMAIN deliveries : c # d => ~HasLock(c)' /\ ~Started(c)'
    BY <1>1, <2>1 DEF NoClaim
  <2>3. sender'[d] = "fenced"
    BY <1>3 DEF Is
  <2> QED BY <1>1, <2>2, <2>3 DEF Lane, HasLock
<1>4. CASE NoClaim(d)
  BY <1>1, <1>4, LaneKept
<1>5. CASE Runs(d) \/ Chained(d)
  <2>1. NoClaim(d)
    BY <1>5 DEF Runs, Chained, Is, NoClaim, HasLock, Started
  <2> QED BY <1>4, <2>1
<1>6. CASE Attends(d)
  <2>1. Agreed(d)
    BY DEF Agreement
  <2>2. \/ NoClaim(d)
        \/ /\ sender[d] = "claimed" /\ LaneHolders = {} /\ LaneFree
           /\ Is(d, deliveries[d].status, deliveries[d].attempt, "locked", child[d])
        \/ sender[d] = "locked" /\ Is(d, deliveries[d].status, "started", "fenced", child[d])
    BY <1>6, <2>1 DEF Attends, Outcome, Is, NoClaim, HasLock, Started
  <2> QED BY <1>2, <1>3, <1>4, <2>2
<1> QED BY <1>5, <1>6 DEF Lives

\* The lane is inductive.
LEMMA NextLane ==
  ASSUME TypeInv, Agreement, Lane, [Next]_vars
  PROVE  Lane'
<1>1. CASE RowsOnly
  BY <1>1, LaneKept DEF RowsOnly, KeptOrFailed, NoClaim, HasLock, Started
<1>2. ASSUME NEW v \in evals, CompleteChanged(v) PROVE Lane'
  <2>1. Reported(v)
    BY <1>2, CompleteReports
  <2>2. PICK n : n = Len(deliveries) + 1
    OBVIOUS
  <2>3. Len(deliveries) \in Nat
    BY DEF TypeInv, Rows
  <2>4. /\ ~HasLock(n)' /\ ~Started(n)' /\ sender'[n] # "locked"
        /\ \A c \in DOMAIN deliveries' : c \in DOMAIN deliveries \/ c = n
    BY <2>1, <2>2, <2>3 DEF Reported, NewReport, HasLock, Started
  <2>5. \A c \in DOMAIN deliveries : NoClaim(c)
    BY <2>1 DEF Reported, NoClaim, HasLock, Started
  <2> QED BY <2>4, <2>5 DEF Lane, NoClaim
<1> QED BY <1>1, <1>2, RowSteps, DeliverLives, LivesLane

\* What is under way has an open attempt.
LEMMA LaneSuffices == Agreement /\ Lane => LaneExclusive
BY DEF Agreement, Agreed, Agree, Lane, Started, LaneExclusive, Underway

\* The broadcaster is never used for two reports at once: not when a worker is
\* gone and its process lives on, and not when its transaction still waits.
THEOREM LaneCorrect == Spec => []LaneExclusive
<1>1. Init => TypeInv /\ Agreement /\ Lane
  BY InitTypes DEF Init, Agreement, Lane
<1>2. TypeInv /\ Agreement /\ Lane /\ [Next]_vars => TypeInv' /\ Agreement' /\ Lane'
  BY NextTypes, NextAgree, NextLane
<1>3. Agreement /\ Lane => LaneExclusive
  BY LaneSuffices
<1> QED BY <1>1, <1>2, <1>3, PTL DEF Spec

-----------------------------------------------------------------------------
(* One after another.                                                      *)

\* A report that was claimed had all earlier ones of its owner decided.
InOrder ==
  \A d \in DOMAIN deliveries :
    deliveries[d].status \in {"broadcast", "accepted"} => Unblocked(d)

Decided(d) == deliveries[d].status \in {"accepted", "failed"}

\* Nothing decided is opened again, and d is claimed in turn.
InTurn(d) ==
  /\ Decided(d) => Decided(d)'
  /\ deliveries'[d].status \in {"broadcast", "accepted"} =>
       deliveries[d].status \in {"broadcast", "accepted"} \/ Unblocked(d)

\* A report keeps its strategy and its owner.
LEMMA OwnerKept ==
  ASSUME TypeInv, StrategiesKept, NEW d \in DOMAIN deliveries,
         deliveries'[d].sub = deliveries[d].sub
  PROVE  StrategyOf(d)' = StrategyOf(d) /\ OwnerOf(d)' = OwnerOf(d)
<1>1. deliveries[d].sub \in DOMAIN subs
  BY DEF TypeInv, References
<1> QED BY <1>1 DEF StrategiesKept, StrategyOf, OwnerOf

\* A delivery stays in order when all others are in turn.
LEMMA OrderKept ==
  ASSUME TypeInv, InOrder, StrategiesKept, NEW d \in DOMAIN deliveries,
         \A c \in DOMAIN deliveries : InTurn(c) /\ deliveries'[c].sub = deliveries[c].sub,
         deliveries'[d].status \in {"broadcast", "accepted"}
  PROVE  Unblocked(d)'
<1>1. Unblocked(d)
  BY DEF InOrder, InTurn
<1>2. \A c \in 1 .. d - 1 : c \in DOMAIN deliveries
  BY DEF TypeInv, Rows
<1>3. \A c \in 1 .. d - 1 : OwnerOf(c)' = OwnerOf(d)' => Decided(c)'
  <2> SUFFICES ASSUME NEW c \in 1 .. d - 1, OwnerOf(c)' = OwnerOf(d)' PROVE Decided(c)'
    OBVIOUS
  <2>1. OwnerOf(c)' = OwnerOf(c) /\ OwnerOf(d)' = OwnerOf(d)
    BY <1>2, OwnerKept
  <2>2. Decided(c)
    BY <1>1, <2>1 DEF Unblocked, Decided
  <2> QED BY <1>2, <2>2 DEF InTurn
<1> QED BY <1>3 DEF Unblocked, Decided

\* A delivery's life is in turn.
LEMMA LivesInTurn ==
  ASSUME TypeInv, Agreement, NEW d \in DOMAIN deliveries, Lives(d)
  PROVE  /\ DOMAIN deliveries' = DOMAIN deliveries /\ StrategiesKept
         /\ \A c \in DOMAIN deliveries : InTurn(c) /\ deliveries'[c].sub = deliveries[c].sub
<1>1. DOMAIN deliveries' = DOMAIN deliveries /\ StrategiesKept
  BY DEF Lives, OthersKept, StrategiesKept
<1>2. \A c \in DOMAIN deliveries : /\ deliveries'[c].sub = deliveries[c].sub
                                   /\ c # d => InTurn(c)
  BY DEF Lives, OthersKept, InTurn, Decided
<1>3. Agreed(d)
  BY DEF Agreement
<1>4. CASE Attends(d)
  BY <1>1, <1>2, <1>3, <1>4 DEF Attends, Is, InTurn, Decided
<1>5. CASE Runs(d)
  BY <1>1, <1>2, <1>5 DEF Runs, Is, InTurn, Decided
<1>6. CASE Chained(d)
  BY <1>1, <1>2, <1>6 DEF Chained, Is, InTurn, Decided
<1> QED BY <1>4, <1>5, <1>6 DEF Lives

\* The order is inductive.
LEMMA NextInOrder ==
  ASSUME TypeInv, Agreement, InOrder, [Next]_vars
  PROVE  InOrder'
<1>1. CASE RowsOnly
  <2>1. \A c \in DOMAIN deliveries : InTurn(c) /\ deliveries'[c].sub = deliveries[c].sub
    BY <1>1 DEF RowsOnly, KeptOrFailed, InTurn, Decided
  <2> QED BY <1>1, <2>1, OrderKept DEF InOrder, RowsOnly
<1>2. ASSUME NEW v \in evals, CompleteChanged(v) PROVE InOrder'
  <2>1. Reported(v)
    BY <1>2, CompleteReports
  <2>2. \A c \in DOMAIN deliveries : InTurn(c) /\ deliveries'[c].sub = deliveries[c].sub
    BY <2>1 DEF Reported, InTurn, Decided
  <2>3. PICK n : n = Len(deliveries) + 1
    OBVIOUS
  <2>4. Len(deliveries) \in Nat
    BY DEF TypeInv, Rows
  <2>5. /\ deliveries'[n].status = "pending"
        /\ \A c \in DOMAIN deliveries' : c \in DOMAIN deliveries \/ c = n
    BY <2>1, <2>3, <2>4 DEF Reported, NewReport
  <2>6. StrategiesKept
    BY <2>1 DEF Reported
  <2>7. ASSUME NEW d \in DOMAIN deliveries', deliveries'[d].status \in {"broadcast", "accepted"}
        PROVE  Unblocked(d)'
    <3>1. d \in DOMAIN deliveries
      BY <2>5, <2>7
    <3> QED BY <2>2, <2>6, <2>7, <3>1, OrderKept
  <2> QED BY <2>7 DEF InOrder
<1>3. ASSUME NEW d \in DOMAIN deliveries, Lives(d) PROVE InOrder'
  BY <1>3, LivesInTurn, OrderKept DEF InOrder
<1> QED BY <1>1, <1>2, <1>3, RowSteps, DeliverLives

\* A report that landed was claimed.
LEMMA OrderSuffices ==
  ASSUME TypeInv, Agreement, InOrder
  PROVE  LandInTurn
<1> SUFFICES ASSUME NEW i \in DOMAIN landed PROVE Unblocked(landed[i])
  BY DEF LandInTurn, Unblocked
<1>1. PICK d : d = landed[i] /\ d \in DOMAIN deliveries
  BY DEF TypeInv, References
<1>2. Landed(d)
  BY <1>1 DEF Landed
<1>3. deliveries[d].status \in {"pending", "broadcast", "accepted", "failed"}
  BY <1>1, DeliveryRows DEF DeliveryRow
<1>4. deliveries[d].status \in {"broadcast", "accepted"}
  BY <1>1, <1>2, <1>3 DEF Agreement, Agreed, Agree
<1> QED BY <1>1, <1>4 DEF InOrder

\* A report lands only when every earlier report of its owner is decided.
THEOREM OrderCorrect == Spec => []LandInTurn
<1>1. Init => TypeInv /\ Agreement /\ InOrder
  BY InitTypes DEF Init, Agreement, InOrder
<1>2. TypeInv /\ Agreement /\ InOrder /\ [Next]_vars => TypeInv' /\ Agreement' /\ InOrder'
  BY NextTypes, NextAgree, NextInOrder
<1>3. TypeInv /\ Agreement /\ InOrder => LandInTurn
  BY OrderSuffices
<1> QED BY <1>1, <1>2, <1>3, PTL DEF Spec

-----------------------------------------------------------------------------
(* The nonces.                                                             *)

\* A nonce that was given out is not above the last one of its strategy.
Numbered ==
  /\ NoncesIncrease
  /\ \A d \in DOMAIN deliveries : deliveries[d].nonce <= nonces[StrategyOf(d)]

\* The rows keep their nonces and their strategies.
LEMMA NumbersKept ==
  ASSUME TypeInv, Numbered, StrategiesKept, nonces' = nonces,
         DOMAIN deliveries' = DOMAIN deliveries,
         \A d \in DOMAIN deliveries : /\ deliveries'[d].sub = deliveries[d].sub
                                      /\ deliveries'[d].nonce = deliveries[d].nonce
  PROVE  Numbered'
<1>1. \A d \in DOMAIN deliveries : StrategyOf(d)' = StrategyOf(d)
  BY OwnerKept
<1> QED BY <1>1 DEF Numbered, NoncesIncrease

\* A new report has the highest nonce of its strategy.
LEMMA ReportedNumbered ==
  ASSUME TypeInv, Numbered, NEW v \in evals, Reported(v)
  PROVE  Numbered'
<1>1. PICK n : n = Len(deliveries) + 1 /\ n \in Nat
  BY DEF TypeInv, Rows
<1>2. PICK s : s = Subject(v)
  OBVIOUS
<1>3. PICK k : k = NextNonce(v)
  OBVIOUS
<1>4. s \in Strategies /\ nonces \in [Strategies -> Nat] /\ k \in Nat /\ k > nonces[s]
  BY <1>2, <1>3, EvalRows, NewReportType DEF TypeInv, Rows
<1>5. /\ DOMAIN deliveries = 1 .. n - 1 /\ DOMAIN deliveries' = 1 .. n
      /\ deliveries'[n].sub = SubOf(v) /\ deliveries'[n].nonce = k
      /\ nonces' = [nonces EXCEPT ![s] = k]
      /\ StrategiesKept
  BY <1>1, <1>2, <1>3 DEF Reported, NewReport
<1>6. \A d \in DOMAIN deliveries : /\ StrategyOf(d)' = StrategyOf(d) /\ StrategyOf(d) \in Strategies
                                   /\ deliveries'[d] = deliveries[d] /\ deliveries[d].nonce \in Nat
  <2> SUFFICES ASSUME NEW d \in DOMAIN deliveries
               PROVE  /\ StrategyOf(d)' = StrategyOf(d) /\ StrategyOf(d) \in Strategies
                      /\ deliveries'[d] = deliveries[d] /\ deliveries[d].nonce \in Nat
    OBVIOUS
  <2>1. deliveries'[d] = deliveries[d]
    BY DEF Reported
  <2>2. deliveries[d].nonce \in Nat
    BY DeliveryRows DEF DeliveryRow
  <2> QED BY <1>5, <2>1, <2>2, OwnerKept, StrategyTypes
<1>7. StrategyOf(n)' = s
  <2>1. SubOf(v) \in DOMAIN subs
    BY EvalRows
  <2> QED BY <1>2, <1>5, <2>1 DEF StrategiesKept, StrategyOf, Subject
<1>8. \A d \in DOMAIN deliveries : deliveries[d].nonce <= nonces[StrategyOf(d)]
  BY DEF Numbered
<1>9. \A d \in DOMAIN deliveries' : deliveries'[d].nonce <= nonces'[StrategyOf(d)']
  <2> SUFFICES ASSUME NEW d \in DOMAIN deliveries' PROVE deliveries'[d].nonce <= nonces'[StrategyOf(d)']
    OBVIOUS
  <2>1. CASE d = n
    BY <1>4, <1>5, <1>7, <2>1
  <2>2. CASE d \in DOMAIN deliveries /\ StrategyOf(d) = s
    <3>1. deliveries'[d].nonce \in Nat /\ deliveries'[d].nonce <= nonces[s]
      BY <1>6, <1>8, <2>2
    <3>2. nonces'[StrategyOf(d)'] = k /\ nonces[s] \in Nat
      BY <1>4, <1>5, <1>6, <2>2
    <3> QED BY <1>4, <3>1, <3>2
  <2>3. CASE d \in DOMAIN deliveries /\ StrategyOf(d) # s
    BY <1>4, <1>5, <1>6, <1>8, <2>3
  <2> QED BY <1>1, <1>5, <2>1, <2>2, <2>3
<1>10. ASSUME NEW c \in DOMAIN deliveries', NEW d \in DOMAIN deliveries',
              c < d, StrategyOf(c)' = StrategyOf(d)'
       PROVE  deliveries'[c].nonce < deliveries'[d].nonce
  <2>1. c \in DOMAIN deliveries
    BY <1>1, <1>5, <1>10
  <2>2. CASE d \in DOMAIN deliveries
    BY <1>6, <1>10, <2>1, <2>2 DEF Numbered, NoncesIncrease
  <2>3. CASE d = n
    <3>1. StrategyOf(c) = s
      BY <1>6, <1>7, <1>10, <2>1, <2>3
    <3>2. deliveries'[c].nonce \in Nat /\ deliveries'[c].nonce <= nonces[s]
      BY <1>6, <1>8, <2>1, <3>1
    <3>3. deliveries'[d].nonce = k /\ nonces[s] \in Nat
      BY <1>4, <1>5, <2>3
    <3> QED BY <1>4, <3>2, <3>3
  <2> QED BY <1>1, <1>5, <2>2, <2>3
<1> QED BY <1>9, <1>10 DEF Numbered, NoncesIncrease

\* The numbering is inductive.
LEMMA NextNumbered ==
  ASSUME TypeInv, Numbered, [Next]_vars
  PROVE  Numbered'
<1>1. CASE RowsOnly
  BY <1>1, NumbersKept DEF RowsOnly, KeptOrFailed
<1>2. ASSUME NEW v \in evals, CompleteChanged(v) PROVE Numbered'
  BY <1>2, CompleteReports, ReportedNumbered
<1>3. ASSUME NEW d \in DOMAIN deliveries, Lives(d) PROVE Numbered'
  BY <1>3, NumbersKept DEF Lives, OthersKept, StrategiesKept
<1> QED BY <1>1, <1>2, <1>3, RowSteps, DeliverLives

\* A nonce of a strategy is given out once, and later reports get higher ones.
THEOREM NoncesCorrect == Spec => []NoncesIncrease
<1>1. Init => TypeInv /\ Numbered
  BY InitTypes DEF Init, Numbered, NoncesIncrease
<1>2. TypeInv /\ Numbered /\ [Next]_vars => TypeInv' /\ Numbered'
  BY NextTypes, NextNumbered
<1>3. Numbered => NoncesIncrease
  BY DEF Numbered
<1> QED BY <1>1, <1>2, <1>3, PTL DEF Spec

\* Reports land in turn, with growing nonces.
THEOREM ReportsInOrder == Spec => []OrderIsKept
<1>1. OrderIsKept <=> LandInTurn /\ NoncesIncrease
  BY DEF OrderIsKept
<1>2. Spec => []LandInTurn
  BY OrderCorrect
<1>3. Spec => []NoncesIncrease
  BY NoncesCorrect
<1> QED
  BY <1>1, <1>2, <1>3, PTL

-----------------------------------------------------------------------------
(* What is left when everything is done.                                   *)

\* Job j is the newest of subscription x.
Newest(x, j) ==
  /\ j \in DOMAIN jobs /\ jobs[j].sub = x
  /\ \A k \in DOMAIN jobs : jobs[k].sub = x => k <= j

\* The evaluation has the lease of its job.
Owns(v) == jobs[v.job].leased /\ jobs[v.job].tries = v.token

\* One job of a subscription is leased at a time, and it is running.
Leases ==
  /\ \A j \in DOMAIN jobs : jobs[j].leased => jobs[j].state = "running"
  /\ \A j, k \in DOMAIN jobs :
       jobs[j].leased /\ jobs[k].leased /\ jobs[j].sub = jobs[k].sub => j = k
  /\ \A v \in evals : v.token <= jobs[v.job].tries

\* A subscription has a newest job, and its last report is its own.
Books ==
  /\ \A x \in DOMAIN subs : \E j \in DOMAIN jobs : Newest(x, j)
  /\ \A x \in DOMAIN subs : subs[x].last # 0 => deliveries[subs[x].last].sub = x

\* A report that landed, or was found to be in effect, is in effect until it is
\* decided: no other report of its owner lands meanwhile.
Acted(d) == Landed(d) \/ child[d] = "effective" \/ deliveries[d].attempt = "effective"

Answered ==
  \A d \in DOMAIN deliveries :
    deliveries[d].status = "broadcast" /\ Acted(d) =>
      IsRevoked(StrategyOf(d)) \/ Effective(StrategyOf(d), deliveries[d].terms)

\* Something about the strategy is told and not yet heard.
Told(s) == \E e \in DOMAIN events : events[e].state # "canonical" /\ s \in events[e].about

\* The report may still be tried, or never will be.
Open(d) == deliveries[d].status \in {"pending", "broadcast"} \/ GivenUp(d)

\* What the guard should say is on its way to it.
Coming(x) ==
  /\ subs[x].last # 0
  /\ deliveries[subs[x].last].terms = market[subs[x].strategy]
  /\ ~Landed(subs[x].last) /\ Open(subs[x].last)

\* What evaluator v of x knows is right, if v has the newest job j or j has succeeded.
Right(v, x, j) ==
  /\ (v.job = j \/ jobs[j].state = "succeeded") /\ v.at \in {"simulated", "changed"} =>
       /\ v.terms = market[subs[x].strategy]
       /\ v.at = "changed" => ~IsRevoked(subs[x].strategy)
  /\ v.job = j /\ v.at = "unchanged" =>
       /\ ~IsRevoked(subs[x].strategy)
       /\ Effective(subs[x].strategy, market[subs[x].strategy])

Known(x, j) == \A v \in evals : Owns(v) /\ SubOf(v) = x => Right(v, x, j)

\* When it has succeeded, the guard is right or will be told.
Done(x, j) ==
  jobs[j].state = "succeeded" =>
    /\ ~IsRevoked(subs[x].strategy)
    /\ Effective(subs[x].strategy, market[subs[x].strategy]) \/ Coming(x)

Hears(x) == Ready(x) /\ subs[x].source = "*" /\ ~Told(subs[x].strategy)

InLine ==
  \A x \in DOMAIN subs, j \in DOMAIN jobs :
    Hears(x) /\ Newest(x, j) => Known(x, j) /\ Done(x, j)

Settling == Leases /\ Books /\ Answered /\ InLine

\* A Maker does not take a revocation back.
RevocationsStand == \A s \in Strategies : IsRevoked(s) => IsRevoked(s)'

\* What the chain, the market and the guard say of s is as it was.
Unmoved(s) ==
  /\ IsRevoked(s)' = IsRevoked(s) /\ market'[s] = market[s]
  /\ \A t \in Terms : Effective(s, t)' <=> Effective(s, t)

\* Rows are added and finished; none is given to another or made open again.
SubsKept ==
  \A x \in DOMAIN subs :
    /\ x \in DOMAIN subs' /\ subs'[x].strategy = subs[x].strategy
    /\ subs'[x].source = subs[x].source /\ subs'[x].last = subs[x].last
    /\ Ready(x)' => Ready(x)

EventsKept ==
  \A e \in DOMAIN events :
    /\ e \in DOMAIN events' /\ events'[e].retry = events[e].retry
    /\ events'[e].about = events[e].about /\ events'[e].source = events[e].source

JobsKept ==
  \A k \in DOMAIN jobs :
    /\ k \in DOMAIN jobs' /\ jobs'[k].sub = jobs[k].sub /\ jobs'[k].event = jobs[k].event
    /\ jobs'[k].tries = jobs[k].tries
    /\ jobs'[k].leased => jobs[k].leased /\ jobs'[k].state = jobs[k].state
    /\ jobs'[k].state = "succeeded" => jobs[k].state = "succeeded"

JobsAreNew ==
  \A k \in DOMAIN jobs' \ DOMAIN jobs :
    jobs'[k].state = "pending" /\ ~jobs'[k].leased /\ \A i \in DOMAIN jobs : i < k

Carried == SubsKept /\ EventsKept /\ JobsKept /\ JobsAreNew /\ evals' = evals

\* An event is added.
LEMMA EventAppended ==
  ASSUME TypeInv,
         NEW source \in {"activation", "market", "guard", "maker", "retry"},
         NEW about \in SUBSET Strategies, NEW state \in {"emitted", "canonical", "reorged"},
         NEW n \in 0 .. MaxTries,
         events' = Append(events, Event(source, about, state, n))
  PROVE  /\ EventsKept
         /\ \A e \in DOMAIN events : events'[e] = events[e]
         /\ \A s : Told(s) => Told(s)'
         /\ state # "canonical" => \A s \in about : Told(s)'
<1> DEFINE new == Event(source, about, state, n)
<1>1. new \in EventRow /\ new.about = about /\ new.state = state
  BY DEF Event, EventRow
<1> HIDE DEF new
<1>2. events \in Seq(EventRow) /\ events' = Append(events, new)
  BY DEF TypeInv, Rows, new
<1>3. /\ DOMAIN events \subseteq DOMAIN events' /\ Len(events) + 1 \in DOMAIN events'
      /\ \A e \in DOMAIN events : events'[e] = events[e]
      /\ events'[Len(events) + 1] = new
  BY <1>1, <1>2, Appended
<1> QED BY <1>1, <1>3 DEF EventsKept, Told

\* A job is added.
LEMMA JobAppended ==
  ASSUME TypeInv, NEW old \in Seq(JobRow), DOMAIN old = DOMAIN jobs,
         \A k \in DOMAIN jobs :
           /\ old[k].sub = jobs[k].sub /\ old[k].event = jobs[k].event
           /\ old[k].tries = jobs[k].tries
           /\ old[k].leased => jobs[k].leased /\ old[k].state = jobs[k].state
           /\ old[k].state = "succeeded" => jobs[k].state = "succeeded",
         NEW x \in Nat, NEW e \in Nat, jobs' = Append(old, Job(x, e))
  PROVE  /\ JobsKept /\ JobsAreNew
         /\ Len(old) + 1 \in DOMAIN jobs' /\ jobs'[Len(old) + 1].sub = x
         /\ Len(old) + 1 \notin DOMAIN jobs
         /\ \A k \in DOMAIN jobs' : k \in DOMAIN jobs \/ k = Len(old) + 1
         /\ \A k \in DOMAIN jobs' : k <= Len(old) + 1
<1>1. Job(x, e) \in JobRow /\ Job(x, e).sub = x
  BY JobTypes
<1>2. Job(x, e).state = "pending" /\ ~Job(x, e).leased
  BY DEF Job
<1>3. PICK new \in JobRow : new.sub = x /\ new.state = "pending" /\ ~new.leased /\ new = Job(x, e)
  BY <1>1, <1>2
<1>4. /\ DOMAIN jobs' = 1 .. Len(old) + 1 /\ DOMAIN old = 1 .. Len(old) /\ Len(old) \in Nat
      /\ \A k \in DOMAIN old : jobs'[k] = old[k]
      /\ jobs'[Len(old) + 1] = new
  BY <1>3, Appended
<1>5. \A k \in 1 .. Len(old) + 1 : k \in 1 .. Len(old) \/ k = Len(old) + 1
  BY <1>4
<1>6. JobsKept
  BY <1>4 DEF JobsKept
<1>7. JobsAreNew
  BY <1>3, <1>4, <1>5 DEF JobsAreNew
<1> QED BY <1>3, <1>4, <1>5, <1>6, <1>7

\* Nothing happens to the rows.
LEMMA NothingCarried ==
  ASSUME UNCHANGED <<subs, events, jobs>>
  PROVE  SubsKept /\ EventsKept /\ JobsKept /\ JobsAreNew
BY DEF SubsKept, EventsKept, JobsKept, JobsAreNew, Ready

\* Silencing and cancelling only take away.
LEMMA SilencedKept ==
  ASSUME TypeInv, NEW X, NEW x \in DOMAIN subs
  PROVE  /\ x \in DOMAIN Silenced(X) /\ Silenced(X)[x].source = subs[x].source
         /\ Silenced(X)[x].consented = subs[x].consented
         /\ Silenced(X)[x].live => subs[x].live /\ x \notin X
<1>1. subs[x] \in SubRow
  BY DEF TypeInv, Rows
<1>2. /\ [subs[x] EXCEPT !.live = FALSE].source = subs[x].source
      /\ [subs[x] EXCEPT !.live = FALSE].consented = subs[x].consented
      /\ [subs[x] EXCEPT !.live = FALSE].live = FALSE
  BY <1>1 DEF SubRow
<1> QED BY <1>2 DEF Silenced

\* ... of jobs too.
LEMMA CancelledKept ==
  ASSUME TypeInv, NEW X, NEW k \in DOMAIN jobs
  PROVE  /\ CancelledJobs(X)[k].tries = jobs[k].tries
         /\ CancelledJobs(X)[k].leased =>
              jobs[k].leased /\ CancelledJobs(X)[k].state = jobs[k].state
         /\ CancelledJobs(X)[k].state = "succeeded" => jobs[k].state = "succeeded"
<1>1. jobs[k] \in JobRow
  BY DEF TypeInv, Rows
<1>2. PICK row : row = [jobs[k] EXCEPT !.state = "cancelled", !.leased = FALSE]
  OBVIOUS
<1>3. row.tries = jobs[k].tries /\ row.leased = FALSE /\ row.state = "cancelled"
  BY <1>1, <1>2 DEF JobRow
<1>4. CancelledJobs(X)[k] = row \/ CancelledJobs(X)[k] = jobs[k]
  BY <1>2 DEF CancelledJobs
<1> QED BY <1>3, <1>4

HaveNewest == \A x \in DOMAIN subs : \E j \in DOMAIN jobs : Newest(x, j)
ToldStays == \A s : Told(s) => Told(s)'

\* A job that is added is the newest of its subscription.
LEMMA NewestAppended ==
  ASSUME HaveNewest, JobsKept, NEW x, NEW n \in DOMAIN jobs', jobs'[n].sub = x,
         \A k \in DOMAIN jobs' : k \in DOMAIN jobs \/ k = n,
         \A k \in DOMAIN jobs' : k <= n,
         \A y \in DOMAIN subs' : y \in DOMAIN subs \/ y = x
  PROVE  HaveNewest'
<1> SUFFICES ASSUME NEW y \in DOMAIN subs' PROVE \E j \in DOMAIN jobs' : Newest(y, j)'
  BY DEF HaveNewest
<1>1. CASE y = x
  <2>1. Newest(y, n)'
    BY <1>1 DEF Newest
  <2> QED BY <2>1
<1>2. CASE y # x
  <2>1. PICK j \in DOMAIN jobs : Newest(y, j)
    BY <1>2 DEF HaveNewest
  <2>2. j \in DOMAIN jobs' /\ Newest(y, j)'
    BY <1>2, <2>1 DEF Newest, JobsKept
  <2> QED BY <2>2
<1> QED BY <1>1, <1>2

\* No job is added.
LEMMA NewestKept ==
  ASSUME HaveNewest, JobsKept, DOMAIN jobs' = DOMAIN jobs, DOMAIN subs' = DOMAIN subs
  PROVE  HaveNewest' /\ JobsAreNew
BY DEF HaveNewest, Newest, JobsKept, JobsAreNew

\* Nothing happens to the rows.
LEMMA NothingNew ==
  ASSUME HaveNewest, UNCHANGED <<subs, events, jobs>>
  PROVE  /\ SubsKept /\ EventsKept /\ JobsKept /\ JobsAreNew
         /\ HaveNewest' /\ ToldStays
BY NothingCarried, NewestKept DEF ToldStays, Told

\* A new subscription comes with a job of its own, which is its newest.
LEMMA EnableCarries ==
  ASSUME TypeInv, HaveNewest, NEW s \in Strategies, NEW source \in Sources, Enable(s, source)
  PROVE  Carried /\ HaveNewest' /\ ToldStays
<1>1. PICK X, row, old :
        /\ row = [strategy |-> s, source |-> source, live |-> TRUE, consented |-> TRUE, last |-> 0]
        /\ X = LiveSubs(Owner[s]) /\ old = CancelledJobs(X)
  OBVIOUS
<1>2. /\ subs' = Append(Silenced(X), row)
      /\ events' = Append(events, Event("activation", {s}, "canonical", 0))
      /\ jobs' = Append(old, Job(Len(subs) + 1, Len(events) + 1))
      /\ evals' = evals
  BY <1>1 DEF Enable
<1>3. Len(subs) \in Nat /\ Len(events) \in Nat /\ 0 \in 0 .. MaxTries /\ {s} \in SUBSET Strategies
  BY DeliveryAssumption DEF TypeInv, Rows
<1>4. row \in SubRow
  BY <1>1 DEF SubRow
<1>5. /\ DOMAIN subs' = 1 .. Len(subs) + 1 /\ DOMAIN subs = 1 .. Len(subs)
      /\ \A x \in DOMAIN subs : x \in DOMAIN subs' /\ subs'[x] = Silenced(X)[x]
  BY <1>2, <1>4, SilencedTypes, Appended DEF TypeInv, Rows
<1>6. SubsKept
  BY <1>5, SilencedTypes, SilencedKept DEF SubsKept, Ready
<1>7. EventsKept /\ ToldStays
  BY <1>2, <1>3, EventAppended DEF ToldStays
<1>8. /\ old \in Seq(JobRow) /\ Len(old) = Len(jobs) /\ DOMAIN old = DOMAIN jobs
      /\ \A k \in DOMAIN jobs : old[k].sub = jobs[k].sub /\ old[k].event = jobs[k].event
  BY <1>1, CancelledJobsTypes
<1>9. \A k \in DOMAIN jobs :
        /\ old[k].tries = jobs[k].tries
        /\ old[k].leased => jobs[k].leased /\ old[k].state = jobs[k].state
        /\ old[k].state = "succeeded" => jobs[k].state = "succeeded"
  BY <1>1, CancelledKept
<1>10. /\ JobsKept /\ JobsAreNew
       /\ Len(old) + 1 \in DOMAIN jobs' /\ jobs'[Len(old) + 1].sub = Len(subs) + 1
       /\ \A k \in DOMAIN jobs' : k \in DOMAIN jobs \/ k = Len(old) + 1
       /\ \A k \in DOMAIN jobs' : k <= Len(old) + 1
  BY <1>2, <1>3, <1>8, <1>9, JobAppended
<1>11. \A y \in DOMAIN subs' : y \in DOMAIN subs \/ y = Len(subs) + 1
  BY <1>3, <1>5
<1>12. HaveNewest'
  BY <1>10, <1>11, NewestAppended
<1> QED BY <1>2, <1>6, <1>7, <1>10, <1>12 DEF Carried

\* Stop adds nothing.
LEMMA StopCarries ==
  ASSUME TypeInv, HaveNewest, NEW x \in DOMAIN subs, Stop(x)
  PROVE  Carried /\ HaveNewest' /\ ToldStays
<1>1. /\ subs' = Silenced({x}) /\ jobs' = CancelledJobs({x})
      /\ events' = events /\ evals' = evals
  BY DEF Stop
<1>2. SubsKept /\ DOMAIN subs' = DOMAIN subs
  BY <1>1, SilencedTypes, SilencedKept DEF SubsKept, Ready
<1>3. EventsKept /\ ToldStays
  BY <1>1 DEF EventsKept, ToldStays, Told
<1>4. JobsKept /\ DOMAIN jobs' = DOMAIN jobs
  BY <1>1, CancelledJobsTypes, CancelledKept DEF JobsKept
<1> QED BY <1>1, <1>2, <1>3, <1>4, NewestKept DEF Carried

\* Lapse adds nothing.
LEMMA LapseCarries ==
  ASSUME TypeInv, HaveNewest, NEW x \in DOMAIN subs, Lapse(x)
  PROVE  Carried /\ HaveNewest' /\ ToldStays
<1>1. PICK row : row = [subs[x] EXCEPT !.consented = FALSE]
  OBVIOUS
<1>2. subs' = [subs EXCEPT ![x] = row] /\ UNCHANGED <<events, jobs, evals>>
  BY <1>1 DEF Lapse
<1>3. subs[x] \in SubRow
  BY DEF TypeInv, Rows
<1>4. /\ row.strategy = subs[x].strategy /\ row.source = subs[x].source
      /\ row.last = subs[x].last /\ row.consented = FALSE
  BY <1>1, <1>3 DEF SubRow
<1>5. DOMAIN subs' = DOMAIN subs /\ \A y \in DOMAIN subs : subs'[y] = IF y = x THEN row ELSE subs[y]
  BY <1>2
<1>6. SubsKept
  BY <1>4, <1>5 DEF SubsKept, Ready
<1>7. EventsKept /\ ToldStays /\ JobsKept
  BY <1>2 DEF EventsKept, ToldStays, Told, JobsKept
<1> QED BY <1>2, <1>5, <1>6, <1>7, NewestKept DEF Carried

\* Only an event is added, and it has not been heard.
LEMMA TellingCarries ==
  ASSUME TypeInv, HaveNewest, NEW source \in {"market", "guard", "maker"},
         NEW about \in SUBSET Strategies, UNCHANGED <<subs, jobs, evals>>,
         events' = Append(events, Event(source, about, "emitted", 0))
  PROVE  /\ Carried /\ HaveNewest' /\ ToldStays
         /\ \A s \in about : Told(s)'
<1>1. 0 \in 0 .. MaxTries
  BY DeliveryAssumption
<1>2. /\ EventsKept /\ ToldStays
      /\ \A s \in about : Told(s)'
  BY <1>1, EventAppended DEF ToldStays
<1>3. SubsKept /\ JobsKept
  BY DEF SubsKept, Ready, JobsKept
<1> QED BY <1>2, <1>3, NewestKept DEF Carried

\* MarkReorg: the event is told again, the jobs it had are as good as gone.
LEMMA ReorgCarries ==
  ASSUME TypeInv, HaveNewest, NEW e \in DOMAIN events, MarkReorg(e)
  PROVE  Carried /\ HaveNewest' /\ ToldStays
<1>1. /\ events' = [events EXCEPT ![e].state = "reorged"]
      /\ UNCHANGED <<subs, evals>>
      /\ jobs' = [j \in DOMAIN jobs |->
           IF jobs[j].event = e /\ ~jobs[j].reorged
           THEN [jobs[j] EXCEPT !.reorged = TRUE, !.leased = FALSE,
                   !.state = IF @ \in {"pending", "running"} THEN "cancelled" ELSE @]
           ELSE jobs[j]]
  BY DEF MarkReorg
<1>2. \A k \in DOMAIN events : events[k] \in EventRow
  BY DEF TypeInv, Rows
<1>3. /\ DOMAIN events' = DOMAIN events
      /\ \A k \in DOMAIN events :
           /\ events'[k].about = events[k].about /\ events'[k].retry = events[k].retry
           /\ events'[k].source = events[k].source
           /\ events[k].state # "canonical" => events'[k].state # "canonical"
  BY <1>1, <1>2 DEF EventRow
<1>4. EventsKept /\ ToldStays
  BY <1>3 DEF EventsKept, ToldStays, Told
<1>5. \A k \in DOMAIN jobs : jobs[k] \in JobRow
  BY DEF TypeInv, Rows
<1>6. JobsKept /\ DOMAIN jobs' = DOMAIN jobs
  BY <1>1, <1>5 DEF JobsKept, JobRow
<1>7. SubsKept
  BY <1>1 DEF SubsKept, Ready
<1> QED BY <1>1, <1>4, <1>6, <1>7, NewestKept DEF Carried

\* ExpireLease takes a lease away.
LEMMA ExpireCarries ==
  ASSUME TypeInv, HaveNewest, NEW j \in DOMAIN jobs, ExpireLease(j)
  PROVE  Carried /\ HaveNewest' /\ ToldStays
<1>1. PICK row : row = [jobs[j] EXCEPT !.leased = FALSE]
  OBVIOUS
<1>2. jobs' = [jobs EXCEPT ![j] = row] /\ UNCHANGED <<subs, events, evals>>
  BY <1>1 DEF ExpireLease
<1>3. jobs[j] \in JobRow
  BY DEF TypeInv, Rows
<1>4. /\ row.sub = jobs[j].sub /\ row.event = jobs[j].event /\ row.tries = jobs[j].tries
      /\ row.leased = FALSE /\ row.state = jobs[j].state
  BY <1>1, <1>3 DEF JobRow
<1>5. DOMAIN jobs' = DOMAIN jobs /\ \A k \in DOMAIN jobs : jobs'[k] = IF k = j THEN row ELSE jobs[k]
  BY <1>2
<1>6. JobsKept
  BY <1>4, <1>5 DEF JobsKept
<1>7. SubsKept /\ EventsKept /\ ToldStays
  BY <1>2 DEF SubsKept, Ready, EventsKept, ToldStays, Told
<1> QED BY <1>2, <1>5, <1>6, <1>7, NewestKept DEF Carried

\* Ingest: who hears of the event has a job for it.
LEMMA IngestCarries ==
  ASSUME TypeInv, HaveNewest, NEW e \in DOMAIN events, Ingest(e)
  PROVE  /\ Carried /\ HaveNewest'
         /\ \A x \in Concerned(e) : \E k \in DOMAIN jobs' \ DOMAIN jobs : jobs'[k].sub = x
         /\ \A s : Told(s) /\ s \notin events[e].about => Told(s)'
<1>1. PICK C, n : C = Concerned(e) /\ n = Cardinality(C)
  OBVIOUS
<1>2. /\ C \subseteq DOMAIN subs /\ DOMAIN subs \subseteq Nat
      /\ IsFiniteSet(C) /\ n \in Nat /\ e \in Nat
  <2>1. C \subseteq 1 .. Len(subs) /\ e \in Nat /\ DOMAIN subs = 1 .. Len(subs)
    BY <1>1 DEF Concerned, TypeInv, Rows
  <2>2. IsFiniteSet(1 .. Len(subs)) /\ 1 .. Len(subs) \subseteq Nat
    BY FS_Interval DEF TypeInv, Rows
  <2> QED BY <1>1, <2>1, <2>2, FS_Subset, FS_CardinalityType
<1>3. PICK queue \in [1 .. n -> C] :
        /\ \A i, k \in DOMAIN queue : i < k => queue[i] < queue[k]
        /\ jobs' = jobs \o [i \in DOMAIN queue |-> Job(queue[i], e)]
  BY <1>1 DEF Ingest
<1>4. \A i, k \in 1 .. n : queue[i] = queue[k] => i = k
  <2> SUFFICES ASSUME NEW i \in 1 .. n, NEW k \in 1 .. n, i # k PROVE queue[i] # queue[k]
    OBVIOUS
  <2>1. queue[i] \in Nat /\ queue[k] \in Nat
    BY <1>2
  <2>2. i < k \/ k < i
    BY <1>2
  <2> QED BY <1>3, <2>1, <2>2
<1>5. \A x \in C : \E i \in 1 .. n : queue[i] = x
  <2>1. queue \in Injection(1 .. n, C)
    BY <1>4 DEF Injection, IsInjective
  <2>2. Cardinality(1 .. n) = Cardinality(C)
    BY <1>1, <1>2, FS_Interval
  <2>3. queue \in Surjection(1 .. n, C)
    BY <1>2, <2>1, <2>2, FS_Injection
  <2> QED BY <2>3 DEF Surjection
<1>6. PICK new : new = [i \in 1 .. n |-> Job(queue[i], e)]
  OBVIOUS
<1>7. \A i \in 1 .. n : /\ new[i] \in JobRow /\ new[i].sub = queue[i]
                        /\ new[i].state = "pending" /\ ~new[i].leased
  <2> SUFFICES ASSUME NEW i \in 1 .. n
               PROVE  /\ new[i] \in JobRow /\ new[i].sub = queue[i]
                      /\ new[i].state = "pending" /\ ~new[i].leased
    OBVIOUS
  <2>1. queue[i] \in Nat /\ new[i] = Job(queue[i], e)
    BY <1>2, <1>6
  <2>2. Job(queue[i], e).state = "pending" /\ ~Job(queue[i], e).leased
    BY DEF Job
  <2> QED BY <1>2, <2>1, <2>2, JobTypes
<1>8. new \in Seq(JobRow) /\ Len(new) = n
  BY <1>2, <1>6, <1>7
<1>9. jobs \in Seq(JobRow) /\ Len(jobs) \in Nat /\ DOMAIN jobs = 1 .. Len(jobs)
  BY DEF TypeInv, Rows
<1>10. /\ DOMAIN jobs' = 1 .. Len(jobs) + n
       /\ \A j \in 1 .. Len(jobs) + n :
            jobs'[j] = IF j <= Len(jobs) THEN jobs[j] ELSE new[j - Len(jobs)]
  <2>1. jobs' = jobs \o new
    BY <1>3, <1>6
  <2> QED BY <1>8, <1>9, <2>1, ConcatProperties
<1>11. \A k \in DOMAIN jobs : k \in DOMAIN jobs' /\ jobs'[k] = jobs[k]
  BY <1>2, <1>9, <1>10
<1>12. \A i \in 1 .. n : /\ Len(jobs) + i \in DOMAIN jobs' \ DOMAIN jobs
                         /\ jobs'[Len(jobs) + i] = new[i]
  <2> SUFFICES ASSUME NEW i \in 1 .. n
               PROVE  /\ Len(jobs) + i \in DOMAIN jobs' \ DOMAIN jobs
                      /\ jobs'[Len(jobs) + i] = new[i]
    OBVIOUS
  <2>1. Len(jobs) + i \in 1 .. Len(jobs) + n /\ ~ Len(jobs) + i <= Len(jobs)
    BY <1>2, <1>9
  <2>2. (Len(jobs) + i) - Len(jobs) = i
    BY <1>2, <1>9
  <2> QED BY <1>9, <1>10, <2>1, <2>2
<1>13. \A k \in DOMAIN jobs' : k \in DOMAIN jobs \/ \E i \in 1 .. n : k = Len(jobs) + i
  <2> SUFFICES ASSUME NEW k \in DOMAIN jobs', k \notin DOMAIN jobs
               PROVE  \E i \in 1 .. n : k = Len(jobs) + i
    OBVIOUS
  <2>1. k - Len(jobs) \in 1 .. n /\ k = Len(jobs) + (k - Len(jobs))
    BY <1>2, <1>9, <1>10
  <2> QED BY <2>1
<1>14. JobsKept
  BY <1>11 DEF JobsKept
<1>15. JobsAreNew
  <2> SUFFICES ASSUME NEW k \in DOMAIN jobs' \ DOMAIN jobs
               PROVE  /\ jobs'[k].state = "pending" /\ ~jobs'[k].leased
                      /\ \A i \in DOMAIN jobs : i < k
    BY DEF JobsAreNew
  <2>1. PICK i \in 1 .. n : k = Len(jobs) + i
    BY <1>13
  <2>2. \A h \in DOMAIN jobs : h < k
    BY <1>2, <1>9, <2>1
  <2> QED BY <1>7, <1>12, <2>1, <2>2
<1>16. \A x \in C : \E k \in DOMAIN jobs' \ DOMAIN jobs : jobs'[k].sub = x
  BY <1>5, <1>7, <1>12
<1>17. HaveNewest'
  <2> SUFFICES ASSUME NEW x \in DOMAIN subs PROVE \E j \in DOMAIN jobs' : Newest(x, j)'
    BY DEF HaveNewest, Ingest
  <2>1. CASE x \in C
    <3>1. PICK i \in 1 .. n : queue[i] = x
      BY <1>5, <2>1
    <3>2. jobs'[Len(jobs) + i].sub = x /\ Len(jobs) + i \in DOMAIN jobs'
      BY <1>7, <1>12, <3>1
    <3>3. ASSUME NEW k \in DOMAIN jobs', jobs'[k].sub = x PROVE k <= Len(jobs) + i
      <4>1. CASE k \in DOMAIN jobs
        BY <1>2, <1>9, <4>1
      <4>2. CASE \E h \in 1 .. n : k = Len(jobs) + h
        <5>1. PICK h \in 1 .. n : k = Len(jobs) + h
          BY <4>2
        <5>2. queue[h] = x
          BY <1>7, <1>12, <3>3, <5>1
        <5>3. h = i
          BY <1>4, <3>1, <5>2
        <5> QED BY <1>2, <1>9, <5>1, <5>3
      <4> QED BY <1>13, <4>1, <4>2
    <3>4. PICK m : m = Len(jobs) + i
      OBVIOUS
    <3>5. m \in DOMAIN jobs' /\ Newest(x, m)'
      BY <3>2, <3>3, <3>4 DEF Newest
    <3> QED BY <3>5
  <2>2. CASE x \notin C
    <3>1. PICK j \in DOMAIN jobs : Newest(x, j)
      BY DEF HaveNewest
    <3>2. ASSUME NEW k \in DOMAIN jobs', jobs'[k].sub = x PROVE k \in DOMAIN jobs
      BY <1>7, <1>12, <1>13, <2>2, <3>2
    <3>3. Newest(x, j)'
      BY <1>11, <3>1, <3>2 DEF Newest
    <3> QED BY <1>11, <3>3
  <2> QED BY <2>1, <2>2
<1>18. UNCHANGED <<subs, evals>> /\ events' = [events EXCEPT ![e].state = "canonical"]
  BY DEF Ingest
<1>19. \A k \in DOMAIN events : events[k] \in EventRow
  BY DEF TypeInv, Rows
<1>20. /\ DOMAIN events' = DOMAIN events
       /\ \A k \in DOMAIN events :
            /\ events'[k].about = events[k].about /\ events'[k].retry = events[k].retry
            /\ events'[k].source = events[k].source
            /\ k # e => events'[k].state = events[k].state
  BY <1>18, <1>19 DEF EventRow
<1>21. EventsKept /\ \A s : Told(s) /\ s \notin events[e].about => Told(s)'
  BY <1>20 DEF EventsKept, Told
<1>22. SubsKept
  BY <1>18 DEF SubsKept, Ready
<1> QED BY <1>1, <1>14, <1>15, <1>16, <1>17, <1>18, <1>21, <1>22 DEF Carried

\* Release: a report that is evaluated again gives its subscription a job.
LEMMA ReleaseCarries ==
  ASSUME TypeInv, HaveNewest, NEW d \in DOMAIN deliveries, Release(d)
  PROVE  /\ Carried /\ HaveNewest' /\ ToldStays
         /\ Reevaluated(d) =>
              \E k \in DOMAIN jobs' \ DOMAIN jobs : jobs'[k].sub = deliveries[d].sub
<1>1. subs' = subs /\ evals' = evals
  BY DEF Release
<1>2. CASE ~Reevaluated(d)
  <2>1. events' = events /\ jobs' = jobs
    BY <1>2 DEF Release
  <2> QED BY <1>1, <1>2, <2>1, NothingNew DEF Carried
<1>3. CASE Reevaluated(d)
  <2>1. /\ events' = Append(events, Event("retry", {StrategyOf(d)}, "canonical", Retry(d)))
        /\ jobs' = Append(jobs, Job(deliveries[d].sub, Len(events) + 1))
    BY <1>3 DEF Release
  <2>2. deliveries[d].sub \in DOMAIN subs /\ deliveries[d].job \in DOMAIN jobs
    BY DEF TypeInv, References
  <2>3. {StrategyOf(d)} \in SUBSET Strategies
    BY StrategyTypes
  <2>4. Retry(d) \in 0 .. MaxTries
    <3>1. events[jobs[deliveries[d].job].event] \in EventRow
      BY <2>2 DEF TypeInv, Rows, References
    <3>2. events[jobs[deliveries[d].job].event].retry \in 0 .. MaxTries /\ MaxTries \in Nat
      BY <3>1, DeliveryAssumption DEF EventRow
    <3> QED BY <1>3, <3>2 DEF Reevaluated, Retry
  <2>5. EventsKept /\ ToldStays
    <3>1. PICK about, n : about = {StrategyOf(d)} /\ n = Retry(d)
      OBVIOUS
    <3> QED BY <2>1, <2>3, <2>4, <3>1, EventAppended DEF ToldStays
  <2>6. /\ jobs \in Seq(JobRow) /\ Len(events) + 1 \in Nat /\ deliveries[d].sub \in Nat
        /\ Len(jobs) \in Nat
    BY <2>2 DEF TypeInv, Rows
  <2>7. /\ JobsKept /\ JobsAreNew
        /\ Len(jobs) + 1 \in DOMAIN jobs' /\ jobs'[Len(jobs) + 1].sub = deliveries[d].sub
        /\ Len(jobs) + 1 \notin DOMAIN jobs
        /\ \A k \in DOMAIN jobs' : k \in DOMAIN jobs \/ k = Len(jobs) + 1
        /\ \A k \in DOMAIN jobs' : k <= Len(jobs) + 1
    BY <2>1, <2>6, JobAppended
  <2>8. HaveNewest'
    BY <1>1, <2>7, NewestAppended
  <2>9. SubsKept
    BY <1>1 DEF SubsKept, Ready
  <2> QED BY <1>1, <2>5, <2>7, <2>8, <2>9 DEF Carried
<1> QED BY <1>2, <1>3

\* The step is of the delivery of d.
Delivers(d) == Deliver(d) \/ Fail(d) \/ Abort(d)

\* A delivery leaves the rest alone, but for the events of a report that lands and
\* the job of one that is evaluated again.
LEMMA DeliverWrites ==
  ASSUME NEW d \in DOMAIN deliveries, Delivers(d)
  PROVE  /\ UNCHANGED <<subs, nonces, evals, revoked, market>>
         /\ Release(d) \/ Mine(d) \/ UNCHANGED <<events, jobs>>
         /\ Mine(d) \/ UNCHANGED <<landed, report, active>>
<1>1. CASE ClaimDelivery(d) \/ Lock(d) \/ Defer(d) \/ Fence(d)
  BY <1>1 DEF ClaimDelivery, Lock, Defer, Fence, rows, chain
<1>2. CASE Spawn(d) \/ Collect(d) \/ Prove(d) \/ Settle(d) \/ Release(d)
  BY <1>2 DEF Spawn, Collect, Prove, Settle, Release, rows, chain
<1>3. CASE CheckTerms(d) \/ Submit(d) \/ Revert(d) \/ Expires(d) \/ Kill(d)
  BY <1>3 DEF CheckTerms, Submit, Revert, Expires, Kill, rows, chain
<1>4. CASE NotSent(d) \/ SpawnFails(d) \/ SenderCrashes(d)
  BY <1>4 DEF NotSent, SpawnFails, SenderCrashes, rows, chain
<1>5. CASE Mine(d)
  BY <1>5 DEF Mine, Guard!OnReport
<1> QED BY <1>1, <1>2, <1>3, <1>4, <1>5 DEF Delivers, Deliver, Fail, Abort

\* What Mine does to the guard, in terms that do not depend on the state.
Tells(d, s, m, t, about) ==
  /\ s = StrategyOf(d) /\ m = OwnerOf(d) /\ m = Owner[s] /\ t = deliveries[d].terms
  /\ \A o \in Owners, p \in Strategies : (o # m \/ p # s) => report'[o][p] = report[o][p]
  /\ \E r : report'[m][s] = {r} /\ r.dirs = t.dirs /\ r.caps = t.caps
  /\ \A o \in Owners : o # m => active'[o] = active[o]
  /\ t.dirs # {} => active'[m] = s
  /\ t.dirs = {} => active'[m] # s
  /\ revoked' = revoked /\ market' = market
  /\ s \in about
  /\ \A p \in Strategies : p \notin about => (active[m] = p <=> active'[m] = p)
  /\ events' = Append(events, Event("guard", about, "emitted", 0))
  /\ UNCHANGED <<subs, jobs, evals>>

\* That is what Mine does.
LEMMA MineIs ==
  ASSUME TypeInv, NEW d \in DOMAIN deliveries, Mine(d)
  PROVE  \E s \in Strategies, m \in Owners, about \in SUBSET Strategies :
           Tells(d, s, m, deliveries[d].terms, about)
<1>1. PICK s, m, t, r, about :
        /\ s = StrategyOf(d) /\ m = OwnerOf(d) /\ t = deliveries[d].terms /\ r = Report(d)
        /\ about = {StrategyOf(d)}
                     \cup (({active[OwnerOf(d)]} \cup {active'[OwnerOf(d)]}) \ {None})
  OBVIOUS
<1>2. s \in Strategies /\ m \in Owners /\ m = Owner[s]
  BY <1>1, StrategyTypes DEF OwnerOf
<1>3. r.maker = m /\ r.strategy = s /\ r.dirs = t.dirs /\ r.caps = t.caps
  BY <1>1, <1>2 DEF Report, Standing
<1>4. /\ report' = [report EXCEPT ![m][s] = {r}]
      /\ active' = [active EXCEPT ![m] = Guard!ActiveAfter(r)]
      /\ revoked' = revoked /\ market' = market
      /\ events' = Append(events, Event("guard", about, "emitted", 0))
      /\ UNCHANGED <<subs, jobs, evals>>
  BY <1>1, <1>3 DEF Mine, Guard!OnReport
<1>5. /\ report \in [Owners -> [Strategies -> SUBSET Reports]]
      /\ active \in [Owners -> Strategies \cup {None}]
  BY DEF TypeInv, OnChain
<1>6. /\ report'[m][s] = {r}
      /\ \A o \in Owners, p \in Strategies : (o # m \/ p # s) => report'[o][p] = report[o][p]
  BY <1>2, <1>4, <1>5
<1>7. /\ active'[m] = Guard!ActiveAfter(r)
      /\ \A o \in Owners : o # m => active'[o] = active[o]
  BY <1>2, <1>4, <1>5
<1>8. /\ t.dirs # {} => active'[m] = s
      /\ t.dirs = {} => active'[m] # s
      /\ active'[m] \in Strategies \cup {None}
  <2>1. None \notin Strategies /\ active[m] \in Strategies \cup {None}
    BY <1>2, <1>5, DeliveryAssumption
  <2>2. active'[m] = IF t.dirs # {} THEN s ELSE IF active[m] = s THEN None ELSE active[m]
    BY <1>3, <1>7 DEF Guard!ActiveAfter, Guard!Enabled
  <2> QED BY <1>2, <2>1, <2>2
<1>9. about = {s} \cup (({active[m]} \cup {active'[m]}) \ {None})
  <2>1. OwnerOf(d) = m /\ StrategyOf(d) = s
    BY <1>1
  <2> QED BY <1>1, <2>1
<1>10. about \in SUBSET Strategies /\ s \in about
  BY <1>2, <1>5, <1>8, <1>9
<1>11. ASSUME NEW p \in Strategies, p \notin about PROVE active[m] = p <=> active'[m] = p
  BY <1>9, <1>11, DeliveryAssumption
<1>12. \E q : report'[m][s] = {q} /\ q.dirs = t.dirs /\ q.caps = t.caps
  BY <1>3, <1>6
<1>13. Tells(d, s, m, t, about)
  BY <1>1, <1>2, <1>4, <1>6, <1>7, <1>8, <1>10, <1>11, <1>12 DEF Tells
<1>14. t = deliveries[d].terms
  BY <1>1
<1> QED BY <1>2, <1>10, <1>13, <1>14

\* A report that lands is in effect, and only those it is about see a change.
LEMMA MineEffect ==
  ASSUME TypeInv, NEW d \in DOMAIN deliveries, Mine(d),
         NEW s \in Strategies, s = StrategyOf(d), NEW t, t = deliveries[d].terms
  PROVE  Effective(s, t)'
<1>1. PICK u \in Strategies, m \in Owners, about \in SUBSET Strategies : Tells(d, u, m, t, about)
  BY MineIs
<1>2. u = s
  BY <1>1 DEF Tells
<1>3. Tells(d, s, m, t, about)
  BY <1>1, <1>2
<1>4. /\ m = Owner[s]
      /\ \E r : report'[m][s] = {r} /\ r.dirs = t.dirs /\ r.caps = t.caps
      /\ t.dirs # {} => active'[m] = s
      /\ t.dirs = {} => active'[m] # s
  BY <1>3 DEF Tells
<1> QED BY <1>4 DEF Effective

\* It spares the strategies it does not tell, and other owners'.
LEMMA MineSpares ==
  ASSUME TypeInv, NEW d \in DOMAIN deliveries, Mine(d), NEW s \in Strategies,
         ~Told(s)' \/ Owner[s] # OwnerOf(d)
  PROVE  Unmoved(s)
<1>1. PICK t : t = deliveries[d].terms
  OBVIOUS
<1>2. PICK u \in Strategies, m \in Owners, about \in SUBSET Strategies : Tells(d, u, m, t, about)
  BY <1>1, MineIs
<1>3. 0 \in 0 .. MaxTries /\ Owner[s] \in Owners
  BY DeliveryAssumption
<1>4. \A p \in about : Told(p)'
  BY <1>2, <1>3, EventAppended DEF Tells
<1>5. /\ report'[Owner[s]][s] = report[Owner[s]][s]
      /\ active'[Owner[s]] = s <=> active[Owner[s]] = s
  BY <1>2, <1>3, <1>4 DEF Tells
<1>6. revoked' = revoked /\ market' = market
  BY <1>2 DEF Tells
<1> QED BY <1>5, <1>6 DEF Unmoved, Effective, IsRevoked

\* Only a Maker, a report that lands and the market change what the guard says or should say.
LEMMA OutsideSteps ==
  ASSUME [Next]_vars
  PROVE  \/ UNCHANGED <<report, active, revoked, market>>
         \/ \E s \in Strategies, t \in Terms : MoveMarket(s, t)
         \/ \E s \in Strategies : Flip(s)
         \/ \E d \in DOMAIN deliveries : Mine(d)
<1>1. ASSUME NEW d \in DOMAIN deliveries, Delivers(d)
      PROVE  UNCHANGED <<report, active, revoked, market>> \/ Mine(d)
  BY <1>1, DeliverWrites
<1>2. CASE \E j \in DOMAIN jobs : ClaimEvaluation(j) \/ ExpireLease(j)
  BY <1>2 DEF ClaimEvaluation, ExpireLease, chain
<1>3. ASSUME NEW v \in evals, \/ Simulate(v) \/ Compare(v) \/ Abandon(v)
                              \/ EvaluationFails(v) \/ EvaluatorCrashes(v)
      PROVE  UNCHANGED <<report, active, revoked, market>>
  BY <1>3 DEF Simulate, Compare, Abandon, EvaluationFails, EvaluatorCrashes, chain
<1>4. ASSUME NEW v \in evals, CompleteChanged(v) \/ CompleteUnchanged(v) \/ CompleteFailed(v)
      PROVE  UNCHANGED <<report, active, revoked, market>>
  BY <1>4 DEF CompleteChanged, CompleteUnchanged, CompleteFailed, chain
<1>5. ASSUME NEW e \in DOMAIN events, Ingest(e) \/ MarkReorg(e)
      PROVE  UNCHANGED <<report, active, revoked, market>>
  BY <1>5 DEF Ingest, MarkReorg, chain
<1>6. ASSUME NEW p \in Strategies, NEW source \in Sources, Enable(p, source)
      PROVE  UNCHANGED <<report, active, revoked, market>>
  BY <1>6 DEF Enable, chain
<1>7. ASSUME NEW x \in DOMAIN subs, Stop(x) \/ Lapse(x)
      PROVE  UNCHANGED <<report, active, revoked, market>>
  BY <1>7 DEF Stop, Lapse, chain
<1>8. CASE UNCHANGED vars
  BY <1>8 DEF vars, chain
<1> QED BY <1>1, <1>2, <1>3, <1>4, <1>5, <1>6, <1>7, <1>8
        DEF Next, Steady, Maker, Inbox, Evaluating, Evaluate, Delivers

\* A revocation is about one strategy.
LEMMA FlipSpares ==
  ASSUME TypeInv, NEW p \in Strategies, Flip(p)
  PROVE  /\ Told(p)'
         /\ \A s \in Strategies : s # p => Unmoved(s)
         /\ IsRevoked(p) \/ IsRevoked(p)'
<1>1. PICK m, flag : m = Owner[p] /\ flag = ~IsRevoked(p)
  OBVIOUS
<1>2. /\ revoked' = [revoked EXCEPT ![m][p] = flag]
      /\ active' = [active EXCEPT ![m] = IF flag THEN Guard!ActiveUnder(m, p) ELSE active[m]]
      /\ events' = Append(events, Event("maker", {p}, "emitted", 0))
      /\ UNCHANGED <<report, market>>
  BY <1>1 DEF Flip, Guard!SetStrategyRevoked
<1>3. 0 \in 0 .. MaxTries /\ {p} \in SUBSET Strategies /\ m \in Owners
  BY <1>1, DeliveryAssumption
<1>4. Told(p)'
  BY <1>2, <1>3, EventAppended
<1>5. revoked'[m][p] = flag
  BY <1>2, <1>3 DEF TypeInv, OnChain
<1>6. active'[m] \in {active[m], None} /\ (active'[m] # active[m] => active[m] = p)
  BY <1>2, <1>3 DEF TypeInv, OnChain, Guard!ActiveUnder
<1>7. \A o \in Owners : o # m => active'[o] = active[o]
  BY <1>2, <1>3 DEF TypeInv, OnChain
<1>8. ASSUME NEW s \in Strategies, s # p PROVE Unmoved(s)
  <2>1. Owner[s] \in Owners
    BY DeliveryAssumption
  <2>2. revoked'[Owner[s]][s] = revoked[Owner[s]][s]
    BY <1>2, <1>3, <1>8, <2>1 DEF TypeInv, OnChain
  <2>3. active'[Owner[s]] = s <=> active[Owner[s]] = s
    BY <1>6, <1>7, <1>8, <2>1, DeliveryAssumption
  <2> QED BY <1>2, <2>2, <2>3 DEF Unmoved, Effective, IsRevoked
<1> QED BY <1>1, <1>4, <1>5, <1>8 DEF IsRevoked

\* The guard, the market and what evaluations find change with a step that tells of it.
LEMMA UnmovedUnlessTold ==
  ASSUME TypeInv, [Next]_vars, NEW s \in Strategies, ~Told(s)'
  PROVE  Unmoved(s)
<1>1. CASE UNCHANGED <<report, active, revoked, market>>
  BY <1>1 DEF Unmoved, Effective, IsRevoked
<1>2. ASSUME NEW p \in Strategies, NEW t \in Terms, MoveMarket(p, t) PROVE Unmoved(s)
  <2>1. /\ market' = [market EXCEPT ![p] = t]
        /\ events' = Append(events, Event("market", {p}, "emitted", 0))
        /\ UNCHANGED <<report, active, revoked>>
    BY <1>2 DEF MoveMarket, chain
  <2>2. 0 \in 0 .. MaxTries /\ {p} \in SUBSET Strategies
    BY DeliveryAssumption
  <2>3. p # s
    BY <2>1, <2>2, EventAppended
  <2> QED BY <2>1, <2>3 DEF Unmoved, Effective, IsRevoked, TypeInv, OnChain
<1> QED BY <1>1, <1>2, OutsideSteps, FlipSpares, MineSpares

\* Being in line, said of a strategy and its terms that do not change.
LEMMA DoneNext ==
  ASSUME NEW x, NEW j, NEW s, NEW t, s = subs'[x].strategy, t = market'[s],
         jobs'[j].state = "succeeded" => ~IsRevoked(s)' /\ (Effective(s, t)' \/ Coming(x)')
  PROVE  Done(x, j)'
BY DEF Done, Effective, IsRevoked

\* The same of what an evaluator knows.
LEMMA RightNext ==
  ASSUME NEW x, NEW j, NEW v, NEW s, NEW t, s = subs'[x].strategy, t = market'[s],
         (v.job = j \/ jobs'[j].state = "succeeded") /\ v.at \in {"simulated", "changed"} =>
           /\ v.terms = t
           /\ v.at = "changed" => ~IsRevoked(s)',
         v.job = j /\ v.at = "unchanged" => ~IsRevoked(s)' /\ Effective(s, t)'
  PROVE  Right(v, x, j)'
BY DEF Right, Effective, IsRevoked

\* The newest job has not been tried: nothing is known and nothing is done.
LEMMA FreshLine ==
  ASSUME Leases', NEW x, NEW j \in DOMAIN jobs', jobs'[j].state # "succeeded", ~jobs'[j].leased
  PROVE  Known(x, j)' /\ Done(x, j)'
<1>1. Done(x, j)'
  BY DEF Done
<1>2. ASSUME NEW v \in evals', Owns(v)' PROVE Right(v, x, j)'
  BY <1>2 DEF Owns, Right
<1> QED BY <1>1, <1>2 DEF Known

\* A leased job stays the only one of its subscription when rows are only added.
LEMMA CarriedLeases ==
  ASSUME TypeInv, Leases, Carried
  PROVE  Leases'
<1>1. ASSUME NEW j \in DOMAIN jobs', jobs'[j].leased
      PROVE  j \in DOMAIN jobs /\ jobs[j].leased /\ jobs'[j].state = "running"
  BY <1>1 DEF Carried, JobsKept, JobsAreNew, Leases
<1>2. \A j, k \in DOMAIN jobs' :
        jobs'[j].leased /\ jobs'[k].leased /\ jobs'[j].sub = jobs'[k].sub => j = k
  BY <1>1 DEF Carried, JobsKept, Leases
<1>3. ASSUME NEW v \in evals' PROVE v.token <= jobs'[v.job].tries
  <2>1. v \in evals /\ v.job \in DOMAIN jobs
    BY EvalRows DEF Carried
  <2> QED BY <2>1 DEF Carried, JobsKept, Leases
<1> QED BY <1>1, <1>2, <1>3 DEF Leases

\* A job that was there and is still the newest.
LEMMA OldNewest ==
  ASSUME TypeInv, NEW x, NEW j \in DOMAIN jobs, Newest(x, j)',
         \A k \in DOMAIN jobs : k \in DOMAIN jobs' /\ jobs'[k].sub = jobs[k].sub
  PROVE  Newest(x, j) /\ x \in DOMAIN subs
<1>1. Newest(x, j)
  BY DEF Newest
<1>2. jobs[j].sub = x
  BY <1>1 DEF Newest
<1> QED BY <1>1, <1>2 DEF TypeInv, References

\* What holds of the newest job of a subscription goes on to hold when nothing about
\* its strategy is told and rows are only added.
LEMMA CarriedLine ==
  ASSUME TypeInv, Leases, InLine, Carried, [Next]_vars,
         NEW x \in DOMAIN subs', NEW j \in DOMAIN jobs', Hears(x)', Newest(x, j)',
         NEW s, NEW t, s = subs'[x].strategy, t = market'[s],
         x \in DOMAIN subs /\ Newest(x, j) =>
           /\ ~Told(s)
           /\ Coming(x) /\ ~IsRevoked(s) => Effective(s, t)' \/ Coming(x)'
  PROVE  Known(x, j)' /\ Done(x, j)'
<1>1. CASE j \notin DOMAIN jobs
  <2>1. jobs'[j].state # "succeeded" /\ ~jobs'[j].leased
    BY <1>1 DEF Carried, JobsAreNew
  <2> QED BY <2>1, CarriedLeases, FreshLine
<1>2. CASE j \in DOMAIN jobs
  <2>1. Newest(x, j) /\ x \in DOMAIN subs
    BY <1>2, OldNewest DEF Carried, JobsKept
  <2>2. /\ s = subs[x].strategy /\ subs'[x].source = subs[x].source
        /\ Ready(x)' => Ready(x)
    BY <2>1 DEF Carried, SubsKept
  <2>3. s \in Strategies
    <3>1. subs[x] \in SubRow
      BY <2>1 DEF TypeInv, Rows
    <3> QED BY <2>2, <3>1 DEF SubRow
  <2>4. Unmoved(s)
    <3>1. ~Told(s)'
      BY DEF Hears, Told
    <3> QED BY <2>3, <3>1, UnmovedUnlessTold
  <2>5. t = market[s] /\ t \in Terms
    BY <2>3, <2>4 DEF Unmoved, TypeInv, OnChain
  <2>6. (Effective(s, t)' <=> Effective(s, t)) /\ IsRevoked(s)' = IsRevoked(s)
    BY <2>4, <2>5 DEF Unmoved
  <2>7. Hears(x)
    BY <2>1, <2>2 DEF Hears
  <2>8. Known(x, j) /\ Done(x, j)
    BY <1>2, <2>1, <2>7 DEF InLine
  <2>9. jobs'[j].state = "succeeded" => jobs[j].state = "succeeded"
    BY <1>2 DEF Carried, JobsKept
  <2>10. Done(x, j)'
    <3>1. jobs[j].state = "succeeded" => ~IsRevoked(s) /\ (Effective(s, t) \/ Coming(x))
      BY <2>2, <2>5, <2>8 DEF Done
    <3>2. jobs'[j].state = "succeeded" => ~IsRevoked(s)' /\ (Effective(s, t)' \/ Coming(x)')
      BY <2>1, <2>6, <2>9, <3>1
    <3> QED BY <3>2, DoneNext
  <2>11. ASSUME NEW v \in evals', Owns(v)', SubOf(v)' = x
         PROVE  Right(v, x, j)'
    <3>1. v \in evals /\ v.job \in DOMAIN jobs
      BY EvalRows DEF Carried
    <3>2. Owns(v) /\ SubOf(v) = x
      BY <2>11, <3>1 DEF Carried, JobsKept, Owns, SubOf
    <3>3. Right(v, x, j)
      BY <2>8, <3>1, <3>2 DEF Known
    <3>4. /\ (v.job = j \/ jobs'[j].state = "succeeded") /\ v.at \in {"simulated", "changed"} =>
               /\ v.terms = t
               /\ v.at = "changed" => ~IsRevoked(s)'
          /\ v.job = j /\ v.at = "unchanged" => ~IsRevoked(s)' /\ Effective(s, t)'
      BY <2>2, <2>5, <2>6, <2>9, <3>3 DEF Right
    <3> QED BY <3>4, RightNext
  <2>12. Known(x, j)'
    BY <2>11 DEF Known
  <2> QED BY <2>10, <2>12
<1> QED BY <1>1, <1>2

\* The last report of a subscription.
LEMMA LastTypes ==
  ASSUME TypeInv, NEW x \in DOMAIN subs, subs[x].last # 0
  PROVE  subs[x].last \in DOMAIN deliveries
<1>1. subs[x] \in SubRow /\ subs[x].last <= Len(deliveries) /\ DOMAIN deliveries = 1 .. Len(deliveries)
  BY DEF TypeInv, Rows, References
<1> QED BY <1>1 DEF SubRow

\* How often a report has been evaluated again does not change.
EntriesKept ==
  /\ \A e \in DOMAIN events : e \in DOMAIN events' /\ events'[e].retry = events[e].retry
  /\ \A k \in DOMAIN jobs :
       k \in DOMAIN jobs' /\ jobs'[k].sub = jobs[k].sub /\ jobs'[k].event = jobs[k].event

\* So a report that counts as given up goes on to.
LEMMA RetryKept ==
  ASSUME TypeInv, EntriesKept, NEW d \in DOMAIN deliveries,
         deliveries'[d].job = deliveries[d].job
  PROVE  Retry(d)' = Retry(d)
<1>1. deliveries[d].job \in DOMAIN jobs /\ jobs[deliveries[d].job].event \in DOMAIN events
  BY DEF TypeInv, References
<1> QED BY <1>1 DEF Retry, EntriesKept

\* What the guard should say is still on its way when no delivery takes a step.
LEMMA ComingKept ==
  ASSUME TypeInv, Agreement, RowsOnly, EntriesKept, NEW x \in DOMAIN subs,
         subs'[x].last = subs[x].last, subs'[x].strategy = subs[x].strategy,
         market'[subs[x].strategy] = market[subs[x].strategy], Coming(x)
  PROVE  Coming(x)'
<1>1. PICK d : d = subs[x].last
  OBVIOUS
<1>2. /\ d # 0 /\ deliveries[d].terms = market[subs[x].strategy] /\ ~Landed(d) /\ Open(d)
  BY <1>1 DEF Coming
<1>3. d \in DOMAIN deliveries
  BY <1>1, <1>2, LastTypes
<1>4. /\ deliveries'[d].job = deliveries[d].job /\ deliveries'[d].terms = deliveries[d].terms
      /\ deliveries'[d].attempt = deliveries[d].attempt
      /\ \/ deliveries'[d].status = deliveries[d].status
         \/ deliveries[d].status = "pending" /\ deliveries'[d].status = "failed"
  BY <1>3 DEF RowsOnly, KeptOrFailed
<1>5. ~Landed(d)'
  BY <1>2 DEF RowsOnly, Landed
<1>6. Retry(d)' = Retry(d)
  BY <1>3, <1>4, RetryKept
<1>7. deliveries[d].status = "pending" => deliveries[d].attempt = "none"
  BY <1>3 DEF Agreement, Agreed, Agree
<1>8. Open(d)'
  BY <1>2, <1>4, <1>6, <1>7 DEF Open, GivenUp
<1> QED BY <1>1, <1>2, <1>4, <1>5, <1>8 DEF Coming

\* A step of a Maker or of the inbox, or one that lets a lease go.
LEMMA CarriedRows ==
  ASSUME TypeInv, Agreement, Leases, InLine, Carried, RowsOnly, [Next]_vars,
         \A x \in DOMAIN subs, j \in DOMAIN jobs, s \in Strategies :
           subs[x].strategy = s /\ Ready(x) /\ subs[x].source = "*" /\ ~Told(s)' /\ Newest(x, j)'
             => ~Told(s)
  PROVE  InLine'
<1> SUFFICES ASSUME NEW x \in DOMAIN subs', NEW j \in DOMAIN jobs', Hears(x)', Newest(x, j)'
             PROVE  Known(x, j)' /\ Done(x, j)'
  BY DEF InLine
<1>1. PICK s, t : s = subs'[x].strategy /\ t = market'[s]
  OBVIOUS
<1>2. EntriesKept
  BY DEF Carried, EventsKept, JobsKept, EntriesKept
<1>3. ~Told(s)'
  BY <1>1 DEF Hears, Told
<1>4. ASSUME x \in DOMAIN subs, Newest(x, j)
      PROVE  /\ ~Told(s)
             /\ Coming(x) => Coming(x)'
  <2>1. /\ s = subs[x].strategy /\ subs'[x].last = subs[x].last
        /\ subs'[x].source = subs[x].source
        /\ Ready(x)' => Ready(x)
    BY <1>1, <1>4 DEF Carried, SubsKept
  <2>2. j \in DOMAIN jobs
    BY <1>4 DEF Newest
  <2>3. Ready(x) /\ subs[x].source = "*"
    BY <2>1 DEF Hears
  <2>4. s \in Strategies
    <3>1. subs[x] \in SubRow
      BY <1>4 DEF TypeInv, Rows
    <3> QED BY <2>1, <3>1 DEF SubRow
  <2>5. ~Told(s)
    BY <1>3, <1>4, <2>1, <2>2, <2>3, <2>4
  <2>7. market'[s] = market[s]
    BY <1>3, <2>4, UnmovedUnlessTold DEF Unmoved
  <2> QED BY <1>1, <1>2, <1>4, <2>1, <2>5, <2>7, ComingKept
<1> QED BY <1>1, <1>3, <1>4, CarriedLine

\* Subscriptions and the inbox keep what holds in line.
LEMMA InboxLine ==
  ASSUME TypeInv, Agreement, Leases, HaveNewest, InLine, [Next]_vars, RowsOnly,
         \/ \E s \in Strategies, source \in Sources : Enable(s, source)
         \/ \E x \in DOMAIN subs : Stop(x) \/ Lapse(x)
         \/ \E s \in Strategies : Flip(s)
         \/ \E s \in Strategies, t \in Terms : MoveMarket(s, t)
         \/ \E e \in DOMAIN events : Ingest(e) \/ MarkReorg(e)
         \/ \E j \in DOMAIN jobs : ExpireLease(j)
         \/ UNCHANGED vars
  PROVE  Carried /\ HaveNewest' /\ InLine'
<1>1. ASSUME ToldStays, Carried PROVE InLine'
  <2>1. \A s : ~Told(s)' => ~Told(s)
    BY <1>1 DEF ToldStays
  <2> QED BY <1>1, <2>1, CarriedRows
<1>2. ASSUME NEW source \in {"market", "maker"}, NEW s \in Strategies,
             UNCHANGED <<subs, jobs, evals>>,
             events' = Append(events, Event(source, {s}, "emitted", 0))
      PROVE  Carried /\ HaveNewest' /\ ToldStays
  <2>1. PICK about \in SUBSET Strategies : about = {s}
    OBVIOUS
  <2>2. events' = Append(events, Event(source, about, "emitted", 0))
    BY <1>2, <2>1
  <2> QED BY <1>2, <2>2, TellingCarries
<1>3. ASSUME NEW s \in Strategies, Flip(s) PROVE Carried /\ HaveNewest' /\ ToldStays
  <2>1. /\ UNCHANGED <<subs, jobs, evals>>
        /\ events' = Append(events, Event("maker", {s}, "emitted", 0))
    BY <1>3 DEF Flip
  <2> QED BY <1>2, <2>1
<1>4. ASSUME NEW s \in Strategies, NEW t \in Terms, MoveMarket(s, t)
      PROVE  Carried /\ HaveNewest' /\ ToldStays
  <2>1. /\ UNCHANGED <<subs, jobs, evals>>
        /\ events' = Append(events, Event("market", {s}, "emitted", 0))
    BY <1>4 DEF MoveMarket
  <2> QED BY <1>2, <2>1
<1>5. CASE UNCHANGED vars
  <2>1. UNCHANGED <<subs, events, jobs, evals>>
    BY <1>5 DEF vars, rows
  <2> QED BY <1>1, <2>1, NothingNew DEF Carried
<1>6. ASSUME NEW e \in DOMAIN events, Ingest(e) PROVE Carried /\ HaveNewest' /\ InLine'
  <2>1. /\ Carried /\ HaveNewest'
        /\ \A x \in Concerned(e) : \E k \in DOMAIN jobs' \ DOMAIN jobs : jobs'[k].sub = x
        /\ \A s : Told(s) /\ s \notin events[e].about => Told(s)'
    BY <1>6, IngestCarries
  <2>2. ASSUME NEW x \in DOMAIN subs, NEW j \in DOMAIN jobs, NEW s \in Strategies,
               subs[x].strategy = s, Ready(x), subs[x].source = "*", ~Told(s)', Newest(x, j)'
        PROVE  ~Told(s)
    <3>1. x \notin Concerned(e)
      <4> SUFFICES ASSUME x \in Concerned(e) PROVE FALSE
        OBVIOUS
      <4>1. PICK k \in DOMAIN jobs' \ DOMAIN jobs : jobs'[k].sub = x
        BY <2>1
      <4>2. k <= j /\ j < k
        BY <2>1, <2>2, <4>1 DEF Newest, Carried, JobsAreNew
      <4>3. DOMAIN jobs \subseteq Nat /\ DOMAIN jobs' \subseteq Nat
        <5>1. jobs \in Seq(JobRow) /\ jobs' \in Seq(JobRow')
          BY NextTypes DEF TypeInv, Rows
        <5>2. DOMAIN jobs = 1 .. Len(jobs) /\ DOMAIN jobs' = 1 .. Len(jobs')
              /\ Len(jobs) \in Nat /\ Len(jobs') \in Nat
          BY <5>1
        <5> QED BY <5>2
      <4> QED BY <4>1, <4>2, <4>3
    <3>2. s \notin events[e].about
      BY <2>2, <3>1 DEF Concerned
    <3> QED BY <2>1, <2>2, <3>2
  <2> QED BY <2>1, <2>2, CarriedRows
<1>7. ASSUME NEW s \in Strategies, NEW source \in Sources, Enable(s, source)
      PROVE  Carried /\ HaveNewest' /\ ToldStays
  BY <1>7, EnableCarries
<1>8. ASSUME NEW x \in DOMAIN subs, Stop(x) \/ Lapse(x)
      PROVE  Carried /\ HaveNewest' /\ ToldStays
  BY <1>8, StopCarries, LapseCarries
<1>9. ASSUME NEW e \in DOMAIN events, MarkReorg(e)
      PROVE  Carried /\ HaveNewest' /\ ToldStays
  BY <1>9, ReorgCarries
<1>10. ASSUME NEW j \in DOMAIN jobs, ExpireLease(j)
      PROVE  Carried /\ HaveNewest' /\ ToldStays
  BY <1>10, ExpireCarries
<1> QED BY <1>1, <1>3, <1>4, <1>5, <1>6, <1>7, <1>8, <1>9, <1>10

\* A report that was claimed fails because it was released, or was never attempted.
LEMMA FailedBy ==
  ASSUME TypeInv, Agreement, NEW d \in DOMAIN deliveries, Delivers(d),
         deliveries[d].status = "broadcast", deliveries'[d].status = "failed"
  PROVE  Release(d) \/ deliveries'[d].attempt = "none"
<1>1. ASSUME NEW row, NEW at, NEW stage, Admissible(d, row), At(d, row, at, stage)
      PROVE  deliveries'[d].status = row.status /\ deliveries'[d].attempt = row.attempt
  BY <1>1, AtIs DEF Is
<1>2. sender[d] \in {"claimed", "locked"} => deliveries[d].attempt = "none"
  BY DEF Agreement, Agreed, Agree
<1>3. CASE ClaimDelivery(d)
  BY <1>3 DEF ClaimDelivery
<1>4. CASE \/ Lock(d) \/ Spawn(d) \/ SenderCrashes(d) \/ CheckTerms(d) \/ Submit(d)
           \/ Revert(d) \/ Expires(d) \/ Kill(d) \/ Mine(d)
  <2>1. deliveries' = deliveries
    BY <1>4 DEF Lock, Spawn, SenderCrashes, CheckTerms, Submit, Revert, Expires, Kill, Mine, rows
  <2> QED BY <2>1
<1>5. CASE Defer(d)
  BY <1>1, <1>2, <1>5, DeferIs
<1>6. CASE NotSent(d)
  BY <1>1, <1>2, <1>6, NotSentIs
<1>7. CASE Fence(d)
  BY <1>1, <1>7, FenceIs
<1>8. CASE Prove(d)
  BY <1>1, <1>8, ProveIs
<1>9. CASE Settle(d)
  BY <1>1, <1>9, SettleIs
<1>10. CASE SpawnFails(d)
  BY <1>1, <1>10, SpawnFailsIs
<1>11. CASE Collect(d)
  BY <1>1, <1>11, CollectIs
<1> QED BY <1>3, <1>4, <1>5, <1>6, <1>7, <1>8, <1>9, <1>10, <1>11 DEF Delivers, Deliver, Fail, Abort

\* A report that failed stays as it is; one that was not claimed fails unattempted.
LEMMA FailedStays ==
  ASSUME TypeInv, Agreement, NEW d \in DOMAIN deliveries, Lives(d),
         deliveries'[d].status = "failed"
  PROVE  /\ deliveries[d].status = "failed" => deliveries'[d].attempt = deliveries[d].attempt
         /\ deliveries[d].status = "pending" => deliveries'[d].attempt = "none"
<1>1. Agreed(d)
  BY DEF Agreement
<1>2. CASE Attends(d)
  BY <1>1, <1>2 DEF Attends, Is, Agreed, Agree, CertainlyUnsent, Outcome
<1>3. CASE Runs(d)
  BY <1>1, <1>3 DEF Runs, Is, Agreed, Agree
<1>4. CASE Chained(d)
  BY <1>1, <1>4 DEF Chained, Is, Agreed, Agree
<1> QED BY <1>2, <1>3, <1>4 DEF Lives

\* A report stays open until it has landed or was found stale or in effect.
LEMMA OpenStays ==
  ASSUME TypeInv, Agreement, [Next]_vars, EntriesKept, NEW d \in DOMAIN deliveries, Delivers(d),
         Open(d), ~Landed(d)',
         Release(d) => deliveries[d].attempt \notin {"stale", "effective"}
  PROVE  Open(d)'
<1>1. Lives(d)
  BY DeliverLives DEF Delivers
<1>2. DOMAIN deliveries' = DOMAIN deliveries /\ deliveries'[d].job = deliveries[d].job
  BY <1>1 DEF Lives, OthersKept
<1>3. Agreed(d)'
  BY <1>2, NextAgree DEF Agreement
<1>4. deliveries[d].status \in {"pending", "broadcast", "accepted", "failed"}
  BY DeliveryRows DEF DeliveryRow
<1>5. deliveries'[d].status \in {"pending", "broadcast", "accepted", "failed"}
  <2>1. deliveries'[d] \in DeliveryRow'
    BY <1>2, NextTypes DEF TypeInv, Rows
  <2> QED BY <2>1 DEF DeliveryRow
<1>6. deliveries'[d].status # "accepted"
  BY <1>3 DEF Agreed, Agree
<1>7. Retry(d)' = Retry(d)
  BY <1>2, RetryKept
<1>8. CASE deliveries'[d].status = "failed"
  <2>1. CASE deliveries[d].status = "failed"
    BY <1>1, <1>7, <1>8, <2>1, FailedStays DEF Open, GivenUp
  <2>2. CASE deliveries[d].status = "pending"
    BY <1>1, <1>8, <2>2, FailedStays DEF Open, GivenUp
  <2>3. CASE deliveries[d].status = "broadcast"
    <3>1. CASE Release(d)
      <4>1. CertainlyUnsent(d) /\ deliveries'[d].attempt = deliveries[d].attempt
        BY <3>1, ReleaseIs
      <4> QED BY <1>8, <3>1, <4>1 DEF CertainlyUnsent, Open, GivenUp
    <3>2. CASE ~Release(d)
      BY <1>8, <2>3, <3>2, FailedBy DEF Open, GivenUp
    <3> QED BY <3>1, <3>2
  <2>4. deliveries[d].status # "accepted"
    BY DEF Open, GivenUp
  <2> QED BY <1>4, <2>1, <2>2, <2>3, <2>4
<1> QED BY <1>5, <1>6, <1>8 DEF Open

\* A delivery's step adds an event or a job, or neither.
LEMMA DeliverCarries ==
  ASSUME TypeInv, HaveNewest, NEW d \in DOMAIN deliveries, Delivers(d)
  PROVE  /\ Carried /\ HaveNewest' /\ ToldStays
         /\ Mine(d) => Told(StrategyOf(d))'
         /\ Release(d) /\ Reevaluated(d) =>
              \E k \in DOMAIN jobs' \ DOMAIN jobs : jobs'[k].sub = deliveries[d].sub
<1>1. ASSUME Mine(d)
      PROVE  /\ Carried /\ HaveNewest' /\ ToldStays
             /\ Told(StrategyOf(d))'
  <2>1. PICK t : t = deliveries[d].terms
    OBVIOUS
  <2>2. PICK s \in Strategies, m \in Owners, about \in SUBSET Strategies : Tells(d, s, m, t, about)
    BY <1>1, <2>1, MineIs
  <2>3. /\ s = StrategyOf(d) /\ s \in about /\ subs' = subs /\ jobs' = jobs /\ evals' = evals
        /\ events' = Append(events, Event("guard", about, "emitted", 0))
    BY <2>2 DEF Tells
  <2>4. /\ Carried /\ HaveNewest' /\ ToldStays
        /\ Told(s)'
    BY <2>3, TellingCarries
  <2>5. DOMAIN deliveries' = DOMAIN deliveries /\ deliveries'[d].sub = deliveries[d].sub
    BY <1>1 DEF Mine
  <2>6. s = subs'[deliveries'[d].sub].strategy
    BY <2>3, <2>5 DEF StrategyOf
  <2> QED BY <2>4, <2>6 DEF Told, StrategyOf
<1>2. CASE Release(d)
  BY <1>1, <1>2, ReleaseCarries
<1>3. CASE UNCHANGED <<events, jobs>> /\ ~Mine(d) /\ ~Release(d)
  <2>1. UNCHANGED <<subs, events, jobs, evals>>
    BY <1>3, DeliverWrites
  <2> QED BY <1>3, <2>1, NothingNew DEF Carried
<1> QED BY <1>1, <1>2, <1>3, DeliverWrites

\* What the guard should say is still on its way, is said, or the report is tried again.
LEMMA ComingDelivery ==
  ASSUME TypeInv, Agreement, Books, Answered, [Next]_vars, NEW d \in DOMAIN deliveries, Delivers(d),
         NEW x \in DOMAIN subs, NEW j \in DOMAIN jobs, Newest(x, j)', Ready(x), Coming(x),
         NEW s \in Strategies, NEW t \in Terms, s = subs[x].strategy, t = market[s],
         ~IsRevoked(s), ~Told(s)'
  PROVE  Effective(s, t)' \/ Coming(x)'
<1>1. PICK c : c = subs[x].last
  OBVIOUS
<1>2. c # 0 /\ deliveries[c].terms = t /\ ~Landed(c) /\ Open(c)
  BY <1>1 DEF Coming
<1>3. c \in DOMAIN deliveries /\ deliveries[c].sub = x
  BY <1>1, <1>2, LastTypes DEF Books
<1>4. /\ Lives(d) /\ subs' = subs /\ market' = market
      /\ Carried /\ HaveNewest' /\ ToldStays
      /\ Mine(d) => Told(StrategyOf(d))'
      /\ Release(d) /\ Reevaluated(d) =>
           \E k \in DOMAIN jobs' \ DOMAIN jobs : jobs'[k].sub = deliveries[d].sub
  BY DeliverLives, DeliverWrites, DeliverCarries DEF Delivers, Books, HaveNewest
<1>5. /\ DOMAIN deliveries' = DOMAIN deliveries
      /\ deliveries'[c].job = deliveries[c].job /\ deliveries'[c].terms = t
  BY <1>2, <1>3, <1>4 DEF Lives, OthersKept
<1>6. EntriesKept
  BY <1>4 DEF Carried, EventsKept, JobsKept, EntriesKept
<1>7. Retry(c)' = Retry(c)
  BY <1>3, <1>5, <1>6, RetryKept
<1>8. ASSUME ~Landed(c)', Open(c)' PROVE Coming(x)'
  BY <1>1, <1>2, <1>4, <1>5, <1>8 DEF Coming
<1>9. CASE c # d
  <2>1. deliveries'[c] = deliveries[c]
    BY <1>3, <1>4, <1>9 DEF Lives, OthersKept
  <2>2. ~Landed(c)'
    BY <1>2, <1>9, DeliverWrites, LandedNext DEF Mine, Landed
  <2>3. Open(c)'
    BY <1>2, <1>7, <2>1 DEF Open, GivenUp
  <2> QED BY <1>8, <2>2, <2>3
<1>10. CASE c = d
  <2>1. StrategyOf(d) = s
    BY <1>3, <1>10 DEF StrategyOf
  <2>2. ~Mine(d)
    <3>1. StrategyOf(d)' = s
      BY <1>4, <2>1 DEF Lives, OthersKept, StrategyOf
    <3> QED BY <1>4, <3>1 DEF Told
  <2>3. ~Landed(d)'
    BY <1>2, <1>10, <2>2, DeliverWrites DEF Landed
  <2>4. CASE Release(d) /\ deliveries[d].attempt = "stale"
    <3>1. ~Reevaluated(d)
      <4> SUFFICES ASSUME Reevaluated(d) PROVE FALSE
        OBVIOUS
      <4>1. PICK k \in DOMAIN jobs' \ DOMAIN jobs : jobs'[k].sub = x
        BY <1>3, <1>4, <1>10, <2>4
      <4>2. k <= j /\ j < k
        BY <1>4, <4>1 DEF Newest, Carried, JobsAreNew
      <4>3. k \in Nat /\ j \in Nat
        <5>1. jobs \in Seq(JobRow) /\ jobs' \in Seq(JobRow')
          BY NextTypes DEF TypeInv, Rows
        <5> QED BY <4>1, <5>1
      <4> QED BY <4>2, <4>3
    <3>2. ~(Retry(d) <= MaxTries)
      BY <1>3, <1>10, <2>4, <3>1 DEF Reevaluated
    <3>3. Retry(d) > MaxTries
      <4>1. deliveries[d].job \in DOMAIN jobs /\ jobs[deliveries[d].job].event \in DOMAIN events
        BY DEF TypeInv, References
      <4>2. events[jobs[deliveries[d].job].event] \in EventRow
        BY <4>1 DEF TypeInv, Rows
      <4>3. Retry(d) \in Nat /\ MaxTries \in Nat
        BY <4>2, DeliveryAssumption DEF Retry, EventRow
      <4> QED BY <3>2, <4>3
    <3>4. PICK row : /\ Admissible(d, row) /\ row.status = "failed"
                     /\ row.attempt = deliveries[d].attempt
                     /\ deliveries' = [deliveries EXCEPT ![d] = row]
      BY <2>4, ReleaseIs
    <3>5. deliveries'[d].status = "failed" /\ deliveries'[d].attempt = "stale"
      BY <2>4, <3>4
    <3>6. Open(d)'
      BY <1>7, <1>10, <3>3, <3>5 DEF Open, GivenUp
    <3> QED BY <1>8, <1>10, <2>3, <3>6
  <2>5. CASE Release(d) /\ deliveries[d].attempt = "effective"
    <3>1. Effective(s, t)
      <4>1. deliveries[d].status = "broadcast"
        BY <2>5, ReleaseIs
      <4>2. IsRevoked(StrategyOf(d)) \/ Effective(StrategyOf(d), deliveries[d].terms)
        BY <2>5, <4>1 DEF Answered, Acted
      <4> QED BY <1>2, <1>10, <2>1, <4>2
    <3> QED BY <3>1, UnmovedUnlessTold DEF Unmoved
  <2>6. CASE Release(d) => deliveries[d].attempt \notin {"stale", "effective"}
    <3>1. Open(d)'
      BY <1>2, <1>6, <1>10, <2>3, <2>6, OpenStays
    <3> QED BY <1>8, <1>10, <2>3, <3>1
  <2> QED BY <2>4, <2>5, <2>6
<1> QED BY <1>9, <1>10

\* The steps of a delivery keep what holds in line.
LEMMA DeliverLine ==
  ASSUME TypeInv, Agreement, Leases, Books, Answered, InLine, [Next]_vars,
         NEW d \in DOMAIN deliveries, Delivers(d)
  PROVE  Carried /\ HaveNewest' /\ InLine'
<1>1. Carried /\ HaveNewest' /\ ToldStays
  BY DeliverCarries DEF Books, HaveNewest
<1> SUFFICES ASSUME NEW x \in DOMAIN subs', NEW j \in DOMAIN jobs', Hears(x)', Newest(x, j)'
             PROVE  Known(x, j)' /\ Done(x, j)'
  BY <1>1 DEF InLine
<1>2. PICK s, t : s = subs'[x].strategy /\ t = market'[s]
  OBVIOUS
<1>3. ~Told(s)'
  BY <1>2 DEF Hears, Told
<1>4. subs' = subs /\ market' = market
  BY DeliverWrites
<1>5. s \in Strategies /\ t \in Terms
  <2>1. subs[x] \in SubRow
    BY <1>4 DEF TypeInv, Rows
  <2> QED BY <1>2, <1>4, <2>1 DEF SubRow, TypeInv, OnChain
<1>6. Ready(x)
  BY <1>4 DEF Hears, Ready
<1>7. ASSUME Newest(x, j)
      PROVE  /\ ~Told(s)
             /\ Coming(x) /\ ~IsRevoked(s) => Effective(s, t)' \/ Coming(x)'
  BY <1>1, <1>2, <1>3, <1>4, <1>5, <1>6, <1>7, ComingDelivery DEF ToldStays, Newest
<1> QED BY <1>1, <1>2, <1>7, CarriedLine

\* What evaluator v knows of a strategy s that shall say t.
Fits(v, j, s, t) ==
  /\ (v.job = j \/ jobs[j].state = "succeeded") /\ v.at \in {"simulated", "changed"} =>
       /\ v.terms = t
       /\ v.at = "changed" => ~IsRevoked(s)
  /\ v.job = j /\ v.at = "unchanged" => ~IsRevoked(s) /\ Effective(s, t)

\* Known and Done, said of a strategy and its terms that do not change.
Sound(x, j, s, t) ==
  /\ jobs[j].state = "succeeded" => ~IsRevoked(s) /\ (Effective(s, t) \/ Coming(x))
  /\ \A v \in evals : Owns(v) /\ SubOf(v) = x => Fits(v, j, s, t)

\* One way ...
LEMMA SoundIs ==
  ASSUME NEW x, NEW j, NEW s, NEW t, s = subs[x].strategy, t = market[s], Known(x, j), Done(x, j)
  PROVE  Sound(x, j, s, t)
BY DEF Known, Done, Right, Sound, Fits

\* ... and the other, after a step.
LEMMA SoundThen ==
  ASSUME NEW x, NEW j, NEW s, NEW t, s = subs'[x].strategy, t = market'[s], Sound(x, j, s, t)'
  PROVE  Known(x, j)' /\ Done(x, j)'
<1>1. Done(x, j)'
  BY DoneNext DEF Sound
<1>2. ASSUME NEW v \in evals', Owns(v)', SubOf(v)' = x PROVE Right(v, x, j)'
  <2>1. Fits(v, j, s, t)'
    BY <1>2 DEF Sound
  <2> QED BY <2>1, RightNext DEF Fits
<1> QED BY <1>1, <1>2 DEF Known

\* The guard and the market are as they were.
Outside == UNCHANGED <<events, landed, report, active, revoked, market>>

\* It stays so when the evaluators of x are as they were or fit.
LEMMA SoundNext ==
  ASSUME NEW x, NEW j, NEW s, NEW t, Outside, Sound(x, j, s, t),
         Coming(x) => Coming(x)',
         jobs'[j].state = "succeeded" => jobs[j].state = "succeeded",
         \A u \in evals' : Owns(u)' /\ SubOf(u)' = x =>
           (u \in evals /\ Owns(u) /\ SubOf(u) = x) \/ Fits(u, j, s, t)'
  PROVE  Sound(x, j, s, t)'
<1>1. (Effective(s, t)' <=> Effective(s, t)) /\ IsRevoked(s)' = IsRevoked(s)
  BY DEF Outside, Effective, IsRevoked
<1>2. jobs'[j].state = "succeeded" => ~IsRevoked(s)' /\ (Effective(s, t)' \/ Coming(x)')
  BY <1>1 DEF Sound
<1>3. ASSUME NEW u \in evals', Owns(u)', SubOf(u)' = x PROVE Fits(u, j, s, t)'
  BY <1>1, <1>3 DEF Sound, Fits
<1> QED BY <1>2, <1>3 DEF Sound

\* An evaluation keeps what holds in line when it keeps what is sound.
LEMMA EvaluatingLine ==
  ASSUME TypeInv, InLine, Outside, DOMAIN jobs' = DOMAIN jobs,
         \A k \in DOMAIN jobs : jobs'[k].sub = jobs[k].sub,
         DOMAIN subs' = DOMAIN subs,
         \A x \in DOMAIN subs :
           /\ subs'[x].strategy = subs[x].strategy /\ subs'[x].source = subs[x].source
           /\ Ready(x)' => Ready(x),
         \A x \in DOMAIN subs, j \in DOMAIN jobs, s \in Strategies, t \in Terms :
           s = subs[x].strategy /\ t = market[s] /\ Newest(x, j) /\ Sound(x, j, s, t)
             => Sound(x, j, s, t)'
  PROVE  InLine'
<1> SUFFICES ASSUME NEW x \in DOMAIN subs, NEW j \in DOMAIN jobs, Hears(x)', Newest(x, j)'
             PROVE  Known(x, j)' /\ Done(x, j)'
  BY DEF InLine
<1>1. PICK s, t : s = subs[x].strategy /\ t = market[s]
  OBVIOUS
<1>2. s \in Strategies /\ t \in Terms
  <2>1. subs[x] \in SubRow
    BY DEF TypeInv, Rows
  <2> QED BY <1>1, <2>1 DEF SubRow, TypeInv, OnChain
<1>3. Newest(x, j)
  BY DEF Newest
<1>4. Hears(x)
  <2>1. ~Told(s)
    BY <1>1 DEF Hears, Told, Outside
  <2> QED BY <1>1, <2>1 DEF Hears
<1>5. Sound(x, j, s, t)
  BY <1>1, <1>3, <1>4, SoundIs DEF InLine
<1>6. Sound(x, j, s, t)'
  BY <1>1, <1>2, <1>3, <1>5
<1> QED BY <1>1, <1>6, SoundThen DEF Outside

\* The same when no subscription changes.
LEMMA EvaluatedLine ==
  ASSUME TypeInv, InLine, Outside, subs' = subs, DOMAIN jobs' = DOMAIN jobs,
         \A k \in DOMAIN jobs : jobs'[k].sub = jobs[k].sub,
         \A x \in DOMAIN subs, j \in DOMAIN jobs, s \in Strategies, t \in Terms :
           s = subs[x].strategy /\ t = market[s] /\ Newest(x, j) /\ Sound(x, j, s, t)
             => Sound(x, j, s, t)'
  PROVE  InLine'
<1>1. \A x \in DOMAIN subs : Ready(x)' => Ready(x)
  BY DEF Ready
<1> QED BY <1>1, EvaluatingLine

\* A report on its way is, when no row but a job's state changes.
LEMMA ComingStill ==
  ASSUME TypeInv, UNCHANGED <<subs, deliveries>>, Outside, EntriesKept, NEW x \in DOMAIN subs,
         Coming(x)
  PROVE  Coming(x)'
<1>1. PICK d : d = subs[x].last
  OBVIOUS
<1>2. d \in DOMAIN deliveries
  BY <1>1, LastTypes DEF Coming
<1>3. Retry(d)' = Retry(d)
  BY <1>2, RetryKept
<1> QED BY <1>1, <1>3 DEF Coming, Open, GivenUp, Outside, Landed

\* ClaimEvaluation: the evaluator knows nothing, and older ones have lost the lease.
LEMMA ClaimLine ==
  ASSUME TypeInv, Leases, InLine, NEW i \in DOMAIN jobs, ClaimEvaluation(i)
  PROVE  InLine'
<1>1. PICK row, w :
        /\ row = [jobs[i] EXCEPT !.state = "running", !.leased = TRUE, !.tries = @ + 1]
        /\ w = Evaluation(i, jobs[i].tries + 1, "claimed", First, 0)
  OBVIOUS
<1>2. /\ jobs' = [jobs EXCEPT ![i] = row] /\ evals' = evals \cup {w}
      /\ UNCHANGED <<subs, deliveries>> /\ Outside
  BY <1>1 DEF ClaimEvaluation, Outside, chain
<1>3. jobs[i] \in JobRow
  BY DEF TypeInv, Rows
<1>4. /\ row.sub = jobs[i].sub /\ row.event = jobs[i].event
      /\ row.state = "running" /\ row.leased /\ row.tries = jobs[i].tries + 1
  BY <1>1, <1>3 DEF JobRow
<1>5. w.job = i /\ w.at = "claimed"
  BY <1>1 DEF Evaluation
<1>6. /\ DOMAIN jobs' = DOMAIN jobs /\ jobs'[i] = row
      /\ \A k \in DOMAIN jobs : k # i => jobs'[k] = jobs[k]
  BY <1>2
<1>7. EntriesKept
  BY <1>2, <1>4, <1>6 DEF EntriesKept, Outside
<1>8. ASSUME NEW x \in DOMAIN subs, NEW j \in DOMAIN jobs, NEW s \in Strategies, NEW t \in Terms,
             Sound(x, j, s, t)
      PROVE  Sound(x, j, s, t)'
  <2>1. jobs'[j].state = "succeeded" => jobs[j].state = "succeeded"
    BY <1>4, <1>6
  <2>2. ASSUME NEW u \in evals', Owns(u)', SubOf(u)' = x
        PROVE  (u \in evals /\ Owns(u) /\ SubOf(u) = x) \/ Fits(u, j, s, t)'
    <3>1. CASE u = w
      BY <1>5, <3>1 DEF Fits
    <3>2. CASE u \in evals /\ u.job = i
      <4>1. u.token <= jobs[i].tries /\ u.token = jobs[i].tries + 1
        BY <1>4, <1>6, <2>2, <3>2 DEF Leases, Owns
      <4>2. jobs[i].tries \in Nat
        BY <1>3 DEF JobRow
      <4> QED BY <4>1, <4>2
    <3>3. CASE u \in evals /\ u.job # i
      <4>1. u.job \in DOMAIN jobs
        BY <3>3, EvalRows
      <4> QED BY <1>6, <2>2, <3>3, <4>1 DEF Owns, SubOf
    <3> QED BY <1>2, <3>1, <3>2, <3>3
  <2>3. Coming(x) => Coming(x)'
    BY <1>2, <1>7, ComingStill
  <2> QED BY <1>2, <1>8, <2>1, <2>2, <2>3, SoundNext
<1> QED BY <1>2, <1>6, <1>7, <1>8, EvaluatedLine DEF EntriesKept

\* A step of an evaluator: it goes on as w, which fits, or it is gone.
LEMMA SteppedLine ==
  ASSUME TypeInv, InLine, UNCHANGED <<subs, jobs, deliveries>>, Outside,
         NEW w, evals' \subseteq evals \cup {w},
         \A x \in DOMAIN subs, j \in DOMAIN jobs, s \in Strategies, t \in Terms :
           (s = subs[x].strategy /\ t = market[s] /\ Sound(x, j, s, t) /\ Owns(w) /\ SubOf(w) = x)
             => Fits(w, j, s, t)
  PROVE  InLine'
<1>1. EntriesKept
  BY DEF EntriesKept, Outside
<1>2. ASSUME NEW x \in DOMAIN subs, NEW j \in DOMAIN jobs, NEW s \in Strategies, NEW t \in Terms,
             s = subs[x].strategy, t = market[s], Sound(x, j, s, t)
      PROVE  Sound(x, j, s, t)'
  <2>1. ASSUME NEW u \in evals', Owns(u)', SubOf(u)' = x
        PROVE  (u \in evals /\ Owns(u) /\ SubOf(u) = x) \/ Fits(u, j, s, t)'
    <3>1. Owns(u) /\ SubOf(u) = x
      BY <2>1 DEF Owns, SubOf
    <3>2. CASE u = w
      <4>1. Fits(u, j, s, t)
        BY <1>2, <3>1, <3>2
      <4> QED BY <4>1 DEF Fits, Effective, IsRevoked, Outside
    <3> QED BY <3>1, <3>2
  <2>2. Coming(x) => Coming(x)'
    BY <1>1, ComingStill
  <2> QED BY <1>2, <2>1, <2>2, SoundNext
<1> QED BY <1>2, EvaluatedLine

\* Simulate finds what the market says.
LEMMA SimulateLine ==
  ASSUME TypeInv, InLine, NEW v \in evals, Simulate(v)
  PROVE  InLine'
<1>1. PICK w : w = IF Ready(SubOf(v)) /\ ~IsRevoked(Subject(v))
                   THEN [v EXCEPT !.at = "simulated", !.terms = market[Subject(v)]]
                   ELSE Failing(v)
  OBVIOUS
<1>2. /\ evals' \subseteq evals \cup {w} /\ UNCHANGED <<subs, jobs, deliveries>> /\ Outside
  BY <1>1 DEF Simulate, Step, Outside, rows, chain
<1>3. v \in EvalRow
  BY EvalRows
<1>4. \/ w.at = "failed"
      \/ w.job = v.job /\ w.at = "simulated" /\ w.terms = market[Subject(v)]
  BY <1>1, <1>3 DEF Failing, Evaluation, EvalRow
<1>5. ASSUME NEW x \in DOMAIN subs, NEW j \in DOMAIN jobs, NEW s \in Strategies, NEW t \in Terms,
             s = subs[x].strategy, t = market[s], SubOf(w) = x
      PROVE  Fits(w, j, s, t)
  BY <1>4, <1>5 DEF Fits, Subject, SubOf
<1> QED BY <1>2, <1>5, SteppedLine

\* Compare finds whether the guard says it.
LEMMA CompareLine ==
  ASSUME TypeInv, InLine, NEW v \in evals, Compare(v)
  PROVE  InLine'
<1>1. PICK w : w = IF IsRevoked(Subject(v)) THEN Failing(v)
                   ELSE IF Effective(Subject(v), v.terms) THEN Unneeded(v)
                   ELSE [v EXCEPT !.at = "changed", !.floor = StoredNonce(Subject(v))]
  OBVIOUS
<1>2. /\ evals' \subseteq evals \cup {w} /\ UNCHANGED <<subs, jobs, deliveries>> /\ Outside
      /\ v.at = "simulated"
  BY <1>1 DEF Compare, Step, Outside, rows, chain
<1>3. v \in EvalRow
  BY EvalRows
<1>4. \/ w.at = "failed"
      \/ /\ w.job = v.job /\ w.token = v.token /\ w.at = "unchanged"
         /\ ~IsRevoked(Subject(v)) /\ Effective(Subject(v), v.terms)
      \/ /\ w.job = v.job /\ w.token = v.token /\ w.at = "changed" /\ w.terms = v.terms
         /\ ~IsRevoked(Subject(v))
  <2>1. CASE IsRevoked(Subject(v))
    BY <1>1, <2>1 DEF Failing, Evaluation
  <2>2. CASE ~IsRevoked(Subject(v)) /\ Effective(Subject(v), v.terms)
    BY <1>1, <2>2 DEF Unneeded, Evaluation
  <2>3. CASE ~IsRevoked(Subject(v)) /\ ~Effective(Subject(v), v.terms)
    <3>1. w = [v EXCEPT !.at = "changed", !.floor = StoredNonce(Subject(v))]
      BY <1>1, <2>3
    <3> QED BY <1>3, <2>3, <3>1 DEF EvalRow
  <2> QED BY <2>1, <2>2, <2>3
<1>5. ASSUME NEW x \in DOMAIN subs, NEW j \in DOMAIN jobs, NEW s \in Strategies, NEW t \in Terms,
             s = subs[x].strategy, t = market[s], Sound(x, j, s, t), Owns(w), SubOf(w) = x
      PROVE  Fits(w, j, s, t)
  <2>1. CASE w.at = "failed"
    BY <2>1 DEF Fits
  <2>2. CASE w.job = v.job /\ w.token = v.token /\ ~IsRevoked(Subject(v))
    <3>1. Owns(v) /\ SubOf(v) = x /\ Subject(v) = s
      BY <1>5, <2>2 DEF Owns, SubOf, Subject
    <3>2. Fits(v, j, s, t)
      BY <1>5, <3>1 DEF Sound
    <3> QED BY <1>2, <1>4, <2>2, <3>1, <3>2 DEF Fits
  <2> QED BY <1>4, <2>1, <2>2
<1> QED BY <1>2, <1>5, SteppedLine

\* An evaluation that fails, is dropped or is lost.
LEMMA LostLine ==
  ASSUME TypeInv, InLine, NEW v \in evals, EvaluationFails(v) \/ Abandon(v) \/ EvaluatorCrashes(v)
  PROVE  InLine'
<1>1. PICK w : w = Failing(v)
  OBVIOUS
<1>2. evals' \subseteq evals \cup {w} /\ UNCHANGED <<subs, jobs, deliveries>> /\ Outside
  BY <1>1 DEF EvaluationFails, Abandon, EvaluatorCrashes, Step, Outside, rows, chain
<1>3. \A j, s, t : Fits(w, j, s, t)
  BY <1>1 DEF Fits, Failing, Evaluation
<1> QED BY <1>2, <1>3, SteppedLine

\* The job of an evaluation is done: nobody has a lease of its subscription.
LEMMA FinishedIs ==
  ASSUME TypeInv, Leases, NEW v \in evals, Holds(v), NEW state, jobs' = Finished(v, state),
         evals' = evals \ {v}
  PROVE  /\ Owns(v) /\ v.job \in DOMAIN jobs /\ DOMAIN jobs' = DOMAIN jobs
         /\ jobs'[v.job].state = state /\ ~jobs'[v.job].leased
         /\ \A k \in DOMAIN jobs :
              /\ jobs'[k].sub = jobs[k].sub /\ jobs'[k].event = jobs[k].event
              /\ jobs'[k].tries = jobs[k].tries
              /\ k # v.job => jobs'[k] = jobs[k]
         /\ \A u \in evals' : Owns(u)' => Owns(u) /\ SubOf(u)' = SubOf(u) /\ SubOf(u) # SubOf(v)
<1>1. PICK row : row = [jobs[v.job] EXCEPT !.state = state, !.leased = FALSE]
  OBVIOUS
<1>2. v.job \in DOMAIN jobs /\ jobs[v.job] \in JobRow
  BY EvalRows DEF TypeInv, Rows
<1>3. /\ row.sub = jobs[v.job].sub /\ row.event = jobs[v.job].event
      /\ row.tries = jobs[v.job].tries /\ row.state = state /\ row.leased = FALSE
  BY <1>1, <1>2 DEF JobRow
<1>4. jobs' = [jobs EXCEPT ![v.job] = row]
  BY <1>1, <1>2 DEF Finished
<1>5. /\ DOMAIN jobs' = DOMAIN jobs /\ jobs'[v.job] = row
      /\ \A k \in DOMAIN jobs : k # v.job => jobs'[k] = jobs[k]
  BY <1>2, <1>4
<1>6. Owns(v)
  BY DEF Holds, Owns
<1>7. ASSUME NEW u \in evals', Owns(u)'
      PROVE  Owns(u) /\ SubOf(u)' = SubOf(u) /\ SubOf(u) # SubOf(v)
  <2>1. u \in evals /\ u.job \in DOMAIN jobs
    BY EvalRows
  <2>2. u.job # v.job
    BY <1>3, <1>5, <1>7 DEF Owns
  <2>3. Owns(u) /\ SubOf(u)' = SubOf(u)
    BY <1>5, <1>7, <2>1, <2>2 DEF Owns, SubOf
  <2>4. SubOf(u) # SubOf(v)
    BY <1>2, <1>6, <2>1, <2>2, <2>3 DEF Owns, SubOf, Leases
  <2> QED BY <2>3, <2>4
<1> QED BY <1>2, <1>3, <1>5, <1>6, <1>7

\* An evaluation that failed: its job has not succeeded.
LEMMA CompleteFailedLine ==
  ASSUME TypeInv, Leases, InLine, NEW v \in evals, CompleteFailed(v)
  PROVE  InLine'
<1>1. PICK state \in {"failed", "pending"} : jobs' = Finished(v, state)
  BY DEF CompleteFailed
<1>2. Holds(v) /\ evals' = evals \ {v} /\ UNCHANGED <<subs, deliveries>> /\ Outside
  BY DEF CompleteFailed, Outside, chain
<1>3. /\ DOMAIN jobs' = DOMAIN jobs /\ jobs'[v.job].state = state
      /\ \A k \in DOMAIN jobs :
           /\ jobs'[k].sub = jobs[k].sub /\ jobs'[k].event = jobs[k].event
           /\ k # v.job => jobs'[k] = jobs[k]
      /\ \A u \in evals' : Owns(u)' => Owns(u) /\ SubOf(u)' = SubOf(u) /\ SubOf(u) # SubOf(v)
  BY <1>1, <1>2, FinishedIs
<1>4. EntriesKept
  BY <1>2, <1>3 DEF EntriesKept, Outside
<1>5. ASSUME NEW x \in DOMAIN subs, NEW j \in DOMAIN jobs, NEW s \in Strategies, NEW t \in Terms,
             Sound(x, j, s, t)
      PROVE  Sound(x, j, s, t)'
  <2>1. jobs'[j].state = "succeeded" => jobs[j].state = "succeeded"
    BY <1>1, <1>3
  <2>2. \A u \in evals' : Owns(u)' /\ SubOf(u)' = x => u \in evals /\ Owns(u) /\ SubOf(u) = x
    BY <1>2, <1>3
  <2>3. Coming(x) => Coming(x)'
    BY <1>2, <1>4, ComingStill
  <2> QED BY <1>2, <1>5, <2>1, <2>2, <2>3, SoundNext
<1> QED BY <1>2, <1>3, <1>5, EvaluatedLine

\* A subscription whose evaluation is complete: the guard says what was found, or will.
LEMMA CompletedSound ==
  ASSUME NEW x, NEW j, NEW s, NEW t, Outside, NEW v \in evals,
         \A u \in evals' : Owns(u)' => SubOf(u)' # x,
         jobs'[j].state = "succeeded" => ~IsRevoked(s) /\ (Effective(s, t) \/ Coming(x)')
  PROVE  Sound(x, j, s, t)'
BY DEF Sound, Outside, Effective, IsRevoked

\* The evaluator of x that completes knows what x shall say.
LEMMA CompletingKnows ==
  ASSUME NEW x, NEW j, NEW s, NEW t, NEW v \in evals, Sound(x, j, s, t), Owns(v), SubOf(v) = x,
         v.job = j \/ jobs[j].state = "succeeded"
  PROVE  /\ v.at = "changed" => v.terms = t /\ ~IsRevoked(s)
         /\ v.at = "unchanged" => ~IsRevoked(s) /\ (Effective(s, t) \/ Coming(x))
BY DEF Sound, Fits

\* An evaluation that found no change, or the last report saying the same.
LEMMA CompleteUnchangedLine ==
  ASSUME TypeInv, Agreement, Leases, Books, Answered, InLine, NEW v \in evals, CompleteUnchanged(v)
  PROVE  InLine'
<1>1. /\ jobs' = Finished(v, "succeeded") /\ Holds(v) /\ evals' = evals \ {v}
      /\ v.at = "unchanged" \/ (v.at = "changed" /\ Repeats(v))
      /\ UNCHANGED <<subs, deliveries>> /\ Outside
  BY DEF CompleteUnchanged, Outside, chain
<1>2. /\ Owns(v) /\ v.job \in DOMAIN jobs /\ DOMAIN jobs' = DOMAIN jobs
      /\ \A k \in DOMAIN jobs :
           /\ jobs'[k].sub = jobs[k].sub /\ jobs'[k].event = jobs[k].event
           /\ k # v.job => jobs'[k] = jobs[k]
      /\ \A u \in evals' : Owns(u)' => Owns(u) /\ SubOf(u)' = SubOf(u) /\ SubOf(u) # SubOf(v)
  BY <1>1, FinishedIs
<1>3. EntriesKept
  BY <1>1, <1>2 DEF EntriesKept, Outside
<1>4. ASSUME NEW x \in DOMAIN subs, NEW j \in DOMAIN jobs, NEW s \in Strategies, NEW t \in Terms,
             s = subs[x].strategy, t = market[s], Newest(x, j), Sound(x, j, s, t)
      PROVE  Sound(x, j, s, t)'
  <2>1. Coming(x) => Coming(x)'
    BY <1>1, <1>3, ComingStill
  <2>2. CASE SubOf(v) # x
    <3>1. j # v.job
      BY <1>4, <2>2 DEF Newest, SubOf
    <3>2. jobs'[j].state = "succeeded" => jobs[j].state = "succeeded"
      BY <1>2, <3>1
    <3>3. \A u \in evals' : Owns(u)' /\ SubOf(u)' = x => u \in evals /\ Owns(u) /\ SubOf(u) = x
      BY <1>1, <1>2
    <3> QED BY <1>1, <1>4, <2>1, <3>2, <3>3, SoundNext
  <2>3. CASE SubOf(v) = x
    <3>1. \A u \in evals' : Owns(u)' => SubOf(u)' # x
      BY <1>2, <2>3
    <3>2. ASSUME jobs'[j].state = "succeeded"
          PROVE  ~IsRevoked(s) /\ (Effective(s, t) \/ Coming(x))
      <4>1. v.job = j \/ jobs[j].state = "succeeded"
        BY <1>2, <3>2
      <4>2. CASE v.at = "unchanged"
        BY <1>2, <1>4, <2>3, <4>1, <4>2, CompletingKnows
      <4>3. CASE v.at = "changed" /\ Repeats(v)
        <5>1. v.terms = t /\ ~IsRevoked(s)
          BY <1>2, <1>4, <2>3, <4>1, <4>3, CompletingKnows
        <5>2. PICK d : d = subs[x].last
          OBVIOUS
        <5>3. /\ d # 0 /\ deliveries[d].terms = t
              /\ deliveries[d].status \in {"pending", "broadcast"}
          BY <2>3, <4>3, <5>1, <5>2 DEF Repeats
        <5>4. d \in DOMAIN deliveries /\ StrategyOf(d) = s
          BY <1>4, <5>2, <5>3, LastTypes DEF Books, StrategyOf
        <5>5. CASE ~Landed(d)
          BY <1>4, <5>1, <5>2, <5>3, <5>5 DEF Coming, Open
        <5>6. CASE Landed(d)
          <6>1. deliveries[d].status = "broadcast"
            BY <5>3, <5>4, <5>6 DEF Agreement, Agreed, Agree
          <6>2. IsRevoked(StrategyOf(d)) \/ Effective(StrategyOf(d), deliveries[d].terms)
            BY <5>4, <5>6, <6>1 DEF Answered, Acted
          <6> QED BY <5>1, <5>3, <5>4, <6>2
        <5> QED BY <5>5, <5>6
      <4> QED BY <1>1, <4>2, <4>3
    <3>3. jobs'[j].state = "succeeded" => ~IsRevoked(s) /\ (Effective(s, t) \/ Coming(x)')
      BY <2>1, <3>2
    <3> QED BY <1>1, <3>1, <3>3, CompletedSound
  <2> QED BY <2>2, <2>3
<1> QED BY <1>1, <1>2, <1>4, EvaluatedLine

\* What CompleteChanged does to the rows.
LEMMA CompleteChangedIs ==
  ASSUME TypeInv, NEW v \in evals, CompleteChanged(v), NEW n, n = Len(deliveries) + 1
  PROVE  /\ jobs' = Finished(v, "succeeded") /\ Holds(v) /\ evals' = evals \ {v}
         /\ v.at = "changed" /\ Outside /\ SubOf(v) \in DOMAIN subs
         /\ DOMAIN subs' = DOMAIN subs
         /\ \A x \in DOMAIN subs :
              /\ subs'[x].strategy = subs[x].strategy /\ subs'[x].source = subs[x].source
              /\ Ready(x)' = Ready(x)
              /\ x # SubOf(v) => subs'[x] = subs[x]
         /\ subs'[SubOf(v)].last = n
         /\ n # 0 /\ n \notin DOMAIN deliveries /\ ~Landed(n)
         /\ DOMAIN deliveries' = DOMAIN deliveries \cup {n}
         /\ \A d \in DOMAIN deliveries : deliveries'[d] = deliveries[d] /\ child'[d] = child[d]
         /\ deliveries'[n].sub = SubOf(v) /\ deliveries'[n].terms = v.terms
         /\ deliveries'[n].status = "pending"
<1>1. PICK x, row : x = SubOf(v) /\ row = [subs[x] EXCEPT !.last = n]
  OBVIOUS
<1>2. /\ jobs' = Finished(v, "succeeded") /\ Holds(v) /\ evals' = evals \ {v}
      /\ v.at = "changed" /\ subs' = [subs EXCEPT ![x] = row] /\ Outside
  BY <1>1 DEF CompleteChanged, Outside, chain
<1>3. x \in DOMAIN subs /\ subs[x] \in SubRow
  BY <1>1, EvalRows DEF TypeInv, Rows
<1>4. /\ row.strategy = subs[x].strategy /\ row.source = subs[x].source /\ row.last = n
      /\ row.live = subs[x].live /\ row.consented = subs[x].consented
  BY <1>1, <1>3 DEF SubRow
<1>5. /\ DOMAIN subs' = DOMAIN subs /\ subs'[x] = row
      /\ \A y \in DOMAIN subs : y # x => subs'[y] = subs[y]
  BY <1>2, <1>3
<1>6. ASSUME NEW y \in DOMAIN subs
      PROVE  /\ subs'[y].strategy = subs[y].strategy /\ subs'[y].source = subs[y].source
             /\ Ready(y)' = Ready(y)
  BY <1>4, <1>5 DEF Ready
<1>7. Reported(v)
  BY CompleteReports
<1>8. Len(deliveries) \in Nat /\ DOMAIN deliveries = 1 .. Len(deliveries)
  BY DEF TypeInv, Rows
<1>9. n # 0 /\ n \notin DOMAIN deliveries /\ 1 .. n = DOMAIN deliveries \cup {n}
  BY <1>8
<1>10. ~Landed(n)
  BY <1>9 DEF Landed, TypeInv, References
<1>11. /\ DOMAIN deliveries' = DOMAIN deliveries \cup {n}
       /\ \A d \in DOMAIN deliveries : deliveries'[d] = deliveries[d] /\ child'[d] = child[d]
       /\ deliveries'[n] = NewReport(v)
  BY <1>7, <1>9 DEF Reported
<1>12. /\ deliveries'[n].sub = SubOf(v) /\ deliveries'[n].terms = v.terms
       /\ deliveries'[n].status = "pending"
  BY <1>11 DEF NewReport
<1> QED BY <1>1, <1>2, <1>3, <1>4, <1>5, <1>6, <1>9, <1>10, <1>11, <1>12

\* An evaluation that ends with a report: what the guard should say is on its way.
LEMMA CompleteChangedLine ==
  ASSUME TypeInv, Leases, InLine, NEW v \in evals, CompleteChanged(v)
  PROVE  InLine'
<1>1. PICK n : n = Len(deliveries) + 1
  OBVIOUS
<1>2. /\ jobs' = Finished(v, "succeeded") /\ Holds(v) /\ evals' = evals \ {v}
      /\ v.at = "changed" /\ Outside
      /\ DOMAIN subs' = DOMAIN subs
      /\ \A x \in DOMAIN subs :
           /\ subs'[x].strategy = subs[x].strategy /\ subs'[x].source = subs[x].source
           /\ Ready(x)' = Ready(x)
           /\ x # SubOf(v) => subs'[x] = subs[x]
      /\ subs'[SubOf(v)].last = n
      /\ n # 0 /\ ~Landed(n)
      /\ DOMAIN deliveries' = DOMAIN deliveries \cup {n}
      /\ \A d \in DOMAIN deliveries : deliveries'[d] = deliveries[d]
      /\ deliveries'[n].terms = v.terms /\ deliveries'[n].status = "pending"
  BY <1>1, CompleteChangedIs
<1>3. /\ Owns(v) /\ v.job \in DOMAIN jobs /\ DOMAIN jobs' = DOMAIN jobs
      /\ \A k \in DOMAIN jobs :
           /\ jobs'[k].sub = jobs[k].sub /\ jobs'[k].event = jobs[k].event
           /\ k # v.job => jobs'[k] = jobs[k]
      /\ \A u \in evals' : Owns(u)' => Owns(u) /\ SubOf(u)' = SubOf(u) /\ SubOf(u) # SubOf(v)
  BY <1>2, FinishedIs
<1>4. EntriesKept
  BY <1>2, <1>3 DEF EntriesKept, Outside
<1>5. \A d : Landed(d)' <=> Landed(d)
  BY <1>2 DEF Outside, Landed
<1>6. ASSUME NEW x \in DOMAIN subs, NEW j \in DOMAIN jobs, NEW s \in Strategies, NEW t \in Terms,
             s = subs[x].strategy, t = market[s], Newest(x, j), Sound(x, j, s, t)
      PROVE  Sound(x, j, s, t)'
  <2>1. market'[s] = t /\ subs'[x].strategy = s
    BY <1>2, <1>6 DEF Outside
  <2>2. CASE SubOf(v) # x
    <3>1. j # v.job
      BY <1>6, <2>2 DEF Newest, SubOf
    <3>2. jobs'[j].state = "succeeded" => jobs[j].state = "succeeded"
      BY <1>3, <3>1
    <3>3. \A u \in evals' : Owns(u)' /\ SubOf(u)' = x => u \in evals /\ Owns(u) /\ SubOf(u) = x
      BY <1>2, <1>3
    <3>4. ASSUME Coming(x) PROVE Coming(x)'
      <4>1. PICK d : d = subs[x].last
        OBVIOUS
      <4>2. d \in DOMAIN deliveries
        BY <3>4, <4>1, LastTypes DEF Coming
      <4>3. deliveries'[d] = deliveries[d] /\ subs'[x] = subs[x]
        BY <1>2, <2>2, <4>2
      <4>4. Retry(d)' = Retry(d)
        BY <1>4, <4>2, <4>3, RetryKept
      <4> QED BY <1>5, <1>6, <2>1, <3>4, <4>1, <4>3, <4>4 DEF Coming, Open, GivenUp
    <3> QED BY <1>2, <1>6, <3>2, <3>3, <3>4, SoundNext
  <2>3. CASE SubOf(v) = x
    <3>1. \A u \in evals' : Owns(u)' => SubOf(u)' # x
      BY <1>3, <2>3
    <3>2. ASSUME jobs'[j].state = "succeeded" PROVE v.terms = t /\ ~IsRevoked(s)
      <4>1. v.job = j \/ jobs[j].state = "succeeded"
        BY <1>3, <3>2
      <4> QED BY <1>2, <1>3, <1>6, <2>3, <4>1, CompletingKnows
    <3>3. ASSUME v.terms = t PROVE Coming(x)'
      BY <1>2, <1>5, <2>1, <2>3, <3>3 DEF Coming, Open
    <3> QED BY <1>2, <3>1, <3>2, <3>3, CompletedSound
  <2> QED BY <2>2, <2>3
<1> QED BY <1>2, <1>3, <1>6, EvaluatingLine

\* An evaluation's step leaves one lease for each subscription.
LEMMA EvaluatingLeases ==
  ASSUME TypeInv, Leases, DOMAIN jobs' = DOMAIN jobs,
         \A j \in DOMAIN jobs :
           /\ jobs'[j].sub = jobs[j].sub
           /\ jobs'[j].tries \in Nat /\ jobs'[j].tries >= jobs[j].tries,
         \A j \in DOMAIN jobs : jobs'[j].leased =>
           /\ jobs'[j].state = "running"
           /\ \/ jobs[j].leased
              \/ \A k \in DOMAIN jobs : jobs'[k].leased /\ jobs[k].sub = jobs[j].sub => k = j,
         \A u \in evals' :
           \/ u.token <= jobs'[u.job].tries
           \/ \E v \in evals : v.job = u.job /\ v.token = u.token
  PROVE  Leases'
<1>1. \A j, k \in DOMAIN jobs' :
        jobs'[j].leased /\ jobs'[k].leased /\ jobs'[j].sub = jobs'[k].sub => j = k
  BY DEF Leases
<1>2. ASSUME NEW u \in evals', NEW v \in evals, v.job = u.job, v.token = u.token
      PROVE  u.token <= jobs'[u.job].tries
  <2>1. v \in EvalRow /\ v.job \in DOMAIN jobs
    BY EvalRows
  <2>2. jobs[v.job] \in JobRow
    BY <2>1 DEF TypeInv, Rows
  <2>3. v.token \in Nat /\ jobs[v.job].tries \in Nat
    BY <2>1, <2>2 DEF EvalRow, JobRow
  <2>4. v.token <= jobs[v.job].tries /\ jobs[v.job].tries <= jobs'[v.job].tries
    BY <2>1, <2>3 DEF Leases
  <2>5. v.token <= jobs'[v.job].tries
    BY <2>1, <2>3, <2>4
  <2> QED BY <1>2, <2>5
<1>3. \A u \in evals' : u.token <= jobs'[u.job].tries
  BY <1>2
<1> QED BY <1>1, <1>3 DEF Leases

\* Every subscription has the newest job it had.
LEMMA NewestStays ==
  ASSUME HaveNewest, DOMAIN jobs' = DOMAIN jobs, DOMAIN subs' = DOMAIN subs,
         \A k \in DOMAIN jobs : jobs'[k].sub = jobs[k].sub
  PROVE  HaveNewest'
BY DEF HaveNewest, Newest

\* ClaimEvaluation takes the one lease of its subscription.
LEMMA ClaimLeases ==
  ASSUME TypeInv, Leases, HaveNewest, NEW i \in DOMAIN jobs, ClaimEvaluation(i)
  PROVE  Leases' /\ HaveNewest'
<1>1. PICK row, w :
        /\ row = [jobs[i] EXCEPT !.state = "running", !.leased = TRUE, !.tries = @ + 1]
        /\ w = Evaluation(i, jobs[i].tries + 1, "claimed", First, 0)
  OBVIOUS
<1>2. jobs' = [jobs EXCEPT ![i] = row] /\ evals' = evals \cup {w} /\ subs' = subs
  BY <1>1 DEF ClaimEvaluation
<1>3. \A k \in DOMAIN jobs : jobs[k] \in JobRow
  BY DEF TypeInv, Rows
<1>4. /\ row.sub = jobs[i].sub /\ row.state = "running" /\ row.leased
      /\ row.tries = jobs[i].tries + 1
  BY <1>1, <1>3 DEF JobRow
<1>5. w.job = i /\ w.token = jobs[i].tries + 1
  BY <1>1 DEF Evaluation
<1>6. /\ DOMAIN jobs' = DOMAIN jobs /\ jobs'[i] = row
      /\ \A k \in DOMAIN jobs : k # i => jobs'[k] = jobs[k]
  BY <1>2
<1>7. \A k \in DOMAIN jobs : jobs[k].tries \in Nat
  BY <1>3 DEF JobRow
<1>8. \A j \in DOMAIN jobs :
        /\ jobs'[j].sub = jobs[j].sub
        /\ jobs'[j].tries \in Nat /\ jobs'[j].tries >= jobs[j].tries
  BY <1>4, <1>6, <1>7
<1>9. \A k \in DOMAIN jobs : jobs[k].sub = jobs[i].sub => ~jobs[k].leased
  BY DEF ClaimEvaluation, Claimable
<1>10. \A j \in DOMAIN jobs : jobs'[j].leased =>
         /\ jobs'[j].state = "running"
         /\ \/ jobs[j].leased
            \/ \A k \in DOMAIN jobs : jobs'[k].leased /\ jobs[k].sub = jobs[j].sub => k = j
  BY <1>4, <1>6, <1>9 DEF Leases
<1>11. w.token <= jobs'[w.job].tries
  BY <1>4, <1>5, <1>6, <1>7
<1>12. \A u \in evals' :
         \/ u.token <= jobs'[u.job].tries
         \/ \E v \in evals : v.job = u.job /\ v.token = u.token
  BY <1>2, <1>11
<1> QED BY <1>2, <1>6, <1>8, <1>10, <1>12, EvaluatingLeases, NewestStays

\* What an evaluator goes on with is of the same lease.
LEMMA SteppedLeases ==
  ASSUME TypeInv, Leases, HaveNewest, UNCHANGED <<subs, jobs>>,
         NEW v \in evals, NEW w, w.job = v.job, w.token = v.token, evals' \subseteq evals \cup {w}
  PROVE  Leases' /\ HaveNewest'
<1>1. \A k \in DOMAIN jobs : jobs[k] \in JobRow
  BY DEF TypeInv, Rows
<1>2. \A j \in DOMAIN jobs : jobs[j].tries \in Nat /\ jobs[j].tries >= jobs[j].tries
  BY <1>1 DEF JobRow
<1>3. \A u \in evals' : \E o \in evals : o.job = u.job /\ o.token = u.token
  OBVIOUS
<1>4. \A j \in DOMAIN jobs : jobs[j].leased => jobs[j].state = "running"
  BY DEF Leases
<1> QED BY <1>2, <1>3, <1>4, EvaluatingLeases, NewestStays

\* The end of an evaluation gives the lease back.
LEMMA FinishedLeases ==
  ASSUME TypeInv, Leases, HaveNewest, NEW v \in evals, Holds(v), NEW state,
         jobs' = Finished(v, state), evals' = evals \ {v}, DOMAIN subs' = DOMAIN subs
  PROVE  Leases' /\ HaveNewest'
<1>1. /\ v.job \in DOMAIN jobs /\ DOMAIN jobs' = DOMAIN jobs /\ ~jobs'[v.job].leased
      /\ \A k \in DOMAIN jobs :
           /\ jobs'[k].sub = jobs[k].sub /\ jobs'[k].tries = jobs[k].tries
           /\ k # v.job => jobs'[k] = jobs[k]
  BY FinishedIs
<1>2. \A k \in DOMAIN jobs : jobs[k] \in JobRow
  BY DEF TypeInv, Rows
<1>3. \A k \in DOMAIN jobs : jobs[k].tries \in Nat
  BY <1>2 DEF JobRow
<1>4. \A j \in DOMAIN jobs :
        /\ jobs'[j].sub = jobs[j].sub
        /\ jobs'[j].tries \in Nat /\ jobs'[j].tries >= jobs[j].tries
  BY <1>1, <1>3
<1>5. \A j \in DOMAIN jobs : jobs'[j].leased => jobs[j].leased /\ jobs'[j].state = "running"
  BY <1>1 DEF Leases
<1>6. \A u \in evals' : \E o \in evals : o.job = u.job /\ o.token = u.token
  OBVIOUS
<1> QED BY <1>1, <1>4, <1>5, <1>6, EvaluatingLeases, NewestStays

\* An evaluation that makes no report.
LEMMA EvaluationLine ==
  ASSUME TypeInv, Agreement, Leases, Books, Answered, InLine,
         \/ \E j \in DOMAIN jobs : ClaimEvaluation(j)
         \/ \E v \in evals : \/ Simulate(v) \/ Compare(v) \/ Abandon(v) \/ EvaluationFails(v)
                             \/ EvaluatorCrashes(v)
                             \/ CompleteUnchanged(v) \/ CompleteFailed(v)
  PROVE  Leases' /\ HaveNewest' /\ InLine' /\ subs' = subs
<1>1. HaveNewest
  BY DEF Books, HaveNewest
<1>2. ASSUME NEW j \in DOMAIN jobs, ClaimEvaluation(j)
      PROVE  Leases' /\ HaveNewest' /\ InLine' /\ subs' = subs
  BY <1>1, <1>2, ClaimLeases, ClaimLine DEF ClaimEvaluation
<1>3. ASSUME NEW v \in evals, NEW w, w.job = v.job, w.token = v.token,
             UNCHANGED <<subs, jobs>>, evals' \subseteq evals \cup {w}
      PROVE  Leases' /\ HaveNewest' /\ subs' = subs
  BY <1>1, <1>3, SteppedLeases
<1>4. ASSUME NEW v \in evals, Simulate(v)
      PROVE  Leases' /\ HaveNewest' /\ InLine' /\ subs' = subs
  <2>1. PICK w : w = IF Ready(SubOf(v)) /\ ~IsRevoked(Subject(v))
                     THEN [v EXCEPT !.at = "simulated", !.terms = market[Subject(v)]]
                     ELSE Failing(v)
    OBVIOUS
  <2>2. w.job = v.job /\ w.token = v.token
    BY <2>1, EvalRows DEF EvalRow, Failing, Evaluation
  <2>3. UNCHANGED <<subs, jobs>> /\ evals' \subseteq evals \cup {w}
    BY <1>4, <2>1 DEF Simulate, Step, rows
  <2> QED BY <1>3, <1>4, <2>2, <2>3, SimulateLine
<1>5. ASSUME NEW v \in evals, Compare(v)
      PROVE  Leases' /\ HaveNewest' /\ InLine' /\ subs' = subs
  <2>1. PICK w : w = IF IsRevoked(Subject(v)) THEN Failing(v)
                     ELSE IF Effective(Subject(v), v.terms) THEN Unneeded(v)
                     ELSE [v EXCEPT !.at = "changed", !.floor = StoredNonce(Subject(v))]
    OBVIOUS
  <2>2. w.job = v.job /\ w.token = v.token
    BY <2>1, EvalRows DEF EvalRow, Failing, Unneeded, Evaluation
  <2>3. UNCHANGED <<subs, jobs>> /\ evals' \subseteq evals \cup {w}
    BY <1>5, <2>1 DEF Compare, Step, rows
  <2> QED BY <1>3, <1>5, <2>2, <2>3, CompareLine
<1>6. ASSUME NEW v \in evals, EvaluationFails(v) \/ Abandon(v) \/ EvaluatorCrashes(v)
      PROVE  Leases' /\ HaveNewest' /\ InLine' /\ subs' = subs
  <2>1. PICK w : w = Failing(v)
    OBVIOUS
  <2>2. w.job = v.job /\ w.token = v.token
    BY <2>1 DEF Failing, Evaluation
  <2>3. UNCHANGED <<subs, jobs>> /\ evals' \subseteq evals \cup {w}
    BY <1>6, <2>1 DEF EvaluationFails, Abandon, EvaluatorCrashes, Step, rows
  <2> QED BY <1>3, <1>6, <2>2, <2>3, LostLine
<1>7. ASSUME NEW v \in evals, CompleteUnchanged(v)
      PROVE  Leases' /\ HaveNewest' /\ InLine' /\ subs' = subs
  <2>1. Holds(v) /\ jobs' = Finished(v, "succeeded") /\ evals' = evals \ {v} /\ subs' = subs
    BY <1>7 DEF CompleteUnchanged
  <2> QED BY <1>1, <1>7, <2>1, FinishedLeases, CompleteUnchangedLine
<1>8. ASSUME NEW v \in evals, CompleteFailed(v)
      PROVE  Leases' /\ HaveNewest' /\ InLine' /\ subs' = subs
  <2>1. PICK state : jobs' = Finished(v, state)
    BY <1>8 DEF CompleteFailed
  <2>2. Holds(v) /\ evals' = evals \ {v} /\ subs' = subs
    BY <1>8 DEF CompleteFailed
  <2> QED BY <1>1, <1>8, <2>1, <2>2, FinishedLeases, CompleteFailedLine
<1> QED BY <1>2, <1>4, <1>5, <1>6, <1>7, <1>8

\* Answered, said of strategies and terms that do not change.
LEMMA AnsweredNext ==
  ASSUME \A d \in DOMAIN deliveries' : \A s, t :
           (/\ s = StrategyOf(d)' /\ t = deliveries'[d].terms
            /\ deliveries'[d].status = "broadcast" /\ Acted(d)')
             => IsRevoked(s)' \/ Effective(s, t)'
  PROVE  Answered'
BY DEF Answered, StrategyOf, IsRevoked, Effective

\* What the guard says of a strategy stands, or the strategy is revoked, until a
\* report lands.
LEMMA Persists ==
  ASSUME TypeInv, [Next]_vars, RevocationsStand, landed' = landed,
         NEW s \in Strategies, NEW t \in Terms, IsRevoked(s) \/ Effective(s, t)
  PROVE  IsRevoked(s)' \/ Effective(s, t)'
<1>1. CASE UNCHANGED <<report, active, revoked, market>>
  BY <1>1 DEF Effective, IsRevoked
<1>2. ASSUME NEW p \in Strategies, NEW u \in Terms, MoveMarket(p, u)
      PROVE  IsRevoked(s)' \/ Effective(s, t)'
  <2>1. UNCHANGED <<report, active, revoked>>
    BY <1>2 DEF MoveMarket, chain
  <2> QED BY <2>1 DEF Effective, IsRevoked
<1>3. ASSUME NEW p \in Strategies, Flip(p) PROVE IsRevoked(s)' \/ Effective(s, t)'
  <2>1. CASE s = p
    BY <1>3, <2>1, FlipSpares DEF RevocationsStand
  <2>2. CASE s # p
    BY <1>3, <2>2, FlipSpares DEF Unmoved
  <2> QED BY <2>1, <2>2
<1>4. ASSUME NEW d \in DOMAIN deliveries, Mine(d) PROVE FALSE
  <2>1. landed' = Append(landed, d)
    BY <1>4 DEF Mine
  <2>2. landed \in Seq(Nat) /\ d \in Nat
    BY DEF TypeInv, OnChain, Rows
  <2>3. Len(landed) \in Nat /\ Len(Append(landed, d)) = Len(landed) + 1
    BY <2>2
  <2> QED BY <2>1, <2>3
<1> QED BY <1>1, <1>2, <1>3, <1>4, OutsideSteps

\* What a delivery is about is a strategy, and its terms are terms.
LEMMA ReportTypes ==
  ASSUME TypeInv, NEW d \in DOMAIN deliveries
  PROVE  StrategyOf(d) \in Strategies /\ deliveries[d].terms \in Terms
<1>1. deliveries[d] \in DeliveryRow
  BY DEF TypeInv, Rows
<1> QED BY <1>1, StrategyTypes DEF DeliveryRow

\* Rows that come and go decide nothing.
LEMMA AnsweredRows ==
  ASSUME TypeInv, [Next]_vars, RevocationsStand, Answered, RowsOnly
  PROVE  Answered'
<1> SUFFICES ASSUME NEW d \in DOMAIN deliveries', NEW s, NEW t,
                    s = StrategyOf(d)', t = deliveries'[d].terms,
                    deliveries'[d].status = "broadcast", Acted(d)'
             PROVE  IsRevoked(s)' \/ Effective(s, t)'
  BY AnsweredNext
<1>1. /\ d \in DOMAIN deliveries /\ KeptOrFailed(d) /\ child' = child /\ landed' = landed
      /\ StrategiesKept
  BY DEF RowsOnly
<1>2. /\ s = StrategyOf(d) /\ t = deliveries[d].terms
      /\ deliveries[d].status = "broadcast"
      /\ deliveries'[d].attempt = deliveries[d].attempt
  BY <1>1, OwnerKept DEF KeptOrFailed
<1>3. Acted(d)
  BY <1>1, <1>2 DEF Acted, Landed
<1>4. IsRevoked(s) \/ Effective(s, t)
  BY <1>1, <1>2, <1>3 DEF Answered
<1>5. s \in Strategies /\ t \in Terms
  BY <1>1, <1>2, ReportTypes
<1> QED BY <1>1, <1>4, <1>5, Persists

\* A new report is not claimed.
LEMMA AnsweredReported ==
  ASSUME TypeInv, Answered, NEW v \in evals, CompleteChanged(v)
  PROVE  Answered'
<1>1. PICK n : n = Len(deliveries) + 1
  OBVIOUS
<1>2. /\ Outside /\ DOMAIN deliveries' = DOMAIN deliveries \cup {n}
      /\ \A d \in DOMAIN deliveries : deliveries'[d] = deliveries[d] /\ child'[d] = child[d]
      /\ deliveries'[n].status = "pending"
  BY <1>1, CompleteChangedIs
<1>3. StrategiesKept
  BY CompleteReports DEF Reported
<1> SUFFICES ASSUME NEW d \in DOMAIN deliveries', NEW s, NEW t,
                    s = StrategyOf(d)', t = deliveries'[d].terms,
                    deliveries'[d].status = "broadcast", Acted(d)'
             PROVE  IsRevoked(s)' \/ Effective(s, t)'
  BY AnsweredNext
<1>4. d \in DOMAIN deliveries /\ deliveries'[d] = deliveries[d] /\ child'[d] = child[d]
  BY <1>2
<1>5. s = StrategyOf(d) /\ t = deliveries[d].terms
  BY <1>3, <1>4, OwnerKept
<1>6. Acted(d)
  BY <1>2, <1>4 DEF Acted, Landed, Outside
<1>7. IsRevoked(s) \/ Effective(s, t)
  BY <1>4, <1>5, <1>6 DEF Answered
<1> QED BY <1>2, <1>7 DEF Outside, IsRevoked, Effective

\* A process finds its report in effect only when it is.
LEMMA FoundEffective ==
  ASSUME TypeInv, NEW d \in DOMAIN deliveries, Delivers(d), child'[d] = "effective"
  PROVE  child[d] = "effective" \/ Effective(StrategyOf(d), deliveries[d].terms)
<1>1. \A stage : child' = [child EXCEPT ![d] = stage] => child'[d] = stage
  BY DeliveryRows
<1>2. CASE \/ ClaimDelivery(d) \/ Lock(d) \/ Defer(d) \/ Fence(d) \/ Collect(d) \/ Prove(d)
           \/ Settle(d) \/ Release(d) \/ NotSent(d) \/ SpawnFails(d) \/ SenderCrashes(d)
  <2>1. child' = child
    BY <1>2 DEF ClaimDelivery, Lock, Defer, Fence, Collect, Prove, Settle, Release, NotSent,
                SpawnFails, SenderCrashes
  <2> QED BY <2>1
<1>3. CASE Spawn(d) \/ CheckTerms(d) \/ Expires(d) \/ Kill(d)
  BY <1>1, <1>3 DEF Spawn, CheckTerms, Expires, Kill, SetChild
<1>4. CASE Mine(d) \/ Revert(d)
  BY <1>1, <1>4 DEF Mine, Revert, Answer
<1>5. CASE Submit(d)
  BY <1>1, <1>5 DEF Submit, SetChild
<1> QED BY <1>2, <1>3, <1>4, <1>5 DEF Delivers, Deliver, Fail, Abort

\* The lane's worker keeps what its process found.
LEMMA FoundAttempt ==
  ASSUME TypeInv, NEW d \in DOMAIN deliveries, Lives(d), deliveries'[d].attempt = "effective"
  PROVE  deliveries[d].attempt = "effective" \/ child[d] = "effective"
<1>1. CASE Attends(d)
  BY <1>1 DEF Attends, Is, Outcome
<1>2. CASE Runs(d)
  BY <1>2 DEF Runs, Is
<1>3. CASE Chained(d)
  BY <1>3 DEF Chained, Is
<1> QED BY <1>1, <1>2, <1>3 DEF Lives

\* A report that lands was claimed, so no other report of its owner was.
LEMMA LandsAlone ==
  ASSUME TypeInv, Agreement, InOrder, NEW c \in DOMAIN deliveries, Mine(c),
         NEW d \in DOMAIN deliveries, d # c, deliveries[d].status = "broadcast"
  PROVE  OwnerOf(d) # OwnerOf(c)
<1>1. c \in pool
  BY DEF Mine
<1>2. deliveries[c].status \in {"pending", "broadcast", "accepted", "failed"}
  BY DeliveryRows DEF DeliveryRow
<1>3. deliveries[c].status = "broadcast"
  BY <1>1, <1>2 DEF Agreement, Agreed, Agree
<1>4. Unblocked(c) /\ Unblocked(d)
  BY <1>3 DEF InOrder
<1>5. c \in Nat \ {0} /\ d \in Nat \ {0}
  <2>1. DOMAIN deliveries = 1 .. Len(deliveries) /\ Len(deliveries) \in Nat
    BY DEF TypeInv, Rows
  <2> QED BY <2>1
<1>6. c \in 1 .. d - 1 \/ d \in 1 .. c - 1
  BY <1>5
<1> QED BY <1>3, <1>4, <1>6 DEF Unblocked

\* The steps of a delivery: what landed or was found in effect is in effect.
LEMMA AnsweredDelivery ==
  ASSUME TypeInv, Agreement, InOrder, [Next]_vars, RevocationsStand, Answered,
         NEW c \in DOMAIN deliveries, Delivers(c)
  PROVE  Answered'
<1>1. Lives(c) /\ (Mine(c) \/ UNCHANGED <<landed, report, active>>) /\ revoked' = revoked
  BY DeliverLives, DeliverWrites DEF Delivers
<1>2. /\ DOMAIN deliveries' = DOMAIN deliveries /\ StrategiesKept
      /\ \A d \in DOMAIN deliveries : InTurn(d) /\ deliveries'[d].sub = deliveries[d].sub
  BY <1>1, LivesInTurn
<1> SUFFICES ASSUME NEW d \in DOMAIN deliveries', NEW s, NEW t,
                    s = StrategyOf(d)', t = deliveries'[d].terms,
                    deliveries'[d].status = "broadcast", Acted(d)'
             PROVE  IsRevoked(s)' \/ Effective(s, t)'
  BY AnsweredNext
<1>3. d \in DOMAIN deliveries
  BY <1>2
<1>4. s = StrategyOf(d) /\ t = deliveries[d].terms
  BY <1>1, <1>2, <1>3, OwnerKept DEF Lives, OthersKept
<1>5. s \in Strategies /\ t \in Terms
  BY <1>3, <1>4, ReportTypes
<1>6. ASSUME IsRevoked(s) \/ Effective(s, t), ~Mine(c) PROVE IsRevoked(s)' \/ Effective(s, t)'
  BY <1>1, <1>6 DEF IsRevoked, Effective
<1>7. CASE d # c
  <2>1. deliveries'[d] = deliveries[d] /\ child'[d] = child[d]
    BY <1>1, <1>3, <1>7 DEF Lives, OthersKept
  <2>2. Landed(d)' => Landed(d)
    BY <1>1, <1>7, LandedNext DEF Mine, Landed
  <2>3. IsRevoked(s) \/ Effective(s, t)
    BY <1>3, <1>4, <2>1, <2>2 DEF Answered, Acted
  <2>4. CASE Mine(c)
    <3>1. OwnerOf(d) # OwnerOf(c)
      BY <1>3, <1>7, <2>1, <2>4, LandsAlone
    <3>2. Unmoved(s)
      BY <1>4, <1>5, <2>4, <3>1, MineSpares DEF OwnerOf
    <3> QED BY <1>5, <2>3, <3>2 DEF Unmoved
  <2> QED BY <1>6, <2>3, <2>4
<1>8. CASE d = c /\ Mine(c)
  BY <1>3, <1>4, <1>5, <1>8, MineEffect
<1>9. CASE d = c /\ ~Mine(c)
  <2>1. Landed(d)' => Landed(d)
    BY <1>1, <1>9 DEF Landed
  <2>2. Acted(d) \/ Effective(s, t)
    BY <1>1, <1>3, <1>4, <1>9, <2>1, FoundEffective, FoundAttempt DEF Acted
  <2>3. CASE Acted(d)
    <3>1. deliveries[d].status \in {"pending", "broadcast", "accepted", "failed"}
      BY <1>3, DeliveryRows DEF DeliveryRow
    <3>2. deliveries[d].status # "pending"
      BY <1>3, <2>3 DEF Acted, Agreement, Agreed, Agree
    <3>3. deliveries[d].status = "broadcast"
      BY <1>2, <1>3, <3>1, <3>2 DEF InTurn, Decided
    <3>4. IsRevoked(s) \/ Effective(s, t)
      BY <1>3, <1>4, <2>3, <3>3 DEF Answered
    <3> QED BY <1>6, <1>9, <3>4
  <2> QED BY <1>6, <1>9, <2>2, <2>3
<1> QED BY <1>7, <1>8, <1>9

\* A subscription is new and has no report, or has the last one it had.
LEMMA LastsStay ==
  ASSUME TypeInv,
         \/ \E s \in Strategies, source \in Sources : Enable(s, source)
         \/ \E x \in DOMAIN subs : Stop(x) \/ Lapse(x)
         \/ UNCHANGED subs
  PROVE  \A x \in DOMAIN subs' :
           subs'[x].last = 0 \/ (x \in DOMAIN subs /\ subs'[x].last = subs[x].last)
<1>1. ASSUME NEW s \in Strategies, NEW source \in Sources, Enable(s, source), NEW x \in DOMAIN subs'
      PROVE  subs'[x].last = 0 \/ (x \in DOMAIN subs /\ subs'[x].last = subs[x].last)
  <2>1. PICK X, row :
          /\ row = [strategy |-> s, source |-> source, live |-> TRUE, consented |-> TRUE, last |-> 0]
          /\ X = LiveSubs(Owner[s])
    OBVIOUS
  <2>2. subs' = Append(Silenced(X), row) /\ row \in SubRow /\ row.last = 0
    BY <1>1, <2>1 DEF Enable, SubRow
  <2>3. /\ Silenced(X) \in Seq(SubRow) /\ Len(Silenced(X)) = Len(subs) /\ Len(subs) \in Nat
        /\ DOMAIN Silenced(X) = DOMAIN subs /\ DOMAIN subs = 1 .. Len(subs)
        /\ \A y \in DOMAIN subs : Silenced(X)[y].last = subs[y].last
    BY SilencedTypes DEF TypeInv, Rows
  <2>4. /\ DOMAIN subs' = 1 .. Len(subs) + 1
        /\ \A y \in DOMAIN subs : subs'[y] = Silenced(X)[y]
        /\ subs'[Len(subs) + 1] = row
    <3>1. PICK old \in Seq(SubRow) : old = Silenced(X)
      BY <2>3
    <3>2. /\ DOMAIN Append(old, row) = 1 .. Len(old) + 1
          /\ \A y \in DOMAIN old : Append(old, row)[y] = old[y]
          /\ Append(old, row)[Len(old) + 1] = row
      BY <2>2, <3>1, Appended
    <3>3. Len(old) = Len(subs) /\ DOMAIN old = DOMAIN subs /\ subs' = Append(old, row)
      BY <2>2, <2>3, <3>1
    <3> QED BY <3>1, <3>2, <3>3
  <2>5. x \in DOMAIN subs \/ x = Len(subs) + 1
    BY <2>3, <2>4
  <2> QED BY <2>2, <2>3, <2>4, <2>5
<1>2. ASSUME NEW y \in DOMAIN subs, Stop(y)
      PROVE  \A x \in DOMAIN subs' : x \in DOMAIN subs /\ subs'[x].last = subs[x].last
  <2>1. subs' = Silenced({y})
    BY <1>2 DEF Stop
  <2> QED BY <2>1, SilencedTypes
<1>3. ASSUME NEW y \in DOMAIN subs, Lapse(y)
      PROVE  \A x \in DOMAIN subs' : x \in DOMAIN subs /\ subs'[x].last = subs[x].last
  <2>1. PICK row : row = [subs[y] EXCEPT !.consented = FALSE]
    OBVIOUS
  <2>2. subs' = [subs EXCEPT ![y] = row]
    BY <1>3, <2>1 DEF Lapse
  <2>3. subs[y] \in SubRow
    BY DEF TypeInv, Rows
  <2>4. row.last = subs[y].last
    BY <2>1, <2>3 DEF SubRow
  <2> QED BY <2>2, <2>4
<1> QED BY <1>1, <1>2, <1>3

\* A subscription's last report is its own.
LastIsOwn == \A x \in DOMAIN subs : subs[x].last # 0 => deliveries[subs[x].last].sub = x

\* Rows that come and go keep that, ...
LEMMA LastIsOwnRows ==
  ASSUME TypeInv, LastIsOwn, RowsOnly,
         \A x \in DOMAIN subs' :
           subs'[x].last = 0 \/ (x \in DOMAIN subs /\ subs'[x].last = subs[x].last)
  PROVE  LastIsOwn'
<1> SUFFICES ASSUME NEW x \in DOMAIN subs', subs'[x].last # 0
             PROVE  deliveries'[subs'[x].last].sub = x
  BY DEF LastIsOwn
<1>1. x \in DOMAIN subs /\ subs'[x].last = subs[x].last /\ subs[x].last # 0
  OBVIOUS
<1>2. PICK d : d = subs[x].last
  OBVIOUS
<1>3. d \in DOMAIN deliveries /\ deliveries[d].sub = x
  BY <1>1, <1>2, LastTypes DEF LastIsOwn
<1>4. deliveries'[d].sub = deliveries[d].sub
  BY <1>3 DEF RowsOnly, KeptOrFailed
<1> QED BY <1>1, <1>2, <1>3, <1>4

\* ... so does a new report, ...
LEMMA LastIsOwnReported ==
  ASSUME TypeInv, LastIsOwn, NEW v \in evals, CompleteChanged(v)
  PROVE  LastIsOwn'
<1>1. PICK n : n = Len(deliveries) + 1
  OBVIOUS
<1>2. /\ DOMAIN subs' = DOMAIN subs
      /\ \A x \in DOMAIN subs : x # SubOf(v) => subs'[x] = subs[x]
      /\ subs'[SubOf(v)].last = n
      /\ \A d \in DOMAIN deliveries : deliveries'[d] = deliveries[d]
      /\ deliveries'[n].sub = SubOf(v)
  BY <1>1, CompleteChangedIs
<1> SUFFICES ASSUME NEW x \in DOMAIN subs', subs'[x].last # 0
             PROVE  deliveries'[subs'[x].last].sub = x
  BY DEF LastIsOwn
<1>3. CASE x # SubOf(v)
  <2>1. PICK d : d = subs[x].last
    OBVIOUS
  <2>2. d \in DOMAIN deliveries /\ deliveries[d].sub = x
    BY <1>2, <1>3, <2>1, LastTypes DEF LastIsOwn
  <2> QED BY <1>2, <1>3, <2>1, <2>2
<1> QED BY <1>2, <1>3

\* ... and a delivery's step.
LEMMA LastIsOwnDelivery ==
  ASSUME TypeInv, LastIsOwn, NEW d \in DOMAIN deliveries, Lives(d)
  PROVE  LastIsOwn'
<1>1. subs' = subs /\ \A c \in DOMAIN deliveries : deliveries'[c].sub = deliveries[c].sub
  BY DEF Lives, OthersKept
<1> QED BY <1>1, LastTypes DEF LastIsOwn

\* The two parts of Books.
LEMMA BooksAre == Books <=> HaveNewest /\ LastIsOwn
BY DEF Books, HaveNewest, LastIsOwn

\* What is settled stays settled while revocations stand.
LEMMA NextSettling ==
  ASSUME TypeInv, Agreement, InOrder, Settling, [Next]_vars, RevocationsStand
  PROVE  Settling'
<1>1. Leases /\ Books /\ HaveNewest /\ LastIsOwn /\ Answered /\ InLine
  BY BooksAre DEF Settling
<1>2. (Books <=> HaveNewest /\ LastIsOwn)'
  BY BooksAre, PTL
<1>3. ASSUME NEW v \in evals, CompleteChanged(v) PROVE Settling'
  <2>1. InLine' /\ Answered' /\ LastIsOwn'
    BY <1>1, <1>3, CompleteChangedLine, AnsweredReported, LastIsOwnReported
  <2>2. PICK n : n = Len(deliveries) + 1
    OBVIOUS
  <2>3. /\ jobs' = Finished(v, "succeeded") /\ Holds(v) /\ evals' = evals \ {v}
        /\ DOMAIN subs' = DOMAIN subs
    BY <1>3, <2>2, CompleteChangedIs
  <2>4. Leases' /\ HaveNewest'
    BY <1>1, <2>3, FinishedLeases
  <2> QED BY <1>2, <2>1, <2>4 DEF Settling
<1>4. ASSUME NEW d \in DOMAIN deliveries, Delivers(d) PROVE Settling'
  <2>1. Carried /\ HaveNewest' /\ InLine'
    BY <1>1, <1>4, DeliverLine
  <2>2. Leases'
    BY <1>1, <2>1, CarriedLeases
  <2>3. Answered' /\ LastIsOwn'
    BY <1>1, <1>4, AnsweredDelivery, DeliverLives, LastIsOwnDelivery DEF Delivers
  <2> QED BY <1>2, <2>1, <2>2, <2>3 DEF Settling
<1>5. ASSUME RowsOnly,
             \/ \E s \in Strategies, source \in Sources : Enable(s, source)
             \/ \E x \in DOMAIN subs : Stop(x) \/ Lapse(x)
             \/ \E s \in Strategies : Flip(s)
             \/ \E s \in Strategies, t \in Terms : MoveMarket(s, t)
             \/ \E e \in DOMAIN events : Ingest(e) \/ MarkReorg(e)
             \/ \E j \in DOMAIN jobs : ExpireLease(j)
             \/ UNCHANGED vars
      PROVE  Settling'
  <2>1. Carried /\ HaveNewest' /\ InLine'
    BY <1>1, <1>5, InboxLine
  <2>2. Leases'
    BY <1>1, <2>1, CarriedLeases
  <2>3. \/ \E s \in Strategies, source \in Sources : Enable(s, source)
        \/ \E x \in DOMAIN subs : Stop(x) \/ Lapse(x)
        \/ UNCHANGED subs
    BY <1>5 DEF Flip, MoveMarket, Ingest, MarkReorg, ExpireLease, vars, rows
  <2>4. \A x \in DOMAIN subs' :
          subs'[x].last = 0 \/ (x \in DOMAIN subs /\ subs'[x].last = subs[x].last)
    BY <2>3, LastsStay
  <2>5. Answered' /\ LastIsOwn'
    BY <1>1, <1>5, <2>4, AnsweredRows, LastIsOwnRows
  <2> QED BY <1>2, <2>1, <2>2, <2>5 DEF Settling
<1>6. ASSUME RowsOnly,
             \/ \E j \in DOMAIN jobs : ClaimEvaluation(j)
             \/ \E v \in evals : \/ Simulate(v) \/ Compare(v) \/ Abandon(v) \/ EvaluationFails(v)
                                 \/ EvaluatorCrashes(v)
                                 \/ CompleteUnchanged(v) \/ CompleteFailed(v)
      PROVE  Settling'
  <2>1. Leases' /\ HaveNewest' /\ InLine' /\ subs' = subs
    BY <1>1, <1>6, EvaluationLine
  <2>2. Answered' /\ LastIsOwn'
    BY <1>1, <1>6, <2>1, AnsweredRows, LastIsOwnRows
  <2> QED BY <1>2, <2>1, <2>2 DEF Settling
<1>7. \/ RowsOnly
      \/ \E v \in evals : CompleteChanged(v)
      \/ \E d \in DOMAIN deliveries : Delivers(d)
  BY RowSteps DEF Delivers
<1> QED BY <1>3, <1>4, <1>5, <1>6, <1>7
        DEF Next, Steady, Maker, Inbox, Evaluating, Evaluate, Delivers

\* At the start there is nothing to settle.
LEMMA InitSettling == Init => Settling
BY DEF Init, Settling, Leases, Books, Answered, InLine

\* A Maker who hears of everything: what Settled says of such a subscription.
SettledIfAllHeard ==
  Quiet => \A x \in DOMAIN subs :
             Ready(x) /\ Successful(x) /\ subs[x].source = "*" =>
               Effective(subs[x].strategy, market[subs[x].strategy])

\* It follows from what is inductive.
LEMMA SettlingSuffices == TypeInv /\ Settling => SettledIfAllHeard
<1> SUFFICES ASSUME TypeInv, Settling, Quiet, NEW x \in DOMAIN subs, Ready(x), Successful(x),
                    subs[x].source = "*"
             PROVE  Effective(subs[x].strategy, market[subs[x].strategy])
  BY DEF SettledIfAllHeard
<1>1. Hears(x)
  BY DEF Hears, Told, Quiet
<1>2. PICK j \in DOMAIN jobs : Newest(x, j)
  BY DEF Settling, Books
<1>3. jobs[j].state = "succeeded"
  BY <1>2 DEF Newest, Successful
<1>4. Done(x, j)
  BY <1>1, <1>2 DEF Settling, InLine
<1>5. ~Coming(x)
  <2> SUFFICES ASSUME Coming(x) PROVE FALSE
    OBVIOUS
  <2>1. PICK d : d = subs[x].last
    OBVIOUS
  <2>2. d # 0 /\ Open(d) /\ ~GivenUp(d)
    BY <2>1 DEF Coming, Successful
  <2>3. deliveries[d].status \in {"pending", "broadcast"}
    BY <2>2 DEF Open
  <2>4. d \in DOMAIN deliveries
    BY <2>1, <2>2, LastTypes
  <2> QED BY <2>3, <2>4 DEF Quiet
<1> QED BY <1>3, <1>4, <1>5 DEF Done

-----------------------------------------------------------------------------
(* Settled.                                                                *)

\* No Maker takes a revocation back: then whoever hears of everything is in line
\* with the guard once nothing is left to do, whatever the sources of the others.
THEOREM AllHeardIsSettled ==
  Spec /\ [][RevocationsStand]_vars => []SettledIfAllHeard
<1> DEFINE Inv == TypeInv /\ Agreement /\ InOrder /\ Settling
<1>1. Init => Inv
  BY InitTypes, InitSettling DEF Init, Agreement, InOrder
<1>2. Inv /\ [Next]_vars /\ [RevocationsStand]_vars => Inv'
  <2> SUFFICES ASSUME Inv, [Next]_vars, [RevocationsStand]_vars PROVE Inv'
    OBVIOUS
  <2>1. RevocationsStand
    BY DEF RevocationsStand, IsRevoked, vars, chain
  <2> QED BY <2>1, NextTypes, NextAgree, NextInOrder, NextSettling
<1>3. Inv => SettledIfAllHeard
  BY SettlingSuffices
<1> QED BY <1>1, <1>2, <1>3, PTL DEF Spec

\* With one source, everyone hears of everything.
LEMMA WholeSource ==
  ASSUME Sources \subseteq {"*"}, TypeInv, SettledIfAllHeard
  PROVE  Settled
<1> SUFFICES ASSUME Quiet, NEW x \in DOMAIN subs, Ready(x), Successful(x)
             PROVE  Effective(subs[x].strategy, market[subs[x].strategy])
  BY DEF Settled
<1>1. subs[x] \in SubRow
  BY DEF TypeInv, Rows
<1>2. subs[x].source = "*"
  BY <1>1 DEF SubRow
<1> QED BY <1>2 DEF SettledIfAllHeard

\* With the one source the run has, that is Settled.
THEOREM WholeSourceIsSettled ==
  ASSUME Sources \subseteq {"*"}
  PROVE  Spec /\ [][RevocationsStand]_vars => []Settled
<1>1. TypeInv /\ SettledIfAllHeard => Settled
  BY WholeSource
<1>2. Spec => []TypeInv
  <2>1. Init => TypeInv
    BY InitTypes
  <2>2. TypeInv /\ [Next]_vars => TypeInv'
    BY NextTypes
  <2> QED BY <2>1, <2>2, PTL DEF Spec
<1> QED BY <1>1, <1>2, AllHeardIsSettled, PTL

\* A strategy is revoked only after its Maker's event was told.
Announced ==
  (\E s \in Strategies : IsRevoked(s)) => \E e \in DOMAIN events : events[e].source = "maker"

\* The first revocation takes none back, and every other step leaves them alone.
LEMMA OneFlipStands ==
  ASSUME MaxFlips <= 1, TypeInv, Announced, [Next]_vars
  PROVE  RevocationsStand
<1>1. ASSUME NEW p \in Strategies, Flip(p) PROVE RevocationsStand
  <2> DEFINE told == {e \in DOMAIN events : events[e].source = "maker"}
  <2>1. Cardinality(told) < MaxFlips
    BY <1>1 DEF Flip, Count
  <2>2. IsFiniteSet(told)
    <3>1. IsFiniteSet(1 .. Len(events)) /\ DOMAIN events = 1 .. Len(events)
      BY FS_Interval DEF TypeInv, Rows
    <3> QED BY <3>1, FS_Subset
  <2>3. Cardinality(told) = 0
    <3>1. Cardinality(told) \in Nat /\ MaxFlips \in Nat
      BY <2>2, FS_CardinalityType, DeliveryAssumption
    <3> QED BY <2>1, <3>1
  <2>4. told = {}
    BY <2>2, <2>3, FS_EmptySet
  <2>5. \A s \in Strategies : ~IsRevoked(s)
    BY <2>4 DEF Announced
  <2> QED BY <2>5 DEF RevocationsStand
<1>2. CASE revoked' = revoked
  BY <1>2 DEF RevocationsStand, IsRevoked
<1>3. ASSUME NEW s \in Strategies, NEW t \in Terms, MoveMarket(s, t) PROVE revoked' = revoked
  BY <1>3 DEF MoveMarket, chain
<1>4. ASSUME NEW d \in DOMAIN deliveries, Mine(d) PROVE revoked' = revoked
  BY <1>4, DeliverWrites DEF Delivers, Deliver
<1> QED BY <1>1, <1>2, <1>3, <1>4, OutsideSteps

\* Events are not forgotten.
LEMMA EventsStay ==
  ASSUME TypeInv, Books, [Next]_vars
  PROVE  EventsKept
<1>1. HaveNewest
  BY BooksAre
<1>2. ASSUME UNCHANGED events PROVE EventsKept
  BY <1>2 DEF EventsKept
<1>3. ASSUME NEW d \in DOMAIN deliveries, Delivers(d) PROVE EventsKept
  BY <1>1, <1>3, DeliverCarries DEF Carried
<1>4. ASSUME NEW s \in Strategies, Flip(s) PROVE EventsKept
  <2>1. PICK about \in SUBSET Strategies : about = {s}
    OBVIOUS
  <2>2. events' = Append(events, Event("maker", about, "emitted", 0)) /\ 0 \in 0 .. MaxTries
    BY <1>4, <2>1, DeliveryAssumption DEF Flip
  <2> QED BY <2>2, EventAppended
<1>5. ASSUME NEW s \in Strategies, NEW t \in Terms, MoveMarket(s, t) PROVE EventsKept
  <2>1. PICK about \in SUBSET Strategies : about = {s}
    OBVIOUS
  <2>2. events' = Append(events, Event("market", about, "emitted", 0)) /\ 0 \in 0 .. MaxTries
    BY <1>5, <2>1, DeliveryAssumption DEF MoveMarket
  <2> QED BY <2>2, EventAppended
<1>6. ASSUME NEW s \in Strategies, NEW source \in Sources, Enable(s, source) PROVE EventsKept
  BY <1>1, <1>6, EnableCarries DEF Carried
<1>7. ASSUME NEW e \in DOMAIN events, Ingest(e) \/ MarkReorg(e) PROVE EventsKept
  BY <1>1, <1>7, IngestCarries, ReorgCarries DEF Carried
<1>8. ASSUME NEW x \in DOMAIN subs, Stop(x) \/ Lapse(x) PROVE UNCHANGED events
  BY <1>8 DEF Stop, Lapse
<1>9. CASE \E j \in DOMAIN jobs : ClaimEvaluation(j) \/ ExpireLease(j)
  BY <1>2, <1>9 DEF ClaimEvaluation, ExpireLease
<1>10. ASSUME NEW v \in evals, Evaluate(v) \/ EvaluationFails(v) \/ EvaluatorCrashes(v)
       PROVE  UNCHANGED events
  BY <1>10 DEF Evaluate, Simulate, Compare, Abandon, CompleteChanged, CompleteUnchanged,
               CompleteFailed, EvaluationFails, EvaluatorCrashes, rows
<1>11. CASE UNCHANGED vars
  BY <1>2, <1>11 DEF vars, rows
<1> QED BY <1>2, <1>3, <1>4, <1>5, <1>6, <1>7, <1>8, <1>9, <1>10, <1>11
        DEF Next, Steady, Maker, Inbox, Evaluating, Delivers

\* That is so in every state.
LEMMA NextAnnounced ==
  ASSUME TypeInv, Books, Announced, [Next]_vars
  PROVE  Announced'
<1>1. EventsKept
  BY EventsStay
<1>2. CASE revoked' = revoked
  BY <1>1, <1>2 DEF Announced, IsRevoked, EventsKept
<1>3. ASSUME NEW p \in Strategies, Flip(p) PROVE Announced'
  <2>1. PICK new : new = Event("maker", {p}, "emitted", 0)
    OBVIOUS
  <2>2. new \in EventRow /\ new.source = "maker"
    BY <2>1, DeliveryAssumption DEF Event, EventRow
  <2>3. events' = Append(events, new) /\ events \in Seq(EventRow)
    BY <1>3, <2>1 DEF Flip, TypeInv, Rows
  <2>4. /\ events'[Len(events) + 1] = new /\ Len(events) + 1 \in DOMAIN events'
    <3>1. DOMAIN events' = 1 .. Len(events) + 1 /\ Len(events) \in Nat
      BY <2>2, <2>3, Appended
    <3> QED BY <2>2, <2>3, <3>1, Appended
  <2> QED BY <2>2, <2>4 DEF Announced
<1>4. ASSUME NEW s \in Strategies, NEW t \in Terms, MoveMarket(s, t) PROVE revoked' = revoked
  BY <1>4 DEF MoveMarket, chain
<1>5. ASSUME NEW d \in DOMAIN deliveries, Mine(d) PROVE revoked' = revoked
  BY <1>5, DeliverWrites DEF Delivers, Deliver
<1> QED BY <1>2, <1>3, <1>4, <1>5, OutsideSteps

\* What the run checks, for every number of owners, strategies, terms and faults: a Maker
\* may revoke one strategy, once.
THEOREM OneRevocationIsSettled ==
  ASSUME Sources \subseteq {"*"}, MaxFlips <= 1
  PROVE  Spec => []Settled
<1> DEFINE Inv == TypeInv /\ Agreement /\ InOrder /\ Settling /\ Announced
<1>1. Init => Inv
  <2>1. Init => Announced
    BY DeliveryAssumption DEF Init, Announced, IsRevoked
  <2> QED BY <2>1, InitTypes, InitSettling DEF Init, Agreement, InOrder
<1>2. Inv /\ [Next]_vars => Inv'
  <2> SUFFICES ASSUME Inv, [Next]_vars PROVE Inv'
    OBVIOUS
  <2>1. RevocationsStand
    BY OneFlipStands
  <2>2. Announced'
    BY NextAnnounced DEF Settling
  <2> QED BY <2>1, <2>2, NextTypes, NextAgree, NextInOrder, NextSettling
<1>3. Inv => Settled
  BY WholeSource, SettlingSuffices
<1> QED BY <1>1, <1>2, <1>3, PTL DEF Spec
=============================================================================
