---------------------------- MODULE OutageMonitor ----------------------------
(***************************************************************************)
(* How a Maker's signed outage policy (outage-policy.ts) is acted on.  The *)
(* event worker (event-worker.ts) records the health of each source it     *)
(* polls; in its rounds it looks at the subscriptions of live consents and *)
(* queues an evaluation when the need to pause has changed                 *)
(* (scheduleHealthEvaluations, event-delivery.ts; a round takes a hundred, *)
(* the least recently looked at, each one independently of the others).    *)
(* An evaluation, queued for this reason or by an ordinary event, reads    *)
(* the sources again when it runs (builder-cre-bridge.mjs).  Sources,      *)
(* rounds, evaluations and crashes interleave.                             *)
(***************************************************************************)
EXTENDS Naturals, Sequences

CONSTANTS
  Subs, Sources,
  Policy,       \* the sources each Maker selected
  MaxAttempts,  \* of an evaluation: 3
  MaxJobs,      \* bound: evaluations of a subscription waiting at a time
  None

VARIABLES
  source,     \* the row of each source in event_cursors
  polled,     \* sourceHealth: what the worker process remembers of its last poll
  consented,  \* subscriptions whose consent has not ended
  row,        \* subscription_health: None or whether a pause is required
  jobs,       \* evaluations waiting, by the attempts they have had
  running,    \* the evaluation being worked on: its attempt and what it read
  told,       \* what the last finished evaluation of a subscription had read
  flapped,    \* subscriptions whose last evaluation read what no round had seen
  dropped     \* subscriptions of which an evaluation failed for good since

vars == <<source, polled, consented, row, jobs, running, told, flapped, dropped>>

Unavailable(s) ==
  {x \in Policy[s] : source[x] = None \/ source[x].health = "error" \/ source[x].age # "recent"}
PauseRequired(s) == Unavailable(s) # {}

Init ==
  /\ source = [x \in Sources |-> None] /\ polled = [x \in Sources |-> "unknown"]
  /\ consented = Subs /\ row = [s \in Subs |-> None]
  /\ jobs = [s \in Subs |-> <<1>>]   \* the evaluation its activation queued
  /\ running = [s \in Subs |-> None] /\ told = [s \in Subs |-> None] /\ flapped = {} /\ dropped = {}

(***************************************************************************)
(* Sources                                                                 *)
(***************************************************************************)
Record(x, health, age) == source' = [source EXCEPT ![x] = [health |-> health, age |-> age]]

\* What a source observed may be old, or ahead of the service's clock.
PollSucceeds(x, age) ==
  /\ Record(x, IF polled[x] = "error" THEN "recovered" ELSE "healthy", age)
  /\ polled' = [polled EXCEPT ![x] = "healthy"]
  /\ UNCHANGED <<consented, row, jobs, running, told, flapped, dropped>>

\* The failure itself may go unrecorded when the database is the one that is down.
PollFails(x, recorded) ==
  /\ IF recorded THEN Record(x, "error", "recent") ELSE source' = source
  /\ polled' = [polled EXCEPT ![x] = "error"]
  /\ UNCHANGED <<consented, row, jobs, running, told, flapped, dropped>>

Age(x) ==
  /\ source[x] # None /\ source[x].age # "old"
  /\ Record(x, source[x].health, IF source[x].age = "recent" THEN "old" ELSE "recent")
  /\ UNCHANGED <<polled, consented, row, jobs, running, told, flapped, dropped>>

RestartWorker ==
  /\ polled' = [x \in Sources |-> "unknown"]
  /\ UNCHANGED <<source, consented, row, jobs, running, told, flapped, dropped>>

(***************************************************************************)
(* A round of the monitor                                                  *)
(***************************************************************************)
\* The evaluation is for a change: a first look at healthy sources is none.
Changed(s) == row[s] # PauseRequired(s) /\ (row[s] = None => PauseRequired(s))

ScheduleHealthEvaluation(s) ==
  /\ s \in consented /\ (Changed(s) => Len(jobs[s]) < MaxJobs)
  /\ jobs' = IF Changed(s) THEN [jobs EXCEPT ![s] = Append(@, 1)] ELSE jobs
  /\ row' = [row EXCEPT ![s] = PauseRequired(s)]
  /\ UNCHANGED <<source, polled, consented, running, told, flapped, dropped>>

(***************************************************************************)
(* Evaluations                                                             *)
(***************************************************************************)
Event(s) ==
  /\ s \in consented /\ Len(jobs[s]) < MaxJobs
  /\ jobs' = [jobs EXCEPT ![s] = Append(@, 1)]
  /\ UNCHANGED <<source, polled, consented, row, running, told, flapped, dropped>>

Without(q, n) == SubSeq(q, 1, n - 1) \o SubSeq(q, n + 1, Len(q))

\* A subscription's evaluations run one at a time, a retried one after younger ones.
Claim(s, n) ==
  /\ running[s] = None /\ n \in DOMAIN jobs[s]
  /\ running' = [running EXCEPT ![s] = [attempt |-> jobs[s][n], read |-> None, flap |-> FALSE]]
  /\ jobs' = [jobs EXCEPT ![s] = Without(@, n)]
  /\ UNCHANGED <<source, polled, consented, row, told, flapped, dropped>>

ReadSources(s) ==
  /\ running[s] # None /\ running[s].read = None /\ s \in consented
  /\ running' = [running EXCEPT ![s].read = PauseRequired(s), ![s].flap = PauseRequired(s) # (row[s] = TRUE)]
  /\ UNCHANGED <<source, polled, consented, row, jobs, told, flapped, dropped>>

Finish(s) ==
  /\ running[s] # None /\ running[s].read # None
  /\ told' = [told EXCEPT ![s] = running[s].read]
  /\ flapped' = IF running[s].flap THEN flapped \cup {s} ELSE flapped \ {s}
  /\ dropped' = dropped \ {s}
  /\ running' = [running EXCEPT ![s] = None]
  /\ UNCHANGED <<source, polled, consented, row, jobs>>

\* An evaluation that fails, whatever it read, is tried again; one whose worker died
\* is claimed again when its lease runs out, as often as that happens.
Back(s, attempt) == jobs' = [jobs EXCEPT ![s] = Append(@, attempt)]
Fail(s, counted) ==
  /\ running[s] # None
  /\ IF counted /\ running[s].attempt = MaxAttempts
     THEN jobs' = jobs /\ dropped' = dropped \cup {s}
     ELSE Back(s, IF running[s].attempt = MaxAttempts THEN MaxAttempts ELSE running[s].attempt + 1) /\ dropped' = dropped
  /\ running' = [running EXCEPT ![s] = None]
  /\ UNCHANGED <<source, polled, consented, row, told, flapped>>

EndConsent(s) ==
  /\ consented' = consented \ {s} /\ s \in consented
  /\ UNCHANGED <<source, polled, row, jobs, running, told, flapped, dropped>>

Next ==
  \/ RestartWorker
  \/ \E x \in Sources :
       \/ Age(x) \/ \E age \in {"recent", "old", "ahead"} : PollSucceeds(x, age)
       \/ \E recorded \in BOOLEAN : PollFails(x, recorded)
  \/ \E s \in Subs :
       \/ ScheduleHealthEvaluation(s) \/ Event(s) \/ ReadSources(s) \/ Finish(s) \/ EndConsent(s)
       \/ \E n \in 1 .. MaxJobs + 1 : Claim(s, n)
       \/ \E counted \in BOOLEAN : Fail(s, counted)

Spec == Init /\ [][Next]_vars

----------------------------------------------------------------------------
TypeOK ==
  /\ \A x \in Sources : source[x] = None \/
       source[x] \in [health : {"healthy", "recovered", "error"}, age : {"recent", "old", "ahead"}]
  /\ polled \in [Sources -> {"unknown", "healthy", "error"}]
  /\ row \in [Subs -> {None, TRUE, FALSE}] /\ told \in [Subs -> {None, TRUE, FALSE}]
  /\ \A s \in Subs : Len(jobs[s]) <= MaxJobs + 1 /\ \A n \in DOMAIN jobs[s] : jobs[s][n] \in 1 .. MaxAttempts

\* When a subscription has no evaluation left, the last one stands on what the monitor
\* last saw, an outage or its end, unless an evaluation failed for good or the sources
\* changed back between that evaluation and the next round.
OutageIsAnswered ==
  \A s \in Subs :
    jobs[s] = <<>> /\ running[s] = None /\ row[s] # None
      => told[s] = row[s] \/ s \in flapped \/ s \in dropped

(***************************************************************************)
(* The inductive invariant.  What an evaluation has read is what the       *)
(* monitor last saw, or the monitor has queued another one since.          *)
(***************************************************************************)
Health == [health : {"healthy", "recovered", "error"}, age : {"recent", "old", "ahead"}]
Evaluation == [attempt : 1 .. MaxAttempts, read : {None, TRUE, FALSE}, flap : BOOLEAN]
OutageTypes ==
  /\ source \in [Sources -> {None} \cup Health] /\ polled \in [Sources -> {"unknown", "healthy", "error"}]
  /\ consented \subseteq Subs /\ row \in [Subs -> {None, TRUE, FALSE}] /\ told \in [Subs -> {None, TRUE, FALSE}]
  /\ jobs \in [Subs -> Seq(1 .. MaxAttempts)] /\ running \in [Subs -> {None} \cup Evaluation]

Waits(s) == Len(jobs[s]) <= IF running[s] = None THEN MaxJobs + 1 ELSE MaxJobs
Seen(v, s) == v # None /\ (v = TRUE <=> row[s] = TRUE)
Answers(s) ==
  jobs[s] = <<>> =>
    IF running[s] = None THEN Seen(told[s], s) \/ s \in flapped \/ s \in dropped
    ELSE running[s].read = None \/ Seen(running[s].read, s) \/ running[s].flap

OutageInv == OutageTypes /\ \A s \in Subs : Waits(s) /\ Answers(s)

\* What stands for nothing read and no row is none, and an evaluation may be tried.
NoneIsNoHealth ==
  None \notin BOOLEAN \cup Health \cup Evaluation /\ {MaxAttempts, MaxJobs} \subseteq Nat \ {0}
=============================================================================
