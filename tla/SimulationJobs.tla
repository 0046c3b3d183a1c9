--------------------------- MODULE SimulationJobs ---------------------------
(***************************************************************************)
(* Compiled artifacts of the draft and the lifecycle simulations run on    *)
(* them (packages/builder-service: artifacts.ts, simulations.ts,           *)
(* simulation-worker.ts, simulation-main.ts).  A simulation is a job under *)
(* a lease, like a turn, but it may be retried, goes stale with the draft, *)
(* and leaves evidence that a registration later relies on.                *)
(***************************************************************************)
EXTENDS DesignTurns

CONSTANTS
  Jobs,     \* simulations that can be queued
  MaxAsked, \* bound of the model: turns and simulations together
  Runners   \* simulation worker processes

VARIABLES
  artifacts,  \* revisions that have a compiled artifact
  job,        \* the rows of jobs, kind 'simulation'
  evidence,   \* the rows of simulation_results: did the report pass?
  runner      \* what each simulation process is at: a claim, or None

jobVars == <<artifacts, job, evidence, runner>>

JobState == {"unasked", "pending", "running", "succeeded", "failed", "cancelled"}
JobRow == [state : JobState, attempts : 0 .. MaxAttempts, live : BOOLEAN,
           generation : 0 .. MaxRevision]
JobClaim == [job : Jobs, attempt : 1 .. MaxAttempts]

Current(r) == r = Revision /\ ready
ActiveJobs == {j \in Jobs : job[j].state \in {"pending", "running"}}
Stopped(j, s) == [job[j] EXCEPT !.state = s, !.live = FALSE]

\* Defect: the token of an earlier attempt will do.
LeasedAnyAttempt(c) == job[c.job].state = "running" /\ job[c.job].live

\* What each write of a runner checks before anything else.
Leased(c) ==
  LET r == job[c.job] IN r.state = "running" /\ r.attempts = c.attempt /\ r.live

JobInit ==
  /\ artifacts = {}
  /\ job = [j \in Jobs |-> [state |-> "unasked", attempts |-> 0, live |-> FALSE,
                            generation |-> 0]]
  /\ evidence = [j \in Jobs |-> None]
  /\ runner = [v \in Runners |-> None]

UnaskedJobs == {j \in Jobs : job[j].state = "unasked"}
Room == Cardinality(Turns \ Unasked) + Cardinality(Jobs \ UnaskedJobs) < MaxAsked

\* A change of the draft takes the unstarted simulations of older revisions with it.
CancelPending ==
  /\ job' = [j \in Jobs |-> IF job[j].state = "pending" THEN Stopped(j, "cancelled") ELSE job[j]]
  /\ UNCHANGED <<artifacts, evidence, runner>>
-----------------------------------------------------------------------------
(* Asked for by the user or, within its turn, by the agent.                *)
Compile ==
  /\ Current(Revision)
  /\ artifacts' = artifacts \cup {Revision}
  /\ UNCHANGED <<job, evidence, runner>>

Start ==
  /\ Revision \in artifacts /\ Current(Revision)
  /\ IF \E j \in ActiveJobs : job[j].generation = Revision
     THEN UNCHANGED job
     ELSE /\ Room /\ UnaskedJobs # {}
          /\ LET j == Fresh(UnaskedJobs) IN
             job' = [i \in Jobs |->
               IF i = j THEN [job[j] EXCEPT !.state = "pending", !.generation = Revision]
               ELSE IF i \in ActiveJobs THEN Stopped(i, "cancelled") ELSE job[i]]
  /\ UNCHANGED <<artifacts, evidence, runner>>

CancelJob(j) ==
  /\ j \in ActiveJobs
  /\ job' = [job EXCEPT ![j] = Stopped(j, "cancelled")]
  /\ UNCHANGED <<artifacts, evidence, runner>>
-----------------------------------------------------------------------------
(* The runners.                                                            *)
JobClaimable(j) == job[j].state = "pending" \/ (job[j].state = "running" /\ ~job[j].live)

ClaimJob(v, j) ==
  /\ runner[v] = None /\ JobClaimable(j)
  /\ Current(job[j].generation) /\ job[j].attempts < MaxAttempts
  /\ LET n == job[j].attempts + 1 IN
     /\ job' = [job EXCEPT ![j].state = "running", ![j].attempts = n, ![j].live = TRUE]
     /\ runner' = [runner EXCEPT ![v] = [job |-> j, attempt |-> n]]
  /\ UNCHANGED <<artifacts, evidence>>

\* A claim that finds the job out of date or out of attempts ends it instead.
RetireJob(v, j) ==
  /\ runner[v] = None /\ JobClaimable(j)
  /\ \/ ~Current(job[j].generation) /\ job' = [job EXCEPT ![j] = Stopped(j, "cancelled")]
     \/ /\ Current(job[j].generation) /\ job[j].attempts = MaxAttempts
        /\ job' = [job EXCEPT ![j] = Stopped(j, "failed")]
  /\ UNCHANGED <<artifacts, evidence, runner>>

Outcome(passed) == IF passed THEN "succeeded" ELSE "failed"

FinishJob(v) ==
  /\ runner[v] # None /\ Leased(runner[v]) /\ Current(job[runner[v].job].generation)
  /\ LET j == runner[v].job IN \E passed \in BOOLEAN :
     /\ evidence' = [evidence EXCEPT ![j] = passed]
     /\ job' = [job EXCEPT ![j] = Stopped(j, Outcome(passed))]
  /\ runner' = [runner EXCEPT ![v] = None]
  /\ UNCHANGED artifacts

\* The run broke down: try again later, or never.
FailJob(v) ==
  /\ runner[v] # None /\ Leased(runner[v]) /\ Current(job[runner[v].job].generation)
  /\ LET j == runner[v].job IN
     job' = [job EXCEPT ![j] = Stopped(j, IF job[j].attempts = MaxAttempts
                                          THEN "failed" ELSE "pending")]
  /\ runner' = [runner EXCEPT ![v] = None]
  /\ UNCHANGED <<artifacts, evidence>>

\* The heartbeat, the result or the failure of a job the draft has left behind.
DropStaleJob(v) ==
  /\ runner[v] # None /\ Leased(runner[v]) /\ ~Current(job[runner[v].job].generation)
  /\ LET j == runner[v].job IN job' = [job EXCEPT ![j] = Stopped(j, "cancelled")]
  /\ runner' = [runner EXCEPT ![v] = None]
  /\ UNCHANGED <<artifacts, evidence>>

\* Killed, shut down, or refused for want of the lease.
LeaveJob(v) ==
  /\ runner[v] # None /\ runner' = [runner EXCEPT ![v] = None]
  /\ UNCHANGED <<artifacts, job, evidence>>

JobLeaseRunsOut(j) ==
  /\ job[j].state = "running" /\ job[j].live
  /\ job' = [job EXCEPT ![j].live = FALSE]
  /\ UNCHANGED <<artifacts, evidence, runner>>
-----------------------------------------------------------------------------
JobTypeOK ==
  /\ artifacts \subseteq 1 .. MaxRevision
  /\ job \in [Jobs -> JobRow]
  /\ evidence \in [Jobs -> BOOLEAN \cup {None}]
  /\ runner \in [Runners -> JobClaim \cup {None}]

\* The draft has at most one simulation under way, and one that waits is of the latest revision
\* (a running one of an older revision is left to notice by itself and must never be queued
\* again) (simulations.ts: start, fail; draft-persistence.ts).
WaitingIsCurrent ==
  /\ \A i, j \in ActiveJobs : i = j
  /\ \A j \in Jobs : job[j].state = "pending" => job[j].generation = Revision

\* Evidence exists exactly for the simulations whose outcome it is, on an artifact that was
\* compiled: none for one that was cancelled or that ran out of attempts, whoever else still
\* works on it (simulations.ts: finish).
EvidenceHasItsJob ==
  \A j \in Jobs :
    /\ job[j].state = "succeeded" => evidence[j] = TRUE
    /\ evidence[j] # None =>
         /\ job[j].state = (IF evidence[j] THEN "succeeded" ELSE "failed")
         /\ job[j].generation \in artifacts
=============================================================================
