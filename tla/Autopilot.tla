------------------------------ MODULE Autopilot ------------------------------
(***************************************************************************)
(* autopilotTick of contracts/aqua-executor/src/autopilot.ts: renew an     *)
(* expired concentrated program, within a budget, or dock it on a loss.    *)
(* Each tick reads the session, asks the oracle without the executor's     *)
(* lock, binds one intent under the lock and hands it to executeRequest    *)
(* (here: accepted once, concluded once; ExecutionController has its       *)
(* steps).  Ticks of several processes, a crash anywhere and requests of   *)
(* other callers interleave.                                               *)
(***************************************************************************)
EXTENDS Naturals, FiniteSets

CONSTANTS
  Ticks,          \* processes running autopilotTick
  Intents,        \* request identifiers drawn for autopilot intents
  Others,         \* requests other callers submit to the session
  MaxRebalances,  \* the policy's budget
  None

VARIABLES
  strategy,  \* how many replacements the session's strategy has seen
  open,      \* the session is active
  expired,   \* the program's deadline and the policy's cooldown have passed
  journal,   \* the executor's requests
  auto,      \* the saved autopilot state of the session
  tick

vars == <<strategy, open, expired, journal, auto, tick>>

Requests == Intents \cup Others
Idle == [phase |-> "idle", action |-> "none", strategy |-> 0, intent |-> None]
Unknown == [status |-> "unknown", action |-> "none", strategy |-> 0]
NoIntent == [id |-> None, action |-> "none", strategy |-> 0]

Pending == {r \in Requests : journal[r].status = "pending"}

Init ==
  /\ strategy = 0 /\ open = TRUE /\ expired = FALSE
  /\ journal = [r \in Requests |-> Unknown]
  /\ auto = [rebalances |-> 0, pending |-> NoIntent, halted |-> FALSE]
  /\ tick = [t \in Ticks |-> Idle]

(***************************************************************************)
(* A tick                                                                  *)
(***************************************************************************)
\* proposeRollover: only an expired program, while the budget lasts.
Rollover == expired /\ ~auto.halted /\ auto.rebalances < MaxRebalances

\* A saved intent is resumed before anything is observed; an unrelated pending request
\* makes the tick hold.
Resume(t) ==
  /\ tick[t] = Idle /\ auto.pending # NoIntent /\ Pending \subseteq {auto.pending.id}
  /\ tick' = [tick EXCEPT ![t] = [phase |-> "submitting", action |-> auto.pending.action,
                                  strategy |-> auto.pending.strategy, intent |-> auto.pending.id]]
  /\ UNCHANGED <<strategy, open, expired, journal, auto>>

Observe(t, action) ==
  /\ tick[t] = Idle /\ auto.pending = NoIntent /\ Pending = {} /\ open
  /\ action = "rebalance" => Rollover
  /\ tick' = [tick EXCEPT ![t] = [phase |-> "decided", action |-> action, strategy |-> strategy, intent |-> None]]
  /\ UNCHANGED <<strategy, open, expired, journal, auto>>

\* Defect: the strategy the proposal was made for is not compared.
StillIdle(t) == open /\ auto.pending = NoIntent /\ Pending = {}
\* The session of the observation is still the session: checked under the lock.
StillCurrent(t) == open /\ tick[t].strategy = strategy /\ auto.pending = NoIntent /\ Pending = {}

Bind(t, i) ==
  /\ tick[t].phase = "decided"
  /\ IF StillCurrent(t)
     THEN /\ journal[i] = Unknown /\ \A u \in Ticks : tick[u].intent # i
          /\ auto' = [auto EXCEPT !.pending = [id |-> i, action |-> tick[t].action, strategy |-> strategy]]
          /\ tick' = [tick EXCEPT ![t] = [@ EXCEPT !.phase = "submitting", !.intent = i, !.strategy = strategy]]
     ELSE tick' = [tick EXCEPT ![t] = Idle] /\ UNCHANGED auto
  /\ UNCHANGED <<strategy, open, expired, journal>>

\* executeRequest accepts a new request of the current strategy when none is pending; a
\* request it knows is resumed or answered, any other ends the tick with an error, and so
\* does a new strategy whose deadline has lapsed.
Acceptable(t) ==
  /\ Pending = {} /\ tick[t].strategy = strategy
  /\ tick[t].action = "rebalance" => open

Submit(t, lapsed) ==
  LET i == tick[t].intent IN
  /\ tick[t].phase = "submitting"
  /\ lapsed => tick[t].action = "rebalance"
  /\ \/ /\ journal[i] # Unknown
        /\ tick' = [tick EXCEPT ![t].phase = "running"] /\ UNCHANGED journal
     \/ /\ journal[i] = Unknown /\ Acceptable(t) /\ ~lapsed
        /\ journal' = [journal EXCEPT ![i] = [status |-> "pending", action |-> tick[t].action, strategy |-> strategy]]
        /\ tick' = [tick EXCEPT ![t].phase = "running"]
     \/ /\ journal[i] = Unknown /\ (lapsed \/ ~Acceptable(t))
        /\ tick' = [tick EXCEPT ![t] = Idle] /\ UNCHANGED journal
  /\ UNCHANGED <<strategy, open, expired, auto>>

\* The saved state is updated once, by whoever still finds the intent in it.
Unsettled(t) == auto.pending.id = tick[t].intent

Settle(t) ==
  LET r == journal[tick[t].intent] IN
  /\ tick[t].phase = "running" /\ r.status \notin {"unknown", "pending"}
  /\ auto' = IF ~Unsettled(t) THEN auto
             ELSE [rebalances |-> auto.rebalances + (IF r.status = "rebalanced" THEN 1 ELSE 0),
                   pending |-> NoIntent, halted |-> auto.halted \/ r.status = "failed"]
  /\ tick' = [tick EXCEPT ![t] = Idle]
  /\ UNCHANGED <<strategy, open, expired, journal>>

Crash(t) ==
  /\ tick[t] # Idle
  /\ tick' = [tick EXCEPT ![t] = Idle]
  /\ UNCHANGED <<strategy, open, expired, journal, auto>>

(***************************************************************************)
(* The executor, other callers and time                                    *)
(***************************************************************************)
Driven(r) == r \in Others \/ \E t \in Ticks : tick[t].phase = "running" /\ tick[t].intent = r

\* A rebalance replaces the strategy, is refused by the chain, or meets a loss and docks.
Conclude(r, outcome) ==
  /\ r \in Pending /\ Driven(r)
  /\ outcome = "rebalanced" => journal[r].action = "rebalance"
  /\ journal' = [journal EXCEPT ![r].status = outcome]
  /\ strategy' = IF outcome = "rebalanced" THEN strategy + 1 ELSE strategy
  /\ expired' = (expired /\ outcome # "rebalanced")
  /\ open' = (open /\ outcome # "docked")
  /\ UNCHANGED <<auto, tick>>

OtherRequest(o, action) ==
  /\ journal[o] = Unknown /\ Pending = {} /\ open
  /\ journal' = [journal EXCEPT ![o] = [status |-> "pending", action |-> action, strategy |-> strategy]]
  /\ UNCHANGED <<strategy, open, expired, auto, tick>>

Expire ==
  /\ ~expired /\ expired' = TRUE
  /\ UNCHANGED <<strategy, open, journal, auto, tick>>

TickSteps(t) ==
  \/ Resume(t) \/ Settle(t)
  \/ \E action \in {"rebalance", "dock"} : Observe(t, action)
  \/ \E i \in Intents : Bind(t, i)
  \/ \E lapsed \in BOOLEAN : Submit(t, lapsed)

Executor == \E r \in Requests, outcome \in {"rebalanced", "failed", "docked"} : Conclude(r, outcome)

Next ==
  \/ \E t \in Ticks : TickSteps(t) \/ Crash(t)
  \/ Executor \/ Expire
  \/ \E o \in Others, action \in {"rebalance", "dock"} : OtherRequest(o, action)

Spec == Init /\ [][Next]_vars
\* The command is retried until a tick gets through, whatever crashes in between, and the
\* executor's transactions are mined.
FairSpec == Spec /\ SF_vars(Executor) /\ \A t \in Ticks :
  WF_vars(Resume(t)) /\ SF_vars(\E lapsed \in BOOLEAN : Submit(t, lapsed)) /\ SF_vars(Settle(t))

(***************************************************************************)
(* Properties                                                              *)
(***************************************************************************)
Actions == {"none", "rebalance", "dock"}
Generations == 0 .. Cardinality(Requests)

\* The types of the session, the journal, the saved state and the ticks.
TypeOK ==
  /\ strategy \in Generations /\ open \in BOOLEAN /\ expired \in BOOLEAN
  /\ journal \in [Requests -> [status : {"unknown", "pending", "rebalanced", "failed", "docked"},
                               action : Actions, strategy : Generations]]
  /\ auto \in [rebalances : Generations, halted : BOOLEAN,
               pending : [id : Intents \cup {None}, action : Actions, strategy : Generations]]
  /\ tick \in [Ticks -> [phase : {"idle", "decided", "submitting", "running"}, action : Actions,
                         strategy : Generations, intent : Intents \cup {None}]]

Rolled == {i \in Intents : journal[i].status = "rebalanced"}

\* The decision is saved before anything is signed and counted exactly once, wherever a
\* tick dies and however many run: a pending intent is the saved one, the count is the
\* rollovers that were settled, and the budget is never exceeded.
DecisionsAreCounted ==
  /\ Pending \cap Intents \subseteq {auto.pending.id}
  /\ auto.rebalances = Cardinality(Rolled \ {auto.pending.id})
  /\ Cardinality(Rolled) <= MaxRebalances

\* LP-STRATEGIES.md:120: after an interruption the same command resumes the original
\* request, so a saved intent does not stay saved for ever.
IntentConcludes ==
  \A i \in Intents : (auto.pending.id = i) ~> (auto.pending.id # i)

(***************************************************************************)
(* What makes it inductive                                                 *)
(***************************************************************************)
\* Intents have fresh identifiers, of which there are finitely many.
FreshIntents ==
  /\ Intents \cap Others = {} /\ None \notin Requests /\ IsFiniteSet(Requests)
  /\ MaxRebalances \in Nat

Concluded == {"rebalanced", "failed", "docked"}
Replaced == {r \in Requests : journal[r].status = "rebalanced"}
\* Room in the budget for one more rollover, counting those not settled yet.
InBudget == Cardinality(Rolled) < MaxRebalances

\* The saved intent keeps the action it was proposed for, and its place in the budget.
SavedStands ==
  LET p == auto.pending IN
  \/ p = NoIntent
  \/ /\ p.id \in Intents /\ p.strategy <= strategy
     /\ journal[p.id].status # "unknown" => journal[p.id].action = p.action
     /\ p.action = "rebalance" /\ journal[p.id].status \notin Concluded => InBudget

\* A tick works on the saved intent or on one that has concluded, and a proposal it still
\* holds fits the budget as long as the strategy is the one it was made for.
Stands(k) ==
  /\ k.strategy <= strategy
  /\ k.phase = "decided" /\ k.action = "rebalance" /\ k.strategy = strategy => InBudget
  /\ k.phase \in {"submitting", "running"} =>
       /\ k.intent \in Intents
       /\ \/ k.intent = auto.pending.id /\ k.action = auto.pending.action
          \/ journal[k.intent].status \in Concluded
  /\ k.phase = "running" => journal[k.intent].status # "unknown"

DecisionsInv ==
  /\ TypeOK /\ DecisionsAreCounted /\ SavedStands
  /\ strategy = Cardinality(Replaced)
  /\ \A r \in Requests : journal[r].status = "unknown" => journal[r] = Unknown
  /\ \A t \in Ticks : Stands(tick[t])
=============================================================================
