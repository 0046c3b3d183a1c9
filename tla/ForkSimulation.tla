---- MODULE ForkSimulation ----
(***************************************************************************)
(* The lifecycle simulation of a compiled strategy on a private fork of    *)
(* Sepolia: an Anvil process is started at a finalized block and checked,  *)
(* the strategy is funded, registered and authorised on it, and a list of  *)
(* cases is tried, each between a snapshot and its rollback.  What comes   *)
(* out is the evidence a maker decides on.                                 *)
(*                                                                         *)
(* The contracts are a black box: `good` holds the cases in which they do, *)
(* from a clean base, what the case expects.  From a state in which writes *)
(* of another case remain, anything may be observed.                       *)
(***************************************************************************)
EXTENDS Naturals, Sequences, FiniteSets

CONSTANTS Setup,   \* the phases whose writes stay: read, fund, approve, ship
          First,   \* the case tried before any report is stored: missing-report
          Cases,   \* the cases tried after it, in the order of the script
          None

VARIABLES good,     \* the steps in which the contracts do what is expected
          due,      \* the cases that apply: the others are skipped with a reason
          fresh,    \* compiling the draft again gives the saved compilation
          child,    \* the Anvil process: none, booting, up, dead
          chain,    \* the steps whose writes are in the fork's state
          saved,    \* the snapshot of the running case
          at, step, \* the step of the script, and where it stands
          cases,    \* the results collected
          outcome   \* the evidence returned, None before and when the call throws

vars == <<good, due, fresh, child, chain, saved, at, step, cases, outcome>>

Report == "report"
Script == Setup \o <<First, Report>> \o Cases
Kept == {Setup[i] : i \in 1..Len(Setup)} \cup {Report}
Isolated == {First} \cup {Cases[i] : i \in 1..Len(Cases)}
\* A success is a result for a case, and for the registration that ends the setup.
Recorded == Isolated \cup {Setup[Len(Setup)]}
Item == Script[at]
\* The state the step is meant to start from: the kept steps before it.
Base(i) == {Script[j] : j \in 1..(i - 1)} \cap Kept

Init ==
  /\ good \in SUBSET (Kept \cup Isolated)
  /\ due \in SUBSET Isolated /\ First \in due
  /\ fresh \in BOOLEAN
  /\ child = "none" /\ chain = {} /\ saved = None
  /\ at = 1 /\ step = "start" /\ cases = <<>> /\ outcome = None

Case(name, passed) == [name |-> name, passed |-> passed]
Chosen == UNCHANGED <<good, due, fresh>>
Goes(to) == step' = to /\ UNCHANGED outcome

\* simulateBuilderLifecycle compiles again and starts the fork.
StartFork ==
  /\ step = "start"
  /\ IF fresh THEN child' = "booting" /\ Goes("boot")
              ELSE Goes("threw") /\ UNCHANGED child
  /\ Chosen /\ UNCHANGED <<chain, saved, at, cases>>

\* startFork accepts the process only after its block, code, guard bindings and
\* tokens are those of the manifest and the upstream block is still the same.
ForkReady ==
  /\ step = "boot" /\ child = "booting"
  /\ child' = "up" /\ Goes("next")
  /\ Chosen /\ UNCHANGED <<chain, saved, at, cases>>
\* Any failed check stops the process and throws.
ForkRefused ==
  /\ step = "boot"
  /\ child' = "dead" /\ Goes("threw")
  /\ Chosen /\ UNCHANGED <<chain, saved, at, cases>>

Advance == IF at = Len(Script) THEN Goes("stop") /\ UNCHANGED at ELSE at' = at + 1 /\ Goes("next")

Skip ==
  /\ step = "next" /\ Item \in Isolated \ due
  /\ cases' = Append(cases, Case(Item, None))
  /\ Advance
  /\ Chosen /\ UNCHANGED <<child, chain, saved>>

Up == child = "up"
TakeSnapshot ==
  /\ step = "next" /\ Item \in due /\ Up
  /\ saved' = chain /\ Goes("work")
  /\ Chosen /\ UNCHANGED <<child, chain, at, cases>>

\* A case's transactions and the comparison of what they did, or a kept phase.
Work ==
  /\ step = IF Item \in Kept THEN "next" ELSE "work"
  /\ Up
  /\ chain' = chain \cup {Item}
  /\ \E ok \in IF chain = Base(at) THEN {Item \in good} ELSE BOOLEAN :
       /\ cases' = IF ~ok \/ Item \in Recorded THEN Append(cases, Case(Item, ok)) ELSE cases
       /\ IF Item \in Isolated THEN Goes(IF ok THEN "revert" ELSE "stop") /\ UNCHANGED at
          ELSE IF ok THEN Advance ELSE Goes("stop") /\ UNCHANGED at
  /\ Chosen /\ UNCHANGED <<child, saved>>

\* Defect: the writes of a case stay for the next.
Stay(snapshot) == chain
Rollback(snapshot) == snapshot
Revert ==
  /\ step = "revert" /\ Up
  /\ chain' = Rollback(saved) /\ saved' = None
  /\ Advance
  /\ Chosen /\ UNCHANGED <<child, cases>>

\* A request that fails, because the fork or its provider is gone or too slow, is
\* caught like a failed expectation and recorded as a failed case.
Unavailable ==
  /\ step \in {"next", "work", "revert"}
  /\ cases' = Append(cases, Case(Item, FALSE))
  /\ Goes("stop")
  /\ Chosen /\ UNCHANGED <<child, chain, saved, at>>

Passed == cases # <<>> /\ \A i \in 1..Len(cases) : cases[i].passed # FALSE
CoverageComplete == cases # <<>> /\ \A i \in 1..Len(cases) : cases[i].passed = TRUE

\* The finally block waits for the process to close, and the evidence is returned.
StopFork ==
  /\ step = "stop"
  /\ child' = "dead"
  /\ step' = "done"
  /\ outcome' = [passed |-> Passed, complete |-> CoverageComplete]
  /\ Chosen /\ UNCHANGED <<chain, saved, at, cases>>

\* The abort signal, the time limit of the fork, or a crash of Anvil.
ForkDies ==
  /\ child \in {"booting", "up"}
  /\ child' = "dead"
  /\ Chosen /\ UNCHANGED <<chain, saved, at, step, cases, outcome>>

Next ==
  \/ StartFork \/ ForkReady \/ ForkRefused
  \/ Skip \/ TakeSnapshot \/ Work \/ Revert \/ Unavailable \/ StopFork
  \/ ForkDies

Spec == Init /\ [][Next]_vars

--------------------------------------------------------------------------------
\* The script runs in order, and results are collected for steps already reached.
TypeOK ==
  /\ child \in {"none", "booting", "up", "dead"}
  /\ chain \subseteq Kept \cup Isolated /\ at \in 1..Len(Script)
  /\ step \in {"start", "boot", "next", "work", "revert", "stop", "done", "threw"}
  /\ Len(cases) <= Cardinality(Isolated) + 2

\* Evidence that says a strategy passed says so of every case that applied: had the
\* contracts not done what the case expects from the clean base, the run would have
\* failed, whatever the cases before it wrote; evidence that calls its coverage
\* complete says so of all cases.  A run that has answered leaves no Anvil process.
EvidenceIsSound ==
  /\ step \in {"done", "threw"} => child \in {"none", "dead"}
  /\ outcome # None =>
       /\ outcome.passed => Kept \cup due \subseteq good
       /\ outcome.complete => Kept \cup Isolated \subseteq good

--------------------------------------------------------------------------------
\* What holds for any script of steps with names of their own.
PlainScript ==
  /\ Setup \in Seq(STRING) /\ Setup # <<>> /\ Cases \in Seq(STRING) /\ {First, Report} \subseteq STRING
  /\ Kept \cap Isolated = {} /\ Cardinality(Isolated) = Len(Cases) + 1
  /\ \A i \in 1..(Len(Setup) - 1) : Setup[i] # Setup[Len(Setup)]
  /\ Setup[Len(Setup)] # Report /\ None \notin BOOLEAN

Results == [name : Kept \cup Isolated, passed : BOOLEAN \cup {None}]
Failed == \E i \in 1..Len(cases) : cases[i].passed = FALSE
Skipped == \E i \in 1..Len(cases) : cases[i].passed = None
\* The contracts did what was expected in the first steps of the script that applied.
Tried(last) ==
  \A i \in 1..last :
    /\ Script[i] \in Kept \cup due => Script[i] \in good
    /\ Script[i] \in Isolated \ due => Skipped
\* The successes recorded before a step.
Before(i) == IF i <= Len(Setup) THEN 0 ELSE IF i <= Len(Setup) + 2 THEN i - Len(Setup) ELSE i - Len(Setup) - 1

Shapes ==
  /\ child \in {"none", "booting", "up", "dead"} /\ due \subseteq Isolated
  /\ chain \subseteq Kept \cup Isolated /\ at \in 1..Len(Script) /\ cases \in Seq(Results)
  /\ step \in {"start", "boot", "next", "work", "revert", "stop", "done", "threw"}

\* Where the script stands, what the fork's state holds and what the results say.
Stages ==
  /\ step \in {"done", "threw"} => child \in {"none", "dead"}
  /\ step = "start" => child = "none" /\ at = 1 /\ chain = {} /\ cases = <<>>
  /\ step = "boot" => at = 1 /\ chain = {} /\ cases = <<>>
  /\ step = "next" => chain = Base(at) /\ Tried(at - 1) /\ Len(cases) <= Before(at)
  /\ step = "work" => /\ chain = Base(at) /\ saved = Base(at) /\ Item \in due
                      /\ Tried(at - 1) /\ Len(cases) <= Before(at)
  /\ step = "revert" => /\ saved = Base(at) /\ Item \in Isolated
                        /\ Tried(at) /\ Len(cases) <= Before(at) + 1
  /\ step \in {"stop", "done"} => Failed \/ Tried(Len(Script))
  /\ step \in {"stop", "done", "threw"} => Len(cases) <= Len(Cases) + 3

Answers ==
  outcome # None =>
    /\ outcome.passed => Kept \cup due \subseteq good
    /\ outcome.complete => Kept \cup Isolated \subseteq good

ForkInv == Shapes /\ Stages /\ Answers
================================================================================
