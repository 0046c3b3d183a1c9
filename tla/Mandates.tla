------------------------------ MODULE Mandates ------------------------------
(***************************************************************************)
(* The mandate service of orchestrator/src/service.mjs: it asks a runner   *)
(* (cre-mandate-runner.mjs) to evaluate a strategy of one Maker, waits for *)
(* the report AquaGuardV2 accepts, verifies the evidence and keeps what it *)
(* saw in one file per mandate.  A call reads the file when it starts and  *)
(* writes it when it ends; nothing serialises two calls on one mandate,    *)
(* and their saves go through one temporary file.                          *)
(***************************************************************************)
EXTENDS Naturals, Sequences, FiniteSets

CONSTANTS
  Mandates,    \* the identifiers randomUUID draws
  Strategies,  \* listings of the catalog, all of one Maker
  Calls,       \* requests the server holds open at a time
  Swaps,       \* Aqua swap transactions
  MaxReports,  \* bound: reports and evaluations under way
  Blank,       \* a file opened and not written yet
  Torn,        \* a file in which two saves were written over one another
  None

VARIABLES
  reports,  \* ReportAccepted events of the guard, in block order
  due,      \* evaluations triggered for a strategy that have not ended
  swaps,    \* the swaps mined, with the strategy they name and their outcome
  stored,   \* the file of each mandate
  temp,     \* the temporary file every save of a mandate goes through, or None
  call

vars == <<reports, due, swaps, stored, temp, call>>

Statuses == {"active", "standby", "paused"}
Events == [swap : Swaps, settled : BOOLEAN]
Idle == [reads |-> FALSE, mandate |-> None, strategy |-> None, swap |-> None, from |-> 0, phase |-> "idle", out |-> None]

\* The strategies a mandate state lists, and whether it could be stored at all.
Listed(state) == DOMAIN state.status
OneActive(state) == Cardinality({s \in Listed(state) : state.status[s] = "active"}) <= 1

\* Defect: the log query does not name the strategy.
SeenOfMaker(s, from) == IF Len(reports) > from THEN Len(reports) ELSE 0

\* The last accepted report of a strategy after block position `from`, or 0.
Seen(s, from) ==
  LET at == {i \in from + 1 .. Len(reports) : reports[i].strategy = s}
  IN IF at = {} THEN 0 ELSE CHOOSE i \in at : \A j \in at : j <= i

UnderWay == Cardinality({e \in Strategies \X (1 .. MaxReports) : e[2] <= due[e[1]]})

\* The guard trades for the strategy of the last report that allows a direction,
\* until a later report of that strategy forbids both.
Tradable(s) ==
  /\ Seen(s, 0) # 0 /\ reports[Seen(s, 0)].allows
  /\ \A i \in Seen(s, 0) + 1 .. Len(reports) : ~reports[i].allows

\* What accept() checks before it saves: the state's report and every event have a
\* receipt of the claimed status.
Backed(state) ==
  /\ OneActive(state)
  /\ \A e \in state.events : swaps[e.swap] # None /\ swaps[e.swap].ok = e.settled

\* The state a runner returns: the evaluated strategy follows its report, and an
\* authorised one sends every other strategy to standby.
Evaluated(old, s, i) ==
  [status |-> [t \in Listed(old) \cup {s} |->
     IF t = s THEN IF reports[i].allows THEN "active" ELSE "paused"
     ELSE IF reports[i].allows THEN "standby" ELSE old.status[t]],
   report |-> i, evaluated |-> s, events |-> old.events]

\* What load() parses; anything else fails the request that reads it.
Readable(f) == f \notin {None, Blank, Torn}

Unopened == [status |-> [s \in {} |-> "paused"], report |-> 0, evaluated |-> None, events |-> {}]

Init ==
  /\ reports = <<>>
  /\ due = [s \in Strategies |-> 0]
  /\ swaps = [x \in Swaps |-> None]
  /\ stored = [m \in Mandates |-> None]
  /\ temp = [m \in Mandates |-> None]
  /\ call = [c \in Calls |-> Idle]

Begin(c, m, s, x, phase, out) ==
  /\ call[c] = Idle
  /\ call' = [call EXCEPT ![c] = [reads |-> phase = "verifying", mandate |-> m, strategy |-> s,
                                  swap |-> x, from |-> 0, phase |-> phase, out |-> out]]
  /\ UNCHANGED <<reports, due, swaps, stored, temp>>

Moves(c, phase) == call' = [call EXCEPT ![c].phase = phase]
Ends(c) == call' = [call EXCEPT ![c] = Idle]

(***************************************************************************)
(* The four requests                                                       *)
(***************************************************************************)
Create(c, m, s) ==
  /\ stored[m] = None /\ temp[m] = None /\ \A d \in Calls : call[d].mandate # m
  /\ Begin(c, m, s, None, "evaluating", Unopened)

Add(c, m, s) == Readable(stored[m]) /\ Begin(c, m, s, None, "evaluating", stored[m])

\* Reading a mandate verifies the stored evidence again and saves what it read.
Get(c, m) == Readable(stored[m]) /\ Begin(c, m, None, None, "verifying", stored[m])

\* A settled swap must name the active strategy, a rejected one another strategy.
RecordExecution(c, m, s, x, settled) ==
  /\ Readable(stored[m]) /\ s \in Listed(stored[m])
  /\ \A e \in stored[m].events : e.swap # x
  /\ settled <=> stored[m].status[s] = "active"
  /\ Begin(c, m, s, x, "reading",
           [stored[m] EXCEPT !.events = @ \cup {[swap |-> x, settled |-> settled]}])

(***************************************************************************)
(* The steps of a call                                                     *)
(***************************************************************************)
\* The runner checks the catalog entry and triggers an evaluation; the local simulator
\* may instead report that the standing authorisation is unchanged.
Trigger(c) ==
  /\ call[c].phase = "evaluating"
  /\ \/ /\ Len(reports) + UnderWay < MaxReports
        /\ due' = [due EXCEPT ![call[c].strategy] = @ + 1]
        /\ call' = [call EXCEPT ![c].phase = "observing", ![c].from = Len(reports)]
     \/ /\ Seen(call[c].strategy, 0) # 0
        /\ call' = [call EXCEPT ![c].phase = "observing", ![c].from = Seen(call[c].strategy, 0) - 1]
        /\ UNCHANGED due
  /\ UNCHANGED <<reports, swaps, stored, temp>>

\* findAcceptedReport takes the newest event since the call started.
Observe(c) ==
  LET i == Seen(call[c].strategy, call[c].from) IN
  /\ call[c].phase = "observing" /\ i # 0
  /\ call' = [call EXCEPT ![c].phase = "verifying", ![c].strategy = None, ![c].from = 0,
                            ![c].out = Evaluated(@, call[c].strategy, i)]
  /\ UNCHANGED <<reports, due, swaps, stored, temp>>

\* accept(): receipts of the report and of every event, readiness, then the save.
Verify(c) ==
  /\ call[c].phase = "verifying"
  /\ IF Backed(call[c].out) THEN Moves(c, "saving") ELSE Ends(c)
  /\ UNCHANGED <<reports, due, swaps, stored, temp>>

\* verifyAquaSwap: the transaction calls swap for this strategy with this outcome.
ReadSwap(c) ==
  /\ call[c].phase = "reading"
  /\ IF \A e \in call[c].out.events : e.swap = call[c].swap =>
          swaps[e.swap] = [strategy |-> call[c].strategy, ok |-> e.settled]
     THEN call' = [call EXCEPT ![c].phase = "saving", ![c].strategy = None, ![c].swap = None] ELSE Ends(c)
  /\ UNCHANGED <<reports, due, swaps, stored, temp>>

\* writeFile: the temporary file is opened, and emptied ...
OpenTemp(c) ==
  /\ call[c].phase = "saving"
  /\ temp' = [temp EXCEPT ![call[c].mandate] = Blank]
  /\ Moves(c, "writing")
  /\ UNCHANGED <<reports, due, swaps, stored>>

\* What is longer shows its end behind what is written over it.
Filled(f, out) == IF f = Blank THEN {out} ELSE {out, Torn}

\* ... and written, wherever another save has moved it meanwhile.
WriteTemp(c) ==
  LET m == call[c].mandate IN
  /\ \/ /\ call[c].phase = "writing" /\ UNCHANGED stored
        /\ \E f \in Filled(temp[m], call[c].out) : temp' = [temp EXCEPT ![m] = f]
     \/ /\ call[c].phase = "overwriting" /\ UNCHANGED temp
        /\ \E f \in Filled(stored[m], call[c].out) : stored' = [stored EXCEPT ![m] = f]
  /\ Moves(c, "renaming")
  /\ UNCHANGED <<reports, due, swaps>>

\* The open file of a save goes where another save renames it to, and then is replaced there.
Displaced(q, m) ==
  IF q.mandate = m /\ q.phase = "writing" THEN [q EXCEPT !.phase = "overwriting"]
  ELSE IF q.mandate = m /\ q.phase = "overwriting" THEN [q EXCEPT !.phase = "renaming"]
  ELSE q

\* Another save may have renamed the shared temporary file away.
Rename(c) ==
  LET m == call[c].mandate IN
  /\ call[c].phase = "renaming"
  /\ IF temp[m] = None THEN Ends(c) /\ UNCHANGED <<stored, temp>>
     ELSE /\ stored' = [stored EXCEPT ![m] = temp[m]] /\ temp' = [temp EXCEPT ![m] = None]
          /\ call' = [d \in Calls |-> IF d = c THEN Idle ELSE Displaced(call[d], m)]
  /\ UNCHANGED <<reports, due, swaps>>

\* The runner refuses, fails or is killed when its time is up; what it triggered goes on.
TimeOut(c) ==
  /\ call[c].phase \in {"evaluating", "observing"}
  /\ Ends(c)
  /\ UNCHANGED <<reports, due, swaps, stored, temp>>

\* An RPC error while the evidence is read.
Unavailable(c) ==
  /\ call[c].phase \in {"verifying", "reading"}
  /\ Ends(c)
  /\ UNCHANGED <<reports, due, swaps, stored, temp>>

\* The process that follows names its temporary files anew.
Restart ==
  /\ \E c \in Calls : call[c] # Idle
  /\ call' = [c \in Calls |-> Idle]
  /\ temp' = [m \in Mandates |-> None]
  /\ UNCHANGED <<reports, due, swaps, stored>>

(***************************************************************************)
(* The workflow, the guard and the takers                                  *)
(***************************************************************************)
ReportLands(s, allows) ==
  /\ due[s] > 0
  /\ due' = [due EXCEPT ![s] = @ - 1]
  /\ reports' = Append(reports, [strategy |-> s, allows |-> allows])
  /\ UNCHANGED <<swaps, stored, temp, call>>

EvaluationFails(s) ==
  /\ due[s] > 0
  /\ due' = [due EXCEPT ![s] = @ - 1]
  /\ UNCHANGED <<reports, swaps, stored, temp, call>>

SwapMined(x, s) ==
  /\ swaps[x] = None
  /\ swaps' = [swaps EXCEPT ![x] = [strategy |-> s, ok |-> Tradable(s)]]
  /\ UNCHANGED <<reports, due, stored, temp, call>>

Steps(c) ==
  \/ Trigger(c) \/ Observe(c) \/ Verify(c) \/ ReadSwap(c)
  \/ OpenTemp(c) \/ WriteTemp(c) \/ Rename(c)
  \/ TimeOut(c) \/ Unavailable(c)

Requests(c) == \E m \in Mandates :
  \/ Get(c, m)
  \/ \E s \in Strategies :
       \/ Create(c, m, s) \/ Add(c, m, s)
       \/ \E x \in Swaps, settled \in BOOLEAN : RecordExecution(c, m, s, x, settled)

Chain == \E s \in Strategies :
  \/ EvaluationFails(s)
  \/ \E allows \in BOOLEAN : ReportLands(s, allows)
  \/ \E x \in Swaps : SwapMined(x, s)

Next == (\E c \in Calls : Requests(c) \/ Steps(c)) \/ Chain \/ Restart

Spec == Init /\ [][Next]_vars

(***************************************************************************)
(* Properties                                                              *)
(***************************************************************************)
State(x) ==
  /\ x.status \in UNION {[known -> Statuses] : known \in SUBSET Strategies}
  /\ x.report \in 0 .. MaxReports /\ x.events \subseteq Events

\* The types of the service's files, its calls and the chain it reads.
TypeOK ==
  /\ Len(reports) <= MaxReports
  /\ \A i \in DOMAIN reports : reports[i] \in [strategy : Strategies, allows : BOOLEAN]
  /\ due \in [Strategies -> 0 .. MaxReports]
  /\ \A x \in Swaps : swaps[x] = None \/ swaps[x] \in [strategy : Strategies, ok : BOOLEAN]
  /\ \A m \in Mandates : \A f \in {stored[m], temp[m]} : Readable(f) => State(f)
  /\ \A c \in Calls : call[c].out = None \/ State(call[c].out)

\* What the service shows as evidence is evidence, whatever calls overlapped: a file may be
\* emptied or torn by two saves, and then is shown to nobody; of one that can be read, the
\* stored report is one the guard accepted for the strategy it was evaluated for, that
\* strategy is shown active exactly when the report allows a trade, no second strategy
\* is, and every recorded swap was mined with the outcome it is shown with.
StoredIsEvidence == \A m \in Mandates : Readable(stored[m]) =>
  /\ stored[m].report \in DOMAIN reports
  /\ reports[stored[m].report].strategy = stored[m].evaluated
  /\ stored[m].status[stored[m].evaluated] = (IF reports[stored[m].report].allows THEN "active" ELSE "paused")
  /\ Backed(stored[m])

(***************************************************************************)
(* The inductive invariant.  A call carries a state that is sound but for  *)
(* the swap it has yet to read; reports are only added and a mined swap     *)
(* does not change, so what was sound when a call began still is.           *)
(***************************************************************************)
Mined == [strategy : Strategies, ok : BOOLEAN]
States == [status : UNION {[known -> Statuses] : known \in SUBSET Strategies},
           report : Nat, evaluated : Strategies \cup {None}, events : SUBSET Events]

Alone(f) == \A s, t \in Listed(f) : f.status[s] = "active" /\ f.status[t] = "active" => s = t
Proven(events) == \A e \in events : swaps[e.swap] # None /\ swaps[e.swap].ok = e.settled
Reported(f) ==
  /\ f.report \in DOMAIN reports /\ f.evaluated \in Listed(f)
  /\ reports[f.report].strategy = f.evaluated
  /\ f.status[f.evaluated] = (IF reports[f.report].allows THEN "active" ELSE "paused")
Sound(f) == f \in States /\ Alone(f) /\ Reported(f) /\ Proven(f.events)

\* All it has recorded but the swap it is to read.
Earlier(q) == {e \in q.out.events : e.swap # q.swap}
Saving == {"saving", "writing", "overwriting", "renaming"}
Held == [reads : BOOLEAN, mandate : Mandates, strategy : Strategies \cup {None},
         swap : Swaps \cup {None}, from : Nat,
         phase : {"evaluating", "observing", "reading", "verifying"} \cup Saving, out : States]

CallInv(q) ==
  \/ q = Idle
  \/ /\ q \in Held
     /\ \/ /\ q.phase \in {"evaluating", "observing"} /\ q.strategy \in Strategies
           /\ q.out.report <= MaxReports /\ Alone(q.out) /\ Proven(q.out.events)
        \/ /\ q.phase = "reading" /\ q.strategy \in Strategies
           /\ Alone(q.out) /\ Reported(q.out) /\ Proven(Earlier(q))
        \/ q.phase \in {"verifying"} \cup Saving /\ Sound(q.out)

EvidenceInv ==
  /\ reports \in Seq([strategy : Strategies, allows : BOOLEAN])
  /\ due \in [Strategies -> 0 .. MaxReports] /\ Len(reports) + UnderWay <= MaxReports
  /\ swaps \in [Swaps -> Mined \cup {None}]
  /\ \A m \in Mandates : \A f \in {stored[m], temp[m]} : Readable(f) => Sound(f)
  /\ DOMAIN stored = Mandates /\ DOMAIN temp = Mandates /\ DOMAIN call = Calls
  /\ \A c \in Calls : CallInv(call[c])

\* What stands for no state, no swap or no strategy is none, and what cannot be read is not a
\* state.
NoneIsNoState == Blank \notin States /\ Torn \notin States /\ None \notin States \cup Mined \cup Strategies \cup Mandates /\ IsFiniteSet(Strategies)
=============================================================================
