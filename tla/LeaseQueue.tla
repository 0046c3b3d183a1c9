----------------------------- MODULE LeaseQueue ------------------------------
(***************************************************************************)
(* The two durable queues of the builder database: jobs (jobs.ts), which a *)
(* worker claims one at a time, keeps by its heartbeat and completes while *)
(* its lease lasts; and the outbox (outbox.ts), whose dispatchers claim a  *)
(* batch under one lease, deliver entry after entry and acknowledge or     *)
(* fail each one.  Leases run out, workers die, deliveries and database    *)
(* calls fail at any moment.  The token of a claim is the number of the    *)
(* attempt it started: each claim of a row takes a new one of both.        *)
(***************************************************************************)
EXTENDS Naturals, Sequences, FiniteSets, FiniteSetTheorems, TLAPS

CONSTANTS
  Jobs, Digests,   \* dedupe keys, and the inputs enqueued under them
  Entries,         \* ids of outbox entries: a set of numbers
  Workers,
  Limit,           \* entries claimed at once
  MaxAttempts,     \* of an outbox entry; for a job a bound of the exploration
  None

VARIABLES
  jobs,      \* dedupe key -> None or the row
  accepted,  \* the inputs whose enqueueing was answered, per key
  results,   \* the attempts whose result a job took
  outbox,    \* id -> None or the row
  sent,      \* the attempts that delivered an entry
  lost,      \* entries whose last attempt ended without a word to the database
  worker     \* what each process holds and is about to do

vars == <<jobs, accepted, results, outbox, sent, lost, worker>>

Idle == [step |-> "idle", item |-> None, token |-> 0, rest |-> <<>>]

Init ==
  /\ jobs = [j \in Jobs |-> None] /\ accepted = [j \in Jobs |-> {}] /\ results = [j \in Jobs |-> {}]
  /\ outbox = [e \in Entries |-> None] /\ sent = [e \in Entries |-> {}] /\ lost = {}
  /\ worker = [w \in Workers |-> Idle]

(***************************************************************************)
(* Jobs                                                                    *)
(***************************************************************************)
SameInput(j, d) == jobs[j] # None => jobs[j].digest = d

Enqueue(j, d) ==
  /\ SameInput(j, d)
  /\ jobs' = IF jobs[j] # None THEN jobs
             ELSE [jobs EXCEPT ![j] = [digest |-> d, state |-> "pending", attempts |-> 0, token |-> 0, live |-> FALSE]]
  /\ accepted' = [accepted EXCEPT ![j] = @ \cup {d}]
  /\ UNCHANGED <<results, outbox, sent, lost, worker>>

ClaimJob(w, j) ==
  /\ worker[w].step = "idle" /\ jobs[j] # None /\ jobs[j].attempts < MaxAttempts
  /\ jobs[j].state = "pending" \/ (jobs[j].state = "running" /\ ~jobs[j].live)
  /\ LET token == jobs[j].attempts + 1
     IN /\ jobs' = [jobs EXCEPT ![j].state = "running", ![j].attempts = token, ![j].token = token, ![j].live = TRUE]
        /\ worker' = [worker EXCEPT ![w] = [Idle EXCEPT !.step = "job", !.item = j, !.token = token]]
  /\ UNCHANGED <<accepted, results, outbox, sent, lost>>

\* The lease a heartbeat or a completion stands on; without it the call answers lease-lost.
Leased(w) ==
  LET j == worker[w].item
  IN jobs[j].state = "running" /\ jobs[j].token = worker[w].token /\ jobs[j].live

Complete(w, state) ==
  LET j == worker[w].item
  IN /\ worker[w].step = "job"
     /\ IF Leased(w)
        THEN /\ jobs' = [jobs EXCEPT ![j].state = state, ![j].token = 0, ![j].live = FALSE]
             /\ results' = [results EXCEPT ![j] = @ \cup {worker[w].token}]
        ELSE UNCHANGED <<jobs, results>>
     /\ worker' = [worker EXCEPT ![w] = Idle]
     /\ UNCHANGED <<accepted, outbox, sent, lost>>

\* A heartbeat that comes too late ends the work: a lease once run out is not renewed.
Heartbeat(w) ==
  /\ worker[w].step = "job" /\ ~Leased(w)
  /\ worker' = [worker EXCEPT ![w] = Idle]
  /\ UNCHANGED <<jobs, accepted, results, outbox, sent, lost>>

LapseJob(j) ==
  /\ jobs[j] # None /\ jobs[j].live
  /\ jobs' = [jobs EXCEPT ![j].live = FALSE]
  /\ UNCHANGED <<accepted, results, outbox, sent, lost, worker>>

(***************************************************************************)
(* The outbox                                                              *)
(***************************************************************************)
Write(e) ==
  /\ outbox[e] = None
  /\ outbox' = [outbox EXCEPT ![e] = [state |-> "open", attempts |-> 0, token |-> 0, live |-> FALSE, due |-> TRUE]]
  /\ UNCHANGED <<jobs, accepted, results, sent, lost, worker>>

Claimable(e) ==
  /\ outbox[e] # None /\ outbox[e].state = "open" /\ outbox[e].due
  /\ outbox[e].token = 0 \/ ~outbox[e].live
  /\ outbox[e].attempts < MaxAttempts

\* The first Limit claimable entries, in the order of their ids.
Batch == {e \in Entries : Claimable(e) /\ Cardinality({f \in Entries : Claimable(f) /\ f < e}) < Limit}
InOrder(S) == [n \in 1 .. Cardinality(S) |-> CHOOSE e \in S : Cardinality({f \in S : f <= e}) = n]

GoOn(hold) ==
  IF hold.rest = <<>> THEN Idle
  ELSE [step |-> "dispatch", item |-> Head(hold.rest).item, token |-> Head(hold.rest).token, rest |-> Tail(hold.rest)]

Claim(w) ==
  /\ worker[w].step = "idle" /\ Batch # {}
  /\ outbox' = [e \in Entries |->
                  IF e \in Batch THEN [outbox[e] EXCEPT !.attempts = @ + 1, !.token = outbox[e].attempts + 1, !.live = TRUE]
                  ELSE outbox[e]]
  /\ LET order == InOrder(Batch)
     IN worker' = [worker EXCEPT ![w] =
          GoOn([rest |-> [n \in DOMAIN order |-> [item |-> order[n], token |-> outbox[order[n]].attempts + 1]]])]
  /\ UNCHANGED <<jobs, accepted, results, sent, lost>>

Dispatch(w, arrives) ==
  /\ worker[w].step = "dispatch"
  /\ sent' = IF arrives THEN [sent EXCEPT ![worker[w].item] = @ \cup {worker[w].token}] ELSE sent
  /\ worker' = [worker EXCEPT ![w].step = IF arrives THEN "ack" ELSE "fail"]
  /\ UNCHANGED <<jobs, accepted, results, outbox, lost>>

\* The row is open under this claim's token, whether or not the lease still lasts.
Holds(w) ==
  LET row == outbox[worker[w].item] IN row.state # "dispatched" /\ row.token = worker[w].token

\* An acknowledgement refused, or lost with the database, counts as a failed delivery.
Ack(w, answered) ==
  /\ worker[w].step = "ack"
  /\ IF answered /\ Holds(w)
     THEN /\ outbox' = [outbox EXCEPT ![worker[w].item].state = "dispatched", ![worker[w].item].token = 0,
                                      ![worker[w].item].live = FALSE]
          /\ worker' = [worker EXCEPT ![w] = GoOn(worker[w])]
     ELSE outbox' = outbox /\ worker' = [worker EXCEPT ![w].step = "fail"]
  /\ UNCHANGED <<jobs, accepted, results, sent, lost>>

\* The entry waits for its next attempt, or is dead after the last one.
Fail(w) ==
  LET e == worker[w].item
      spent == outbox[e].attempts >= MaxAttempts
  IN /\ worker[w].step = "fail"
     /\ outbox' = IF ~Holds(w) THEN outbox
                  ELSE [outbox EXCEPT ![e].token = 0, ![e].live = FALSE, ![e].due = FALSE,
                                      ![e].state = IF spent THEN "dead" ELSE @]
     /\ worker' = [worker EXCEPT ![w] = GoOn(worker[w])]
     /\ UNCHANGED <<jobs, accepted, results, sent, lost>>

BackOff(e) ==
  /\ outbox[e] # None /\ outbox[e].state = "open" /\ ~outbox[e].due
  /\ outbox' = [outbox EXCEPT ![e].due = TRUE]
  /\ UNCHANGED <<jobs, accepted, results, sent, lost, worker>>

LapseEntry(e) ==
  /\ outbox[e] # None /\ outbox[e].live
  /\ outbox' = [outbox EXCEPT ![e].live = FALSE]
  /\ UNCHANGED <<jobs, accepted, results, sent, lost, worker>>

(***************************************************************************)
(* A process dies, or a dispatcher's loop ends because fail() itself threw *)
(***************************************************************************)
Held(w) ==
  IF worker[w].step \in {"dispatch", "ack", "fail"}
  THEN {[item |-> worker[w].item, token |-> worker[w].token]} \cup {worker[w].rest[n] : n \in DOMAIN worker[w].rest}
  ELSE {}

Die(w) ==
  /\ worker[w].step # "idle"
  /\ worker' = [worker EXCEPT ![w] = Idle]
  /\ lost' = lost \cup {h.item : h \in {h \in Held(w) : h.token = MaxAttempts}}
  /\ UNCHANGED <<jobs, accepted, results, outbox, sent>>

Next ==
  \/ \E j \in Jobs : LapseJob(j) \/ \E d \in Digests : Enqueue(j, d)
  \/ \E w \in Workers :
       \/ \E j \in Jobs : ClaimJob(w, j)
       \/ \E state \in {"succeeded", "failed"} : Complete(w, state)
       \/ Claim(w) \/ Heartbeat(w) \/ Fail(w) \/ Die(w)
       \/ \E arrives \in BOOLEAN : Dispatch(w, arrives) \/ Ack(w, arrives)
  \/ \E e \in Entries : Write(e) \/ BackOff(e) \/ LapseEntry(e)

Spec == Init /\ [][Next]_vars

----------------------------------------------------------------------------
Attempt == 0 .. MaxAttempts
TypeOK ==
  /\ \A j \in Jobs :
       jobs[j] = None \/ jobs[j] \in [digest : Digests, state : {"pending", "running", "succeeded", "failed"},
                                      attempts : Attempt, token : Attempt, live : BOOLEAN]
  /\ \A e \in Entries :
       outbox[e] = None \/ outbox[e] \in [state : {"open", "dispatched", "dead"}, attempts : Attempt,
                                          token : Attempt, live : BOOLEAN, due : BOOLEAN]
  /\ lost \subseteq Entries

\* Every answer to an enqueueing was about the same input, and a job takes one result:
\* that of the newest claim, however late an older one comes back.
ResultIsOfTheHolder ==
  \A j \in Jobs :
    /\ \A d \in accepted[j] : jobs[j].digest = d
    /\ jobs[j] # None =>
         results[j] = IF jobs[j].state \in {"succeeded", "failed"} THEN {jobs[j].attempts} ELSE {}

\* An entry is put down as dispatched only if it was delivered, and as dead only by the
\* failure of its last attempt; one that can be claimed no more is still being worked
\* on, or its last dispatcher died over it.
NothingIsDropped ==
  \A e \in Entries : outbox[e] # None =>
    /\ outbox[e].state = "dispatched" => outbox[e].attempts \in sent[e]
    /\ outbox[e].state = "dead" => outbox[e].attempts = MaxAttempts
    /\ outbox[e].state = "open" /\ outbox[e].attempts = MaxAttempts
         => e \in lost \/ \E w \in Workers : [item |-> e, token |-> MaxAttempts] \in Held(w)
-----------------------------------------------------------------------------
(* What holds for any jobs, entries, workers and limits.                   *)

JobRow == [digest : Digests, state : {"pending", "running", "succeeded", "failed"},
           attempts : Attempt, token : Attempt, live : BOOLEAN]
EntryRow == [state : {"open", "dispatched", "dead"}, attempts : Attempt, token : Attempt,
             live : BOOLEAN, due : BOOLEAN]
Hold == [item : Entries, token : Nat \ {0}]
Delivering == {"dispatch", "ack", "fail"}
WorkerType == [step : {"idle", "job"} \cup Delivering, item : Jobs \cup Entries \cup {None},
               token : Nat, rest : Seq(Hold)]

\* Entries are numbered, at least one attempt is made, and None is not a row.
QueueBounds ==
  /\ MaxAttempts \in Nat \ {0} /\ Entries \subseteq Nat /\ IsFiniteSet(Entries)
  /\ None \notin JobRow /\ None \notin EntryRow

\* A job is of one input, takes no result before it ends, and then that of its last claim.
JobStands(j) ==
  /\ jobs[j] = None \/ jobs[j] \in JobRow
  /\ jobs[j] = None => accepted[j] = {} /\ results[j] = {}
  /\ jobs[j] # None =>
       /\ jobs[j].state = "running" => jobs[j].token = jobs[j].attempts
       /\ \A d \in accepted[j] : jobs[j].digest = d
       /\ results[j] = IF jobs[j].state \in {"succeeded", "failed"} THEN {jobs[j].attempts} ELSE {}

\* The token of an entry is the last claim's, and only an open entry has one; in its last
\* attempt it is in somebody's hands until its dispatcher dies.
InHands(e) == e \in lost \/ \E w \in Workers : [item |-> e, token |-> MaxAttempts] \in Held(w)
EntryStands(e) ==
  /\ outbox[e] = None \/ outbox[e] \in EntryRow
  /\ outbox[e] # None =>
       /\ outbox[e].token # 0 => outbox[e].token = outbox[e].attempts /\ outbox[e].state = "open"
       /\ outbox[e].state = "dispatched" => outbox[e].attempts \in sent[e]
       /\ outbox[e].state = "dead" => outbox[e].attempts = MaxAttempts
       /\ outbox[e].state = "open" /\ outbox[e].attempts = MaxAttempts =>
            outbox[e].token = MaxAttempts /\ InHands(e)

\* Workers hold rows that exist, and acknowledge what they have delivered.
WorkerStands(w) ==
  /\ worker[w].step = "job" => worker[w].item \in Jobs /\ jobs[worker[w].item] # None
  /\ worker[w].step \in Delivering => worker[w].item \in Entries /\ worker[w].token # 0
  /\ worker[w].step = "ack" => worker[w].token \in sent[worker[w].item]
  /\ \A h \in Held(w) : outbox[h.item] # None

Shapes ==
  /\ jobs = [j \in Jobs |-> jobs[j]] /\ accepted = [j \in Jobs |-> accepted[j]]
  /\ results = [j \in Jobs |-> results[j]] /\ outbox = [e \in Entries |-> outbox[e]]
  /\ sent = [e \in Entries |-> sent[e]] /\ worker \in [Workers -> WorkerType] /\ lost \subseteq Entries

QueueInv ==
  /\ Shapes
  /\ \A j \in Jobs : JobStands(j)
  /\ \A e \in Entries : EntryStands(e)
  /\ \A w \in Workers : WorkerStands(w)

\* At the start there is no row.
LEMMA QueueInit == ASSUME QueueBounds, Init PROVE QueueInv
<1>1. Idle \in WorkerType /\ Idle.step = "idle"
  BY DEF Idle, WorkerType, Delivering
<1>2. Shapes
  BY <1>1 DEF Init, Shapes
<1> QED
  BY <1>1, <1>2 DEF Init, QueueInv, JobStands, EntryStands, WorkerStands, Held, Delivering

\* What a worker has in hand.
HeldBy(x) ==
  IF x.step \in Delivering
  THEN {[item |-> x.item, token |-> x.token]} \cup {x.rest[n] : n \in DOMAIN x.rest}
  ELSE {}

\* It is what the worker holds.
LEMMA HeldIsHeldBy == \A w : Held(w) = HeldBy(worker[w])
BY DEF Held, HeldBy, Delivering

\* A worker that goes on has the rest of its batch in hand.
LEMMA GoesOn ==
  ASSUME NEW hold, hold.rest \in Seq(Hold)
  PROVE  /\ GoOn(hold) \in WorkerType /\ GoOn(hold).step \in {"idle", "dispatch"}
         /\ HeldBy(GoOn(hold)) = {hold.rest[n] : n \in DOMAIN hold.rest}
         /\ GoOn(hold).step = "dispatch" => GoOn(hold).item \in Entries /\ GoOn(hold).token # 0
<1> DEFINE r == hold.rest
<1>1. CASE r = <<>>
  <2>1. GoOn(hold) = Idle
    BY <1>1 DEF GoOn
  <2> QED
    BY <1>1, <2>1 DEF Idle, HeldBy, WorkerType, Delivering
<1>2. CASE r # <<>>
  <2>1. r \in Seq(Hold) /\ Len(r) \in Nat \ {0} /\ DOMAIN r = 1 .. Len(r)
    BY <1>2
  <2>2. Head(r) = r[1] /\ r[1] \in Hold
    BY <1>2, <2>1
  <2>3. PICK x : x = [step |-> "dispatch", item |-> r[1].item, token |-> r[1].token, rest |-> Tail(r)]
    OBVIOUS
  <2>4. GoOn(hold) = x
    BY <1>2, <2>2, <2>3 DEF GoOn
  <2>5. r[1].item \in Entries /\ r[1].token \in Nat \ {0} /\ r[1] = [item |-> r[1].item, token |-> r[1].token]
    BY <2>2 DEF Hold
  <2>6. Tail(r) \in Seq(Hold) /\ Len(Tail(r)) = Len(r) - 1 /\ \A n \in 1 .. Len(r) - 1 : Tail(r)[n] = r[n + 1]
    BY <2>1
  <2>7. /\ x.step = "dispatch" /\ x.item = r[1].item /\ x.token = r[1].token /\ x.rest = Tail(r)
        /\ x \in WorkerType
    BY <2>3, <2>5, <2>6 DEF WorkerType, Delivering
  <2>8. {r[n] : n \in DOMAIN r} = {r[1]} \cup {Tail(r)[n] : n \in 1 .. Len(r) - 1}
    <3>1. \A n \in DOMAIN r : n = 1 \/ (n - 1 \in 1 .. Len(r) - 1 /\ r[n] = Tail(r)[n - 1])
      BY <2>1, <2>6
    <3>2. \A n \in 1 .. Len(r) - 1 : n + 1 \in DOMAIN r
      BY <2>1
    <3> QED
      BY <2>1, <2>6, <3>1, <3>2
  <2>9. HeldBy(x) = {[item |-> x.item, token |-> x.token]} \cup {Tail(r)[n] : n \in 1 .. Len(r) - 1}
    BY <2>6, <2>7 DEF HeldBy, Delivering
  <2> QED
    BY <2>4, <2>5, <2>7, <2>8, <2>9
<1> QED
  BY <1>1, <1>2

\* A batch is taken in order and as a whole.
LEMMA OrderTakesAll ==
  ASSUME QueueBounds, NEW S \in SUBSET Entries
  PROVE  InOrder(S) \in Seq(S) /\ \A e \in S : \E n \in DOMAIN InOrder(S) : InOrder(S)[n] = e
<1> DEFINE rank == [e \in S |-> Cardinality({f \in S : f <= e})]
           Size == Cardinality(S)
<1>1. IsFiniteSet(S) /\ Size \in Nat
  BY FS_Subset, FS_CardinalityType DEF QueueBounds
<1>2. ASSUME NEW e \in S PROVE rank[e] \in 1 .. Size /\ IsFiniteSet({f \in S : f <= e})
  <2>1. {f \in S : f <= e} \in SUBSET S /\ e \in {f \in S : f <= e}
    BY DEF QueueBounds
  <2>2. IsFiniteSet({f \in S : f <= e}) /\ rank[e] <= Size
    BY <1>1, <2>1, FS_Subset
  <2>3. rank[e] \in Nat /\ rank[e] # 0
    BY <2>1, <2>2, FS_CardinalityType, FS_EmptySet
  <2> QED
    BY <1>1, <2>2, <2>3
<1>3. ASSUME NEW e \in S, NEW g \in S, rank[e] = rank[g] PROVE e = g
  <2>1. ASSUME NEW a \in S, NEW b \in S, a < b PROVE rank[a] # rank[b]
    <3>0. S \subseteq Nat
      BY DEF QueueBounds
    <3>a. ~(b <= a) /\ \A f \in S : f <= a => f <= b
      BY <2>1, <3>0
    <3>1. {f \in S : f <= a} \in SUBSET {f \in S : f <= b} /\ b \notin {f \in S : f <= a}
      BY <3>a, Zenon
    <3>2. b \in {f \in S : f <= b}
      BY DEF QueueBounds
    <3>3. IsFiniteSet({f \in S : f <= b}) /\ {f \in S : f <= a} # {f \in S : f <= b}
      BY <1>2, <3>1, <3>2
    <3>4. Cardinality({f \in S : f <= b}) # Cardinality({f \in S : f <= a})
      BY <3>1, <3>3, FS_Subset
    <3> QED
      BY <3>4
  <2> QED
    BY <1>3, <2>1 DEF QueueBounds
<1>4. rank \in Injection(S, 1 .. Size)
  BY <1>2, <1>3 DEF Injection, IsInjective
<1>5. rank \in Surjection(S, 1 .. Size)
  <2>1. IsFiniteSet(1 .. Size) /\ Cardinality(1 .. Size) = Size
    BY <1>1, FS_Interval
  <2>2. Cardinality(S) = Cardinality(1 .. Size)
    BY <2>1
  <2> HIDE DEF Size, rank
  <2> QED
    BY <1>4, <2>1, <2>2, FS_Injection
<1>6. ASSUME NEW n \in 1 .. Size PROVE InOrder(S)[n] \in S /\ rank[InOrder(S)[n]] = n
  <2>1. \E e \in S : Cardinality({f \in S : f <= e}) = n
    BY <1>5 DEF Surjection
  <2> QED
    BY <2>1 DEF InOrder
<1>7. InOrder(S) \in Seq(S) /\ DOMAIN InOrder(S) = 1 .. Size
  <2>1. DOMAIN InOrder(S) = 1 .. Size /\ InOrder(S) = [n \in 1 .. Size |-> InOrder(S)[n]]
    <3>1. \A f : f = [n \in 1 .. Size |-> CHOOSE e \in S : Cardinality({g \in S : g <= e}) = n]
                => DOMAIN f = 1 .. Size /\ f = [n \in 1 .. Size |-> f[n]]
      OBVIOUS
    <3> QED
      BY <3>1 DEF InOrder
  <2> HIDE DEF Size, rank
  <2>2. InOrder(S) \in [1 .. Size -> S]
    BY <1>6, <2>1
  <2> QED
    BY <1>1, <2>1, <2>2
<1>8. \A e \in S : InOrder(S)[rank[e]] = e
  BY <1>2, <1>3, <1>6
<1>9. \A e \in S : rank[e] \in DOMAIN InOrder(S)
  BY <1>2, <1>7
<1> HIDE DEF rank
<1> QED
  BY <1>7, <1>8, <1>9

\* A step that moves worker w alone keeps the others, if nothing of the rows is lost to them.
Moves(w, x) == w \in Workers /\ x \in WorkerType /\ worker' = [worker EXCEPT ![w] = x]

\* What every worker but w relies on stays.
LEMMA OthersStand ==
  ASSUME QueueInv, NEW w \in Workers, NEW x, Moves(w, x),
         \A j \in Jobs : jobs[j] # None => jobs'[j] # None,
         \A e \in Entries : (outbox[e] # None => outbox'[e] # None) /\ sent[e] \subseteq sent'[e],
         x.step = "job" => x.item \in Jobs /\ jobs'[x.item] # None,
         x.step \in Delivering => x.item \in Entries /\ x.token # 0,
         x.step = "ack" => x.token \in sent'[x.item],
         \A h \in HeldBy(x) : outbox'[h.item] # None
  PROVE  \A v \in Workers : WorkerStands(v)'
<1> SUFFICES ASSUME NEW v \in Workers PROVE WorkerStands(v)'
    OBVIOUS
<1>1. worker'[v] = (IF v = w THEN x ELSE worker[v]) /\ worker[v] \in WorkerType
  BY DEF Moves, QueueInv, Shapes
<1>2. CASE v = w
  BY <1>1, <1>2 DEF WorkerStands, Held, HeldBy, Delivering
<1>3. CASE v # w
  <2>1. WorkerStands(v) /\ worker'[v] = worker[v]
    BY <1>1, <1>3 DEF QueueInv
  <2>2. ASSUME NEW h \in Held(v) PROVE h.item \in Entries
    <3>1. worker[v].rest \in Seq(Hold) /\ (worker[v].step \in Delivering => worker[v].item \in Entries)
      BY <1>1, <2>1 DEF WorkerType, WorkerStands
    <3>2. \A n \in DOMAIN worker[v].rest : worker[v].rest[n] \in Hold
      BY <3>1
    <3> QED
      BY <3>1, <3>2 DEF Held, Hold, Delivering
  <2>3. Held(v)' = Held(v)
    BY <2>1 DEF Held
  <2> QED
    BY <2>1, <2>2, <2>3 DEF WorkerStands, Delivering
<1> QED
  BY <1>2, <1>3

\* Entries that stay as they are stand as long as nobody lets go of a last attempt.
LEMMA EntryStays ==
  ASSUME NEW e \in Entries, EntryStands(e), outbox'[e] = outbox[e], sent[e] \subseteq sent'[e],
         InHands(e) /\ outbox[e].token = MaxAttempts => InHands(e)'
  PROVE  EntryStands(e)'
BY DEF EntryStands

\* The queue of jobs: the outbox does not move, and its workers keep what they hold.
LEMMA JobsApart ==
  ASSUME QueueInv, UNCHANGED <<outbox, sent, lost>>, NEW w \in Workers, NEW x, Moves(w, x),
         HeldBy(worker[w]) = {}, HeldBy(x) = {}
  PROVE  \A e \in Entries : EntryStands(e)'
<1> SUFFICES ASSUME NEW e \in Entries PROVE EntryStands(e)'
    OBVIOUS
<1>1. \A v \in Workers : Held(v)' = Held(v)
  <2> SUFFICES ASSUME NEW v \in Workers PROVE Held(v)' = Held(v)
      OBVIOUS
  <2>1. worker'[v] = IF v = w THEN x ELSE worker[v]
    BY DEF Moves, QueueInv, Shapes
  <2> QED
    BY <2>1 DEF Held, HeldBy, Delivering
<1>2. InHands(e) => InHands(e)'
  BY <1>1 DEF InHands
<1> QED
  BY <1>2, EntryStays DEF QueueInv

\* As long as rows of jobs stay, the outbox and its workers are not concerned.
LEMMA OutboxRests ==
  ASSUME QueueInv, UNCHANGED <<outbox, sent, lost, worker>>,
         \A j \in Jobs : jobs[j] # None => jobs'[j] # None
  PROVE  (\A e \in Entries : EntryStands(e)') /\ \A w \in Workers : WorkerStands(w)'
<1>1. \A w : Held(w)' = Held(w)
  BY DEF Held
<1>2. ASSUME NEW e \in Entries PROVE EntryStands(e)'
  BY <1>1, EntryStays DEF QueueInv, InHands
<1>3. ASSUME NEW w \in Workers PROVE WorkerStands(w)'
  BY <1>1 DEF QueueInv, WorkerStands
<1> QED
  BY <1>2, <1>3

\* Only the job at hand changes.
LEMMA JobChanges ==
  ASSUME QueueBounds, QueueInv, NEW j \in Jobs, NEW r \in JobRow, jobs' = [jobs EXCEPT ![j] = r],
         \A k \in Jobs : k # j => accepted'[k] = accepted[k] /\ results'[k] = results[k],
         r.state = "running" => r.token = r.attempts,
         \A d \in accepted'[j] : r.digest = d,
         results'[j] = IF r.state \in {"succeeded", "failed"} THEN {r.attempts} ELSE {}
  PROVE  (\A k \in Jobs : JobStands(k)') /\ \A k \in Jobs : jobs[k] # None => jobs'[k] # None
<1>1. r # None /\ jobs'[j] = r /\ \A k \in Jobs : k # j => jobs'[k] = jobs[k]
  BY DEF QueueBounds, QueueInv, Shapes
<1>2. JobStands(j)'
  BY <1>1 DEF JobStands
<1>3. ASSUME NEW k \in Jobs, k # j PROVE JobStands(k)'
  <2>1. JobStands(k) /\ jobs'[k] = jobs[k] /\ accepted'[k] = accepted[k] /\ results'[k] = results[k]
    BY <1>1, <1>3 DEF QueueInv
  <2> QED
    BY <2>1 DEF JobStands
<1> QED
  BY <1>1, <1>2, <1>3

\* An input is enqueued once; later callers learn of the same job.
LEMMA QueueEnqueue ==
  ASSUME QueueBounds, QueueInv, NEW j \in Jobs, NEW d \in Digests, Enqueue(j, d)
  PROVE  QueueInv'
<1>0. /\ UNCHANGED <<results, outbox, sent, lost, worker>> /\ JobStands(j) /\ SameInput(j, d)
      /\ accepted' = [accepted EXCEPT ![j] = @ \cup {d}]
  BY DEF Enqueue, QueueInv
<1>1. /\ accepted'[j] = accepted[j] \cup {d} /\ \A k \in Jobs : k # j => accepted'[k] = accepted[k]
      /\ accepted' = [k \in Jobs |-> accepted'[k]]
  BY <1>0 DEF QueueInv, Shapes
<1>2. /\ \A k \in Jobs : JobStands(k)' /\ (jobs[k] # None => jobs'[k] # None)
      /\ jobs' = [k \in Jobs |-> jobs'[k]]
  <2>1. CASE jobs[j] # None
    <3>1. jobs' = jobs
      BY <2>1 DEF Enqueue
    <3> QED
      BY <1>0, <1>1, <2>1, <3>1 DEF QueueInv, Shapes, JobStands, SameInput
  <2>2. CASE jobs[j] = None
    <3>1. PICK r : r = [digest |-> d, state |-> "pending", attempts |-> 0, token |-> 0, live |-> FALSE]
      OBVIOUS
    <3>2. r \in JobRow /\ r.state = "pending" /\ r.digest = d
      BY <3>1 DEF JobRow, Attempt, QueueBounds
    <3>3. jobs' = [jobs EXCEPT ![j] = r]
      BY <2>2, <3>1 DEF Enqueue
    <3>4. accepted[j] = {} /\ results[j] = {}
      BY <1>0, <2>2 DEF JobStands
    <3>5. jobs' = [k \in Jobs |-> jobs'[k]]
      BY <3>3 DEF QueueInv, Shapes
    <3>6. \A k \in Jobs : k # j => accepted'[k] = accepted[k] /\ results'[k] = results[k]
      BY <1>0, <1>1
    <3>7. accepted'[j] = {d} /\ results'[j] = {}
      BY <1>0, <1>1, <3>4
    <3>8. /\ r \in JobRow /\ (r.state = "running" => r.token = r.attempts)
          /\ \A c \in accepted'[j] : r.digest = c
          /\ results'[j] = IF r.state \in {"succeeded", "failed"} THEN {r.attempts} ELSE {}
      BY <3>2, <3>7
    <3>9. (\A k \in Jobs : JobStands(k)') /\ \A k \in Jobs : jobs[k] # None => jobs'[k] # None
      BY <3>3, <3>6, <3>8, JobChanges
    <3> QED
      BY <3>5, <3>9
  <2> QED
    BY <2>1, <2>2
<1>3. Shapes'
  BY <1>0, <1>1, <1>2 DEF QueueInv, Shapes
<1>4. (\A e \in Entries : EntryStands(e)') /\ \A w \in Workers : WorkerStands(w)'
  BY <1>0, <1>2, OutboxRests
<1> QED
  BY <1>2, <1>3, <1>4 DEF QueueInv

\* A job's row is written by its worker, or its lease runs out.
LEMMA QueueJobs ==
  ASSUME QueueBounds, QueueInv, NEW j \in Jobs, NEW r \in JobRow, jobs' = [jobs EXCEPT ![j] = r],
         jobs[j] # None, r.digest = jobs[j].digest, r.state = "running" => r.token = r.attempts,
         NEW new, results' = [results EXCEPT ![j] = new],
         new = IF r.state \in {"succeeded", "failed"} THEN {r.attempts} ELSE {},
         UNCHANGED <<accepted, outbox, sent, lost>>,
         NEW w \in Workers, NEW x, Moves(w, x), HeldBy(worker[w]) = {},
         x.step \in {"idle", "job"}, x.step = "job" => x.item \in Jobs /\ jobs[x.item] # None
  PROVE  QueueInv'
<1>1. results'[j] = new /\ \A k \in Jobs : k # j => results'[k] = results[k]
  BY DEF QueueInv, Shapes
<1>2. \A d \in accepted[j] : r.digest = d
  BY DEF QueueInv, JobStands
<1>3. (\A k \in Jobs : JobStands(k)') /\ \A k \in Jobs : jobs[k] # None => jobs'[k] # None
  BY <1>1, <1>2, JobChanges
<1>4. HeldBy(x) = {}
  BY DEF HeldBy, Delivering
<1>5. \A e \in Entries : EntryStands(e)'
  BY <1>4, JobsApart
<1>6. \A v \in Workers : WorkerStands(v)'
  BY <1>3, <1>4, OthersStand DEF Delivering
<1>7. Shapes'
  <2>1. jobs' = [k \in Jobs |-> jobs'[k]] /\ results' = [k \in Jobs |-> results'[k]]
    BY DEF QueueInv, Shapes
  <2>2. worker' \in [Workers -> WorkerType]
    BY DEF QueueInv, Shapes, Moves
  <2> QED
    BY <2>1, <2>2 DEF QueueInv, Shapes
<1> QED
  BY <1>3, <1>5, <1>6, <1>7 DEF QueueInv

\* Claims, results, late results and heartbeats, and leases that run out.
LEMMA QueueJobSteps ==
  ASSUME QueueBounds, QueueInv,
         \/ \E j \in Jobs : LapseJob(j) \/ \E w \in Workers : ClaimJob(w, j)
         \/ \E w \in Workers : Heartbeat(w) \/ \E state \in {"succeeded", "failed"} : Complete(w, state)
  PROVE  QueueInv'
<1>i. Idle \in WorkerType /\ Idle.step = "idle" /\ HeldBy(Idle) = {}
  BY DEF Idle, WorkerType, Delivering, HeldBy
<1>1. ASSUME NEW j \in Jobs, LapseJob(j) PROVE QueueInv'
  <2>1. jobs[j] \in JobRow /\ jobs[j] # None /\ JobStands(j)
    BY <1>1 DEF LapseJob, QueueInv, JobStands
  <2>2. PICK r : r = [jobs[j] EXCEPT !.live = FALSE]
    OBVIOUS
  <2>3. /\ r \in JobRow /\ r.digest = jobs[j].digest /\ r.state = jobs[j].state
        /\ r.token = jobs[j].token /\ r.attempts = jobs[j].attempts
    BY <2>1, <2>2 DEF JobRow
  <2>4. jobs' = [jobs EXCEPT ![j] = r] /\ UNCHANGED <<accepted, results, outbox, sent, lost, worker>>
    BY <1>1, <2>2 DEF LapseJob
  <2>5. (\A k \in Jobs : JobStands(k)') /\ \A k \in Jobs : jobs[k] # None => jobs'[k] # None
    BY <2>1, <2>3, <2>4, JobChanges DEF JobStands
  <2>6. Shapes'
    BY <2>4 DEF QueueInv, Shapes
  <2>7. (\A e \in Entries : EntryStands(e)') /\ \A w \in Workers : WorkerStands(w)'
    BY <2>4, <2>5, OutboxRests
  <2> QED
    BY <2>5, <2>6, <2>7 DEF QueueInv
<1>2. ASSUME NEW j \in Jobs, NEW w \in Workers, ClaimJob(w, j) PROVE QueueInv'
  <2>1. /\ jobs[j] \in JobRow /\ jobs[j] # None /\ JobStands(j) /\ jobs[j].attempts < MaxAttempts
        /\ jobs[j].state \in {"pending", "running"} /\ worker[w].step = "idle"
    BY <1>2 DEF ClaimJob, QueueInv, JobStands
  <2>2. PICK n : n = jobs[j].attempts + 1
    OBVIOUS
  <2>3. n \in Attempt /\ n \in Nat
    BY <2>1, <2>2 DEF JobRow, Attempt, QueueBounds
  <2>4. PICK r : r = [jobs[j] EXCEPT !.state = "running", !.attempts = n, !.token = n, !.live = TRUE]
    OBVIOUS
  <2>5. /\ r \in JobRow /\ r.digest = jobs[j].digest /\ r.state = "running" /\ r.token = n
        /\ r.attempts = n
    BY <2>1, <2>3, <2>4 DEF JobRow
  <2>6. PICK x : x = [Idle EXCEPT !.step = "job", !.item = j, !.token = n]
    OBVIOUS
  <2>7. x.step = "job" /\ x.item = j /\ x \in WorkerType
    <3>1. x = [step |-> "job", item |-> j, token |-> n, rest |-> <<>>]
      BY <2>6 DEF Idle
    <3>2. <<>> \in Seq(Hold)
      OBVIOUS
    <3> QED
      BY <2>3, <3>1, <3>2 DEF WorkerType
  <2>8. jobs' = [jobs EXCEPT ![j] = r] /\ worker' = [worker EXCEPT ![w] = x]
    BY <1>2, <2>2, <2>4, <2>6 DEF ClaimJob
  <2>9. results[j] = {} /\ results' = [results EXCEPT ![j] = {}]
        /\ UNCHANGED <<accepted, outbox, sent, lost>>
    BY <1>2, <2>1 DEF ClaimJob, JobStands, QueueInv, Shapes
  <2>10. HeldBy(worker[w]) = {} /\ Moves(w, x)
    BY <2>1, <2>7, <2>8 DEF HeldBy, Delivering, Moves
  <2> QED
    BY <2>1, <2>5, <2>7, <2>8, <2>9, <2>10, QueueJobs
<1>3. ASSUME NEW w \in Workers, worker[w].step = "job", worker' = [worker EXCEPT ![w] = Idle],
             UNCHANGED <<jobs, accepted, results, outbox, sent, lost>>
      PROVE  QueueInv'
  <2>1. HeldBy(worker[w]) = {} /\ Moves(w, Idle)
    BY <1>3, <1>i DEF HeldBy, Delivering, Moves
  <2>2. \A e \in Entries : EntryStands(e)'
    BY <1>3, <1>i, <2>1, JobsApart
  <2>3. \A v \in Workers : WorkerStands(v)'
    BY <1>3, <1>i, <2>1, OthersStand DEF Delivering
  <2>4. Shapes' /\ \A j \in Jobs : JobStands(j)'
    BY <1>3, <1>i DEF QueueInv, Shapes, JobStands
  <2> QED
    BY <2>2, <2>3, <2>4 DEF QueueInv
<1>4. ASSUME NEW w \in Workers, NEW state \in {"succeeded", "failed"}, Complete(w, state)
      PROVE  QueueInv'
  <2>1. CASE ~Leased(w)
    BY <1>3, <1>4, <2>1 DEF Complete
  <2>2. CASE Leased(w)
    <3>1. PICK j : j = worker[w].item
      OBVIOUS
    <3>2. /\ j \in Jobs /\ jobs[j] # None /\ jobs[j] \in JobRow /\ JobStands(j)
          /\ worker[w].step = "job"
      BY <1>4, <3>1 DEF Complete, QueueInv, WorkerStands, JobStands
    <3>3. jobs[j].state = "running" /\ worker[w].token = jobs[j].attempts /\ results[j] = {}
      BY <2>2, <3>1, <3>2 DEF Leased, JobStands
    <3>4. PICK r : r = [jobs[j] EXCEPT !.state = state, !.token = 0, !.live = FALSE]
      OBVIOUS
    <3>5. /\ r \in JobRow /\ r.digest = jobs[j].digest /\ r.state = state
          /\ r.attempts = jobs[j].attempts
      <4>1. 0 \in Attempt
        BY DEF Attempt, QueueBounds
      <4> QED
        BY <3>2, <3>4, <4>1 DEF JobRow
    <3>6. /\ jobs' = [jobs EXCEPT ![j] = r] /\ worker' = [worker EXCEPT ![w] = Idle]
          /\ results' = [results EXCEPT ![j] = {r.attempts}]
          /\ UNCHANGED <<accepted, outbox, sent, lost>>
      <4>1. /\ jobs' = [jobs EXCEPT ![j].state = state, ![j].token = 0, ![j].live = FALSE]
            /\ results' = [results EXCEPT ![j] = @ \cup {worker[w].token}]
            /\ worker' = [worker EXCEPT ![w] = Idle] /\ UNCHANGED <<accepted, outbox, sent, lost>>
        BY <1>4, <2>2, <3>1 DEF Complete
      <4>2. jobs' = [jobs EXCEPT ![j] = r]
        BY <3>4, <4>1
      <4>3. results[j] \cup {worker[w].token} = {r.attempts}
        BY <3>3, <3>5
      <4> QED
        BY <4>1, <4>2, <4>3
    <3>7. HeldBy(worker[w]) = {} /\ Moves(w, Idle)
      BY <1>i, <3>2, <3>6 DEF HeldBy, Delivering, Moves
    <3> QED
      BY <1>i, <3>2, <3>5, <3>6, <3>7, QueueJobs
  <2> QED
    BY <2>1, <2>2
<1> QED
  BY <1>1, <1>2, <1>3, <1>4 DEF Heartbeat

\* Workers hold entries, under the token of an attempt.
LEMMA HeldItems ==
  ASSUME QueueInv, NEW w \in Workers
  PROVE  \A h \in Held(w) : h \in Hold /\ h.item \in Entries /\ h.token \in Nat \ {0} /\ outbox[h.item] # None
<1>1. /\ worker[w].rest \in Seq(Hold) /\ worker[w].token \in Nat
      /\ worker[w].step \in Delivering => worker[w].item \in Entries /\ worker[w].token # 0
      /\ \A h \in Held(w) : outbox[h.item] # None
  BY DEF QueueInv, Shapes, WorkerType, WorkerStands
<1>2. \A n \in DOMAIN worker[w].rest : worker[w].rest[n] \in Hold
  BY <1>1
<1>3. worker[w].step \in Delivering => [item |-> worker[w].item, token |-> worker[w].token] \in Hold
  BY <1>1 DEF Hold
<1>4. \A h \in Held(w) : h \in Hold
  BY <1>2, <1>3 DEF Held, Delivering
<1> QED
  BY <1>1, <1>4 DEF Hold

\* The outbox: the jobs do not move.
LEMMA OutboxApart ==
  UNCHANGED <<jobs, accepted, results>> => \A j \in Jobs : JobStands(j) => JobStands(j)'
BY DEF JobStands

\* A row of the outbox is replaced, without a worker.
LEMMA EntryChanges ==
  ASSUME QueueBounds, QueueInv, NEW e \in Entries, NEW r \in EntryRow, outbox' = [outbox EXCEPT ![e] = r],
         UNCHANGED <<jobs, accepted, results, sent, lost, worker>>,
         outbox[e] = None \/ (r.state = outbox[e].state /\ r.attempts = outbox[e].attempts
                                /\ r.token = outbox[e].token),
         outbox[e] = None => r.state = "open" /\ r.attempts = 0 /\ r.token = 0
  PROVE  QueueInv'
<1>1. /\ r # None /\ outbox'[e] = r /\ \A f \in Entries : f # e => outbox'[f] = outbox[f]
      /\ outbox' = [f \in Entries |-> outbox'[f]]
  BY DEF QueueBounds, QueueInv, Shapes
<1>2. /\ \A w : Held(w)' = Held(w)
      /\ \A f \in Entries : InHands(f)' <=> InHands(f)
  BY DEF Held, InHands
<1>3. Shapes'
  BY <1>1 DEF QueueInv, Shapes
<1>4. \A j \in Jobs : JobStands(j)'
  BY OutboxApart DEF QueueInv
<1>5. ASSUME NEW f \in Entries PROVE EntryStands(f)'
  <2>1. CASE f # e
    BY <1>1, <1>2, <2>1, EntryStays DEF QueueInv
  <2>2. CASE f = e /\ outbox[e] # None
    BY <1>1, <1>2, <2>2 DEF QueueInv, EntryStands
  <2>3. CASE f = e /\ outbox[e] = None
    BY <1>1, <2>3 DEF EntryStands, QueueBounds
  <2> QED
    BY <2>1, <2>2, <2>3
<1>6. ASSUME NEW w \in Workers PROVE WorkerStands(w)'
  <2>1. WorkerStands(w)
    BY DEF QueueInv
  <2>2. \A f : outbox[f] # None /\ f \in Entries => outbox'[f] # None
    BY <1>1
  <2>3. \A h \in Held(w) : h.item \in Entries
    BY HeldItems DEF QueueInv
  <2> QED
    BY <1>2, <2>1, <2>2, <2>3 DEF WorkerStands
<1> QED
  BY <1>3, <1>4, <1>5, <1>6 DEF QueueInv

\* Entries are written, become due, and their leases run out.
LEMMA QueueEntries ==
  ASSUME QueueBounds, QueueInv, NEW e \in Entries, Write(e) \/ BackOff(e) \/ LapseEntry(e)
  PROVE  QueueInv'
<1>1. CASE Write(e)
  <2>1. PICK r : r = [state |-> "open", attempts |-> 0, token |-> 0, live |-> FALSE, due |-> TRUE]
    OBVIOUS
  <2>2. 0 \in Attempt
    BY DEF Attempt, QueueBounds
  <2>3. r \in EntryRow /\ r.state = "open" /\ r.attempts = 0 /\ r.token = 0
    BY <2>1, <2>2 DEF EntryRow
  <2> QED
    BY <1>1, <2>1, <2>3, EntryChanges DEF Write
<1>2. CASE BackOff(e) \/ LapseEntry(e)
  <2>1. outbox[e] \in EntryRow /\ outbox[e] # None
    BY <1>2 DEF QueueInv, EntryStands, BackOff, LapseEntry
  <2>2. PICK r : /\ outbox' = [outbox EXCEPT ![e] = r]
                 /\ r = [outbox[e] EXCEPT !.due = TRUE] \/ r = [outbox[e] EXCEPT !.live = FALSE]
    BY <1>2 DEF BackOff, LapseEntry
  <2>3. r \in EntryRow /\ r.state = outbox[e].state /\ r.attempts = outbox[e].attempts /\ r.token = outbox[e].token
    BY <2>1, <2>2 DEF EntryRow
  <2> QED
    BY <1>2, <2>1, <2>2, <2>3, EntryChanges DEF BackOff, LapseEntry
<1> QED
  BY <1>1, <1>2

\* A last attempt stays in hands if its worker keeps it, or dies over it.
LEMMA HandsKeep ==
  ASSUME QueueInv, NEW w \in Workers, NEW x, Moves(w, x), lost \subseteq lost', NEW f \in Entries,
         \A h \in Held(w) : h.item = f /\ h.token = MaxAttempts => h \in HeldBy(x) \/ f \in lost',
         InHands(f)
  PROVE  InHands(f)'
<1>1. \A v \in Workers : v # w => Held(v)' = Held(v)
  BY DEF Held, Moves, QueueInv, Shapes
<1>2. Held(w)' = HeldBy(x)
  BY DEF Held, HeldBy, Delivering, Moves, QueueInv, Shapes
<1>3. PICK h : h = [item |-> f, token |-> MaxAttempts]
  OBVIOUS
<1>4. h.item = f /\ h.token = MaxAttempts
  BY <1>3
<1>5. f \in lost \/ \E v \in Workers : h \in Held(v)
  BY <1>3 DEF InHands
<1>6. f \in lost' \/ \E v \in Workers : h \in Held(v)'
  BY <1>1, <1>2, <1>4, <1>5
<1> QED
  BY <1>3, <1>6 DEF InHands

\* A worker at one entry moves on; only this entry and what was sent of it change.
LEMMA DispatchMoves ==
  ASSUME QueueBounds, QueueInv, NEW w \in Workers, worker[w].step \in Delivering,
         NEW e \in Entries, e = worker[w].item,
         NEW x, Moves(w, x), UNCHANGED <<jobs, accepted, results>>,
         outbox' = [f \in Entries |-> outbox'[f]], sent' = [f \in Entries |-> sent'[f]], lost' \subseteq Entries,
         \A f \in Entries : (f # e => outbox'[f] = outbox[f]) /\ sent[f] \subseteq sent'[f],
         lost \subseteq lost', outbox'[e] # None, EntryStands(e)',
         HeldBy(x) \subseteq Held(w),
         \A h \in Held(w) : h \in HeldBy(x) \/ h.item = e \/ h.item \in lost' \/ h.token # MaxAttempts,
         x.step \in {"idle"} \cup Delivering, x.step \in Delivering => x.item \in Entries /\ x.token # 0,
         x.step = "ack" => x.token \in sent'[x.item]
  PROVE  QueueInv'
<1>1. Shapes'
  <2>1. worker' \in [Workers -> WorkerType]
    BY DEF QueueInv, Shapes, Moves
  <2> QED
    BY <2>1 DEF QueueInv, Shapes
<1>2. \A j \in Jobs : JobStands(j)'
  BY OutboxApart DEF QueueInv
<1>3. ASSUME NEW f \in Entries, f # e, InHands(f) PROVE InHands(f)'
  BY <1>3, HandsKeep
<1>4. ASSUME NEW f \in Entries PROVE EntryStands(f)'
  BY <1>3, EntryStays DEF QueueInv
<1>5. \A h \in HeldBy(x) : outbox'[h.item] # None
  BY HeldItems
<1>6. \A f \in Entries : outbox[f] # None => outbox'[f] # None
  OBVIOUS
<1>7. \A v \in Workers : WorkerStands(v)'
  BY <1>5, <1>6, OthersStand DEF Delivering
<1> QED
  BY <1>1, <1>2, <1>4, <1>7 DEF QueueInv

\* What a worker at an entry stands on.
LEMMA AtEntry ==
  ASSUME QueueInv, NEW w \in Workers, worker[w].step \in Delivering
  PROVE  /\ worker[w] \in WorkerType /\ worker[w].item \in Entries /\ worker[w].token \in Nat \ {0}
         /\ outbox[worker[w].item] \in EntryRow /\ outbox[worker[w].item] # None
         /\ EntryStands(worker[w].item) /\ worker[w].rest \in Seq(Hold)
         /\ [item |-> worker[w].item, token |-> worker[w].token] \in Held(w)
         /\ Held(w) = HeldBy(worker[w])
<1>1. [item |-> worker[w].item, token |-> worker[w].token] \in Held(w) /\ Held(w) = HeldBy(worker[w])
  BY HeldIsHeldBy DEF Held, Delivering
<1>2. worker[w] \in WorkerType /\ worker[w].item \in Entries /\ worker[w].token # 0
  BY DEF QueueInv, Shapes, WorkerStands
<1>3. worker[w].token \in Nat /\ worker[w].rest \in Seq(Hold)
  BY <1>2 DEF WorkerType
<1>4. outbox[worker[w].item] # None
  BY <1>1 DEF QueueInv, WorkerStands
<1> QED
  BY <1>1, <1>2, <1>3, <1>4 DEF QueueInv, EntryStands

\* With the row as it is, an entry stands if its last attempt stays in hands.
LEMMA EntryKept ==
  ASSUME QueueInv, NEW w \in Workers, NEW x, Moves(w, x), NEW e \in Entries, outbox'[e] = outbox[e],
         sent[e] \subseteq sent'[e], lost \subseteq lost',
         \A h \in Held(w) : h.item = e /\ h.token = MaxAttempts =>
           h \in HeldBy(x) \/ e \in lost' \/ outbox[e].token # MaxAttempts
  PROVE  EntryStands(e)'
<1>1. InHands(e) /\ outbox[e].token = MaxAttempts => InHands(e)'
  BY HandsKeep
<1> QED
  BY <1>1, EntryStays DEF QueueInv

\* The delivery arrives or not; it is acknowledged only if it has arrived.
LEMMA QueueDispatch ==
  ASSUME QueueBounds, QueueInv, NEW w \in Workers, NEW arrives \in BOOLEAN, Dispatch(w, arrives)
  PROVE  QueueInv'
<1> DEFINE s == IF arrives THEN "ack" ELSE "fail"
<1>1. worker[w].step \in Delivering
  BY DEF Dispatch, Delivering
<1>2. PICK e, x : e = worker[w].item /\ x = [worker[w] EXCEPT !.step = s]
  OBVIOUS
<1>3. /\ x \in WorkerType /\ x.step = s /\ x.item = e /\ x.token = worker[w].token
      /\ x.rest = worker[w].rest
  BY <1>1, <1>2, AtEntry DEF WorkerType, Delivering
<1>4. worker' = [worker EXCEPT ![w] = x] /\ UNCHANGED <<jobs, accepted, results, outbox, lost>>
  BY <1>2 DEF Dispatch
<1>5. HeldBy(x) = Held(w)
  <2>1. x.step \in Delivering
    BY <1>3 DEF Delivering
  <2>2. Held(w) = HeldBy(worker[w])
    BY <1>1, AtEntry
  <2> QED
    BY <1>1, <1>2, <1>3, <2>1, <2>2 DEF HeldBy
<1>6. e \in Entries /\ x.token # 0 /\ outbox[e] # None
  BY <1>1, <1>2, <1>3, AtEntry
<1>7. /\ sent' = [f \in Entries |-> sent'[f]] /\ \A f \in Entries : sent[f] \subseteq sent'[f]
      /\ arrives => x.token \in sent'[e]
  <2>1. sent = [f \in Entries |-> sent[f]]
    BY DEF QueueInv, Shapes
  <2>2. CASE arrives
    <3>1. sent' = [sent EXCEPT ![e] = @ \cup {x.token}]
      BY <1>2, <1>3, <2>2 DEF Dispatch
    <3> QED
      BY <1>6, <2>1, <3>1
  <2>3. CASE ~arrives
    BY <2>1, <2>3 DEF Dispatch
  <2> QED
    BY <2>2, <2>3
<1>8. Moves(w, x)
  BY <1>3, <1>4 DEF Moves
<1>9. EntryStands(e)'
  BY <1>4, <1>5, <1>6, <1>7, <1>8, EntryKept
<1>10. outbox' = [f \in Entries |-> outbox'[f]] /\ lost' \subseteq Entries /\ outbox'[e] # None
  BY <1>4, <1>6 DEF QueueInv, Shapes
<1>11. x.step \in Delivering /\ (x.step = "ack" => x.token \in sent'[x.item])
  BY <1>3, <1>7 DEF Delivering
<1> HIDE DEF s
<1> QED
  BY <1>1, <1>2, <1>3, <1>4, <1>5, <1>6, <1>7, <1>8, <1>9, <1>10, <1>11, DispatchMoves

\* The batch goes on behind an entry that is done with.
LEMMA BatchGoesOn ==
  ASSUME QueueInv, NEW w \in Workers, worker[w].step \in Delivering, worker' = [worker EXCEPT ![w] = GoOn(worker[w])]
  PROVE  \E x : /\ Moves(w, x) /\ HeldBy(x) \subseteq Held(w) /\ x.step \in {"idle", "dispatch"}
                /\ x.step \in Delivering => x.item \in Entries /\ x.token # 0
                /\ \A h \in Held(w) : h \in HeldBy(x) \/ h = [item |-> worker[w].item, token |-> worker[w].token]
<1>1. PICK x : x = GoOn(worker[w])
  OBVIOUS
<1>2. worker[w].rest \in Seq(Hold) /\ Held(w) = HeldBy(worker[w])
  BY AtEntry
<1>3. /\ x \in WorkerType /\ x.step \in {"idle", "dispatch"}
      /\ HeldBy(x) = {worker[w].rest[n] : n \in DOMAIN worker[w].rest}
      /\ x.step = "dispatch" => x.item \in Entries /\ x.token # 0
  BY <1>1, <1>2, GoesOn
<1>4. Held(w) = {[item |-> worker[w].item, token |-> worker[w].token]} \cup HeldBy(x)
  BY <1>3 DEF Held, Delivering
<1>5. Moves(w, x)
  BY <1>1, <1>3 DEF Moves
<1> QED
  BY <1>3, <1>4, <1>5 DEF Delivering

\* A row that holds the token of a worker is in that attempt, and open.
LEMMA HoldsOpen ==
  ASSUME QueueInv, NEW w \in Workers, worker[w].step \in Delivering, Holds(w)
  PROVE  /\ outbox[worker[w].item].state = "open"
         /\ outbox[worker[w].item].attempts = worker[w].token
BY AtEntry DEF Holds, EntryStands

\* An acknowledgement closes the entry, or counts as a failed delivery.
LEMMA QueueAck ==
  ASSUME QueueBounds, QueueInv, NEW w \in Workers, NEW answered \in BOOLEAN, Ack(w, answered)
  PROVE  QueueInv'
<1>1. worker[w].step = "ack" /\ worker[w].step \in Delivering
  BY DEF Ack, Delivering
<1>2. PICK e : e = worker[w].item
  OBVIOUS
<1>3. /\ e \in Entries /\ outbox[e] \in EntryRow /\ outbox[e] # None /\ EntryStands(e)
      /\ UNCHANGED <<jobs, accepted, results, sent, lost>>
      /\ \A f \in Entries : sent[f] \subseteq sent'[f]
  BY <1>1, <1>2, AtEntry DEF Ack
<1>4. CASE answered /\ Holds(w)
  <2>1. PICK r : r = [outbox[e] EXCEPT !.state = "dispatched", !.token = 0, !.live = FALSE]
    OBVIOUS
  <2>2. 0 \in Attempt
    BY DEF Attempt, QueueBounds
  <2>3. r \in EntryRow /\ r.state = "dispatched" /\ r.token = 0 /\ r.attempts = outbox[e].attempts
    BY <1>3, <2>1, <2>2 DEF EntryRow
  <2>4. outbox' = [outbox EXCEPT ![e] = r] /\ worker' = [worker EXCEPT ![w] = GoOn(worker[w])]
    BY <1>2, <1>4, <2>1 DEF Ack
  <2>5. PICK x : /\ Moves(w, x) /\ HeldBy(x) \subseteq Held(w) /\ x.step \in {"idle", "dispatch"}
                 /\ x.step \in Delivering => x.item \in Entries /\ x.token # 0
                 /\ \A h \in Held(w) : h \in HeldBy(x) \/ h = [item |-> worker[w].item, token |-> worker[w].token]
    BY <1>1, <2>4, BatchGoesOn
  <2>6. /\ r # None /\ outbox'[e] = r /\ \A f \in Entries : f # e => outbox'[f] = outbox[f]
        /\ outbox' = [f \in Entries |-> outbox'[f]]
    BY <1>3, <2>3, <2>4 DEF QueueBounds, QueueInv, Shapes
  <2>7. r.attempts \in sent[e]
    BY <1>1, <1>2, <1>4, <2>3, HoldsOpen DEF QueueInv, WorkerStands
  <2>8. EntryStands(e)'
    BY <1>3, <2>3, <2>6, <2>7 DEF EntryStands
  <2>9. \A h \in Held(w) : h \in HeldBy(x) \/ h.item = e
    BY <1>2, <2>5
  <2>10. sent' = [f \in Entries |-> sent'[f]] /\ lost' \subseteq Entries
    BY <1>3 DEF QueueInv, Shapes
  <2>11. x.step \in {"idle"} \cup Delivering /\ x.step # "ack"
    BY <2>5 DEF Delivering
  <2> QED
    BY <1>1, <1>2, <1>3, <2>5, <2>6, <2>8, <2>9, <2>10, <2>11, DispatchMoves
<1>5. CASE ~(answered /\ Holds(w))
  <2>1. PICK x : x = [worker[w] EXCEPT !.step = "fail"]
    OBVIOUS
  <2>2. /\ x \in WorkerType /\ x.step = "fail" /\ x.item = e /\ x.token = worker[w].token
        /\ x.rest = worker[w].rest
    BY <1>1, <1>2, <2>1, AtEntry DEF WorkerType, Delivering
  <2>3. worker' = [worker EXCEPT ![w] = x] /\ outbox' = outbox
    BY <1>5, <2>1 DEF Ack
  <2>4. HeldBy(x) = Held(w)
    BY <1>1, <1>2, <2>2, AtEntry DEF HeldBy, Delivering
  <2>5. Moves(w, x)
    BY <2>2, <2>3 DEF Moves
  <2>6. EntryStands(e)'
    BY <1>3, <2>3, <2>4, <2>5, EntryKept
  <2>7. /\ outbox' = [f \in Entries |-> outbox'[f]] /\ sent' = [f \in Entries |-> sent'[f]]
        /\ lost' \subseteq Entries /\ outbox'[e] # None
    BY <1>3, <2>3 DEF QueueInv, Shapes
  <2>8. x.step \in Delivering /\ x.step # "ack" /\ x.item \in Entries /\ x.token # 0
    BY <1>1, <1>2, <2>2, AtEntry DEF Delivering
  <2> QED
    BY <1>1, <1>2, <1>3, <2>2, <2>3, <2>4, <2>5, <2>6, <2>7, <2>8, DispatchMoves
<1> QED
  BY <1>4, <1>5

\* A failed delivery is retried, or the entry is dead after the last attempt.
LEMMA QueueFail ==
  ASSUME QueueBounds, QueueInv, NEW w \in Workers, Fail(w)
  PROVE  QueueInv'
<1>1. worker[w].step \in Delivering /\ worker' = [worker EXCEPT ![w] = GoOn(worker[w])]
  BY DEF Fail, Delivering
<1>2. PICK e : e = worker[w].item
  OBVIOUS
<1>3. /\ e \in Entries /\ outbox[e] \in EntryRow /\ outbox[e] # None /\ EntryStands(e)
      /\ UNCHANGED <<jobs, accepted, results, sent, lost>>
      /\ \A f \in Entries : sent[f] \subseteq sent'[f]
  BY <1>1, <1>2, AtEntry DEF Fail
<1>4. PICK x : /\ Moves(w, x) /\ HeldBy(x) \subseteq Held(w) /\ x.step \in {"idle", "dispatch"}
               /\ x.step \in Delivering => x.item \in Entries /\ x.token # 0
               /\ \A h \in Held(w) : h \in HeldBy(x) \/ h = [item |-> worker[w].item, token |-> worker[w].token]
  BY <1>1, BatchGoesOn
<1>5. \A h \in Held(w) : h \in HeldBy(x) \/ (h.item = e /\ h.token = worker[w].token)
  BY <1>2, <1>4
<1>6. x.step \in {"idle"} \cup Delivering /\ x.step # "ack"
  BY <1>4 DEF Delivering
<1>7. sent' = [f \in Entries |-> sent'[f]] /\ lost' \subseteq Entries
  BY <1>3 DEF QueueInv, Shapes
<1>8. CASE ~Holds(w)
  <2>1. outbox' = outbox
    BY <1>8 DEF Fail
  <2>2. worker[w].token # outbox[e].token \/ outbox[e].state = "dispatched"
    BY <1>2, <1>8 DEF Holds
  <2>3. outbox[e].state = "dispatched" => outbox[e].token # MaxAttempts
    BY <1>3 DEF EntryStands, QueueBounds
  <2>4. EntryStands(e)'
    BY <1>3, <1>4, <1>5, <2>1, <2>2, <2>3, EntryKept
  <2>5. outbox' = [f \in Entries |-> outbox'[f]]
    BY <2>1 DEF QueueInv, Shapes
  <2> QED
    BY <1>1, <1>2, <1>3, <1>4, <1>5, <1>6, <1>7, <2>1, <2>4, <2>5, DispatchMoves
<1>9. CASE Holds(w)
  <2>1. PICK r, end : /\ end = (IF outbox[e].attempts >= MaxAttempts THEN "dead" ELSE outbox[e].state)
                      /\ r = [outbox[e] EXCEPT !.token = 0, !.live = FALSE, !.due = FALSE, !.state = end]
    OBVIOUS
  <2>2. 0 \in Attempt
    BY DEF Attempt, QueueBounds
  <2>3. /\ outbox[e].state = "open" /\ outbox[e].attempts \in 0 .. MaxAttempts
    BY <1>1, <1>2, <1>3, <1>9, HoldsOpen DEF EntryRow, Attempt
  <2>4. end \in {"open", "dead"} /\ (end = "dead" <=> outbox[e].attempts = MaxAttempts)
    BY <2>1, <2>3 DEF QueueBounds
  <2>5. r \in EntryRow /\ r.state = end /\ r.token = 0 /\ r.attempts = outbox[e].attempts
    BY <1>3, <2>1, <2>2, <2>4 DEF EntryRow
  <2>6. outbox' = [outbox EXCEPT ![e] = r]
    BY <1>2, <1>9, <2>1 DEF Fail
  <2>7. /\ r # None /\ outbox'[e] = r /\ \A f \in Entries : f # e => outbox'[f] = outbox[f]
        /\ outbox' = [f \in Entries |-> outbox'[f]]
    BY <1>3, <2>5, <2>6 DEF QueueBounds, QueueInv, Shapes
  <2>8. EntryStands(e)'
    BY <2>4, <2>5, <2>7 DEF EntryStands
  <2> QED
    BY <1>1, <1>2, <1>3, <1>4, <1>5, <1>6, <1>7, <2>7, <2>8, DispatchMoves
<1> QED
  BY <1>8, <1>9

\* A process dies: the last attempts it had in hand are lost.
LEMMA QueueDie ==
  ASSUME QueueBounds, QueueInv, NEW w \in Workers, Die(w)
  PROVE  QueueInv'
<1>i. Idle \in WorkerType /\ Idle.step = "idle" /\ HeldBy(Idle) = {}
  BY DEF Idle, WorkerType, Delivering, HeldBy
<1>1. /\ worker' = [worker EXCEPT ![w] = Idle] /\ UNCHANGED <<jobs, accepted, results, outbox, sent>>
      /\ lost' = lost \cup {h.item : h \in {h \in Held(w) : h.token = MaxAttempts}}
  BY DEF Die
<1>2. Moves(w, Idle)
  BY <1>i, <1>1 DEF Moves
<1>3. /\ lost \subseteq lost' /\ lost' \subseteq Entries
      /\ \A h \in Held(w) : h.token = MaxAttempts => h.item \in lost'
  BY <1>1, HeldItems DEF QueueInv, Shapes
<1>4. Shapes'
  <2>1. worker' \in [Workers -> WorkerType]
    BY <1>i, <1>1 DEF QueueInv, Shapes
  <2> QED
    BY <1>1, <1>3, <2>1 DEF QueueInv, Shapes
<1>5. \A j \in Jobs : JobStands(j)'
  BY <1>1, OutboxApart DEF QueueInv
<1>6. ASSUME NEW e \in Entries PROVE EntryStands(e)'
  BY <1>1, <1>2, <1>3, EntryKept
<1>7. \A v \in Workers : WorkerStands(v)'
  BY <1>i, <1>1, <1>2, OthersStand DEF Delivering
<1> QED
  BY <1>4, <1>5, <1>6, <1>7 DEF QueueInv
\* A dispatcher claims the first entries that are due, each for its next attempt.
LEMMA QueueClaim ==
  ASSUME QueueBounds, QueueInv, NEW w \in Workers, Claim(w)
  PROVE  QueueInv'
<1>1. PICK S : S = Batch
  OBVIOUS
<1>2. S \in SUBSET Entries /\ S = Batch
  BY <1>1 DEF Batch
<1>3. ASSUME NEW e \in S
      PROVE  /\ e \in Entries /\ outbox[e] \in EntryRow /\ outbox[e] # None /\ EntryStands(e)
             /\ outbox[e].state = "open" /\ outbox[e].attempts \in Nat /\ outbox[e].attempts + 1 \in Attempt
  <2>1. e \in Entries /\ Claimable(e)
    BY <1>2 DEF Batch
  <2>2. outbox[e] \in EntryRow /\ outbox[e] # None /\ EntryStands(e)
    BY <2>1 DEF Claimable, QueueInv, EntryStands
  <2> QED
    BY <2>1, <2>2 DEF Claimable, EntryRow, Attempt, QueueBounds
<1>4. PICK o : o = InOrder(S)
  OBVIOUS
<1>5. o \in Seq(S) /\ \A e \in S : \E n \in DOMAIN o : o[n] = e
  BY <1>2, <1>4, OrderTakesAll
<1>6. PICK f : f = [n \in DOMAIN o |-> [item |-> o[n], token |-> outbox[o[n]].attempts + 1]]
  OBVIOUS
<1>7. f \in Seq(Hold) /\ DOMAIN f = DOMAIN o
  <2>1. DOMAIN o = 1 .. Len(o) /\ Len(o) \in Nat /\ \A n \in DOMAIN o : o[n] \in S
    BY <1>5
  <2>2. \A n \in DOMAIN o : [item |-> o[n], token |-> outbox[o[n]].attempts + 1] \in Hold
    <3> SUFFICES ASSUME NEW n \in DOMAIN o PROVE [item |-> o[n], token |-> outbox[o[n]].attempts + 1] \in Hold
        OBVIOUS
    <3>1. o[n] \in Entries /\ outbox[o[n]].attempts + 1 \in Nat \ {0}
      BY <1>3, <2>1
    <3> QED
      BY <3>1 DEF Hold
  <2>3. f \in [1 .. Len(o) -> Hold]
    BY <1>6, <2>1, <2>2
  <2> QED
    BY <2>1, <2>3
<1>8. PICK hold, x : hold = [rest |-> f] /\ x = GoOn(hold)
  OBVIOUS
<1>9. /\ x \in WorkerType /\ x.step \in {"idle", "dispatch"}
      /\ HeldBy(x) = {f[n] : n \in DOMAIN f}
      /\ x.step = "dispatch" => x.item \in Entries /\ x.token # 0
  BY <1>7, <1>8, GoesOn
<1>10. \A e \in S : [item |-> e, token |-> outbox[e].attempts + 1] \in HeldBy(x)
  BY <1>5, <1>6, <1>7, <1>9
<1>11. \A h \in HeldBy(x) : h.item \in S
  <2>1. \A n \in DOMAIN o : o[n] \in S /\ f[n].item = o[n]
    BY <1>5, <1>6
  <2> QED
    BY <1>7, <1>9, <2>1
<1>12. /\ worker' = [worker EXCEPT ![w] = x] /\ worker[w].step = "idle"
       /\ UNCHANGED <<jobs, accepted, results, sent, lost>>
  BY <1>2, <1>4, <1>6, <1>8 DEF Claim
<1>13. /\ outbox' = [e \in Entries |-> outbox'[e]]
       /\ \A e \in Entries \ S : outbox'[e] = outbox[e]
       /\ \A e \in S : outbox'[e] = [outbox[e] EXCEPT !.attempts = @ + 1, !.token = outbox[e].attempts + 1, !.live = TRUE]
  BY <1>2 DEF Claim
<1>14. ASSUME NEW e \in S
       PROVE  /\ outbox'[e] \in EntryRow /\ outbox'[e] # None /\ outbox'[e].state = "open"
              /\ outbox'[e].attempts = outbox[e].attempts + 1 /\ outbox'[e].token = outbox[e].attempts + 1
  <2>1. PICK r, n : /\ n = outbox[e].attempts + 1
                    /\ r = [outbox[e] EXCEPT !.attempts = n, !.token = n, !.live = TRUE]
    OBVIOUS
  <2>2. outbox'[e] = r
    BY <1>3, <1>13, <2>1 DEF EntryRow
  <2>3. r \in EntryRow /\ r.state = "open" /\ r.attempts = n /\ r.token = n
    BY <1>3, <2>1 DEF EntryRow
  <2> QED
    BY <2>1, <2>2, <2>3 DEF QueueBounds
<1>15. Moves(w, x) /\ Held(w) = {} /\ HeldBy(x) = Held(w)'
  BY <1>9, <1>12 DEF Moves, Held, HeldBy, Delivering, QueueInv, Shapes
<1>16. \A e \in Entries : EntryStands(e)'
  <2>1. ASSUME NEW e \in S PROVE EntryStands(e)'
    <3>1. ASSUME outbox'[e].attempts = MaxAttempts PROVE InHands(e)'
      <4>1. [item |-> e, token |-> MaxAttempts] \in Held(w)'
        BY <1>10, <1>14, <1>15, <3>1
      <4> QED
        BY <4>1 DEF InHands
    <3> QED
      BY <1>14, <3>1 DEF EntryStands
  <2>2. ASSUME NEW e \in Entries \ S PROVE EntryStands(e)'
    BY <1>12, <1>13, <1>15, <2>2, EntryKept
  <2> QED
    BY <2>1, <2>2
<1>17. \A e \in Entries : outbox[e] # None => outbox'[e] # None
  BY <1>13, <1>14
<1>18. \A v \in Workers : WorkerStands(v)'
  <2>1. \A h \in HeldBy(x) : outbox'[h.item] # None
    BY <1>11, <1>14
  <2>2. x.step # "job" /\ x.step # "ack" /\ (x.step \in Delivering => x.item \in Entries /\ x.token # 0)
    BY <1>9 DEF Delivering
  <2> QED
    BY <1>12, <1>15, <1>17, <2>1, <2>2, OthersStand
<1>19. \A j \in Jobs : JobStands(j)'
  BY <1>12, OutboxApart DEF QueueInv
<1>20. Shapes'
  <2>1. worker' \in [Workers -> WorkerType]
    BY <1>9, <1>12 DEF QueueInv, Shapes
  <2> QED
    BY <1>12, <1>13, <2>1 DEF QueueInv, Shapes
<1> QED
  BY <1>16, <1>18, <1>19, <1>20 DEF QueueInv

\* The queues stand through every step.
LEMMA QueueStep == QueueBounds /\ QueueInv /\ [Next]_vars => QueueInv'
<1> SUFFICES ASSUME QueueBounds, QueueInv, [Next]_vars PROVE QueueInv'
    OBVIOUS
<1>1. CASE UNCHANGED vars
  <2>0. UNCHANGED <<jobs, accepted, results, outbox, sent, lost, worker>>
    BY <1>1 DEF vars
  <2>1. (\A e \in Entries : EntryStands(e)') /\ \A w \in Workers : WorkerStands(w)'
    BY <2>0, OutboxRests
  <2>2. Shapes' /\ \A j \in Jobs : JobStands(j)'
    BY <2>0, OutboxApart DEF QueueInv, Shapes
  <2> QED
    BY <2>1, <2>2 DEF QueueInv
<1>2. CASE Next
  <2>1. CASE \/ \E j \in Jobs : LapseJob(j) \/ \E w \in Workers : ClaimJob(w, j)
             \/ \E w \in Workers : Heartbeat(w) \/ \E state \in {"succeeded", "failed"} : Complete(w, state)
    BY <2>1, QueueJobSteps
  <2>2. CASE \E j \in Jobs, d \in Digests : Enqueue(j, d)
    BY <2>2, QueueEnqueue
  <2>3. CASE \E w \in Workers : Claim(w) \/ Fail(w) \/ Die(w)
    BY <2>3, QueueClaim, QueueFail, QueueDie
  <2>4. CASE \E w \in Workers, b \in BOOLEAN : Dispatch(w, b) \/ Ack(w, b)
    BY <2>4, QueueDispatch, QueueAck
  <2>5. CASE \E e \in Entries : Write(e) \/ BackOff(e) \/ LapseEntry(e)
    BY <2>5, QueueEntries
  <2> QED
    BY <1>2, <2>1, <2>2, <2>3, <2>4, <2>5 DEF Next
<1> QED
  BY <1>1, <1>2

\* The queues stand in every state.
THEOREM QueuesStand == ASSUME QueueBounds PROVE Spec => []QueueInv
<1>1. Init => QueueInv
  BY QueueInit
<1>2. QueueInv /\ [Next]_vars => QueueInv'
  BY QueueStep
<1> QED
  BY <1>1, <1>2, PTL DEF Spec

\* A job is of one input, and takes the result of its newest claim and no other, for any
\* number of workers and however their leases run out.
THEOREM JobTakesOneResult == ASSUME QueueBounds PROVE Spec => []ResultIsOfTheHolder
<1>1. QueueInv => ResultIsOfTheHolder
  BY DEF QueueInv, JobStands, ResultIsOfTheHolder
<1> QED
  BY <1>1, QueuesStand, PTL

\* No entry is put down as dispatched that was not delivered, nor as dead before its last
\* attempt has failed; none is let go in between but by a dispatcher's death.
THEOREM NothingIsLetGo == ASSUME QueueBounds PROVE Spec => []NothingIsDropped
<1>1. QueueInv => NothingIsDropped
  BY DEF QueueInv, EntryStands, InHands, NothingIsDropped
<1> QED
  BY <1>1, QueuesStand, PTL

\* Jobs, entries and the queue keep their types, for any number of each.
THEOREM RowsHaveTypes == ASSUME QueueBounds PROVE Spec => []TypeOK
<1>1. QueueInv => TypeOK
  BY DEF QueueInv, Shapes, JobStands, EntryStands, JobRow, EntryRow, TypeOK
<1> QED
  BY <1>1, QueuesStand, PTL
==============================================================================
