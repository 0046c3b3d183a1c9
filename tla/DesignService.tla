--------------------------- MODULE DesignService ---------------------------
(***************************************************************************)
(* The design side of the Builder service as a whole: users over HTTP,     *)
(* agent workers and simulation workers on the tables of one draft.        *)
(***************************************************************************)
EXTENDS SimulationJobs, TLAPS

vars == <<draft, ready, turn, stream, conversation, doer, done,
          artifacts, job, evidence, runner>>

Init == TurnInit /\ JobInit

\* What the agent asks for within its turn is refused without the lease.
InTurn == \E w \in Doers : doer[w] # None /\ Authorized(doer[w])
ByUser == Once /\ UNCHANGED <<draft, ready, turn, stream, conversation, doer>>

Users ==
  \/ ((Accept /\ Room) \/ AppendUserMessage \/ \E t \in Turns : CancelTurn(t)) /\ UNCHANGED jobVars
  \/ UserChange /\ CancelPending
  \/ ByUser /\ (Compile \/ Start \/ \E j \in Jobs : CancelJob(j))

Worker(w) ==
  \/ \E t \in Turns : (ClaimTurn(w, t) \/ GiveUpTurn(w, t)) /\ UNCHANGED jobVars
  \/ (AppendEvent(w) \/ FinishTurn(w) \/ LeaveTurn(w)) /\ UNCHANGED jobVars
  \/ AgentChange(w) /\ CancelPending
AgentPrepares == InTurn /\ UNCHANGED turnVars /\ (Compile \/ Start)

Runner(v) ==
  /\ UNCHANGED turnVars
  /\ \/ \E j \in Jobs : ClaimJob(v, j) \/ RetireJob(v, j)
     \/ FinishJob(v) \/ FailJob(v) \/ DropStaleJob(v) \/ LeaveJob(v)

Clock ==
  \/ StrategyExpires /\ UNCHANGED jobVars
  \/ \E t \in Turns : TurnLeaseRunsOut(t) /\ UNCHANGED jobVars
  \/ \E j \in Jobs : JobLeaseRunsOut(j) /\ UNCHANGED turnVars

Next ==
  \/ Users
  \/ \E w \in Doers : Worker(w)
  \/ AgentPrepares
  \/ \E v \in Runners : Runner(v)
  \/ Clock

Spec == Init /\ [][Next]_vars
-----------------------------------------------------------------------------
(* The worker processes poll for work, a run ends within its time limit    *)
(* (180 s and 320 s), a process that lost its lease stops, and a lease     *)
(* that nobody renews runs out.  Nothing is assumed of users, and nothing  *)
(* keeps a worker from dying in every attempt.  Since every one of these   *)
(* steps uses up an attempt or a claim, it is enough that some of them is  *)
(* taken while any can be.                                                 *)
ClaimsWork(w) == \E t \in Turns : (ClaimTurn(w, t) \/ GiveUpTurn(w, t)) /\ UNCHANGED jobVars
EndsTurn(w) == FinishTurn(w) /\ UNCHANGED jobVars
StopsUnauthorized(w) ==
  doer[w] # None /\ ~Authorized(doer[w]) /\ LeaveTurn(w) /\ UNCHANGED jobVars
ClaimsJob(v) == UNCHANGED turnVars /\ \E j \in Jobs : ClaimJob(v, j) \/ RetireJob(v, j)
EndsJob(v) == UNCHANGED turnVars /\ (FinishJob(v) \/ FailJob(v) \/ DropStaleJob(v))
StopsUnleased(v) ==
  runner[v] # None /\ ~Leased(runner[v]) /\ LeaveJob(v) /\ UNCHANGED turnVars
Abandoned(t) ==
  /\ t \notin {doer[w].turn : w \in {x \in Doers : doer[x] # None}}
  /\ TurnLeaseRunsOut(t) /\ UNCHANGED jobVars
AbandonedJob(j) ==
  /\ j \notin {runner[v].job : v \in {x \in Runners : runner[x] # None}}
  /\ JobLeaseRunsOut(j) /\ UNCHANGED turnVars

Progress ==
  \/ \E w \in Doers : ClaimsWork(w) \/ EndsTurn(w) \/ StopsUnauthorized(w)
  \/ \E v \in Runners : ClaimsJob(v) \/ EndsJob(v) \/ StopsUnleased(v)
  \/ \E t \in Turns : Abandoned(t)
  \/ \E j \in Jobs : AbandonedJob(j)

FairSpec == Spec /\ WF_vars(Progress)

TypeOK == TurnTypeOK /\ JobTypeOK

\* Work under way, and work that waits, is of the draft as it stands, and a turn's own.
WorkIsCurrent == TypeOK /\ AuthorityIsCurrent /\ OwnRevisions /\ WaitingIsCurrent

\* What a user reads, in the stream of a turn and in the conversation, is in order.
TranscriptIsOrderly == StreamIsOrderly /\ RepliesInTurn

\* No simulation is ever recorded as passed or failed for a draft that had moved on by then, and
\* none by a process that had lost the job: the row still carries the claim of whoever
\* writes (simulations.ts: job, finish). What is recorded stays the outcome of its job.
EvidenceIsFresh ==
  [][/\ EvidenceHasItsJob'
     /\ \A j \in Jobs : evidence'[j] # evidence[j] =>
          /\ evidence[j] = None /\ Current(job[j].generation)
          /\ \E v \in Runners : /\ runner[v] = [job |-> j, attempt |-> job[j].attempts]
                                /\ runner'[v] = None]_vars

\* Whatever workers die and however leases run out, the turns and simulations that users ask
\* for come to an end: the attempts are bounded and stale work is cancelled.
WorkConcludes == []<>(ActiveTurns = {} /\ ActiveJobs = {})
-----------------------------------------------------------------------------
(* What holds for any turns, simulations, workers and bounds.  Every step  *)
(* is one of three: of the turns alone, of the draft (which cancels what   *)
(* waits), or of the simulations alone.                                    *)

TurnAction ==
  \/ Accept \/ AppendUserMessage \/ StrategyExpires
  \/ \E t \in Turns : CancelTurn(t) \/ TurnLeaseRunsOut(t)
  \/ \E w \in Doers : \/ \E t \in Turns : ClaimTurn(w, t) \/ GiveUpTurn(w, t)
                      \/ AppendEvent(w) \/ FinishTurn(w) \/ LeaveTurn(w)
DraftAction == UserChange \/ \E w \in Doers : AgentChange(w)
JobAction ==
  \/ Compile \/ Start
  \/ \E j \in Jobs : CancelJob(j) \/ JobLeaseRunsOut(j)
  \/ \E v \in Runners : \/ \E j \in Jobs : ClaimJob(v, j) \/ RetireJob(v, j)
                        \/ FinishJob(v) \/ FailJob(v) \/ DropStaleJob(v) \/ LeaveJob(v)

\* Every step is of the turns, of the draft or of the simulations alone.
LEMMA Sides ==
  ASSUME Next
  PROVE  \/ TurnAction /\ UNCHANGED jobVars
         \/ DraftAction /\ CancelPending
         \/ /\ JobAction /\ UNCHANGED <<draft, ready, turn, stream, conversation, doer>>
            /\ done' = done \/ Once
<1>1. CASE Users
  BY <1>1, Zenon DEF Users, ByUser, TurnAction, DraftAction, JobAction
<1>2. ASSUME NEW w \in Doers, Worker(w)
      PROVE  (TurnAction /\ UNCHANGED jobVars) \/ (DraftAction /\ CancelPending)
  BY <1>2, Zenon DEF Worker, TurnAction, DraftAction
<1>3. CASE AgentPrepares
  BY <1>3, Zenon DEF AgentPrepares, JobAction, turnVars
<1>4. ASSUME NEW v \in Runners, Runner(v)
      PROVE  JobAction /\ UNCHANGED <<draft, ready, turn, stream, conversation, doer>> /\ done' = done
  <2>1. JobAction
    BY <1>4, Zenon DEF Runner, JobAction
  <2> QED
    BY <1>4, <2>1 DEF Runner, turnVars
<1>5. CASE Clock
  BY <1>5, Zenon DEF Clock, TurnAction, JobAction, turnVars
<1> QED
  BY <1>1, <1>2, <1>3, <1>4, <1>5, Zenon DEF Next

\* A claim's token is the number of the attempt it opens.
LEMMA FreshIsOne ==
  ASSUME NEW S, S # {}
  PROVE  Fresh(S) \in S
BY DEF Fresh

\* The holder of a claim, and the turn or the job it is of.
LEMMA DoerType ==
  ASSUME TurnTypeOK, NEW w \in Doers, doer[w] # None
  PROVE  /\ doer[w] \in Claim /\ doer[w].turn \in Turns /\ doer[w].attempt \in 1 .. MaxAttempts
         /\ turn[doer[w].turn] \in Row
<1>1. doer[w] \in Claim
  BY DEF TurnTypeOK
<1>2. doer[w].turn \in Turns /\ doer[w].attempt \in 1 .. MaxAttempts
  BY <1>1 DEF Claim
<1> QED
  BY <1>1, <1>2 DEF TurnTypeOK

\* The holder of a claim of a simulation, and that simulation.
LEMMA RunnerType ==
  ASSUME JobTypeOK, NEW v \in Runners, runner[v] # None
  PROVE  /\ runner[v] \in JobClaim /\ runner[v].job \in Jobs
         /\ runner[v].attempt \in 1 .. MaxAttempts
         /\ runner[v] = [job |-> runner[v].job, attempt |-> runner[v].attempt]
         /\ job[runner[v].job] \in JobRow
<1>1. runner[v] \in JobClaim
  BY DEF JobTypeOK
<1>2. /\ runner[v].job \in Jobs /\ runner[v].attempt \in 1 .. MaxAttempts
      /\ runner[v] = [job |-> runner[v].job, attempt |-> runner[v].attempt]
  BY <1>1 DEF JobClaim
<1> QED
  BY <1>1, <1>2 DEF JobTypeOK
-----------------------------------------------------------------------------
(* The stream of a turn, by itself.                                        *)

Closing == {"completed", "failed", "cancelled", "superseded"}
Orderly(s, ended, n) ==
  /\ \A i \in 1 .. Len(s) :
       /\ s[i].kind \in Closing <=> i = Len(s) /\ ended
       /\ s[i].kind = "started" => s[i].attempt = (IF i = 1 THEN 1 ELSE s[i-1].attempt + 1)
       /\ s[i].kind # "started" => s[i].attempt = (IF i = 1 THEN 0 ELSE s[i-1].attempt)
  /\ n = IF s = <<>> THEN 0 ELSE s[Len(s)].attempt

\* What a turn did in a step: nothing to be read, or one event.
Says(t, e) ==
  /\ turn[t].state \notin Concluded
  /\ stream'[t] = Append(stream[t], e) /\ turn'[t].attempts = e.attempt
  /\ e.kind \in Closing <=> turn'[t].state \in Concluded
  /\ e.attempt = IF e.kind = "started" THEN turn[t].attempts + 1 ELSE turn[t].attempts
Silent(t) ==
  /\ stream'[t] = stream[t] /\ turn'[t].attempts = turn[t].attempts
  /\ turn'[t].state \in Concluded <=> turn[t].state \in Concluded

StreamsOrderly == \A t \in Turns : Orderly(stream[t], turn[t].state \in Concluded, turn[t].attempts)

\* One more event of the attempt at hand, the first of the next one, or the conclusion.
LEMMA OrderlyAppend ==
  ASSUME NEW s \in Seq(Event), NEW n \in Nat, Orderly(s, FALSE, n),
         NEW e \in Event, NEW ended \in BOOLEAN, e.kind \in Closing <=> ended,
         e.attempt = IF e.kind = "started" THEN n + 1 ELSE n
  PROVE  Orderly(Append(s, e), ended, e.attempt)
<1> DEFINE p == Append(s, e)
<1>1. p \in Seq(Event) /\ Len(p) = Len(s) + 1 /\ p[Len(s) + 1] = e /\ Len(s) \in Nat
      /\ \A i \in 1 .. Len(s) : p[i] = s[i]
  OBVIOUS
<1> HIDE DEF p
<1>2. p # <<>> /\ p[Len(p)].attempt = e.attempt
  BY <1>1
<1>3. ASSUME NEW i \in 1 .. Len(p)
      PROVE  /\ p[i].kind \in Closing <=> i = Len(p) /\ ended
             /\ p[i].kind = "started" => p[i].attempt = (IF i = 1 THEN 1 ELSE p[i-1].attempt + 1)
             /\ p[i].kind # "started" => p[i].attempt = (IF i = 1 THEN 0 ELSE p[i-1].attempt)
  <2>1. CASE i \in 1 .. Len(s)
    <3>1. p[i] = s[i] /\ i # Len(p) /\ (i # 1 => p[i-1] = s[i-1])
      BY <1>1, <2>1
    <3> QED
      BY <2>1, <3>1 DEF Orderly
  <2>2. CASE i = Len(s) + 1
    <3>1. p[i] = e /\ i = Len(p) /\ (i # 1 => p[i-1] = s[Len(s)])
      BY <1>1, <2>2
    <3>2. n = IF i = 1 THEN 0 ELSE s[Len(s)].attempt
      BY <1>1, <2>2 DEF Orderly
    <3> QED
      BY <3>1, <3>2
  <2> QED
    BY <1>1, <2>1, <2>2
<1>4. Orderly(p, ended, e.attempt)
  BY <1>2, <1>3 DEF Orderly
<1> QED
  BY <1>4 DEF p

\* Events end up in the stream of a turn that is under way, one at a time.
LEMMA TurnsSpeak ==
  ASSUME TurnTypeOK, TurnAction \/ DraftAction, NEW t \in Turns
  PROVE  Silent(t) \/ \E e \in Event : Says(t, e)
<1> USE TurnBounds
<1> DEFINE Goes == Silent(t) \/ \E e \in Event : Says(t, e)
<1>0. /\ turn \in [Turns -> Row] /\ stream \in [Turns -> Seq(Event)] /\ turn[t] \in Row
      /\ turn[t].attempts \in 0 .. MaxAttempts
  BY DEF TurnTypeOK, Row
<1>e. ASSUME NEW n \in 0 .. MaxAttempts, NEW k \in Closing \cup {"started", "output"}
      PROVE  [attempt |-> n, kind |-> k] \in Event
  BY <1>e DEF Event, Closing
<1>k. UNCHANGED <<turn, stream>> => Goes
  BY DEF Silent
<1>c. ASSUME NEW u \in Turns, NEW s \in Concluded, NEW k \in Closing,
             turn[u].state \in Active, Conclude(u, s, k)
      PROVE  Goes
  <2>1. CASE u = t
    <3> DEFINE e == [attempt |-> turn[t].attempts, kind |-> k]
    <3>1. e \in Event /\ e.kind \in Closing /\ e.kind # "started" /\ e.attempt = turn[t].attempts
      BY <1>0, <1>e, <1>c DEF Closing
    <3>2. /\ stream'[t] = Append(stream[t], e)
          /\ turn'[t].attempts = turn[t].attempts /\ turn'[t].state = s
      BY <1>0, <1>c, <2>1 DEF Conclude, Note, Row
    <3>3. Says(t, e)
      BY <1>c, <2>1, <3>1, <3>2 DEF Says, Active, Concluded
    <3> QED
      BY <3>1, <3>3
  <2>2. CASE u # t
    BY <1>0, <1>c, <2>2 DEF Conclude, Silent
  <2> QED
    BY <2>1, <2>2
<1>s. ASSUME Supersede PROVE Goes
  <2>1. CASE turn[t].state \in Active
    <3> DEFINE e == [attempt |-> turn[t].attempts, kind |-> "superseded"]
    <3>1. e \in Event /\ e.kind \in Closing /\ e.kind # "started" /\ e.attempt = turn[t].attempts
      BY <1>0, <1>e DEF Closing
    <3>2. /\ stream'[t] = Append(stream[t], e)
          /\ turn'[t].attempts = turn[t].attempts /\ turn'[t].state = "superseded"
      BY <1>0, <1>s, <2>1 DEF Supersede, Interrupted, Note, Row
    <3>3. Says(t, e)
      BY <2>1, <3>1, <3>2 DEF Says, Active, Concluded
    <3> QED
      BY <3>1, <3>3
  <2>2. CASE turn[t].state \notin Active
    BY <1>0, <1>s, <2>2 DEF Supersede, Interrupted, Silent
  <2> QED
    BY <2>1, <2>2
<1>1. CASE Accept
  <2>1. Fresh(Unasked) \in Unasked
    BY <1>1, FreshIsOne DEF Accept
  <2>2. /\ stream' = stream /\ turn'[t].attempts = turn[t].attempts
        /\ \/ turn'[t].state = turn[t].state
           \/ turn[t].state = "unasked" /\ turn'[t].state = "queued"
    BY <1>0, <1>1, <2>1 DEF Accept, Unasked, Row
  <2> QED
    BY <2>2 DEF Silent, Concluded
<1>2. CASE AppendUserMessage \/ UserChange
  BY <1>2, <1>s DEF AppendUserMessage, Interruption, UserChange, Takeover
<1>3. CASE StrategyExpires
  BY <1>3, <1>k DEF StrategyExpires
<1>4. ASSUME NEW u \in Turns, CancelTurn(u) PROVE Goes
  BY <1>4, <1>c DEF CancelTurn, Concluded, Closing
<1>5. ASSUME NEW u \in Turns, TurnLeaseRunsOut(u) PROVE Goes
  <2>1. stream' = stream /\ turn'[t].attempts = turn[t].attempts /\ turn'[t].state = turn[t].state
    BY <1>0, <1>5 DEF TurnLeaseRunsOut, Row
  <2> QED
    BY <2>1 DEF Silent
<1>6. ASSUME NEW w \in Doers, NEW u \in Turns, ClaimTurn(w, u) PROVE Goes
  <2>1. CASE u = t
    <3> DEFINE e == [attempt |-> turn[t].attempts + 1, kind |-> "started"]
    <3>1. turn[t].attempts + 1 \in 0 .. MaxAttempts /\ turn[t].state \in Active
      BY <1>0, <1>6, <2>1 DEF ClaimTurn, MayTry, Claimable, Active
    <3>2. e \in Event /\ e.kind = "started" /\ e.kind \notin Closing /\ e.attempt = turn[t].attempts + 1
      BY <1>e, <3>1 DEF Closing
    <3>3. /\ stream'[t] = Append(stream[t], e)
          /\ turn'[t].attempts = turn[t].attempts + 1 /\ turn'[t].state = "running"
      BY <1>0, <1>6, <2>1 DEF ClaimTurn, Note, Row
    <3>4. Says(t, e)
      BY <3>1, <3>2, <3>3 DEF Says, Active, Concluded
    <3> QED
      BY <3>2, <3>4
  <2>2. CASE u # t
    BY <1>0, <1>6, <2>2 DEF ClaimTurn, Silent
  <2> QED
    BY <2>1, <2>2
<1>7. ASSUME NEW w \in Doers, NEW u \in Turns, GiveUpTurn(w, u) PROVE Goes
  BY <1>7, <1>c DEF GiveUpTurn, Claimable, Active, Concluded, Closing
<1>8. ASSUME NEW w \in Doers, AppendEvent(w) PROVE Goes
  <2>1. /\ doer[w].turn \in Turns /\ doer[w].attempt \in 1 .. MaxAttempts
        /\ turn[doer[w].turn].state = "running" /\ turn[doer[w].turn].attempts = doer[w].attempt
    BY <1>8, DoerType DEF AppendEvent, Authorized
  <2>2. turn' = turn /\ stream' = [stream EXCEPT ![doer[w].turn] = Note(doer[w].turn, doer[w].attempt, "output")]
    BY <1>8, Zenon DEF AppendEvent
  <2>3. CASE doer[w].turn = t
    <3> DEFINE e == [attempt |-> turn[t].attempts, kind |-> "output"]
    <3>1. e \in Event /\ e.kind \notin Closing /\ e.kind # "started" /\ e.attempt = turn[t].attempts
      BY <1>0, <1>e DEF Closing
    <3>2. stream'[t] = Append(stream[t], e)
      BY <1>0, <2>1, <2>2, <2>3 DEF Note
    <3>3. Says(t, e)
      BY <2>1, <2>2, <2>3, <3>1, <3>2 DEF Says, Concluded
    <3> QED
      BY <3>1, <3>3
  <2>4. CASE doer[w].turn # t
    BY <1>0, <2>2, <2>4 DEF Silent
  <2> QED
    BY <2>3, <2>4
<1>9. ASSUME NEW w \in Doers, FinishTurn(w) PROVE Goes
  <2>1. doer[w].turn \in Turns /\ turn[doer[w].turn].state \in Active
    BY <1>9, DoerType DEF FinishTurn, Authorized, Active
  <2>2. \/ Conclude(doer[w].turn, "succeeded", "completed")
        \/ Conclude(doer[w].turn, "failed", "failed")
    BY <1>9 DEF FinishTurn
  <2> QED
    BY <1>c, <2>1, <2>2 DEF Concluded, Closing
<1>10. ASSUME NEW w \in Doers, LeaveTurn(w) PROVE Goes
  BY <1>10, <1>k DEF LeaveTurn
<1>11. ASSUME NEW w \in Doers, AgentChange(w) PROVE Goes
  <2>1. doer[w].turn \in Turns
    BY <1>11, DoerType DEF AgentChange
  <2>2. stream' = stream /\ turn'[t].attempts = turn[t].attempts /\ turn'[t].state = turn[t].state
    BY <1>0, <1>11, <2>1 DEF AgentChange, Row
  <2> QED
    BY <2>2 DEF Silent
<1> QED
  BY <1>1, <1>2, <1>3, <1>4, <1>5, <1>6, <1>7, <1>8, <1>9, <1>10, <1>11 DEF TurnAction, DraftAction

\* No step puts an event out of order into a stream.
LEMMA StreamsStayOrderly ==
  ASSUME TurnTypeOK, StreamsOrderly, TurnAction \/ DraftAction
  PROVE  StreamsOrderly'
<1> SUFFICES ASSUME NEW t \in Turns
             PROVE  Orderly(stream'[t], turn'[t].state \in Concluded, turn'[t].attempts)
    BY DEF StreamsOrderly
<1>1. Orderly(stream[t], turn[t].state \in Concluded, turn[t].attempts)
  BY DEF StreamsOrderly
<1>2. stream[t] \in Seq(Event) /\ turn[t].attempts \in Nat
  BY DEF TurnTypeOK, Row
<1>3. CASE Silent(t)
  <2>1. CASE turn[t].state \in Concluded
    BY <1>1, <1>3, <2>1 DEF Silent, Orderly
  <2>2. CASE turn[t].state \notin Concluded
    BY <1>1, <1>3, <2>2 DEF Silent, Orderly
  <2> QED
    BY <2>1, <2>2
<1>4. ASSUME NEW e \in Event, Says(t, e)
      PROVE  Orderly(stream'[t], turn'[t].state \in Concluded, turn'[t].attempts)
  <2>1. Orderly(stream[t], FALSE, turn[t].attempts)
    BY <1>1, <1>4 DEF Says, Orderly
  <2> DEFINE ended == turn'[t].state \in Concluded
  <2>2. ended \in BOOLEAN /\ (e.kind \in Closing <=> ended)
        /\ e.attempt = IF e.kind = "started" THEN turn[t].attempts + 1 ELSE turn[t].attempts
    BY <1>4 DEF Says
  <2> HIDE DEF ended
  <2>3. Orderly(Append(stream[t], e), ended, e.attempt)
    BY <1>2, <2>1, <2>2, OrderlyAppend
  <2> QED
    BY <1>4, <2>3 DEF Says, ended
<1> QED
  BY <1>3, <1>4, TurnsSpeak

\* The strengthened order of a stream says what the run checks of it.
LEMMA OrderlyStreams == StreamsOrderly => StreamIsOrderly
BY DEF StreamsOrderly, Orderly, StreamIsOrderly, Closing
-----------------------------------------------------------------------------
(* The types.                                                              *)

\* The record of a turn as its steps write it.
LEMMA RowEnds ==
  ASSUME NEW r \in Row, NEW s \in TurnState
  PROVE  [r EXCEPT !.state = s, !.live = FALSE] \in Row
BY DEF Row

\* The record of a turn as it is accepted.
LEMMA RowAccepted ==
  ASSUME NEW r \in Row, NEW s \in TurnState, NEW a \in 0 .. MaxRevision
  PROVE  [r EXCEPT !.state = s, !.accepted = a, !.last = a] \in Row
BY DEF Row

\* The rows of the turns, their streams and the conversation keep their types.
LEMMA TurnTypes ==
  ASSUME TurnTypeOK, TurnAction \/ DraftAction
  PROVE  TurnTypeOK'
<1> USE TurnBounds
<1>0. /\ turn \in [Turns -> Row] /\ stream \in [Turns -> Seq(Event)] /\ conversation \in Seq(Message)
      /\ draft \in Seq(Turns \cup {User}) /\ Revision \in 1 .. MaxRevision
      /\ doer \in [Doers -> Claim \cup {None}] /\ ready \in BOOLEAN /\ done \subseteq Requests
      /\ Active \subseteq TurnState /\ Concluded \subseteq TurnState
  BY DEF TurnTypeOK, TurnState
<1>s. stream' \in [Turns -> Seq(Event)]
  <2>1. \A t \in Turns : stream'[t] \in Seq(Event)
    <3> TAKE t \in Turns
    <3>1. CASE Silent(t)
      BY <1>0, <3>1 DEF Silent
    <3>2. ASSUME NEW e \in Event, Says(t, e) PROVE stream'[t] \in Seq(Event)
      BY <1>0, <3>2 DEF Says
    <3> QED
      BY <3>1, <3>2, TurnsSpeak
  <2>2. stream' = [t \in Turns |-> stream'[t]]
    BY <1>0 DEF TurnAction, DraftAction, Accept, AppendUserMessage, Interruption, Supersede,
      StrategyExpires, CancelTurn, Conclude, TurnLeaseRunsOut, ClaimTurn, GiveUpTurn, FinishTurn,
      LeaveTurn, AppendEvent, UserChange, Takeover, AgentChange
  <2> QED
    BY <2>1, <2>2
<1>t. turn' \in [Turns -> Row]
  <2>c. ASSUME NEW u \in Turns, NEW s \in TurnState, NEW k, Conclude(u, s, k)
        PROVE  turn' \in [Turns -> Row]
    <3>1. [turn[u] EXCEPT !.state = s, !.live = FALSE] \in Row
      BY <1>0, RowEnds
    <3>2. turn' = [turn EXCEPT ![u] = [turn[u] EXCEPT !.state = s, !.live = FALSE]]
      BY <1>0, <2>c DEF Conclude
    <3> QED
      BY <1>0, <3>1, <3>2
  <2>s. Supersede => turn' \in [Turns -> Row]
    <3> SUFFICES ASSUME Supersede PROVE turn' \in [Turns -> Row]
        OBVIOUS
    <3>1. \A t \in Turns : [turn[t] EXCEPT !.state = "superseded", !.live = FALSE] \in Row
      BY <1>0, RowEnds DEF Concluded
    <3> QED
      BY <1>0, <3>1 DEF Supersede
  <2>1. CASE Accept
    <3>1. Fresh(Unasked) \in Turns
      BY <2>1, FreshIsOne DEF Accept, Unasked
    <3>2. [turn[Fresh(Unasked)] EXCEPT !.state = "queued", !.accepted = Revision, !.last = Revision] \in Row
      <4>1. Revision \in 0 .. MaxRevision /\ turn[Fresh(Unasked)] \in Row /\ "queued" \in TurnState
        BY <1>0, <3>1 DEF Active
      <4> QED
        BY <4>1, RowAccepted
    <3> QED
      BY <1>0, <2>1, <3>1, <3>2 DEF Accept
  <2>2. CASE AppendUserMessage \/ UserChange
    BY <2>2, <2>s DEF AppendUserMessage, Interruption, UserChange, Takeover
  <2>3. CASE StrategyExpires
    BY <1>0, <2>3 DEF StrategyExpires
  <2>4. ASSUME NEW u \in Turns, CancelTurn(u) PROVE turn' \in [Turns -> Row]
    BY <2>4, <2>c DEF CancelTurn, TurnState, Concluded
  <2>5. ASSUME NEW u \in Turns, TurnLeaseRunsOut(u) PROVE turn' \in [Turns -> Row]
    <3>1. [turn[u] EXCEPT !.live = FALSE] \in Row
      BY <1>0 DEF Row
    <3> QED
      BY <1>0, <2>5, <3>1 DEF TurnLeaseRunsOut
  <2>6. ASSUME NEW w \in Doers, NEW u \in Turns, ClaimTurn(w, u) PROVE turn' \in [Turns -> Row]
    <3>1. turn[u].attempts + 1 \in 0 .. MaxAttempts
      BY <1>0, <2>6 DEF ClaimTurn, MayTry, Row
    <3>2. [turn[u] EXCEPT !.state = "running", !.attempts = turn[u].attempts + 1, !.live = TRUE] \in Row
      BY <1>0, <3>1 DEF Row, TurnState, Active
    <3> QED
      BY <1>0, <2>6, <3>2 DEF ClaimTurn
  <2>7. ASSUME NEW w \in Doers, NEW u \in Turns, GiveUpTurn(w, u) PROVE turn' \in [Turns -> Row]
    BY <2>7, <2>c DEF GiveUpTurn, TurnState, Concluded
  <2>8. ASSUME NEW w \in Doers, AppendEvent(w) \/ LeaveTurn(w) PROVE turn' \in [Turns -> Row]
    BY <1>0, <2>8, Zenon DEF AppendEvent, LeaveTurn
  <2>9. ASSUME NEW w \in Doers, FinishTurn(w) PROVE turn' \in [Turns -> Row]
    BY <2>9, <2>c, DoerType DEF FinishTurn, TurnState, Concluded
  <2>10. ASSUME NEW w \in Doers, AgentChange(w) PROVE turn' \in [Turns -> Row]
    <3>1. doer[w].turn \in Turns /\ Revision + 1 \in 0 .. MaxRevision
      BY <1>0, <2>10, DoerType DEF AgentChange
    <3>2. [turn[doer[w].turn] EXCEPT !.last = Revision + 1] \in Row
      BY <1>0, <3>1 DEF Row
    <3> QED
      BY <1>0, <2>10, <3>1, <3>2 DEF AgentChange
  <2> QED
    BY <2>1, <2>2, <2>3, <2>4, <2>5, <2>6, <2>7, <2>8, <2>9, <2>10 DEF TurnAction, DraftAction
<1>d. draft' \in Seq(Turns \cup {User}) /\ Revision' \in 1 .. MaxRevision /\ ready' \in BOOLEAN
  <2>1. CASE UserChange
    <3>1. Len(draft) < MaxRevision /\ draft' = Append(draft, User) /\ ready' \in BOOLEAN
      BY <2>1 DEF UserChange, Revision
    <3> QED
      BY <1>0, <3>1 DEF Revision
  <2>2. ASSUME NEW w \in Doers, AgentChange(w)
        PROVE  draft' \in Seq(Turns \cup {User}) /\ Revision' \in 1 .. MaxRevision /\ ready' \in BOOLEAN
    <3>1. /\ Len(draft) < MaxRevision /\ draft' = Append(draft, doer[w].turn) /\ ready' \in BOOLEAN
          /\ doer[w].turn \in Turns
      BY <2>2, DoerType DEF AgentChange, Revision
    <3> QED
      BY <1>0, <3>1 DEF Revision
  <2>3. CASE TurnAction
    <3>1. draft' = draft /\ ready' \in BOOLEAN
      BY <1>0, <2>3, Zenon DEF TurnAction, Accept, AppendUserMessage, StrategyExpires, CancelTurn, TurnLeaseRunsOut,
        ClaimTurn, GiveUpTurn, AppendEvent, FinishTurn, LeaveTurn
    <3> QED
      BY <1>0, <3>1 DEF Revision
  <2> QED
    BY <2>1, <2>2, <2>3 DEF DraftAction
<1>c. conversation' \in Seq(Message)
  <2>1. \/ conversation' = conversation
        \/ \E t \in Turns \cup {None}, a \in {"user", "assistant"} :
             conversation' = Append(conversation, [role |-> a, turn |-> t])
    <3>1. CASE Accept
      <4>1. Fresh(Unasked) \in Turns
        BY <3>1, FreshIsOne DEF Accept, Unasked
      <4> QED
        BY <3>1, <4>1 DEF Accept
    <3>2. CASE AppendUserMessage
      BY <3>2 DEF AppendUserMessage
    <3>3. ASSUME NEW w \in Doers, FinishTurn(w)
          PROVE  \/ conversation' = conversation
                 \/ \E t \in Turns \cup {None}, a \in {"user", "assistant"} :
                      conversation' = Append(conversation, [role |-> a, turn |-> t])
      BY <3>3, DoerType DEF FinishTurn
    <3>4. conversation' = conversation \/ Accept \/ AppendUserMessage \/ \E w \in Doers : FinishTurn(w)
      BY Zenon DEF TurnAction, DraftAction, StrategyExpires, CancelTurn, TurnLeaseRunsOut, ClaimTurn,
        GiveUpTurn, AppendEvent, LeaveTurn, UserChange, AgentChange
    <3> QED
      BY <3>1, <3>2, <3>3, <3>4
  <2>2. \A t \in Turns \cup {None}, a \in {"user", "assistant"} : [role |-> a, turn |-> t] \in Message
    BY DEF Message
  <2>3. ASSUME NEW m \in Message, conversation' = Append(conversation, m)
        PROVE  conversation' \in Seq(Message)
    BY <1>0, <2>3
  <2> QED
    BY <1>0, <2>1, <2>2, <2>3
<1>w. doer' \in [Doers -> Claim \cup {None}]
  <2>1. ASSUME NEW w \in Doers, NEW u \in Turns, ClaimTurn(w, u)
        PROVE  doer' \in [Doers -> Claim \cup {None}]
    <3>1. turn[u].attempts + 1 \in 1 .. MaxAttempts
      BY <1>0, <2>1 DEF ClaimTurn, MayTry, Row
    <3>2. [turn |-> u, attempt |-> turn[u].attempts + 1] \in Claim
      BY <3>1 DEF Claim
    <3> QED
      BY <1>0, <2>1, <3>2 DEF ClaimTurn
  <2>2. ASSUME NEW w \in Doers, FinishTurn(w) \/ LeaveTurn(w)
        PROVE  doer' \in [Doers -> Claim \cup {None}]
    BY <1>0, <2>2 DEF FinishTurn, LeaveTurn
  <2>3. \/ doer' = doer \/ \E w \in Doers, u \in Turns : ClaimTurn(w, u)
        \/ \E w \in Doers : FinishTurn(w) \/ LeaveTurn(w)
    BY Zenon DEF TurnAction, DraftAction, Accept, AppendUserMessage, StrategyExpires, CancelTurn, TurnLeaseRunsOut,
      GiveUpTurn, AppendEvent, UserChange, AgentChange
  <2> QED
    BY <1>0, <2>1, <2>2, <2>3
<1>q. done' \subseteq Requests
  <2>1. done' = done \/ Once
    BY Zenon DEF TurnAction, DraftAction, Accept, AppendUserMessage, StrategyExpires, CancelTurn, TurnLeaseRunsOut,
      ClaimTurn, GiveUpTurn, AppendEvent, FinishTurn, LeaveTurn, UserChange, AgentChange
  <2>2. Once => done' \subseteq Requests
    BY <1>0, FreshIsOne DEF Once
  <2> QED
    BY <1>0, <2>1, <2>2
<1> QED
  BY <1>s, <1>t, <1>d, <1>c, <1>w, <1>q DEF TurnTypeOK

\* The record of a simulation as it is queued,
LEMMA JobRowWaits ==
  ASSUME NEW r \in JobRow, NEW g \in 0 .. MaxRevision
  PROVE  [r EXCEPT !.state = "pending", !.generation = g] \in JobRow
BY DEF JobRow, JobState

\* as its lease runs out,
LEMMA JobRowLapses ==
  ASSUME NEW r \in JobRow
  PROVE  [r EXCEPT !.live = FALSE] \in JobRow
BY DEF JobRow

\* and as it is claimed.
LEMMA JobRowRuns ==
  ASSUME NEW r \in JobRow, NEW n \in 0 .. MaxAttempts
  PROVE  [r EXCEPT !.state = "running", !.attempts = n, !.live = TRUE] \in JobRow
BY DEF JobRow, JobState

\* The rows, artifacts and evidence of the simulations keep their types.
LEMMA JobTypes ==
  ASSUME TurnTypeOK, JobTypeOK, JobAction
  PROVE  JobTypeOK'
<1> USE TurnBounds
<1>0. /\ job \in [Jobs -> JobRow] /\ artifacts \subseteq 1 .. MaxRevision
      /\ evidence \in [Jobs -> BOOLEAN \cup {None}] /\ runner \in [Runners -> JobClaim \cup {None}]
      /\ Revision \in 1 .. MaxRevision
  BY DEF JobTypeOK, TurnTypeOK
<1>s. \A j \in Jobs, s \in JobState : Stopped(j, s) \in JobRow
  BY <1>0 DEF Stopped, JobRow
<1>1. CASE Compile
  BY <1>0, <1>1 DEF Compile, JobTypeOK
<1>2. CASE Start
  <2>1. CASE UNCHANGED job
    BY <1>0, <1>2, <2>1 DEF Start, JobTypeOK
  <2>2. CASE UnaskedJobs # {} /\ job' # job
    <3>1. Fresh(UnaskedJobs) \in Jobs
      BY <2>2, FreshIsOne DEF UnaskedJobs
    <3>2. [job[Fresh(UnaskedJobs)] EXCEPT !.state = "pending", !.generation = Revision] \in JobRow
      <4>1. Revision \in 0 .. MaxRevision /\ job[Fresh(UnaskedJobs)] \in JobRow
        BY <1>0, <3>1
      <4> QED
        BY <4>1, JobRowWaits
    <3>3. \A i \in Jobs : Stopped(i, "cancelled") \in JobRow
      BY <1>s DEF JobState
    <3>4. job' \in [Jobs -> JobRow]
      BY <1>0, <1>2, <2>2, <3>1, <3>2, <3>3 DEF Start
    <3> QED
      BY <1>0, <1>2, <3>4 DEF Start, JobTypeOK
  <2> QED
    BY <1>2, <2>1, <2>2 DEF Start
<1>3. ASSUME NEW j \in Jobs, CancelJob(j) \/ JobLeaseRunsOut(j) PROVE JobTypeOK'
  <2>1. Stopped(j, "cancelled") \in JobRow /\ [job[j] EXCEPT !.live = FALSE] \in JobRow
    BY <1>0, <1>s, JobRowLapses DEF JobState
  <2> QED
    BY <1>0, <1>3, <2>1 DEF CancelJob, JobLeaseRunsOut, JobTypeOK
<1>4. ASSUME NEW v \in Runners, NEW j \in Jobs, ClaimJob(v, j) PROVE JobTypeOK'
  <2>1. job[j].attempts + 1 \in 1 .. MaxAttempts
    BY <1>0, <1>4 DEF ClaimJob, JobRow
  <2>2. [job[j] EXCEPT !.state = "running", !.attempts = job[j].attempts + 1, !.live = TRUE] \in JobRow
    <3>1. job[j].attempts + 1 \in 0 .. MaxAttempts /\ job[j] \in JobRow
      BY <1>0, <2>1
    <3> QED
      BY <3>1, JobRowRuns
  <2>3. [job |-> j, attempt |-> job[j].attempts + 1] \in JobClaim
    BY <2>1 DEF JobClaim
  <2> QED
    BY <1>0, <1>4, <2>2, <2>3 DEF ClaimJob, JobTypeOK
<1>5. ASSUME NEW v \in Runners, NEW j \in Jobs, RetireJob(v, j) PROVE JobTypeOK'
  <2>1. Stopped(j, "cancelled") \in JobRow /\ Stopped(j, "failed") \in JobRow
    BY <1>s DEF JobState
  <2> QED
    BY <1>0, <1>5, <2>1 DEF RetireJob, JobTypeOK
<1>6. ASSUME NEW v \in Runners, FinishJob(v) \/ FailJob(v) \/ DropStaleJob(v) PROVE JobTypeOK'
  <2> DEFINE j == runner[v].job
  <2>1. j \in Jobs
    BY <1>6, RunnerType DEF FinishJob, FailJob, DropStaleJob
  <2>2. \A s \in {"succeeded", "failed", "cancelled", "pending"} : Stopped(j, s) \in JobRow
    BY <1>s, <2>1 DEF JobState
  <2>3. \E s \in {"succeeded", "failed", "cancelled", "pending"} : job' = [job EXCEPT ![j] = Stopped(j, s)]
    BY <1>6 DEF FinishJob, FailJob, DropStaleJob, Outcome
  <2>4. job' \in [Jobs -> JobRow]
    BY <1>0, <2>1, <2>2, <2>3
  <2>5. evidence' = evidence \/ \E p \in BOOLEAN : evidence' = [evidence EXCEPT ![j] = p]
    BY <1>6 DEF FinishJob, FailJob, DropStaleJob
  <2>6. evidence' \in [Jobs -> BOOLEAN \cup {None}]
    BY <1>0, <2>1, <2>5
  <2>7. artifacts' = artifacts /\ runner' = [runner EXCEPT ![v] = None]
    BY <1>6 DEF FinishJob, FailJob, DropStaleJob
  <2> QED
    BY <1>0, <2>4, <2>6, <2>7 DEF JobTypeOK
<1>7. ASSUME NEW v \in Runners, LeaveJob(v) PROVE JobTypeOK'
  BY <1>0, <1>7 DEF LeaveJob, JobTypeOK
<1> QED
  BY <1>1, <1>2, <1>3, <1>4, <1>5, <1>6, <1>7 DEF JobAction

\* What waits is cancelled: types of the job rows alone.
LEMMA CancelTypes ==
  ASSUME JobTypeOK, CancelPending
  PROVE  JobTypeOK'
<1>1. \A j \in Jobs : Stopped(j, "cancelled") \in JobRow
  BY DEF JobTypeOK, Stopped, JobRow, JobState
<1> QED
  BY <1>1 DEF JobTypeOK, CancelPending
-----------------------------------------------------------------------------
(* The turn at work stands on the latest revision, and on the message it   *)
(* answers.                                                                *)

Asked(t) == conversation # <<>> /\ conversation[Len(conversation)] = [role |-> "user", turn |-> t]
Standing ==
  /\ AuthorityIsCurrent /\ OwnRevisions /\ RepliesInTurn
  /\ \A t \in Turns : turn[t].last <= Revision
  /\ \A t \in ActiveTurns : Asked(t)

\* Nothing is edited or said: turns only end.
Quietly ==
  /\ draft' = draft /\ conversation' = conversation
  /\ \A t \in Turns : /\ turn'[t].last = turn[t].last /\ turn'[t].accepted = turn[t].accepted
                      /\ turn'[t].state \in Active => turn[t].state \in Active

\* Every turn keeps what it has changed.
Revisions == \A t \in Turns : turn'[t].last = turn[t].last /\ turn'[t].accepted = turn[t].accepted

\* A conclusion leaves the revisions of every turn as they are,
LEMMA ConcludeKeeps ==
  ASSUME TurnTypeOK, NEW t \in Turns, NEW s \in Concluded, NEW k, Conclude(t, s, k)
  PROVE  /\ Revisions /\ turn'[t].state = s
         /\ \A u \in Turns \ {t} : turn'[u].state = turn[u].state
BY DEF TurnTypeOK, Row, Conclude, Revisions

\* and so does the end of all that is active.
LEMMA SupersedeKeeps ==
  ASSUME TurnTypeOK, Supersede
  PROVE  Revisions /\ ActiveTurns' = {}
<1>1. ASSUME NEW t \in Turns
      PROVE  /\ turn'[t].last = turn[t].last /\ turn'[t].accepted = turn[t].accepted
             /\ turn'[t].state \notin Active
  <2>1. turn[t] \in Row /\ turn'[t] = IF t \in Interrupted
           THEN [turn[t] EXCEPT !.state = "superseded", !.live = FALSE] ELSE turn[t]
    BY DEF TurnTypeOK, Supersede
  <2> QED
    BY <2>1 DEF Row, Interrupted, Active
<1> QED
  BY <1>1 DEF Revisions, ActiveTurns

\* Most steps of the turns change no revision, message or draft and make nobody active.
LEMMA MostlyQuiet ==
  ASSUME TurnTypeOK, TurnAction
  PROVE  Quietly \/ Accept \/ AppendUserMessage \/ \E w \in Doers : FinishTurn(w)
<1>0. turn \in [Turns -> Row]
  BY DEF TurnTypeOK
<1>1. CASE StrategyExpires
  BY <1>1 DEF StrategyExpires, Quietly
<1>2. ASSUME NEW t \in Turns, CancelTurn(t) PROVE Quietly
  <2>1. Revisions /\ turn'[t].state = "cancelled" /\ \A u \in Turns \ {t} : turn'[u].state = turn[u].state
    BY <1>2, ConcludeKeeps DEF CancelTurn, Concluded
  <2> QED
    BY <1>2, <2>1 DEF CancelTurn, Quietly, Revisions
<1>3. ASSUME NEW t \in Turns, TurnLeaseRunsOut(t) PROVE Quietly
  BY <1>0, <1>3 DEF TurnLeaseRunsOut, Quietly, Row
<1>4. ASSUME NEW w \in Doers, NEW t \in Turns, ClaimTurn(w, t) PROVE Quietly
  BY <1>0, <1>4 DEF ClaimTurn, Claimable, Quietly, Row, Active
<1>5. ASSUME NEW w \in Doers, NEW t \in Turns, GiveUpTurn(w, t) PROVE Quietly
  <2>1. Revisions /\ turn'[t].state = "failed" /\ \A u \in Turns \ {t} : turn'[u].state = turn[u].state
    BY <1>5, ConcludeKeeps DEF GiveUpTurn, Concluded
  <2> QED
    BY <1>5, <2>1 DEF GiveUpTurn, Quietly, Revisions, Active
<1>6. ASSUME NEW w \in Doers, AppendEvent(w) \/ LeaveTurn(w) PROVE Quietly
  <2>1. UNCHANGED <<draft, conversation, turn>>
    BY <1>6, Zenon DEF AppendEvent, LeaveTurn
  <2> QED
    BY <2>1 DEF Quietly
<1> QED
  BY <1>1, <1>2, <1>3, <1>4, <1>5, <1>6 DEF TurnAction

\* Such a step keeps the active turn on the latest revision.
LEMMA QuietlyStands ==
  ASSUME TurnTypeOK, Standing, Quietly
  PROVE  Standing'
<1>1. \A t \in Turns : t \in ActiveTurns' => t \in ActiveTurns
  BY DEF Quietly, ActiveTurns
<1>2. Revision' = Revision /\ \A t \in Turns : turn'[t].last = turn[t].last
  BY DEF Quietly, Revision
<1>3. AuthorityIsCurrent'
  BY <1>1, <1>2 DEF Standing, AuthorityIsCurrent, ActiveTurns
<1>4. OwnRevisions' /\ RepliesInTurn' /\ \A t \in Turns : turn'[t].last <= Revision'
  BY <1>2 DEF Standing, OwnRevisions, RepliesInTurn, Quietly
<1>5. (\A t \in ActiveTurns : Asked(t))'
  BY <1>1 DEF Standing, Asked, Quietly, ActiveTurns
<1> QED
  BY <1>3, <1>4, <1>5 DEF Standing

\* A message to the end of the conversation, by a user or to the user it follows.
LEMMA RepliesAppend ==
  ASSUME conversation \in Seq(Message), RepliesInTurn, NEW m \in Message,
         conversation' = Append(conversation, m),
         m.role = "assistant" => Asked(m.turn)
  PROVE  RepliesInTurn' /\ conversation' # <<>> /\ conversation'[Len(conversation')] = m
<1> DEFINE n == Len(conversation)
<1>1. /\ n \in Nat /\ Len(conversation') = n + 1 /\ conversation'[n + 1] = m
      /\ \A i \in 1 .. n : conversation'[i] = conversation[i]
  OBVIOUS
<1>2. ASSUME NEW i \in 1 .. n + 1, conversation'[i].role = "assistant"
      PROVE  i > 1 /\ conversation'[i-1] = [role |-> "user", turn |-> conversation'[i].turn]
  <2>1. CASE i \in 1 .. n
    <3>1. conversation'[i] = conversation[i] /\ (i > 1 => conversation'[i-1] = conversation[i-1])
      BY <1>1, <2>1
    <3> QED
      BY <1>2, <2>1, <3>1 DEF RepliesInTurn
  <2>2. CASE i = n + 1
    <3>1. conversation # <<>> /\ conversation[n] = [role |-> "user", turn |-> m.turn]
      BY <1>1, <1>2, <2>2 DEF Asked
    <3>2. n > 0
      BY <1>1, <3>1
    <3> QED
      BY <1>1, <2>2, <3>1, <3>2
  <2> QED
    BY <1>1, <2>1, <2>2
<1>3. conversation' # <<>>
  BY <1>1
<1> QED
  BY <1>1, <1>2, <1>3 DEF RepliesInTurn

\* A message accepted when nobody is active: the new turn stands on the draft as it is.
LEMMA AcceptStands ==
  ASSUME TurnTypeOK, Standing, Accept
  PROVE  Standing'
<1>1. PICK t \in Turns : t = Fresh(Unasked) /\ turn[t].state = "unasked"
  BY FreshIsOne DEF Accept, Unasked
<1>2. /\ turn \in [Turns -> Row] /\ conversation \in Seq(Message) /\ Revision \in Nat
      /\ draft' = draft /\ Revision' = Revision /\ ActiveTurns = {}
      /\ conversation' = Append(conversation, [role |-> "user", turn |-> t])
      /\ turn' = [turn EXCEPT ![t].state = "queued", ![t].accepted = Revision, ![t].last = Revision]
  BY <1>1 DEF TurnTypeOK, Accept, Revision
<1>3. /\ turn'[t].state = "queued" /\ turn'[t].accepted = Revision /\ turn'[t].last = Revision
      /\ \A u \in Turns \ {t} : turn'[u] = turn[u]
  BY <1>1, <1>2 DEF Row
<1>4. ActiveTurns' = {t}
  BY <1>1, <1>2, <1>3 DEF ActiveTurns, Active
<1>5. AuthorityIsCurrent'
  BY <1>2, <1>3, <1>4 DEF AuthorityIsCurrent
<1>6. OwnRevisions'
  <2>1. ASSUME NEW u \in Turns, NEW r \in turn'[u].accepted + 1 .. turn'[u].last PROVE draft'[r] = u
    <3>1. CASE u = t
      BY <1>2, <1>3, <2>1, <3>1
    <3>2. CASE u # t
      BY <1>2, <1>3, <2>1, <3>2 DEF Standing, OwnRevisions
    <3> QED
      BY <3>1, <3>2
  <2> QED
    BY <2>1 DEF OwnRevisions
<1>7. \A u \in Turns : turn'[u].last <= Revision'
  BY <1>2, <1>3 DEF Standing
<1>8. [role |-> "user", turn |-> t] \in Message
  BY <1>1 DEF Message
<1>9. RepliesInTurn' /\ Asked(t)'
  BY <1>2, <1>8, RepliesAppend DEF Standing, Asked
<1> QED
  BY <1>4, <1>5, <1>6, <1>7, <1>9 DEF Standing

\* With nobody at work, what is said and edited disturbs nobody.
LEMMA SupersededStands ==
  ASSUME TurnTypeOK, Standing, Supersede,
         \/ draft' = draft
         \/ draft' = Append(draft, User)
  PROVE  AuthorityIsCurrent' /\ OwnRevisions' /\ (\A t \in Turns : turn'[t].last <= Revision')
         /\ ActiveTurns' = {}
<1>1. Revisions /\ ActiveTurns' = {}
  BY SupersedeKeeps
<1>2. /\ Len(draft) \in Nat /\ Len(draft') \in Nat /\ Len(draft) <= Len(draft')
      /\ \A r \in 1 .. Len(draft) : draft'[r] = draft[r]
  BY DEF TurnTypeOK
<1>3. \A t \in Turns : turn[t].last \in Nat /\ turn[t].accepted \in Nat /\ turn[t].last <= Len(draft)
  BY TurnBounds DEF TurnTypeOK, Row, Standing, Revision
<1>4. OwnRevisions'
  <2>1. ASSUME NEW t \in Turns, NEW r \in turn'[t].accepted + 1 .. turn'[t].last PROVE draft'[r] = t
    <3>1. r \in turn[t].accepted + 1 .. turn[t].last
      BY <1>1, <2>1 DEF Revisions
    <3>2. r \in 1 .. Len(draft)
      BY <1>3, <3>1
    <3> QED
      BY <1>2, <3>1, <3>2 DEF Standing, OwnRevisions
  <2> QED
    BY <2>1 DEF OwnRevisions
<1>5. \A t \in Turns : turn'[t].last <= Revision'
  BY <1>1, <1>2, <1>3 DEF Revisions, Revision
<1> QED
  BY <1>1, <1>4, <1>5 DEF AuthorityIsCurrent

\* A turn that finishes answers the message it was accepted with.
LEMMA FinishStands ==
  ASSUME TurnTypeOK, Standing, NEW w \in Doers, FinishTurn(w)
  PROVE  Standing'
<1> DEFINE t == doer[w].turn
<1>1. t \in Turns /\ turn[t].state \in Active /\ t \in ActiveTurns
  BY DoerType DEF FinishTurn, Authorized, Active, ActiveTurns
<1>2. draft' = draft /\ conversation \in Seq(Message)
  BY DEF FinishTurn, TurnTypeOK
<1>3. CASE UNCHANGED conversation /\ Conclude(t, "failed", "failed")
  <2>1. Revisions /\ turn'[t].state = "failed" /\ \A u \in Turns \ {t} : turn'[u].state = turn[u].state
    BY <1>1, <1>3, ConcludeKeeps DEF Concluded
  <2>2. Quietly
    BY <1>1, <1>2, <1>3, <2>1 DEF Quietly, Revisions
  <2> QED
    BY <2>2, QuietlyStands
<1>4. CASE /\ Conclude(t, "succeeded", "completed")
           /\ conversation' = Append(conversation, [role |-> "assistant", turn |-> t])
  <2>1. Revisions /\ turn'[t].state = "succeeded" /\ \A u \in Turns \ {t} : turn'[u].state = turn[u].state
    BY <1>1, <1>4, ConcludeKeeps DEF Concluded
  <2>2. \A u \in ActiveTurns : u = t
    BY <1>1 DEF Standing, AuthorityIsCurrent
  <2>3. ActiveTurns' = {}
    BY <1>1, <2>1, <2>2 DEF ActiveTurns, Active
  <2>4. Asked(t)
    BY <1>1 DEF Standing
  <2>5. [role |-> "assistant", turn |-> t] \in Message
    BY <1>1 DEF Message
  <2>6. RepliesInTurn'
    BY <1>2, <1>4, <2>4, <2>5, RepliesAppend DEF Standing
  <2>7. AuthorityIsCurrent' /\ OwnRevisions' /\ \A u \in Turns : turn'[u].last <= Revision'
    BY <1>2, <2>1, <2>3 DEF AuthorityIsCurrent, OwnRevisions, Standing, Revisions, Revision
  <2> QED
    BY <2>3, <2>6, <2>7 DEF Standing
<1> QED
  BY <1>3, <1>4 DEF FinishTurn

\* The agent's own edit moves its turn to the new revision.
LEMMA AgentChangeStands ==
  ASSUME TurnTypeOK, Standing, NEW w \in Doers, AgentChange(w)
  PROVE  Standing'
<1> DEFINE t == doer[w].turn
<1>1. t \in Turns /\ t \in ActiveTurns /\ turn[t].last = Revision
  BY DoerType DEF AgentChange, Authorized, Active, ActiveTurns
<1>2. /\ turn \in [Turns -> Row] /\ draft \in Seq(Turns \cup {User}) /\ conversation' = conversation
      /\ draft' = Append(draft, t) /\ turn' = [turn EXCEPT ![t].last = Revision + 1]
  BY DEF TurnTypeOK, AgentChange
<1> HIDE DEF t
<1>3. /\ Len(draft) \in Nat /\ Len(draft') = Len(draft) + 1 /\ draft'[Len(draft) + 1] = t
      /\ \A r \in 1 .. Len(draft) : draft'[r] = draft[r]
  BY <1>1, <1>2
<1>4. /\ turn'[t].last = Len(draft) + 1 /\ turn'[t].accepted = turn[t].accepted
      /\ \A u \in Turns \ {t} : turn'[u] = turn[u]
      /\ \A u \in Turns : turn'[u].state = turn[u].state
  BY <1>1, <1>2 DEF Row, Revision
<1>5. \A u \in Turns : turn[u].last \in Nat /\ turn[u].accepted \in Nat /\ turn[u].last <= Len(draft)
  BY TurnBounds DEF TurnTypeOK, Row, Standing, Revision
<1>6. ActiveTurns' = ActiveTurns /\ \A u \in ActiveTurns : u = t
  BY <1>1, <1>4 DEF ActiveTurns, Standing, AuthorityIsCurrent
<1>7. AuthorityIsCurrent'
  BY <1>3, <1>4, <1>6 DEF AuthorityIsCurrent, Revision
<1>8. OwnRevisions'
  <2>1. ASSUME NEW u \in Turns, NEW r \in turn'[u].accepted + 1 .. turn'[u].last PROVE draft'[r] = u
    <3>1. CASE u = t /\ r = Len(draft) + 1
      BY <1>3, <3>1
    <3>2. CASE r \in turn[u].accepted + 1 .. turn[u].last
      <4>1. r \in 1 .. Len(draft)
        BY <1>5, <3>2
      <4> QED
        BY <1>3, <3>2, <4>1 DEF Standing, OwnRevisions
    <3>3. r \in turn[u].accepted + 1 .. turn[u].last \/ (u = t /\ r = Len(draft) + 1)
      BY <1>1, <1>4, <1>5, <2>1 DEF Revision
    <3> QED
      BY <3>1, <3>2, <3>3
  <2> QED
    BY <2>1 DEF OwnRevisions
<1>9. \A u \in Turns : turn'[u].last <= Revision'
  BY <1>3, <1>4, <1>5 DEF Revision
<1>10. RepliesInTurn' /\ (\A u \in ActiveTurns : Asked(u))'
  BY <1>2, <1>6 DEF Standing, RepliesInTurn, Asked
<1> QED
  BY <1>7, <1>8, <1>9, <1>10 DEF Standing

\* Every step of the turns keeps the active one on the latest revision.
LEMMA TurnsStand ==
  ASSUME TurnTypeOK, Standing, TurnAction \/ DraftAction
  PROVE  Standing'
<1>1. CASE AppendUserMessage
  <2>1. /\ conversation \in Seq(Message) /\ draft' = draft /\ Supersede
        /\ conversation' = Append(conversation, [role |-> "user", turn |-> None])
    BY <1>1 DEF AppendUserMessage, Interruption, TurnTypeOK
  <2>2. [role |-> "user", turn |-> None] \in Message
    BY DEF Message
  <2>3. RepliesInTurn'
    BY <2>1, <2>2, RepliesAppend DEF Standing
  <2> QED
    BY <2>1, <2>3, SupersededStands DEF Standing
<1>2. CASE UserChange
  <2>1. Supersede /\ draft' = Append(draft, User) /\ conversation' = conversation
    BY <1>2 DEF UserChange, Takeover
  <2>2. RepliesInTurn'
    BY <2>1 DEF Standing, RepliesInTurn
  <2> QED
    BY <2>1, <2>2, SupersededStands DEF Standing
<1> QED
  BY <1>1, <1>2, MostlyQuiet, QuietlyStands, AcceptStands, FinishStands, AgentChangeStands DEF DraftAction
-----------------------------------------------------------------------------
(* The simulations: what is under way has an artifact and no evidence.     *)

Waiting == WaitingIsCurrent /\ EvidenceHasItsJob /\ \A j \in ActiveJobs : job[j].generation \in artifacts

\* One job ends or waits again; nothing else of the jobs changes.
LEMMA JobEnds ==
  ASSUME JobTypeOK, Waiting, NEW j \in ActiveJobs, NEW s \in {"failed", "cancelled", "pending"},
         job' = [job EXCEPT ![j] = Stopped(j, s)], s = "pending" => job[j].generation = Revision,
         evidence' = evidence, artifacts' = artifacts, draft' = draft
  PROVE  Waiting'
<1>1. j \in Jobs /\ job \in [Jobs -> JobRow]
  BY DEF ActiveJobs, JobTypeOK
<1>2. /\ job'[j].state = s /\ job'[j].generation = job[j].generation
      /\ \A i \in Jobs \ {j} : job'[i] = job[i]
  BY <1>1 DEF Stopped, JobRow
<1>3. ActiveJobs' \subseteq ActiveJobs
  BY <1>1, <1>2 DEF ActiveJobs
<1>4. WaitingIsCurrent'
  BY <1>1, <1>2, <1>3 DEF Waiting, WaitingIsCurrent, Revision
<1>5. evidence[j] = None
  BY <1>1 DEF Waiting, EvidenceHasItsJob, ActiveJobs
<1>6. EvidenceHasItsJob'
  BY <1>1, <1>2, <1>5 DEF Waiting, EvidenceHasItsJob
<1>7. \A i \in ActiveJobs' : job'[i].generation \in artifacts'
  BY <1>1, <1>2, <1>3 DEF Waiting, ActiveJobs
<1> QED
  BY <1>4, <1>6, <1>7 DEF Waiting

\* A simulation is started on an artifact of the revision at hand.
LEMMA StartWaits ==
  ASSUME TurnTypeOK, JobTypeOK, Waiting, Start, draft' = draft
  PROVE  Waiting'
<1>0. job \in [Jobs -> JobRow] /\ Revision' = Revision /\ evidence' = evidence /\ artifacts' = artifacts
      /\ Revision \in artifacts
  BY DEF JobTypeOK, Start, Revision
<1>1. CASE UNCHANGED job
  BY <1>0, <1>1 DEF Waiting, WaitingIsCurrent, EvidenceHasItsJob, ActiveJobs
<1>2. CASE job' # job
  <2> DEFINE j == Fresh(UnaskedJobs)
  <2>1. /\ UnaskedJobs # {}
        /\ job' = [i \in Jobs |->
               IF i = j THEN [job[j] EXCEPT !.state = "pending", !.generation = Revision]
               ELSE IF i \in ActiveJobs THEN Stopped(i, "cancelled") ELSE job[i]]
    BY <1>2 DEF Start
  <2>2. j \in Jobs /\ job[j].state = "unasked"
    BY <2>1, FreshIsOne DEF UnaskedJobs
  <2> HIDE DEF j
  <2>3. job'[j].state = "pending" /\ job'[j].generation = Revision
    BY <1>0, <2>1, <2>2 DEF JobRow
  <2>4. ASSUME NEW i \in Jobs, i # j
        PROVE  /\ job'[i].state \notin {"pending", "running"}
               /\ i \notin ActiveJobs => job'[i] = job[i]
               /\ i \in ActiveJobs => job'[i].state = "cancelled"
    BY <1>0, <2>1, <2>4 DEF ActiveJobs, Stopped, JobRow
  <2>5. ActiveJobs' = {j}
    BY <2>2, <2>3, <2>4 DEF ActiveJobs
  <2>6. WaitingIsCurrent'
    BY <1>0, <2>2, <2>3, <2>4, <2>5 DEF WaitingIsCurrent
  <2>7. \A i \in ActiveJobs \cup {j} : evidence[i] = None
    BY <2>2 DEF Waiting, EvidenceHasItsJob, ActiveJobs
  <2>8. EvidenceHasItsJob'
    <3>1. ASSUME NEW i \in Jobs
          PROVE  /\ job'[i].state = "succeeded" => evidence[i] = TRUE
                 /\ evidence[i] # None =>
                      /\ job'[i].state = (IF evidence[i] THEN "succeeded" ELSE "failed")
                      /\ job'[i].generation \in artifacts
      <4>1. CASE i \in ActiveJobs \cup {j}
        BY <2>3, <2>4, <2>7, <3>1, <4>1
      <4>2. CASE i \notin ActiveJobs \cup {j}
        BY <2>4, <3>1, <4>2 DEF Waiting, EvidenceHasItsJob
      <4> QED
        BY <4>1, <4>2
    <3> QED
      BY <1>0, <3>1 DEF EvidenceHasItsJob
  <2> QED
    BY <1>0, <2>3, <2>5, <2>6, <2>8 DEF Waiting
<1> QED
  BY <1>1, <1>2

\* Every step of the simulations keeps what waits without evidence.
LEMMA JobsWait ==
  ASSUME TurnTypeOK, JobTypeOK, Waiting, JobAction, draft' = draft, ready' = ready
  PROVE  Waiting'
<1>0. job \in [Jobs -> JobRow] /\ Revision' = Revision
  BY DEF JobTypeOK, Revision
<1>1. CASE Compile
  BY <1>0, <1>1 DEF Compile, Waiting, WaitingIsCurrent, EvidenceHasItsJob, ActiveJobs
<1>2. CASE Start
  BY <1>2, StartWaits
<1>3. ASSUME NEW j \in Jobs, CancelJob(j) PROVE Waiting'
  BY <1>3, JobEnds DEF CancelJob
<1>4. ASSUME NEW j \in Jobs, JobLeaseRunsOut(j) PROVE Waiting'
  <2>1. /\ evidence' = evidence /\ artifacts' = artifacts
        /\ \A i \in Jobs : job'[i].state = job[i].state /\ job'[i].generation = job[i].generation
    BY <1>0, <1>4 DEF JobLeaseRunsOut, JobRow
  <2> QED
    BY <1>0, <2>1 DEF Waiting, WaitingIsCurrent, EvidenceHasItsJob, ActiveJobs
<1>5. ASSUME NEW v \in Runners, NEW j \in Jobs, ClaimJob(v, j) PROVE Waiting'
  <2>1. /\ evidence' = evidence /\ artifacts' = artifacts /\ j \in ActiveJobs
        /\ job'[j].state = "running" /\ job'[j].generation = job[j].generation
        /\ \A i \in Jobs \ {j} : job'[i] = job[i]
    BY <1>0, <1>5 DEF ClaimJob, JobClaimable, ActiveJobs, JobRow
  <2>2. ActiveJobs' = ActiveJobs
    BY <2>1 DEF ActiveJobs
  <2>3. evidence[j] = None
    BY <2>1 DEF Waiting, EvidenceHasItsJob, ActiveJobs
  <2>4. EvidenceHasItsJob'
    BY <2>1, <2>3 DEF Waiting, EvidenceHasItsJob
  <2>5. WaitingIsCurrent' /\ \A i \in ActiveJobs' : job'[i].generation \in artifacts'
    BY <1>0, <2>1, <2>2 DEF Waiting, WaitingIsCurrent, ActiveJobs
  <2> QED
    BY <2>4, <2>5 DEF Waiting
<1>6. ASSUME NEW v \in Runners, NEW j \in Jobs, RetireJob(v, j) PROVE Waiting'
  <2>1. j \in ActiveJobs
    BY <1>6 DEF RetireJob, JobClaimable, ActiveJobs
  <2> QED
    BY <1>6, <2>1, JobEnds DEF RetireJob
<1>7. ASSUME NEW v \in Runners, FailJob(v) \/ DropStaleJob(v) PROVE Waiting'
  <2> DEFINE j == runner[v].job
  <2>1. j \in ActiveJobs
    BY <1>7, RunnerType DEF FailJob, DropStaleJob, Leased, ActiveJobs
  <2>2. \E s \in {"failed", "cancelled", "pending"} :
          job' = [job EXCEPT ![j] = Stopped(j, s)] /\ (s = "pending" => job[j].generation = Revision)
    BY <1>7 DEF FailJob, DropStaleJob, Current
  <2>3. evidence' = evidence /\ artifacts' = artifacts
    BY <1>7 DEF FailJob, DropStaleJob
  <2> QED
    BY <2>1, <2>2, <2>3, JobEnds
<1>8. ASSUME NEW v \in Runners, FinishJob(v) PROVE Waiting'
  <2> DEFINE j == runner[v].job
  <2>1. j \in Jobs /\ job[j].state = "running" /\ j \in ActiveJobs /\ artifacts' = artifacts
    BY <1>8, RunnerType DEF FinishJob, Leased, ActiveJobs
  <2>2. PICK passed \in BOOLEAN : /\ evidence' = [evidence EXCEPT ![j] = passed]
                                  /\ job' = [job EXCEPT ![j] = Stopped(j, Outcome(passed))]
    BY <1>8 DEF FinishJob
  <2> HIDE DEF j
  <2>3. /\ job'[j].state = Outcome(passed) /\ job'[j].generation = job[j].generation
        /\ evidence'[j] = passed
        /\ \A i \in Jobs \ {j} : job'[i] = job[i] /\ evidence'[i] = evidence[i]
    BY <1>0, <2>1, <2>2 DEF Stopped, JobRow, JobTypeOK
  <2>4. ActiveJobs' \subseteq ActiveJobs /\ j \notin ActiveJobs'
    BY <2>3 DEF ActiveJobs, Outcome
  <2>5. WaitingIsCurrent' /\ \A i \in ActiveJobs' : job'[i].generation \in artifacts'
    BY <1>0, <2>1, <2>3, <2>4 DEF Waiting, WaitingIsCurrent, ActiveJobs, Outcome
  <2>6. EvidenceHasItsJob'
    <3>1. ASSUME NEW i \in Jobs
          PROVE  /\ job'[i].state = "succeeded" => evidence'[i] = TRUE
                 /\ evidence'[i] # None =>
                      /\ job'[i].state = (IF evidence'[i] THEN "succeeded" ELSE "failed")
                      /\ job'[i].generation \in artifacts'
      <4>1. CASE i = j
        <5>1. job'[i].generation \in artifacts'
          BY <2>1, <2>3, <4>1 DEF Waiting
        <5>2. CASE passed = TRUE
          BY <2>3, <4>1, <5>1, <5>2 DEF Outcome
        <5>3. CASE passed = FALSE
          BY <2>3, <4>1, <5>1, <5>3 DEF Outcome
        <5> QED
          BY <5>2, <5>3
      <4>2. CASE i # j
        BY <2>1, <2>3, <3>1, <4>2 DEF Waiting, EvidenceHasItsJob
      <4> QED
        BY <4>1, <4>2
    <3> QED
      BY <3>1 DEF EvidenceHasItsJob
  <2> QED
    BY <2>5, <2>6 DEF Waiting
<1>9. ASSUME NEW v \in Runners, LeaveJob(v) PROVE Waiting'
  BY <1>0, <1>9 DEF LeaveJob, Waiting, WaitingIsCurrent, EvidenceHasItsJob, ActiveJobs
<1> QED
  BY <1>1, <1>2, <1>3, <1>4, <1>5, <1>6, <1>7, <1>8, <1>9 DEF JobAction

\* A change of the draft leaves no simulation waiting.
LEMMA CancelWaits ==
  ASSUME JobTypeOK, Waiting, CancelPending
  PROVE  Waiting'
<1>0. job \in [Jobs -> JobRow] /\ evidence' = evidence /\ artifacts' = artifacts
  BY DEF JobTypeOK, CancelPending
<1>1. ASSUME NEW j \in Jobs
      PROVE  /\ job[j].state = "pending" => job'[j].state = "cancelled"
             /\ job[j].state # "pending" => job'[j] = job[j]
  BY <1>0 DEF CancelPending, Stopped, JobRow
<1>2. ActiveJobs' \subseteq ActiveJobs /\ \A j \in Jobs : job'[j].state # "pending"
  BY <1>1 DEF ActiveJobs
<1>3. WaitingIsCurrent'
  BY <1>2 DEF Waiting, WaitingIsCurrent
<1>4. EvidenceHasItsJob'
  <2>1. ASSUME NEW j \in Jobs, job[j].state = "pending" PROVE evidence[j] = None
    BY <2>1 DEF Waiting, EvidenceHasItsJob
  <2> QED
    BY <1>0, <1>1, <2>1 DEF Waiting, EvidenceHasItsJob
<1>5. \A j \in ActiveJobs' : job'[j].generation \in artifacts'
  BY <1>0, <1>1, <1>2 DEF Waiting, ActiveJobs
<1> QED
  BY <1>3, <1>4, <1>5 DEF Waiting
-----------------------------------------------------------------------------
(* The invariant, and the properties.                                      *)

DesignInv == TypeOK /\ StreamsOrderly /\ Standing /\ Waiting

\* The invariant holds at the start,
LEMMA DesignInit == Init => DesignInv
<1> SUFFICES ASSUME Init PROVE DesignInv
    OBVIOUS
<1> USE TurnBounds
<1>1. TurnTypeOK
  <2>1. draft \in Seq(Turns \cup {User}) /\ Revision = 1
    BY DEF Init, TurnInit, Revision
  <2> QED
    BY <2>1 DEF Init, TurnInit, TurnTypeOK, Row, TurnState
<1>2. JobTypeOK
  BY DEF Init, JobInit, JobTypeOK, JobRow, JobState
<1>3. StreamsOrderly
  BY DEF Init, TurnInit, StreamsOrderly, Orderly, Concluded
<1>4. Standing
  BY DEF Init, TurnInit, Standing, AuthorityIsCurrent, ActiveTurns, Active, OwnRevisions, RepliesInTurn,
    Revision
<1>5. Waiting
  BY DEF Init, JobInit, Waiting, WaitingIsCurrent, EvidenceHasItsJob, ActiveJobs
<1> QED
  BY <1>1, <1>2, <1>3, <1>4, <1>5 DEF DesignInv, TypeOK

\* and no step ends it.
LEMMA DesignNext == DesignInv /\ [Next]_vars => DesignInv'
<1> SUFFICES ASSUME DesignInv, [Next]_vars PROVE DesignInv'
    OBVIOUS
<1>0. TurnTypeOK /\ JobTypeOK /\ StreamsOrderly /\ Standing /\ Waiting
  BY DEF DesignInv, TypeOK
<1>1. CASE TurnAction /\ UNCHANGED jobVars
  <2>1. TurnTypeOK' /\ StreamsOrderly' /\ Standing'
    BY <1>0, <1>1, TurnTypes, StreamsStayOrderly, TurnsStand
  <2>2. JobTypeOK' /\ EvidenceHasItsJob' /\ ActiveJobs' = ActiveJobs
    BY <1>0, <1>1 DEF jobVars, JobTypeOK, Waiting, EvidenceHasItsJob, ActiveJobs
  <2>3. draft' = draft
    BY <1>1, Zenon DEF TurnAction, Accept, AppendUserMessage, StrategyExpires, CancelTurn,
      TurnLeaseRunsOut, ClaimTurn, GiveUpTurn, AppendEvent, FinishTurn, LeaveTurn
  <2>4. Waiting'
    BY <1>0, <1>1, <2>2, <2>3 DEF jobVars, Waiting, WaitingIsCurrent, Revision
  <2> QED
    BY <2>1, <2>2, <2>4 DEF DesignInv, TypeOK
<1>2. CASE DraftAction /\ CancelPending
  BY <1>0, <1>2, TurnTypes, StreamsStayOrderly, TurnsStand, CancelTypes, CancelWaits DEF DesignInv, TypeOK
<1>3. CASE /\ JobAction /\ UNCHANGED <<draft, ready, turn, stream, conversation, doer>>
           /\ done' = done \/ Once
  <2>1. JobTypeOK' /\ Waiting'
    BY <1>0, <1>3, JobTypes, JobsWait
  <2>2. done' \subseteq Requests
    BY <1>0, <1>3, FreshIsOne DEF Once, TurnTypeOK
  <2>3. TurnTypeOK'
    BY <1>0, <1>3, <2>2 DEF TurnTypeOK, Revision
  <2>4. StreamsOrderly'
    BY <1>0, <1>3 DEF StreamsOrderly
  <2>5. Standing'
    BY <1>0, <1>3 DEF Standing, AuthorityIsCurrent, ActiveTurns, OwnRevisions, RepliesInTurn, Revision, Asked
  <2> QED
    BY <2>1, <2>3, <2>4, <2>5 DEF DesignInv, TypeOK
<1>4. CASE UNCHANGED vars
  <2>1. TurnTypeOK' /\ JobTypeOK'
    BY <1>0, <1>4 DEF vars, TurnTypeOK, JobTypeOK, Revision
  <2>2. StreamsOrderly' /\ Standing' /\ Waiting'
    BY <1>0, <1>4 DEF vars, StreamsOrderly, Standing, AuthorityIsCurrent, ActiveTurns, OwnRevisions,
      RepliesInTurn, Revision, Asked, Waiting, WaitingIsCurrent, EvidenceHasItsJob, ActiveJobs
  <2> QED
    BY <2>1, <2>2 DEF DesignInv, TypeOK
<1> QED
  BY <1>1, <1>2, <1>3, <1>4, Sides

\* For any turns, simulations, workers and bounds: an active turn holds the latest
\* revision and has one message to answer, a stream is in order by itself, and a
\* simulation under way has an artifact and no evidence.
THEOREM DesignInvariant == Spec => []DesignInv
BY DesignInit, DesignNext, PTL DEF Spec

\* Whatever workers are overtaken and however users edit meanwhile: whoever may write
\* stands on the latest revision, which only it has changed since it was asked.
THEOREM WorkStaysCurrent == Spec => []WorkIsCurrent
<1>1. DesignInv => WorkIsCurrent
  BY DEF DesignInv, Standing, Waiting, WorkIsCurrent
<1> QED
  BY <1>1, DesignInvariant, PTL

\* Streams and conversation are in order, through retries, takeovers and cancellations.
THEOREM TranscriptStaysOrderly == Spec => []TranscriptIsOrderly
<1>1. DesignInv => TranscriptIsOrderly
  BY OrderlyStreams DEF DesignInv, Standing, TranscriptIsOrderly
<1> QED
  BY <1>1, DesignInvariant, PTL

\* A simulation is recorded once, for the draft as it stands, by the holder of its claim,
\* and the record stays the outcome of its job.
THEOREM EvidenceStaysFresh == Spec => EvidenceIsFresh
<1> DEFINE Recorded ==
      /\ EvidenceHasItsJob'
      /\ \A j \in Jobs : evidence'[j] # evidence[j] =>
           /\ evidence[j] = None /\ Current(job[j].generation)
           /\ \E v \in Runners : /\ runner[v] = [job |-> j, attempt |-> job[j].attempts]
                                 /\ runner'[v] = None
<1>1. ASSUME DesignInv, DesignInv', Next PROVE Recorded
  <2>0. JobTypeOK /\ Waiting /\ EvidenceHasItsJob'
    BY <1>1 DEF DesignInv, TypeOK, Waiting
  <2>1. \/ evidence' = evidence
        \/ \E v \in Runners : FinishJob(v)
    <3>1. CASE TurnAction /\ UNCHANGED jobVars
      BY <3>1 DEF jobVars
    <3>2. CASE CancelPending
      BY <3>2 DEF CancelPending
    <3>3. CASE JobAction
      BY <3>3, Zenon DEF JobAction, Compile, Start, CancelJob, JobLeaseRunsOut, ClaimJob, RetireJob, FailJob,
        DropStaleJob, LeaveJob
    <3> QED
      BY <1>1, <3>1, <3>2, <3>3, Sides
  <2>2. ASSUME NEW v \in Runners, FinishJob(v), NEW j \in Jobs, evidence'[j] # evidence[j]
        PROVE  /\ evidence[j] = None /\ Current(job[j].generation)
               /\ runner[v] = [job |-> j, attempt |-> job[j].attempts] /\ runner'[v] = None
    <3>1. /\ runner[v].job \in Jobs /\ runner[v] # None
          /\ runner[v] = [job |-> runner[v].job, attempt |-> runner[v].attempt]
      BY <2>0, <2>2, RunnerType DEF FinishJob
    <3>2. j = runner[v].job
      BY <2>0, <2>2, <3>1 DEF FinishJob, JobTypeOK
    <3>3. job[j].state = "running" /\ job[j].attempts = runner[v].attempt /\ Current(job[j].generation)
      BY <2>2, <3>2 DEF FinishJob, Leased
    <3>4. evidence[j] = None
      BY <2>0, <3>3 DEF Waiting, EvidenceHasItsJob
    <3>5. runner'[v] = None
      BY <2>0, <2>2 DEF FinishJob, JobTypeOK
    <3> QED
      BY <3>1, <3>2, <3>3, <3>4, <3>5
  <2>3. ASSUME NEW j \in Jobs, evidence'[j] # evidence[j]
        PROVE  /\ evidence[j] = None /\ Current(job[j].generation)
               /\ \E v \in Runners : /\ runner[v] = [job |-> j, attempt |-> job[j].attempts]
                                     /\ runner'[v] = None
    BY <2>1, <2>2, <2>3
  <2> QED
    BY <2>0, <2>3
<1>2. DesignInv /\ DesignInv' /\ [Next]_vars => [Recorded]_vars
  BY <1>1
<1> QED
  BY <1>2, DesignInvariant, PTL DEF Spec, EvidenceIsFresh
=============================================================================
