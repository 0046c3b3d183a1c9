--------------------- MODULE ExecutionControllerProofs ---------------------
(***************************************************************************)
(* What ExecutionController guarantees for every set of requests, sessions *)
(* and strategies, and every bound.  The inductive invariant has nine      *)
(* layers, each proved with the help of the ones before it:                *)
(*                                                                         *)
(*   TypeInv       the records have their shapes, a stored request has its *)
(*                 body and its session, the running request is pending;   *)
(*   LedgerInv     the journal and the network agree on the transactions;  *)
(*   StageInv      where a call stands tells which transactions of its     *)
(*                 request are settled;                                    *)
(*   BreachInv     a recorded breach names a strategy Aqua knows, and a    *)
(*                 mined risk dock leaves it docked;                       *)
(*   AdmissionInv  one request is pending at a time, and a session that is *)
(*                 being shipped has no other;                             *)
(*   MarketInv     what mined transactions took off the market stays off,  *)
(*                 and nobody takes off what a pending rebalance shipped;  *)
(*   PlanInv       a session's plan lags behind the chain by the pending   *)
(*                 rebalance at most, and never runs ahead of it;          *)
(*   ClosedInv     the pending request of a closed session has no primary  *)
(*                 transaction in flight and signs none;                   *)
(*   SessionInv    what a session has shipped is docked, current, or just  *)
(*                 shipped by its pending rebalance.                       *)
(***************************************************************************)
EXTENDS ExecutionController, SequenceTheorems, TLAPS

-----------------------------------------------------------------------------
(* Layer 1: types.                                                         *)

KnownSession ==
  \A s \in Sessions : session[s].status # "none" => session[s].plan # <<>>

KnownRequest ==
  \A r \in Requests : attempt[r].status # "none" =>
    /\ attempt[r].body \in Bodies
    /\ session[SessionOf(r)].status # "none"

RunningPending == ctl.req # None => Pending(ctl.req)

TypeInv == TypeOK /\ KnownSession /\ KnownRequest /\ RunningPending

\* The initial state has its types.
LEMMA TypeInit == Init => TypeInv
<1> SUFFICES ASSUME Init PROVE TypeInv
    OBVIOUS
<1> USE ConstantsAssumption DEF Init
<1>1. NoAttempt \in Attempt
  BY DEF NoAttempt, Attempt
<1>2. NoSession \in Session
  BY DEF NoSession, Session
<1>3. TypeOK
  BY <1>1, <1>2 DEF TypeOK, Process, Stages, Idle
<1>4. KnownSession /\ KnownRequest /\ RunningPending
  BY DEF KnownSession, KnownRequest, RunningPending, NoSession, NoAttempt, Idle
<1> QED
  BY <1>3, <1>4 DEF TypeInv

\* A running request is stored, with contents and a session of the model.
LEMMA RunningRequest ==
  ASSUME TypeInv, NEW r \in Requests, ctl.req = r
  PROVE  /\ Pending(r)
         /\ attempt[r].body \in Bodies
         /\ SessionOf(r) \in Sessions
         /\ session[SessionOf(r)].status # "none"
         /\ session[SessionOf(r)].plan # <<>>
<1> USE ConstantsAssumption
<1>1. Pending(r) /\ attempt[r].status # "none"
  BY DEF TypeInv, RunningPending, Pending
<1>2. attempt[r].body \in Bodies /\ session[SessionOf(r)].status # "none"
  BY <1>1 DEF TypeInv, KnownRequest
<1>3. SessionOf(r) \in Sessions
  BY <1>2 DEF SessionOf, Body
<1> QED
  BY <1>1, <1>2, <1>3 DEF TypeInv, KnownSession

\* A step that only moves the process, or stops it.
LEMMA TypeMove ==
  ASSUME TypeInv, UNCHANGED <<journal, network>>,
         ctl' \in Process, RunningPending'
  PROVE  TypeInv'
BY DEF TypeInv, TypeOK, KnownSession, KnownRequest, RunningPending, Pending,
       SessionOf, journal, network

\* A step that only changes the status of a session that exists.
LEMMA TypeStatus ==
  ASSUME TypeInv, NEW r \in Requests, ctl.req = r, NEW status,
         status \in {"active", "closed"},
         session' = [session EXCEPT ![SessionOf(r)].status = status],
         UNCHANGED <<attempt, saved, receipts, network>>,
         ctl' \in Process, RunningPending'
  PROVE  TypeInv'
<1>1. session[SessionOf(r)].plan # <<>> /\ SessionOf(r) \in Sessions
  BY RunningRequest
<1>2. session' \in [Sessions -> Session]
  BY <1>1 DEF TypeInv, TypeOK, Session
<1>3. KnownSession'
  BY <1>1 DEF TypeInv, TypeOK, KnownSession, Session
<1>4. KnownRequest'
  BY <1>1 DEF TypeInv, TypeOK, KnownRequest, SessionOf, Session
<1> QED
  BY <1>2, <1>3, <1>4 DEF TypeInv, TypeOK, RunningPending, Pending, network

\* A step that ends the running request, or records a breach of it.
LEMMA TypeAttempt ==
  ASSUME TypeInv, NEW r \in Requests, ctl.req = r,
         attempt' \in [Requests -> Attempt],
         \A q \in Requests : attempt'[q].body = attempt[q].body,
         \A q \in Requests : attempt'[q].status = "none" <=> attempt[q].status = "none",
         UNCHANGED <<session, saved, receipts, network>>,
         ctl' \in Process, RunningPending'
  PROVE  TypeInv'
BY DEF TypeInv, TypeOK, KnownSession, KnownRequest, RunningPending, SessionOf, network

\* A call that goes on, without touching the journal.
LEMMA TypeGoto ==
  ASSUME TypeInv, NEW r \in Requests, ctl.req = r \/ Pending(r),
         NEW stage \in Stages, Goto(r, stage), UNCHANGED <<journal, network>>
  PROVE  TypeInv'
<1>1. Pending(r)
  BY RunningRequest
<1>2. ctl' \in Process
  BY DEF Goto, Process
<1>3. RunningPending'
  BY <1>1 DEF RunningPending, Pending, Goto, journal
<1> QED
  BY <1>2, <1>3, TypeMove

\* A call that ends, with its request.
LEMMA TypeEnded ==
  ASSUME TypeInv, NEW r \in Requests, ctl.req = r,
         NEW status, status \in {"completed", "failed"}, Ended(r, status),
         UNCHANGED <<session, saved, receipts, network>>
  PROVE  TypeInv'
<1>1. attempt \in [Requests -> Attempt] /\ attempt[r].status # "none"
  BY RunningRequest DEF TypeInv, TypeOK, Pending
<1>2. attempt' \in [Requests -> Attempt]
  BY <1>1 DEF Ended, Attempt
<1>3. ctl' \in Process /\ RunningPending'
  BY DEF Ended, Idle, Process, Stages, RunningPending
<1>4. \A q \in Requests : attempt'[q].body = attempt[q].body
  BY <1>1 DEF Ended, Attempt
<1>5. \A q \in Requests : attempt'[q].status = "none" <=> attempt[q].status = "none"
  BY <1>1 DEF Ended, Attempt
<1> QED
  BY <1>2, <1>3, <1>4, <1>5, TypeAttempt

\* A step of the network: the journal, and so the running request, is untouched.
LEMMA TypeNetwork ==
  ASSUME TypeInv, UNCHANGED <<journal, ctl>>, TypeOK'
  PROVE  TypeInv'
BY DEF TypeInv, KnownSession, KnownRequest, RunningPending, Pending, SessionOf, journal

\* A request that is accepted brings its body and its session with it.
LEMMA TypeSubmit ==
  ASSUME TypeInv, NEW r \in Requests, NEW b \in Bodies, Submit(r, b)
  PROVE  TypeInv'
<1> DEFINE s == b.session
<1> USE ConstantsAssumption
<1>0. b \in Body /\ s \in Sessions
  BY DEF Body
<1>1. attempt \in [Requests -> Attempt] /\ session \in [Sessions -> Session]
  BY DEF TypeInv, TypeOK
<1>2. attempt[r].status = "none" /\ ctl' = [req |-> r, at |-> "entry", sent |-> FALSE]
  BY DEF Submit, Goto
<1>3. ctl' \in Process
  BY <1>2 DEF Process, Stages
<1>4. CASE b.action = "ship"
  <2>1. b.strategy \in Strategies
    BY <1>0, <1>4 DEF Body
  <2> DEFINE n == [status |-> "starting", plan |-> <<[strategy |-> b.strategy, by |-> r]>>]
  <2>2. session' = [session EXCEPT ![s] = n]
    BY <1>4 DEF Submit
  <2>3. n \in Session
    BY <2>1 DEF Session, PlanEntry
  <2>4. session' \in [Sessions -> Session]
    BY <1>1, <2>2, <2>3
  <2>5. attempt' = [attempt EXCEPT ![r] = NewAttempt(b, b.strategy, TRUE)]
    BY <1>4 DEF Submit
  <2>6. attempt' \in [Requests -> Attempt]
    BY <1>1, <2>1, <2>5 DEF NewAttempt, Attempt
  <2>7. KnownSession'
    BY <1>0, <1>1, <2>2 DEF TypeInv, KnownSession
  <2>8. KnownRequest'
    BY <1>0, <1>1, <2>2, <2>5 DEF TypeInv, KnownRequest, NewAttempt, SessionOf
  <2>9. RunningPending'
    BY <1>1, <1>2, <2>5 DEF RunningPending, Pending, NewAttempt
  <2> QED
    BY <1>3, <2>4, <2>6, <2>7, <2>8, <2>9 DEF TypeInv, TypeOK, Submit, network
<1>5. CASE b.action # "ship"
  <2>1. session' = session /\ session[s].status # "none"
    BY <1>5 DEF Submit, Admissible
  <2>2. Current(s) \in Strategies
    <3>1. session[s].plan \in Seq(PlanEntry) /\ session[s].plan # <<>>
      BY <1>0, <1>1, <2>1 DEF TypeInv, KnownSession, Session
    <3>2. session[s].plan[Len(session[s].plan)] \in PlanEntry
      BY <3>1
    <3> QED
      BY <3>2 DEF Current, ActiveOf, PlanEntry
  <2> DEFINE a == NewAttempt(b, Current(s), session[s].status = "starting")
  <2>3. attempt' = [attempt EXCEPT ![r] = a]
    BY <1>5 DEF Submit
  <2>4. a \in Attempt
    BY <2>2 DEF NewAttempt, Attempt
  <2>5. attempt' \in [Requests -> Attempt]
    BY <1>1, <2>3, <2>4
  <2>6. a.body = b /\ a.status = "pending"
    BY DEF NewAttempt
  <2>7. KnownRequest'
    BY <1>0, <1>1, <2>1, <2>3, <2>6 DEF TypeInv, KnownRequest, SessionOf
  <2>8. RunningPending'
    BY <1>1, <1>2, <2>3, <2>6 DEF RunningPending, Pending
  <2> QED
    BY <1>3, <2>1, <2>5, <2>7, <2>8 DEF TypeInv, TypeOK, KnownSession, Submit, network
<1> QED
  BY <1>4, <1>5

\* A signed transaction has the shape of one.
LEMMA TypePrepare ==
  ASSUME TypeInv, NEW r \in Requests, NEW step \in Steps, NEW n \in Nonces,
         Prepare(r, step, n)
  PROVE  TypeInv'
<1>1. [req |-> r, step |-> step, sender |-> SenderOf(r, step), nonce |-> n] \in Tx
  BY DEF Tx, SenderOf, Accounts
<1> QED
  BY <1>1 DEF TypeInv, TypeOK, KnownSession, KnownRequest, RunningPending, Pending,
              SessionOf, Prepare, network

\* Broadcasting keeps the types.
LEMMA TypeBroadcast ==
  ASSUME TypeInv, NEW t \in saved, Broadcast(t)
  PROVE  TypeInv'
<1>1. ctl' \in Process /\ ctl'.req = ctl.req
  BY DEF TypeInv, TypeOK, Process, Broadcast
<1>2. TypeOK'
  BY <1>1 DEF TypeInv, TypeOK, Broadcast, journal
<1> QED
  BY <1>1, <1>2 DEF TypeInv, KnownSession, KnownRequest, RunningPending, Pending,
                    SessionOf, Broadcast, journal

\* Confirming keeps the types.
LEMMA TypeConfirm ==
  ASSUME TypeInv, NEW m \in mined, Confirm(m)
  PROVE  TypeInv'
<1>1. ctl' \in Process /\ ctl'.req = ctl.req
  BY DEF TypeInv, TypeOK, Process, Confirm
<1>2. TypeOK'
  BY <1>1 DEF TypeInv, TypeOK, Confirm, network
<1> QED
  BY <1>1, <1>2 DEF TypeInv, KnownSession, KnownRequest, RunningPending, Pending,
                    SessionOf, Confirm

\* A rebalance appends a strategy of the model to its session's plan.
LEMMA TypeRebalance ==
  ASSUME TypeInv, NEW r \in Requests, SettleRebalance(r)
  PROVE  TypeInv'
<1> DEFINE s == SessionOf(r)
<1> USE ConstantsAssumption
<1>1. /\ ctl.req = r
      /\ Pending(r)
      /\ attempt[r].body \in Bodies
      /\ s \in Sessions
      /\ session \in [Sessions -> Session]
  BY RunningRequest DEF SettleRebalance, Running, TypeInv, TypeOK
<1>2. Target(r) \in Strategies
  BY <1>1 DEF SettleRebalance, Target, Act, Body
<1>3. CASE session' = session
  BY <1>1, <1>3, TypeGoto DEF SettleRebalance, journal, Stages
<1>4. CASE session' = [session EXCEPT ![s].plan =
                         Append(@, [strategy |-> Target(r), by |-> r])]
  <2> DEFINE p == Append(session[s].plan, [strategy |-> Target(r), by |-> r])
  <2>1. p \in Seq(PlanEntry) /\ p # <<>>
    <3>1. session[s].plan \in Seq(PlanEntry)
      BY <1>1 DEF Session
    <3>2. [strategy |-> Target(r), by |-> r] \in PlanEntry
      BY <1>2 DEF PlanEntry
    <3> HIDE DEF s
    <3> QED
      BY <3>1, <3>2, AppendProperties
  <2>2. session' = [session EXCEPT ![s] = [session[s] EXCEPT !.plan = p]]
    BY <1>4
  <2> HIDE DEF p
  <2>3. [session[s] EXCEPT !.plan = p] \in Session
    BY <1>1, <2>1 DEF Session
  <2>4. session' \in [Sessions -> Session]
    BY <1>1, <2>2, <2>3
  <2>5. ctl' \in Process /\ RunningPending'
    BY <1>1 DEF SettleRebalance, Goto, Process, Stages, RunningPending, Pending
  <2>6. \A x \in Sessions : session'[x].status = session[x].status
    BY <1>1, <2>2 DEF Session
  <2>7. KnownSession'
    BY <1>1, <2>1, <2>2, <2>6 DEF TypeInv, KnownSession, Session
  <2>8. KnownRequest'
    BY <2>6 DEF TypeInv, KnownRequest, SettleRebalance, SessionOf, Body
  <2> QED
    BY <2>4, <2>5, <2>7, <2>8 DEF TypeInv, TypeOK, SettleRebalance, network
<1> QED
  BY <1>3, <1>4 DEF SettleRebalance, Followed
\* Mining keeps the types.
LEMMA TypeMine ==
  ASSUME TypeInv, NEW t \in pool, NEW ok \in BOOLEAN, Mine(t, ok)
  PROVE  TypeInv'
<1>1. t \in Tx /\ t.sender \in Accounts
  BY DEF TypeInv, TypeOK, Tx
<1>2. aqua' \in [Strategies -> {"absent", "active", "docked"}]
  BY DEF TypeInv, TypeOK, Mine, AquaAfter
<1>3. count' \in [Accounts -> Nat]
  BY <1>1 DEF TypeInv, TypeOK, Mine
<1>4. mined' \subseteq Receipt
  BY <1>1 DEF TypeInv, TypeOK, Mine, Receipt
<1>5. pool' \subseteq Tx /\ seen' \subseteq pool'
  BY DEF TypeInv, TypeOK, Mine, Later
<1>6. TypeOK'
  BY <1>2, <1>3, <1>4, <1>5 DEF TypeInv, TypeOK, Mine, journal
<1> QED
  BY <1>6, TypeNetwork DEF Mine

\* So do the transactions sent from elsewhere,
LEMMA TypeElsewhere ==
  ASSUME TypeInv,
         \/ \E a \in Accounts : SendElsewhere(a)
         \/ \E s \in Strategies : DockElsewhere(s)
  PROVE  TypeInv'
<1>1. PICK a \in Accounts :
        /\ aqua' = aqua \/ \E s \in Strategies : aqua' = [aqua EXCEPT ![s] = "docked"]
        /\ externals' = externals + 1
        /\ count' = [count EXCEPT ![a] = @ + 1]
        /\ pool' = Later(pool, a, count[a])
        /\ seen' = Later(seen, a, count[a])
        /\ UNCHANGED <<journal, ctl, mined, expired>>
  BY DEF SendElsewhere, DockElsewhere, Accounts
<1>2. count' \in [Accounts -> Nat] /\ externals' \in Nat
  BY <1>1 DEF TypeInv, TypeOK
<1>3. pool' \subseteq Tx /\ seen' \subseteq pool'
  BY <1>1 DEF TypeInv, TypeOK, Later
<1>4. aqua' \in [Strategies -> {"absent", "active", "docked"}]
  BY <1>1 DEF TypeInv, TypeOK
<1>5. TypeOK'
  BY <1>1, <1>2, <1>3, <1>4 DEF TypeInv, TypeOK, journal
<1> QED
  BY <1>1, <1>5, TypeNetwork

\* the deadlines, and the node that forgets.
LEMMA TypeTime ==
  ASSUME TypeInv,
         \/ \E s \in Strategies : Expire(s)
         \/ \E t \in seen : Forget(t)
  PROVE  TypeInv'
<1>1. TypeOK'
  BY DEF TypeInv, TypeOK, Expire, Forget, journal
<1> QED
  BY <1>1, TypeNetwork DEF Expire, Forget

\* The moves of a call that leave the journal alone.
Move(r) ==
  \/ EnterRisk(r) \/ EnterShip(r) \/ EnterChange(r) \/ EnterMonitor(r) \/ EnterDock(r)
  \/ \E stage \in {"preguard", "guard"}, s \in Strategies : WithinLimit(r, stage, s)
  \/ Advance(r) \/ VerifyRebalance(r) \/ SettleSwap(r)

\* They keep the types.
LEMMA TypeMoves ==
  ASSUME TypeInv, NEW r \in Requests, Move(r)
  PROVE  TypeInv'
<1>1. /\ ctl.req = r
      /\ UNCHANGED <<journal, network>>
      /\ \E stage \in Stages : Goto(r, stage)
  BY DEF Move, EnterRisk, EnterShip, EnterChange, EnterMonitor, EnterDock, WithinLimit,
         GuardAt, Advance, VerifyRebalance, SettleSwap, Running, Stages
<1> QED
  BY <1>1, TypeGoto

\* The moves that also store the new status of the session.
Conclusion(r) ==
  \/ SettleShip(r) \/ SettleRisk(r) \/ Close(r)
  \/ \E stage \in {"preguard", "guard"}, s \in Strategies : AlreadyDocked(r, stage, s)

\* They keep the types.
LEMMA TypeConclusion ==
  ASSUME TypeInv, NEW r \in Requests, Conclusion(r)
  PROVE  TypeInv'
<1>1. /\ ctl.req = r
      /\ UNCHANGED <<attempt, saved, receipts, network>>
      /\ \E stage \in Stages : Goto(r, stage)
      /\ \E status \in {"active", "closed"} :
           session' = [session EXCEPT ![SessionOf(r)].status = status]
  BY DEF Conclusion, SettleShip, SettleRisk, Close, AlreadyDocked, GuardAt, CloseSession,
         Running, Stages
<1>2. ctl' \in Process /\ RunningPending'
  BY <1>1, RunningRequest DEF Goto, Process, RunningPending, Pending
<1> QED
  BY <1>1, <1>2, TypeStatus

\* The ways a request ends.
End(r) ==
  \/ MonitorUnavailable(r) \/ FailExpired(r) \/ QuoteRejected(r) \/ Finish(r)
  \/ \E step \in Steps : FailReverted(r, step)

\* They keep the types.
LEMMA TypeEnd ==
  ASSUME TypeInv, NEW r \in Requests, End(r)
  PROVE  TypeInv'
<1>1. /\ ctl.req = r
      /\ UNCHANGED <<session, saved, receipts, network>>
      /\ \E status \in {"completed", "failed"} : Ended(r, status)
  BY DEF End, MonitorUnavailable, FailExpired, QuoteRejected, Finish, FailReverted,
         Running, Due
<1> QED
  BY <1>1, TypeEnded

\* Recording a breach keeps the types.
LEMMA TypeBreach ==
  ASSUME TypeInv, NEW r \in Requests, NEW stage \in {"preguard", "guard"},
         NEW s \in Strategies, WouldDock(r, stage, s)
  PROVE  TypeInv'
<1>1. ctl.req = r /\ attempt' = [attempt EXCEPT ![r].riskStop = s]
  BY DEF WouldDock, GuardAt, Running
<1>2. attempt \in [Requests -> Attempt]
  BY DEF TypeInv, TypeOK
<1>3. attempt' \in [Requests -> Attempt]
  BY <1>1, <1>2 DEF Attempt
<1>4. \A q \in Requests : /\ attempt'[q].body = attempt[q].body
                          /\ attempt'[q].status = attempt[q].status
  BY <1>1, <1>2 DEF Attempt
<1>5. ctl' \in Process /\ RunningPending'
  BY <1>1, <1>4, RunningRequest DEF WouldDock, Goto, Process, Stages, RunningPending, Pending
<1> QED
  BY <1>1, <1>3, <1>4, <1>5, TypeAttempt DEF WouldDock

\* The next-state relation, by the kind of its steps.
Kinds ==
  \/ \E r \in Requests : \/ \E b \in Bodies : Submit(r, b)
                         \/ Resume(r) \/ Move(r) \/ Conclusion(r) \/ End(r)
                         \/ SettleRebalance(r)
                         \/ \E stage \in {"preguard", "guard"}, s \in Strategies :
                              WouldDock(r, stage, s)
                         \/ \E step \in Steps, n \in Nonces : Prepare(r, step, n)
  \/ Interrupt
  \/ \E t \in saved : Broadcast(t)
  \/ \E m \in mined : Confirm(m)
  \/ \E t \in pool, ok \in BOOLEAN : Mine(t, ok)
  \/ \E a \in Accounts : SendElsewhere(a)
  \/ \E s \in Strategies : DockElsewhere(s)
  \/ \E s \in Strategies : Expire(s)
  \/ \E t \in seen : Forget(t)

\* Every step is of one of these kinds.
LEMMA NextKinds == Next => Kinds
BY DEF Next, Call, Send, Step, Chain, Kinds, Move, Conclusion, End

\* The types are kept by every step.
LEMMA TypeStep == TypeInv /\ [Next]_vars => TypeInv'
<1> SUFFICES ASSUME TypeInv, [Next]_vars PROVE TypeInv'
    OBVIOUS
<1>1. ASSUME NEW r \in Requests, Resume(r) PROVE TypeInv'
  BY <1>1, TypeGoto DEF Resume, Stages
<1>2. CASE Interrupt
  BY <1>2, TypeMove DEF Interrupt, Idle, Process, Stages, RunningPending
<1>3. CASE UNCHANGED vars
  BY <1>3 DEF vars, TypeInv, TypeOK, KnownSession, KnownRequest, RunningPending,
              Pending, SessionOf
<1> QED
  BY <1>1, <1>2, <1>3, NextKinds, TypeSubmit, TypeMoves, TypeConclusion, TypeEnd,
     TypeRebalance, TypeBreach, TypePrepare, TypeBroadcast, TypeConfirm, TypeMine,
     TypeElsewhere, TypeTime DEF Kinds

\* Whatever the requests, crashes and network, the journal and the network keep
\* their shapes, and a running request is stored and pending.
THEOREM TypeInvariant == Spec => []TypeInv
BY TypeInit, TypeStep, PTL DEF Spec

\* The type invariant the runs check.
THEOREM TypeCorrect == Spec => []TypeOK
BY TypeInvariant, PTL DEF TypeInv

-----------------------------------------------------------------------------
(* Layer 2: the journal and the network agree on the transactions.         *)

\* At most one transaction is signed for a step of a request.
SavedOnce ==
  \A t, u \in saved : t.req = u.req /\ t.step = u.step => t = u

\* A mined transaction has left the pool, and is mined once.
PoolUnmined == \A t \in pool, m \in mined : m.tx # t
MinedOnce == \A m1, m2 \in mined : m1.tx = m2.tx => m1 = m2

SavedKnown == \A t \in saved : attempt[t.req].status # "none"

LedgerInv ==
  /\ SavedOnce
  /\ WriteAhead
  /\ PoolUnmined
  /\ MinedOnce
  /\ receipts \subseteq mined
  /\ SavedKnown

\* What the steps of a call but its sends leave alone, and that no step
\* removes a request from the journal.
LEMMA Frame ==
  ASSUME TypeInv, NEW r \in Requests,
         \/ \E b \in Bodies : Submit(r, b)
         \/ Resume(r) \/ Move(r) \/ Conclusion(r) \/ End(r) \/ SettleRebalance(r)
         \/ \E stage \in {"preguard", "guard"}, s \in Strategies : WouldDock(r, stage, s)
  PROVE  /\ UNCHANGED <<saved, receipts, network>>
         /\ \A q \in Requests : attempt[q].status # "none" => attempt'[q].status # "none"
<1> USE DEF journal
<1>0. attempt \in [Requests -> Attempt]
  BY DEF TypeInv, TypeOK
<1>1. ASSUME NEW b \in Bodies, Submit(r, b)
      PROVE  /\ UNCHANGED <<saved, receipts, network>>
             /\ \A q \in Requests : attempt[q].status # "none" => attempt'[q].status # "none"
  BY <1>0, <1>1 DEF Submit, NewAttempt
<1>2. CASE Move(r)
  BY <1>2 DEF Move, EnterRisk, EnterShip, EnterChange, EnterMonitor, EnterDock, WithinLimit,
              Advance, VerifyRebalance, SettleSwap
<1>3. CASE Conclusion(r)
  BY <1>3 DEF Conclusion, SettleShip, SettleRisk, Close, AlreadyDocked
<1>4. CASE End(r)
  <2>1. /\ UNCHANGED <<saved, receipts, network>>
        /\ \E status \in {"completed", "failed"} : Ended(r, status)
    BY <1>4 DEF End, MonitorUnavailable, FailExpired, QuoteRejected, Finish, FailReverted
  <2> QED
    BY <1>0, <2>1 DEF Ended, Attempt
<1>5. ASSUME NEW stage \in {"preguard", "guard"}, NEW s \in Strategies, WouldDock(r, stage, s)
      PROVE  /\ UNCHANGED <<saved, receipts, network>>
             /\ \A q \in Requests : attempt[q].status # "none" => attempt'[q].status # "none"
  BY <1>0, <1>5 DEF WouldDock, Attempt
<1> QED
  BY <1>1, <1>2, <1>3, <1>4, <1>5 DEF Resume, SettleRebalance

\* A step that signs, mines and confirms nothing.
LEMMA LedgerQuiet ==
  ASSUME LedgerInv, TypeInv, UNCHANGED <<saved, receipts, mined>>, pool' \subseteq pool,
         \A q \in Requests : attempt[q].status # "none" => attempt'[q].status # "none"
  PROVE  LedgerInv'
BY DEF LedgerInv, SavedOnce, WriteAhead, PoolUnmined, MinedOnce, SavedKnown,
       TypeInv, TypeOK, Tx

\* Signing: the step has no transaction yet, and its request is known.
LEMMA LedgerPrepare ==
  ASSUME LedgerInv, TypeInv, NEW r \in Requests, NEW step \in Steps, NEW n \in Nonces,
         Prepare(r, step, n)
  PROVE  LedgerInv'
<1> DEFINE t == [req |-> r, step |-> step, sender |-> SenderOf(r, step), nonce |-> n]
<1>1. saved' = saved \cup {t} /\ UNCHANGED <<attempt, receipts, mined, pool>>
  BY DEF Prepare, network
<1>2. \A u \in saved : ~(u.req = r /\ u.step = step)
  BY DEF Prepare, Has
<1>3. attempt[r].status # "none"
  BY RunningRequest DEF Prepare, Due, Pending
<1>4. t.req = r /\ t.step = step
  OBVIOUS
<1> HIDE DEF t
<1>5. SavedOnce'
  BY <1>1, <1>2, <1>4 DEF LedgerInv, SavedOnce
<1>6. SavedKnown'
  BY <1>1, <1>3, <1>4 DEF LedgerInv, SavedKnown
<1> QED
  BY <1>1, <1>5, <1>6 DEF LedgerInv, WriteAhead, PoolUnmined, MinedOnce

\* Broadcasting: only a saved transaction that is not mined.
LEMMA LedgerBroadcast ==
  ASSUME LedgerInv, TypeInv, NEW t \in saved, Broadcast(t)
  PROVE  LedgerInv'
BY DEF LedgerInv, SavedOnce, WriteAhead, PoolUnmined, MinedOnce, SavedKnown,
       Broadcast, journal

\* Confirming: only what the chain has mined.
LEMMA LedgerConfirm ==
  ASSUME LedgerInv, TypeInv, NEW m \in mined, Confirm(m)
  PROVE  LedgerInv'
BY DEF LedgerInv, SavedOnce, WriteAhead, PoolUnmined, MinedOnce, SavedKnown,
       Confirm, network

\* Mining: the transaction leaves the pool, and was not mined before.
LEMMA LedgerMine ==
  ASSUME LedgerInv, TypeInv, NEW t \in pool, NEW ok \in BOOLEAN, Mine(t, ok)
  PROVE  LedgerInv'
<1> DEFINE k == [tx |-> t, ok |-> ok]
<1>1. /\ mined' = mined \cup {k}
      /\ pool' \subseteq pool \ {t}
      /\ UNCHANGED <<attempt, saved, receipts>>
  BY DEF Mine, Later, journal
<1>2. k.tx = t
  OBVIOUS
<1> HIDE DEF k
<1>3. \A m \in mined : m.tx # t
  BY DEF LedgerInv, PoolUnmined
<1>4. PoolUnmined' /\ MinedOnce'
  BY <1>1, <1>2, <1>3 DEF LedgerInv, PoolUnmined, MinedOnce
<1>5. WriteAhead'
  BY <1>1, <1>2 DEF LedgerInv, WriteAhead
<1> QED
  BY <1>1, <1>4, <1>5 DEF LedgerInv, SavedOnce, SavedKnown

\* The journal and the network keep agreeing.
LEMMA LedgerStep == TypeInv /\ LedgerInv /\ [Next]_vars => LedgerInv'
<1> SUFFICES ASSUME TypeInv, LedgerInv, [Next]_vars PROVE LedgerInv'
    OBVIOUS
<1>1. ASSUME NEW r \in Requests,
             \/ \E b \in Bodies : Submit(r, b)
             \/ Resume(r) \/ Move(r) \/ Conclusion(r) \/ End(r) \/ SettleRebalance(r)
             \/ \E stage \in {"preguard", "guard"}, s \in Strategies : WouldDock(r, stage, s)
      PROVE  LedgerInv'
  BY <1>1, Frame, LedgerQuiet DEF network
<1>2. CASE \/ Interrupt
           \/ \E a \in Accounts : SendElsewhere(a)
           \/ \E s \in Strategies : DockElsewhere(s)
           \/ \E s \in Strategies : Expire(s)
           \/ \E t \in seen : Forget(t)
           \/ UNCHANGED vars
  <2>1. UNCHANGED <<attempt, saved, receipts, mined>> /\ pool' \subseteq pool
    BY <1>2 DEF Interrupt, SendElsewhere, DockElsewhere, Expire, Forget, Later, vars,
                journal, network
  <2> QED
    BY <2>1, LedgerQuiet
<1> QED
  BY <1>1, <1>2, NextKinds, LedgerPrepare, LedgerBroadcast, LedgerConfirm, LedgerMine
     DEF Kinds

\* The initial journal and network are empty.
LEMMA LedgerInit == Init => LedgerInv
BY DEF Init, LedgerInv, SavedOnce, WriteAhead, PoolUnmined, MinedOnce, SavedKnown

\* The journal knows every transaction on the network, each step of a request
\* has one transaction at most, and it is mined at most once.
THEOREM LedgerInvariant == Spec => []LedgerInv
BY LedgerInit, LedgerStep, TypeInvariant, PTL DEF Spec

\* Whatever the crashes, a step of a request reaches the chain at most once.
THEOREM StepsReachTheChainOnce == Spec => []OncePerStep
<1>1. LedgerInv => OncePerStep
  <2> SUFFICES ASSUME LedgerInv, NEW m1 \in mined, NEW m2 \in mined,
                      m1.tx.req = m2.tx.req, m1.tx.step = m2.tx.step
               PROVE  m1 = m2
    BY DEF OncePerStep
  <2>1. m1.tx \in saved /\ m2.tx \in saved
    BY DEF LedgerInv, WriteAhead
  <2>2. m1.tx = m2.tx
    BY <2>1 DEF LedgerInv, SavedOnce
  <2> QED
    BY <2>2 DEF LedgerInv, MinedOnce
<1> QED
  BY <1>1, LedgerInvariant, PTL

-----------------------------------------------------------------------------
(* Layer 3: where a call stands, and which transactions are settled.       *)

\* The step has no transaction of the request, or one whose receipt is stored.
Settled(r, step) ==
  \A t \in saved : t.req = r /\ t.step = step => \E m \in receipts : m.tx = t

Approvals(r) ==
  CASE Act(r) \in {"ship", "rebalance"} -> MakerApprove
    [] Act(r) = "swap" -> {TakerApprove}
    [] OTHER -> {}

\* A breach is recorded before its dock is signed, and only when the primary
\* transaction is out of the way; the primary is signed after its approvals.
RequestInv(r) ==
  /\ Has(r, RiskDock) => attempt[r].riskStop # None
  /\ attempt[r].riskStop # None => Settled(r, Primary)
  /\ Has(r, Primary) => /\ Act(r) # "monitor"
                        /\ \A step \in Approvals(r) : Succeeded(r, step)

\* What a call that stands at a stage has behind it.
Reached(r, stage) ==
  /\ attempt[r].riskStop # None => stage \in {"entry", "risk", "finish"}
  /\ stage = "risk" => attempt[r].riskStop # None
  /\ stage = "preguard" => ~Has(r, Primary) /\ Act(r) \in {"rebalance", "swap"}
  /\ stage = "approve" => Act(r) \in {"ship", "rebalance", "swap"}
  /\ stage = "primary" =>
       Act(r) # "monitor" /\ \A step \in Approvals(r) : Succeeded(r, step)
  /\ stage \in {"settle", "verify", "guard", "close", "revoke", "finish"} =>
       Settled(r, Primary)
  /\ stage = "finish" => Settled(r, RiskDock)

StageInv ==
  /\ ResultIsFinal
  /\ \A r \in Requests : RequestInv(r)
  /\ \A r \in Requests : ctl.req = r => Reached(r, ctl.at)

\* A receipt settles the step it belongs to.
LEMMA ReceiptSettles ==
  ASSUME LedgerInv, NEW r \in Requests, NEW step, Outcome(r, step) # {}
  PROVE  Settled(r, step)
<1>1. PICK m \in receipts : m.tx.req = r /\ m.tx.step = step
  BY DEF Outcome
<1>2. m.tx \in saved
  BY DEF LedgerInv, WriteAhead
<1>3. \A t \in saved : t.req = r /\ t.step = step => t = m.tx
  BY <1>1, <1>2 DEF LedgerInv, SavedOnce
<1> QED
  BY <1>3 DEF Settled

\* A step that is not signed is settled.
LEMMA UnsignedSettled ==
  ASSUME NEW r \in Requests, NEW step, ~Has(r, step)
  PROVE  Settled(r, step)
BY DEF Has, Settled

\* A step that leaves the requests and their transactions alone.
LEMMA StageKept ==
  ASSUME StageInv, UNCHANGED <<attempt, saved, receipts>>,
         \A r \in Requests : ctl'.req = r => Reached(r, ctl'.at)
  PROVE  StageInv'
<1>1. ResultIsFinal'
  BY DEF StageInv, ResultIsFinal, Pending
<1>2. ASSUME NEW r \in Requests PROVE RequestInv(r)' /\ (ctl'.req = r => Reached(r, ctl.at)')
  BY DEF StageInv, RequestInv, Reached, Has, Settled, Approvals, Act, Succeeded, Outcome
<1> QED
  BY <1>1, <1>2 DEF StageInv

\* A call that goes on to a stage whose facts hold.
LEMMA StageGoto ==
  ASSUME StageInv, NEW r \in Requests, NEW stage, Goto(r, stage), Reached(r, stage),
         UNCHANGED <<attempt, saved, receipts>>
  PROVE  StageInv'
<1>1. ctl'.req = r /\ ctl'.at = stage
  BY DEF Goto
<1> QED
  BY <1>1, StageKept

\* A call that ends, with its primary and its risk dock settled.
LEMMA StageEnded ==
  ASSUME TypeInv, StageInv, NEW r \in Requests, NEW status, Ended(r, status),
         status \in {"completed", "failed"}, Pending(r),
         Settled(r, Primary), Settled(r, RiskDock), UNCHANGED <<saved, receipts>>
  PROVE  StageInv'
<1>1. /\ attempt \in [Requests -> Attempt]
      /\ attempt' = [attempt EXCEPT ![r].status = status]
      /\ ctl' = Idle
  BY DEF TypeInv, TypeOK, Ended
<1>2. \A q \in Requests : /\ attempt'[q].body = attempt[q].body
                          /\ attempt'[q].riskStop = attempt[q].riskStop
                          /\ q # r => attempt'[q] = attempt[q]
  BY <1>1 DEF Attempt
<1>3. ASSUME NEW q \in Requests PROVE RequestInv(q)'
  BY <1>2 DEF StageInv, RequestInv, Has, Settled, Approvals, Act, Succeeded, Outcome
<1>4. ResultIsFinal'
  <2> SUFFICES ASSUME NEW t \in saved, t.step \in {Primary, RiskDock}, ~Pending(t.req)'
               PROVE  \E m \in receipts : m.tx = t
    BY DEF ResultIsFinal
  <2>1. CASE t.req = r
    BY <2>1 DEF Settled
  <2>2. CASE t.req # r
    <3>1. t.req \in Requests
      BY DEF TypeInv, TypeOK, Tx
    <3>2. ~Pending(t.req)
      BY <1>2, <2>2, <3>1 DEF Pending
    <3> QED
      BY <3>2 DEF StageInv, ResultIsFinal
  <2> QED
    BY <2>1, <2>2
<1>5. \A q \in Requests : ctl'.req # q
  BY <1>1, ConstantsAssumption DEF Idle
<1> QED
  BY <1>3, <1>4, <1>5 DEF StageInv

\* Outside the stages of a breach, no risk dock is signed.
LEMMA NoRiskDock ==
  ASSUME StageInv, NEW r \in Requests, attempt[r].riskStop = None
  PROVE  Settled(r, RiskDock)
BY UnsignedSettled DEF StageInv, RequestInv

\* Accepting a request: it has signed nothing yet.
LEMMA StageSubmit ==
  ASSUME TypeInv, LedgerInv, StageInv, NEW r \in Requests, NEW b \in Bodies, Submit(r, b)
  PROVE  StageInv'
<1>1. /\ attempt \in [Requests -> Attempt]
      /\ attempt[r].status = "none"
      /\ UNCHANGED <<saved, receipts>>
      /\ ctl'.req = r /\ ctl'.at = "entry"
  BY DEF TypeInv, TypeOK, Submit, Goto
<1>2. /\ \A q \in Requests : q # r => attempt'[q] = attempt[q]
      /\ attempt'[r].status = "pending"
      /\ attempt'[r].riskStop = None
  BY <1>1 DEF Submit, NewAttempt
<1>3. \A t \in saved : t.req # r
  BY <1>1 DEF LedgerInv, SavedKnown
<1>4. ResultIsFinal'
  <2> SUFFICES ASSUME NEW t \in saved, t.step \in {Primary, RiskDock}, ~Pending(t.req)'
               PROVE  \E m \in receipts : m.tx = t
    BY <1>1 DEF ResultIsFinal
  <2>1. t.req \in Requests /\ t.req # r
    BY <1>3 DEF TypeInv, TypeOK, Tx
  <2>2. ~Pending(t.req)
    BY <1>2, <2>1 DEF Pending
  <2> QED
    BY <2>2 DEF StageInv, ResultIsFinal
<1>5. RequestInv(r)'
  BY <1>1, <1>2, <1>3 DEF RequestInv, Has
<1>6. ASSUME NEW q \in Requests, q # r PROVE RequestInv(q)'
  <2>1. attempt'[q].body = attempt[q].body /\ attempt'[q].riskStop = attempt[q].riskStop
    BY <1>2, <1>6
  <2>2. RequestInv(q)
    BY DEF StageInv
  <2> QED
    BY <1>1, <2>1, <2>2 DEF RequestInv, Has, Settled, Approvals, Act, Succeeded, Outcome
<1>7. Reached(r, ctl.at)'
  BY <1>1, <1>2 DEF Reached
<1> QED
  BY <1>1, <1>4, <1>5, <1>6, <1>7 DEF StageInv

\* The moves of a call.
LEMMA StageMoves ==
  ASSUME TypeInv, LedgerInv, StageInv, NEW r \in Requests, Move(r)
  PROVE  StageInv'
<1> USE DEF Running, Reached
<1>0. /\ UNCHANGED <<attempt, saved, receipts>>
      /\ ctl.req = r
      /\ RequestInv(r) /\ Reached(r, ctl.at)
  BY DEF Move, EnterRisk, EnterShip, EnterChange, EnterMonitor, EnterDock, WithinLimit,
         Advance, VerifyRebalance, SettleSwap, GuardAt, StageInv, journal
<1>1. CASE EnterRisk(r)
  BY <1>0, <1>1, StageGoto DEF EnterRisk
<1>2. CASE EnterShip(r)
  BY <1>0, <1>2, StageGoto DEF EnterShip
<1>3. CASE EnterChange(r)
  BY <1>0, <1>3, StageGoto DEF EnterChange
<1>4. CASE EnterMonitor(r)
  BY <1>0, <1>4, StageGoto, UnsignedSettled DEF EnterMonitor, RequestInv
<1>5. CASE EnterDock(r)
  <2>1. CASE Goto(r, "primary")
    BY <1>0, <1>5, <2>1, StageGoto DEF EnterDock, Approvals
  <2>2. CASE Goto(r, "close") /\ ~Has(r, Primary)
    BY <1>0, <1>5, <2>2, StageGoto, UnsignedSettled DEF EnterDock
  <2> QED
    BY <1>5, <2>1, <2>2 DEF EnterDock, NeverShipped
<1>6. ASSUME NEW stage \in {"preguard", "guard"}, NEW s \in Strategies,
             WithinLimit(r, stage, s)
      PROVE  StageInv'
  <2>1. attempt[r].riskStop = None /\ ctl.at = stage
    BY <1>0, <1>6 DEF WithinLimit, GuardAt
  <2>2. CASE stage = "guard"
    BY <1>0, <1>6, <2>1, <2>2, StageGoto, NoRiskDock DEF WithinLimit
  <2>3. CASE stage = "preguard"
    BY <1>0, <1>6, <2>1, <2>3, StageGoto DEF WithinLimit
  <2> QED
    BY <2>2, <2>3
<1>7. CASE Advance(r)
  <2>1. CASE Running(r, "approve") /\ Goto(r, "primary")
    <3>1. \A step \in Approvals(r) : Succeeded(r, step)
      BY <1>0, <1>7, <2>1 DEF Advance, AllSent, StageSteps, Approvals
    <3> QED
      BY <1>0, <2>1, <3>1, StageGoto
  <2>2. CASE /\ Running(r, "primary")
             /\ Goto(r, IF Act(r) = "dock" THEN "close" ELSE "settle")
    <3>1. Succeeded(r, Primary)
      BY <1>7, <2>2 DEF Advance, AllSent, StageSteps
    <3>2. Settled(r, Primary)
      BY <3>1, ReceiptSettles DEF Succeeded
    <3> QED
      BY <1>0, <2>2, <3>2, StageGoto
  <2>3. CASE Running(r, "revoke") /\ Goto(r, "finish")
    BY <1>0, <2>3, StageGoto, NoRiskDock
  <2> QED
    BY <1>7, <2>1, <2>2, <2>3 DEF Advance
<1>8. CASE VerifyRebalance(r)
  BY <1>0, <1>8, StageGoto DEF VerifyRebalance
<1>9. CASE SettleSwap(r)
  BY <1>0, <1>9, StageGoto DEF SettleSwap
<1> QED
  BY <1>1, <1>2, <1>3, <1>4, <1>5, <1>6, <1>7, <1>8, <1>9 DEF Move

\* The moves that store the session.
LEMMA StageConclusion ==
  ASSUME TypeInv, LedgerInv, StageInv, NEW r \in Requests, Conclusion(r)
  PROVE  StageInv'
<1> USE DEF Running, Reached
<1>0. /\ UNCHANGED <<attempt, saved, receipts>>
      /\ ctl.req = r
      /\ RequestInv(r) /\ Reached(r, ctl.at)
  BY DEF Conclusion, SettleShip, SettleRisk, Close, AlreadyDocked, GuardAt, StageInv
<1>1. CASE SettleShip(r)
  BY <1>0, <1>1, StageGoto DEF SettleShip
<1>2. CASE SettleRisk(r)
  <2>1. Settled(r, RiskDock)
    <3>1. CASE Has(r, RiskDock)
      <4>1. Succeeded(r, RiskDock)
        BY <1>2, <3>1 DEF SettleRisk, AllSent, StageSteps
      <4> QED
        BY <4>1, ReceiptSettles DEF Succeeded
    <3> QED
      BY <3>1, UnsignedSettled
  <2>2. Settled(r, Primary)
    BY <1>0, <1>2 DEF SettleRisk, RequestInv
  <2> QED
    BY <1>0, <1>2, <2>1, <2>2, StageGoto DEF SettleRisk
<1>3. CASE Close(r)
  BY <1>0, <1>3, StageGoto, NoRiskDock DEF Close
<1>4. ASSUME NEW stage \in {"preguard", "guard"}, NEW s \in Strategies,
             AlreadyDocked(r, stage, s)
      PROVE  StageInv'
  <2>1. attempt[r].riskStop = None /\ ctl.at = stage /\ Goto(r, "finish")
    BY <1>0, <1>4 DEF AlreadyDocked, GuardAt
  <2>2. Settled(r, Primary)
    BY <1>0, <2>1, UnsignedSettled
  <2> QED
    BY <1>0, <2>1, <2>2, StageGoto, NoRiskDock
<1> QED
  BY <1>1, <1>2, <1>3, <1>4 DEF Conclusion

\* A request ends only with its primary and its risk dock settled.
LEMMA StageEnd ==
  ASSUME TypeInv, LedgerInv, StageInv, NEW r \in Requests, End(r)
  PROVE  StageInv'
<1> USE DEF Running, Reached
<1>0. /\ UNCHANGED <<saved, receipts>>
      /\ ctl.req = r
      /\ RequestInv(r) /\ Reached(r, ctl.at)
      /\ \E status \in {"completed", "failed"} : Ended(r, status)
  BY DEF End, MonitorUnavailable, FailExpired, QuoteRejected, Finish, FailReverted, Due,
         StageInv
<1>1. Pending(r)
  BY <1>0, RunningRequest
<1>2. Settled(r, Primary) /\ Settled(r, RiskDock)
  <2>1. CASE MonitorUnavailable(r)
    BY <1>0, <2>1, NoRiskDock DEF MonitorUnavailable
  <2>2. CASE FailExpired(r)
    BY <1>0, <2>2, NoRiskDock, UnsignedSettled DEF FailExpired, ExpiredUnsigned
  <2>3. CASE QuoteRejected(r)
    <3>1. ctl.at = "primary"
      BY <2>3 DEF QuoteRejected, Due, StageSteps, Primary, RiskDock, TakerApprove,
                  MakerApprove, MakerRevoke
    <3> QED
      BY <1>0, <2>3, <3>1, NoRiskDock, UnsignedSettled DEF QuoteRejected
  <2>4. CASE Finish(r)
    BY <1>0, <2>4 DEF Finish
  <2>5. ASSUME NEW step \in Steps, FailReverted(r, step)
        PROVE  Settled(r, Primary) /\ Settled(r, RiskDock)
    <3>1. step \in StageSteps(r) /\ ~Succeeded(r, step) /\ Settled(r, step)
      BY <2>5, ReceiptSettles DEF FailReverted, Due, Reverted
    <3>2. CASE ctl.at = "approve"
      <4>1. step \in Approvals(r)
        BY <1>0, <3>1, <3>2 DEF StageSteps, Approvals
      <4>2. ~Has(r, Primary)
        BY <1>0, <3>1, <4>1 DEF RequestInv
      <4> QED
        BY <1>0, <3>2, <4>2, NoRiskDock, UnsignedSettled
    <3>3. CASE ctl.at = "primary"
      BY <1>0, <3>1, <3>3, NoRiskDock DEF StageSteps
    <3>4. CASE ctl.at = "risk"
      BY <1>0, <3>1, <3>4 DEF StageSteps, RequestInv
    <3>5. CASE ctl.at = "revoke"
      BY <1>0, <3>5, NoRiskDock
    <3> QED
      BY <3>1, <3>2, <3>3, <3>4, <3>5 DEF StageSteps
  <2> QED
    BY <2>1, <2>2, <2>3, <2>4, <2>5 DEF End
<1> QED
  BY <1>0, <1>1, <1>2, StageEnded

\* A breach is recorded once the primary transaction is settled.
LEMMA StageBreach ==
  ASSUME TypeInv, LedgerInv, StageInv, NEW r \in Requests,
         NEW stage \in {"preguard", "guard"}, NEW s \in Strategies, WouldDock(r, stage, s)
  PROVE  StageInv'
<1>1. /\ attempt \in [Requests -> Attempt]
      /\ attempt' = [attempt EXCEPT ![r].riskStop = s]
      /\ ctl.req = r /\ ctl.at = stage
      /\ ctl'.req = r /\ ctl'.at = "risk"
      /\ UNCHANGED <<saved, receipts>>
  BY DEF TypeInv, TypeOK, WouldDock, GuardAt, Running, Goto
<1>2. \A q \in Requests : /\ attempt'[q].body = attempt[q].body
                          /\ attempt'[q].status = attempt[q].status
                          /\ q # r => attempt'[q].riskStop = attempt[q].riskStop
  BY <1>1 DEF Attempt
<1>3. attempt'[r].riskStop = s /\ s # None
  BY <1>1, ConstantsAssumption DEF Attempt
<1>4. Settled(r, Primary)
  BY <1>1, UnsignedSettled DEF StageInv, Reached
<1>5. ResultIsFinal'
  <2>1. \A t \in saved : t.req \in Requests
    BY DEF TypeInv, TypeOK, Tx
  <2> QED
    BY <1>1, <1>2, <2>1 DEF StageInv, ResultIsFinal, Pending
<1>6. RequestInv(r)'
  <2>1. RequestInv(r)
    BY DEF StageInv
  <2> QED
    BY <1>1, <1>2, <1>3, <1>4, <2>1
       DEF RequestInv, Has, Settled, Approvals, Act, Succeeded, Outcome
<1>7. ASSUME NEW q \in Requests, q # r PROVE RequestInv(q)'
  <2>1. RequestInv(q)
    BY DEF StageInv
  <2> QED
    BY <1>1, <1>2, <1>7, <2>1
       DEF RequestInv, Has, Settled, Approvals, Act, Succeeded, Outcome
<1>8. Reached(r, ctl.at)'
  BY <1>1, <1>3 DEF Reached
<1> QED
  BY <1>1, <1>5, <1>6, <1>7, <1>8 DEF StageInv

\* Signing: a risk dock after the breach is recorded, a primary transaction
\* after its approvals, and neither for a request that has its result.
LEMMA StagePrepare ==
  ASSUME TypeInv, LedgerInv, StageInv, NEW r \in Requests, NEW step \in Steps,
         NEW n \in Nonces, Prepare(r, step, n)
  PROVE  StageInv'
<1> DEFINE t == [req |-> r, step |-> step, sender |-> SenderOf(r, step), nonce |-> n]
<1>1. /\ saved' = saved \cup {t}
      /\ UNCHANGED <<attempt, receipts, ctl>>
      /\ ctl.req = r /\ step \in StageSteps(r)
  BY DEF Prepare, Due, network
<1>2. t.req = r /\ t.step = step
  OBVIOUS
<1> HIDE DEF t
<1>3. RequestInv(r) /\ Reached(r, ctl.at)
  BY <1>1 DEF StageInv
<1>4. Pending(r)
  BY <1>1, RunningRequest
<1>5. ResultIsFinal'
  BY <1>1, <1>2, <1>4 DEF StageInv, ResultIsFinal, Pending
<1>6. ASSUME NEW q \in Requests, q # r PROVE RequestInv(q)'
  <2>1. RequestInv(q)
    BY DEF StageInv
  <2> QED
    BY <1>1, <1>2, <1>6, <2>1
       DEF RequestInv, Has, Settled, Approvals, Act, Succeeded, Outcome
<1>7. \A x \in Steps : x # step => /\ Has(r, x)' <=> Has(r, x)
                                   /\ Settled(r, x)' <=> Settled(r, x)
  BY <1>1, <1>2 DEF Has, Settled
<1>8. \A x \in Steps : Succeeded(r, x)' <=> Succeeded(r, x)
  BY <1>1 DEF Succeeded, Outcome
<1>9. /\ step = Primary => ctl.at = "primary"
      /\ step = RiskDock => ctl.at = "risk"
      /\ ctl.at \in {"approve", "primary", "risk", "revoke"}
  BY <1>1 DEF StageSteps, Primary, RiskDock, TakerApprove, MakerApprove, MakerRevoke
<1>10. Primary # RiskDock /\ Primary \in Steps /\ RiskDock \in Steps /\ Approvals(r) \subseteq Steps
  BY DEF Steps, Primary, RiskDock, Approvals
<1>11. Approvals(r)' = Approvals(r) /\ Act(r)' = Act(r)
  BY <1>1 DEF Approvals, Act
<1>12. RequestInv(r)'
  BY <1>1, <1>3, <1>7, <1>8, <1>9, <1>10, <1>11 DEF RequestInv, Reached
<1>13. Reached(r, ctl.at)'
  BY <1>1, <1>3, <1>7, <1>8, <1>9, <1>10, <1>11 DEF Reached
<1> QED
  BY <1>1, <1>5, <1>6, <1>12, <1>13 DEF StageInv

\* Confirming only adds receipts.
LEMMA StageConfirm ==
  ASSUME StageInv, NEW m \in mined, Confirm(m)
  PROVE  StageInv'
<1>1. /\ receipts \subseteq receipts'
      /\ UNCHANGED <<attempt, saved>>
      /\ ctl'.req = ctl.req /\ ctl'.at = ctl.at
  BY DEF Confirm, Due
<1>2. ResultIsFinal'
  BY <1>1 DEF StageInv, ResultIsFinal, Pending
<1>3. ASSUME NEW r \in Requests
      PROVE  /\ Has(r, Primary)' <=> Has(r, Primary)
             /\ Has(r, RiskDock)' <=> Has(r, RiskDock)
             /\ Settled(r, Primary) => Settled(r, Primary)'
             /\ Settled(r, RiskDock) => Settled(r, RiskDock)'
             /\ \A x \in Approvals(r) : Succeeded(r, x) => Succeeded(r, x)'
             /\ Approvals(r)' = Approvals(r)
             /\ Act(r)' = Act(r)
  BY <1>1 DEF Has, Settled, Succeeded, Outcome, Approvals, Act
<1>4. ASSUME NEW r \in Requests PROVE RequestInv(r)'
  BY <1>1, <1>3 DEF StageInv, RequestInv
<1>5. ASSUME NEW r \in Requests, ctl'.req = r PROVE Reached(r, ctl.at)'
  BY <1>1, <1>3, <1>5 DEF StageInv, Reached
<1> QED
  BY <1>2, <1>4, <1>5 DEF StageInv

\* Recording the rebalance in the session.
LEMMA StageRebalance ==
  ASSUME StageInv, NEW r \in Requests, SettleRebalance(r)
  PROVE  StageInv'
<1>1. /\ ctl.req = r /\ ctl.at = "settle"
      /\ UNCHANGED <<attempt, saved, receipts>>
      /\ Goto(r, "verify")
  BY DEF SettleRebalance, Running
<1>2. Reached(r, "verify")
  BY <1>1 DEF StageInv, Reached
<1> QED
  BY <1>1, <1>2, StageGoto

\* The facts about the stages are kept by every step.
LEMMA StageStep == TypeInv /\ LedgerInv /\ StageInv /\ [Next]_vars => StageInv'
<1> SUFFICES ASSUME TypeInv, LedgerInv, StageInv, [Next]_vars PROVE StageInv'
    OBVIOUS
<1>1. ASSUME NEW r \in Requests, Resume(r) PROVE StageInv'
  BY <1>1, StageGoto DEF Resume, Reached, journal
<1>2. CASE Interrupt
  BY <1>2, StageKept, ConstantsAssumption DEF Interrupt, Idle, journal
<1>3. CASE \/ \E t \in saved : Broadcast(t)
           \/ \E t \in pool, ok \in BOOLEAN : Mine(t, ok)
           \/ \E a \in Accounts : SendElsewhere(a)
           \/ \E s \in Strategies : DockElsewhere(s)
           \/ \E s \in Strategies : Expire(s)
           \/ \E t \in seen : Forget(t)
           \/ UNCHANGED vars
  <2>1. /\ UNCHANGED <<attempt, saved, receipts>>
        /\ ctl'.req = ctl.req /\ ctl'.at = ctl.at
    BY <1>3 DEF Broadcast, Mine, SendElsewhere, DockElsewhere, Expire, Forget, vars, journal,
                TypeInv, TypeOK, Process
  <2> QED
    BY <2>1, StageKept DEF StageInv
<1> QED
  BY <1>1, <1>2, <1>3, NextKinds, StageSubmit, StageMoves, StageConclusion, StageEnd,
     StageRebalance, StageBreach, StagePrepare, StageConfirm DEF Kinds

\* Nothing is signed and nothing runs initially.
LEMMA StageInit == Init => StageInv
BY ConstantsAssumption
   DEF Init, StageInv, ResultIsFinal, RequestInv, Reached, Has, NoAttempt, Idle

\* Where a call stands tells what it has behind it, and what has a result is
\* settled.
THEOREM StageInvariant == Spec => []StageInv
BY StageInit, StageStep, TypeInvariant, LedgerInvariant, PTL DEF Spec

\* Whatever interrupts and resumes the calls, a request that has its result has
\* no state change of its own in flight.
THEOREM ResultsAreFinal == Spec => []ResultIsFinal
BY StageInvariant, PTL DEF StageInv

\* Once a breach is recorded, a request signs nothing but the dock.
THEOREM BreachSignsOnlyTheDock == Spec => NothingButTheDock
<1> DEFINE OnlyDock == \A r \in Requests : attempt[r].riskStop # None =>
                         \A t \in saved' \ saved : t.req = r => t.step = RiskDock
<1>1. TypeInv /\ LedgerInv /\ StageInv /\ [Next]_vars => OnlyDock
  <2> SUFFICES ASSUME TypeInv, LedgerInv, StageInv, [Next]_vars,
                      NEW r \in Requests, attempt[r].riskStop # None,
                      NEW t \in saved' \ saved, t.req = r
               PROVE  t.step = RiskDock
    OBVIOUS
  <2>1. PICK q \in Requests, step \in Steps, n \in Nonces : Prepare(q, step, n)
    BY NextKinds, Frame
       DEF Kinds, Interrupt, Broadcast, Confirm, Mine, SendElsewhere, DockElsewhere, Expire,
           Forget, vars, journal
  <2>2. t = [req |-> q, step |-> step, sender |-> SenderOf(q, step), nonce |-> n]
    BY <2>1 DEF Prepare
  <2>3. q = r /\ t.step = step
    BY <2>2
  <2>4. ctl.req = r /\ step \in StageSteps(r)
    BY <2>1, <2>3 DEF Prepare, Due
  <2>5. ctl.at \in {"entry", "risk", "finish"}
    BY <2>4 DEF StageInv, Reached
  <2> QED
    BY <2>3, <2>4, <2>5 DEF StageSteps
<1>2. TypeInv /\ LedgerInv /\ StageInv /\ [Next]_vars => [OnlyDock]_vars
  BY <1>1
<1>3. NothingButTheDock <=> [][OnlyDock]_vars
  BY DEF NothingButTheDock
<1> HIDE DEF OnlyDock
<1> QED
  BY <1>2, <1>3, TypeInvariant, LedgerInvariant, StageInvariant, PTL DEF Spec

-----------------------------------------------------------------------------
(* Layer 4: a recorded breach and the chain.                               *)

BreachKnown ==
  \A r \in Requests : attempt[r].riskStop # None => aqua[attempt[r].riskStop] # "absent"

DockMined ==
  \A m \in mined : m.tx.step = RiskDock =>
    attempt[m.tx.req].riskStop # None /\ aqua[attempt[m.tx.req].riskStop] = "docked"

DockedAtFinish ==
  \A r \in Requests : ctl.req = r /\ ctl.at = "finish" /\ attempt[r].riskStop # None =>
    aqua[attempt[r].riskStop] = "docked"

BreachInv == BreachKnown /\ DockMined /\ DockedAtFinish /\ BreachSettled

\* Aqua never forgets a strategy, and never reopens a docked one.
OneWay ==
  \A x \in Strategies : /\ aqua[x] # "absent" => aqua'[x] # "absent"
                        /\ aqua[x] = "docked" => aqua'[x] = "docked"

\* Mining a transaction respects that.
LEMMA MineOneWay ==
  ASSUME TypeInv, NEW t \in pool, NEW ok \in BOOLEAN, Mine(t, ok)
  PROVE  OneWay
<1>1. aqua \in [Strategies -> {"absent", "active", "docked"}]
  BY DEF TypeInv, TypeOK
<1>2. CASE ~ok
  BY <1>2 DEF Mine, OneWay
<1>3. CASE ok
  <2>1. Applies(t.req, t.step) /\ aqua' = AquaAfter(t.req, t.step)
    BY <1>3 DEF Mine
  <2>2. Primary # RiskDock
    BY DEF Primary, RiskDock
  <2>3. CASE t.step = RiskDock
    BY <1>1, <2>1, <2>2, <2>3 DEF AquaAfter, OneWay
  <2>4. CASE t.step = Primary
    BY <1>1, <2>1, <2>2, <2>4 DEF AquaAfter, Applies, OneWay
  <2>5. CASE t.step \notin {Primary, RiskDock}
    BY <2>1, <2>5 DEF AquaAfter, OneWay
  <2> QED
    BY <2>3, <2>4, <2>5
<1> QED
  BY <1>2, <1>3

\* Every step respects that.
LEMMA NextOneWay == TypeInv /\ [Next]_vars => OneWay
<1> SUFFICES ASSUME TypeInv, [Next]_vars PROVE OneWay
    OBVIOUS
<1>1. ASSUME NEW s \in Strategies, DockElsewhere(s) PROVE OneWay
  <2>1. aqua \in [Strategies -> {"absent", "active", "docked"}]
    BY DEF TypeInv, TypeOK
  <2> QED
    BY <1>1, <2>1 DEF DockElsewhere, OneWay
<1>2. CASE aqua' = aqua
  BY <1>2 DEF OneWay
<1>3. ASSUME NEW r \in Requests,
             \/ \E b \in Bodies : Submit(r, b)
             \/ Resume(r) \/ Move(r) \/ Conclusion(r) \/ End(r) \/ SettleRebalance(r)
             \/ \E stage \in {"preguard", "guard"}, s \in Strategies : WouldDock(r, stage, s)
      PROVE  OneWay
  BY <1>2, <1>3, Frame DEF network
<1>4. CASE \/ Interrupt
           \/ \E r \in Requests, step \in Steps, n \in Nonces : Prepare(r, step, n)
           \/ \E t \in saved : Broadcast(t)
           \/ \E m \in mined : Confirm(m)
           \/ \E a \in Accounts : SendElsewhere(a)
           \/ \E s \in Strategies : Expire(s)
           \/ \E t \in seen : Forget(t)
           \/ UNCHANGED vars
  <2>1. aqua' = aqua
    BY <1>4 DEF Interrupt, Prepare, Broadcast, Confirm, SendElsewhere, Expire, Forget, vars,
                network
  <2> QED
    BY <1>2, <2>1
<1> QED
  BY <1>1, <1>3, <1>4, NextKinds, MineOneWay DEF Kinds

\* A step that records no breach and mines nothing, and does not bring a call
\* to its finish.
LEMMA BreachKept ==
  ASSUME TypeInv, BreachInv, OneWay, mined' = mined,
         \A q \in Requests : attempt'[q].riskStop = attempt[q].riskStop,
         \A q \in Requests : attempt[q].riskStop # None /\ ~Pending(q)' =>
           ~Pending(q) \/ aqua'[attempt[q].riskStop] = "docked",
         \A q \in Requests : ctl'.req = q /\ ctl'.at = "finish" /\ attempt[q].riskStop # None =>
           (ctl.req = q /\ ctl.at = "finish") \/ aqua'[attempt[q].riskStop] = "docked"
  PROVE  BreachInv'
<1>1. \A q \in Requests : attempt[q].riskStop \in Strategies \cup {None}
  BY DEF TypeInv, TypeOK, Attempt
<1>2. \A m \in mined : m.tx.req \in Requests
  BY DEF TypeInv, TypeOK, Receipt, Tx
<1>3. BreachKnown'
  BY <1>1 DEF BreachInv, BreachKnown, OneWay
<1>4. DockedAtFinish'
  BY <1>1 DEF BreachInv, DockedAtFinish, OneWay
<1>5. BreachSettled'
  BY <1>1 DEF BreachInv, BreachSettled, OneWay
<1>6. DockMined'
  BY <1>1, <1>2 DEF BreachInv, DockMined, OneWay
<1> QED
  BY <1>3, <1>4, <1>5, <1>6 DEF BreachInv

\* A breach is recorded of a strategy that is live, by a request that recorded
\* none before.
LEMMA BreachRecorded ==
  ASSUME TypeInv, LedgerInv, StageInv, BreachInv, NEW r \in Requests,
         NEW stage \in {"preguard", "guard"}, NEW s \in Strategies, WouldDock(r, stage, s)
  PROVE  BreachInv'
<1>1. /\ attempt \in [Requests -> Attempt]
      /\ attempt' = [attempt EXCEPT ![r].riskStop = s]
      /\ aqua[s] = "active"
      /\ ctl.req = r /\ ctl.at = stage
      /\ ctl'.req = r /\ ctl'.at = "risk"
      /\ UNCHANGED <<aqua, mined>>
  BY DEF TypeInv, TypeOK, WouldDock, GuardAt, Running, Goto, network
<1>2. /\ attempt'[r].riskStop = s
      /\ \A q \in Requests : /\ attempt'[q].status = attempt[q].status
                             /\ q # r => attempt'[q].riskStop = attempt[q].riskStop
  BY <1>1 DEF Attempt
<1>3. attempt[r].riskStop = None
  BY <1>1 DEF StageInv, Reached
<1>4. Pending(r)
  BY <1>1, RunningRequest
<1>5. BreachKnown'
  BY <1>1, <1>2 DEF BreachInv, BreachKnown
<1>6. DockMined'
  <2> SUFFICES ASSUME NEW m \in mined, m.tx.step = RiskDock
               PROVE  /\ attempt'[m.tx.req].riskStop # None
                      /\ aqua[attempt'[m.tx.req].riskStop] = "docked"
    BY <1>1 DEF DockMined
  <2>1. m.tx.req \in Requests /\ m.tx.req # r
    BY <1>3 DEF TypeInv, TypeOK, Receipt, Tx, BreachInv, DockMined
  <2>2. attempt'[m.tx.req].riskStop = attempt[m.tx.req].riskStop
    BY <1>2, <2>1
  <2> QED
    BY <2>2 DEF BreachInv, DockMined
<1>7. DockedAtFinish'
  BY <1>1 DEF DockedAtFinish
<1>8. BreachSettled'
  BY <1>1, <1>2, <1>4 DEF BreachInv, BreachSettled, Pending
<1> QED
  BY <1>5, <1>6, <1>7, <1>8 DEF BreachInv

\* A risk dock reverts only because the strategy is docked already.
LEMMA BreachMined ==
  ASSUME TypeInv, LedgerInv, StageInv, BreachInv, NEW t \in pool, NEW ok \in BOOLEAN,
         Mine(t, ok)
  PROVE  BreachInv'
<1> DEFINE k == [tx |-> t, ok |-> ok]
<1>1. mined' = mined \cup {k} /\ UNCHANGED <<attempt, ctl>>
  BY DEF Mine, journal
<1>2. k.tx = t
  OBVIOUS
<1> HIDE DEF k
<1>3. OneWay
  BY MineOneWay
<1>4. \A q \in Requests : attempt[q].riskStop \in Strategies \cup {None}
  BY DEF TypeInv, TypeOK, Attempt
<1>5. t \in saved /\ t.req \in Requests /\ \A m \in mined : m.tx.req \in Requests
  BY DEF LedgerInv, WriteAhead, TypeInv, TypeOK, Receipt, Tx
<1>6. BreachKnown' /\ DockedAtFinish' /\ BreachSettled'
  BY <1>1, <1>3, <1>4 DEF BreachInv, BreachKnown, DockedAtFinish, BreachSettled, OneWay, Pending
<1>7. ASSUME t.step = RiskDock
      PROVE  attempt[t.req].riskStop # None /\ aqua'[attempt[t.req].riskStop] = "docked"
  <2> DEFINE x == attempt[t.req].riskStop
  <2>1. x # None /\ x \in Strategies
    BY <1>4, <1>5, <1>7 DEF StageInv, RequestInv, Has
  <2>2. aqua[x] \in {"active", "docked"} /\ aqua \in [Strategies -> {"absent", "active", "docked"}]
    BY <1>5, <2>1 DEF TypeInv, TypeOK, BreachInv, BreachKnown
  <2>3. CASE ok
    <3>1. aqua' = AquaAfter(t.req, t.step) /\ Primary # RiskDock
      BY <2>3 DEF Mine, Primary, RiskDock
    <3>2. aqua' = [aqua EXCEPT ![x] = "docked"]
      BY <1>7, <3>1 DEF AquaAfter
    <3> QED
      BY <2>1, <2>2, <3>2
  <2>4. CASE ~ok
    <3>1. aqua[x] # "active"
      BY <1>7, <2>4 DEF Mine, MayRevert, Applies, Primary, RiskDock
    <3> QED
      BY <1>3, <2>1, <2>2, <3>1 DEF OneWay
  <2> QED
    BY <2>1, <2>3, <2>4
<1>8. ASSUME NEW m \in mined, m.tx.step = RiskDock
      PROVE  /\ attempt[m.tx.req].riskStop # None
             /\ aqua'[attempt[m.tx.req].riskStop] = "docked"
  BY <1>3, <1>4, <1>5, <1>8 DEF BreachInv, DockMined, OneWay
<1>9. DockMined'
  BY <1>1, <1>2, <1>7, <1>8 DEF DockMined
<1> QED
  BY <1>6, <1>9 DEF BreachInv

\* A request with a breach ends only once its strategy is docked.
LEMMA BreachEnd ==
  ASSUME TypeInv, LedgerInv, StageInv, BreachInv, NEW r \in Requests, End(r)
  PROVE  BreachInv'
<1>1. /\ ctl.req = r
      /\ UNCHANGED <<aqua, mined>>
      /\ \E status \in {"completed", "failed"} : Ended(r, status)
  BY DEF End, MonitorUnavailable, FailExpired, QuoteRejected, Finish, FailReverted,
         Running, Due, network
<1>2. /\ attempt \in [Requests -> Attempt]
      /\ ctl' = Idle
      /\ \E status \in {"completed", "failed"} : attempt' = [attempt EXCEPT ![r].status = status]
  BY <1>1 DEF TypeInv, TypeOK, Ended
<1>3. \A q \in Requests : /\ attempt'[q].riskStop = attempt[q].riskStop
                          /\ q # r => attempt'[q].status = attempt[q].status
  BY <1>2 DEF Attempt
<1>4. Reached(r, ctl.at)
  BY <1>1 DEF StageInv
<1>5. attempt[r].riskStop # None => aqua[attempt[r].riskStop] = "docked"
  <2> SUFFICES ASSUME attempt[r].riskStop # None PROVE aqua[attempt[r].riskStop] = "docked"
      OBVIOUS
  <2>1. ctl.at \in {"entry", "risk", "finish"}
    BY <1>4 DEF Reached
  <2>2. CASE Finish(r)
    BY <2>2 DEF Finish, Running, BreachInv, DockedAtFinish
  <2>3. ASSUME NEW step \in Steps, FailReverted(r, step)
        PROVE  aqua[attempt[r].riskStop] = "docked"
    <3>1. step = RiskDock /\ Reverted(r, step)
      BY <2>1, <2>3 DEF FailReverted, Due, StageSteps
    <3>2. PICK m \in mined : m.tx.req = r /\ m.tx.step = RiskDock
      BY <3>1 DEF Reverted, Outcome, LedgerInv
    <3> QED
      BY <3>2 DEF BreachInv, DockMined
  <2>4. ~MonitorUnavailable(r) /\ ~FailExpired(r) /\ ~QuoteRejected(r)
    BY <2>1 DEF MonitorUnavailable, FailExpired, QuoteRejected, Running, Due, StageSteps,
                Primary, RiskDock
  <2> QED
    BY <2>2, <2>3, <2>4 DEF End
<1>6. OneWay
  BY <1>1 DEF OneWay
<1> QED
  BY <1>1, <1>2, <1>3, <1>5, <1>6, BreachKept, ConstantsAssumption DEF Idle, Pending

\* The facts about breaches are kept by every step.
LEMMA BreachStep ==
  TypeInv /\ LedgerInv /\ StageInv /\ BreachInv /\ [Next]_vars => BreachInv'
<1> SUFFICES ASSUME TypeInv, LedgerInv, StageInv, BreachInv, [Next]_vars PROVE BreachInv'
    OBVIOUS
<1>0. OneWay /\ attempt \in [Requests -> Attempt]
  BY NextOneWay DEF TypeInv, TypeOK
<1>1. ASSUME NEW r \in Requests, NEW b \in Bodies, Submit(r, b) PROVE BreachInv'
  <2>1. /\ mined' = mined
        /\ attempt[r].status = "none"
        /\ ctl'.at = "entry"
    BY <1>1 DEF Submit, Goto, network
  <2>2. /\ attempt'[r].riskStop = None /\ attempt'[r].status = "pending"
        /\ \A q \in Requests : q # r => attempt'[q] = attempt[q]
    BY <1>0, <1>1 DEF Submit, NewAttempt
  <2>3. \A q \in Requests : attempt[q].riskStop \in Strategies \cup {None}
    BY <1>0 DEF Attempt
  <2>4. ASSUME NEW m \in mined, m.tx.step = RiskDock
        PROVE  m.tx.req \in Requests /\ m.tx.req # r
    BY <2>1 DEF TypeInv, TypeOK, Receipt, Tx, LedgerInv, WriteAhead, SavedKnown
  <2>5. BreachKnown' /\ BreachSettled'
    BY <1>0, <2>2, <2>3 DEF BreachInv, BreachKnown, BreachSettled, OneWay, Pending
  <2>6. DockedAtFinish'
    BY <2>1 DEF DockedAtFinish
  <2>7. DockMined'
    BY <1>0, <2>1, <2>2, <2>3, <2>4 DEF BreachInv, DockMined, OneWay
  <2> QED
    BY <2>5, <2>6, <2>7 DEF BreachInv
<1>2. ASSUME NEW r \in Requests, Resume(r) \/ Move(r) \/ SettleRebalance(r)
      PROVE  BreachInv'
  <2>1. UNCHANGED <<attempt, mined>> /\ ctl'.req = r
    BY <1>2 DEF Resume, Move, EnterRisk, EnterShip, EnterChange, EnterMonitor, EnterDock,
                WithinLimit, Advance, VerifyRebalance, SettleSwap, SettleRebalance, Goto,
                journal, network
  <2>2. ctl'.at = "finish" => attempt[r].riskStop = None
    <3>1. CASE Resume(r) \/ SettleRebalance(r)
      BY <3>1 DEF Resume, SettleRebalance, Goto
    <3>2. CASE Move(r)
      BY <3>2 DEF Move, EnterRisk, EnterShip, EnterChange, EnterMonitor, EnterDock,
                  WithinLimit, GuardAt, Advance, VerifyRebalance, SettleSwap, Goto, Running,
                  StageInv, Reached
    <3> QED
      BY <1>2, <3>1, <3>2
  <2> QED
    BY <1>0, <2>1, <2>2, BreachKept DEF Pending
<1>3. ASSUME NEW r \in Requests, Conclusion(r) PROVE BreachInv'
  <2>1. UNCHANGED <<attempt, mined, aqua>> /\ ctl'.req = r
    BY <1>3 DEF Conclusion, SettleShip, SettleRisk, Close, AlreadyDocked, Goto, network
  <2>2. ctl'.at = "finish" /\ attempt[r].riskStop # None => aqua[attempt[r].riskStop] = "docked"
    BY <1>3 DEF Conclusion, SettleShip, SettleRisk, Close, AlreadyDocked, GuardAt, Goto,
                Running, StageInv, Reached
  <2> QED
    BY <1>0, <2>1, <2>2, BreachKept DEF Pending
<1>4. CASE \/ Interrupt
           \/ \E r \in Requests, step \in Steps, n \in Nonces : Prepare(r, step, n)
           \/ \E t \in saved : Broadcast(t)
           \/ \E m \in mined : Confirm(m)
           \/ \E a \in Accounts : SendElsewhere(a)
           \/ \E s \in Strategies : DockElsewhere(s)
           \/ \E s \in Strategies : Expire(s)
           \/ \E t \in seen : Forget(t)
           \/ UNCHANGED vars
  <2>1. UNCHANGED <<attempt, mined>>
    BY <1>4 DEF Interrupt, Prepare, Broadcast, Confirm, SendElsewhere, DockElsewhere, Expire,
                Forget, vars, journal, network
  <2>2. \/ ctl' = Idle
        \/ ctl'.req = ctl.req /\ ctl'.at = ctl.at
    BY <1>4 DEF Interrupt, Prepare, Broadcast, Confirm, SendElsewhere, DockElsewhere, Expire,
                Forget, vars, TypeInv, TypeOK, Process
  <2> QED
    BY <1>0, <2>1, <2>2, BreachKept DEF Pending, Idle
<1> QED
  BY <1>1, <1>2, <1>3, <1>4, NextKinds, BreachRecorded, BreachMined, BreachEnd DEF Kinds

\* No breach is recorded initially.
LEMMA BreachInit == Init => BreachInv
BY DEF Init, BreachInv, BreachKnown, DockMined, DockedAtFinish, BreachSettled, NoAttempt

\* A breach that was recorded is settled before its request has a result: its
\* strategy is docked, whoever docked it.
THEOREM BreachesAreSettled == Spec => []BreachSettled
<1>1. Spec => []BreachInv
  BY BreachInit, BreachStep, TypeInvariant, LedgerInvariant, StageInvariant, PTL DEF Spec
<1> QED
  BY <1>1, PTL DEF BreachInv

-----------------------------------------------------------------------------
(* The controller implements RequestPromise.                               *)

\* Nothing the promise talks about changes.
LEMMA PromiseStutter ==
  ASSUME mined' = mined, \A q \in Requests : attempt'[q].status = attempt[q].status
  PROVE  UNCHANGED Promise!vars
BY DEF Promise!vars, Phase, EffectOf

\* A request that ends concludes; the transactions stay as they are.
LEMMA PromiseConclude ==
  ASSUME TypeInv, NEW r \in Requests, Pending(r), mined' = mined,
         NEW status, status \in {"completed", "failed"}, Ended(r, status)
  PROVE  Promise!Conclude(r)
<1>1. /\ attempt \in [Requests -> Attempt]
      /\ attempt' = [attempt EXCEPT ![r].status = status]
  BY DEF TypeInv, TypeOK, Ended
<1>2. attempt'[r].status = status /\ \A q \in Requests : q # r => attempt'[q] = attempt[q]
  BY <1>1 DEF Attempt
<1>3. Phase' = [Phase EXCEPT ![r] = "done"]
  BY <1>2 DEF Phase
<1>4. Phase[r] = "accepted"
  BY DEF Phase, Pending
<1>5. EffectOf(Primary)' = EffectOf(Primary) /\ EffectOf(RiskDock)' = EffectOf(RiskDock)
  BY DEF EffectOf
<1> QED
  BY <1>3, <1>4, <1>5 DEF Promise!Conclude

\* A request is accepted when no other is pending.
LEMMA PromiseAccept ==
  ASSUME TypeInv, NEW r \in Requests, NEW b \in Bodies, Submit(r, b)
  PROVE  Promise!Accept(r)
<1>1. /\ attempt \in [Requests -> Attempt]
      /\ attempt[r].status = "none"
      /\ NonePending
      /\ mined' = mined
  BY DEF TypeInv, TypeOK, Submit, Admissible, network
<1>2. /\ attempt'[r].status = "pending"
      /\ \A q \in Requests : q # r => attempt'[q] = attempt[q]
  BY <1>1 DEF Submit, NewAttempt
<1>3. Phase[r] = "new" /\ \A q \in Requests : Phase[q] # "accepted"
  BY <1>1 DEF Phase, NonePending, Pending
<1>4. Phase' = [Phase EXCEPT ![r] = "accepted"]
  BY <1>2 DEF Phase
<1>5. EffectOf(Primary)' = EffectOf(Primary) /\ EffectOf(RiskDock)' = EffectOf(RiskDock)
  BY <1>1 DEF EffectOf
<1> QED
  BY <1>3, <1>4, <1>5 DEF Promise!Accept

\* A successful primary transaction applies its pending request, a successful
\* risk dock stops it; another transaction changes nothing here.
LEMMA PromiseMine ==
  ASSUME TypeInv, LedgerInv, StageInv, NEW t \in pool, NEW ok \in BOOLEAN, Mine(t, ok)
  PROVE  [Promise!Next]_(Promise!vars)
<1> DEFINE k == [tx |-> t, ok |-> ok]
<1>1. mined' = mined \cup {k} /\ UNCHANGED attempt
  BY DEF Mine, journal
<1>2. k.tx = t /\ k.ok = ok
  OBVIOUS
<1> HIDE DEF k
<1>3. t \in saved /\ t.req \in Requests /\ \A m \in mined : m.tx # t
  BY DEF TypeInv, TypeOK, Tx, LedgerInv, WriteAhead, PoolUnmined
<1>4. \A m \in receipts : m.tx # t
  BY <1>3 DEF LedgerInv
<1>5. Phase' = Phase
  BY <1>1 DEF Phase
<1>6. \A m \in mined : m.tx.req = t.req /\ m.tx.step = t.step => FALSE
  BY <1>3 DEF LedgerInv, WriteAhead, SavedOnce
<1>7. t.req \notin EffectOf(t.step)
  BY <1>6 DEF EffectOf
<1>8. \A x : EffectOf(x)' = IF ok /\ x = t.step THEN EffectOf(x) \cup {t.req} ELSE EffectOf(x)
  BY <1>1, <1>2 DEF EffectOf
<1>9. Primary # RiskDock
  BY DEF Primary, RiskDock
<1>10. t.step \in {Primary, RiskDock} => Phase[t.req] = "accepted"
  BY <1>3, <1>4 DEF StageInv, ResultIsFinal, Phase, Pending
<1>11. CASE ok /\ t.step = Primary
  <2>1. t.req \notin EffectOf(RiskDock)
    <3> SUFFICES ASSUME t.req \in EffectOf(RiskDock) PROVE FALSE
        OBVIOUS
    <3>1. Has(t.req, RiskDock)
      BY DEF EffectOf, Has, LedgerInv, WriteAhead
    <3>2. Settled(t.req, Primary)
      BY <1>3, <3>1 DEF StageInv, RequestInv
    <3> QED
      BY <1>3, <1>4, <1>11, <3>2 DEF Settled
  <2>2. Promise!Apply(t.req)
    BY <1>5, <1>7, <1>8, <1>9, <1>10, <1>11, <2>1 DEF Promise!Apply
  <2> QED
    BY <1>3, <2>2 DEF Promise!Next
<1>12. CASE ok /\ t.step = RiskDock
  <2>1. Promise!Stop(t.req)
    BY <1>5, <1>7, <1>8, <1>9, <1>10, <1>12 DEF Promise!Stop
  <2> QED
    BY <1>3, <2>1 DEF Promise!Next
<1>13. CASE ~ok \/ t.step \notin {Primary, RiskDock}
  <2>1. EffectOf(Primary)' = EffectOf(Primary) /\ EffectOf(RiskDock)' = EffectOf(RiskDock)
    BY <1>8, <1>13
  <2> QED
    BY <1>5, <2>1 DEF Promise!vars
<1> QED
  BY <1>11, <1>12, <1>13

\* Every step of the controller is a step of the promise, or none.
LEMMA PromiseStep ==
  TypeInv /\ LedgerInv /\ StageInv /\ [Next]_vars => [Promise!Next]_(Promise!vars)
<1> SUFFICES ASSUME TypeInv, LedgerInv, StageInv, [Next]_vars
             PROVE  [Promise!Next]_(Promise!vars)
    OBVIOUS
<1>1. ASSUME NEW r \in Requests, NEW b \in Bodies, Submit(r, b) PROVE Promise!Next
  BY <1>1, PromiseAccept DEF Promise!Next
<1>2. ASSUME NEW r \in Requests, End(r) PROVE Promise!Next
  <2>1. /\ ctl.req = r
        /\ mined' = mined
        /\ \E status \in {"completed", "failed"} : Ended(r, status)
    BY <1>2 DEF End, MonitorUnavailable, FailExpired, QuoteRejected, Finish, FailReverted,
                Running, Due, network
  <2>2. Promise!Conclude(r)
    BY <2>1, RunningRequest, PromiseConclude
  <2> QED
    BY <2>2 DEF Promise!Next
<1>3. ASSUME NEW r \in Requests,
             \/ Resume(r) \/ Move(r) \/ Conclusion(r) \/ SettleRebalance(r)
             \/ \E step \in Steps, n \in Nonces : Prepare(r, step, n)
      PROVE  UNCHANGED Promise!vars
  <2>1. UNCHANGED <<attempt, mined>>
    BY <1>3 DEF Resume, Move, EnterRisk, EnterShip, EnterChange, EnterMonitor, EnterDock,
                WithinLimit, Advance, VerifyRebalance, SettleSwap, Conclusion, SettleShip,
                SettleRisk, Close, AlreadyDocked, SettleRebalance, Prepare, journal, network
  <2> QED
    BY <2>1, PromiseStutter
<1>4. ASSUME NEW r \in Requests, NEW stage \in {"preguard", "guard"}, NEW s \in Strategies,
             WouldDock(r, stage, s)
      PROVE  UNCHANGED Promise!vars
  <2>1. /\ attempt \in [Requests -> Attempt]
        /\ attempt' = [attempt EXCEPT ![r].riskStop = s]
        /\ mined' = mined
    BY <1>4 DEF TypeInv, TypeOK, WouldDock, network
  <2>2. \A q \in Requests : attempt'[q].status = attempt[q].status
    BY <2>1 DEF Attempt
  <2> QED
    BY <2>1, <2>2, PromiseStutter
<1>5. CASE \/ Interrupt
           \/ \E t \in saved : Broadcast(t)
           \/ \E m \in mined : Confirm(m)
           \/ \E a \in Accounts : SendElsewhere(a)
           \/ \E s \in Strategies : DockElsewhere(s)
           \/ \E s \in Strategies : Expire(s)
           \/ \E t \in seen : Forget(t)
           \/ UNCHANGED vars
  <2>1. UNCHANGED <<attempt, mined>>
    BY <1>5 DEF Interrupt, Broadcast, Confirm, SendElsewhere, DockElsewhere, Expire, Forget,
                vars, journal, network
  <2> QED
    BY <2>1, PromiseStutter
<1> QED
  BY <1>1, <1>2, <1>3, <1>4, <1>5, NextKinds, PromiseMine DEF Kinds

\* No request is accepted, applied or stopped initially.
LEMMA PromiseInit == Init => Promise!Init
BY DEF Init, Promise!Init, Phase, EffectOf, NoAttempt

\* The controller keeps its promise to callers: one request at a time, its
\* change at most once and between acceptance and result, and never after a
\* risk stop - for any requests, crashes and network.
THEOREM PromiseKept == Spec => KeepsPromise
BY PromiseInit, PromiseStep, TypeInvariant, LedgerInvariant, StageInvariant, PTL
   DEF Spec, KeepsPromise, Promise!Spec

-----------------------------------------------------------------------------
(* Layer 5: requests are admitted one at a time, against what they find.   *)

OnePending == \A q, r \in Requests : Pending(q) /\ Pending(r) => q = r

\* A request works on a strategy of the model: a ship on the one it ships, a
\* rebalance on another than the one it ships.
Admitted(r) ==
  attempt[r].status # "none" =>
    /\ attempt[r].before \in Strategies
    /\ Act(r) = "ship" => attempt[r].before = Target(r)
    /\ Act(r) = "rebalance" => attempt[r].before # Target(r)

\* While the ship of a session is pending, the session has no other request.
ShipsAlone ==
  \A q, r \in Requests :
    /\ Pending(r) /\ Act(r) = "ship"
    /\ attempt[q].status # "none" /\ SessionOf(q) = SessionOf(r)
    => q = r

AdmissionInv == OnePending /\ (\A r \in Requests : Admitted(r)) /\ ShipsAlone

\* What a step that admits no request does to the requests.
LEMMA RequestsKept ==
  ASSUME TypeInv, [Next]_vars, ~\E r \in Requests, b \in Bodies : Submit(r, b)
  PROVE  \A q \in Requests :
           /\ attempt'[q].body = attempt[q].body
           /\ attempt'[q].before = attempt[q].before
           /\ \/ attempt'[q].status = attempt[q].status
              \/ Pending(q) /\ ~Pending(q)' /\ attempt'[q].status # "none" /\ End(q)
           /\ \/ attempt'[q].riskStop = attempt[q].riskStop
              \/ \E stage \in {"preguard", "guard"}, s \in Strategies : WouldDock(q, stage, s)
<1>0. attempt \in [Requests -> Attempt]
  BY DEF TypeInv, TypeOK
<1>1. CASE attempt' = attempt
  BY <1>1
<1>2. ASSUME NEW r \in Requests, End(r)
      PROVE  \A q \in Requests :
               /\ attempt'[q].body = attempt[q].body
               /\ attempt'[q].before = attempt[q].before
               /\ attempt'[q].riskStop = attempt[q].riskStop
               /\ \/ attempt'[q].status = attempt[q].status
                  \/ Pending(q) /\ ~Pending(q)' /\ attempt'[q].status # "none" /\ End(q)
  <2>1. PICK status \in {"completed", "failed"} : ctl.req = r /\ Ended(r, status)
    BY <1>2 DEF End, MonitorUnavailable, FailExpired, QuoteRejected, Finish, FailReverted,
                Running, Due
  <2>2. attempt' = [attempt EXCEPT ![r].status = status]
    BY <2>1 DEF Ended
  <2>3. Pending(r)
    BY <2>1, RunningRequest
  <2> QED
    BY <1>0, <1>2, <2>2, <2>3 DEF Attempt, Pending
<1>3. ASSUME NEW r \in Requests, NEW stage \in {"preguard", "guard"}, NEW s \in Strategies,
             WouldDock(r, stage, s)
      PROVE  \A q \in Requests :
               /\ attempt'[q].body = attempt[q].body
               /\ attempt'[q].before = attempt[q].before
               /\ attempt'[q].status = attempt[q].status
               /\ q # r => attempt'[q].riskStop = attempt[q].riskStop
  BY <1>0, <1>3 DEF WouldDock, Attempt
<1>4. ASSUME NEW r \in Requests,
             Resume(r) \/ Move(r) \/ Conclusion(r) \/ SettleRebalance(r)
      PROVE  attempt' = attempt
  BY <1>4 DEF Resume, Move, EnterRisk, EnterShip, EnterChange, EnterMonitor, EnterDock,
              WithinLimit, Advance, VerifyRebalance, SettleSwap, Conclusion, SettleShip,
              SettleRisk, Close, AlreadyDocked, SettleRebalance, journal
<1>5. CASE \/ Interrupt
           \/ \E r \in Requests, step \in Steps, n \in Nonces : Prepare(r, step, n)
           \/ \E t \in saved : Broadcast(t)
           \/ \E m \in mined : Confirm(m)
           \/ \E t \in pool, ok \in BOOLEAN : Mine(t, ok)
           \/ \E a \in Accounts : SendElsewhere(a)
           \/ \E s \in Strategies : DockElsewhere(s)
           \/ \E s \in Strategies : Expire(s)
           \/ \E t \in seen : Forget(t)
           \/ UNCHANGED vars
  BY <1>5 DEF Interrupt, Prepare, Broadcast, Confirm, Mine, SendElsewhere, DockElsewhere,
              Expire, Forget, vars, journal
<1> QED
  BY <1>1, <1>2, <1>3, <1>4, <1>5, NextKinds DEF Kinds

\* What admitting request r does to the requests.
LEMMA RequestAdmitted ==
  ASSUME TypeInv, NEW r \in Requests, NEW b \in Bodies, Submit(r, b)
  PROVE  /\ NonePending /\ attempt[r].status = "none"
         /\ b.session \in Sessions
         /\ attempt'[r].status = "pending" /\ attempt'[r].body = b
         /\ attempt'[r].riskStop = None
         /\ \A q \in Requests : q # r => attempt'[q] = attempt[q]
         /\ ctl' = [req |-> r, at |-> "entry", sent |-> FALSE]
         /\ UNCHANGED <<saved, receipts, network>>
         /\ b.action = "ship" =>
              /\ session[b.session].status = "none"
              /\ b.strategy \in Strategies
              /\ attempt'[r].before = b.strategy
         /\ b.action # "ship" =>
              /\ session[b.session].status # "none"
              /\ Current(b.session) \in Strategies
              /\ attempt'[r].before = Current(b.session)
              /\ b.action = "rebalance" =>
                   b.strategy # Current(b.session) /\ session[b.session].status = "active"
<1> USE ConstantsAssumption
<1>1. /\ attempt \in [Requests -> Attempt] /\ session \in [Sessions -> Session]
      /\ b \in Body /\ b.session \in Sessions
  BY DEF TypeInv, TypeOK, Body
<1>2. CASE b.action = "ship"
  <2>1. b.strategy \in Strategies
    BY <1>1, <1>2 DEF Body
  <2> QED
    BY <1>1, <1>2, <2>1 DEF Submit, Admissible, NewAttempt, Goto
<1>3. CASE b.action # "ship"
  <2>1. session[b.session].status # "none" /\ session' = session
    BY <1>1, <1>3 DEF Submit, Admissible
  <2>2. session[b.session].plan \in Seq(PlanEntry) /\ session[b.session].plan # <<>>
    BY <1>1, <2>1 DEF TypeInv, KnownSession, Session
  <2>3. Current(b.session) \in Strategies
    <3>1. session[b.session].plan[Len(session[b.session].plan)] \in PlanEntry
      BY <2>2
    <3> QED
      BY <3>1 DEF Current, ActiveOf, PlanEntry
  <2>4. b.action = "rebalance" =>
          b.strategy # Current(b.session) /\ session[b.session].status = "active"
    BY <1>3 DEF Submit, Admissible, Current
  <2> QED
    BY <1>1, <1>3, <2>1, <2>3, <2>4 DEF Submit, Admissible, NewAttempt, Goto
<1> QED
  BY <1>2, <1>3

\* What admitting request r does to the sessions: a ship starts its session.
LEMMA SessionAdmitted ==
  ASSUME TypeInv, NEW r \in Requests, NEW b \in Bodies, Submit(r, b)
  PROVE  /\ \A s \in Sessions : s # b.session \/ b.action # "ship" => session'[s] = session[s]
         /\ b.action = "ship" =>
              /\ session'[b.session].status = "starting"
              /\ Len(session'[b.session].plan) = 1
              /\ session'[b.session].plan[1].strategy = b.strategy
              /\ session'[b.session].plan[1].by = r
<1> DEFINE e == [strategy |-> b.strategy, by |-> r]
<1>1. session \in [Sessions -> Session] /\ b.session \in Sessions
  BY ConstantsAssumption DEF TypeInv, TypeOK, Body
<1>2. b.action # "ship" => session' = session
  BY DEF Submit
<1>3. b.action = "ship" =>
        session' = [session EXCEPT ![b.session] = [status |-> "starting", plan |-> <<e>>]]
  BY DEF Submit
<1>4. e.strategy = b.strategy /\ e.by = r
  OBVIOUS
<1> HIDE DEF e
<1> QED
  BY <1>1, <1>2, <1>3, <1>4

\* Admission keeps requests apart.
LEMMA AdmissionStep == TypeInv /\ AdmissionInv /\ [Next]_vars => AdmissionInv'
<1> SUFFICES ASSUME TypeInv, AdmissionInv, [Next]_vars PROVE AdmissionInv'
    OBVIOUS
<1>1. ASSUME NEW r \in Requests, NEW b \in Bodies, Submit(r, b) PROVE AdmissionInv'
  <2> USE DEF Act, SessionOf
  <2>1. /\ NonePending /\ attempt[r].status = "none"
        /\ attempt'[r].status = "pending" /\ attempt'[r].body = b
        /\ \A q \in Requests : q # r => attempt'[q] = attempt[q]
    BY <1>1, RequestAdmitted
  <2>2. OnePending'
    BY <2>1 DEF OnePending, NonePending, Pending
  <2>3. Admitted(r)'
    <3>1. /\ attempt'[r].before \in Strategies
          /\ b.action = "ship" => attempt'[r].before = b.strategy
          /\ b.action = "rebalance" => attempt'[r].before # b.strategy
      BY <1>1, RequestAdmitted
    <3> QED
      BY <2>1, <3>1 DEF Admitted, Target
  <2>4. \A q \in Requests : q # r => Admitted(q)'
    BY <2>1 DEF AdmissionInv, Admitted, Target
  <2>5. ASSUME b.action = "ship", NEW q \in Requests, q # r, attempt[q].status # "none"
        PROVE  SessionOf(q) # b.session
    <3>1. session[b.session].status = "none"
      BY <1>1, <2>5, RequestAdmitted
    <3> QED
      BY <2>5, <3>1 DEF TypeInv, KnownRequest
  <2>6. ShipsAlone'
    <3>1. \A q \in Requests : Pending(q)' => q = r
      BY <2>1 DEF NonePending, Pending
    <3>2. \A q \in Requests : q # r => /\ SessionOf(q)' = SessionOf(q)
                                      /\ attempt'[q].status = attempt[q].status
      BY <2>1
    <3>3. SessionOf(r)' = b.session /\ Act(r)' = b.action
      BY <2>1
    <3> HIDE DEF Act, SessionOf
    <3> QED
      BY <2>5, <3>1, <3>2, <3>3 DEF ShipsAlone
  <2> QED
    BY <2>2, <2>3, <2>4, <2>6 DEF AdmissionInv
<1>2. CASE ~\E r \in Requests, b \in Bodies : Submit(r, b)
  <2>1. \A q \in Requests : /\ attempt'[q].body = attempt[q].body
                            /\ attempt'[q].before = attempt[q].before
                            /\ Pending(q)' => Pending(q)
                            /\ attempt'[q].status # "none" => attempt[q].status # "none"
    BY <1>2, RequestsKept DEF Pending
  <2>2. OnePending'
    BY <2>1 DEF AdmissionInv, OnePending
  <2>3. ASSUME NEW q \in Requests PROVE Admitted(q)'
    BY <2>1 DEF AdmissionInv, Admitted, Act, Target
  <2>4. ShipsAlone'
    BY <2>1 DEF AdmissionInv, ShipsAlone, Act, SessionOf
  <2> QED
    BY <2>2, <2>3, <2>4 DEF AdmissionInv
<1> QED
  BY <1>1, <1>2

\* No request is stored initially.
LEMMA AdmissionInit == Init => AdmissionInv
BY DEF Init, AdmissionInv, OnePending, Admitted, ShipsAlone, NoAttempt, Pending

\* One request is pending at a time, and it works on what the session held.
THEOREM AdmissionInvariant == Spec => []AdmissionInv
BY AdmissionInit, AdmissionStep, TypeInvariant, PTL DEF Spec

-----------------------------------------------------------------------------
(* Layer 6: what the mined transactions did to the strategies.             *)

\* The mined transaction m took strategy x off the market, or put it there.
Takes(m, x) ==
  /\ m.ok
  /\ \/ m.tx.step = RiskDock /\ attempt[m.tx.req].riskStop = x
     \/ /\ m.tx.step = Primary
        /\ Act(m.tx.req) \in {"rebalance", "dock"}
        /\ attempt[m.tx.req].before = x

Puts(m, x) ==
  /\ m.ok
  /\ m.tx.step = Primary
  /\ Act(m.tx.req) \in {"ship", "rebalance"}
  /\ Target(m.tx.req) = x

TakenDocked == \A m \in mined, x \in Strategies : Takes(m, x) => aqua[x] = "docked"
PutKnown == \A m \in mined, x \in Strategies : Puts(m, x) => aqua[x] # "absent"

\* Nobody else has taken off what a pending rebalance has just shipped.
FreshTarget ==
  \A r \in Requests : Pending(r) /\ MinedRebalance(r) =>
    \A m \in mined : Takes(m, Target(r)) => m.tx.req = r

MarketInv == TakenDocked /\ PutKnown /\ FreshTarget

\* What a mined transaction did is not changed by what follows.
LEMMA EffectsKept ==
  ASSUME TypeInv, LedgerInv, StageInv, [Next]_vars, NEW m \in mined
  PROVE  /\ m.tx.req \in Requests /\ m.tx \in saved
         /\ attempt[m.tx.req].status # "none"
         /\ attempt'[m.tx.req].body = attempt[m.tx.req].body
         /\ attempt'[m.tx.req].before = attempt[m.tx.req].before
         /\ \A x : Takes(m, x)' <=> Takes(m, x)
         /\ \A x : Puts(m, x)' <=> Puts(m, x)
<1> DEFINE q == m.tx.req
<1>1. m.tx \in saved /\ q \in Requests /\ attempt[q].status # "none"
  BY DEF LedgerInv, WriteAhead, SavedKnown, TypeInv, TypeOK, Receipt, Tx
<1>2. /\ attempt'[q].body = attempt[q].body
      /\ attempt'[q].before = attempt[q].before
      /\ m.tx.step = RiskDock => attempt'[q].riskStop = attempt[q].riskStop
  <2>1. ASSUME NEW r \in Requests, NEW b \in Bodies, Submit(r, b)
        PROVE  attempt'[q] = attempt[q]
    BY <1>1, <2>1, RequestAdmitted
  <2>2. CASE ~\E r \in Requests, b \in Bodies : Submit(r, b)
    <3>1. ASSUME NEW stage \in {"preguard", "guard"}, NEW s \in Strategies,
                 WouldDock(q, stage, s)
          PROVE  attempt[q].riskStop = None
      BY <1>1, <3>1 DEF WouldDock, GuardAt, Running, StageInv, Reached
    <3>2. m.tx.step = RiskDock => attempt[q].riskStop # None
      BY <1>1 DEF StageInv, RequestInv, Has
    <3> HIDE DEF q
    <3> QED
      BY <1>1, <2>2, <3>1, <3>2, RequestsKept
  <2> QED
    BY <2>1, <2>2
<1>3. Primary # RiskDock
  BY DEF Primary, RiskDock
<1>4. \A x : Takes(m, x)' <=> Takes(m, x)
  BY <1>2, <1>3 DEF Takes, Act
<1>5. \A x : Puts(m, x)' <=> Puts(m, x)
  BY <1>2 DEF Puts, Act, Target
<1> QED
  BY <1>1, <1>2, <1>4, <1>5

\* Only mining adds to what is mined.
LEMMA MinedKept ==
  ASSUME TypeInv, [Next]_vars, ~\E t \in pool, ok \in BOOLEAN : Mine(t, ok)
  PROVE  mined' = mined
<1>1. ASSUME NEW r \in Requests,
             \/ \E b \in Bodies : Submit(r, b)
             \/ Resume(r) \/ Move(r) \/ Conclusion(r) \/ End(r) \/ SettleRebalance(r)
             \/ \E stage \in {"preguard", "guard"}, s \in Strategies : WouldDock(r, stage, s)
      PROVE  mined' = mined
  BY <1>1, Frame DEF network
<1>2. CASE \/ Interrupt
           \/ \E r \in Requests, step \in Steps, n \in Nonces : Prepare(r, step, n)
           \/ \E t \in saved : Broadcast(t)
           \/ \E m \in mined : Confirm(m)
           \/ \E a \in Accounts : SendElsewhere(a)
           \/ \E s \in Strategies : DockElsewhere(s)
           \/ \E s \in Strategies : Expire(s)
           \/ \E t \in seen : Forget(t)
           \/ UNCHANGED vars
  BY <1>2 DEF Interrupt, Prepare, Broadcast, Confirm, SendElsewhere, DockElsewhere,
              Expire, Forget, vars, network
<1> QED
  BY <1>1, <1>2, NextKinds DEF Kinds

\* A primary or risk dock on the network belongs to a pending request, and is
\* the first of its step.
LEMMA Underway ==
  ASSUME TypeInv, LedgerInv, StageInv, NEW t \in pool
  PROVE  /\ t \in saved /\ t.req \in Requests
         /\ t.step \in {Primary, RiskDock} => Pending(t.req) /\ ~Settled(t.req, t.step)
         /\ \A m \in mined : ~(m.tx.req = t.req /\ m.tx.step = t.step)
<1>1. t \in saved /\ t.req \in Requests /\ \A m \in mined : m.tx # t
  BY DEF TypeInv, TypeOK, Tx, LedgerInv, WriteAhead, PoolUnmined
<1>2. \A m \in receipts : m.tx # t
  BY <1>1 DEF LedgerInv
<1>3. \A m \in mined : ~(m.tx.req = t.req /\ m.tx.step = t.step)
  BY <1>1 DEF LedgerInv, WriteAhead, SavedOnce
<1> QED
  BY <1>1, <1>2, <1>3 DEF StageInv, ResultIsFinal, Settled

\* Apart from mining, the rebalances on chain stay the same.
LEMMA RebalancesKept ==
  ASSUME TypeInv, LedgerInv, StageInv, [Next]_vars, mined' = mined, NEW r \in Requests
  PROVE  MinedRebalance(r)' <=> MinedRebalance(r)
<1>1. \A m \in mined : m.tx.req = r => attempt'[r].body = attempt[r].body
  BY EffectsKept
<1> QED
  BY <1>1 DEF MinedRebalance, Act

\* Mining keeps the facts about the strategies.
LEMMA MarketMine ==
  ASSUME TypeInv, LedgerInv, StageInv, AdmissionInv, MarketInv,
         NEW t \in pool, NEW ok \in BOOLEAN, Mine(t, ok)
  PROVE  MarketInv'
<1> DEFINE k == [tx |-> t, ok |-> ok]
           r == t.req
<1>1. mined' = mined \cup {k} /\ UNCHANGED attempt
  BY DEF Mine, journal
<1>2. k.tx = t /\ k.ok = ok
  OBVIOUS
<1> HIDE DEF k
<1>3. OneWay /\ aqua \in [Strategies -> {"absent", "active", "docked"}]
  BY MineOneWay DEF TypeInv, TypeOK
<1>4. /\ t \in saved /\ r \in Requests
      /\ t.step \in {Primary, RiskDock} => Pending(r)
      /\ \A m \in mined : ~(m.tx.req = r /\ m.tx.step = t.step)
  BY Underway
<1>5. Primary # RiskDock
  BY DEF Primary, RiskDock
<1>6. Admitted(r) /\ attempt[r].status # "none"
  BY <1>4 DEF AdmissionInv, LedgerInv, SavedKnown
<1>7. \A m, x : /\ Takes(m, x)' <=> Takes(m, x)
                /\ Puts(m, x)' <=> Puts(m, x)
  BY <1>1 DEF Takes, Puts, Act, Target
<1>8. TakenDocked'
  <2>1. ASSUME NEW x \in Strategies, Takes(k, x) PROVE aqua'[x] = "docked"
    <3>1. ok /\ aqua' = AquaAfter(r, t.step)
      BY <1>2, <2>1 DEF Takes, Mine
    <3>2. CASE t.step = RiskDock
      BY <1>2, <1>3, <1>5, <2>1, <3>1, <3>2 DEF Takes, AquaAfter
    <3>3. CASE t.step = Primary
      BY <1>2, <1>3, <1>5, <1>6, <2>1, <3>1, <3>3 DEF Takes, AquaAfter, Admitted
    <3> QED
      BY <1>2, <2>1, <3>2, <3>3 DEF Takes
  <2> QED
    BY <1>1, <1>3, <1>7, <2>1 DEF MarketInv, TakenDocked, OneWay
<1>9. PutKnown'
  <2>1. ASSUME NEW x \in Strategies, Puts(k, x) PROVE aqua'[x] # "absent"
    <3>1. ok /\ aqua' = AquaAfter(r, t.step) /\ t.step = Primary
      BY <1>2, <2>1 DEF Puts, Mine
    <3> QED
      BY <1>2, <1>3, <1>5, <2>1, <3>1 DEF Puts, AquaAfter
  <2> QED
    BY <1>1, <1>3, <1>7, <2>1 DEF MarketInv, PutKnown, OneWay
<1>10. FreshTarget'
  <2> SUFFICES ASSUME NEW p \in Requests, Pending(p), MinedRebalance(p)', NEW m \in mined',
                      Takes(m, Target(p))
               PROVE  m.tx.req = p
    BY <1>1, <1>7 DEF FreshTarget, Pending, Target, Act
  <2>1. CASE m = k
    <3>1. t.step \in {Primary, RiskDock}
      BY <1>2, <2>1 DEF Takes
    <3> QED
      BY <1>2, <1>4, <2>1, <3>1 DEF AdmissionInv, OnePending
  <2>2. CASE m \in mined /\ MinedRebalance(p)
    BY <2>2 DEF MarketInv, FreshTarget
  <2>3. CASE m \in mined /\ ~MinedRebalance(p)
    <3>1. p = r /\ t.step = Primary /\ ok /\ Act(p) = "rebalance"
      BY <1>1, <1>2, <2>3 DEF MinedRebalance, Act
    <3>2. aqua[Target(p)] = "absent"
      BY <1>5, <3>1 DEF Mine, Applies
    <3>3. Target(p) \in Strategies
      <4>1. attempt[p].body \in Bodies
        BY <1>6, <3>1 DEF TypeInv, KnownRequest
      <4>2. attempt[p].body.strategy \in Strategies
        BY <3>1, <4>1, ConstantsAssumption DEF Act, Body
      <4> QED
        BY <3>1, <4>2 DEF Target
    <3> QED
      BY <2>3, <3>2, <3>3 DEF MarketInv, TakenDocked
  <2> QED
    BY <1>1, <2>1, <2>2, <2>3
<1> QED
  BY <1>8, <1>9, <1>10 DEF MarketInv

\* So does every step.
LEMMA MarketStep ==
  TypeInv /\ LedgerInv /\ StageInv /\ AdmissionInv /\ MarketInv /\ [Next]_vars => MarketInv'
<1> SUFFICES ASSUME TypeInv, LedgerInv, StageInv, AdmissionInv, MarketInv, [Next]_vars,
                    ~\E t \in pool, ok \in BOOLEAN : Mine(t, ok)
             PROVE  MarketInv'
    BY MarketMine
<1>1. mined' = mined /\ OneWay
  BY MinedKept, NextOneWay
<1>2. \A m \in mined : \A x : /\ Takes(m, x)' <=> Takes(m, x)
                              /\ Puts(m, x)' <=> Puts(m, x)
  BY EffectsKept
<1>3. TakenDocked' /\ PutKnown'
  BY <1>1, <1>2 DEF MarketInv, TakenDocked, PutKnown, OneWay
<1>4. FreshTarget'
  <2> SUFFICES ASSUME NEW p \in Requests, Pending(p)', MinedRebalance(p)', NEW m \in mined,
                      Takes(m, Target(p)')
               PROVE  m.tx.req = p
    BY <1>1, <1>2 DEF FreshTarget
  <2>1. MinedRebalance(p)
    BY <1>1, RebalancesKept
  <2>2. PICK n \in mined : n.tx.req = p
    BY <2>1 DEF MinedRebalance
  <2>3. attempt[p].status # "none" /\ Target(p)' = Target(p)
    BY <2>2, EffectsKept DEF Target, Act
  <2>4. Pending(p)
    <3>1. ASSUME NEW r \in Requests, NEW b \in Bodies, Submit(r, b) PROVE Pending(p)
      BY <2>3, <3>1, RequestAdmitted DEF Pending
    <3>2. CASE ~\E r \in Requests, b \in Bodies : Submit(r, b)
      BY <3>2, RequestsKept DEF Pending
    <3> QED
      BY <3>1, <3>2
  <2> QED
    BY <2>1, <2>3, <2>4 DEF MarketInv, FreshTarget
<1> QED
  BY <1>3, <1>4 DEF MarketInv

\* Nothing is mined initially.
LEMMA MarketInit == Init => MarketInv
BY DEF Init, MarketInv, TakenDocked, PutKnown, FreshTarget, MinedRebalance

\* What the mined transactions of the requests did to the strategies stands.
THEOREM MarketInvariant == Spec => []MarketInv
BY MarketInit, MarketStep, TypeInvariant, LedgerInvariant, StageInvariant,
   AdmissionInvariant, PTL DEF Spec

-----------------------------------------------------------------------------
(* Layer 7: the plan of a session and the rebalances on chain.             *)

Synced(r) == MinedRebalance(r) => r \in Followers(SessionOf(r))

\* The first entry of a plan is its ship's, the others are mined rebalances'.
EntryOf(s, i, q) ==
  /\ attempt[q].status # "none"
  /\ SessionOf(q) = s
  /\ session[s].plan[i].strategy = Target(q)
  /\ i = 1 => Act(q) = "ship"
  /\ i # 1 => MinedRebalance(q)

PlanKnown ==
  \A s \in Sessions : \A i \in 1 .. Len(session[s].plan) :
    EntryOf(s, i, session[s].plan[i].by)

PlanOnce ==
  \A s \in Sessions : \A i, j \in 1 .. Len(session[s].plan) :
    session[s].plan[i].by = session[s].plan[j].by => i = j

\* A pending request finds the session as it was accepted, or has appended its
\* own rebalance, last.
Unchanged(r) ==
  /\ Current(SessionOf(r)) = attempt[r].before
  /\ r \notin Followers(SessionOf(r))

AppendedLast(r) ==
  LET p == session[SessionOf(r)].plan IN
  /\ Act(r) = "rebalance"
  /\ p[Len(p)].by = r

PendingPlan == \A r \in Requests : Pending(r) => Unchanged(r) \/ AppendedLast(r)

\* What the stage of a call says of the plan.
Behind(r, stage) ==
  /\ stage = "settle" => Succeeded(r, Primary)
  /\ stage \in {"verify", "guard", "finish"} => Synced(r)
  /\ stage \in {"close", "revoke"} => Act(r) = "dock"
  /\ stage \in {"preguard", "verify", "guard"} => Act(r) # "dock"

BreachPlan == \A r \in Requests : attempt[r].riskStop # None => Act(r) # "dock" /\ Synced(r)
ConcludedPlan == \A r \in Requests : ~Pending(r) => Synced(r)

PlanInv ==
  /\ PlanKnown /\ PlanOnce /\ PendingPlan /\ BreachPlan /\ ConcludedPlan
  /\ \A r \in Requests : ctl.req = r => Behind(r, ctl.at)

\* The entries of a plan.
LEMMA PlanEntries ==
  ASSUME TypeInv, NEW s \in Sessions
  PROVE  /\ session[s].plan \in Seq(PlanEntry)
         /\ Len(session[s].plan) \in Nat
         /\ \A i \in 1 .. Len(session[s].plan) :
              session[s].plan[i].by \in Requests /\ session[s].plan[i].strategy \in Strategies
<1>1. session[s].plan \in Seq(PlanEntry)
  BY DEF TypeInv, TypeOK, Session
<1>2. \A i \in 1 .. Len(session[s].plan) : session[s].plan[i] \in PlanEntry
  BY <1>1
<1> QED
  BY <1>1, <1>2 DEF PlanEntry

\* A stored request has a session, with a plan.
LEMMA StoredRequest ==
  ASSUME TypeInv, NEW r \in Requests, attempt[r].status # "none"
  PROVE  /\ attempt[r].body \in Bodies
         /\ SessionOf(r) \in Sessions
         /\ session[SessionOf(r)].status # "none"
         /\ Len(session[SessionOf(r)].plan) >= 1
<1>1. /\ attempt[r].body \in Bodies
      /\ SessionOf(r) \in Sessions
      /\ session[SessionOf(r)].status # "none"
  BY ConstantsAssumption DEF TypeInv, KnownRequest, SessionOf, Body
<1>2. session[SessionOf(r)].plan # <<>> /\ session[SessionOf(r)].plan \in Seq(PlanEntry)
  BY <1>1, PlanEntries DEF TypeInv, KnownSession
<1>3. ASSUME NEW p \in Seq(PlanEntry), p # <<>> PROVE Len(p) >= 1
  BY <1>3
<1> QED
  BY <1>1, <1>2, <1>3

\* A request with a rebalance on chain is stored, and has signed its primary.
LEMMA RebalanceStored ==
  ASSUME TypeInv, LedgerInv, NEW r \in Requests, MinedRebalance(r)
  PROVE  attempt[r].status # "none" /\ Has(r, Primary) /\ Act(r) = "rebalance"
BY DEF MinedRebalance, LedgerInv, WriteAhead, SavedKnown, Has

\* A step that leaves the plans and the chain alone, records a breach and ends
\* a request only when the plan has what the chain has.
LEMMA PlanKept ==
  ASSUME TypeInv, LedgerInv, PlanInv, mined' = mined, receipts \subseteq receipts',
         \A s \in Sessions : session'[s].plan = session[s].plan,
         \A q \in Requests :
           /\ attempt'[q].body = attempt[q].body
           /\ attempt'[q].before = attempt[q].before
           /\ attempt[q].status # "none" => attempt'[q].status # "none"
           /\ Pending(q)' => Pending(q)
           /\ Pending(q) /\ ~Pending(q)' => Synced(q)
           /\ attempt'[q].riskStop # None =>
                attempt[q].riskStop # None \/ (Act(q) # "dock" /\ Synced(q)),
         \A q \in Requests : ctl'.req = q => Behind(q, ctl'.at)
  PROVE  PlanInv'
<1>1. \A q \in Requests : /\ Act(q)' = Act(q)
                          /\ SessionOf(q)' = SessionOf(q)
                          /\ Target(q)' = Target(q)
                          /\ MinedRebalance(q)' <=> MinedRebalance(q)
  BY DEF Act, SessionOf, Target, MinedRebalance
<1>2. \A s \in Sessions : Followers(s)' = Followers(s) /\ Current(s)' = Current(s)
  BY DEF Followers, Current
<1>3. \A q \in Requests : Synced(q) => Synced(q)'
  BY <1>1, <1>2, StoredRequest, RebalanceStored DEF Synced
<1>4. PlanKnown'
  <2> SUFFICES ASSUME NEW s \in Sessions, NEW i \in 1 .. Len(session[s].plan)
               PROVE  EntryOf(s, i, session[s].plan[i].by)'
    BY DEF PlanKnown
  <2>1. PICK q \in Requests : q = session[s].plan[i].by
    BY PlanEntries
  <2>2. EntryOf(s, i, q) /\ q = session'[s].plan[i].by
    BY <2>1 DEF PlanInv, PlanKnown
  <2>3. EntryOf(s, i, q)'
    BY <1>1, <2>1, <2>2 DEF EntryOf
  <2> QED
    BY <2>2, <2>3
<1>5. PlanOnce'
  BY DEF PlanInv, PlanOnce
<1>6. PendingPlan'
  <2> SUFFICES ASSUME NEW q \in Requests, Pending(q)' PROVE Unchanged(q)' \/ AppendedLast(q)'
    BY DEF PendingPlan
  <2>1. Pending(q) /\ SessionOf(q) \in Sessions
    BY StoredRequest DEF Pending
  <2>2. Unchanged(q) \/ AppendedLast(q)
    BY <2>1 DEF PlanInv, PendingPlan
  <2> QED
    BY <1>1, <1>2, <2>1, <2>2 DEF Unchanged, AppendedLast
<1>7. BreachPlan' /\ ConcludedPlan'
  BY <1>1, <1>3 DEF PlanInv, BreachPlan, ConcludedPlan
<1>8. \A q \in Requests : Succeeded(q, Primary) => Succeeded(q, Primary)'
  BY DEF Succeeded, Outcome
<1>9. \A q \in Requests : ctl'.req = q => Behind(q, ctl.at)'
  BY <1>1, <1>3, <1>8 DEF Behind
<1> QED
  BY <1>4, <1>5, <1>6, <1>7, <1>9 DEF PlanInv

\* A request that has not signed its primary, or whose primary reverted, has
\* no rebalance to follow.
LEMMA NothingToFollow ==
  ASSUME TypeInv, LedgerInv, NEW r \in Requests,
         \/ ~Has(r, Primary)
         \/ Reverted(r, Primary)
         \/ Act(r) # "rebalance"
  PROVE  Synced(r)
<1> SUFFICES ASSUME MinedRebalance(r) PROVE FALSE
    BY DEF Synced
<1>1. PICK m \in mined : m.tx.req = r /\ m.tx.step = Primary /\ m.ok
  BY DEF MinedRebalance
<1>2. Reverted(r, Primary)
  BY RebalanceStored
<1>3. PICK n \in receipts : n.tx.req = r /\ n.tx.step = Primary /\ ~n.ok
  BY <1>2 DEF Reverted, Outcome
<1>4. n \in mined /\ n.tx \in saved /\ m.tx \in saved
  BY DEF LedgerInv, WriteAhead
<1>5. n = m
  BY <1>1, <1>3, <1>4 DEF LedgerInv, SavedOnce, MinedOnce
<1> QED
  BY <1>1, <1>3, <1>5

\* A step that leaves the requests, the plans and the chain alone.
LEMMA PlanGoto ==
  ASSUME TypeInv, LedgerInv, PlanInv, UNCHANGED <<attempt, receipts, mined>>,
         \A s \in Sessions : session'[s].plan = session[s].plan,
         NEW r \in Requests, NEW stage, Goto(r, stage), Behind(r, stage)
  PROVE  PlanInv'
<1>1. ctl'.req = r /\ ctl'.at = stage
  BY DEF Goto
<1> QED
  BY <1>1, PlanKept DEF Pending

\* The moves of a call.
LEMMA PlanMoves ==
  ASSUME TypeInv, LedgerInv, StageInv, PlanInv, NEW r \in Requests, Move(r)
  PROVE  PlanInv'
<1> USE DEF Running, Behind
<1>0. /\ UNCHANGED <<attempt, session, receipts, mined>>
      /\ ctl.req = r
      /\ Behind(r, ctl.at)
  BY DEF Move, EnterRisk, EnterShip, EnterChange, EnterMonitor, EnterDock, WithinLimit,
         Advance, VerifyRebalance, SettleSwap, GuardAt, PlanInv, journal, network
<1>1. CASE EnterRisk(r) \/ EnterShip(r) \/ EnterChange(r)
  BY <1>0, <1>1, PlanGoto DEF EnterRisk, EnterShip, EnterChange
<1>2. CASE EnterMonitor(r)
  BY <1>0, <1>2, PlanGoto, NothingToFollow DEF EnterMonitor
<1>3. CASE EnterDock(r)
  BY <1>0, <1>3, PlanGoto DEF EnterDock
<1>4. ASSUME NEW stage \in {"preguard", "guard"}, NEW s \in Strategies,
             WithinLimit(r, stage, s)
      PROVE  PlanInv'
  BY <1>0, <1>4, PlanGoto DEF WithinLimit, GuardAt
<1>5. CASE Advance(r)
  <2>1. CASE Running(r, "approve") /\ Goto(r, "primary")
    BY <1>0, <2>1, PlanGoto
  <2>2. CASE /\ Running(r, "primary")
             /\ Goto(r, IF Act(r) = "dock" THEN "close" ELSE "settle")
    <3>1. Succeeded(r, Primary)
      BY <1>5, <2>2 DEF Advance, AllSent, StageSteps
    <3> QED
      BY <1>0, <2>2, <3>1, PlanGoto
  <2>3. CASE Running(r, "revoke") /\ Goto(r, "finish")
    BY <1>0, <2>3, PlanGoto, NothingToFollow
  <2> QED
    BY <1>5, <2>1, <2>2, <2>3 DEF Advance
<1>6. CASE VerifyRebalance(r)
  BY <1>0, <1>6, PlanGoto DEF VerifyRebalance
<1>7. CASE SettleSwap(r)
  BY <1>0, <1>7, PlanGoto, NothingToFollow DEF SettleSwap
<1> QED
  BY <1>1, <1>2, <1>3, <1>4, <1>5, <1>6, <1>7 DEF Move

\* The moves that store the session's status.
LEMMA PlanConclusion ==
  ASSUME TypeInv, LedgerInv, StageInv, PlanInv, NEW r \in Requests, Conclusion(r)
  PROVE  PlanInv'
<1> USE DEF Running, Behind
<1>0. /\ UNCHANGED <<attempt, receipts, mined>>
      /\ ctl.req = r
      /\ Behind(r, ctl.at) /\ Reached(r, ctl.at)
  BY DEF Conclusion, SettleShip, SettleRisk, Close, AlreadyDocked, GuardAt, PlanInv, StageInv,
         network
<1>1. \A s \in Sessions : session'[s].plan = session[s].plan
  <2>1. session \in [Sessions -> Session]
    BY DEF TypeInv, TypeOK
  <2>2. PICK status : session' = [session EXCEPT ![SessionOf(r)].status = status]
    BY DEF Conclusion, SettleShip, SettleRisk, Close, AlreadyDocked, CloseSession
  <2> QED
    BY <2>1, <2>2 DEF Session
<1>2. CASE SettleShip(r)
  BY <1>0, <1>1, <1>2, PlanGoto, NothingToFollow DEF SettleShip
<1>3. CASE SettleRisk(r)
  BY <1>0, <1>1, <1>3, PlanGoto DEF SettleRisk, Reached, PlanInv, BreachPlan
<1>4. CASE Close(r)
  BY <1>0, <1>1, <1>4, PlanGoto, NothingToFollow DEF Close
<1>5. ASSUME NEW stage \in {"preguard", "guard"}, NEW s \in Strategies,
             AlreadyDocked(r, stage, s)
      PROVE  PlanInv'
  <2>1. ctl.at = stage /\ Goto(r, "finish")
    BY <1>5 DEF AlreadyDocked, GuardAt
  <2>2. Synced(r)
    BY <1>0, <2>1, NothingToFollow DEF Reached
  <2> QED
    BY <1>0, <1>1, <2>1, <2>2, PlanGoto
<1> QED
  BY <1>2, <1>3, <1>4, <1>5 DEF Conclusion

\* A request ends with its rebalance in the plan.
LEMMA EndSynced ==
  ASSUME TypeInv, LedgerInv, StageInv, PlanInv, NEW r \in Requests, End(r)
  PROVE  Synced(r)
<1> USE DEF Running, Behind
<1>0. /\ ctl.req = r
      /\ Behind(r, ctl.at) /\ Reached(r, ctl.at) /\ RequestInv(r)
  BY DEF End, MonitorUnavailable, FailExpired, QuoteRejected, Finish, FailReverted, Due,
         PlanInv, StageInv
<1>1. CASE MonitorUnavailable(r) \/ FailExpired(r) \/ QuoteRejected(r)
  BY <1>1, NothingToFollow
     DEF MonitorUnavailable, FailExpired, ExpiredUnsigned, QuoteRejected
<1>2. CASE Finish(r)
  BY <1>0, <1>2 DEF Finish
<1>3. ASSUME NEW step \in Steps, FailReverted(r, step) PROVE Synced(r)
  <2>1. step \in StageSteps(r) /\ ~Succeeded(r, step) /\ Reverted(r, step)
    BY <1>3 DEF FailReverted, Due
  <2>2. CASE ctl.at = "approve"
    <3>1. step \in Approvals(r)
      BY <1>0, <2>1, <2>2 DEF StageSteps, Approvals, Reached
    <3> QED
      BY <1>0, <2>1, <3>1, NothingToFollow DEF RequestInv
  <2>3. CASE ctl.at = "primary"
    BY <2>1, <2>3, NothingToFollow DEF StageSteps
  <2>4. CASE ctl.at = "risk"
    BY <1>0, <2>4 DEF Reached, PlanInv, BreachPlan
  <2>5. CASE ctl.at = "revoke"
    BY <1>0, <2>5, NothingToFollow
  <2> QED
    BY <2>1, <2>2, <2>3, <2>4, <2>5 DEF StageSteps
<1> QED
  BY <1>1, <1>2, <1>3 DEF End

\* Ending a request.
LEMMA PlanEnd ==
  ASSUME TypeInv, LedgerInv, StageInv, PlanInv, [Next]_vars, NEW r \in Requests, End(r)
  PROVE  PlanInv'
<1>1. Synced(r) /\ ctl.req = r
  BY EndSynced DEF End, MonitorUnavailable, FailExpired, QuoteRejected, Finish, FailReverted,
                   Due, Running
<1>2. UNCHANGED <<session, receipts, mined>>
  BY DEF End, MonitorUnavailable, FailExpired, QuoteRejected, Finish, FailReverted, network
<1>3. PICK status \in {"completed", "failed"} :
        attempt' = [attempt EXCEPT ![r].status = status] /\ ctl' = Idle
  BY DEF End, MonitorUnavailable, FailExpired, QuoteRejected, Finish, FailReverted, Ended
<1>4. attempt \in [Requests -> Attempt]
  BY DEF TypeInv, TypeOK
<1>5. \A q \in Requests :
        /\ attempt'[q].body = attempt[q].body
        /\ attempt'[q].before = attempt[q].before
        /\ attempt'[q].riskStop = attempt[q].riskStop
        /\ q # r => attempt'[q].status = attempt[q].status
  BY <1>3, <1>4 DEF Attempt
<1>6. attempt'[r].status = status
  BY <1>3, <1>4 DEF Attempt
<1>7. \A q \in Requests : ctl'.req # q
  BY <1>3, ConstantsAssumption DEF Idle
<1> QED
  BY <1>1, <1>2, <1>5, <1>6, <1>7, PlanKept DEF Pending

\* Recording a breach: the plan has what the chain has.
LEMMA PlanBreach ==
  ASSUME TypeInv, LedgerInv, StageInv, PlanInv, NEW r \in Requests,
         NEW stage \in {"preguard", "guard"}, NEW s \in Strategies, WouldDock(r, stage, s)
  PROVE  PlanInv'
<1>1. /\ attempt \in [Requests -> Attempt]
      /\ attempt' = [attempt EXCEPT ![r].riskStop = s]
      /\ ctl.req = r /\ ctl.at = stage
      /\ ctl'.req = r /\ ctl'.at = "risk"
      /\ UNCHANGED <<session, receipts, mined>>
  BY DEF TypeInv, TypeOK, WouldDock, GuardAt, Running, Goto, network
<1>2. \A q \in Requests :
        /\ attempt'[q].body = attempt[q].body
        /\ attempt'[q].before = attempt[q].before
        /\ attempt'[q].status = attempt[q].status
        /\ q # r => attempt'[q].riskStop = attempt[q].riskStop
  BY <1>1 DEF Attempt
<1>3. Behind(r, stage) /\ Reached(r, stage)
  BY <1>1 DEF PlanInv, StageInv
<1>4. Act(r) # "dock" /\ Synced(r)
  BY <1>3, NothingToFollow DEF Behind, Reached
<1>5. Behind(r, "risk")
  BY DEF Behind
<1> QED
  BY <1>1, <1>2, <1>4, <1>5, PlanKept DEF Pending

\* A mined rebalance leaves the plan behind only while its request is pending.
LEMMA PlanMine ==
  ASSUME TypeInv, LedgerInv, StageInv, PlanInv, NEW t \in pool, NEW ok \in BOOLEAN, Mine(t, ok)
  PROVE  PlanInv'
<1> DEFINE k == [tx |-> t, ok |-> ok]
           r == t.req
<1>1. mined' = mined \cup {k} /\ UNCHANGED <<attempt, session, receipts, ctl>>
  BY DEF Mine, journal
<1>2. k.tx = t /\ k.ok = ok
  OBVIOUS
<1> HIDE DEF k
<1>3. \A q : /\ Act(q)' = Act(q)
             /\ SessionOf(q)' = SessionOf(q)
             /\ Target(q)' = Target(q)
             /\ Pending(q)' <=> Pending(q)
  BY <1>1 DEF Act, SessionOf, Target, Pending
<1>4. \A s : Followers(s)' = Followers(s) /\ Current(s)' = Current(s)
  BY <1>1 DEF Followers, Current
<1>5. \A q : MinedRebalance(q) => MinedRebalance(q)'
  BY <1>1, <1>3 DEF MinedRebalance
<1>6. \A q : MinedRebalance(q)' /\ ~MinedRebalance(q) => q = r /\ t.step = Primary
  BY <1>1, <1>2, <1>3 DEF MinedRebalance
<1>7. t.step = Primary => Pending(r) /\ ~Settled(r, Primary)
  BY Underway
<1>8. \A q \in Requests : Synced(q) /\ (~Pending(q) \/ Settled(q, Primary)) => Synced(q)'
  BY <1>3, <1>4, <1>6, <1>7 DEF Synced
<1>9. PlanKnown' /\ PlanOnce'
  <2>1. \A s, i, q : EntryOf(s, i, q) => EntryOf(s, i, q)'
    BY <1>1, <1>3, <1>5 DEF EntryOf
  <2> QED
    BY <1>1, <2>1 DEF PlanInv, PlanKnown, PlanOnce
<1>10. PendingPlan'
  BY <1>1, <1>3, <1>4 DEF PlanInv, PendingPlan, Unchanged, AppendedLast
<1>11. ConcludedPlan'
  BY <1>3, <1>8 DEF PlanInv, ConcludedPlan
<1>12. BreachPlan'
  BY <1>1, <1>3, <1>8 DEF PlanInv, BreachPlan, StageInv, RequestInv
<1>13. \A q \in Requests : ctl'.req = q => Behind(q, ctl.at)'
  <2> SUFFICES ASSUME NEW q \in Requests, ctl.req = q PROVE Behind(q, ctl.at)'
    BY <1>1
  <2>1. Behind(q, ctl.at) /\ Reached(q, ctl.at)
    BY DEF PlanInv, StageInv
  <2>2. Succeeded(q, Primary)' <=> Succeeded(q, Primary)
    BY <1>1 DEF Succeeded, Outcome
  <2>3. ctl.at \in {"verify", "guard", "finish"} => Synced(q)'
    BY <1>8, <2>1 DEF Behind, Reached
  <2> QED
    BY <1>1, <1>3, <2>1, <2>2, <2>3 DEF Behind
<1> QED
  BY <1>9, <1>10, <1>11, <1>12, <1>13 DEF PlanInv

\* An admitted request finds the plan as it is, or starts it.
LEMMA PlanSubmit ==
  ASSUME TypeInv, LedgerInv, PlanInv, TypeInv', NEW r \in Requests, NEW b \in Bodies,
         Submit(r, b)
  PROVE  PlanInv'
<1> DEFINE s0 == b.session
<1>1. /\ NonePending /\ attempt[r].status = "none"
      /\ attempt'[r].status = "pending" /\ attempt'[r].body = b
      /\ attempt'[r].riskStop = None
      /\ \A q \in Requests : q # r => attempt'[q] = attempt[q]
      /\ ctl' = [req |-> r, at |-> "entry", sent |-> FALSE]
      /\ UNCHANGED <<saved, receipts, mined>>
      /\ s0 \in Sessions
  BY RequestAdmitted DEF network
<1>2. \A q \in Requests : q # r =>
        /\ Act(q)' = Act(q)
        /\ SessionOf(q)' = SessionOf(q)
        /\ Target(q)' = Target(q)
        /\ Pending(q)' <=> Pending(q)
  BY <1>1 DEF Act, SessionOf, Target, Pending
<1>3. Act(r)' = b.action /\ SessionOf(r)' = s0
  BY <1>1 DEF Act, SessionOf
<1>4. ~MinedRebalance(r)' /\ \A q \in Requests : q # r => (MinedRebalance(q)' <=> MinedRebalance(q))
  <2>1. \A m \in mined : m.tx.req # r
    BY <1>1 DEF LedgerInv, WriteAhead, SavedKnown
  <2> QED
    BY <1>1, <1>2, <2>1 DEF MinedRebalance
\* The plan of the session of a new ship has one entry, the others are as before.
<1>5. /\ \A s \in Sessions : s # s0 \/ b.action # "ship" => session'[s] = session[s]
      /\ b.action = "ship" =>
           /\ Len(session'[s0].plan) = 1
           /\ session'[s0].plan[1].strategy = b.strategy
           /\ session'[s0].plan[1].by = r
  BY SessionAdmitted
<1>6. \A q \in Requests : attempt[q].status # "none" =>
        q # r /\ SessionOf(q) \in Sessions /\ session'[SessionOf(q)] = session[SessionOf(q)]
  <2> SUFFICES ASSUME NEW q \in Requests, attempt[q].status # "none"
               PROVE  /\ q # r /\ SessionOf(q) \in Sessions
                      /\ session'[SessionOf(q)] = session[SessionOf(q)]
    OBVIOUS
  <2>1. SessionOf(q) \in Sessions /\ session[SessionOf(q)].status # "none"
    BY StoredRequest
  <2>2. b.action = "ship" => session[s0].status = "none"
    BY RequestAdmitted
  <2> QED
    BY <1>1, <1>5, <2>1, <2>2
<1>7. \A q \in Requests : Synced(q) => Synced(q)'
  <2> SUFFICES ASSUME NEW q \in Requests, Synced(q), MinedRebalance(q)'
               PROVE  q \in Followers(SessionOf(q))'
    BY DEF Synced
  <2>1. q # r /\ MinedRebalance(q)
    BY <1>4
  <2>2. q \in Followers(SessionOf(q)) /\ attempt[q].status # "none"
    BY <2>1, RebalanceStored DEF Synced
  <2>3. SessionOf(q)' = SessionOf(q) /\ session'[SessionOf(q)] = session[SessionOf(q)]
    BY <1>2, <1>6, <2>1, <2>2
  <2> QED
    BY <2>2, <2>3 DEF Followers
<1>8. PlanKnown' /\ PlanOnce'
  <2>1. ASSUME NEW s \in Sessions, session'[s] = session[s],
               NEW i \in 1 .. Len(session'[s].plan)
        PROVE  EntryOf(s, i, session[s].plan[i].by)'
    <3>1. PICK q \in Requests : q = session[s].plan[i].by
      BY <2>1, PlanEntries
    <3>2. EntryOf(s, i, q) /\ q = session'[s].plan[i].by
      BY <2>1, <3>1 DEF PlanInv, PlanKnown
    <3>3. q # r
      BY <1>1, <3>2 DEF EntryOf
    <3>4. EntryOf(s, i, q)'
      BY <1>1, <1>2, <1>4, <2>1, <3>2, <3>3 DEF EntryOf
    <3> QED
      BY <3>2, <3>4
  <2>2. ASSUME b.action = "ship", NEW i \in 1 .. Len(session'[s0].plan)
        PROVE  i = 1 /\ EntryOf(s0, i, session[s0].plan[i].by)'
    <3>0. i = 1
      BY <1>5, <2>2
    <3>1. session'[s0].plan[i].by = r /\ session'[s0].plan[i].strategy = b.strategy
      BY <1>5, <2>2, <3>0
    <3>2. Target(r)' = b.strategy
      BY <1>1, <2>2 DEF Target, Act
    <3>3. EntryOf(s0, i, r)'
      BY <1>1, <1>3, <2>2, <3>0, <3>1, <3>2 DEF EntryOf
    <3> QED
      BY <3>0, <3>1, <3>3
  <2>3. \A s \in Sessions : session'[s] = session[s] \/ (s = s0 /\ b.action = "ship")
    BY <1>5
  <2>4. PlanKnown'
    BY <2>1, <2>2, <2>3 DEF PlanKnown
  <2>5. PlanOnce'
    BY <2>2, <2>3 DEF PlanInv, PlanOnce
  <2> QED
    BY <2>4, <2>5
<1>9. PendingPlan'
  <2> SUFFICES ASSUME NEW q \in Requests, Pending(q)' PROVE Unchanged(q)'
    BY DEF PendingPlan
  <2>1. q = r
    BY <1>1, <1>2 DEF NonePending
  <2>2. CASE b.action = "ship"
    <3>1. Len(session'[s0].plan) = 1 /\ session'[s0].plan[1].strategy = b.strategy
      BY <1>5, <2>2
    <3>2. Followers(s0)' = {}
      BY <3>1 DEF Followers
    <3>3. Current(s0)' = b.strategy
      BY <3>1 DEF Current, ActiveOf
    <3>4. attempt'[r].before = b.strategy
      BY <2>2, RequestAdmitted
    <3> QED
      BY <1>3, <2>1, <3>2, <3>3, <3>4 DEF Unchanged
  <2>3. CASE b.action # "ship"
    <3>1. attempt'[r].before = Current(s0) /\ session'[s0] = session[s0]
      BY <1>1, <1>5, <2>3, RequestAdmitted
    <3>2. Current(s0)' = Current(s0) /\ Followers(s0)' = Followers(s0)
      BY <3>1 DEF Current, Followers
    <3>3. r \notin Followers(s0)
      BY <1>1, PlanEntries DEF Followers, PlanInv, PlanKnown, EntryOf
    <3> QED
      BY <1>3, <2>1, <3>1, <3>2, <3>3 DEF Unchanged
  <2> QED
    BY <2>2, <2>3
<1>10. ConcludedPlan' /\ BreachPlan'
  BY <1>1, <1>2, <1>7 DEF PlanInv, ConcludedPlan, BreachPlan, Pending
<1>11. \A q \in Requests : ctl'.req = q => Behind(q, ctl.at)'
  BY <1>1 DEF Behind
<1> QED
  BY <1>8, <1>9, <1>10, <1>11 DEF PlanInv

\* What SettleRebalance does: it appends its rebalance to the plan that still
\* ends with the strategy the request found, or leaves the plan that has it.
LEMMA Following ==
  ASSUME TypeInv, LedgerInv, AdmissionInv, PlanInv, NEW r \in Requests, SettleRebalance(r)
  PROVE  /\ Pending(r) /\ ctl.req = r /\ ctl.at = "settle"
         /\ SessionOf(r) \in Sessions
         /\ UNCHANGED <<attempt, saved, receipts, network>>
         /\ Goto(r, "verify")
         /\ Act(r) = "rebalance" /\ MinedRebalance(r) /\ Target(r) \in Strategies
         /\ \/ /\ session' = session
               /\ r \in Followers(SessionOf(r))
            \/ /\ Current(SessionOf(r)) = attempt[r].before
               /\ \A i \in 1 .. Len(session[SessionOf(r)].plan) :
                    session[SessionOf(r)].plan[i].by # r
               /\ session' = [session EXCEPT ![SessionOf(r)].plan =
                                Append(@, [strategy |-> Target(r), by |-> r])]
<1> DEFINE s == SessionOf(r)
           p == session[s].plan
<1>1. /\ ctl.req = r /\ ctl.at = "settle" /\ Act(r) = "rebalance"
      /\ UNCHANGED <<attempt, saved, receipts, network>>
      /\ Goto(r, "verify")
  BY DEF SettleRebalance, Running
<1>2. /\ Pending(r) /\ attempt[r].status # "none"
      /\ attempt[r].body \in Bodies /\ s \in Sessions
  BY <1>1, RunningRequest DEF Pending
<1>3. Target(r) \in Strategies
  BY <1>1, <1>2, ConstantsAssumption DEF Target, Act, Body
<1>4. MinedRebalance(r)
  <2>1. Succeeded(r, Primary)
    BY <1>1 DEF PlanInv, Behind
  <2> QED
    BY <1>1, <2>1 DEF Succeeded, Outcome, LedgerInv, MinedRebalance
<1>5. Len(p) \in Nat /\ Len(p) >= 1
  BY <1>2, StoredRequest, PlanEntries
<1>6. \A i \in 1 .. Len(p) : EntryOf(s, i, p[i].by)
  BY <1>2 DEF PlanInv, PlanKnown
<1>7. attempt[r].before # Target(r)
  BY <1>1, <1>2 DEF AdmissionInv, Admitted
<1>8. CASE Current(s) = attempt[r].before /\ session' = [session EXCEPT ![s].plan =
                                Append(@, [strategy |-> Target(r), by |-> r])]
  <2>1. Unchanged(r)
    <3>1. SUFFICES ASSUME AppendedLast(r) PROVE FALSE
      BY <1>2 DEF PlanInv, PendingPlan
    <3>2. p[Len(p)].by = r
      BY <3>1 DEF AppendedLast
    <3>3. Current(s) = Target(r)
      BY <1>5, <1>6, <3>2 DEF EntryOf, Current, ActiveOf
    <3> QED
      BY <1>7, <1>8, <3>3
  <2>2. ASSUME NEW i \in 1 .. Len(p), p[i].by = r PROVE FALSE
    <3>1. CASE i = 1
      BY <1>1, <1>6, <2>2, <3>1 DEF EntryOf
    <3>2. CASE i # 1
      BY <1>5, <2>1, <2>2, <3>2 DEF Unchanged, Followers
    <3> QED
      BY <3>1, <3>2
  <2> QED
    BY <1>1, <1>2, <1>3, <1>4, <1>8, <2>2
<1>9. CASE session' = session /\ p[Len(p)].by = r
  <2>1. Len(p) # 1
    BY <1>1, <1>5, <1>6, <1>9 DEF EntryOf
  <2>0. \A n \in Nat : n >= 1 /\ n # 1 => n \in 2 .. n
    OBVIOUS
  <2>2. Len(p) \in 2 .. Len(p)
    BY <1>5, <2>0, <2>1
  <2>3. r \in Followers(s)
    BY <1>9, <2>2 DEF Followers
  <2> QED
    BY <1>1, <1>2, <1>3, <1>4, <1>9, <2>3
<1> QED
  BY <1>8, <1>9 DEF SettleRebalance, Followed

\* Appending a rebalance keeps the plans and the chain together.
LEMMA PlanRebalance ==
  ASSUME TypeInv, LedgerInv, AdmissionInv, PlanInv, NEW r \in Requests, SettleRebalance(r)
  PROVE  PlanInv'
<1> DEFINE s0 == SessionOf(r)
<1>1. /\ Pending(r) /\ ctl.req = r /\ s0 \in Sessions
      /\ UNCHANGED <<attempt, receipts, mined>>
      /\ Goto(r, "verify")
      /\ Act(r) = "rebalance" /\ MinedRebalance(r)
  BY Following DEF network
<1>2. CASE session' = session /\ r \in Followers(s0)
  BY <1>1, <1>2, PlanGoto DEF Synced, Behind
<1>3. CASE /\ \A i \in 1 .. Len(session[s0].plan) : session[s0].plan[i].by # r
           /\ session' = [session EXCEPT ![s0].plan =
                            Append(@, [strategy |-> Target(r), by |-> r])]
  <2> DEFINE p == session[s0].plan
             e == [strategy |-> Target(r), by |-> r]
             n == Len(p)
  <2>1. session \in [Sessions -> Session] /\ p \in Seq(PlanEntry) /\ n \in Nat /\ n >= 1
    BY <1>1, PlanEntries, StoredRequest DEF TypeInv, TypeOK, Pending
  <2>2. session'[s0].plan = Append(p, e)
    BY <1>1, <1>3, <2>1 DEF Session
  <2>3. \A s \in Sessions : s # s0 => session'[s] = session[s]
    BY <1>3, <2>1
  <2>4. e.strategy = Target(r) /\ e.by = r
    OBVIOUS
  <2> HIDE DEF e
  <2>5. /\ Len(session'[s0].plan) = n + 1
        /\ \A i \in 1 .. n : session'[s0].plan[i] = p[i]
        /\ session'[s0].plan[n + 1] = e
    BY <2>1, <2>2
  <2> HIDE DEF p, n
  <2>6. \A q : /\ Act(q)' = Act(q)
               /\ SessionOf(q)' = SessionOf(q)
               /\ Target(q)' = Target(q)
               /\ Pending(q)' <=> Pending(q)
               /\ MinedRebalance(q)' <=> MinedRebalance(q)
    BY <1>1 DEF Act, SessionOf, Target, Pending, MinedRebalance
  <2>7. ASSUME NEW s \in Sessions, NEW i \in 1 .. Len(session'[s].plan)
        PROVE  EntryOf(s, i, session[s].plan[i].by)'
    <3>1. CASE s # s0 \/ i # n + 1
      <4>1. i \in 1 .. Len(session[s].plan) /\ session'[s].plan[i] = session[s].plan[i]
        BY <2>1, <2>3, <2>5, <3>1 DEF p, n
      <4>2. PICK q \in Requests : q = session[s].plan[i].by
        BY <4>1, PlanEntries
      <4>3. EntryOf(s, i, q) /\ q = session'[s].plan[i].by
        BY <4>1, <4>2 DEF PlanInv, PlanKnown
      <4>4. EntryOf(s, i, q)'
        BY <1>1, <2>6, <4>1, <4>3 DEF EntryOf
      <4> QED
        BY <4>3, <4>4
    <3>2. CASE s = s0 /\ i = n + 1
      <4>1. i # 1 /\ session'[s].plan[i].by = r /\ session'[s].plan[i].strategy = Target(r)
        BY <2>1, <2>4, <2>5, <3>2
      <4>2. EntryOf(s, i, r)'
        BY <1>1, <2>6, <3>2, <4>1 DEF EntryOf, Pending
      <4> QED
        BY <4>1, <4>2
    <3> QED
      BY <3>1, <3>2
  <2>8. PlanKnown'
    BY <2>7 DEF PlanKnown
  <2>9. PlanOnce'
    <3> SUFFICES ASSUME NEW s \in Sessions, NEW i \in 1 .. Len(session'[s].plan),
                        NEW j \in 1 .. Len(session'[s].plan),
                        session'[s].plan[i].by = session'[s].plan[j].by
                 PROVE  i = j
      BY DEF PlanOnce
    <3>1. CASE s # s0
      BY <2>3, <3>1 DEF PlanInv, PlanOnce
    <3>2. CASE s = s0
      BY <1>1, <1>3, <2>1, <2>4, <2>5, <3>2 DEF PlanInv, PlanOnce, p, n
    <3> QED
      BY <3>1, <3>2
  <2>10. AppendedLast(r)'
    BY <1>1, <2>4, <2>5, <2>6, <2>1 DEF AppendedLast
  <2>11. PendingPlan'
    <3>1. \A q \in Requests : Pending(q)' => q = r
      BY <1>1, <2>6 DEF AdmissionInv, OnePending
    <3> QED
      BY <2>10, <3>1 DEF PendingPlan
  <2>12. \A s \in Sessions : Followers(s) \subseteq Followers(s)'
    <3> SUFFICES ASSUME NEW s \in Sessions, NEW i \in 2 .. Len(session[s].plan)
                 PROVE  session[s].plan[i].by \in Followers(s)'
      BY DEF Followers
    <3>1. CASE s # s0
      BY <2>3, <3>1 DEF Followers
    <3>2. CASE s = s0
      <4>1. i \in 2 .. Len(session'[s].plan) /\ session'[s].plan[i] = session[s].plan[i]
        BY <2>1, <2>5, <3>2 DEF p, n
      <4> QED
        BY <4>1 DEF Followers
    <3> QED
      BY <3>1, <3>2
  <2>13. r \in Followers(s0)'
    <3>1. n + 1 \in 2 .. Len(session'[s0].plan) /\ session'[s0].plan[n + 1].by = r
      BY <2>1, <2>4, <2>5
    <3>2. SessionOf(r)' = s0 /\ attempt' = attempt
      BY <1>1, <2>6
    <3> QED
      BY <3>1, <3>2 DEF Followers
  <2>14. \A q \in Requests : Synced(q) => Synced(q)'
    BY <2>6, <2>12, StoredRequest, RebalanceStored DEF Synced
  <2>15. BreachPlan' /\ ConcludedPlan'
    BY <1>1, <2>6, <2>14 DEF PlanInv, BreachPlan, ConcludedPlan
  <2>16. \A q \in Requests : ctl'.req = q => Behind(q, ctl.at)'
    BY <1>1, <2>6, <2>13 DEF Goto, Behind, Synced
  <2> QED
    BY <2>8, <2>9, <2>11, <2>15, <2>16 DEF PlanInv
<1> QED
  BY <1>2, <1>3, Following

\* The plans and the chain stay together.
LEMMA PlanStep ==
  TypeInv /\ LedgerInv /\ StageInv /\ AdmissionInv /\ PlanInv /\ [Next]_vars => PlanInv'
<1> SUFFICES ASSUME TypeInv, LedgerInv, StageInv, AdmissionInv, PlanInv, [Next]_vars
             PROVE  PlanInv'
    OBVIOUS
<1>1. TypeInv'
  BY TypeStep
<1>2. ASSUME NEW r \in Requests, Resume(r) PROVE PlanInv'
  BY <1>2, PlanGoto DEF Resume, Behind, journal, network
<1>3. CASE \/ Interrupt
           \/ \E r \in Requests, step \in Steps, n \in Nonces : Prepare(r, step, n)
           \/ \E t \in saved : Broadcast(t)
           \/ \E m \in mined : Confirm(m)
           \/ \E a \in Accounts : SendElsewhere(a)
           \/ \E s \in Strategies : DockElsewhere(s)
           \/ \E s \in Strategies : Expire(s)
           \/ \E t \in seen : Forget(t)
           \/ UNCHANGED vars
  <2>1. UNCHANGED <<attempt, session, mined>> /\ receipts \subseteq receipts'
    BY <1>3 DEF Interrupt, Prepare, Broadcast, Confirm, SendElsewhere, DockElsewhere, Expire,
                Forget, vars, journal, network
  <2>2. \/ ctl' = Idle
        \/ ctl'.req = ctl.req /\ ctl'.at = ctl.at
    BY <1>3 DEF Interrupt, Prepare, Broadcast, Confirm, SendElsewhere, DockElsewhere, Expire,
                Forget, vars, TypeInv, TypeOK, Process
  <2>3. \A q \in Requests : ctl'.req = q => Behind(q, ctl'.at)
    BY <2>2, ConstantsAssumption DEF PlanInv, Idle
  <2> QED
    BY <2>1, <2>3, PlanKept DEF Pending
<1> QED
  BY <1>1, <1>2, <1>3, NextKinds, PlanSubmit, PlanMoves, PlanConclusion, PlanEnd, PlanRebalance,
     PlanBreach, PlanMine DEF Kinds

\* No session has a plan initially.
LEMMA PlanInit == Init => PlanInv
<1> SUFFICES ASSUME Init PROVE PlanInv
    OBVIOUS
<1>1. \A s \in Sessions : Len(session[s].plan) = 0
  BY DEF Init, NoSession
<1>2. \A r \in Requests : ~MinedRebalance(r) /\ ~Pending(r) /\ attempt[r].riskStop = None
  BY DEF Init, MinedRebalance, NoAttempt, Pending
<1>3. ctl.req \notin Requests
  BY ConstantsAssumption DEF Init, Idle
<1> QED
  BY <1>1, <1>2, <1>3 DEF PlanInv, PlanKnown, PlanOnce, PendingPlan, BreachPlan, ConcludedPlan,
                          Synced

\* The plan of a session and the rebalances on chain stay together through
\* crashes and resumed requests.
THEOREM PlanInvariant == Spec => []PlanInv
BY PlanInit, PlanStep, TypeInvariant, LedgerInvariant, StageInvariant, AdmissionInvariant, PTL
   DEF Spec

\* A plan names exactly the rebalances that happened on chain, each once.
LEMMA PlanAndChain == TypeInv /\ LedgerInv /\ PlanInv => PlanFollowsChain
<1> SUFFICES ASSUME TypeInv, LedgerInv, PlanInv PROVE PlanFollowsChain
    OBVIOUS
<1>1. ASSUME NEW r \in Requests, attempt[r].status # "none", r \in Followers(SessionOf(r))
      PROVE  MinedRebalance(r)
  <2>1. SessionOf(r) \in Sessions
    BY <1>1, StoredRequest
  <2>2. PICK i \in 2 .. Len(session[SessionOf(r)].plan) : session[SessionOf(r)].plan[i].by = r
    BY <1>1 DEF Followers
  <2>3. i \in 1 .. Len(session[SessionOf(r)].plan) /\ i # 1
    BY <2>1, <2>2, PlanEntries
  <2> QED
    BY <2>1, <2>2, <2>3 DEF PlanInv, PlanKnown, EntryOf
<1>2. ASSUME NEW r \in Requests, MinedRebalance(r), ~Pending(r)
      PROVE  r \in Followers(SessionOf(r))
  BY <1>2 DEF PlanInv, ConcludedPlan, Synced
<1> QED
  BY <1>1, <1>2 DEF PlanFollowsChain, PlanInv, PlanOnce

-----------------------------------------------------------------------------
(* Layer 8: a closed session.                                              *)

\* The pending request of a closed session has its primary transaction out of
\* the way, and no use for a new one.
ClosedQuiet ==
  \A r \in Requests :
    /\ Pending(r) /\ Act(r) \in {"ship", "rebalance"}
    /\ session[SessionOf(r)].status = "closed"
    => /\ Settled(r, Primary)
       /\ \/ attempt[r].riskStop # None
          \/ aqua[attempt[r].before] = "docked"
          \/ aqua[Target(r)] = "docked"

\* A call that has docked its strategy has closed the session.
ClosedAt(r, stage) ==
  \/ stage \in {"revoke", "finish"} /\ Act(r) = "dock"
  \/ stage = "finish" /\ attempt[r].riskStop # None
  => session[SessionOf(r)].status = "closed"

ClosedInv == ClosedQuiet /\ \A r \in Requests : ctl.req = r => ClosedAt(r, ctl.at)

\* Steps that keep the chain's docked strategies docked, close sessions and
\* start none, sign no primary and conclude no rebalance.
LEMMA ClosedKept ==
  ASSUME TypeInv, ClosedInv, OneWay, AdmissionInv,
         \A q \in Requests :
           /\ attempt'[q].body = attempt[q].body
           /\ attempt'[q].before = attempt[q].before
           /\ Pending(q)' => Pending(q)
           /\ attempt[q].riskStop # None => attempt'[q].riskStop # None
           /\ Settled(q, Primary) => Settled(q, Primary)',
         \A s \in Sessions : session[s].status = "closed" => session'[s].status = "closed",
         \A q \in Requests :
           /\ Pending(q) /\ Act(q) \in {"ship", "rebalance"}
           /\ session'[SessionOf(q)].status = "closed" /\ session[SessionOf(q)].status # "closed"
           => /\ Settled(q, Primary)
              /\ \/ attempt[q].riskStop # None
                 \/ aqua[attempt[q].before] = "docked"
                 \/ aqua[Target(q)] = "docked",
         \A q \in Requests :
           /\ ctl'.req = q
           /\ \/ ctl'.at \in {"revoke", "finish"} /\ Act(q) = "dock"
              \/ ctl'.at = "finish" /\ attempt'[q].riskStop # None
           => session'[SessionOf(q)].status = "closed"
  PROVE  ClosedInv'
<1>1. \A q \in Requests : /\ Act(q)' = Act(q)
                          /\ SessionOf(q)' = SessionOf(q)
                          /\ Target(q)' = Target(q)
  BY DEF Act, SessionOf, Target
<1>2. \A q \in Requests : ctl'.req = q => ClosedAt(q, ctl.at)'
  BY <1>1 DEF ClosedAt
<1>3. ClosedQuiet'
  <2> SUFFICES ASSUME NEW q \in Requests, Pending(q), Act(q) \in {"ship", "rebalance"},
                      session'[SessionOf(q)].status = "closed"
               PROVE  /\ Settled(q, Primary)'
                      /\ \/ attempt'[q].riskStop # None
                         \/ aqua'[attempt[q].before] = "docked"
                         \/ aqua'[Target(q)] = "docked"
    BY <1>1 DEF ClosedQuiet
  <2>1. /\ Settled(q, Primary)
        /\ \/ attempt[q].riskStop # None
           \/ aqua[attempt[q].before] = "docked"
           \/ aqua[Target(q)] = "docked"
    BY DEF ClosedInv, ClosedQuiet
  <2>2. attempt[q].before \in Strategies /\ Target(q) \in Strategies
    <3>1. attempt[q].status # "none" /\ Admitted(q)
      BY DEF Pending, AdmissionInv
    <3>2. attempt[q].body \in Bodies
      BY <3>1, StoredRequest
    <3> QED
      BY <3>1, <3>2, ConstantsAssumption DEF Admitted, Target, Act, Body
  <2> QED
    BY <2>1, <2>2 DEF OneWay
<1> QED
  BY <1>2, <1>3 DEF ClosedInv

\* A step that stores no session and no request.
LEMMA ClosedQuietly ==
  ASSUME TypeInv, ClosedInv, OneWay, AdmissionInv, UNCHANGED <<attempt, session>>,
         \A q \in Requests : Settled(q, Primary) => Settled(q, Primary)',
         \A q \in Requests : ctl'.req = q => ClosedAt(q, ctl'.at)
  PROVE  ClosedInv'
BY ClosedKept DEF Pending, ClosedAt

\* The moves of a call.
LEMMA ClosedMoves ==
  ASSUME TypeInv, StageInv, AdmissionInv, PlanInv, ClosedInv, NEW r \in Requests, Move(r)
  PROVE  ClosedInv'
<1> USE DEF Running
<1>0. /\ UNCHANGED <<attempt, session, saved, receipts, aqua>>
      /\ ctl.req = r /\ ctl'.req = r
      /\ ClosedAt(r, ctl.at) /\ Reached(r, ctl.at) /\ Behind(r, ctl.at)
  BY DEF Move, EnterRisk, EnterShip, EnterChange, EnterMonitor, EnterDock, WithinLimit,
         Advance, VerifyRebalance, SettleSwap, GuardAt, Goto, ClosedInv, StageInv, PlanInv,
         journal, network
<1>1. OneWay /\ \A q \in Requests : Settled(q, Primary) => Settled(q, Primary)'
  BY <1>0 DEF OneWay, Settled
<1>2. ClosedAt(r, ctl'.at)
  <2>1. CASE ctl'.at \notin {"revoke", "finish"}
    BY <2>1 DEF ClosedAt
  <2>2. CASE Advance(r) /\ ctl'.at = "finish"
    BY <1>0, <2>2 DEF Advance, Goto, ClosedAt, Behind
  <2>3. ASSUME NEW stage \in {"preguard", "guard"}, NEW s \in Strategies,
               WithinLimit(r, stage, s), ctl'.at = "finish"
        PROVE  ClosedAt(r, ctl'.at)
    BY <1>0, <2>3 DEF WithinLimit, GuardAt, Goto, ClosedAt, Behind, Reached
  <2>4. ctl'.at \in {"revoke", "finish"} =>
          /\ ctl'.at = "finish"
          /\ \/ Advance(r)
             \/ \E stage \in {"preguard", "guard"}, s \in Strategies : WithinLimit(r, stage, s)
    BY DEF Move, EnterRisk, EnterShip, EnterChange, EnterMonitor, EnterDock, WithinLimit,
           Advance, VerifyRebalance, SettleSwap, Goto
  <2> QED
    BY <2>1, <2>2, <2>3, <2>4
<1> QED
  BY <1>0, <1>1, <1>2, ClosedQuietly

\* The moves that store the session: none opens a closed one.
LEMMA ClosedConclusion ==
  ASSUME TypeInv, LedgerInv, StageInv, AdmissionInv, PlanInv, ClosedInv,
         NEW r \in Requests, Conclusion(r)
  PROVE  /\ ClosedInv'
         /\ \A s \in Sessions : session[s].status = "closed" => session'[s].status = "closed"
<1> USE DEF Running
<1>0. /\ UNCHANGED <<attempt, saved, receipts, aqua>>
      /\ ctl.req = r /\ ctl'.req = r
      /\ RequestInv(r) /\ Reached(r, ctl.at) /\ Behind(r, ctl.at)
      /\ session \in [Sessions -> Session]
  BY DEF Conclusion, SettleShip, SettleRisk, Close, AlreadyDocked, GuardAt, Goto, StageInv,
         PlanInv, network, TypeInv, TypeOK
<1>1. /\ Pending(r) /\ SessionOf(r) \in Sessions
      /\ \A q \in Requests : Pending(q) => q = r
  BY <1>0, RunningRequest DEF AdmissionInv, OnePending
<1>2. OneWay /\ \A q \in Requests : Settled(q, Primary) => Settled(q, Primary)'
  BY <1>0 DEF OneWay, Settled
<1>3. CASE SettleShip(r)
  <2>1. session' = [session EXCEPT ![SessionOf(r)].status = "active"] /\ ctl'.at = "guard"
    BY <1>3 DEF SettleShip, Goto
  <2>2. session[SessionOf(r)].status # "closed"
    <3>1. attempt[r].riskStop = None /\ aqua[Target(r)] = "active" /\ Act(r) = "ship"
      BY <1>0, <1>3 DEF SettleShip, Reached
    <3>2. attempt[r].before = Target(r)
      BY <1>1, <3>1 DEF AdmissionInv, Admitted, Pending
    <3> QED
      BY <1>1, <3>1, <3>2 DEF ClosedInv, ClosedQuiet
  <2>3. \A s \in Sessions : /\ session[s].status = "closed" => session'[s].status = "closed"
                            /\ session'[s].status = "closed" => session[s].status = "closed"
    BY <1>0, <1>1, <2>1, <2>2 DEF Session
  <2>4. \A q \in Requests : Pending(q) => SessionOf(q) \in Sessions
    BY <1>1
  <2> QED
    BY <1>0, <1>2, <2>1, <2>3, <2>4, ClosedKept DEF Pending
<1>4. CASE ~SettleShip(r)
  <2>1. session' = [session EXCEPT ![SessionOf(r)].status = "closed"]
    BY <1>4 DEF Conclusion, SettleRisk, Close, AlreadyDocked, CloseSession
  <2>2. \A s \in Sessions : session[s].status = "closed" => session'[s].status = "closed"
    BY <1>0, <2>1 DEF Session
  <2>3. session'[SessionOf(r)].status = "closed"
    BY <1>0, <1>1, <2>1 DEF Session
  <2>4. ASSUME Act(r) \in {"ship", "rebalance"}
        PROVE  /\ Settled(r, Primary)
               /\ \/ attempt[r].riskStop # None
                  \/ aqua[attempt[r].before] = "docked"
                  \/ aqua[Target(r)] = "docked"
    <3>1. CASE SettleRisk(r)
      BY <1>0, <3>1 DEF SettleRisk, Reached, RequestInv
    <3>2. CASE Close(r)
      BY <1>0, <2>4, <3>2 DEF Close, Behind
    <3>3. ASSUME NEW stage \in {"preguard", "guard"}, NEW x \in Strategies,
                 AlreadyDocked(r, stage, x)
          PROVE  /\ Settled(r, Primary)
                 /\ aqua[attempt[r].before] = "docked" \/ aqua[Target(r)] = "docked"
      BY <1>0, <3>3, UnsignedSettled DEF AlreadyDocked, GuardAt, Reached
    <3> QED
      BY <1>4, <3>1, <3>2, <3>3 DEF Conclusion
  <2> QED
    BY <1>0, <1>1, <1>2, <2>2, <2>3, <2>4, ClosedKept DEF Pending
<1> QED
  BY <1>3, <1>4

\* A primary that is signed for a ship or a rebalance has an open session.
LEMMA ClosedPrepare ==
  ASSUME TypeInv, StageInv, AdmissionInv, ClosedInv, NEW r \in Requests, NEW step \in Steps,
         NEW n \in Nonces, Prepare(r, step, n)
  PROVE  ClosedInv'
<1> DEFINE t == [req |-> r, step |-> step, sender |-> SenderOf(r, step), nonce |-> n]
<1>1. /\ saved' = saved \cup {t}
      /\ UNCHANGED <<attempt, session, receipts, ctl, aqua>>
      /\ ctl.req = r /\ step \in StageSteps(r) /\ Applies(r, step)
  BY DEF Prepare, Due, network
<1>2. t.req = r /\ t.step = step
  OBVIOUS
<1> HIDE DEF t
<1>3. ASSUME step = Primary, Act(r) \in {"ship", "rebalance"},
             session[SessionOf(r)].status = "closed"
      PROVE  FALSE
  <2>1. Pending(r) /\ attempt[r].status # "none" /\ Admitted(r) /\ Reached(r, ctl.at)
    BY <1>1, RunningRequest DEF Pending, AdmissionInv, StageInv
  <2>2. ctl.at = "primary"
    BY <1>1, <1>3 DEF StageSteps, Primary, RiskDock, TakerApprove, MakerApprove, MakerRevoke
  <2>3. attempt[r].riskStop = None /\ Primary # RiskDock
    BY <2>1, <2>2 DEF Reached, Primary, RiskDock
  <2>4. aqua[attempt[r].before] = "docked" \/ aqua[Target(r)] = "docked"
    BY <1>3, <2>1, <2>3 DEF ClosedInv, ClosedQuiet
  <2> QED
    BY <1>1, <1>3, <2>1, <2>3, <2>4 DEF Applies, Admitted
<1>4. ClosedQuiet'
  <2> SUFFICES ASSUME NEW q \in Requests, Pending(q), Act(q) \in {"ship", "rebalance"},
                      session[SessionOf(q)].status = "closed"
               PROVE  /\ Settled(q, Primary)'
                      /\ \/ attempt[q].riskStop # None
                         \/ aqua[attempt[q].before] = "docked"
                         \/ aqua[Target(q)] = "docked"
    BY <1>1 DEF ClosedQuiet, Act, SessionOf, Target, Pending
  <2>1. q = r => step # Primary
    BY <1>3
  <2>2. Settled(q, Primary) => Settled(q, Primary)'
    BY <1>1, <1>2, <2>1 DEF Settled
  <2> QED
    BY <2>2 DEF ClosedInv, ClosedQuiet
<1>5. \A q \in Requests : ctl'.req = q => ClosedAt(q, ctl.at)'
  BY <1>1 DEF ClosedInv, ClosedAt, Act, SessionOf
<1> QED
  BY <1>4, <1>5 DEF ClosedInv

\* A request that is admitted to a closed session ships nothing.
LEMMA ClosedSubmit ==
  ASSUME TypeInv, ClosedInv, NEW r \in Requests, NEW b \in Bodies, Submit(r, b)
  PROVE  /\ ClosedInv'
         /\ \A s \in Sessions : session[s].status = "closed" => session'[s].status = "closed"
<1>1. /\ NonePending /\ attempt'[r].body = b
      /\ \A q \in Requests : q # r => attempt'[q] = attempt[q]
      /\ ctl'.at = "entry" /\ b.session \in Sessions
      /\ b.action = "ship" => session[b.session].status = "none"
      /\ b.action = "rebalance" => session[b.session].status = "active"
  BY RequestAdmitted
<1>2. /\ \A s \in Sessions : s # b.session \/ b.action # "ship" => session'[s] = session[s]
      /\ b.action = "ship" => session'[b.session].status = "starting"
  BY SessionAdmitted
<1>3. \A q \in Requests : Pending(q)' => q = r
  BY <1>1 DEF NonePending, Pending
<1>4. Act(r)' = b.action /\ SessionOf(r)' = b.session
  BY <1>1 DEF Act, SessionOf
<1>5. Act(r)' \in {"ship", "rebalance"} => session'[b.session].status # "closed"
  BY <1>1, <1>2, <1>4
<1>6. ClosedQuiet'
  BY <1>3, <1>4, <1>5 DEF ClosedQuiet
<1>7. \A q \in Requests : ctl'.req = q => ClosedAt(q, ctl.at)'
  BY <1>1 DEF ClosedAt
<1> QED
  BY <1>1, <1>2, <1>6, <1>7 DEF ClosedInv

\* Ending a request, recording its breach and following its rebalance leave the
\* sessions as open or closed as they were.
LEMMA ClosedEnd ==
  ASSUME TypeInv, AdmissionInv, ClosedInv, [Next]_vars, NEW r \in Requests, End(r)
  PROVE  ClosedInv' /\ session' = session
<1>1. /\ UNCHANGED <<session, saved, receipts, aqua>>
      /\ ctl' = Idle
      /\ \E status \in {"completed", "failed"} : attempt' = [attempt EXCEPT ![r].status = status]
  BY DEF End, MonitorUnavailable, FailExpired, QuoteRejected, Finish, FailReverted, Ended, network
<1>2. Pending(r) /\ attempt \in [Requests -> Attempt]
  BY RunningRequest DEF End, MonitorUnavailable, FailExpired, QuoteRejected, Finish,
                        FailReverted, Running, Due, TypeInv, TypeOK
<1>3. \A q \in Requests : /\ attempt'[q].body = attempt[q].body
                          /\ attempt'[q].before = attempt[q].before
                          /\ attempt'[q].riskStop = attempt[q].riskStop
                          /\ Pending(q)' => Pending(q)
  BY <1>1, <1>2 DEF Attempt, Pending
<1>4. OneWay /\ \A q \in Requests : Settled(q, Primary) => Settled(q, Primary)'
  BY <1>1 DEF OneWay, Settled
<1>5. \A q \in Requests : ctl'.req # q
  BY <1>1, ConstantsAssumption DEF Idle
<1> QED
  BY <1>1, <1>3, <1>4, <1>5, ClosedKept

LEMMA ClosedBreach ==
  ASSUME TypeInv, AdmissionInv, ClosedInv, NEW r \in Requests,
         NEW stage \in {"preguard", "guard"}, NEW s \in Strategies, WouldDock(r, stage, s)
  PROVE  ClosedInv' /\ session' = session
<1>1. /\ UNCHANGED <<session, saved, receipts, aqua>>
      /\ attempt' = [attempt EXCEPT ![r].riskStop = s]
      /\ ctl'.at = "risk"
      /\ attempt \in [Requests -> Attempt] /\ s # None
  BY ConstantsAssumption DEF WouldDock, Goto, network, TypeInv, TypeOK
<1>2. \A q \in Requests : /\ attempt'[q].body = attempt[q].body
                          /\ attempt'[q].before = attempt[q].before
                          /\ attempt[q].riskStop # None => attempt'[q].riskStop # None
                          /\ Pending(q)' => Pending(q)
  BY <1>1 DEF Attempt, Pending
<1>3. OneWay /\ \A q \in Requests : Settled(q, Primary) => Settled(q, Primary)'
  BY <1>1 DEF OneWay, Settled
<1> QED
  BY <1>1, <1>2, <1>3, ClosedKept

LEMMA ClosedRebalance ==
  ASSUME TypeInv, LedgerInv, AdmissionInv, PlanInv, ClosedInv, NEW r \in Requests,
         SettleRebalance(r)
  PROVE  ClosedInv' /\ \A s \in Sessions : session'[s].status = session[s].status
<1>1. /\ UNCHANGED <<attempt, saved, receipts, aqua>>
      /\ ctl'.at = "verify"
      /\ session \in [Sessions -> Session]
  <2>1. UNCHANGED <<attempt, saved, receipts, network>> /\ Goto(r, "verify")
    BY Following
  <2> QED
    BY <2>1 DEF Goto, network, TypeInv, TypeOK
<1>2. \A s \in Sessions : session'[s].status = session[s].status
  <2>1. \/ session' = session
        \/ session' = [session EXCEPT ![SessionOf(r)].plan =
                         Append(@, [strategy |-> Target(r), by |-> r])]
    BY Following
  <2> QED
    BY <1>1, <2>1 DEF Session
<1>3. \A q \in Requests : Pending(q) => SessionOf(q) \in Sessions
  BY StoredRequest DEF Pending
<1>4. OneWay /\ \A q \in Requests : Settled(q, Primary) => Settled(q, Primary)'
  BY <1>1 DEF OneWay, Settled
<1> QED
  BY <1>1, <1>2, <1>3, <1>4, ClosedKept DEF Pending

\* The facts about closed sessions are kept, and no step opens one again.
LEMMA ClosedStep ==
  ASSUME TypeInv, LedgerInv, StageInv, AdmissionInv, PlanInv, ClosedInv, [Next]_vars
  PROVE  /\ ClosedInv'
         /\ \A s \in Sessions : session[s].status = "closed" => session'[s].status = "closed"
<1>1. ASSUME NEW r \in Requests, Resume(r) \/ Move(r)
      PROVE  ClosedInv' /\ session' = session
  <2>1. session' = session
    BY <1>1 DEF Resume, Move, EnterRisk, EnterShip, EnterChange, EnterMonitor, EnterDock,
                WithinLimit, Advance, VerifyRebalance, SettleSwap, journal
  <2>2. CASE Resume(r)
    <3>1. UNCHANGED <<attempt, session, saved, receipts, aqua>> /\ ctl'.at = "entry"
      BY <2>2 DEF Resume, Goto, journal, network
    <3>2. OneWay /\ \A q \in Requests : Settled(q, Primary) => Settled(q, Primary)'
      BY <3>1 DEF OneWay, Settled
    <3> QED
      BY <3>1, <3>2, ClosedQuietly DEF ClosedAt
  <2> QED
    BY <1>1, <2>1, <2>2, ClosedMoves
<1>2. ASSUME NEW r \in Requests, NEW step \in Steps, NEW n \in Nonces, Prepare(r, step, n)
      PROVE  ClosedInv' /\ session' = session
  BY <1>2, ClosedPrepare DEF Prepare
<1>3. CASE \/ Interrupt
           \/ \E t \in saved : Broadcast(t)
           \/ \E m \in mined : Confirm(m)
           \/ \E t \in pool, ok \in BOOLEAN : Mine(t, ok)
           \/ \E a \in Accounts : SendElsewhere(a)
           \/ \E s \in Strategies : DockElsewhere(s)
           \/ \E s \in Strategies : Expire(s)
           \/ \E t \in seen : Forget(t)
           \/ UNCHANGED vars
  <2>1. /\ UNCHANGED <<attempt, session, saved>> /\ receipts \subseteq receipts'
        /\ ctl'.req = None \/ (ctl'.req = ctl.req /\ ctl'.at = ctl.at)
    BY <1>3 DEF Interrupt, Broadcast, Confirm, Mine, SendElsewhere, DockElsewhere, Expire,
                Forget, vars, journal, TypeInv, TypeOK, Process, Idle
  <2>2. OneWay
    BY NextOneWay
  <2>3. \A q \in Requests : Settled(q, Primary) => Settled(q, Primary)'
    BY <2>1 DEF Settled
  <2>4. \A q \in Requests : ctl'.req = q => ClosedAt(q, ctl'.at)
    BY <2>1, ConstantsAssumption DEF ClosedInv
  <2> QED
    BY <2>1, <2>2, <2>3, <2>4, ClosedQuietly
<1> QED
  BY <1>1, <1>2, <1>3, NextKinds, ClosedSubmit, ClosedConclusion, ClosedEnd, ClosedBreach,
     ClosedRebalance DEF Kinds

\* No session is closed initially.
LEMMA ClosedInit == Init => ClosedInv
BY ConstantsAssumption
   DEF Init, ClosedInv, ClosedQuiet, ClosedAt, NoAttempt, NoSession, Pending, Idle

\* A closed session has no transaction in flight that would ship a strategy.
THEOREM ClosedInvariant == Spec => []ClosedInv
BY ClosedInit, ClosedStep, TypeInvariant, LedgerInvariant, StageInvariant, AdmissionInvariant,
   PlanInvariant, PTL DEF Spec

\* The strategies a session has shipped, by the transactions that shipped them.
LEMMA ShippedBy ==
  ASSUME TypeInv, LedgerInv, NEW s
  PROVE  Shipped(s) = {x \in Strategies : \E m \in mined : Puts(m, x) /\ SessionOf(m.tx.req) = s}
<1>1. ASSUME NEW m \in mined, m.tx.step = Primary, Act(m.tx.req) \in {"ship", "rebalance"}
      PROVE  Target(m.tx.req) \in Strategies
  <2>1. m.tx.req \in Requests /\ attempt[m.tx.req].status # "none"
    BY DEF LedgerInv, WriteAhead, SavedKnown, TypeInv, TypeOK, Tx
  <2>2. attempt[m.tx.req].body \in Bodies
    BY <2>1, StoredRequest
  <2> QED
    BY <1>1, <2>2, ConstantsAssumption DEF Target, Act, Body
<1> QED
  BY <1>1 DEF Shipped, Puts

\* The same after a step.
LEMMA ShippedNext ==
  ASSUME TypeInv', LedgerInv', NEW s
  PROVE  Shipped(s)' = {x \in Strategies : \E m \in mined' : Puts(m, x)' /\ SessionOf(m.tx.req)' = s}
<1>1. ASSUME NEW m \in mined', m.tx.step = Primary, Act(m.tx.req)' \in {"ship", "rebalance"}
      PROVE  Target(m.tx.req)' \in Strategies
  <2>1. m.tx.req \in Requests /\ attempt'[m.tx.req].status # "none"
    BY DEF LedgerInv, WriteAhead, SavedKnown, TypeInv, TypeOK, Tx
  <2>2. attempt'[m.tx.req].body \in Bodies
    BY <2>1 DEF TypeInv, KnownRequest
  <2> QED
    BY <1>1, <2>2, ConstantsAssumption DEF Target, Act, Body
<1> QED
  BY <1>1 DEF Shipped, Puts

\* What was shipped stays shipped; apart from mining nothing more is.
LEMMA ShippedKept ==
  ASSUME TypeInv, LedgerInv, StageInv, TypeInv', LedgerInv', [Next]_vars, mined' = mined, NEW s
  PROVE  Shipped(s)' = Shipped(s)
<1>1. \A m \in mined : \A x : /\ Puts(m, x)' <=> Puts(m, x)
                              /\ SessionOf(m.tx.req)' = SessionOf(m.tx.req)
  BY EffectsKept DEF SessionOf
<1>2. \A x : (\E m \in mined' : Puts(m, x)' /\ SessionOf(m.tx.req)' = s)
              <=> (\E m \in mined : Puts(m, x) /\ SessionOf(m.tx.req) = s)
  BY <1>1
<1>3. /\ Shipped(s) = {x \in Strategies : \E m \in mined : Puts(m, x) /\ SessionOf(m.tx.req) = s}
      /\ Shipped(s)' = {x \in Strategies : \E m \in mined' : Puts(m, x)' /\ SessionOf(m.tx.req)' = s}
  BY ShippedBy, ShippedNext
<1> QED
  BY <1>2, <1>3

\* A step ships a strategy for a session only by mining the ship or rebalance of
\* a pending request whose primary transaction was not settled.
LEMMA ShippedNow ==
  ASSUME TypeInv, LedgerInv, StageInv, TypeInv', LedgerInv', [Next]_vars, NEW s,
         Shipped(s)' # Shipped(s)
  PROVE  \E r \in Requests : /\ SessionOf(r) = s /\ Act(r) \in {"ship", "rebalance"}
                             /\ Pending(r) /\ ~Settled(r, Primary)
<1>1. \A m \in mined : \A x : /\ Puts(m, x)' <=> Puts(m, x)
                              /\ SessionOf(m.tx.req)' = SessionOf(m.tx.req)
  BY EffectsKept DEF SessionOf
<1>2. Shipped(s)' = {x \in Strategies : \E m \in mined' : Puts(m, x)' /\ SessionOf(m.tx.req)' = s}
  BY ShippedNext
<1>3. CASE mined' = mined
  BY <1>3, ShippedKept
<1>4. ASSUME NEW t \in pool, NEW ok \in BOOLEAN, Mine(t, ok)
      PROVE  \E r \in Requests : /\ SessionOf(r) = s /\ Act(r) \in {"ship", "rebalance"}
                                 /\ Pending(r) /\ ~Settled(r, Primary)
  <2> DEFINE k == [tx |-> t, ok |-> ok]
  <2>1. mined' = mined \cup {k} /\ UNCHANGED attempt
    BY <1>4 DEF Mine, journal
  <2>2. k.tx = t
    OBVIOUS
  <2> HIDE DEF k
  <2>3. \E x : Puts(k, x)' /\ SessionOf(k.tx.req)' = s
    BY <1>1, <1>2, <2>1, ShippedBy
  <2>4. t.step = Primary /\ Act(t.req) \in {"ship", "rebalance"} /\ SessionOf(t.req) = s
    BY <2>1, <2>2, <2>3 DEF Puts, Act, SessionOf
  <2> QED
    BY <2>4, Underway
<1> QED
  BY <1>3, <1>4, MinedKept

\* A closed session stays closed, and nothing of it still in flight puts a
\* strategy on the market.
THEOREM ClosedForGood == Spec => ClosedStaysClosed
<1> DEFINE Stays == \A s \in Sessions : session[s].status = "closed" =>
                      /\ session'[s].status = "closed"
                      /\ Shipped(s)' = Shipped(s)
<1>1. /\ TypeInv /\ LedgerInv /\ StageInv /\ AdmissionInv /\ PlanInv /\ ClosedInv
      /\ TypeInv' /\ LedgerInv' /\ [Next]_vars
      => Stays
  <2> SUFFICES ASSUME TypeInv, LedgerInv, StageInv, AdmissionInv, PlanInv, ClosedInv,
                      TypeInv', LedgerInv', [Next]_vars,
                      NEW s \in Sessions, session[s].status = "closed"
               PROVE  session'[s].status = "closed" /\ Shipped(s)' = Shipped(s)
    OBVIOUS
  <2>1. session'[s].status = "closed"
    BY ClosedStep
  <2>2. ASSUME Shipped(s)' # Shipped(s) PROVE FALSE
    <3>1. PICK r \in Requests : /\ SessionOf(r) = s /\ Act(r) \in {"ship", "rebalance"}
                                /\ Pending(r) /\ ~Settled(r, Primary)
      BY <2>2, ShippedNow
    <3> QED
      BY <3>1 DEF ClosedInv, ClosedQuiet
  <2> QED
    BY <2>1, <2>2
<1>2. /\ TypeInv /\ LedgerInv /\ StageInv /\ AdmissionInv /\ PlanInv /\ ClosedInv
      /\ TypeInv' /\ LedgerInv' /\ [Next]_vars
      => [Stays]_vars
  BY <1>1
<1>3. ClosedStaysClosed <=> [][Stays]_vars
  BY DEF ClosedStaysClosed
<1> HIDE DEF Stays
<1> QED
  BY <1>2, <1>3, TypeInvariant, LedgerInvariant, StageInvariant, AdmissionInvariant,
     PlanInvariant, ClosedInvariant, PTL DEF Spec

\* What stopped stays stopped, through crashes and resumed requests: a request
\* after its breach, a session after its close.
THEOREM WhatStoppedStaysStopped == Spec => StopsForGood
BY BreachSignsOnlyTheDock, ClosedForGood DEF StopsForGood

-----------------------------------------------------------------------------
(* Layer 9: the market of a session.                                       *)

\* What the session has shipped is docked, its current strategy, or the one
\* its pending rebalance has shipped.
Tip(s, x) ==
  \/ aqua[x] = "docked"
  \/ x = Current(s)
  \/ \E r \in Requests : Pending(r) /\ MinedRebalance(r) /\ SessionOf(r) = s /\ Target(r) = x

ShippedTip == \A s \in Sessions : \A x \in Shipped(s) : Tip(s, x)

CurrentKnown == \A s \in Sessions : session[s].status = "active" => aqua[Current(s)] # "absent"

\* Only a pending request may have taken off the current strategy of a session
\* that is still active.
TakerPending ==
  \A s \in Sessions, m \in mined :
    /\ session[s].status = "active"
    /\ SessionOf(m.tx.req) = s /\ Takes(m, Current(s))
    => Pending(m.tx.req)

SessionInv == ShippedTip /\ CurrentKnown /\ TakerPending

\* A pending request that has appended its rebalance has its target current;
\* one that has not finds the session as it was accepted.
LEMMA CurrentOf ==
  ASSUME TypeInv, LedgerInv, PlanInv, NEW r \in Requests, Pending(r)
  PROVE  /\ SessionOf(r) \in Sessions
         /\ \/ r \notin Followers(SessionOf(r)) /\ Current(SessionOf(r)) = attempt[r].before
            \/ Act(r) = "rebalance" /\ Current(SessionOf(r)) = Target(r)
<1> DEFINE s == SessionOf(r)
           p == session[s].plan
<1>1. s \in Sessions /\ Len(p) >= 1
  BY StoredRequest DEF Pending
<1>2. CASE Unchanged(r)
  BY <1>1, <1>2 DEF Unchanged
<1>3. CASE AppendedLast(r)
  <2>1. Act(r) = "rebalance" /\ p[Len(p)].by = r
    BY <1>3 DEF AppendedLast
  <2>2. Len(p) \in Nat
    BY <1>1, PlanEntries
  <2>3. Len(p) \in 1 .. Len(p)
    BY <1>1, <2>2
  <2>4. EntryOf(s, Len(p), r)
    BY <1>1, <2>1, <2>3 DEF PlanInv, PlanKnown
  <2>5. Current(s) = Target(r)
    BY <2>4 DEF EntryOf, Current, ActiveOf
  <2> QED
    BY <1>1, <2>1, <2>5
<1> QED
  BY <1>2, <1>3 DEF PlanInv, PendingPlan

\* The current strategy of a session that exists.
LEMMA CurrentStrategy ==
  ASSUME TypeInv, NEW s \in Sessions, session[s].status # "none"
  PROVE  Current(s) \in Strategies
<1> DEFINE p == session[s].plan
<1>1. p \in Seq(PlanEntry) /\ p # <<>>
  BY DEF TypeInv, TypeOK, KnownSession, Session
<1>2. p[Len(p)] \in PlanEntry
  BY <1>1
<1> QED
  BY <1>2 DEF Current, ActiveOf, PlanEntry

\* A step that mines nothing, ends no request, changes no plan and activates no
\* session.
LEMMA SessionKept ==
  ASSUME TypeInv, LedgerInv, StageInv, SessionInv, TypeInv', LedgerInv', [Next]_vars,
         mined' = mined,
         \A q \in Requests : Pending(q) => Pending(q)',
         \A s \in Sessions : /\ session'[s].plan = session[s].plan
                             /\ session'[s].status = "active" => session[s].status = "active"
  PROVE  SessionInv'
<1>1. \A s \in Sessions : Current(s)' = Current(s)
  BY DEF Current
<1>2. OneWay
  BY NextOneWay
<1>3. ShippedTip'
  <2> SUFFICES ASSUME NEW s \in Sessions, NEW x \in Shipped(s)' PROVE Tip(s, x)'
    BY DEF ShippedTip
  <2>1. x \in Shipped(s) /\ x \in Strategies
    BY ShippedKept, ShippedBy
  <2>2. Tip(s, x)
    BY <2>1 DEF SessionInv, ShippedTip
  <2>3. ASSUME NEW q \in Requests, Pending(q), MinedRebalance(q), SessionOf(q) = s, Target(q) = x
        PROVE  Pending(q)' /\ MinedRebalance(q)' /\ SessionOf(q)' = s /\ Target(q)' = x
    <3>1. PICK m \in mined : m.tx.req = q
      BY <2>3 DEF MinedRebalance
    <3>2. SessionOf(q)' = SessionOf(q) /\ Target(q)' = Target(q)
      BY <3>1, EffectsKept DEF SessionOf, Target, Act
    <3>3. MinedRebalance(q)'
      BY <2>3, RebalancesKept
    <3> QED
      BY <2>3, <3>2, <3>3
  <2> QED
    BY <1>1, <1>2, <2>1, <2>2, <2>3 DEF Tip, OneWay
<1>4. CurrentKnown'
  <2> SUFFICES ASSUME NEW s \in Sessions, session'[s].status = "active"
               PROVE  aqua'[Current(s)'] # "absent"
    BY DEF CurrentKnown
  <2>1. aqua[Current(s)] # "absent"
    BY DEF SessionInv, CurrentKnown
  <2>2. Current(s) \in Strategies
    BY CurrentStrategy
  <2> QED
    BY <1>1, <1>2, <2>1, <2>2 DEF OneWay
<1>5. TakerPending'
  <2> SUFFICES ASSUME NEW s \in Sessions, NEW m \in mined, session'[s].status = "active",
                      SessionOf(m.tx.req)' = s, Takes(m, Current(s))'
               PROVE  Pending(m.tx.req)'
    BY DEF TakerPending
  <2>1. /\ SessionOf(m.tx.req) = s /\ Takes(m, Current(s))
        /\ m.tx.req \in Requests
    BY <1>1, EffectsKept DEF SessionOf
  <2> QED
    BY <2>1 DEF SessionInv, TakerPending
<1> QED
  BY <1>3, <1>4, <1>5 DEF SessionInv

\* A request is admitted while none is pending; a session it starts is new.
LEMMA SessionSubmit ==
  ASSUME TypeInv, LedgerInv, StageInv, SessionInv, TypeInv', LedgerInv', [Next]_vars,
         NEW r \in Requests, NEW b \in Bodies, Submit(r, b)
  PROVE  SessionInv'
<1>1. /\ NonePending
      /\ b.action = "ship" => session[b.session].status = "none"
      /\ UNCHANGED <<saved, receipts, network>>
  BY RequestAdmitted
<1>2. mined' = mined
  BY <1>1 DEF network
<1>3. /\ \A s \in Sessions : s # b.session \/ b.action # "ship" => session'[s] = session[s]
      /\ b.action = "ship" => session'[b.session].status = "starting"
  BY SessionAdmitted
<1>4. CASE b.action # "ship"
  BY <1>1, <1>2, <1>3, <1>4, SessionKept DEF NonePending
<1>5. CASE b.action = "ship"
  <2>1. OneWay
    BY NextOneWay
  <2>2. \A m \in mined : SessionOf(m.tx.req)' = SessionOf(m.tx.req) /\ SessionOf(m.tx.req) # b.session
    <3> SUFFICES ASSUME NEW m \in mined
                 PROVE  SessionOf(m.tx.req)' = SessionOf(m.tx.req) /\ SessionOf(m.tx.req) # b.session
      OBVIOUS
    <3>1. /\ m.tx.req \in Requests /\ attempt[m.tx.req].status # "none"
          /\ SessionOf(m.tx.req)' = SessionOf(m.tx.req)
      BY EffectsKept DEF SessionOf
    <3>2. session[SessionOf(m.tx.req)].status # "none"
      BY <3>1, StoredRequest
    <3> QED
      BY <1>1, <1>5, <3>1, <3>2
  <2>3. \A s \in Sessions : s # b.session => Current(s)' = Current(s)
    BY <1>3 DEF Current
  <2>4. ShippedTip'
    <3> SUFFICES ASSUME NEW s \in Sessions, NEW x \in Shipped(s)' PROVE Tip(s, x)'
      BY DEF ShippedTip
    <3>1. x \in Shipped(s) /\ x \in Strategies /\ s # b.session
      BY <1>2, <2>2, ShippedKept, ShippedBy
    <3>2. Tip(s, x)
      BY <3>1 DEF SessionInv, ShippedTip
    <3> QED
      BY <1>1, <2>1, <2>3, <3>1, <3>2 DEF Tip, OneWay, NonePending
  <2>5. CurrentKnown'
    <3> SUFFICES ASSUME NEW s \in Sessions, session'[s].status = "active"
                 PROVE  aqua'[Current(s)'] # "absent"
      BY DEF CurrentKnown
    <3>1. s # b.session /\ session[s].status = "active"
      BY <1>3, <1>5
    <3>2. aqua[Current(s)] # "absent" /\ Current(s) \in Strategies
      BY <3>1, CurrentStrategy DEF SessionInv, CurrentKnown
    <3> QED
      BY <2>1, <2>3, <3>1, <3>2 DEF OneWay
  <2>6. TakerPending'
    <3> SUFFICES ASSUME NEW s \in Sessions, NEW m \in mined, session'[s].status = "active",
                        SessionOf(m.tx.req)' = s, Takes(m, Current(s))'
                 PROVE  FALSE
      BY <1>2 DEF TakerPending
    <3>1. s # b.session /\ session[s].status = "active"
      BY <1>3, <1>5
    <3>2. Takes(m, Current(s)) /\ SessionOf(m.tx.req) = s /\ m.tx.req \in Requests
      BY <2>2, <2>3, <3>1, EffectsKept
    <3> QED
      BY <1>1, <3>1, <3>2 DEF SessionInv, TakerPending, NonePending
  <2> QED
    BY <2>4, <2>5, <2>6 DEF SessionInv
<1> QED
  BY <1>4, <1>5

\* A transaction and a receipt of the same step are of the same outcome.
LEMMA OneOutcome ==
  ASSUME LedgerInv, NEW m \in mined, m.ok
  PROVE  ~Reverted(m.tx.req, m.tx.step)
<1> SUFFICES ASSUME NEW k \in receipts, k.tx.req = m.tx.req, k.tx.step = m.tx.step, ~k.ok
             PROVE  FALSE
  BY DEF Reverted, Outcome
<1>1. k \in mined /\ k.tx \in saved /\ m.tx \in saved
  BY DEF LedgerInv, WriteAhead
<1>2. k.tx = m.tx
  BY <1>1 DEF LedgerInv, SavedOnce
<1> QED
  BY <1>1, <1>2 DEF LedgerInv, MinedOnce

\* A request that has taken off the current strategy of an active session does
\* not end there.
LEMMA TakerStays ==
  ASSUME TypeInv, LedgerInv, StageInv, AdmissionInv, PlanInv, ClosedInv,
         NEW r \in Requests, End(r), NEW m \in mined, m.tx.req = r,
         session[SessionOf(r)].status = "active", Takes(m, Current(SessionOf(r)))
  PROVE  FALSE
<1> USE DEF Running
<1>1. /\ ctl.req = r
      /\ Reached(r, ctl.at) /\ Behind(r, ctl.at) /\ ClosedAt(r, ctl.at) /\ RequestInv(r)
  BY DEF End, MonitorUnavailable, FailExpired, QuoteRejected, Finish, FailReverted, Due,
         PlanInv, StageInv, ClosedInv
<1>2. Pending(r) /\ SessionOf(r) \in Sessions /\ attempt[r].status # "none" /\ Admitted(r)
  BY <1>1, RunningRequest DEF Pending, AdmissionInv
<1>3. Current(SessionOf(r)) \in Strategies
  BY <1>2, CurrentStrategy
<1>4. m.ok /\ ~Reverted(r, m.tx.step)
  BY OneOutcome DEF Takes
<1>5. Primary # RiskDock
  BY DEF Primary, RiskDock
<1>6. CASE m.tx.step = RiskDock
  <2>1. attempt[r].riskStop # None
    BY <1>3, <1>5, <1>6, ConstantsAssumption DEF Takes
  <2>2. ctl.at \in {"entry", "risk"}
    BY <1>1, <2>1 DEF Reached, ClosedAt
  <2>3. ASSUME NEW step \in Steps, FailReverted(r, step) PROVE FALSE
    <3>1. step = RiskDock
      BY <2>2, <2>3 DEF FailReverted, Due, StageSteps
    <3> QED
      BY <1>4, <1>6, <2>3, <3>1 DEF FailReverted
  <2>4. ~QuoteRejected(r)
    BY <1>5, <2>2 DEF QuoteRejected, Due, StageSteps
  <2> QED
    BY <2>1, <2>2, <2>3, <2>4 DEF End, MonitorUnavailable, FailExpired, Finish
<1>7. CASE m.tx.step = Primary /\ Act(r) = "rebalance"
  <2>1. MinedRebalance(r) /\ attempt[r].before = Current(SessionOf(r))
    BY <1>4, <1>5, <1>7 DEF Takes, MinedRebalance
  <2>2. r \in Followers(SessionOf(r))
    BY <2>1, EndSynced DEF Synced
  <2>3. Current(SessionOf(r)) = Target(r)
    BY <1>2, <2>2, CurrentOf
  <2> QED
    BY <1>2, <1>7, <2>1, <2>3 DEF Admitted
<1>8. CASE m.tx.step = Primary /\ Act(r) = "dock"
  <2>1. attempt[r].riskStop = None
    BY <1>8 DEF PlanInv, BreachPlan
  <2>2. ctl.at \notin {"revoke", "finish", "risk", "approve"}
    BY <1>1, <1>8, <2>1 DEF ClosedAt, Reached
  <2>3. ASSUME NEW step \in Steps, FailReverted(r, step) PROVE FALSE
    <3>1. step = Primary
      BY <2>2, <2>3 DEF FailReverted, Due, StageSteps
    <3> QED
      BY <1>4, <1>8, <2>3, <3>1 DEF FailReverted
  <2> QED
    BY <1>8, <2>2, <2>3 DEF End, MonitorUnavailable, FailExpired, QuoteRejected, Finish
<1> QED
  BY <1>6, <1>7, <1>8 DEF Takes

\* A request ends: its rebalance is the session's current strategy by then.
LEMMA SessionEnd ==
  ASSUME TypeInv, LedgerInv, StageInv, AdmissionInv, PlanInv, ClosedInv, SessionInv,
         TypeInv', LedgerInv', [Next]_vars, NEW r \in Requests, End(r)
  PROVE  SessionInv'
<1>1. /\ UNCHANGED <<session, mined, aqua>>
      /\ \E status \in {"completed", "failed"} : attempt' = [attempt EXCEPT ![r].status = status]
  BY DEF End, MonitorUnavailable, FailExpired, QuoteRejected, Finish, FailReverted, Ended, network
<1>2. Pending(r) /\ attempt \in [Requests -> Attempt]
  BY RunningRequest DEF End, MonitorUnavailable, FailExpired, QuoteRejected, Finish,
                        FailReverted, Running, Due, TypeInv, TypeOK
<1>3. \A q \in Requests : /\ attempt'[q].body = attempt[q].body
                          /\ attempt'[q].before = attempt[q].before
                          /\ q # r => (Pending(q)' <=> Pending(q))
  BY <1>1, <1>2 DEF Attempt, Pending
<1>4. \A s : Current(s)' = Current(s)
  BY <1>1 DEF Current
<1>5. \A q \in Requests : /\ SessionOf(q)' = SessionOf(q)
                          /\ Target(q)' = Target(q)
                          /\ MinedRebalance(q)' <=> MinedRebalance(q)
  BY <1>1, <1>3 DEF SessionOf, Target, Act, MinedRebalance
<1>6. ShippedTip'
  <2> SUFFICES ASSUME NEW s \in Sessions, NEW x \in Shipped(s)' PROVE Tip(s, x)'
    BY DEF ShippedTip
  <2>1. x \in Shipped(s)
    BY <1>1, ShippedKept
  <2>2. Tip(s, x)
    BY <2>1 DEF SessionInv, ShippedTip
  <2>3. CASE MinedRebalance(r) /\ SessionOf(r) = s /\ Target(r) = x
    <3>1. r \in Followers(SessionOf(r))
      BY <2>3, EndSynced DEF Synced
    <3>2. Current(s) = x
      BY <1>2, <2>3, <3>1, CurrentOf
    <3> QED
      BY <1>4, <3>2 DEF Tip
  <2>4. CASE ~(MinedRebalance(r) /\ SessionOf(r) = s /\ Target(r) = x)
    BY <1>1, <1>3, <1>4, <1>5, <2>2, <2>4 DEF Tip
  <2> QED
    BY <2>3, <2>4
<1>7. CurrentKnown'
  BY <1>1, <1>4 DEF SessionInv, CurrentKnown
<1>8. TakerPending'
  <2> SUFFICES ASSUME NEW s \in Sessions, NEW m \in mined, session[s].status = "active",
                      SessionOf(m.tx.req)' = s, Takes(m, Current(s))'
               PROVE  Pending(m.tx.req)'
    BY <1>1 DEF TakerPending
  <2>1. SessionOf(m.tx.req) = s /\ Takes(m, Current(s)) /\ m.tx.req \in Requests
    BY <1>4, EffectsKept DEF SessionOf
  <2>2. Pending(m.tx.req)
    BY <2>1 DEF SessionInv, TakerPending
  <2>3. m.tx.req # r
    BY <2>1, TakerStays
  <2> QED
    BY <1>3, <2>1, <2>2, <2>3
<1> QED
  BY <1>6, <1>7, <1>8 DEF SessionInv

\* A ship that is settled activates its session: the strategy is live, and no
\* other request has touched the session.
LEMMA SessionActivated ==
  ASSUME TypeInv, LedgerInv, StageInv, AdmissionInv, PlanInv, SessionInv,
         NEW r \in Requests, SettleShip(r)
  PROVE  SessionInv'
<1>1. /\ UNCHANGED <<attempt, saved, receipts, mined, aqua>>
      /\ session' = [session EXCEPT ![SessionOf(r)].status = "active"]
      /\ ctl.req = r /\ ctl.at = "settle"
      /\ Act(r) = "ship" /\ aqua[Target(r)] = "active"
      /\ session \in [Sessions -> Session]
  BY DEF SettleShip, Running, network, TypeInv, TypeOK
<1>2. Pending(r) /\ SessionOf(r) \in Sessions /\ Admitted(r) /\ attempt[r].riskStop = None
  BY <1>1, RunningRequest DEF AdmissionInv, StageInv, Reached
<1>3. \A s \in Sessions : Current(s)' = Current(s)
  BY <1>1 DEF Current, Session
<1>4. /\ \A s \in Sessions : s # SessionOf(r) => session'[s] = session[s]
      /\ \A m, x : Takes(m, x)' <=> Takes(m, x)
  BY <1>1 DEF Takes, Act
<1>5. Current(SessionOf(r)) = Target(r)
  BY <1>1, <1>2, CurrentOf DEF Admitted, Pending
<1>6. ShippedTip'
  <2> SUFFICES ASSUME NEW s \in Sessions, NEW x \in Shipped(s)' PROVE Tip(s, x)'
    BY DEF ShippedTip
  <2>1. x \in Shipped(s)
    BY <1>1 DEF Shipped, Act, SessionOf, Target
  <2>2. Tip(s, x)
    BY <2>1 DEF SessionInv, ShippedTip
  <2> QED
    BY <1>1, <1>3, <2>2 DEF Tip, Pending, MinedRebalance, SessionOf, Target, Act
<1>7. CurrentKnown'
  BY <1>1, <1>3, <1>4, <1>5 DEF SessionInv, CurrentKnown
<1>8. TakerPending'
  <2> SUFFICES ASSUME NEW s \in Sessions, NEW m \in mined, session'[s].status = "active",
                      SessionOf(m.tx.req) = s, Takes(m, Current(s))
               PROVE  Pending(m.tx.req)
    BY <1>1, <1>3, <1>4 DEF TakerPending, Pending, SessionOf
  <2>1. m.tx.req \in Requests /\ attempt[m.tx.req].status # "none"
    BY DEF LedgerInv, WriteAhead, SavedKnown, TypeInv, TypeOK, Tx
  <2>2. CASE s # SessionOf(r)
    BY <1>4, <2>2 DEF SessionInv, TakerPending
  <2>3. CASE s = SessionOf(r)
    BY <1>1, <1>2, <2>1, <2>3 DEF AdmissionInv, ShipsAlone
  <2> QED
    BY <2>2, <2>3
<1> QED
  BY <1>6, <1>7, <1>8 DEF SessionInv

\* A rebalance that is appended to the plan has docked what was current, and
\* nobody has taken off what it has shipped.
LEMMA SessionAppended ==
  ASSUME TypeInv, LedgerInv, AdmissionInv, MarketInv, PlanInv, SessionInv,
         NEW r \in Requests, SettleRebalance(r), session' # session
  PROVE  SessionInv'
<1>0. PICK s0 \in Sessions : s0 = SessionOf(r)
  BY Following
<1> DEFINE e == [strategy |-> Target(r), by |-> r]
<1>1. /\ UNCHANGED <<attempt, saved, receipts, network>>
      /\ Pending(r) /\ s0 \in Sessions /\ s0 = SessionOf(r)
      /\ MinedRebalance(r) /\ Target(r) \in Strategies /\ Act(r) = "rebalance"
      /\ Current(s0) = attempt[r].before
      /\ session' = [session EXCEPT ![s0].plan = Append(@, e)]
  BY <1>0, Following
<1>2. UNCHANGED <<mined, aqua>> /\ session \in [Sessions -> Session]
  BY <1>1 DEF network, TypeInv, TypeOK
<1>3. /\ \A s \in Sessions : s # s0 => session'[s] = session[s]
      /\ \A s \in Sessions : session'[s].status = session[s].status
      /\ session'[s0].plan = Append(session[s0].plan, e)
  BY <1>1, <1>2 DEF Session
<1>4. Current(s0)' = Target(r)
  <2>1. session[s0].plan \in Seq(PlanEntry) /\ e.strategy = Target(r)
    BY <1>1, PlanEntries
  <2> HIDE DEF e
  <2>2. session'[s0].plan[Len(session'[s0].plan)] = e
    BY <1>3, <2>1
  <2> QED
    BY <2>1, <2>2 DEF Current, ActiveOf
<1>5. \A s \in Sessions : s # s0 => Current(s)' = Current(s)
  BY <1>3 DEF Current
<1> HIDE DEF e
<1>6. \A m, x : Takes(m, x)' <=> Takes(m, x)
  BY <1>1 DEF Takes, Act
<1>7. PICK k \in mined : k.tx.req = r /\ k.tx.step = Primary /\ k.ok
  BY <1>1 DEF MinedRebalance
<1>8. aqua[Current(s0)] = "docked" /\ aqua[Target(r)] # "absent"
  <2>1. attempt[r].before \in Strategies
    BY <1>1 DEF AdmissionInv, Admitted, Pending
  <2>2. Takes(k, attempt[r].before) /\ Puts(k, Target(r))
    BY <1>1, <1>7 DEF Takes, Puts
  <2> QED
    BY <1>1, <2>1, <2>2 DEF MarketInv, TakenDocked, PutKnown
<1>9. ShippedTip'
  <2> SUFFICES ASSUME NEW s \in Sessions, NEW x \in Shipped(s)' PROVE Tip(s, x)'
    BY DEF ShippedTip
  <2>1. x \in Shipped(s)
    BY <1>1, <1>2 DEF Shipped, Act, SessionOf, Target
  <2>2. Tip(s, x)
    BY <2>1 DEF SessionInv, ShippedTip
  <2>3. CASE aqua[x] = "docked"
    BY <1>2, <2>3 DEF Tip
  <2>4. CASE x = Current(s)
    BY <1>2, <1>5, <1>8, <2>4 DEF Tip
  <2>5. ASSUME NEW q \in Requests, Pending(q), MinedRebalance(q), SessionOf(q) = s, Target(q) = x
        PROVE  Tip(s, x)'
    <3>1. q = r
      BY <1>1, <2>5 DEF AdmissionInv, OnePending
    <3> QED
      BY <1>0, <1>4, <2>5, <3>1 DEF Tip
  <2> QED
    BY <2>2, <2>3, <2>4, <2>5 DEF Tip
<1>10. CurrentKnown'
  BY <1>2, <1>3, <1>4, <1>5, <1>8 DEF SessionInv, CurrentKnown
<1>11. TakerPending'
  <2>0. \A q : /\ SessionOf(q)' = SessionOf(q)
               /\ Pending(q)' <=> Pending(q)
    BY <1>1 DEF SessionOf, Pending
  <2> SUFFICES ASSUME NEW s \in Sessions, NEW m \in mined, session[s].status = "active",
                      SessionOf(m.tx.req) = s, Takes(m, Current(s)')
               PROVE  Pending(m.tx.req)
    BY <1>2, <1>3, <1>6, <2>0 DEF TakerPending
  <2>1. CASE s # s0
    BY <1>5, <2>1 DEF SessionInv, TakerPending
  <2>2. CASE s = s0
    <3>1. Takes(m, Target(r))
      BY <1>4, <2>2
    <3> QED
      BY <1>1, <3>1 DEF MarketInv, FreshTarget
  <2> QED
    BY <2>1, <2>2
<1> QED
  BY <1>9, <1>10, <1>11 DEF SessionInv

\* What a pending request ships becomes the tip of its session.
LEMMA SessionMine ==
  ASSUME TypeInv, LedgerInv, StageInv, AdmissionInv, PlanInv, SessionInv,
         TypeInv', LedgerInv', NEW t \in pool, NEW ok \in BOOLEAN, Mine(t, ok)
  PROVE  SessionInv'
<1> DEFINE k == [tx |-> t, ok |-> ok]
           r == t.req
<1>1. mined' = mined \cup {k} /\ UNCHANGED <<attempt, session>>
  BY DEF Mine, journal
<1>2. k.tx = t /\ k.ok = ok
  OBVIOUS
<1> HIDE DEF k
<1>3. /\ OneWay
      /\ r \in Requests
      /\ t.step \in {Primary, RiskDock} => Pending(r)
  BY MineOneWay, Underway
<1>4. \A s : Current(s)' = Current(s)
  BY <1>1 DEF Current
<1>5. \A q \in Requests : /\ SessionOf(q)' = SessionOf(q)
                          /\ Target(q)' = Target(q)
                          /\ Act(q)' = Act(q)
                          /\ Pending(q)' <=> Pending(q)
                          /\ MinedRebalance(q) => MinedRebalance(q)'
  BY <1>1 DEF SessionOf, Target, Act, Pending, MinedRebalance
<1>6. \A m, x : Takes(m, x)' <=> Takes(m, x)
  BY <1>1 DEF Takes, Act
<1>7. \A m, x : Puts(m, x)' <=> Puts(m, x)
  BY <1>1 DEF Puts, Act, Target
<1>8. ShippedTip'
  <2> SUFFICES ASSUME NEW s \in Sessions, NEW x \in Shipped(s)' PROVE Tip(s, x)'
    BY DEF ShippedTip
  <2>1. x \in Strategies /\ \E m \in mined' : Puts(m, x)' /\ SessionOf(m.tx.req)' = s
    BY ShippedNext
  <2>2. PICK m \in mined' : Puts(m, x)' /\ SessionOf(m.tx.req)' = s
    BY <2>1
  <2>3. Puts(m, x) /\ SessionOf(m.tx.req) = s
    BY <1>1, <1>7, <2>2 DEF SessionOf
  <2>4. CASE m \in mined
    <3>1. Tip(s, x)
      BY <2>1, <2>3, <2>4, ShippedBy DEF SessionInv, ShippedTip
    <3> QED
      BY <1>3, <1>4, <1>5, <2>1, <3>1 DEF Tip, OneWay
  <2>5. CASE m = k
    <3>1. /\ ok /\ t.step = Primary /\ Act(r) \in {"ship", "rebalance"}
          /\ Target(r) = x /\ SessionOf(r) = s
      BY <1>2, <2>3, <2>5 DEF Puts
    <3>2. Pending(r)
      BY <1>3, <3>1
    <3>3. CASE Act(r) = "ship"
      <4>1. Admitted(r) /\ attempt[r].status # "none"
        BY <1>3, <3>2 DEF AdmissionInv, Pending
      <4>2. Current(s) = x
        BY <1>3, <3>1, <3>2, <3>3, <4>1, CurrentOf DEF Admitted
      <4> QED
        BY <1>4, <4>2 DEF Tip
    <3>4. CASE Act(r) = "rebalance"
      <4>1. MinedRebalance(r)'
        BY <1>1, <1>2, <1>3, <1>5, <3>1, <3>4 DEF MinedRebalance
      <4> QED
        BY <1>3, <1>5, <3>1, <3>2, <4>1 DEF Tip
    <3> QED
      BY <3>1, <3>3, <3>4
  <2> QED
    BY <1>1, <2>4, <2>5
<1>9. CurrentKnown'
  <2> SUFFICES ASSUME NEW s \in Sessions, session[s].status = "active"
               PROVE  aqua'[Current(s)] # "absent"
    BY <1>1, <1>4 DEF CurrentKnown
  <2>1. aqua[Current(s)] # "absent" /\ Current(s) \in Strategies
    BY CurrentStrategy DEF SessionInv, CurrentKnown
  <2> QED
    BY <1>3, <2>1 DEF OneWay
<1>10. TakerPending'
  <2> SUFFICES ASSUME NEW s \in Sessions, NEW m \in mined', session[s].status = "active",
                      SessionOf(m.tx.req) = s, Takes(m, Current(s))
               PROVE  Pending(m.tx.req)
    BY <1>1, <1>4, <1>6 DEF TakerPending, Pending, SessionOf
  <2>1. CASE m \in mined
    BY <2>1 DEF SessionInv, TakerPending
  <2>2. CASE m = k
    BY <1>2, <1>3, <2>2 DEF Takes
  <2> QED
    BY <1>1, <2>1, <2>2
<1> QED
  BY <1>8, <1>9, <1>10 DEF SessionInv

\* The facts about the market of a session are kept by every step.
LEMMA SessionStep ==
  ASSUME TypeInv, LedgerInv, StageInv, AdmissionInv, MarketInv, PlanInv, ClosedInv, SessionInv,
         TypeInv', LedgerInv', [Next]_vars
  PROVE  SessionInv'
<1>1. ASSUME NEW r \in Requests,
             \/ Resume(r) \/ Move(r)
             \/ \E step \in Steps, n \in Nonces : Prepare(r, step, n)
      PROVE  SessionInv'
  <2>1. UNCHANGED <<attempt, session, mined>>
    BY <1>1 DEF Resume, Move, EnterRisk, EnterShip, EnterChange, EnterMonitor, EnterDock,
                WithinLimit, Advance, VerifyRebalance, SettleSwap, Prepare, journal, network
  <2> QED
    BY <2>1, SessionKept DEF Pending
<1>2. CASE \/ Interrupt
           \/ \E t \in saved : Broadcast(t)
           \/ \E m \in mined : Confirm(m)
           \/ \E a \in Accounts : SendElsewhere(a)
           \/ \E s \in Strategies : DockElsewhere(s)
           \/ \E s \in Strategies : Expire(s)
           \/ \E t \in seen : Forget(t)
           \/ UNCHANGED vars
  <2>1. UNCHANGED <<attempt, session, mined>>
    BY <1>2 DEF Interrupt, Broadcast, Confirm, SendElsewhere, DockElsewhere, Expire, Forget,
                vars, journal, network
  <2> QED
    BY <2>1, SessionKept DEF Pending
<1>3. ASSUME NEW r \in Requests, Conclusion(r), ~SettleShip(r) PROVE SessionInv'
  <2>1. /\ UNCHANGED <<attempt, mined>>
        /\ session' = [session EXCEPT ![SessionOf(r)].status = "closed"]
        /\ session \in [Sessions -> Session]
    BY <1>3 DEF Conclusion, SettleRisk, Close, AlreadyDocked, CloseSession, network, TypeInv, TypeOK
  <2>2. \A s \in Sessions : /\ session'[s].plan = session[s].plan
                            /\ session'[s].status = "active" => session[s].status = "active"
    BY <2>1 DEF Session
  <2> QED
    BY <2>1, <2>2, SessionKept DEF Pending
<1>4. ASSUME NEW r \in Requests, NEW stage \in {"preguard", "guard"}, NEW x \in Strategies,
             WouldDock(r, stage, x)
      PROVE  SessionInv'
  <2>1. /\ UNCHANGED <<session, mined>>
        /\ attempt' = [attempt EXCEPT ![r].riskStop = x]
        /\ attempt \in [Requests -> Attempt]
    BY <1>4 DEF WouldDock, network, TypeInv, TypeOK
  <2>2. \A q \in Requests : Pending(q) => Pending(q)'
    BY <2>1 DEF Pending, Attempt
  <2> QED
    BY <2>1, <2>2, SessionKept
<1>5. ASSUME NEW r \in Requests, SettleRebalance(r) PROVE SessionInv'
  <2>1. UNCHANGED <<attempt, mined>>
    BY <1>5 DEF SettleRebalance, network
  <2>2. CASE session' = session
    BY <2>1, <2>2, SessionKept DEF Pending
  <2> QED
    BY <1>5, <2>2, SessionAppended
<1>6. ASSUME NEW r \in Requests, SettleShip(r) PROVE SessionInv'
  BY <1>6, SessionActivated
<1>7. ASSUME NEW r \in Requests, End(r) PROVE SessionInv'
  BY <1>7, SessionEnd
<1>8. ASSUME NEW r \in Requests, NEW b \in Bodies, Submit(r, b) PROVE SessionInv'
  BY <1>8, SessionSubmit
<1>9. ASSUME NEW t \in pool, NEW ok \in BOOLEAN, Mine(t, ok) PROVE SessionInv'
  BY <1>9, SessionMine
<1> QED
  BY <1>1, <1>2, <1>3, <1>4, <1>5, <1>6, <1>7, <1>8, <1>9, NextKinds DEF Kinds

\* Nothing is shipped initially.
LEMMA SessionInit == Init => SessionInv
BY DEF Init, SessionInv, ShippedTip, Shipped, CurrentKnown, TakerPending, NoSession

\* A session has one strategy on the market, and while it is active nobody but a
\* pending request has taken off its current one.
THEOREM SessionInvariant == Spec => []SessionInv
<1>1. /\ TypeInv /\ LedgerInv /\ StageInv /\ AdmissionInv /\ MarketInv /\ PlanInv /\ ClosedInv
      /\ SessionInv /\ TypeInv' /\ LedgerInv' /\ [Next]_vars
      => SessionInv'
  BY SessionStep
<1> QED
  BY <1>1, SessionInit, TypeInvariant, LedgerInvariant, StageInvariant, AdmissionInvariant,
     MarketInvariant, PlanInvariant, ClosedInvariant, PTL DEF Spec

\* The journal's view of every session agrees with the chain: the plan names
\* the rebalances that happened, an active session's current strategy was
\* shipped and no request has taken it off, and at most one strategy of a session is
\* on the market.
THEOREM SessionsFollowTheChain == Spec => []SessionFollowsChain
<1>1. TypeInv /\ LedgerInv /\ StageInv /\ AdmissionInv /\ MarketInv /\ PlanInv /\ SessionInv
      => SessionFollowsChain
  <2> SUFFICES ASSUME TypeInv, LedgerInv, StageInv, AdmissionInv, MarketInv, PlanInv, SessionInv
               PROVE  SessionFollowsChain
    OBVIOUS
  <2>1. PlanFollowsChain
    BY PlanAndChain
  <2>2. ActiveIsCurrent
    <3> SUFFICES ASSUME NonePending, NEW s \in Sessions, session[s].status = "active",
                        aqua[Current(s)] = "absent" \/ TakenOff(s, Current(s))
                 PROVE  FALSE
      BY DEF ActiveIsCurrent
    <3>1. PICK m \in mined : SessionOf(m.tx.req) = s /\ Takes(m, Current(s))
      BY DEF SessionInv, CurrentKnown, TakenOff, Takes
    <3>2. Pending(m.tx.req) /\ m.tx.req \in Requests
      BY <3>1 DEF SessionInv, TakerPending, TypeInv, TypeOK, Receipt, Tx
    <3> QED
      BY <3>2 DEF NonePending
  <2>3. OneLive
    <3> SUFFICES ASSUME NEW s \in Sessions, NEW x \in Shipped(s), NEW y \in Shipped(s),
                        aqua[x] = "active", aqua[y] = "active"
                 PROVE  x = y
      BY DEF OneLive
    <3>1. Tip(s, x) /\ Tip(s, y)
      BY DEF SessionInv, ShippedTip
    <3>2. ASSUME NEW q \in Requests, Pending(q), MinedRebalance(q), SessionOf(q) = s
          PROVE  aqua[Current(s)] = "docked" \/ Current(s) = Target(q)
      <4>1. PICK m \in mined : m.tx.req = q /\ m.tx.step = Primary /\ m.ok
        BY <3>2 DEF MinedRebalance
      <4>2. attempt[q].before \in Strategies /\ Takes(m, attempt[q].before)
        BY <3>2, <4>1 DEF Takes, MinedRebalance, AdmissionInv, Admitted, Pending
      <4>3. aqua[attempt[q].before] = "docked"
        BY <4>2 DEF MarketInv, TakenDocked
      <4> QED
        BY <3>2, <4>3, CurrentOf
    <3>3. \A q1, q2 \in Requests : Pending(q1) /\ Pending(q2) => q1 = q2
      BY DEF AdmissionInv, OnePending
    <3> QED
      BY <3>1, <3>2, <3>3 DEF Tip
  <2> QED
    BY <2>1, <2>2, <2>3 DEF SessionFollowsChain
<1> QED
  BY <1>1, TypeInvariant, LedgerInvariant, StageInvariant, AdmissionInvariant, MarketInvariant,
     PlanInvariant, SessionInvariant, PTL
=============================================================================
