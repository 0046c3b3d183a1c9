------------------------ MODULE ExecutionController ------------------------
(***************************************************************************)
(* The durable execution controller of contracts/aqua-executor: one JSON   *)
(* request (ship, rebalance, swap, monitor, dock) is accepted into a       *)
(* journal, its transactions are signed and saved before they are          *)
(* broadcast, and any later call with the same request resumes it.         *)
(*                                                                         *)
(* What survives a crash is the journal (attempt, session, saved,          *)
(* receipts) and the network (aqua, count, pool, mined, expired); ctl is   *)
(* the running process, and Interrupt forgets it at any moment.  Interrupt *)
(* stands for every way executeRequest leaves a request pending: a crash,  *)
(* an abort signal, a failed read or simulation, a preflight or an         *)
(* expectState check that does not hold, a broadcast with no answer.       *)
(*                                                                         *)
(* Abstractions.  A strategy is a model value (its hash); a transaction is *)
(* its request, step, sender and nonce, which is what its hash identifies  *)
(* for the controller.  Balances, allowances and prices are not            *)
(* represented: a risk check may find a breach whenever the strategy is    *)
(* live, a swap or an approval may revert on chain, a preflight may fail.  *)
(***************************************************************************)
EXTENDS Integers, Sequences

CONSTANTS
  Requests,     \* request identifiers
  Sessions,     \* session identifiers
  Strategies,   \* strategy hashes
  Bodies,       \* the request contents callers submit
  TokenCount,   \* tokens of a strategy: one maker approval for each
  MaxNonce,     \* bound: the largest nonce an account of the model uses
  MaxExternal,  \* bound: transactions the two accounts send from elsewhere
  Forgetful,    \* whether the RPC node may lose sight of a pooled transaction
  None

Actions == {"ship", "rebalance", "swap", "monitor", "dock"}

Body == [action : Actions, session : Sessions, strategy : Strategies \cup {None},
         expected : Strategies \cup {None}, revoke : BOOLEAN]

ASSUME ConstantsAssumption ==
  /\ None \notin Requests \cup Sessions \cup Strategies
  /\ TokenCount \in Nat \ {0}
  /\ MaxNonce \in Nat
  /\ MaxExternal \in Nat
  /\ Forgetful \in BOOLEAN
  /\ Bodies \subseteq Body
  /\ \A b \in Bodies :
       /\ b.action \in {"ship", "rebalance"} <=> b.strategy # None
       /\ b.action = "ship" <=> b.expected = None

VARIABLES
  attempt,      \* journal: attempt[r], what is stored for request r
  session,      \* journal: session[s], its status and its plan
  saved,        \* journal: signed transactions
  receipts,     \* journal: transactions whose receipt is stored
  ctl,          \* the process that holds the state directory's lock
  aqua,         \* chain: tokensCount of each strategy of this maker
  count,        \* chain: mined transactions of each account
  mined,        \* chain: the controller's mined transactions
  pool,         \* network: the controller's broadcast, unmined transactions
  seen,         \* the part of the pool the RPC node knows of
  expired,      \* strategies whose deadline has passed
  externals     \* transactions sent from elsewhere so far

journal == <<attempt, session, saved, receipts>>
network == <<aqua, count, mined, pool, seen, expired, externals>>
vars == <<attempt, session, saved, receipts, ctl,
          aqua, count, mined, pool, seen, expired, externals>>

-----------------------------------------------------------------------------
(* Data of the journal and of the chain.                                   *)

Primary      == <<"primary", 0>>
RiskDock     == <<"risk-dock", 0>>
TakerApprove == <<"taker-approve", 0>>
MakerApprove == {<<"maker-approve", i>> : i \in 1 .. TokenCount}
MakerRevoke  == {<<"maker-revoke", i>> : i \in 1 .. TokenCount}
Steps == {Primary, RiskDock, TakerApprove} \cup MakerApprove \cup MakerRevoke

Accounts == {"maker", "taker"}
Nonces == 0 .. MaxNonce

Tx == [req : Requests, step : Steps, sender : Accounts, nonce : Nonces]
Receipt == [tx : Tx, ok : BOOLEAN]

Attempt == [status : {"none", "pending", "completed", "failed"},
            body : Bodies \cup {None},
            before : Strategies \cup {None},
            wasStarting : BOOLEAN,
            riskStop : Strategies \cup {None}]

NoAttempt == [status |-> "none", body |-> None, before |-> None,
              wasStarting |-> FALSE, riskStop |-> None]

PlanEntry == [strategy : Strategies, by : Requests]

Session == [status : {"none", "starting", "active", "closed"},
            plan : Seq(PlanEntry)]

NoSession == [status |-> "none", plan |-> <<>>]

Stages == {"idle", "entry", "preguard", "approve", "primary", "settle",
           "verify", "guard", "risk", "close", "revoke", "finish"}

Process == [req : Requests \cup {None}, at : Stages, sent : BOOLEAN]

Idle == [req |-> None, at |-> "idle", sent |-> FALSE]

-----------------------------------------------------------------------------
(* What the code reads.                                                    *)

Act(r)      == attempt[r].body.action
SessionOf(r) == attempt[r].body.session

\* activeOf(plan): the strategy of the last rebalance, else the shipped one.
ActiveOf(plan) == plan[Len(plan)].strategy
Current(s) == ActiveOf(session[s].plan)

\* The strategy that is live once the request has done what it asks for.
Target(r) == IF Act(r) \in {"ship", "rebalance"}
             THEN attempt[r].body.strategy ELSE attempt[r].before

Outcome(r, step)  == {m \in receipts : m.tx.req = r /\ m.tx.step = step}
Succeeded(r, step) == \E m \in Outcome(r, step) : m.ok
Reverted(r, step)  == \E m \in Outcome(r, step) : ~m.ok

\* Defect: a transaction counts as existing only once its receipt is stored.
HasReceipt(r, step) == Outcome(r, step) # {}

Has(r, step) == \E t \in saved : t.req = r /\ t.step = step

Pending(r) == attempt[r].status = "pending"

\* Defect: a new request does not look at the other requests.
AlwaysFree == TRUE

NonePending == \A r \in Requests : ~Pending(r)

Running(r, stage) == ctl.req = r /\ ctl.at = stage

SenderOf(r, step) ==
  IF step = TakerApprove \/ (step = Primary /\ Act(r) = "swap")
  THEN "taker" ELSE "maker"

\* getTransactionCount(pending): the RPC node counts what it has mined and
\* the pooled transactions it has seen, up to the first gap.
IsPendingNonce(a, n) ==
  /\ n >= count[a]
  /\ \A t \in seen : t.sender = a => t.nonce # n
  /\ \A k \in count[a] .. (n - 1) : \E t \in seen : t.sender = a /\ t.nonce = k

-----------------------------------------------------------------------------
(* Where the process goes next, and the ways a request ends.               *)

Goto(r, stage) == ctl' = [req |-> r, at |-> stage, sent |-> FALSE]

Ended(r, status) ==
  /\ attempt' = [attempt EXCEPT ![r].status = status]
  /\ ctl' = Idle

CloseSession(s) == session' = [session EXCEPT ![s].status = "closed"]

-----------------------------------------------------------------------------
(* Admission and recovery.                                                 *)

NewAttempt(b, before, wasStarting) ==
  [status |-> "pending", body |-> b, before |-> before,
   wasStarting |-> wasStarting, riskStop |-> None]

\* The checks of a request that is not in the journal yet.
Admissible(b) ==
  LET s == session[b.session] IN
  /\ NonePending
  /\ IF b.action = "ship"
     THEN s.status = "none"
     ELSE /\ s.status # "none"
          /\ b.expected = ActiveOf(s.plan)
          /\ b.action \in {"dock", "monitor"} \/ s.status = "active"
          /\ b.action = "rebalance" => b.strategy # ActiveOf(s.plan)
  /\ b.action \in {"ship", "rebalance"} => b.strategy \notin expired

Submit(r, b) ==
  /\ ctl = Idle
  /\ attempt[r].status = "none"
  /\ Admissible(b)
  /\ IF b.action = "ship"
     THEN /\ session' = [session EXCEPT ![b.session] =
               [status |-> "starting", plan |-> <<[strategy |-> b.strategy, by |-> r]>>]]
          /\ attempt' = [attempt EXCEPT ![r] = NewAttempt(b, b.strategy, TRUE)]
     ELSE /\ session' = session
          /\ attempt' = [attempt EXCEPT ![r] =
               NewAttempt(b, Current(b.session), session[b.session].status = "starting")]
  /\ Goto(r, "entry")
  /\ UNCHANGED <<saved, receipts, network>>

\* The same request again; other contents under its id are refused, and a
\* finished request only returns its stored result.
Resume(r) ==
  /\ ctl = Idle
  /\ Pending(r)
  /\ Goto(r, "entry")
  /\ UNCHANGED <<journal, network>>

Interrupt ==
  /\ ctl.req # None
  /\ ctl' = Idle
  /\ UNCHANGED <<journal, network>>

-----------------------------------------------------------------------------
(* The first reads of a call, per action.                                  *)

NeverShipped(r) ==
  /\ attempt[r].wasStarting
  /\ aqua[attempt[r].before] = "absent"
  /\ ~Has(r, Primary)

\* A persisted breach is settled before anything else.
EnterRisk(r) ==
  /\ Running(r, "entry")
  /\ attempt[r].riskStop # None
  /\ Goto(r, "risk")
  /\ UNCHANGED <<journal, network>>

EnterShip(r) ==
  /\ Running(r, "entry")
  /\ attempt[r].riskStop = None
  /\ Act(r) = "ship"
  /\ Has(r, Primary) \/ (Target(r) \notin expired /\ aqua[Target(r)] = "absent")
  /\ Goto(r, "approve")
  /\ UNCHANGED <<journal, network>>

\* Defect: a resumed swap or rebalance looks at the market again instead of the
\* breach it has recorded.
EnterForgetting(r) ==
  /\ Running(r, "entry")
  /\ Act(r) \in {"rebalance", "swap"}
  /\ Goto(r, IF Has(r, Primary) THEN "approve" ELSE "preguard")
  /\ UNCHANGED <<journal, network>>

EnterChange(r) ==
  /\ Running(r, "entry")
  /\ attempt[r].riskStop = None
  /\ Act(r) \in {"rebalance", "swap"}
  /\ Goto(r, IF Has(r, Primary) THEN "approve" ELSE "preguard")
  /\ UNCHANGED <<journal, network>>

EnterMonitor(r) ==
  /\ Running(r, "entry")
  /\ attempt[r].riskStop = None
  /\ Act(r) = "monitor"
  /\ Goto(r, "guard")
  /\ UNCHANGED <<journal, network>>

EnterDock(r) ==
  /\ Running(r, "entry")
  /\ attempt[r].riskStop = None
  /\ Act(r) = "dock"
  /\ IF /\ ~NeverShipped(r)
        /\ Has(r, Primary) \/ aqua[attempt[r].before] # "docked"
     THEN Goto(r, "primary")
     ELSE Goto(r, "close")
  /\ UNCHANGED <<journal, network>>

-----------------------------------------------------------------------------
(* The risk check: before a swap or a rebalance is signed, and last.       *)

GuardAt(r, stage, strategy) ==
  /\ Running(r, stage)
  /\ strategy = IF stage = "preguard" THEN attempt[r].before ELSE Target(r)

WithinLimit(r, stage, strategy) ==
  /\ GuardAt(r, stage, strategy)
  /\ aqua[strategy] = "active"
  /\ IF stage = "guard"
     THEN Goto(r, "finish")
     ELSE /\ Act(r) = "rebalance" => Target(r) \notin expired
          /\ Goto(r, "approve")
  /\ UNCHANGED <<journal, network>>

\* The observed breach is stored before a dock is prepared.
WouldDock(r, stage, strategy) ==
  /\ GuardAt(r, stage, strategy)
  /\ aqua[strategy] = "active"
  /\ attempt' = [attempt EXCEPT ![r].riskStop = strategy]
  /\ Goto(r, "risk")
  /\ UNCHANGED <<session, saved, receipts, network>>

AlreadyDocked(r, stage, strategy) ==
  /\ GuardAt(r, stage, strategy)
  /\ aqua[strategy] = "docked"
  /\ CloseSession(SessionOf(r))
  /\ Goto(r, "finish")
  /\ UNCHANGED <<attempt, saved, receipts, network>>

\* A monitor request whose prices or reads are unavailable is concluded.
MonitorUnavailable(r) ==
  /\ Running(r, "guard")
  /\ Act(r) = "monitor"
  /\ Ended(r, "failed")
  /\ UNCHANGED <<session, saved, receipts, network>>
-----------------------------------------------------------------------------
(* durableSender.send: the steps a stage sends, in the order of their      *)
(* index.  A saved transaction is looked up, broadcast and awaited; only a *)
(* step with nothing saved is prepared and signed.                         *)

StageSteps(r) ==
  CASE ctl.at = "approve" -> IF Act(r) = "swap" THEN {TakerApprove} ELSE MakerApprove
    [] ctl.at = "primary" -> {Primary}
    [] ctl.at = "risk" ->
         IF Has(r, RiskDock) \/ aqua[attempt[r].riskStop] # "docked"
         THEN {RiskDock} ELSE {}
    [] ctl.at = "revoke" -> MakerRevoke
    [] OTHER -> {}

Due(r, step) ==
  /\ ctl.req = r
  /\ step \in StageSteps(r)
  /\ ~Succeeded(r, step)
  /\ \A p \in StageSteps(r) : p[2] < step[2] => Succeeded(r, p)

AllSent(r) == \A step \in StageSteps(r) : Succeeded(r, step)

\* Whether Aqua or the router would execute the transaction now.
Applies(r, step) ==
  CASE step = RiskDock -> aqua[attempt[r].riskStop] = "active"
    [] step = Primary /\ Act(r) = "ship" -> aqua[Target(r)] = "absent"
    [] step = Primary /\ Act(r) = "rebalance" ->
         aqua[attempt[r].before] = "active" /\ aqua[Target(r)] = "absent"
    [] step = Primary /\ Act(r) = "swap" ->
         aqua[attempt[r].before] = "active" /\ attempt[r].before \notin expired
    [] step = Primary /\ Act(r) = "dock" -> aqua[attempt[r].before] = "active"
    [] OTHER -> TRUE

\* A ship, a rebalance or a swap is signed only before the deadline.
FreshEnough(r, step) ==
  step = Primary /\ Act(r) # "dock" => Target(r) \notin expired

Prepare(r, step, n) ==
  /\ Due(r, step)
  /\ ~Has(r, step)
  /\ FreshEnough(r, step)
  /\ Applies(r, step)
  /\ IsPendingNonce(SenderOf(r, step), n)
  /\ saved' = saved \cup {[req |-> r, step |-> step, sender |-> SenderOf(r, step), nonce |-> n]}
  /\ UNCHANGED <<attempt, session, receipts, ctl, network>>

\* No receipt, and the nonce is free: the same bytes are sent (again).  A node
\* that holds another transaction with this nonce refuses them.
Broadcast(t) ==
  /\ t \in saved
  /\ Due(t.req, t.step)
  /\ ~ctl.sent
  /\ \A m \in mined : m.tx # t
  /\ count[t.sender] <= t.nonce
  /\ \A u \in seen : u.sender = t.sender /\ u.nonce = t.nonce => u = t
  /\ pool' = pool \cup {t}
  /\ seen' = seen \cup {t}
  /\ ctl' = [ctl EXCEPT !.sent = TRUE]
  /\ UNCHANGED <<journal, aqua, count, mined, expired, externals>>

\* The receipt of exactly this transaction is stored.
Confirm(m) ==
  /\ m \in mined \ receipts
  /\ m.tx \in saved
  /\ Due(m.tx.req, m.tx.step)
  /\ receipts' = receipts \cup {m}
  /\ ctl' = [ctl EXCEPT !.sent = FALSE]
  /\ UNCHANGED <<attempt, session, saved, network>>

-----------------------------------------------------------------------------
(* ExecutionRevertedError: the request ends as failed.                     *)

FailReverted(r, step) ==
  /\ Due(r, step)
  /\ Reverted(r, step)
  /\ Ended(r, "failed")
  /\ UNCHANGED <<session, saved, receipts, network>>

\* Defect: the deadline is enforced on a transaction that is already signed.
ExpiredAnytime(r) == Target(r) \in expired

\* Defect: an expired strategy is an error like any other.
ExpiryIgnored(r) == ctl.req = r /\ FALSE

\* The deadline passed before the primary transaction was signed.
ExpiredUnsigned(r) == ~Has(r, Primary) /\ Target(r) \in expired

FailExpired(r) ==
  /\ ctl.req = r
  /\ attempt[r].riskStop = None
  /\ ExpiredUnsigned(r)
  /\ \/ ctl.at \in {"entry", "primary"} /\ Act(r) = "ship"
     \/ ctl.at \in {"preguard", "primary"} /\ Act(r) = "rebalance"
          /\ aqua[attempt[r].before] = "active"
     \/ ctl.at = "primary" /\ Act(r) = "swap" /\ aqua[attempt[r].before] = "active"
  /\ Ended(r, "failed")
  /\ UNCHANGED <<session, saved, receipts, network>>

\* The router rejects the quote of a swap that is not signed yet.
QuoteRejected(r) ==
  /\ Due(r, Primary)
  /\ ~Has(r, Primary)
  /\ Act(r) = "swap"
  /\ aqua[attempt[r].before] = "active"
  /\ attempt[r].before \notin expired
  /\ Ended(r, "failed")
  /\ UNCHANGED <<session, saved, receipts, network>>

-----------------------------------------------------------------------------
(* What follows the confirmed transactions of a stage.                     *)

Advance(r) ==
  /\ ctl.req = r
  /\ AllSent(r)
  /\ \/ Running(r, "approve") /\ Goto(r, "primary")
     \/ Running(r, "primary") /\ Goto(r, IF Act(r) = "dock" THEN "close" ELSE "settle")
     \/ Running(r, "revoke") /\ Goto(r, "finish")
  /\ UNCHANGED <<journal, network>>

\* Defect: the session is activated without a look at the chain.
SettleUnchecked(r) ==
  /\ Running(r, "settle")
  /\ Act(r) = "ship"
  /\ session' = [session EXCEPT ![SessionOf(r)].status = "active"]
  /\ Goto(r, "guard")
  /\ UNCHANGED <<attempt, saved, receipts, network>>

SettleShip(r) ==
  /\ Running(r, "settle")
  /\ Act(r) = "ship"
  /\ aqua[Target(r)] = "active"
  /\ session' = [session EXCEPT ![SessionOf(r)].status = "active"]
  /\ Goto(r, "guard")
  /\ UNCHANGED <<attempt, saved, receipts, network>>

\* The session follows the rebalance, once: a resumed request finds the
\* strategy already appended by its own transaction.
Followed(s, r) ==
  IF Current(s) = attempt[r].before
  THEN session' = [session EXCEPT ![s].plan =
                     Append(@, [strategy |-> Target(r), by |-> r])]
  ELSE /\ Current(s) = Target(r)
       /\ session[s].plan[Len(session[s].plan)].by = r
       /\ session' = session

SettleRebalance(r) ==
  /\ Running(r, "settle")
  /\ Act(r) = "rebalance"
  /\ Followed(SessionOf(r), r)
  /\ Goto(r, "verify")
  /\ UNCHANGED <<attempt, saved, receipts, network>>

VerifyRebalance(r) ==
  /\ Running(r, "verify")
  /\ aqua[attempt[r].before] = "docked"
  /\ aqua[Target(r)] = "active"
  /\ Goto(r, "guard")
  /\ UNCHANGED <<journal, network>>

SettleSwap(r) ==
  /\ Running(r, "settle")
  /\ Act(r) = "swap"
  /\ Goto(r, "guard")
  /\ UNCHANGED <<journal, network>>

SettleRisk(r) ==
  /\ Running(r, "risk")
  /\ AllSent(r)
  /\ aqua[attempt[r].riskStop] = "docked"
  /\ CloseSession(SessionOf(r))
  /\ Goto(r, "finish")
  /\ UNCHANGED <<attempt, saved, receipts, network>>

Close(r) ==
  /\ Running(r, "close")
  /\ aqua[attempt[r].before] = IF NeverShipped(r) THEN "absent" ELSE "docked"
  /\ CloseSession(SessionOf(r))
  /\ Goto(r, IF attempt[r].body.revoke THEN "revoke" ELSE "finish")
  /\ UNCHANGED <<attempt, saved, receipts, network>>

Finish(r) ==
  /\ Running(r, "finish")
  /\ Ended(r, "completed")
  /\ UNCHANGED <<session, saved, receipts, network>>
-----------------------------------------------------------------------------
(* The chain and the network (outside src: Aqua, the router, the nodes).   *)

\* Defect: the rebalance is a ship without the dock of the old strategy.
ShipWithoutDock(r, step) ==
  CASE step = RiskDock -> [aqua EXCEPT ![attempt[r].riskStop] = "docked"]
    [] step = Primary /\ Act(r) \in {"ship", "rebalance"} ->
         [aqua EXCEPT ![Target(r)] = "active"]
    [] step = Primary /\ Act(r) = "dock" -> [aqua EXCEPT ![attempt[r].before] = "docked"]
    [] OTHER -> aqua

AquaAfter(r, step) ==
  CASE step = RiskDock -> [aqua EXCEPT ![attempt[r].riskStop] = "docked"]
    [] step = Primary /\ Act(r) = "ship" -> [aqua EXCEPT ![Target(r)] = "active"]
    [] step = Primary /\ Act(r) = "rebalance" ->
         [aqua EXCEPT ![attempt[r].before] = "docked", ![Target(r)] = "active"]
    [] step = Primary /\ Act(r) = "dock" -> [aqua EXCEPT ![attempt[r].before] = "docked"]
    [] OTHER -> aqua

\* Token transfers and allowances are not represented: these may also fail.
MayRevert(r, step) ==
  \/ ~Applies(r, step)
  \/ step \notin {Primary, RiskDock}
  \/ step = Primary /\ Act(r) = "swap"

\* The transactions of account a that can still be mined after nonce n is used.
Later(T, a, n) == {t \in T : ~(t.sender = a /\ t.nonce = n)}

Mine(t, ok) ==
  /\ t \in pool
  /\ t.nonce = count[t.sender]
  /\ IF ok THEN Applies(t.req, t.step) ELSE MayRevert(t.req, t.step)
  /\ aqua' = IF ok THEN AquaAfter(t.req, t.step) ELSE aqua
  /\ mined' = mined \cup {[tx |-> t, ok |-> ok]}
  /\ count' = [count EXCEPT ![t.sender] = @ + 1]
  /\ pool' = Later(pool, t.sender, t.nonce)
  /\ seen' = Later(seen, t.sender, t.nonce)
  /\ UNCHANGED <<journal, ctl, expired, externals>>

\* The account sends a transaction from a wallet, a demo or another host.
SendElsewhere(a) ==
  /\ externals < MaxExternal
  /\ externals' = externals + 1
  /\ count' = [count EXCEPT ![a] = @ + 1]
  /\ pool' = Later(pool, a, count[a])
  /\ seen' = Later(seen, a, count[a])
  /\ UNCHANGED <<journal, ctl, aqua, mined, expired>>

\* The maker docks a strategy outside the controller.
DockElsewhere(strategy) ==
  /\ externals < MaxExternal
  /\ aqua[strategy] = "active"
  /\ externals' = externals + 1
  /\ aqua' = [aqua EXCEPT ![strategy] = "docked"]
  /\ count' = [count EXCEPT !["maker"] = @ + 1]
  /\ pool' = Later(pool, "maker", count["maker"])
  /\ seen' = Later(seen, "maker", count["maker"])
  /\ UNCHANGED <<journal, ctl, mined, expired>>

\* Eviction, or another node behind the same RPC endpoint.
Forget(t) ==
  /\ Forgetful
  /\ t \in seen
  /\ seen' = seen \ {t}
  /\ UNCHANGED <<journal, ctl, aqua, count, mined, pool, expired, externals>>

Expire(strategy) ==
  /\ strategy \notin expired
  /\ expired' = expired \cup {strategy}
  /\ UNCHANGED <<journal, ctl, aqua, count, mined, pool, seen, externals>>

-----------------------------------------------------------------------------
Init ==
  /\ attempt = [r \in Requests |-> NoAttempt]
  /\ session = [s \in Sessions |-> NoSession]
  /\ saved = {}
  /\ receipts = {}
  /\ ctl = Idle
  /\ aqua = [s \in Strategies |-> "absent"]
  /\ count = [a \in Accounts |-> 0]
  /\ mined = {}
  /\ pool = {}
  /\ seen = {}
  /\ expired = {}
  /\ externals = 0

\* The steps of a running call.
Step(r) ==
  \/ EnterRisk(r) \/ EnterShip(r) \/ EnterChange(r) \/ EnterMonitor(r) \/ EnterDock(r)
  \/ \E stage \in {"preguard", "guard"}, s \in Strategies :
       WithinLimit(r, stage, s) \/ WouldDock(r, stage, s) \/ AlreadyDocked(r, stage, s)
  \/ \E step \in Steps : FailReverted(r, step)
  \/ FailExpired(r) \/ QuoteRejected(r)
  \/ Advance(r)
  \/ SettleShip(r) \/ SettleRebalance(r) \/ VerifyRebalance(r) \/ SettleSwap(r)
  \/ SettleRisk(r) \/ Close(r) \/ Finish(r)

Send ==
  \/ \E r \in Requests, step \in Steps, n \in Nonces : Prepare(r, step, n)
  \/ \E t \in saved : Broadcast(t)
  \/ \E m \in mined : Confirm(m)

Chain ==
  \/ \E t \in pool, ok \in BOOLEAN : Mine(t, ok)
  \/ \E a \in Accounts : SendElsewhere(a)
  \/ \E s \in Strategies : DockElsewhere(s) \/ Expire(s)
  \/ \E t \in seen : Forget(t)

Call == Send \/ \E r \in Requests : Step(r)

Next ==
  \/ \E r \in Requests, b \in Bodies : Submit(r, b)
  \/ \E r \in Requests : Resume(r) \/ MonitorUnavailable(r)
  \/ Call
  \/ Interrupt
  \/ Chain

Spec == Init /\ [][Next]_vars

(***************************************************************************)
(* watchExecution resubmits the pending request of its session, a call     *)
(* that is not interrupted goes on, the network mines what it can and time *)
(* passes.  Interruptions are assumed to end at some point: a request can  *)
(* be interrupted any number of times, but not for ever.  Nothing relies   *)
(* on a read failing (MonitorUnavailable).                                 *)
(***************************************************************************)
Fairness ==
  /\ WF_vars(\E r \in Requests : Resume(r))
  /\ WF_vars(Call)
  /\ WF_vars(\E t \in pool, ok \in BOOLEAN : Mine(t, ok))
  /\ \A s \in Strategies : WF_vars(Expire(s))
  /\ <>[][~Interrupt]_vars

FairSpec == Spec /\ Fairness

-----------------------------------------------------------------------------
(* Properties.                                                             *)

\* The variables keep the shapes of the stored records and of the network.
TypeOK ==
  /\ attempt \in [Requests -> Attempt]
  /\ session \in [Sessions -> Session]
  /\ saved \subseteq Tx
  /\ receipts \subseteq Receipt
  /\ ctl \in Process
  /\ aqua \in [Strategies -> {"absent", "active", "docked"}]
  /\ count \in [Accounts -> Nat]
  /\ mined \subseteq Receipt
  /\ pool \subseteq Tx
  /\ seen \subseteq pool
  /\ expired \subseteq Strategies
  /\ externals \in Nat

\* Whatever the crashes, a step of a request reaches the chain at most once:
\* a resumed call sends the saved bytes again, never a second transaction.
OncePerStep ==
  \A m1, m2 \in mined :
    m1.tx.req = m2.tx.req /\ m1.tx.step = m2.tx.step => m1 = m2

\* Nothing is on the network that a restarted process would not find in its
\* journal (signed bytes are stored before they are broadcast).
WriteAhead == pool \cup {m.tx : m \in mined} \subseteq saved

\* A request that has its result leaves no state change of its own in
\* flight: its primary and its risk dock, once signed, have a receipt.
ResultIsFinal ==
  \A t \in saved :
    t.step \in {Primary, RiskDock} /\ ~Pending(t.req) => \E m \in receipts : m.tx = t

MinedRebalance(r) ==
  /\ Act(r) = "rebalance"
  /\ \E m \in mined : m.tx.req = r /\ m.tx.step = Primary /\ m.ok

Followers(s) == {session[s].plan[i].by : i \in 2 .. Len(session[s].plan)}

\* A session's plan names exactly the rebalances that happened on chain, each
\* once; while one is pending the plan may lag behind the chain, never run
\* ahead of it.
PlanFollowsChain ==
  /\ \A r \in Requests :
       attempt[r].status # "none" =>
         /\ r \in Followers(SessionOf(r)) => MinedRebalance(r)
         /\ MinedRebalance(r) /\ ~Pending(r) => r \in Followers(SessionOf(r))
  /\ \A s \in Sessions : \A i, j \in 1 .. Len(session[s].plan) :
       session[s].plan[i].by = session[s].plan[j].by => i = j

\* A request of session s has taken strategy x off the market.
TakenOff(s, x) ==
  \E m \in mined :
    /\ m.ok
    /\ SessionOf(m.tx.req) = s
    /\ \/ m.tx.step = RiskDock /\ attempt[m.tx.req].riskStop = x
       \/ /\ m.tx.step = Primary
          /\ Act(m.tx.req) \in {"rebalance", "dock"}
          /\ attempt[m.tx.req].before = x

\* Between requests, an active session's current strategy has been shipped and
\* no request of the session has docked or replaced it: every crash between
\* a dock on chain and the session's update is repaired before the result.
ActiveIsCurrent ==
  NonePending =>
    \A s \in Sessions : session[s].status = "active" =>
      aqua[Current(s)] # "absent" /\ ~TakenOff(s, Current(s))

\* A breach that was recorded is settled before the request has a result:
\* whatever the result says, the strategy is off the market.
BreachSettled ==
  \A r \in Requests :
    attempt[r].riskStop # None /\ ~Pending(r) => aqua[attempt[r].riskStop] = "docked"

\* The strategies the transactions of session s have put on the market.
Shipped(s) ==
  {Target(m.tx.req) : m \in {k \in mined :
     /\ k.ok /\ k.tx.step = Primary
     /\ Act(k.tx.req) \in {"ship", "rebalance"}
     /\ SessionOf(k.tx.req) = s}}

\* A session never has two strategies on the market: a rebalance docks the old
\* one in the transaction that ships the new one.
OneLive ==
  \A s \in Sessions : \A x, y \in Shipped(s) :
    aqua[x] = "active" /\ aqua[y] = "active" => x = y

\* The journal's view of a session agrees with the chain: the plan, the current
\* strategy, and the one strategy on the market.
SessionFollowsChain == PlanFollowsChain /\ ActiveIsCurrent /\ OneLive

\* Once a breach is recorded the request signs nothing but the dock.
NothingButTheDock ==
  [][\A r \in Requests : attempt[r].riskStop # None =>
       \A t \in saved' \ saved : t.req = r => t.step = RiskDock]_vars

\* A closed session stays closed, and none of its transactions still in flight
\* puts a strategy on the market.
ClosedStaysClosed ==
  [][\A s \in Sessions : session[s].status = "closed" =>
       /\ session'[s].status = "closed"
       /\ Shipped(s)' = Shipped(s)]_vars

\* What stopped stays stopped: a request after its breach, a session after its close.
StopsForGood == NothingButTheDock /\ ClosedStaysClosed

\* The promise to callers (RequestPromise): phases from the stored status,
\* effects from the chain.
Phase == [r \in Requests |-> CASE attempt[r].status = "none" -> "new"
                               [] attempt[r].status = "pending" -> "accepted"
                               [] OTHER -> "done"]
EffectOf(step) == {m.tx.req : m \in {k \in mined : k.ok /\ k.tx.step = step}}

Promise == INSTANCE RequestPromise WITH
  phase <- Phase, applied <- EffectOf(Primary), stopped <- EffectOf(RiskDock)

KeepsPromise == Promise!Spec

\* A request that works on a strategy Aqua never held: monitorOnce and the
\* simulation of the dock refuse it each time the request is resumed.
OnNothing(r) ==
  /\ attempt[r].before # None
  /\ aqua[attempt[r].before] = "absent"
  /\ Act(r) = "monitor" \/ (Act(r) = "dock" /\ ~attempt[r].wasStarting)

\* With nobody else using the accounts, every accepted request gets a result,
\* except a monitor or a second dock of a session that never shipped.
EveryRequestConcludes ==
  \A r \in Requests : Pending(r) ~> (~Pending(r) \/ OnNothing(r))

\* A recorded breach is completed, whatever prices do afterwards.
BreachCompletes ==
  \A r \in Requests, s \in Strategies : attempt[r].riskStop = s ~> aqua[s] = "docked"

\* With nobody else using the accounts, every request settles what it began: its own
\* result, and the dock of a recorded breach.
RequestsConclude == EveryRequestConcludes /\ BreachCompletes
=============================================================================
