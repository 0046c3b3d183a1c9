----------------------------- MODULE DeployDialog -----------------------------
(***************************************************************************)
(* The overlay of a deployment (components/Creator/WorkflowBuilder.tsx and *)
(* its copy marketplace/MarketplaceDeployModal.tsx): its screens, what may *)
(* be pressed on each, and the handlers that go on after their awaits      *)
(* whatever the screen is by then.  A deployment may be paid for at once;  *)
(* afterwards Add Funds pays and Activate starts the account, and a paid   *)
(* deployment leaves for the portfolio by itself.  What a deployment       *)
(* stores step by step is StrategyDeploy's subject.                        *)
(***************************************************************************)
EXTENDS Naturals, FiniteSets

CONSTANTS
  MaxAccounts,  \* bound: deployments of one page
  Clicks,       \* bound: presses of Add Funds
  Amounts,      \* lamports that may be typed
  Rent,         \* the least an account may hold
  Buffer,       \* RENT_TOP_UP_BUFFER_LAMPORTS
  None

VARIABLES
  screen,      \* the flags of the overlay: at (closed .. success, left), funded, auto, ui
  timer,       \* of the way to the portfolio: none, shown (1.5 s), leaving (0.4 s)
  account,     \* the refs: the account of the deployment, 0 before there is one
  deploy,      \* the running deployment: its step and the amount typed when it began
  adding,      \* per press of Add Funds: its step, account and amount
  flags,       \* postSuccessFunding, postSuccessActivating
  activating,  \* the account an update to active is under way for, or 0
  stored,      \* accounts whose strategy was stored
  balance,     \* lamports of each account
  flying,      \* transfers sent and not landed
  stray        \* an answer about an earlier account came while a later one was shown

vars == <<screen, timer, account, deploy, adding, flags, activating, stored, balance, flying, stray>>

Accounts == 1 .. MaxAccounts
Resting == [step |-> "none", amount |-> 0]
Unpressed == [step |-> "none", account |-> 0, amount |-> 0]
Blank(at) == [at |-> at, funded |-> FALSE, auto |-> FALSE, ui |-> "success"]
Busy == [funding |-> FALSE, activating |-> FALSE]
Made == {a \in Accounts : a \in DOMAIN balance}

Init ==
  /\ screen = Blank("closed") /\ timer = "none" /\ account = 0 /\ deploy = Resting
  /\ adding = [c \in Clicks |-> Unpressed] /\ flags = Busy /\ activating = 0
  /\ stored = {} /\ balance = <<>> /\ flying = {} /\ stray = FALSE

(***************************************************************************)
(* The screens: an error covers the spinner, the spinner covers the rest   *)
(***************************************************************************)
Redirecting == screen.at = "success" /\ screen.funded /\ screen.ui = "redirect"
Funded == screen.at = "success" /\ screen.funded /\ screen.ui = "success"
AddFunds == screen.at = "success" /\ ~screen.funded

\* The effect of three flags on the timers: when one of them changes, a paid deployment
\* that may leave arms the first timer and shows success, every other one clears both.
Flags(s) == <<s.at = "success", s.funded, s.auto>>
MayLeave(s) == s.at = "success" /\ s.funded /\ s.auto
Becomes(s) ==
  IF Flags(s) = Flags(screen) THEN screen' = s /\ timer' = timer
  ELSE IF MayLeave(s) THEN screen' = [s EXCEPT !.ui = "success"] /\ timer' = "shown"
  ELSE screen' = s /\ timer' = "none"
\* A page that was left shows nothing any more.
Shows(s) == IF screen.at = "left" THEN UNCHANGED <<screen, timer>> ELSE Becomes(s)

(***************************************************************************)
(* Opening                                                                 *)
(***************************************************************************)
Publish ==
  /\ screen.at = "closed" /\ Becomes(Blank("name"))
  /\ account' = 0 /\ flags' = Busy
  /\ UNCHANGED <<deploy, adding, activating, stored, balance, flying, stray>>

Turn(from, to) ==
  /\ screen.at = from /\ Becomes([screen EXCEPT !.at = to])
  /\ UNCHANGED <<account, deploy, adding, flags, activating, stored, balance, flying, stray>>
DeployNext == Turn("name", "ready")
Cancel == Turn("name", "closed")
Back == Turn("ready", "name")
FixNow == Turn("failed", "closed")

(***************************************************************************)
(* A deployment                                                            *)
(***************************************************************************)
ConfirmDeployPayment(amount) ==
  /\ screen.at = "ready" /\ deploy = Resting
  /\ Becomes([screen EXCEPT !.at = "deploying"])
  /\ account' = 0 /\ deploy' = [step |-> "wallet", amount |-> amount]
  /\ UNCHANGED <<adding, flags, activating, stored, balance, flying, stray>>

\* Any step before the transfer, the lists read again and the balance read after it.
DeployFails ==
  /\ deploy.step \in {"wallet", "workflow", "lists", "balance"}
  /\ deploy' = Resting /\ Becomes([screen EXCEPT !.at = "failed"])
  /\ UNCHANGED <<account, adding, flags, activating, stored, balance, flying, stray>>

\* The signature was rejected: the overlay is ready again.
Rejected ==
  /\ deploy.step = "wallet" /\ deploy' = Resting /\ Becomes([screen EXCEPT !.at = "ready"])
  /\ UNCHANGED <<account, adding, flags, activating, stored, balance, flying, stray>>

InitWallet ==
  LET new == Cardinality(Made) + 1
  IN /\ deploy.step = "wallet" /\ new \in Accounts
     /\ account' = new /\ balance' = [a \in Made \cup {new} |-> IF a = new THEN 0 ELSE balance[a]]
     /\ deploy' = [deploy EXCEPT !.step = "workflow"]
     /\ UNCHANGED <<screen, timer, adding, flags, activating, stored, flying, stray>>

StoreWorkflow ==
  /\ deploy.step = "workflow" /\ stored' = stored \cup {account}
  /\ deploy' = [deploy EXCEPT !.step = "lists"]
  /\ UNCHANGED <<screen, timer, account, adding, flags, activating, balance, flying, stray>>

\* What must be sent at least: nothing to an account that holds its rent.
Required(a) == IF balance[a] >= Rent THEN 0 ELSE Rent - balance[a] + Buffer

Succeeds(funded) ==
  /\ deploy' = Resting
  /\ Becomes([at |-> "success", funded |-> funded, auto |-> funded, ui |-> "success"])

\* No amount, too little, no wallet: the deployment succeeds unpaid.
Unpaid ==
  /\ deploy.step = "lists" /\ Succeeds(FALSE)
  /\ UNCHANGED <<account, adding, flags, activating, stored, balance, flying, stray>>

Price ==
  /\ deploy.step = "lists" /\ deploy.amount > 0 /\ deploy.amount >= Required(account)
  /\ deploy' = [deploy EXCEPT !.step = "sending"]
  /\ UNCHANGED <<screen, timer, account, adding, flags, activating, stored, balance, flying, stray>>

Transfer(by, a, amount) == flying' = flying \cup {[by |-> by, account |-> a, amount |-> amount]}

Send ==
  /\ deploy.step = "sending" /\ Transfer(None, account, deploy.amount)
  /\ deploy' = [deploy EXCEPT !.step = "confirming"]
  /\ UNCHANGED <<screen, timer, account, adding, flags, activating, stored, balance, stray>>

\* The wallet refuses, or the confirmation fails though the transfer may yet land.
SendFails ==
  /\ deploy.step \in {"sending", "confirming"} /\ Succeeds(FALSE)
  /\ UNCHANGED <<account, adding, flags, activating, stored, balance, flying, stray>>

Landed(by) == ~\E t \in flying : t.by = by
Confirmed ==
  /\ deploy.step = "confirming" /\ Landed(None) /\ deploy' = [deploy EXCEPT !.step = "balance"]
  /\ UNCHANGED <<screen, timer, account, adding, flags, activating, stored, balance, flying, stray>>

\* The balance on the chain decides, not the amount typed.
Holds(a) == balance[a] > 0
ReadBalance ==
  /\ deploy.step = "balance" /\ Succeeds(Holds(account)) /\ stray' = FALSE
  /\ UNCHANGED <<account, adding, flags, activating, stored, balance, flying>>

(***************************************************************************)
(* Add Funds: the amount is priced before the button is disabled           *)
(***************************************************************************)
Press(c, amount) ==
  /\ AddFunds /\ ~flags.funding /\ ~flags.activating /\ adding[c].step = "none" /\ account # 0
  /\ adding' = [adding EXCEPT ![c] = [step |-> "pricing", account |-> account, amount |-> amount]]
  /\ UNCHANGED <<screen, timer, account, deploy, flags, activating, stored, balance, flying, stray>>

PriceAdded(c) ==
  LET enough == adding[c].amount >= Required(adding[c].account)
  IN /\ adding[c].step = "pricing"
     /\ adding' = [adding EXCEPT ![c].step = IF enough THEN "sending" ELSE "over"]
     /\ flags' = IF enough THEN [flags EXCEPT !.funding = TRUE] ELSE flags
     /\ UNCHANGED <<screen, timer, account, deploy, activating, stored, balance, flying, stray>>

SendAdded(c) ==
  /\ adding[c].step = "sending" /\ Transfer(c, adding[c].account, adding[c].amount)
  /\ adding' = [adding EXCEPT ![c].step = "confirming"]
  /\ UNCHANGED <<screen, timer, account, deploy, flags, activating, stored, balance, stray>>

Over(c) == adding' = [adding EXCEPT ![c].step = "over"] /\ flags' = [flags EXCEPT !.funding = FALSE]

AddFails(c) ==
  /\ adding[c].step \in {"sending", "confirming"} /\ Over(c)
  /\ UNCHANGED <<screen, timer, account, deploy, activating, stored, balance, flying, stray>>

\* The balance read is shown as that of whatever account is shown by then.
Added(c) ==
  /\ adding[c].step = "confirming" /\ Landed(c) /\ Over(c)
  /\ Shows([screen EXCEPT !.funded = Holds(adding[c].account)])
  /\ stray' = (stray \/ adding[c].account # account)
  /\ UNCHANGED <<account, deploy, activating, stored, balance, flying>>

(***************************************************************************)
(* Activating and leaving                                                  *)
(***************************************************************************)
StopsLeaving(s) == [s EXCEPT !.auto = FALSE, !.ui = "success"]

Activate ==
  /\ Funded \/ (AddFunds /\ ~flags.funding)
  /\ ~flags.activating /\ account # 0
  /\ screen' = StopsLeaving(screen) /\ timer' = "none"
  /\ activating' = account /\ flags' = [flags EXCEPT !.activating = TRUE]
  /\ UNCHANGED <<account, deploy, adding, stored, balance, flying, stray>>

\* Success closes the overlay; an error leaves it as it is.
Activated(success) ==
  /\ activating # 0 /\ activating' = 0 /\ flags' = [flags EXCEPT !.activating = FALSE]
  /\ IF success THEN Shows(Blank("closed")) ELSE UNCHANGED <<screen, timer>>
  /\ UNCHANGED <<account, deploy, adding, stored, balance, flying, stray>>

FirstTimer ==
  /\ timer = "shown" /\ timer' = "leaving" /\ screen' = [screen EXCEPT !.ui = "redirect"]
  /\ UNCHANGED <<account, deploy, adding, flags, activating, stored, balance, flying, stray>>

SecondTimer ==
  /\ timer = "leaving" /\ Becomes(Blank("left"))
  /\ UNCHANGED <<account, deploy, adding, flags, activating, stored, balance, flying, stray>>

Portfolio ==
  /\ (Funded \/ Redirecting \/ AddFunds) /\ Becomes(Blank("left"))
  /\ UNCHANGED <<account, deploy, adding, flags, activating, stored, balance, flying, stray>>

Land(t) ==
  /\ flying' = flying \ {t} /\ balance' = [balance EXCEPT ![t.account] = @ + t.amount]
  /\ UNCHANGED <<screen, timer, account, deploy, adding, flags, activating, stored, stray>>

\* A transfer that fails on the chain is confirmed all the same.
Drop(t) ==
  /\ flying' = flying \ {t}
  /\ UNCHANGED <<screen, timer, account, deploy, adding, flags, activating, stored, balance, stray>>

Next ==
  \/ Publish \/ DeployNext \/ Cancel \/ Back \/ FixNow
  \/ \E amount \in Amounts \cup {0} : ConfirmDeployPayment(amount)
  \/ DeployFails \/ Rejected \/ InitWallet \/ StoreWorkflow \/ Unpaid \/ Price \/ Send \/ SendFails \/ Confirmed \/ ReadBalance
  \/ \E c \in Clicks : PriceAdded(c) \/ SendAdded(c) \/ AddFails(c) \/ Added(c) \/ \E amount \in Amounts : Press(c, amount)
  \/ Activate \/ FirstTimer \/ SecondTimer \/ Portfolio
  \/ \E success \in BOOLEAN : Activated(success)
  \/ \E t \in flying : Land(t) \/ Drop(t)

Spec == Init /\ [][Next]_vars

----------------------------------------------------------------------------
TypeOK ==
  /\ screen.at \in {"closed", "name", "ready", "deploying", "failed", "success", "left"}
  /\ timer \in {"none", "shown", "leaving"} /\ account \in {0} \cup Made
  /\ (timer # "none" => screen.at = "success" /\ screen.funded /\ screen.auto)

\* Whatever is sent goes to an account whose strategy is stored, and with what it holds
\* or is sent it can pay its rent; an account shown as funded holds money, unless the
\* answer about an earlier one came late.
MoneyIsSafe ==
  /\ \A t \in flying : t.account \in stored
  /\ \A a \in Made : balance[a] = 0 \/ balance[a] >= Rent
  /\ screen.at = "success" /\ screen.funded => Holds(account) \/ stray

\* Of every step: the overlay leaves by itself only after a deployment that was paid,
\* and never while the account is being started.
LeavesFunded ==
  timer = "leaving" /\ screen'.at = "left" => activating = 0 /\ \E a \in stored : Holds(a)
=============================================================================
