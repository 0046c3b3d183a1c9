--------------------------- MODULE StrategyDeploy ---------------------------
(***************************************************************************)
(* Deploying and running a stored strategy from the browser (components/   *)
(* Creator/WorkflowBuilder.tsx, marketplace/MarketplaceDeployModal.tsx,    *)
(* workflows/page.tsx, lib/workflowService.ts).  One deployment is a chain *)
(* of separate requests: canvas, trading account, workflow, link, deposit. *)
(* Each may fail and nothing is undone.  The same owner may work in        *)
(* several windows, and each shows the accounts as it last read them.      *)
(***************************************************************************)
EXTENDS Naturals, Sequences, FiniteSets

CONSTANTS
  Windows,
  Names,        \* strategy names the owner types
  MaxAccounts,  \* bound: accounts (and so deployments that get that far)
  MaxDeposit,   \* bound: deposits into one account
  None

VARIABLES
  workflows,  \* stored strategies: [name, bound, by]: the account of the definition and of the deployment
  accounts,   \* trading accounts, oldest first: [status, workflow, deposits]
  flying,     \* transfers sent and not yet landed: accounts
  window      \* what each window does, and the accounts it shows

vars == <<workflows, accounts, flying, window>>

Closed == [at |-> "closed", name |-> None, account |-> 0, bound |-> 0, workflow |-> 0]

Init ==
  /\ workflows = <<>> /\ accounts = <<>> /\ flying = {}
  /\ window = [w \in Windows |-> [deploy |-> Closed, shown |-> <<>>]]

At(w) == window[w].deploy.at
Shown(w) == window[w].shown
Go(w, at) == [window EXCEPT ![w].deploy.at = at]
\* fetchAccounts replaces the list the window shows.
Listed(rows) == [a \in DOMAIN rows |-> [status |-> rows[a].status, workflow |-> rows[a].workflow]]
Reloaded(w, at, rows) == [window EXCEPT ![w].deploy.at = at, ![w].shown = Listed(rows)]

(***************************************************************************)
(* A deployment                                                            *)
(***************************************************************************)
OpenOverlay(w, name) ==
  /\ At(w) = "closed"
  /\ window' = [window EXCEPT ![w].deploy = [Closed EXCEPT !.at = "open", !.name = name]]
  /\ UNCHANGED <<workflows, accounts, flying>>

CloseOverlay(w) ==
  /\ At(w) \in {"open", "done"}
  /\ window' = [window EXCEPT ![w].deploy = Closed]
  /\ UNCHANGED <<workflows, accounts, flying>>

\* The draft is written; the accounts of an earlier attempt are forgotten.
UpsertCanvas(w) ==
  /\ At(w) = "open"
  /\ window' = [window EXCEPT ![w].deploy = [@ EXCEPT !.at = "signing", !.account = 0]]
  /\ UNCHANGED <<workflows, accounts, flying>>

\* The owner rejects the signature, or a request fails: the overlay is back where it was.
Stop(w) ==
  /\ At(w) \in {"open", "signing", "binding", "storing", "linking"}
  /\ window' = Go(w, "open")
  /\ UNCHANGED <<workflows, accounts, flying>>

\* What the wallet service does for a signed challenge: an account is made, or pays back.
Registered == Append(accounts, [status |-> "inactive", workflow |-> 0, deposits |-> 0])
Withdrawn(a) == [accounts EXCEPT ![a].deposits = @ - 1]

\* The answer of the service may be lost on the way back.
InitWallet(w, heard) ==
  /\ At(w) = "signing" /\ Len(accounts) < MaxAccounts /\ accounts' = Registered
  /\ window' = IF heard THEN [window EXCEPT ![w].deploy = [@ EXCEPT !.at = "binding", !.account = Len(accounts) + 1]]
                        ELSE Go(w, "open")
  /\ UNCHANGED <<workflows, flying>>

\* The definition is bound to the newest account of the owner, whoever made it.
GetActiveAccountId(w) ==
  /\ At(w) = "binding"
  /\ window' = [window EXCEPT ![w].deploy = [@ EXCEPT !.at = "storing", !.bound = Len(accounts)]]
  /\ UNCHANGED <<workflows, accounts, flying>>

\* Defect: a name that is taken is reported and the deployment goes on.
TakenGoesOn(w) == "linking"
\* A name that is taken ends the deployment; its account stays behind.
TakenEnds(w) == "open"

CreateWorkflow(w) ==
  /\ At(w) = "storing"
  /\ LET d == window[w].deploy
         taken == \E i \in DOMAIN workflows : workflows[i].name = d.name
     IN IF taken
        THEN window' = Go(w, TakenEnds(w)) /\ UNCHANGED workflows
        ELSE /\ workflows' = Append(workflows, [name |-> d.name, bound |-> d.bound, by |-> d.account])
             /\ window' = [window EXCEPT ![w].deploy = [d EXCEPT !.at = "linking", !.workflow = Len(workflows) + 1]]
  /\ UNCHANGED <<accounts, flying>>

\* An error of the update is not looked at: the deployment goes on unlinked.
LinkAccount(w, written) ==
  /\ At(w) = "linking"
  /\ LET d == window[w].deploy
     IN accounts' = IF written THEN [accounts EXCEPT ![d.account].workflow = d.workflow] ELSE accounts
  /\ window' = Reloaded(w, "paying", accounts')
  /\ UNCHANGED <<workflows, flying>>

(***************************************************************************)
(* Deposits                                                                *)
(***************************************************************************)
\* The transfer is signed and sent, for the amount typed in or by Add Funds.
SendTransfer(w) ==
  /\ At(w) \in {"paying", "done"}
  /\ LET a == window[w].deploy.account
     IN accounts[a].deposits < MaxDeposit /\ a \notin flying /\ flying' = flying \cup {a}
  /\ window' = Go(w, "confirming")
  /\ UNCHANGED <<workflows, accounts>>

\* No amount, too little for the rent, no wallet, or rejected; or the confirmation failed.
SkipTransfer(w) ==
  /\ At(w) \in {"paying", "confirming"}
  /\ window' = Go(w, "done")
  /\ UNCHANGED <<workflows, accounts, flying>>

Land(a) ==
  /\ a \in flying
  /\ flying' = flying \ {a}
  /\ accounts' = [accounts EXCEPT ![a].deposits = @ + 1]
  /\ UNCHANGED <<workflows, window>>

Drop(a) ==
  /\ a \in flying
  /\ flying' = flying \ {a}
  /\ UNCHANGED <<workflows, accounts, window>>

ConfirmTransfer(w) ==
  /\ At(w) = "confirming" /\ window[w].deploy.account \notin flying
  /\ window' = Go(w, "done")
  /\ UNCHANGED <<workflows, accounts, flying>>

(***************************************************************************)
(* The account of a stored strategy                                        *)
(***************************************************************************)
SetStatus(a, status) == [accounts EXCEPT ![a].status = status]

\* The account the window shows for a workflow: the first one linked to it.
Linked(w, i) == {a \in DOMAIN Shown(w) : /\ Shown(w)[a].workflow = i
                                         /\ \A b \in 1 .. (a - 1) : Shown(w)[b].workflow # i}

\* Defect: a strategy is started whatever the list says.
Any(row) == TRUE
\* What the list says of the account decides; the update has no such condition.
NotClosed(row) == row.status # "closed"

\* The overlay, after the deployment; it knows the account and looks at nothing.
ActivateDeployed(w) ==
  /\ At(w) = "done"
  /\ accounts' = SetStatus(window[w].deploy.account, "active")
  /\ window' = [window EXCEPT ![w] = [deploy |-> Closed, shown |-> Listed(accounts')]]
  /\ UNCHANGED <<workflows, flying>>

Start(w, i) ==
  /\ At(w) = "closed"
  /\ \E a \in Linked(w, i) :
       /\ NotClosed(Shown(w)[a])
       /\ accounts' = SetStatus(a, "active")
  /\ window' = Reloaded(w, "closed", accounts')
  /\ UNCHANGED <<workflows, flying>>

Pause(w, i) ==
  /\ At(w) = "closed"
  /\ \E a \in Linked(w, i) :
       /\ NotClosed(Shown(w)[a])
       /\ accounts' = SetStatus(a, "inactive")
  /\ window' = Reloaded(w, "closed", accounts')
  /\ UNCHANGED <<workflows, flying>>

Archive(w, i) ==
  /\ At(w) = "closed"
  /\ \E a \in Linked(w, i) : accounts' = SetStatus(a, "closed")
  /\ window' = Reloaded(w, "closed", accounts')
  /\ UNCHANGED <<workflows, flying>>

\* The page transfers to the address it shows for the strategy.
Deposit(w, i) ==
  /\ At(w) = "closed"
  /\ \E a \in Linked(w, i) :
       accounts[a].deposits < MaxDeposit /\ a \notin flying /\ flying' = flying \cup {a}
  /\ UNCHANGED <<workflows, accounts, window>>

\* A withdrawal is asked of the service for at most what the chain shows.
Withdraw(w, i) ==
  /\ At(w) = "closed"
  /\ \E a \in Linked(w, i) :
       accounts[a].deposits > 0 /\ accounts' = Withdrawn(a)
  /\ window' = Reloaded(w, "closed", accounts')
  /\ UNCHANGED <<workflows, flying>>

\* The page is opened or reloaded.
Reload(w) ==
  /\ At(w) = "closed" /\ window' = Reloaded(w, "closed", accounts)
  /\ UNCHANGED <<workflows, accounts, flying>>

Next ==
  \/ \E w \in Windows :
       \/ \E n \in Names : OpenOverlay(w, n)
       \/ CloseOverlay(w) \/ UpsertCanvas(w) \/ Stop(w)
       \/ \E heard \in BOOLEAN : InitWallet(w, heard)
       \/ GetActiveAccountId(w) \/ CreateWorkflow(w)
       \/ \E written \in BOOLEAN : LinkAccount(w, written)
       \/ SendTransfer(w) \/ SkipTransfer(w) \/ ConfirmTransfer(w)
       \/ ActivateDeployed(w) \/ Reload(w)
       \/ \E i \in DOMAIN workflows : Start(w, i) \/ Pause(w, i) \/ Archive(w, i) \/ Deposit(w, i) \/ Withdraw(w, i)
  \/ \E a \in flying : Land(a) \/ Drop(a)

Spec == Init /\ [][Next]_vars

(***************************************************************************)
(* Properties                                                              *)
(***************************************************************************)
\* The types of the rows and of the windows.
TypeOK ==
  /\ \A i \in DOMAIN workflows : workflows[i] \in [name : Names, bound : DOMAIN accounts, by : DOMAIN accounts]
  /\ \A a \in DOMAIN accounts : accounts[a] \in
       [status : {"active", "inactive", "closed"}, workflow : {0} \cup DOMAIN workflows, deposits : 0 .. MaxDeposit]
  /\ flying \subseteq DOMAIN accounts
  /\ \A w \in Windows : window[w].deploy.account \in {0} \cup DOMAIN accounts /\ Len(Shown(w)) <= Len(accounts)

\* Money follows the strategy: an account is funded, linked or started only when the
\* deployment that made it also stored its strategy, so an attempt that failed half
\* way leaves an idle, empty account behind and nothing that runs.
FundedIsStored ==
  \A a \in DOMAIN accounts :
    accounts[a].deposits > 0 \/ a \in flying \/ accounts[a].workflow # 0 \/ accounts[a].status # "inactive" =>
      \E i \in DOMAIN workflows : workflows[i].by = a /\ accounts[a].workflow \in {0, i}

\* Of every step. "This account is closed and cannot be reactivated.": a closed account is started
\* again only from a window that last saw it open.
ReopenedUnseen ==
  \A a \in DOMAIN accounts :
    accounts[a].status = "closed" /\ accounts'[a].status # "closed" =>
      \E w \in Windows : a \in DOMAIN Shown(w) /\ Shown(w)[a].status # "closed"
=============================================================================
