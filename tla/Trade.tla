-------------------------------- MODULE Trade --------------------------------
(***************************************************************************)
(* The trading page: the swap form and, on the same page, the check that   *)
(* sends a swap on purpose while the strategy is inactive to obtain a       *)
(* public rejection receipt.  Each remembers the transaction it sent in     *)
(* component state and in a localStorage key of its own, and waits for it   *)
(* over awaits during which the wallet may change, the receipt may time     *)
(* out and the page may be reloaded.                                        *)
(***************************************************************************)
EXTENDS Naturals, FiniteSets

CONSTANTS Wallets,     \* wallets connected to the page
          Strategies,  \* executable strategies of the catalog
          Hashes,      \* transactions that may be sent
          None

VARIABLES form,      \* [wallet, strategy]: what the fieldset has selected
          trade,     \* [quote, pending, inactive, at]: the swap form
          check,     \* [pending, completed, at]: the blocked-swap check
          kept,      \* the two localStorage keys
          sent,      \* hash -> the transaction the wallet sent, with its state
          active,    \* the strategies the Guard lets trade now
          recorded,  \* <<hash, outcome>> reported to the mandate service
          lost       \* transactions a closed page had not stored

vars == <<form, trade, check, kept, sent, active, recorded, lost>>

Item(h) == [hash |-> h, kind |-> sent[h].kind, wallet |-> sent[h].wallet]
Used == {h \in Hashes : sent[h] # None}
Choice == [wallet : Wallets, strategy : Strategies]

NoTrade == [quote |-> None, pending |-> None, inactive |-> None, at |-> None]
NoCheck == [pending |-> None, completed |-> None, at |-> None]

Init == /\ form \in Choice /\ trade = NoTrade /\ check = NoCheck
        /\ kept = [trade |-> None, check |-> None]
        /\ sent = [h \in Hashes |-> None] /\ active = Strategies
        /\ recorded = {} /\ lost = {}

(***************************************************************************)
(* Buttons.  The form and its buttons wait for their own transaction and    *)
(* for the check's; the check is offered only beside an idle form whose     *)
(* last attempt met an inactive strategy.                                   *)
(***************************************************************************)
\* Defect: the form is locked by its own transaction only.
OwnOnly == trade.at = None /\ trade.pending = None
Free == trade.at = None /\ trade.pending = None /\ check.at = None /\ check.pending = None
Available == /\ trade.at = None /\ trade.pending = None
             /\ trade.inactive = form.strategy

(***************************************************************************)
(* The form.                                                                *)
(***************************************************************************)
Select(c) == /\ Free /\ form' = c
             /\ trade' = [trade EXCEPT !.quote = None,
                            !.inactive = IF c.strategy = form.strategy THEN @ ELSE None]
             /\ check' = [check EXCEPT !.completed = IF c.strategy = form.strategy THEN @ ELSE None]
             /\ UNCHANGED <<kept, sent, active, recorded, lost>>

\* The selected wallet disconnects: the page moves to another, whatever is running.
WalletLeaves(w) == /\ w # form.wallet /\ form' = [form EXCEPT !.wallet = w]
                   /\ trade' = [trade EXCEPT !.quote = None]
                   /\ UNCHANGED <<check, kept, sent, active, recorded, lost>>

Waits(step) == trade.at # None /\ trade.at.step = step
Review == /\ Free
          /\ trade' = [trade EXCEPT !.at = [step |-> "review", for |-> form],
                         !.quote = None, !.inactive = None]
          /\ UNCHANGED <<form, check, kept, sent, active, recorded, lost>>
Quoted(approve) ==
  /\ Waits("review") /\ trade.at.for.strategy \in active
  /\ trade' = [trade EXCEPT !.at = None, !.quote = [for |-> trade.at.for, approve |-> approve]]
  /\ UNCHANGED <<form, check, kept, sent, active, recorded, lost>>
Refused ==
  /\ Waits("review") \/ Waits("sign")
  /\ trade' = [trade EXCEPT !.at = None,
                 !.inactive = IF trade.at.for.strategy \in active THEN None ELSE form.strategy]
  /\ UNCHANGED <<form, check, kept, sent, active, recorded, lost>>
Expires == /\ trade.at = None /\ trade.quote # None /\ trade' = [trade EXCEPT !.quote = None]
           /\ UNCHANGED <<form, check, kept, sent, active, recorded, lost>>

Sign == /\ Free /\ trade.quote # None /\ trade.quote.for = form
        /\ trade' = [trade EXCEPT !.inactive = None,
             !.at = [step |-> "sign", for |-> form, approve |-> trade.quote.approve]]
        /\ UNCHANGED <<form, check, kept, sent, active, recorded, lost>>

Sends(h, kind, for) ==
  /\ h \notin Used
  /\ sent' = [sent EXCEPT ![h] = [kind |-> kind, wallet |-> for.wallet, state |-> "out"]]
WriteContract(h) ==
  /\ Waits("sign") /\ (trade.at.approve \/ trade.at.for.strategy \in active)
  /\ Sends(h, IF trade.at.approve THEN "approval" ELSE "swap", trade.at.for)
  /\ trade' = [trade EXCEPT !.at = [step |-> "sent", hash |-> h]]
  /\ UNCHANGED <<form, check, kept, active, recorded, lost>>
\* setItem may throw: the receipt then stays in memory only.
Remember == /\ Waits("sent")
            /\ LET item == Item(trade.at.hash)
               IN /\ trade' = [trade EXCEPT !.pending = item, !.at = [step |-> "confirm"]]
                  /\ kept' \in {[kept EXCEPT !.trade = item], kept}
            /\ UNCHANGED <<form, check, sent, active, recorded, lost>>

CheckConfirmation == /\ trade.at = None /\ trade.pending # None
                     /\ trade' = [trade EXCEPT !.at = [step |-> "confirm"]]
                     /\ UNCHANGED <<form, check, kept, sent, active, recorded, lost>>
Forget == /\ kept' = [kept EXCEPT !.trade = None]
          /\ trade' = [trade EXCEPT !.pending = None, !.quote = None, !.at = None]
\* The receipt: a revert ends the attempt, a settled swap of a mandate is reported first.
Receipt == /\ Waits("confirm") /\ sent[trade.pending.hash].state # "out"
           /\ IF sent[trade.pending.hash].state = "good" /\ trade.pending.kind = "swap"
              THEN trade' = [trade EXCEPT !.at = [step |-> "record"]] /\ UNCHANGED kept
              ELSE Forget
           /\ UNCHANGED <<form, check, sent, active, recorded, lost>>
Recorded == /\ Waits("record") /\ Forget
            /\ recorded' = recorded \union {<<trade.pending.hash, "settled">>}
            /\ UNCHANGED <<form, check, sent, active, lost>>
\* A timeout, or an answer that never came: the transaction stays pending.
GivesUp == /\ Waits("confirm") \/ Waits("record")
           /\ trade' = [trade EXCEPT !.at = None]
           /\ \/ UNCHANGED recorded
              \/ /\ Waits("record")
                 /\ recorded' = recorded \union {<<trade.pending.hash, "settled">>}
           /\ UNCHANGED <<form, check, kept, sent, active, lost>>

(***************************************************************************)
(* The blocked-swap check.                                                  *)
(***************************************************************************)
Checks(step) == check.at # None /\ check.at.step = step
Submit == /\ Available /\ check.at = None /\ check.pending = None /\ check.completed = None
          /\ check' = [check EXCEPT !.at = [step |-> "submit", for |-> form]]
          /\ UNCHANGED <<form, trade, kept, sent, active, recorded, lost>>
SubmitFails == /\ Checks("submit") /\ check' = [check EXCEPT !.at = None]
               /\ UNCHANGED <<form, trade, kept, sent, active, recorded, lost>>
CheckSends(h, kind) ==
  /\ Checks("submit") /\ check.at.for.strategy \notin active
  /\ Sends(h, kind, check.at.for)
  /\ check' = [check EXCEPT !.at = [step |-> "sent", hash |-> h]]
  /\ UNCHANGED <<form, trade, kept, active, recorded, lost>>
CheckRemembers ==
  /\ Checks("sent")
  /\ LET item == Item(check.at.hash)
     IN /\ check' = [check EXCEPT !.pending = item, !.at = [step |-> "confirm"]]
        /\ kept' \in {[kept EXCEPT !.check = item], kept}
  /\ UNCHANGED <<form, trade, sent, active, recorded, lost>>
CheckReceiptAgain == /\ check.at = None /\ check.pending # None
                     /\ check' = [check EXCEPT !.at = [step |-> "confirm"]]
                     /\ UNCHANGED <<form, trade, kept, sent, active, recorded, lost>>
Rejected(tx) == tx.state = "bad"
CheckReceipt ==
  /\ Checks("confirm")
  /\ LET tx == sent[check.pending.hash]
     IN \/ /\ tx.state # "out" /\ tx.kind = "approval"
           /\ check' = [check EXCEPT !.pending = None, !.at = None]
           /\ kept' = [kept EXCEPT !.check = None] /\ UNCHANGED recorded
        \/ /\ Rejected(tx) /\ tx.kind = "swap"
           /\ recorded' = recorded \union {<<check.pending.hash, "rejected">>}
           /\ check' = [pending |-> None, completed |-> check.pending.hash, at |-> None]
           /\ kept' = [kept EXCEPT !.check = None]
        \/ /\ check' = [check EXCEPT !.at = None] /\ UNCHANGED <<kept, recorded>>
  /\ UNCHANGED <<form, trade, sent, active, lost>>

(***************************************************************************)
(* The chain, the Guard and the browser.                                    *)
(***************************************************************************)
Land(h, state) == /\ h \in Used /\ sent[h].state = "out"
                  /\ sent' = [sent EXCEPT ![h].state = state]
                  /\ UNCHANGED <<form, trade, check, kept, active, recorded, lost>>
Switch(s) == /\ active' = IF s \in active THEN active \ {s} ELSE active \union {s}
             /\ UNCHANGED <<form, trade, check, kept, sent, recorded, lost>>
Reload(c) == /\ form' = c
             /\ trade' = [NoTrade EXCEPT !.pending = kept.trade]
             /\ check' = [NoCheck EXCEPT !.pending = kept.check]
             /\ lost' = lost \union {h \in Used : /\ sent[h].state = "out"
                          /\ \A k \in {"trade", "check"} : kept[k] # None => kept[k].hash # h}
             /\ UNCHANGED <<kept, sent, active, recorded>>

Next ==
  \/ \E c \in Choice : Select(c) \/ Reload(c)
  \/ \E w \in Wallets : WalletLeaves(w)
  \/ Review \/ Refused \/ Expires \/ Sign \/ Remember
  \/ \E approve \in BOOLEAN : Quoted(approve)
  \/ CheckConfirmation \/ Receipt \/ Recorded \/ GivesUp
  \/ Submit \/ SubmitFails \/ CheckRemembers \/ CheckReceiptAgain \/ CheckReceipt
  \/ \E h \in Hashes : \/ WriteContract(h)
                       \/ \E kind \in {"approval", "swap"} : CheckSends(h, kind)
                       \/ \E state \in {"good", "bad"} : Land(h, state)
  \/ \E s \in Strategies : Switch(s)

Spec == Init /\ [][Next]_vars

(***************************************************************************)
(* Properties.                                                              *)
(***************************************************************************)
TypeOK ==
  /\ form \in Choice
  /\ trade.pending # None => trade.pending.hash \in Used
  /\ check.pending # None => check.pending.hash \in Used
  /\ \A h \in Used : sent[h].state \in {"out", "good", "bad"}
  /\ lost \subseteq Used

\* The page never has two transactions on their way: neither half sends one
\* while the other's is unresolved, through receipt timeouts, changed wallets
\* and reloads.  A transaction the page had no time to store before it was
\* closed is the exception the browser leaves (lost).
OneOut == Cardinality({h \in Used \ lost : sent[h].state = "out"}) <= 1

\* What is reported to the mandate service is what the chain did: a settlement
\* is a swap that succeeded, a rejection one that reverted.
ReportedIsMined ==
  \A r \in recorded : /\ sent[r[1]].kind = "swap"
                      /\ sent[r[1]].state = IF r[2] = "settled" THEN "good" ELSE "bad"
=============================================================================
