--------------------------- MODULE MakerActivation ---------------------------
(***************************************************************************)
(* The dialog that ships a Maker's liquidity (MakerActivation.tsx): a plan *)
(* is prepared under an id of the browser's, approvals and the shipment    *)
(* are signed by the wallet, awaited and, for a shipment, confirmed to the *)
(* service.  What is under way is kept in a ref and, as a whole, in local  *)
(* storage under one key for every window and every mount of the dialog.   *)
(* Each request, the wallet and the chain answer late, fail, or find the   *)
(* dialog closed.  The service is Activations' subject.                    *)
(***************************************************************************)
EXTENDS Naturals

CONSTANTS
  Windows,  \* tabs, or mounts of the dialog one after another
  Plans,    \* ids drawn by crypto.randomUUID
  Amounts,  \* the allocations a Maker may enter
  Hashes,
  None

VARIABLES
  service,  \* plan -> None or its amounts and the shipment confirmed for it
  chain,    \* hash -> None or the transaction
  saved,    \* local storage
  current,  \* window -> the ref: None or the id, amounts and pending transaction
  shown,    \* window -> the plan shown, pending and ready
  step,     \* window -> what it is doing, busy unless closed or idle
  lost      \* hashes no window and no storage knows any more, by a cause named below

vars == <<service, chain, saved, current, shown, step, lost>>

Blank == [plan |-> None, pending |-> None, ready |-> FALSE]
Doing(what) == [is |-> what, kind |-> None, hash |-> None]
Pending(w) == IF current[w] = None THEN None ELSE current[w].pending

Init ==
  /\ service = [p \in Plans |-> None] /\ chain = [h \in Hashes |-> None] /\ saved = None
  /\ current = [w \in Windows |-> None] /\ shown = [w \in Windows |-> Blank]
  /\ step = [w \in Windows |-> Doing("closed")] /\ lost = {}

Goes(w, what) == step' = [step EXCEPT ![w] = Doing(what)]

\* Storage takes the whole ref, or refuses it; what another window noted is gone.
Remember(w, value) ==
  LET written == IF saved = None \/ saved.pending \in {None, Pending(w)} THEN {} ELSE {saved.pending.hash}
  IN \/ saved' = value /\ lost' = lost \cup written
     \/ value # None /\ saved' = saved /\ lost' = lost

\* A request, the wallet or the chain fails, or what it answers is refused: the error
\* is shown and the window is free again.
Fail(w) ==
  /\ step[w].is \notin {"closed", "idle", "sent"} /\ Goes(w, "idle")
  /\ UNCHANGED <<service, chain, saved, current, shown, lost>>

\* The window closes; what only it knew is lost.
Close(w) ==
  /\ step[w].is # "closed" /\ Goes(w, "closed")
  /\ current' = [current EXCEPT ![w] = None] /\ shown' = [shown EXCEPT ![w] = Blank]
  /\ lost' = lost \cup (IF step[w].is = "sent" THEN {step[w].hash} ELSE {})
                  \cup (IF Pending(w) = None \/ (saved # None /\ saved.pending = Pending(w)) THEN {} ELSE {Pending(w).hash})
  /\ UNCHANGED <<service, chain, saved>>

(***************************************************************************)
(* Opening, preparing, editing                                             *)
(***************************************************************************)
\* The ref and the pending transaction come back at once, the plan with the answer.
Open(w) ==
  /\ step[w].is = "closed"
  /\ current' = [current EXCEPT ![w] = saved]
  /\ shown' = [shown EXCEPT ![w].pending = IF saved = None THEN None ELSE saved.pending]
  /\ Goes(w, IF saved = None THEN "idle" ELSE "loading")
  /\ UNCHANGED <<service, chain, saved, lost>>

\* A plan answered is shown if its amounts are those of the ref.
Valid(w, p) == service[p] # None /\ service[p].amounts = current[w].amounts
Show(w, p) ==
  shown' = [shown EXCEPT ![w].plan = p, ![w].ready = service[p].shipped # None]

Load(w) ==
  /\ step[w].is = "loading" /\ Valid(w, current[w].id) /\ Show(w, current[w].id) /\ Goes(w, "idle")
  /\ UNCHANGED <<service, chain, saved, current, lost>>

\* The buttons that read the plan again: refresh balances, restore what is pending.
Refresh(w) ==
  /\ step[w].is = "idle" /\ current[w] # None /\ shown[w] # Blank
  /\ Goes(w, "loading")
  /\ UNCHANGED <<service, chain, saved, current, shown, lost>>

\* Other amounts are another plan; the same ones ask again for the id at hand.
Fresh(p) == service[p] = None /\ \A w \in Windows : current[w] # None => current[w].id # p
Prepare(w, a, p) ==
  /\ step[w].is = "idle" /\ shown[w].plan = None /\ shown[w].pending = None
  /\ IF current[w] # None /\ current[w].amounts = a THEN p = current[w].id ELSE Fresh(p)
  /\ current' = IF current[w] # None /\ current[w].amounts = a THEN current
                ELSE [current EXCEPT ![w] = [id |-> p, amounts |-> a, pending |-> None]]
  /\ Goes(w, "preparing")
  /\ UNCHANGED <<service, chain, saved, shown, lost>>

\* The service stores the plan, whether or not the window hears of it.
Create(w) ==
  LET p == current[w].id
  IN /\ step[w].is = "preparing" /\ service[p] = None
     /\ service' = [service EXCEPT ![p] = [amounts |-> current[w].amounts, shipped |-> None]]
     /\ UNCHANGED <<chain, saved, current, shown, step, lost>>

Prepared(w) ==
  /\ step[w].is = "preparing" /\ Valid(w, current[w].id)
  /\ Remember(w, current[w]) /\ Goes(w, "loading")
  /\ UNCHANGED <<service, chain, current, shown>>

Editable(w) == ~shown[w].ready /\ shown[w].pending = None

EditAllocation(w) ==
  /\ step[w].is = "idle" /\ shown[w].plan # None /\ Editable(w)
  /\ current' = [current EXCEPT ![w] = None] /\ shown' = [shown EXCEPT ![w] = Blank]
  /\ Remember(w, None)
  /\ UNCHANGED <<service, chain, step>>

(***************************************************************************)
(* Signing, awaiting, confirming                                           *)
(***************************************************************************)
\* The plan is read first: one that was shipped is not signed again.
Sign(w, kind) ==
  /\ step[w].is = "idle" /\ shown[w].plan # None /\ ~shown[w].ready /\ shown[w].pending = None
  /\ Valid(w, shown[w].plan) /\ Show(w, shown[w].plan)
  /\ step' = [step EXCEPT ![w] = IF service[shown[w].plan].shipped # None THEN Doing("idle")
                                 ELSE [Doing("signing") EXCEPT !.kind = kind]]
  /\ UNCHANGED <<service, chain, saved, current, lost>>

\* The wallet sends the transaction before the window hears its hash.
Submit(w, h) ==
  /\ step[w].is = "signing" /\ chain[h] = None
  /\ chain' = [chain EXCEPT ![h] = [plan |-> shown[w].plan, kind |-> step[w].kind, status |-> "sent"]]
  /\ step' = [step EXCEPT ![w].is = "sent", ![w].hash = h]
  /\ UNCHANGED <<service, saved, current, shown, lost>>

Submitted(w) ==
  LET next == [kind |-> step[w].kind, hash |-> step[w].hash]
  IN /\ step[w].is = "sent"
     /\ current' = [current EXCEPT ![w].pending = next] /\ shown' = [shown EXCEPT ![w].pending = next]
     /\ Remember(w, [current[w] EXCEPT !.pending = next])
     /\ Goes(w, "waiting")
     /\ UNCHANGED <<service, chain>>

Retry(w) ==
  /\ step[w].is = "idle" /\ shown[w].plan # None /\ ~shown[w].ready /\ shown[w].pending # None
  /\ Goes(w, "waiting")
  /\ UNCHANGED <<service, chain, saved, current, shown, lost>>

Clear(w) ==
  /\ current' = [current EXCEPT ![w].pending = None] /\ shown' = [shown EXCEPT ![w].pending = None]
  /\ Remember(w, [current[w] EXCEPT !.pending = None])

\* The receipt: a transaction that reverted is forgotten, a shipment is confirmed.
Receipt(w) ==
  LET status == chain[shown[w].pending.hash].status
  IN /\ step[w].is = "waiting" /\ status # "sent"
     /\ IF shown[w].pending.kind = "ship" /\ status = "ok"
        THEN Goes(w, "confirming") /\ UNCHANGED <<saved, current, shown, lost>>
        ELSE Clear(w) /\ Goes(w, IF status = "ok" THEN "loading" ELSE "idle")
     /\ UNCHANGED <<service, chain>>

Confirm(w) ==
  LET p == shown[w].plan
  IN /\ step[w].is = "confirming" /\ service[p].shipped = None
     /\ service' = [service EXCEPT ![p].shipped = shown[w].pending.hash]
     /\ UNCHANGED <<chain, saved, current, shown, step, lost>>

Confirmed(w) ==
  /\ step[w].is = "confirming" /\ service[shown[w].plan].shipped = shown[w].pending.hash
  /\ Clear(w) /\ Goes(w, "loading")
  /\ UNCHANGED <<service, chain>>

\* Aqua takes one shipment of a strategy; a second one reverts.
Shipped(p) == \E h \in Hashes : chain[h] # None /\ chain[h].plan = p /\ chain[h].kind = "ship" /\ chain[h].status = "ok"
Mine(h, status) ==
  /\ chain[h] # None /\ chain[h].status = "sent"
  /\ (chain[h].kind = "ship" /\ status = "ok" => ~Shipped(chain[h].plan))
  /\ chain' = [chain EXCEPT ![h].status = status]
  /\ UNCHANGED <<service, saved, current, shown, step, lost>>

Next ==
  \/ \E w \in Windows :
       \/ Fail(w) \/ Close(w) \/ Open(w) \/ Load(w) \/ Refresh(w) \/ Create(w) \/ Prepared(w) \/ EditAllocation(w)
       \/ Submitted(w) \/ Retry(w) \/ Receipt(w) \/ Confirm(w) \/ Confirmed(w)
       \/ \E a \in Amounts, p \in Plans : Prepare(w, a, p)
       \/ \E kind \in {"approval", "ship"} : Sign(w, kind)
       \/ \E h \in Hashes : Submit(w, h)
  \/ \E h \in Hashes, status \in {"ok", "reverted"} : Mine(h, status)

Spec == Init /\ [][Next]_vars

----------------------------------------------------------------------------
Transactions == [kind : {"approval", "ship"}, hash : Hashes] \cup {None}
Refs == [id : Plans, amounts : Amounts, pending : Transactions] \cup {None}
TypeOK ==
  /\ saved \in Refs /\ \A w \in Windows : current[w] \in Refs
  /\ \A w \in Windows : shown[w].plan \in Plans \cup {None} /\ shown[w].pending \in Transactions
  /\ \A w \in Windows : shown[w].pending = Pending(w)

\* The plan shown is the one the ref stands for, and the transaction it awaits is one
\* signed for that plan, whatever was restored, edited or answered late.
PlanIsItsOwn ==
  \A w \in Windows :
    /\ shown[w].plan # None => current[w] # None /\ current[w].id = shown[w].plan /\ Valid(w, shown[w].plan)
    /\ Pending(w) # None =>
         chain[Pending(w).hash] # None /\ chain[Pending(w).hash].plan = current[w].id /\ chain[Pending(w).hash].kind = Pending(w).kind

\* Liquidity counts as added only where the chain took it; and a shipment on its way or
\* mined is confirmed or still known, unless its window closed before noting it or
\* another window noted something else in its place.
ShipmentsAreAccounted ==
  /\ \A p \in Plans : service[p] # None /\ service[p].shipped # None =>
       LET tx == chain[service[p].shipped] IN tx.plan = p /\ tx.kind = "ship" /\ tx.status = "ok"
  /\ \A w \in Windows : shown[w].ready => Shipped(shown[w].plan)
  /\ \A h \in Hashes : chain[h] # None /\ chain[h].kind = "ship" /\ chain[h].status # "reverted" =>
       \/ service[chain[h].plan].shipped = h \/ h \in lost
       \/ \E w \in Windows : step[w].hash = h \/ (Pending(w) # None /\ Pending(w).hash = h)
       \/ saved # None /\ saved.pending # None /\ saved.pending.hash = h
=============================================================================
