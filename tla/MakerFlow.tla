------------------------------ MODULE MakerFlow -------------------------------
(***************************************************************************)
(* The page on which a Maker sets up liquidity and looks after it          *)
(* (marketplace/MakerFlow.tsx).  Its address links to a strategy to set    *)
(* up, to a mandate to look at, or to neither; one effect follows the      *)
(* strategy and the wallet in use, another the mandate and the wallets of  *)
(* the account.  What an effect asked for is dropped when it runs again;   *)
(* what a button asked for is answered whenever it comes: a refreshed      *)
(* mandate, an activation found ready, limits that were submitted.         *)
(***************************************************************************)
EXTENDS Naturals, FiniteSets

CONSTANTS
  Wallets, Strategies, Mandates,
  Existing,     \* the mandates there are at first
  MaxRequests,  \* bound: buttons' requests under way at a time
  None

VARIABLES
  link,          \* the address: a strategy, a mandate, or neither
  account,       \* the wallets of the account, none when signed out, and the one in use
  phase,
  selected,      \* the strategy chosen, with the wallet it was looked up for or the mandate it is of
  editing,       \* editingExisting
  mandate,       \* the one shown
  refreshing,
  restored,      \* restoredMaker: the wallets and the mandate last opened
  strategyLoad,  \* the effects' requests under way
  mandateLoad,
  refreshes,     \* the buttons' requests under way: mandates refreshed,
  confirming,    \* activations looked up,
  submits,       \* limits submitted
  made,          \* mandate -> None or its maker and its strategy
  stray          \* a button's answer came when something else was shown

vars == <<link, account, phase, selected, editing, mandate, refreshing, restored, strategyLoad, mandateLoad,
          refreshes, confirming, submits, made, stray>>

Nowhere == [strategy |-> None, mandate |-> None]
Links == {[strategy |-> s, mandate |-> None] : s \in Strategies \cup {None}}
         \cup {[strategy |-> None, mandate |-> m] : m \in {m \in Mandates : made[m] # None}}
Accounts == {a \in [linked : SUBSET Wallets, active : Wallets \cup {None}] : a.active \in a.linked \cup {None}}
SignedIn(a) == a.linked # {}
Choice(s, w, m, ready) == [strategy |-> s, wallet |-> w, mandate |-> m, ready |-> ready]

Init ==
  /\ link = Nowhere /\ account = [linked |-> {}, active |-> None] /\ phase = "choose" /\ selected = None
  /\ editing = FALSE /\ mandate = None /\ refreshing = FALSE /\ restored = None
  /\ strategyLoad = None /\ mandateLoad = None /\ refreshes = {} /\ confirming = {} /\ submits = {}
  /\ made \in {f \in [Mandates -> [maker : Wallets, strategy : Strategies] \cup {None}] :
                 \A m \in Mandates : f[m] # None <=> m \in Existing}
  /\ stray = FALSE

(***************************************************************************)
(* The effects, on a change of the address or the account                  *)
(***************************************************************************)
Opening(l, a) == l.strategy # None /\ a.active # None
FollowsStrategy(l, a) ==
  IF <<l.strategy, SignedIn(a), a.active>> = <<link.strategy, SignedIn(account), account.active>>
  THEN UNCHANGED <<strategyLoad, selected>>
  ELSE /\ strategyLoad' = IF Opening(l, a) THEN [strategy |-> l.strategy, wallet |-> a.active] ELSE None
       /\ selected' = IF Opening(l, a) \/ (l.strategy = None /\ link.strategy # None) THEN None ELSE selected

\* A mandate that was opened with these wallets is not read again.
Restored(l, a, r) == r # None /\ r = [linked |-> a.linked, mandate |-> l.mandate]
FollowsMandate(l, a, s) ==
  IF <<l, a.linked>> = <<link, account.linked>>
  THEN mandate' = s.mandate /\ editing' = s.editing /\ UNCHANGED <<refreshing, restored, mandateLoad>>
  ELSE /\ mandate' = IF l.mandate = None \/ ~SignedIn(a) THEN None ELSE s.mandate
       /\ editing' = (l.mandate # None /\ s.editing)
       /\ restored' = IF l.mandate = None \/ ~SignedIn(a) THEN None ELSE restored
       /\ LET reads == l.mandate # None /\ SignedIn(a) /\ ~Restored(l, a, restored)
          IN /\ mandateLoad' = IF reads THEN l.mandate ELSE None
             /\ refreshing' = (reads \/ (refreshing /\ l.mandate # None))

Moves(l, a, s) ==
  /\ link' = l /\ account' = a
  /\ FollowsStrategy(l, a) /\ FollowsMandate(l, a, s)
  /\ phase' = IF \/ l.strategy = None /\ link.strategy # None
                 \/ <<l, a.linked>> # <<link, account.linked>> /\ l.mandate = None /\ l.strategy = None
                 \/ l.mandate # None /\ ~SignedIn(a)
              THEN "choose" ELSE s.phase

Now == [phase |-> phase, mandate |-> mandate, editing |-> editing]
Follow(l) == l # link /\ Moves(l, account, Now) /\ UNCHANGED <<refreshes, confirming, submits, made, stray>>
Switch(a) == a # account /\ Moves(link, a, Now) /\ UNCHANGED <<refreshes, confirming, submits, made, stray>>

StrategyLoaded(executable) ==
  /\ strategyLoad # None /\ strategyLoad' = None
  /\ selected' = Choice(strategyLoad.strategy, strategyLoad.wallet, None, executable)
  /\ phase' = IF executable THEN "limits" ELSE "activate"
  /\ UNCHANGED <<link, account, editing, mandate, refreshing, restored, mandateLoad, refreshes, confirming, submits, made, stray>>

StrategyFails ==
  /\ strategyLoad # None /\ strategyLoad' = None
  /\ UNCHANGED <<link, account, phase, selected, editing, mandate, refreshing, restored, mandateLoad, refreshes, confirming,
                 submits, made, stray>>

\* A mandate of a wallet that is not of the account is refused.
MandateLoaded ==
  /\ mandateLoad # None /\ made[mandateLoad].maker \in account.linked
  /\ restored' = [linked |-> account.linked, mandate |-> mandateLoad]
  /\ mandate' = mandateLoad /\ selected' = None /\ phase' = "monitor"
  /\ mandateLoad' = None /\ refreshing' = FALSE
  /\ UNCHANGED <<link, account, editing, strategyLoad, refreshes, confirming, submits, made, stray>>

MandateFails ==
  /\ mandateLoad # None /\ mandateLoad' = None /\ refreshing' = FALSE
  /\ UNCHANGED <<link, account, phase, selected, editing, mandate, restored, strategyLoad, refreshes, confirming, submits,
                 made, stray>>

(***************************************************************************)
(* The buttons, while no loading screen covers them                        *)
(***************************************************************************)
Covered == (phase = "choose" /\ link # Nowhere) \/ strategyLoad # None

MayAsk == Cardinality(refreshes) + Cardinality(confirming) + Cardinality(submits) < MaxRequests

Goes(from, to) ==
  /\ ~Covered /\ phase = from /\ phase' = to
  /\ UNCHANGED <<link, account, selected, mandate, refreshing, restored, strategyLoad, mandateLoad, refreshes, confirming,
                 submits, made, stray>>

SavePolicy == selected # None /\ Goes("limits", "review") /\ UNCHANGED editing
EditAgain == Goes("review", "limits") /\ UNCHANGED editing
Overview == editing /\ Goes("limits", "monitor") /\ editing' = FALSE

\* To the details of the strategy: another page, whose way back is a new link.
Details ==
  /\ ~Covered /\ phase \in {"activate", "limits"} /\ ~editing /\ selected # None
  /\ link' = Nowhere /\ phase' = "choose" /\ selected' = None /\ mandate' = None /\ refreshing' = FALSE /\ restored' = None
  /\ strategyLoad' = None /\ mandateLoad' = None /\ refreshes' = {} /\ confirming' = {} /\ submits' = {}
  /\ UNCHANGED <<account, editing, made, stray>>

\* The activation was confirmed: is the strategy in the catalog by now?
CheckReady ==
  /\ ~Covered /\ phase = "activate" /\ selected # None /\ account.active # None /\ MayAsk
  /\ confirming' = confirming \cup {selected}
  /\ UNCHANGED <<link, account, phase, selected, editing, mandate, refreshing, restored, strategyLoad, mandateLoad, refreshes,
                 submits, made, stray>>

Ready(c) ==
  /\ confirming' = confirming \ {c} /\ phase' = "limits"
  /\ selected' = IF selected = c THEN [c EXCEPT !.ready = TRUE] ELSE selected
  /\ stray' = (stray \/ selected # c)
  /\ UNCHANGED <<link, account, editing, mandate, refreshing, restored, strategyLoad, mandateLoad, refreshes, submits, made>>

Refresh ==
  /\ ~Covered /\ phase = "monitor" /\ mandate # None /\ ~refreshing /\ MayAsk
  /\ refreshes' = refreshes \cup {mandate} /\ refreshing' = TRUE
  /\ UNCHANGED <<link, account, phase, selected, editing, mandate, restored, strategyLoad, mandateLoad, confirming, submits,
                 made, stray>>

Refreshed(m, answered) ==
  /\ refreshes' = refreshes \ {m} /\ refreshing' = FALSE
  /\ mandate' = IF answered THEN m ELSE mandate
  /\ stray' = (stray \/ (answered /\ mandate # m))
  /\ UNCHANGED <<link, account, phase, selected, editing, restored, strategyLoad, mandateLoad, confirming, submits, made>>

EditLimits ==
  /\ ~Covered /\ phase = "monitor" /\ mandate # None
  /\ editing' = TRUE /\ phase' = "limits" /\ selected' = Choice(made[mandate].strategy, None, mandate, TRUE)
  /\ UNCHANGED <<link, account, mandate, refreshing, restored, strategyLoad, mandateLoad, refreshes, confirming, submits, made,
                 stray>>

\* The wallet limits are sealed for: the maker of the mandate they are of, while it is a
\* wallet of the account, and else the wallet in use.
SetupMaker ==
  IF ~editing \/ mandate = None THEN account.active
  ELSE IF made[mandate].maker \in account.linked THEN made[mandate].maker ELSE None

Submit ==
  /\ ~Covered /\ phase = "review" /\ SetupMaker # None /\ selected # None /\ MayAsk
  /\ submits' = submits \cup {[maker |-> SetupMaker, of |-> selected, under |-> mandate]}
  /\ phase' = "submitting"
  /\ UNCHANGED <<link, account, selected, editing, mandate, refreshing, restored, strategyLoad, mandateLoad, refreshes,
                 confirming, made, stray>>

\* The new mandate is shown and becomes the address, which the effects follow.
Submitted(s, m) ==
  /\ made[m] = None /\ made' = [made EXCEPT ![m] = [maker |-> s.maker, strategy |-> s.of.strategy]]
  /\ submits' = submits \ {s}
  /\ Moves([strategy |-> None, mandate |-> m], account, [phase |-> "monitor", mandate |-> m, editing |-> FALSE])
  /\ UNCHANGED <<refreshes, confirming, stray>>

SubmitFails(s) ==
  /\ submits' = submits \ {s} /\ phase' = "review"
  /\ stray' = (stray \/ phase # "submitting" \/ selected # s.of \/ mandate # s.under)
  /\ UNCHANGED <<link, account, selected, editing, mandate, refreshing, restored, strategyLoad, mandateLoad, refreshes,
                 confirming, made>>

Next ==
  \/ \E l \in Links : Follow(l)
  \/ \E a \in Accounts : Switch(a)
  \/ \E executable \in BOOLEAN : StrategyLoaded(executable)
  \/ StrategyFails \/ MandateLoaded \/ MandateFails
  \/ SavePolicy \/ EditAgain \/ Overview \/ Details \/ CheckReady \/ Refresh \/ EditLimits \/ Submit
  \/ \E c \in confirming : Ready(c)
  \/ \E m \in refreshes, answered \in BOOLEAN : Refreshed(m, answered)
  \/ \E s \in submits : SubmitFails(s) \/ \E m \in Mandates : Submitted(s, m)

Spec == Init /\ [][Next]_vars

----------------------------------------------------------------------------
Choices ==
  [strategy : Strategies, wallet : Wallets \cup {None}, mandate : Mandates \cup {None}, ready : BOOLEAN]
TypeOK ==
  /\ account \in Accounts /\ link \in Links
  /\ phase \in {"choose", "activate", "limits", "review", "submitting", "monitor"}
  /\ selected \in Choices \cup {None} /\ mandate \in {None} \cup {m \in Mandates : made[m] # None}
  /\ \A s \in submits : s.maker \in Wallets /\ s.of \in Choices
  /\ (mandateLoad # None => mandateLoad = link.mandate) /\ (strategyLoad # None => strategyLoad.strategy = link.strategy)

\* Limits are sealed for the wallet the strategy was found ready with, or for the maker
\* of the very mandate whose limits are changed, however links and wallets changed in
\* between; unless a button's answer came late and was taken for what is shown now.
SealedForItsMaker ==
  \A s \in submits :
    \/ stray
    \/ /\ s.of.ready
       /\ s.maker = IF s.of.mandate = None THEN s.of.wallet ELSE made[s.of.mandate].maker

\* While the page says it refreshes, something is being read: unless it is covered, or
\* the wallets changed and changed back before the mandate was read again.
RefreshEnds ==
  refreshing => mandateLoad # None \/ refreshes # {} \/ ~SignedIn(account) \/ Restored(link, account, restored)

(***************************************************************************)
(* The inductive invariant.  A strategy looked up for a wallet is shown     *)
(* while its link and that wallet last; the strategy of a mandate is shown  *)
(* for its limits while that mandate is, or no wallet is in use.            *)
(***************************************************************************)
Signings == [maker : Wallets, strategy : Strategies]
Known(m) == m \in Mandates /\ made[m] # None
PageTypes ==
  /\ made \in [Mandates -> Signings \cup {None}]
  /\ editing \in BOOLEAN /\ refreshing \in BOOLEAN /\ stray \in BOOLEAN
  /\ submits \subseteq [maker : Wallets, of : Choices, under : Mandates \cup {None}]
  /\ confirming \subseteq Choices /\ \A m \in refreshes : Known(m)
  /\ strategyLoad \in [strategy : Strategies, wallet : Wallets] \cup {None}

Asked == strategyLoad # None => strategyLoad.wallet = account.active /\ selected = None
FoundForWallet == selected # None /\ selected.mandate = None =>
  link.strategy # None /\ (account.active = None \/ selected.wallet = account.active)
ShownWhole ==
  /\ link.mandate = None => mandate = None /\ editing = FALSE
  /\ \A c \in confirming : c.mandate = None
  /\ selected # None /\ phase = "activate" => selected.mandate = None
  /\ selected # None /\ phase \in {"limits", "review", "submitting"} =>
       /\ selected.ready
       /\ \/ selected.mandate = None
          \/ editing /\ mandate = selected.mandate
          \/ link.strategy # None /\ account.active = None
  /\ \A s \in submits : s.of.mandate = None \/ Known(s.of.mandate)

PageInv ==
  /\ TypeOK /\ PageTypes /\ Asked /\ FoundForWallet /\ RefreshEnds /\ SealedForItsMaker
  /\ stray \/ ShownWhole

\* What stands for no wallet, strategy, mandate or choice is none.
NoneIsNoChoice ==
  None \notin Wallets \cup Strategies \cup Mandates \cup Choices \cup Signings
              \cup [strategy : Strategies, wallet : Wallets]
=============================================================================
