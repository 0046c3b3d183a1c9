----------------------------- MODULE Preparation ------------------------------
(***************************************************************************)
(* The dialog in which a maker prepares a strategy (frontend builder       *)
(* MakerPreparation.tsx, preparation.ts): compile the draft, simulate it,  *)
(* bind a guard report, consent to reports being sent, stop them.  Each    *)
(* is a chain of requests and wallet prompts, any of which may fail, while *)
(* a timer reads the records again.  The dialog is opened for one revision *)
(* of the draft; closing it does not stop a chain that is under way.       *)
(***************************************************************************)
EXTENDS Naturals, Sequences, FiniteSets

CONSTANTS
  Evidence,     \* guard reports a maker may enter
  MaxRuns,      \* simulations a draft may start: the hourly budget
  MaxConsents,  \* bound: consents given
  MaxLost,      \* bound: chains that failed or were left
  None

VARIABLES
  changed,     \* the service: the draft left the revision of the dialog
  compiled,    \* this revision is compiled
  runs,        \* its simulations, "active" or "ended"
  consents,    \* consents given for it, TRUE until revoked
  subscribed,  \* the consent reports are sent under, or 0
  bound,       \* the report bound last, or None
  shown,       \* the dialog: the records last read
  stale,
  intent,      \* kept: the binding to be signed; asked: what its request was recorded with
  retry,       \* the key of a simulation: "none", "kept", or "used" by the service
  act,         \* the chain under way, or None: busy; on: what it is about
  loads,       \* reads under way: the newest or overtaken, and the answer
  left,        \* the chain of a dialog since closed, with what it kept for it, or None
  lost         \* chains that failed for the connection, or were left

service == <<changed, compiled, runs, consents, subscribed, bound>>
dialog == <<shown, stale, intent, retry, act, loads>>
vars == <<service, dialog, left, lost>>

NoIntent == [kept |-> None, asked |-> None]
Steps == [refresh |-> <<"load">>, compile |-> <<"compile", "load">>, simulate |-> <<"simulate", "load">>,
          cancel |-> <<"cancel", "load">>, bind |-> <<"prepare", "sign", "confirm">>,
          consent |-> <<"intent", "sign", "grant", "enable", "load">>, enable |-> <<"enable", "load">>,
          revoke |-> <<"sign", "revoke", "load">>]
Chain(op, on) == [op |-> op, on |-> on, at |-> 1]
Step(c) == Steps[c.op][c.at]
Next1(c) == IF c.at = Len(Steps[c.op]) THEN None ELSE [c EXCEPT !.at = @ + 1]

Records == [compiled |-> compiled, runs |-> runs, consents |-> consents, subscribed |-> subscribed, bound |-> bound]
Active(rs) == {i \in DOMAIN rs : rs[i] = "active"}
\* The newest consent that stands, or 0.
Standing(cs) == LET live == {i \in DOMAIN cs : cs[i]} IN IF live = {} THEN 0 ELSE CHOOSE i \in live : \A j \in live : j <= i
Newest == [newest |-> TRUE, read |-> None]
\* A read is overtaken by the next one.
Loading(ls) == {[l EXCEPT !.newest = FALSE] : l \in ls} \cup {Newest}

Opened ==
  /\ shown' = [compiled |-> FALSE, runs |-> <<>>, consents |-> <<>>, subscribed |-> 0, bound |-> None]
  /\ stale' = FALSE /\ intent' = NoIntent /\ retry' = "none"
  /\ act' = Chain("refresh", 0) /\ loads' = {Newest}

Init ==
  /\ changed = FALSE /\ compiled = FALSE /\ runs = <<>> /\ consents = <<>> /\ subscribed = 0 /\ bound = None
  /\ shown = Records /\ stale = FALSE
  /\ intent = NoIntent /\ retry = "none"
  /\ act = Chain("refresh", 0) /\ loads = {Newest} /\ left = None /\ lost = 0

(***************************************************************************)
(* The service, between and under the requests of the dialog               *)
(***************************************************************************)
\* Another window, or the agent, changes the draft: its runs and reports end.
DraftChanges ==
  /\ ~changed /\ changed' = TRUE /\ runs' = [i \in DOMAIN runs |-> "ended"] /\ subscribed' = 0
  /\ UNCHANGED <<compiled, consents, bound, dialog, left, lost>>

RunEnds ==
  /\ \E i \in Active(runs) : runs' = [runs EXCEPT ![i] = "ended"]
  /\ UNCHANGED <<changed, compiled, consents, subscribed, bound, dialog, left, lost>>

\* A chain, with what its dialog keeps for it.
Kept(c, i, r) == [chain |-> c, intent |-> i, retry |-> r]
Mine == Kept(act, intent, retry)

\* What the service refuses with a conflict.
Refused(k) ==
  LET c == k.chain IN
  \/ changed /\ Step(c) \notin {"cancel", "revoke"} /\ ~(Step(c) = "simulate" /\ k.retry = "used")
  \/ Step(c) = "enable" /\ (~consents[c.on] \/ bound = None)
  \/ Step(c) = "prepare" /\ k.intent.kept = None /\ k.intent.asked \notin {None, c.on}

Compile(c) == compiled' = TRUE /\ UNCHANGED <<runs, consents, subscribed, bound>>
\* One simulation of an artifact runs at a time; a key starts one.
Simulate(key) ==
  /\ runs' = IF key = "used" \/ Active(runs) # {} THEN runs ELSE Append(runs, "active")
  /\ Len(runs') <= MaxRuns /\ UNCHANGED <<compiled, consents, subscribed, bound>>
Cancel(c) == runs' = [runs EXCEPT ![c.on] = "ended"] /\ UNCHANGED <<compiled, consents, subscribed, bound>>
Grant(c) == /\ Len(consents) < MaxConsents /\ consents' = Append(consents, TRUE)
            /\ UNCHANGED <<compiled, runs, subscribed, bound>>
Enable(c) == subscribed' = c.on /\ UNCHANGED <<compiled, runs, consents, bound>>
Revoke(c) == /\ consents' = [consents EXCEPT ![c.on] = FALSE]
             /\ subscribed' = IF subscribed = c.on THEN 0 ELSE subscribed
             /\ UNCHANGED <<compiled, runs, bound>>
Confirm(c) == bound' = c.on /\ UNCHANGED <<compiled, runs, consents, subscribed>>
Nothing == UNCHANGED <<compiled, runs, consents, subscribed, bound>>

Handled(k) == LET c == k.chain IN
  /\ ~Refused(k) /\ UNCHANGED changed
  /\ Step(c) = "compile" => Compile(c)
  /\ Step(c) = "simulate" => Simulate(k.retry)
  /\ Step(c) = "cancel" => Cancel(c)
  /\ Step(c) = "grant" => Grant(c)
  /\ Step(c) = "enable" => Enable(c)
  /\ Step(c) = "revoke" => Revoke(c)
  /\ Step(c) = "confirm" => Confirm(c)
  /\ (Step(c) \in {"prepare", "intent"}) => Nothing

Asks(c) == Step(c) \notin {"load", "sign"}
\* What the next step works on: the intent prepared, or the consent given.
Carried(k) == LET c == k.chain IN
  IF Step(c) = "prepare" THEN IF k.intent.kept = None THEN c.on ELSE k.intent.kept
  ELSE IF Step(c) = "grant" THEN Len(consents') ELSE c.on

(***************************************************************************)
(* Reading the records                                                     *)
(***************************************************************************)
Pending == Active(shown.runs) # {} \/ shown.subscribed # 0

\* The timer.  Bound: it reads with no other read under way; those of the buttons overtake it.
Poll ==
  /\ act = None /\ Pending /\ loads = {} /\ loads' = Loading(loads)
  /\ UNCHANGED <<service, shown, stale, intent, retry, act, left, lost>>

\* A chain waits for its own read: no other begins meanwhile.
Waits(l) == l.newest /\ act # None /\ Step(act) = "load"
Ends(l) == IF Waits(l) THEN None ELSE act

ReadRecords(l) ==
  /\ l.read = None /\ ~changed /\ loads' = (loads \ {l}) \cup {[l EXCEPT !.read = Records]}
  /\ UNCHANGED <<service, shown, stale, intent, retry, act, left, lost>>

\* An overtaken answer is dropped.
Loaded(l) ==
  /\ l.read # None /\ loads' = loads \ {l}
  /\ shown' = IF l.newest THEN l.read ELSE shown
  /\ stale' = (~l.newest /\ stale)
  /\ act' = Ends(l) /\ retry' = IF Waits(l) /\ act.op = "simulate" THEN "none" ELSE retry
  /\ UNCHANGED <<service, intent, left, lost>>

\* The records of a draft that has changed are refused, which any failing load reports.
LoadFails(l) ==
  /\ l.read = None /\ (changed \/ lost < MaxLost)
  /\ loads' = loads \ {l} /\ stale' = (stale \/ changed) /\ act' = Ends(l)
  /\ lost' = IF changed THEN lost ELSE lost + 1
  /\ UNCHANGED <<service, shown, intent, retry, left>>

(***************************************************************************)
(* The buttons                                                             *)
(***************************************************************************)
CanCompile == ~stale
CanSimulate == ~stale /\ shown.compiled /\ (Pending => retry # "none")
CanBind == ~stale /\ shown.compiled
CanConsent == ~stale /\ shown.compiled /\ (Standing(shown.consents) = 0) /\ shown.bound # None
CanEnable == ~stale /\ shown.compiled /\ shown.subscribed = 0 /\ shown.bound # None
CanRevoke == ~stale /\ Standing(shown.consents) # 0

Press(op, on) ==
  /\ act = None /\ act' = Chain(op, on)
  /\ loads' = IF op = "refresh" THEN Loading(loads) ELSE loads
  /\ retry' = IF op = "simulate" /\ retry = "none" THEN "kept" ELSE retry
  /\ UNCHANGED <<service, shown, stale, intent, left, lost>>

PressOne ==
  \/ Press("refresh", 0)
  \/ CanCompile /\ Press("compile", 0)
  \/ CanSimulate /\ Press("simulate", 0)
  \/ \E i \in Active(shown.runs) : Press("cancel", i)
  \/ \E e \in Evidence : CanBind /\ Press("bind", e)
  \/ CanConsent /\ Press("consent", 0)
  \/ CanEnable /\ Standing(shown.consents) # 0 /\ Press("enable", Standing(shown.consents))
  \/ CanRevoke /\ Press("revoke", Standing(shown.consents))

(***************************************************************************)
(* A chain under way                                                       *)
(***************************************************************************)
Onward(k) == LET n == Next1(k.chain) IN IF n = None THEN None ELSE [n EXCEPT !.on = Carried(k)]

Answered ==
  /\ act # None /\ Asks(act) /\ Handled(Mine) /\ act' = Onward(Mine)
  /\ loads' = IF act' # None /\ Step(act') = "load" THEN Loading(loads) ELSE loads
  /\ retry' = IF act.op = "simulate" THEN "used" ELSE retry
  /\ intent' = IF Step(act) = "prepare" THEN [kept |-> Carried(Mine), asked |-> Carried(Mine)]
               ELSE IF Step(act) = "confirm" THEN NoIntent ELSE intent
  /\ shown' = IF Step(act) = "confirm" THEN [shown EXCEPT !.bound = act.on] ELSE shown
  /\ UNCHANGED <<stale, left, lost>>

\* The answer is lost, and the request may be as well.
AnswerLost ==
  /\ act # None /\ Asks(act) /\ lost < MaxLost /\ lost' = lost + 1 /\ act' = None
  /\ \/ /\ Handled(Mine) /\ retry' = IF act.op = "simulate" THEN "used" ELSE retry
        /\ intent' = IF Step(act) = "prepare" THEN [intent EXCEPT !.asked = Carried(Mine)] ELSE intent
     \/ UNCHANGED <<service, retry, intent>>
  /\ UNCHANGED <<shown, stale, loads, left>>

\* Every conflict is taken for a draft that changed.
ConflictAnswered ==
  /\ act # None /\ Asks(act) /\ Refused(Mine) /\ stale' = TRUE /\ act' = None
  /\ UNCHANGED <<service, shown, intent, retry, loads, left, lost>>

SignatureGiven ==
  /\ act # None /\ Step(act) = "sign" /\ act' = [Next1(act) EXCEPT !.on = act.on]
  /\ UNCHANGED <<service, shown, stale, intent, retry, loads, left, lost>>

SignatureRefused ==
  /\ act # None /\ Step(act) = "sign" /\ act' = None
  /\ UNCHANGED <<service, shown, stale, intent, retry, loads, left, lost>>

(***************************************************************************)
(* Closing and opening the dialog again                                    *)
(***************************************************************************)
\* The request under way is handled or not.  What follows it is asked for as well where the
\* chain does not look whether the dialog is still there: of a binding, a consent, a revocation.
Close ==
  /\ ~changed /\ left = None /\ lost < MaxLost /\ lost' = lost + 1
  /\ left' = IF act # None /\ Step(act) # "load"
             THEN Kept(act, IF act.op = "bind" THEN intent ELSE NoIntent, IF act.op = "simulate" THEN retry ELSE "none")
             ELSE None
  /\ Opened /\ UNCHANGED service

LeftGoesOn ==
  /\ left # None
  /\ IF Asks(left.chain) THEN Handled(left) ELSE UNCHANGED service
  /\ left' = LET n == Onward(left) IN IF n = None \/ Step(n) = "load" THEN None ELSE [left EXCEPT !.chain = n]
  /\ UNCHANGED <<dialog, lost>>

LeftEnds == left # None /\ left' = None /\ UNCHANGED <<service, dialog, lost>>

Next ==
  \/ DraftChanges \/ RunEnds \/ Poll \/ PressOne \/ Answered \/ AnswerLost \/ ConflictAnswered
  \/ SignatureGiven \/ SignatureRefused \/ Close \/ LeftGoesOn \/ LeftEnds
  \/ \E l \in loads : ReadRecords(l) \/ Loaded(l) \/ LoadFails(l)

Spec == Init /\ [][Next]_vars

(***************************************************************************)
(* What holds                                                              *)
(***************************************************************************)
TypeOK ==
  /\ changed \in BOOLEAN /\ compiled \in BOOLEAN /\ stale \in BOOLEAN /\ lost \in 0 .. MaxLost
  /\ runs \in UNION {[1 .. n -> {"active", "ended"}] : n \in 0 .. MaxRuns}
  /\ consents \in UNION {[1 .. n -> BOOLEAN] : n \in 0 .. MaxConsents}
  /\ subscribed \in 0 .. MaxConsents /\ bound \in Evidence \cup {None}
  /\ retry \in {"none", "kept", "used"} /\ Cardinality({l \in loads : l.newest}) <= 1
  /\ \A c \in {act, IF left = None THEN None ELSE left.chain} : c # None => c.op \in DOMAIN Steps /\ c.at \in DOMAIN Steps[c.op]

\* Nobody signs a second consent while one stands, unless an answer was lost or the dialog was
\* closed over the first: what a repetition after a refused signature, a late read of the
\* records or a second press could bring about.
OneConsentUnlessLost == Cardinality({i \in DOMAIN consents : consents[i]}) <= 1 + lost

\* Reports are sent under a consent that stands.
SubscribedStands == subscribed # 0 => consents[subscribed]

\* What is shown never goes back: a run that ended is not shown running again, nor a revoked
\* consent standing, however the reads of the timer and of the buttons cross.  The report bound
\* is not among these: a read that began before its confirmation shows none again.  Nor is the
\* subscription, which a dialog closed over a second consent may move to the earlier one.
Later(a, b) ==
  /\ a.compiled => b.compiled
  /\ DOMAIN a.runs \subseteq DOMAIN b.runs /\ Active(b.runs) \cap DOMAIN a.runs \subseteq Active(a.runs)
  /\ DOMAIN a.consents \subseteq DOMAIN b.consents /\ \A i \in DOMAIN a.consents : b.consents[i] => a.consents[i]
ShownAdvances == loads' = {Newest} \/ Later(shown, shown')
=============================================================================
