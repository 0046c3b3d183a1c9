----------------------------- MODULE Activations -----------------------------
(***************************************************************************)
(* One published strategy and the Makers' activations of its versions:     *)
(* orchestrator/src/provider-registry.mjs keeps the signed versions,       *)
(* activation-store.mjs and activation-service.mjs the compiled plans and  *)
(* the wallet transaction that confirmed each, MakerActivation.tsx the     *)
(* wallet's side.  A confirmed plan is the catalog entry of its version,   *)
(* and the mandate runner evaluates what the catalog names.                *)
(***************************************************************************)
EXTENDS Naturals, Sequences, FiniteSets

CONSTANTS
  Publishers,   \* publish requests under way at a time
  Digests,      \* contents a Provider may sign
  MaxVersion,   \* bound: versions of the release
  Plans,        \* activation identifiers, drawn by the browsers
  Programs,     \* compiled programs: one strategy hash each
  Calls,        \* activation requests under way at a time
  None

VARIABLES
  releases,   \* the immutable version files, in order
  publishing, \* what each publish request read and is about to link
  plan,       \* the activation records
  ship,       \* what Aqua knows of a program: "none", "shipped" or "docked"
  pending,    \* the ship transaction each browser remembers
  call,
  evaluated   \* versions the runner evaluated, with the program it took for each

vars == <<releases, publishing, plan, ship, pending, call, evaluated>>

Versions == 1 .. MaxVersion
Idle == [kind |-> "none", plan |-> None, version |-> 0, phase |-> "idle"]

Through == IF releases = <<>> THEN 0 ELSE releases[Len(releases)].withdrawnThrough

\* activeRelease: the version and the latest one are published, and no withdrawal covers it.
ActiveRelease(v) ==
  /\ v \in DOMAIN releases
  /\ releases[v].state = "published" /\ releases[Len(releases)].state = "published"
  /\ v > Through

\* The catalog: the program of the confirmed plan of a version.
Confirmed(v) == {a \in Plans : plan[a] # None /\ plan[a].version = v /\ plan[a].confirmed}
Catalog(v) == {plan[a].program : a \in Confirmed(v)}

Init ==
  /\ releases = <<>>
  /\ publishing = [p \in Publishers |-> None]
  /\ plan = [a \in Plans |-> None]
  /\ ship = [q \in Programs |-> "none"]
  /\ pending = [a \in Plans |-> FALSE]
  /\ call = [c \in Calls |-> Idle]
  /\ evaluated = {}

(***************************************************************************)
(* Publishing: read the latest version, then link the next file            *)
(***************************************************************************)
\* Defect: a published version starts afresh.
WithdrawnByItself(v, state) == IF state = "withdrawn" THEN v ELSE 0
\* A republication keeps what an earlier withdrawal covered.
WithdrawnThrough(v, state) == IF state = "withdrawn" THEN v ELSE Through

Publish(p, d, state) ==
  LET v == Len(releases) + 1 IN
  /\ publishing[p] = None /\ v <= MaxVersion
  /\ releases = <<>> => state = "published"
  /\ publishing' = [publishing EXCEPT ![p] = [version |-> v,
       record |-> [digest |-> d, state |-> state, withdrawnThrough |-> WithdrawnThrough(v, state)]]]
  /\ UNCHANGED <<releases, plan, ship, pending, call, evaluated>>

\* link() refuses to replace a version another request linked first.
Link(v, record) == IF v \in DOMAIN releases THEN releases ELSE Append(releases, record)

LinkVersion(p) ==
  /\ publishing[p] # None
  /\ releases' = Link(publishing[p].version, publishing[p].record)
  /\ publishing' = [publishing EXCEPT ![p] = None]
  /\ UNCHANGED <<plan, ship, pending, call, evaluated>>

(***************************************************************************)
(* Preparing a plan and shipping its program                               *)
(***************************************************************************)
Starts(c, kind, a, v, phase) ==
  /\ call[c] = Idle
  /\ call' = [call EXCEPT ![c] = [kind |-> kind, plan |-> a, version |-> v, phase |-> phase]]
  /\ UNCHANGED <<releases, publishing, plan, ship, pending, evaluated>>

Prepare(c, a, v) ==
  /\ ActiveRelease(v) /\ Catalog(v) = {} /\ plan[a] = None
  /\ Starts(c, "prepare", a, v, "compiling")

\* The compiled program depends on the market price of the moment; insert() links, so a
\* second compilation for the same activation is refused.
Insert(c, q) ==
  /\ call[c].phase = "compiling"
  /\ \A a \in Plans : plan[a] # None => plan[a].program # q
  /\ plan' = IF plan[call[c].plan] # None THEN plan
             ELSE [plan EXCEPT ![call[c].plan] = [version |-> call[c].version, program |-> q, confirmed |-> FALSE]]
  /\ call' = [call EXCEPT ![c] = Idle]
  /\ UNCHANGED <<releases, publishing, ship, pending, evaluated>>

\* The wallet ships the plan the browser loaded; Aqua takes a program once.  A browser
\* closed before the wallet answers never learns the hash.
Ship(a, remembers) ==
  /\ plan[a] # None /\ ~plan[a].confirmed /\ ~pending[a]
  /\ ActiveRelease(plan[a].version) /\ ship[plan[a].program] = "none"
  /\ ship' = [ship EXCEPT ![plan[a].program] = "shipped"]
  /\ pending' = [pending EXCEPT ![a] = remembers]
  /\ UNCHANGED <<releases, publishing, plan, call, evaluated>>

Dock(q) ==
  /\ ship[q] = "shipped"
  /\ ship' = [ship EXCEPT ![q] = "docked"]
  /\ UNCHANGED <<releases, publishing, plan, pending, call, evaluated>>

(***************************************************************************)
(* Confirming, one request at a time, and evaluating                       *)
(***************************************************************************)
Confirm(c, a) == pending[a] /\ Starts(c, "confirm", a, plan[a].version, "queued")

\* Defect: confirmations are not chained.
Anytime(c) == TRUE
MyTurn(c) == \A d \in Calls : call[d].phase # "confirming"

CheckConfirmation(c) ==
  LET a == call[c].plan IN
  /\ call[c].phase = "queued" /\ MyTurn(c)
  /\ IF ActiveRelease(call[c].version) /\ Catalog(call[c].version) \subseteq {plan[a].program}
     THEN call' = [call EXCEPT ![c].phase = "confirming"]
     ELSE call' = [call EXCEPT ![c] = Idle]
  /\ UNCHANGED <<releases, publishing, plan, ship, pending, evaluated>>

\* The receipt, the registered balances then and the registration now; the record is
\* renamed into place and the browser forgets the transaction.
SaveConfirmation(c) ==
  LET a == call[c].plan IN
  /\ call[c].phase = "confirming"
  /\ call' = [call EXCEPT ![c] = Idle]
  /\ IF ship[plan[a].program] = "shipped"
     THEN plan' = [plan EXCEPT ![a].confirmed = TRUE] /\ pending' = [pending EXCEPT ![a] = FALSE]
     ELSE UNCHANGED <<plan, pending>>
  /\ UNCHANGED <<releases, publishing, ship, evaluated>>

\* A refused, failed or crashed request; the browser keeps its pending transaction.
Fail(c) ==
  /\ call[c] # Idle
  /\ call' = [call EXCEPT ![c] = Idle]
  /\ UNCHANGED <<releases, publishing, plan, ship, pending, evaluated>>

Evaluate(v) ==
  /\ ActiveRelease(v) /\ Catalog(v) # {}
  /\ evaluated' = evaluated \cup ({v} \X Catalog(v))
  /\ UNCHANGED <<releases, publishing, plan, ship, pending, call>>

Next ==
  \/ \E p \in Publishers :
       LinkVersion(p) \/ \E d \in Digests, state \in {"published", "withdrawn"} : Publish(p, d, state)
  \/ \E a \in Plans, remembers \in BOOLEAN : Ship(a, remembers)
  \/ \E q \in Programs : Dock(q)
  \/ \E v \in Versions : Evaluate(v)
  \/ \E c \in Calls :
       \/ \E a \in Plans : Confirm(c, a) \/ \E v \in Versions : Prepare(c, a, v)
       \/ \E q \in Programs : Insert(c, q)
       \/ CheckConfirmation(c) \/ SaveConfirmation(c) \/ Fail(c)

Spec == Init /\ [][Next]_vars

(***************************************************************************)
(* Properties                                                              *)
(***************************************************************************)
Records == [digest : Digests, state : {"published", "withdrawn"}, withdrawnThrough : 0 .. MaxVersion]

\* The types of the files, the requests and the browsers' memory.
TypeOK ==
  /\ Len(releases) <= MaxVersion /\ \A v \in DOMAIN releases : releases[v] \in Records
  /\ \A p \in Publishers : publishing[p] = None \/ publishing[p] \in [version : Versions, record : Records]
  /\ \A a \in Plans : plan[a] = None \/ plan[a] \in [version : Versions, program : Programs, confirmed : BOOLEAN]
  /\ ship \in [Programs -> {"none", "shipped", "docked"}] /\ pending \in [Plans -> BOOLEAN]
  /\ \A c \in Calls : call[c] = Idle
       \/ call[c] \in [kind : {"prepare", "confirm"}, plan : Plans, version : Versions,
                       phase : {"compiling", "queued", "confirming"}]
  /\ evaluated \subseteq Versions \X Programs

\* However confirmations overlap, a version stands for one program: at most one is
\* confirmed, it was shipped, and the version is never evaluated for another.
OneProgramPerVersion == \A v \in Versions :
  /\ Cardinality(Catalog(v)) <= 1
  /\ \A q \in Catalog(v) : ship[q] # "none"
  /\ \A e \in evaluated : e[1] = v => e[2] \in Catalog(v)

\* Of every step. A version file never changes, and a withdrawal is for good: no later publication makes
\* a version it covered active again.
PublicationIsFinal ==
  /\ \A v \in DOMAIN releases : v \in DOMAIN releases' /\ releases'[v] = releases[v]
  /\ \A v \in 1 .. Through : ~ActiveRelease(v)'
-----------------------------------------------------------------------------
(* What holds for any publishers, plans, programs and requests.            *)

PlanRow == [version : Versions, program : Programs, confirmed : BOOLEAN]
Publication == [version : Versions, record : Records]
Request == [kind : {"prepare", "confirm"}, plan : Plans, version : Versions,
            phase : {"compiling", "queued", "confirming"}]

\* Versions are numbers, and None is neither a publication nor a plan.
ActivationBounds == MaxVersion \in Nat /\ None \notin Publication /\ None \notin PlanRow

Shapes ==
  /\ releases \in Seq(Records) /\ Len(releases) <= MaxVersion
  /\ publishing \in [Publishers -> Publication \cup {None}]
  /\ plan \in [Plans -> PlanRow \cup {None}] /\ pending \in [Plans -> BOOLEAN]
  /\ ship \in [Programs -> {"none", "shipped", "docked"}]
  /\ call \in [Calls -> Request \cup {Idle}] /\ evaluated \subseteq Versions \X Programs

\* A file about to be linked as the next one carries on what the last one had withdrawn.
PublicationStands(p) ==
  publishing[p] # None =>
    /\ publishing[p].version <= Len(releases) + 1
    /\ publishing[p].version = Len(releases) + 1 =>
         publishing[p].record.withdrawnThrough =
           WithdrawnThrough(publishing[p].version, publishing[p].record.state)

\* A confirmation is of a plan there is; while it checks, no other one does, and the
\* version has no program but the plan's.
ConfirmationStands(c) ==
  call[c].phase \in {"queued", "confirming"} =>
    LET a == call[c].plan IN
    /\ plan[a] # None /\ call[c].version = plan[a].version
    /\ call[c].phase = "confirming" =>
         /\ Catalog(call[c].version) \subseteq {plan[a].program}
         /\ \A d \in Calls : call[d].phase = "confirming" => d = c

\* One program per version, shipped, and the only one it was evaluated for.
CatalogStands ==
  /\ \A v \in Versions : \A q, r \in Catalog(v) : q = r
  /\ \A v \in Versions : \A q \in Catalog(v) : ship[q] # "none"
  /\ \A e \in evaluated : e[2] \in Catalog(e[1])

ActivationInv ==
  /\ Shapes /\ CatalogStands /\ (\A a \in Plans : pending[a] => plan[a] # None)
  /\ \A p \in Publishers : PublicationStands(p)
  /\ \A c \in Calls : ConfirmationStands(c)
=============================================================================
