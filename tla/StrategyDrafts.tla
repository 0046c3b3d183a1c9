---- MODULE StrategyDrafts ----
(***************************************************************************)
(* The content of one strategy draft: patches by its owner over HTTP and   *)
(* by the design agent, restored revisions, the owner's decisions on the   *)
(* requirements, and the bounds of the template an instance is pinned to.  *)
(*                                                                         *)
(* An amount and a price are reduced to the pair in whose units they were  *)
(* given: the model asks whether they can come to be read in another's.    *)
(***************************************************************************)
EXTENDS Naturals, Sequences

CONSTANTS Pairs,        \* token pairs of the profile
          Texts,        \* wordings of the one requirement followed
          Bound,        \* the template's cap, which an instance may tighten
          MaxRevision,  \* bound on the revisions of the draft
          Unresolved,   \* the unit of an amount given before any pair
          None

VARIABLES pinned,     \* the pair of the template, or None: not an instance
          draft,      \* the current content
          revision,
          history,    \* the content of every revision
          agent,      \* a tool call of the agent between its read and its write
          decided     \* the wordings the owner accepted as a limitation

vars == <<pinned, draft, revision, history, agent, decided>>

Units == Pairs \cup {Unresolved}
Curves == {"xyc", "fixed", "relative"}
Content == [pair : Pairs \cup {None}, amount : Units \cup {None}, cap : 0..Bound,
            curve : Curves \cup {None}, unit : Units \cup {None},
            need : Texts \cup {None}, accepted : BOOLEAN]
Empty == [pair |-> None, amount |-> None, cap |-> 0, curve |-> None, unit |-> None,
          need |-> None, accepted |-> FALSE]
Resolved(pair) == [Empty EXCEPT !.pair = pair, !.cap = Bound, !.curve = "fixed", !.unit = pair]
NoCall == [busy |-> FALSE, pair |-> None, expected |-> 0, turn |-> TRUE]

Init ==
  /\ pinned \in Pairs \cup {None}
  /\ draft = IF pinned = None THEN Empty ELSE Resolved(pinned)
  /\ revision = 1 /\ history = <<draft>>
  /\ agent = NoCall /\ decided = {}

--------------------------------------------------------------------------------
\* A patch names what it changes; the rest stays.  `amount` and `curve` carry the
\* pair in whose units their author gave them.
Patches(pair) ==
  [pair : {None, pair} \ {Unresolved}, amount : {None, pair}, cap : 0..Bound,
   curve : {None}, need : {None}] \cup
  [pair : {None, pair} \ {Unresolved}, amount : {None}, cap : {0}, curve : Curves, need : {None}]
  \cup [pair : {None}, amount : {None}, cap : {0}, curve : {None}, need : Texts]

Priced(d) == d.curve \in {"fixed", "relative"}
HasAmounts(d) == d.amount # None \/ d.cap # 0
\* patchDraft: amounts, caps and prices keep the pair they were given for.
PairIsHeld(d) == HasAmounts(d) \/ Priced(d)
\* Defect: the acceptance of a limitation outlives its wording.
StillAccepted(d, p) == d.accepted
Accepted(d, p) == d.accepted /\ p.need \in {None, d.need}

Patched(d, p, unit) ==
  [pair |-> IF p.pair = None THEN d.pair ELSE p.pair,
   amount |-> IF p.amount = None THEN d.amount ELSE unit,
   cap |-> IF p.cap = 0 THEN d.cap ELSE p.cap,
   curve |-> IF p.curve = None THEN d.curve ELSE p.curve,
   unit |-> IF p.curve = None THEN d.unit ELSE IF p.curve = "xyc" THEN None ELSE unit,
   need |-> IF p.need = None THEN d.need ELSE p.need,
   accepted |-> Accepted(d, p)]
Allowed(d, p) == p.pair \in {None, d.pair} \/ d.pair = None \/ ~PairIsHeld(d)

\* assertTemplateInstance: what an instance may differ in from its template.
WithinTemplate(d) ==
  pinned # None => d.pair = pinned /\ d.curve = "fixed" /\ d.cap \in 1..Bound

\* persistDraftChange: a change is a new revision, and it ends the turn of an agent
\* that is at work on the draft unless the change is its own.
Superseded(byAgent) == byAgent /\ agent.turn
Persist(d, byAgent) ==
  /\ WithinTemplate(d)
  /\ d # draft /\ revision < MaxRevision
  /\ draft' = d /\ revision' = revision + 1 /\ history' = Append(history, d)
  /\ agent' = IF byAgent THEN NoCall ELSE [agent EXCEPT !.turn = Superseded(byAgent)]

PatchByOwner ==
  /\ LET known == IF draft.pair = None THEN Unresolved ELSE draft.pair
     IN \E pair \in Pairs \cup {known} : \E p \in Patches(pair) :
          /\ Allowed(draft, p)
          /\ Persist(Patched(draft, p, IF p.pair = None THEN known ELSE p.pair), FALSE)
  /\ UNCHANGED <<pinned, decided>>

\* Restoring copies an earlier revision into a new one.
Restore(r) ==
  /\ r < revision
  /\ Persist(history[r], FALSE)
  /\ UNCHANGED <<pinned, decided>>

\* acknowledgeRequirements, by the owner's review only.
Acknowledge ==
  /\ draft.need # None
  /\ Persist([draft EXCEPT !.accepted = TRUE], FALSE)
  /\ decided' = decided \cup {draft.need}
  /\ UNCHANGED pinned

\* createOrPatchDraft reads the draft, converts human amounts with the pair it saw
\* and names the revision it expects, which is the model's to choose (bound: the
\* current one or the next).
AgentReads ==
  /\ ~agent.busy
  /\ \E expected \in {revision, revision + 1} :
       agent' = [busy |-> TRUE, pair |-> draft.pair, expected |-> expected, turn |-> TRUE]
  /\ UNCHANGED <<pinned, draft, revision, history, decided>>
AgentPatches ==
  /\ agent.busy /\ agent.turn /\ agent.expected = revision
  /\ \E pair \in Pairs \cup ({agent.pair} \ {None}) : \E p \in Patches(pair) :
       /\ p.pair = None => agent.pair = pair
       /\ Allowed(draft, p)
       /\ Persist(Patched(draft, p, pair), TRUE)
  /\ UNCHANGED <<pinned, decided>>
AgentRestores(r) ==
  /\ agent.busy /\ agent.turn /\ agent.expected = revision /\ r < revision
  /\ Persist(history[r], TRUE)
  /\ UNCHANGED <<pinned, decided>>
AgentIsRefused ==
  /\ agent.busy
  /\ agent' = NoCall
  /\ UNCHANGED <<pinned, draft, revision, history, decided>>

Next ==
  \/ PatchByOwner \/ Acknowledge \/ AgentReads \/ AgentPatches \/ AgentIsRefused
  \/ \E r \in 1..MaxRevision : Restore(r) \/ AgentRestores(r)

Spec == Init /\ [][Next]_vars

--------------------------------------------------------------------------------
\* The history holds every revision, the last of them the current draft.
TypeOK ==
  /\ draft \in Content /\ revision \in 1..MaxRevision
  /\ history \in [1..revision -> Content] /\ history[revision] = draft
  /\ agent.pair \in Pairs \cup {None} /\ decided \subseteq Texts

\* Whatever the owner, the agent and restored revisions do in turns, an amount or a
\* price is never read in the units of another pair than it was given in, a limitation
\* counts as accepted only in the wording its owner decided on, and an instance stays
\* within the template it is pinned to.
DraftMeansWhatWasSaid ==
  /\ draft.amount \in Pairs => draft.amount = draft.pair
  /\ draft.unit \in Pairs => draft.unit = draft.pair
  /\ draft.accepted => draft.need \in decided
  /\ WithinTemplate(draft)

--------------------------------------------------------------------------------
\* What holds for any pairs, wordings and bounds: of every revision, for it can be
\* restored, and of the pair an agent has read for as long as its turn lasts.
Means(d) ==
  /\ d.amount \in Pairs => d.amount = d.pair
  /\ d.unit \in Pairs => d.unit = d.pair
  /\ ~Priced(d) => d.unit = None
  /\ d.accepted => d.need \in decided

Apart == None \notin Pairs /\ Unresolved \notin Pairs \cup {None} /\ Bound \in Nat \ {0}

DraftInv ==
  /\ pinned \in Pairs \cup {None} /\ draft \in Content /\ WithinTemplate(draft)
  /\ revision \in 1..MaxRevision /\ decided \subseteq Texts
  /\ history \in Seq(Content) /\ Len(history) = revision /\ history[revision] = draft
  /\ \A r \in 1..revision : Means(history[r])
  /\ agent \in [busy : BOOLEAN, pair : Pairs \cup {None}, expected : Nat, turn : BOOLEAN]
  /\ agent.busy /\ agent.turn => agent.pair = draft.pair

================================================================================
