------------------------------ MODULE Consents ------------------------------
(***************************************************************************)
(* What a Maker signs for one draft, and the subscriptions that stand on   *)
(* it: requirement reviews (requirement-reviews.ts), bindings of an        *)
(* accepted Guard report (bindings.ts), automation consents                *)
(* (automation.ts) and the enabling of a subscription                      *)
(* (event-delivery.ts).  Each answer is prepared for one revision, signed  *)
(* at leisure and confirmed under the draft's lock; edits, compilations,   *)
(* agent turns, expiries and revocations happen in between.                *)
(***************************************************************************)
EXTENDS Naturals, Sequences, FiniteSets

CONSTANTS
  Intents,      \* prepared documents
  Subs,         \* subscriptions
  MaxRevision,  \* bound: revisions of the draft
  None

VARIABLES
  revision,  \* the draft's
  compiled,  \* revisions with a stored artifact
  busy,      \* an agent turn is queued or running
  intents,   \* what was prepared, for which revision, and whether it has expired
  proving,   \* revisions for which the report of a binding is being read from the chain
  results,   \* the revision each confirmed document stands for
  granted,   \* confirmed consents, oldest first
  revoked,
  subs

vars == <<revision, compiled, busy, intents, proving, results, granted, revoked, subs>>

Kinds == {"review", "binding", "consent"}

\* Confirmed documents of a kind for a revision.
Confirmed(kind, r) == {i \in Intents : intents[i] # None /\ intents[i].kind = kind /\ results[i] = r}
Reviewed(r) == Confirmed("review", r) # {}
Bound(r) == Confirmed("binding", r) # {}

\* The newest consent of a revision that is not revoked, unless it has expired.
ActiveConsent(r) ==
  LET at == {n \in DOMAIN granted : results[granted[n]] = r /\ granted[n] \notin revoked}
  IN IF at = {} THEN None
     ELSE LET c == granted[CHOOSE n \in at : \A k \in at : k <= n]
          IN IF intents[c].open THEN c ELSE None

\* What a document may be prepared and confirmed for: the current revision, compiled;
\* a review while no agent works on the draft, the others after the review.
Reviewable(kind, r) ==
  /\ r = revision /\ r \in compiled
  /\ IF kind = "review" THEN ~busy ELSE Reviewed(r)

Init ==
  /\ revision = 1 /\ compiled = {} /\ busy = FALSE
  /\ intents = [i \in Intents |-> None] /\ proving = [i \in Intents |-> 0]
  /\ results = [i \in Intents |-> 0] /\ granted = <<>> /\ revoked = {}
  /\ subs = [s \in Subs |-> None]

\* Subscriptions of a set leave the running and the paused state for good.
Stop(which) == [s \in Subs |-> IF s \in which THEN [subs[s] EXCEPT !.state = "stopped"] ELSE subs[s]]
Live == {s \in Subs : subs[s] # None /\ subs[s].state \in {"enabled", "paused"}}

(***************************************************************************)
(* The draft                                                               *)
(***************************************************************************)
Change ==
  /\ revision < MaxRevision
  /\ revision' = revision + 1 /\ subs' = Stop(Live)

Edit == Change /\ UNCHANGED <<compiled, busy, intents, proving, results, granted, revoked>>

Compile ==
  /\ revision \notin compiled
  /\ compiled' = compiled \cup {revision}
  /\ UNCHANGED <<revision, busy, intents, proving, results, granted, revoked, subs>>

Turn ==
  /\ busy' = ~busy
  /\ UNCHANGED <<revision, compiled, intents, proving, results, granted, revoked, subs>>

(***************************************************************************)
(* Preparing                                                               *)
(***************************************************************************)
Prepared(i, kind, r) ==
  /\ intents[i] = None /\ Reviewable(kind, r)
  /\ intents' = [intents EXCEPT ![i] = [kind |-> kind, revision |-> r, open |-> TRUE]]

Prepare(i, kind) ==
  /\ kind # "binding" /\ proving[i] = 0 /\ Prepared(i, kind, revision)
  /\ UNCHANGED <<revision, compiled, busy, proving, results, granted, revoked, subs>>

\* A binding reads the accepted report between two transactions.
ReadProof(i) ==
  /\ proving[i] = 0 /\ intents[i] = None /\ Reviewable("binding", revision)
  /\ proving' = [proving EXCEPT ![i] = revision]
  /\ UNCHANGED <<revision, compiled, busy, intents, results, granted, revoked, subs>>

PrepareBinding(i) ==
  /\ proving[i] # 0 /\ Prepared(i, "binding", proving[i])
  /\ proving' = [proving EXCEPT ![i] = 0]
  /\ UNCHANGED <<revision, compiled, busy, results, granted, revoked, subs>>

Expire(i) ==
  /\ intents[i] # None /\ intents[i].open
  /\ intents' = [intents EXCEPT ![i].open = FALSE]
  /\ UNCHANGED <<revision, compiled, busy, proving, results, granted, revoked, subs>>

(***************************************************************************)
(* Confirming: a second confirmation answers what the first one stored     *)
(***************************************************************************)
StillStands(i) == intents[i].open /\ Reviewable(intents[i].kind, intents[i].revision)

\* Accepting alternatives changes the draft: the receipt is for the new revision.
ConfirmReview(i, accepts) ==
  /\ intents[i] # None /\ intents[i].kind = "review" /\ results[i] = 0 /\ StillStands(i)
  /\ IF accepts THEN Change ELSE UNCHANGED <<revision, subs>>
  /\ results' = [results EXCEPT ![i] = revision']
  /\ UNCHANGED <<compiled, busy, intents, proving, granted, revoked>>

ConfirmSigned(i) ==
  /\ intents[i] # None /\ intents[i].kind # "review" /\ results[i] = 0 /\ StillStands(i)
  /\ results' = [results EXCEPT ![i] = intents[i].revision]
  /\ granted' = IF intents[i].kind = "consent" THEN Append(granted, i) ELSE granted
  /\ UNCHANGED <<revision, compiled, busy, intents, proving, revoked, subs>>

\* Defect: a paused subscription keeps its consent.
RunningOn(c) == {s \in Live : subs[s].consent = c /\ subs[s].state = "enabled"}
StandingOn(c) == {s \in Live : subs[s].consent = c}

Revoke(i) ==
  /\ \E n \in DOMAIN granted : granted[n] = i
  /\ i \notin revoked
  /\ revoked' = revoked \cup {i} /\ subs' = Stop(StandingOn(i))
  /\ UNCHANGED <<revision, compiled, busy, intents, proving, results, granted>>

(***************************************************************************)
(* Subscriptions                                                           *)
(***************************************************************************)
\* One strategy per Maker: enabling stops what runs.
Enable(s, c) ==
  /\ subs[s] = None /\ revision \in compiled /\ Bound(revision)
  /\ c # None /\ c = ActiveConsent(revision)
  /\ \A old \in Live : subs[old].state = "enabled" => subs[old].consent # c
  /\ subs' = [Stop({old \in Live : subs[old].state = "enabled"})
                EXCEPT ![s] = [consent |-> c, revision |-> revision, state |-> "enabled"]]
  /\ UNCHANGED <<revision, compiled, busy, intents, proving, results, granted, revoked>>

\* The Maker stops it, or the Provider's withdrawal pauses it.
Halt(s, state) ==
  /\ s \in Live
  /\ state = "paused" => subs[s].state = "enabled"
  /\ subs' = [subs EXCEPT ![s].state = state]
  /\ UNCHANGED <<revision, compiled, busy, intents, proving, results, granted, revoked>>

Next ==
  \/ Edit \/ Compile \/ Turn
  \/ \E i \in Intents :
       \/ ReadProof(i) \/ PrepareBinding(i) \/ Expire(i) \/ ConfirmSigned(i) \/ Revoke(i)
       \/ \E kind \in Kinds : Prepare(i, kind)
       \/ \E accepts \in BOOLEAN : ConfirmReview(i, accepts)
  \/ \E s \in Subs :
       \/ \E state \in {"stopped", "paused"} : Halt(s, state)
       \/ \E c \in Intents : Enable(s, c)

Spec == Init /\ [][Next]_vars

(***************************************************************************)
(* Properties                                                              *)
(***************************************************************************)
Revisions == 1 .. MaxRevision

\* The types of the rows.
TypeOK ==
  /\ revision \in Revisions /\ compiled \subseteq Revisions /\ busy \in BOOLEAN
  /\ \A i \in Intents :
       /\ intents[i] = None \/ intents[i] \in [kind : Kinds, revision : Revisions, open : BOOLEAN]
       /\ proving[i] \in Revisions \cup {0} /\ results[i] \in Revisions \cup {0}
  /\ \A s \in Subs : subs[s] = None \/
       subs[s] \in [consent : Intents, revision : Revisions, state : {"enabled", "paused", "stopped"}]

\* Nothing stands on what was edited, left unreviewed or revoked, however the steps
\* interleave: every confirmed binding and consent is for a compiled and reviewed
\* revision, every live subscription is for the current revision with a binding and a
\* consent of that revision nobody revoked, and one at most runs.
StandsOnConsent ==
  /\ \A i \in Intents : results[i] # 0 /\ intents[i].kind # "review" =>
       Reviewed(results[i]) /\ results[i] \in compiled
  /\ \A s \in Live :
       /\ subs[s].revision = revision /\ Bound(revision)
       /\ results[subs[s].consent] = revision /\ subs[s].consent \notin revoked
  /\ Cardinality({s \in Live : subs[s].state = "enabled"}) <= 1
-----------------------------------------------------------------------------
(* What holds for any documents, subscriptions and revisions.              *)

\* Prepared documents and subscriptions.
Document == [kind : Kinds, revision : Nat, open : BOOLEAN]
Subscription == [consent : Intents, revision : Nat, state : {"enabled", "paused", "stopped"}]

\* None is not mistaken for a document.
NoDocument == None \notin Document

\* A confirmed document was prepared for a revision the draft has had.
Papers ==
  /\ intents \in [Intents -> Document \cup {None}] /\ results \in [Intents -> Nat]
  /\ proving \in [Intents -> Nat] /\ subs \in [Subs -> Subscription \cup {None}]
  /\ revision \in Nat \ {0} /\ granted \in Seq(Intents)
  /\ \A i \in Intents : results[i] # 0 => intents[i] # None

\* What is confirmed stands on a review of a compiled revision.
SignedAfterReview ==
  \A i \in Intents : results[i] # 0 /\ intents[i].kind # "review" =>
    Reviewed(results[i]) /\ results[i] \in compiled

\* Some of the consents has been granted last.
NewestKnown ==
  \A P \in SUBSET (DOMAIN granted) : P # {} => \E m \in P : \A k \in P : k <= m

\* Live subscriptions stand on the current revision and a consent nobody revoked; one runs.
StandsFor(s) ==
  /\ subs[s].revision = revision /\ Bound(revision)
  /\ results[subs[s].consent] = revision /\ subs[s].consent \notin revoked
LiveOnConsent == \A s \in Live : StandsFor(s)
Running == {s \in Live : subs[s].state = "enabled"}
OneRuns == \A s, t \in Running : s = t

ConsentInv == Papers /\ NewestKnown /\ SignedAfterReview /\ LiveOnConsent /\ OneRuns

\* No document disappears, changes its kind or loses what it was confirmed for.
Kept ==
  \A i \in Intents : /\ intents[i] # None => intents'[i] # None /\ intents'[i].kind = intents[i].kind
                     /\ results[i] # 0 => results'[i] = results[i]

\* No row is for a revision the draft cannot have.
Bounded ==
  /\ revision \in Revisions /\ compiled \subseteq Revisions /\ busy \in BOOLEAN
  /\ \A i \in Intents :
       /\ intents[i] # None => intents[i].revision \in Revisions
       /\ proving[i] \in Revisions \cup {0} /\ results[i] \in Revisions \cup {0}
  /\ \A s \in Subs : subs[s] # None => subs[s].revision \in Revisions
=============================================================================
