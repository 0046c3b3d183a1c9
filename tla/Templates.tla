----------------------------- MODULE Templates ------------------------------
(***************************************************************************)
(* One Provider template series of packages/builder-service/templates.ts:  *)
(* a version is prepared from a draft revision, signed and published; a    *)
(* Maker instantiates a version, which reads a price between two looks at  *)
(* the catalog; a version is withdrawn for good.                           *)
(***************************************************************************)
EXTENDS Naturals, Sequences, FiniteSets

CONSTANTS
  Intents,      \* publication intents
  Instances,    \* instantiation requests; each makes one Maker draft
  MaxRevision,  \* bound: revisions of the Provider's draft
  MaxProfile,   \* bound: deployment profiles
  None

VARIABLES
  revision,   \* the Provider's draft
  reviewed,   \* revisions with a requirement receipt
  profile,    \* the deployment profile the service runs with
  intents,
  versions,   \* the intent behind each published version, in order
  withdrawn,  \* versions
  calls,      \* instantiations under way: the version each took as available
  pins,       \* the version a Maker draft was made from
  monitored   \* "none", "enabled" or "paused": the draft's subscription

vars == <<revision, reviewed, profile, intents, versions, withdrawn, calls, pins, monitored>>

Init ==
  /\ revision = 1 /\ reviewed = {} /\ profile = 1
  /\ intents = [i \in Intents |-> None] /\ versions = <<>> /\ withdrawn = {}
  /\ calls = [n \in Instances |-> 0] /\ pins = [n \in Instances |-> 0]
  /\ monitored = [n \in Instances |-> "none"]

\* A version neither withdrawn nor made for another profile.
Available(v) == v \in DOMAIN versions \ withdrawn /\ intents[versions[v]].profile = profile

Edit ==
  /\ revision < MaxRevision /\ revision' = revision + 1
  /\ UNCHANGED <<reviewed, profile, intents, versions, withdrawn, calls, pins, monitored>>

Review ==
  /\ reviewed' = reviewed \cup {revision}
  /\ UNCHANGED <<revision, profile, intents, versions, withdrawn, calls, pins, monitored>>

Deploy ==
  /\ profile < MaxProfile /\ profile' = profile + 1
  /\ UNCHANGED <<revision, reviewed, intents, versions, withdrawn, calls, pins, monitored>>

(***************************************************************************)
(* The Provider                                                            *)
(***************************************************************************)
PrepareVersion(i) ==
  /\ intents[i] = None /\ revision \in reviewed
  /\ intents' = [intents EXCEPT ![i] = [version |-> Len(versions) + 1, revision |-> revision,
                                        profile |-> profile, open |-> TRUE]]
  /\ UNCHANGED <<revision, reviewed, profile, versions, withdrawn, calls, pins, monitored>>

Expire(i) ==
  /\ intents[i] # None /\ intents[i].open
  /\ intents' = [intents EXCEPT ![i].open = FALSE]
  /\ UNCHANGED <<revision, reviewed, profile, versions, withdrawn, calls, pins, monitored>>

\* The next number of the series is still the one that was signed.
MyTurn(i) == intents[i].version = Len(versions) + 1

\* An intent is used once; a second publication answers the version it made.
Publish(i) ==
  /\ intents[i] # None /\ intents[i].open
  /\ intents[i].profile = profile /\ intents[i].revision = revision
  /\ \A v \in DOMAIN versions : versions[v] # i
  /\ MyTurn(i)
  /\ versions' = Append(versions, i)
  /\ UNCHANGED <<revision, reviewed, profile, intents, withdrawn, calls, pins, monitored>>

\* Under the lock of the series: subscriptions of its drafts are paused with it.
Withdraw(v) ==
  /\ v \in DOMAIN versions \ withdrawn
  /\ withdrawn' = withdrawn \cup {v}
  /\ monitored' = [n \in Instances |-> IF pins[n] = v /\ monitored[n] = "enabled" THEN "paused" ELSE monitored[n]]
  /\ UNCHANGED <<revision, reviewed, profile, intents, versions, calls, pins>>

(***************************************************************************)
(* The Makers                                                              *)
(***************************************************************************)
\* Reads the version and then, for a relative width, the market's price.
ReadPrice(n, v) ==
  /\ calls[n] = 0 /\ pins[n] = 0 /\ Available(v)
  /\ calls' = [calls EXCEPT ![n] = v]
  /\ UNCHANGED <<revision, reviewed, profile, intents, versions, withdrawn, pins, monitored>>

\* Under the lock of the series: the version is read again.
StillAvailable(v) == Available(v)

Instantiate(n) ==
  /\ calls[n] # 0 /\ StillAvailable(calls[n])
  /\ pins' = [pins EXCEPT ![n] = calls[n]] /\ calls' = [calls EXCEPT ![n] = 0]
  /\ UNCHANGED <<revision, reviewed, profile, intents, versions, withdrawn, monitored>>

\* A stale or missing price, an aborted request, a version no longer available.
Abandon(n) ==
  /\ calls[n] # 0
  /\ calls' = [calls EXCEPT ![n] = 0]
  /\ UNCHANGED <<revision, reviewed, profile, intents, versions, withdrawn, pins, monitored>>

\* The Maker enables a subscription; nothing looks at the withdrawal then.
Enable(n) ==
  /\ pins[n] # 0 /\ intents[versions[pins[n]]].profile = profile /\ monitored[n] # "enabled"
  /\ monitored' = [monitored EXCEPT ![n] = "enabled"]
  /\ UNCHANGED <<revision, reviewed, profile, intents, versions, withdrawn, calls, pins>>

Next ==
  \/ Edit \/ Review \/ Deploy
  \/ \E i \in Intents : PrepareVersion(i) \/ Expire(i) \/ Publish(i)
  \/ \E v \in DOMAIN versions : Withdraw(v) \/ \E n \in Instances : ReadPrice(n, v)
  \/ \E n \in Instances : Instantiate(n) \/ Abandon(n) \/ Enable(n)

Spec == Init /\ [][Next]_vars

(***************************************************************************)
(* Properties                                                              *)
(***************************************************************************)
\* The types of the rows.
TypeOK ==
  /\ revision \in 1 .. MaxRevision /\ reviewed \subseteq 1 .. MaxRevision /\ profile \in 1 .. MaxProfile
  /\ \A i \in Intents : intents[i] = None \/ intents[i] \in
       [version : 1 .. Cardinality(Intents), revision : 1 .. MaxRevision, profile : 1 .. MaxProfile, open : BOOLEAN]
  /\ \A v \in DOMAIN versions : versions[v] \in Intents
  /\ withdrawn \subseteq DOMAIN versions
  /\ \A n \in Instances : {calls[n], pins[n]} \subseteq DOMAIN versions \cup {0}
  /\ monitored \in [Instances -> {"none", "enabled", "paused"}]

\* Of every step. The catalog a Maker reads is the one the Provider signed: version v is the intent
\* signed as version v of a reviewed revision, no intent is two versions, and no draft
\* is made from a version at or after its withdrawal or under another profile.
CatalogIsSigned ==
  /\ \A v \in DOMAIN versions' : LET i == intents[versions'[v]] IN i.version = v /\ i.revision \in reviewed
  /\ \A v \in DOMAIN versions : versions'[v] = versions[v]
  /\ \A n \in Instances : pins'[n] # pins[n] =>
       pins'[n] \notin withdrawn /\ intents[versions[pins'[n]]].profile = profile

--------------------------------------------------------------------------------
\* What holds for any series: the published intents are those signed for their places.
SignedRow == [version : Nat \ {0}, revision : 1 .. MaxRevision, profile : 1 .. MaxProfile, open : BOOLEAN]
NoSigned == None \notin SignedRow
Rows ==
  /\ revision \in 1 .. MaxRevision /\ reviewed \subseteq 1 .. MaxRevision /\ profile \in 1 .. MaxProfile
  /\ intents \in [Intents -> SignedRow \cup {None}] /\ versions \in Seq(Intents)
  /\ withdrawn \subseteq DOMAIN versions
  /\ calls \in [Instances -> Nat] /\ pins \in [Instances -> Nat]
  /\ monitored \in [Instances -> {"none", "enabled", "paused"}]
Published == \A v \in DOMAIN versions : intents[versions[v]] # None /\ intents[versions[v]].version = v
Reviewed == \A i \in Intents : intents[i] # None =>
  intents[i].revision \in reviewed /\ intents[i].version <= Cardinality(Intents)
Taken == \A n \in Instances : {calls[n], pins[n]} \subseteq DOMAIN versions \cup {0}
SeriesInv == Rows /\ Published /\ Reviewed /\ Taken
=============================================================================
