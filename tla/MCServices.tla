------------------------------ MODULE MCServices ------------------------------
(***************************************************************************)
(* Small instances of the guard and of the parts of the service that do    *)
(* not share state with the modules of another run, with the pages that    *)
(* sign in and seal limits.  They are explored side by side: a behaviour   *)
(* picks a part and takes its steps alone.  The variables v1 .. v16 hold   *)
(* the state of the part picked, under the names its WITH gives them; the  *)
(* guard of the executor keeps its own variables.  At the end the          *)
(* properties are proved, for any makers, strategies, plans and bounds:    *)
(* the invariant of a part holds at first, every step of the part keeps    *)
(* it, and it implies the property; a step of another part leaves it alone. *)
(***************************************************************************)
EXTENDS ServiceParts, MakerParts, TLC

CONSTANTS M, A, B   \* a maker and two strategies for the guard

Both(n) == [t \in Tokens |-> n]
Ceilings(most, post) == [most |-> Both(most), post |-> Both(post)]

Standing(s, nonce, dirs) ==
  [maker |-> M, strategy |-> s, schema |-> 2, nonce |-> nonce, after |-> 0,
   until |-> 0, dirs |-> dirs, sorted |-> TRUE, caps |-> Ceilings(2, 3)]
Lease(s, nonce, from, to) ==
  [Standing(s, nonce, {0}) EXCEPT !.schema = 1, !.after = from, !.until = to]

\* Standing, bounded, pausing and defective reports for the two strategies.
Reports ==
  {Standing(A, 1, {0}), Standing(A, 3, {}), Standing(A, 4, Tokens),
   Lease(A, 2, 1, 3), Lease(A, 5, 0, 4),
   [Standing(A, 6, {1}) EXCEPT !.until = 4],
   Standing(B, 1, {0}), Standing(B, 2, {}),
   [Standing(B, 3, {0}) EXCEPT !.sorted = FALSE],
   [Standing(B, 4, {0}) EXCEPT !.caps = Ceilings(0, 3)]}

\* The program of A is narrower than some of its reports.
ProgramCaps == [s \in Strategies |-> IF s = A THEN Ceilings(1, 2) ELSE Ceilings(2, 3)]

StartingFunds == {[t \in Tokens |-> IF t = 0 THEN 1 ELSE 2]}

ThreeSteps == <<"read", "fund", "ship">>
ThreeCases == <<"settlement", "expiry", "deadline">>

\* Values every part treats alike: TLC may swap them.
Alike == Permutations(X) \cup Permutations(Y)

VARIABLE part

guard == <<report, latestReportBlock, active, revoked, now, aqua>>
GuardRests == Init

\* What a Provider keeps secret, what Makers sealed and what may be observed.
Each(a, b) == [t \in {0, 1} |-> IF t = 0 THEN a ELSE b]
Rule(p, v, allows, most, ttl) ==
  [when |-> [price |-> p, volatility |-> v], allows |-> allows, most |-> most, ttl |-> ttl]
TwoRules ==
  [s \in Z |-> [rules |-> <<Rule({3}, 0 .. 4, {0, 1}, Each(3, 9), 2), Rule({2, 3}, 0 .. 9, {0}, Each(2, 4), 1)>>,
                   post |-> Each(3, 9)]]
ThreeLimits ==
  {[version |-> 1, most |-> Each(2, 4), budget |-> 8, shareBps |-> 7, ttl |-> 2],
   [version |-> 3, budget |-> 8, shareBps |-> 7, token0Value |-> 5, swapValue |-> 4],
   [version |-> 4, most |-> Each(2, 4), post |-> Each(2, 7)]}
Market(bid, ask, fresh, traded, closes, balance) ==
  [bid |-> bid, ask |-> ask, fresh |-> fresh, traded |-> traded, closes |-> closes, balance |-> balance]
FourMarkets ==
  {Market(3, 3, TRUE, 2, <<7, 6, 6>>, Each(0, 3)), Market(2, 3, TRUE, 1, <<5, 4, 3>>, Each(1, 8)),
   Market(2, 2, FALSE, 2, <<3, 3, 3>>, Each(3, 3)), Market(3, 3, TRUE, 2, <<6, 7, 5>>, Each(0, 8))}

\* Reports for the first guard: a renewal, a pause, one that starts later.
OldReport(s, n, after, until, dirs, most, post) ==
  [strategy |-> s, nonce |-> n, after |-> after, until |-> until, dirs |-> dirs, pair |-> 0, most |-> most, post |-> post]
OldReports == UNION {
  {OldReport(s, 1, 0, 2, {0, 1}, 2, 3), OldReport(s, 2, 0, 1, {}, 0, 0), OldReport(s, 2, 0, 2, {0}, 2, 3),
   OldReport(s, 3, 1, 3, {1}, 1, 2), OldReport(s, 4, 0, 3, {0}, 2, 2)} : s \in X}

\* One source, of every log.
OneSource == <<z1>>
AllOfIt == [l \in X |-> z1]

OB == INSTANCE LeaseQueue WITH
     Jobs <- {}, Digests <- {}, Entries <- {1, 2}, Workers <- X, Limit <- 2, MaxAttempts <- 2,
     jobs <- v1, accepted <- v2, results <- v3, outbox <- v4, sent <- v5, lost <- v6,
     worker <- v7
JO == INSTANCE LeaseQueue WITH
     Jobs <- X, Digests <- Y, Entries <- {}, Workers <- {z1, z2}, Limit <- 1, MaxAttempts <- 3,
     jobs <- v1, accepted <- v2, results <- v3, outbox <- v4, sent <- v5, lost <- v6,
     worker <- v7

\* What a part of n variables leaves alone: the guard and the slots it does not use.
slots == <<v1, v2, v3, v4, v5, v6, v7, v8, v9, v10, v11, v12, v13, v14, v15, v16>>
Rest16 == <<part, guard>>
Rest15 == <<v16, Rest16>>
Rest10 == <<v11, v12, v13, v14, v15, Rest15>>
Rest9 == <<v10, Rest10>>
Rest8 == <<v9, Rest9>>
Rest7 == <<v8, Rest8>>
Rest6 == <<v7, Rest7>>
Rest5 == <<v6, Rest6>>

Unused16 == GuardRests
Unused15 == v16 = None /\ Unused16
Unused10 == v11 = None /\ v12 = None /\ v13 = None /\ v14 = None /\ v15 = None /\ Unused15
Unused9 == v10 = None /\ Unused10
Unused8 == v9 = None /\ Unused9
Unused7 == v8 = None /\ Unused8
Unused6 == v7 = None /\ Unused7
Unused5 == v6 = None /\ Unused6

AllInit ==
  \/ part = "guard" /\ Unused5 /\ v1 = None /\ v2 = None /\ v3 = None /\ v4 = None /\ v5 = None
  \/ part = "mandates" /\ MD!Init /\ Unused6
  \/ part = "releases" /\ PB!Init /\ Unused7
  \/ part = "activations" /\ AC!Init /\ Unused7
  \/ part = "autopilot" /\ AP!Init /\ Unused6
  \/ part = "consents" /\ CO!Init /\ Unused9
  \/ part = "templates" /\ TM!Init /\ Unused9
  \/ part = "authorization" /\ AZ!Init /\ Unused5
  \/ part = "events" /\ EV!Init /\ Unused8
  \/ part = "names" /\ EN!Init /\ Unused9
  \/ part = "sessions" /\ SE!Init /\ Unused6
  \/ part = "monitor" /\ MO!Init /\ Unused5
  \/ part = "guardV1" /\ G1!Init /\ Unused6
  \/ part = "fork" /\ FK!Init /\ Unused10
  \/ part = "outbox" /\ OB!Init /\ Unused7
  \/ part = "jobs" /\ JO!Init /\ Unused7
  \/ part = "outages" /\ OM!Init /\ Unused9
  \/ part = "login" /\ WS!Init /\ Unused9
  \/ part = "making" /\ MF!Init /\ Unused15
  \/ part = "drafts" /\ DR!Init /\ Unused6

AllNext ==
  \/ part = "guard" /\ Next /\ UNCHANGED <<part, slots>>
  \/ part = "mandates" /\ MD!Next /\ UNCHANGED Rest6
  \/ part = "releases" /\ PB!Next /\ UNCHANGED Rest7
  \/ part = "activations" /\ AC!Next /\ UNCHANGED Rest7
  \/ part = "autopilot" /\ AP!Next /\ UNCHANGED Rest6
  \/ part = "consents" /\ CO!Next /\ UNCHANGED Rest9
  \/ part = "templates" /\ TM!Next /\ UNCHANGED Rest9
  \/ part = "authorization" /\ AZ!Next /\ UNCHANGED Rest5
  \/ part = "events" /\ EV!Next /\ UNCHANGED Rest8
  \/ part = "names" /\ EN!Next /\ UNCHANGED Rest9
  \/ part = "sessions" /\ SE!Next /\ UNCHANGED Rest6
  \/ part = "monitor" /\ MO!Next /\ UNCHANGED Rest5
  \/ part = "guardV1" /\ G1!Next /\ UNCHANGED Rest6
  \/ part = "fork" /\ FK!Next /\ UNCHANGED Rest10
  \/ part = "outbox" /\ OB!Next /\ UNCHANGED Rest7
  \/ part = "jobs" /\ JO!Next /\ UNCHANGED Rest7
  \/ part = "outages" /\ OM!Next /\ UNCHANGED Rest9
  \/ part = "login" /\ WS!Next /\ UNCHANGED Rest9
  \/ part = "making" /\ MF!Next /\ UNCHANGED Rest15
  \/ part = "drafts" /\ DR!Next /\ UNCHANGED Rest6

all == <<part, guard, slots>>
AllSpec == AllInit /\ [][AllNext]_all

\* The bounds leave room for a first version, the script of a simulation is one, and None
\* is none of the rows.
ASSUME ServicesAssumption ==
  /\ N \in Nat \ {0} /\ None \notin X /\ IsFiniteSet(X)
  /\ PB!ActivationBounds /\ AC!ActivationBounds /\ CO!NoDocument /\ DR!Apart /\ FK!PlainScript
  /\ TM!NoSigned /\ AZ!InputsAreTyped /\ AP!FreshIntents /\ G1!Assigned
  /\ MO!NoneIsNoStrategy /\ SE!Lives /\ WS!NoneIsNobody /\ MD!NoneIsNoState /\ MF!NoneIsNoChoice /\ EV!NoneIsNoLog
  /\ OM!NoneIsNoHealth /\ OB!QueueBounds /\ JO!QueueBounds

(***************************************************************************)
(* The properties of the parts, each with the types of the parts it is     *)
(* about.                                                                  *)
(***************************************************************************)
\* The mandate service shows accepted reports and mined swaps only, as they were,
\* however its requests and their saves overlap and wherever it restarts; the page that seals limits does so
\* for the maker of the mandate it shows, and one that says it loads is reading.
StoredIsEvidence ==
  /\ part = "mandates" => MD!TypeOK /\ MD!StoredIsEvidence
  /\ part = "making" => MF!TypeOK /\ MF!SealedForItsMaker /\ MF!RefreshEnds

\* A release stands for one shipped program, and is evaluated for no other.
OneProgramPerVersion ==
  /\ part = "releases" => PB!TypeOK
  /\ part = "activations" => AC!TypeOK /\ AC!OneProgramPerVersion

\* What a Provider published, as a release or as a template, never changes; what was
\* withdrawn is not active again and no draft is made from it.
PublishedStays ==
  [][/\ part = "releases" => PB!PublicationIsFinal
     /\ part = "templates" => TM!TypeOK /\ TM!CatalogIsSigned]_all

\* A decision of the autopilot survives crashes and is counted once; a follower of a
\* Maker's session works on proven replacements of the strategy.
ExecutorRemembers ==
  /\ part = "autopilot" => AP!TypeOK /\ AP!DecisionsAreCounted
  /\ part = "monitor" => MO!TypeOK /\ MO!FollowsTheMaker /\ MO!LiveIsKnown

\* An event subscription runs on the Maker's consent to this very revision.
StandsOnConsent == part = "consents" => CO!TypeOK /\ CO!StandsOnConsent

\* No authorization exceeds what the Maker sealed, its envelope or its balance.
AuthorizationIsBounded == part = "authorization" => AZ!TypeOK /\ AZ!AuthorizationIsBounded

\* What an evaluation answers is what the guard then holds, and the volatility a rule is
\* matched with is not an understatement.
AnswerIsInForce == [][part = "authorization" => AZ!AnswerIsInForce /\ AZ!VolatilityIsNotUnderstated]_all

\* No log of the chain is passed over, through failures, crashes, reorganisations and stops,
\* but for those of a batch that a stop interrupts; no entry of a queue is dropped, or done by
\* one whose claim was passed on; and no outage of a Maker's sources goes unanswered.
NothingSkipped ==
  /\ part = "events" => EV!TypeOK /\ EV!NothingSkipped
  /\ part = "outbox" => OB!TypeOK /\ OB!NothingIsDropped
  /\ part = "jobs" => JO!TypeOK /\ JO!ResultIsOfTheHolder
  /\ part = "outages" => OM!TypeOK /\ OM!OutageIsAnswered

\* Whatever a session may do was proven by the key of its wallet; and who the editor shows
\* signed in is the wallet connected.
SessionsAreProven ==
  /\ part = "sessions" => SE!TypeOK /\ SE!SessionsAreProven
  /\ part = "login" => WS!TypeOK /\ WS!ShowsTheWallet /\ WS!LoadingEnds

\* The first guard trades under the newest report it was sent, unaltered.
NewestInForce == part = "guardV1" => G1!TypeOK /\ G1!NewestInForce

\* Evidence of a simulation rests on its own cases: nothing of one leaks into another.
EvidenceIsSound == part = "fork" => FK!TypeOK /\ FK!EvidenceIsSound

\* A draft means what its owner last said and saw.
DraftMeansWhatWasSaid == part = "drafts" => DR!TypeOK /\ DR!DraftMeansWhatWasSaid

\* An ENS name stands for a manifest its Provider signed for a version not withdrawn.
NameStandsForSigned == part = "names" => EN!TypeOK /\ EN!NameStandsForSigned
-----------------------------------------------------------------------------
(* The parts are explored side by side: one is picked and takes all steps. *)

\* No step leaves the part that was picked.
LEMMA PartStays == [AllNext]_all => part' = part
BY DEF AllNext, all, Rest5, Rest6, Rest7, Rest8, Rest9, Rest10, Rest15, Rest16

-----------------------------------------------------------------------------
(* The properties of the parts.                                            *)

\* However confirmations overlap and the wallet or the browser fails, a version stands for
\* one shipped program and is evaluated for no other.
THEOREM VersionsHaveOneProgram == AllSpec => []OneProgramPerVersion
<1> DEFINE Inv == /\ part = "releases" => ReleasesInv
                  /\ part = "activations" => AC!ActivationInv
<1>1. AllInit => Inv
  BY ServicesAssumption, ReleasesBegin, ActivationsBegin DEF AllInit
<1>2. Inv /\ [AllNext]_all => Inv'
  <2> SUFFICES ASSUME Inv, [AllNext]_all PROVE Inv'
    OBVIOUS
  <2>1. CASE part = "releases"
    <3>1. [PB!Next]_(PB!vars)
      BY <2>1 DEF AllNext, all, slots, PB!vars
    <3> QED BY <2>1, <3>1, PartStays, ReleasesKeep, ServicesAssumption
  <2>2. CASE part = "activations"
    <3>1. [AC!Next]_(AC!vars)
      BY <2>2 DEF AllNext, all, slots, AC!vars
    <3> QED BY <2>2, <3>1, PartStays, ActivationsKeep, ServicesAssumption
  <2> QED BY <2>1, <2>2, PartStays
<1>3. Inv => OneProgramPerVersion
  BY ServicesAssumption, ReleasesHold, ActivationsHold DEF OneProgramPerVersion
<1> HIDE DEF Inv
<1> QED BY <1>1, <1>2, <1>3, PTL DEF AllSpec

\* An event subscription runs on the Maker's consent to this very revision, for any
\* subscriptions and revisions.
THEOREM SubscriptionsStand == AllSpec => []StandsOnConsent
<1> DEFINE Inv == part = "consents" => CO!ConsentInv /\ CO!Bounded
<1>1. AllInit => Inv
  BY ServicesAssumption, ConsentInit, BoundedBegins DEF AllInit
<1>2. Inv /\ [AllNext]_all => Inv'
  <2> SUFFICES ASSUME Inv, [AllNext]_all, part = "consents" PROVE Inv'
    BY PartStays
  <2>1. [CO!Next]_(CO!vars)
    BY DEF AllNext, all, slots, CO!vars
  <2> QED BY <2>1, ConsentStep, BoundedStep, ServicesAssumption
<1>3. Inv => StandsOnConsent
  BY ConsentHolds, RowsHaveTypes DEF StandsOnConsent
<1> HIDE DEF Inv
<1> QED BY <1>1, <1>2, <1>3, PTL DEF AllSpec

\* The first guard trades under the newest report it was sent, unaltered, however reports
\* are delayed, repeated and reordered.
THEOREM NewestReportRules == AllSpec => []NewestInForce
<1> DEFINE Inv == part = "guardV1" => G1!InForceInv
<1>1. AllInit => Inv
  BY ServicesAssumption, FirstGuardBegins DEF AllInit
<1>2. Inv /\ [AllNext]_all => Inv'
  <2> SUFFICES ASSUME Inv, [AllNext]_all, part = "guardV1" PROVE Inv'
    BY PartStays
  <2>1. [G1!Next]_(G1!vars)
    BY DEF AllNext, all, slots, G1!vars
  <2> QED BY <2>1, FirstGuardKeeps, ServicesAssumption
<1>3. Inv => NewestInForce
  BY ServicesAssumption, FirstGuardHolds DEF NewestInForce
<1> HIDE DEF Inv
<1> QED BY <1>1, <1>2, <1>3, PTL DEF AllSpec

\* The saved draft of a strategy means what its owner last said and saw, however proposals
\* of the agent, edits and reloads overlap.
THEOREM DraftsMeanWhatWasSaid == AllSpec => []DraftMeansWhatWasSaid
<1> DEFINE Inv == part = "drafts" => DR!DraftInv
<1>1. AllInit => Inv
  BY ServicesAssumption, DraftsBegin DEF AllInit
<1>2. Inv /\ [AllNext]_all => Inv'
  <2> SUFFICES ASSUME Inv, [AllNext]_all, part = "drafts" PROVE Inv'
    BY PartStays
  <2>1. [DR!Next]_(DR!vars)
    BY DEF AllNext, all, slots, DR!vars
  <2> QED BY <2>1, DraftsKeep, ServicesAssumption
<1>3. Inv => DraftMeansWhatWasSaid
  BY ServicesAssumption, DraftsHold DEF DraftMeansWhatWasSaid
<1> HIDE DEF Inv
<1> QED BY <1>1, <1>2, <1>3, PTL DEF AllSpec

\* An ENS name found to stand for a version stands for a manifest its Provider signed, for
\* any Providers, writers and Makers.
THEOREM NamesAreSigned == AllSpec => []NameStandsForSigned
<1> DEFINE Inv == part = "names" => EN!NamesInv
<1>1. AllInit => Inv
  BY ServicesAssumption, NamesBegin DEF AllInit
<1>2. Inv /\ [AllNext]_all => Inv'
  <2> SUFFICES ASSUME Inv, [AllNext]_all, part = "names" PROVE Inv'
    BY PartStays
  <2>1. [EN!Next]_(EN!vars)
    BY DEF AllNext, all, slots, EN!vars
  <2> QED BY <2>1, NamesKeep, ServicesAssumption
<1>3. Inv => NameStandsForSigned
  BY ServicesAssumption, NamesHold DEF NameStandsForSigned
<1> HIDE DEF Inv
<1> QED BY <1>1, <1>2, <1>3, PTL DEF AllSpec

\* Evidence of a simulation is sound for every script and every behaviour of the contracts.
THEOREM SimulationsAreEvidence == AllSpec => []EvidenceIsSound
<1> DEFINE Inv == part = "fork" => FK!ForkInv
<1>1. AllInit => Inv
  BY ServicesAssumption, ForksBegin DEF AllInit
<1>2. Inv /\ [AllNext]_all => Inv'
  <2> SUFFICES ASSUME Inv, [AllNext]_all, part = "fork" PROVE Inv'
    BY PartStays
  <2>1. [FK!Next]_(FK!vars)
    BY DEF AllNext, all, slots, FK!vars
  <2> QED BY <2>1, ForksKeep, ServicesAssumption
<1>3. Inv => EvidenceIsSound
  BY ServicesAssumption, ForksHold DEF EvidenceIsSound
<1> HIDE DEF Inv
<1> QED BY <1>1, <1>2, <1>3, PTL DEF AllSpec

\* What a Provider published stays: releases are final, and a template version is the one
\* that was signed, of a reviewed revision, and no draft is made from it once withdrawn.
THEOREM PublicationsStay == AllSpec => PublishedStays
<1> DEFINE Inv == /\ part = "releases" => ReleasesInv
                  /\ part = "templates" => TM!SeriesInv
           Stays == /\ part = "releases" => PB!PublicationIsFinal
                    /\ part = "templates" => TM!TypeOK /\ TM!CatalogIsSigned
<1>1. AllInit => Inv
  BY ServicesAssumption, ReleasesBegin, SeriesBegin DEF AllInit
<1>2. Inv /\ [AllNext]_all => Inv' /\ Stays
  <2> SUFFICES ASSUME Inv, [AllNext]_all PROVE Inv' /\ Stays
    OBVIOUS
  <2>1. CASE part = "releases"
    <3>1. [PB!Next]_(PB!vars)
      BY <2>1 DEF AllNext, all, slots, PB!vars
    <3>2. ReleasesInv' /\ PB!PublicationIsFinal
      BY <2>1, <3>1, ReleasesKeep, ReleasesAreFinal, ServicesAssumption
    <3> QED BY <2>1, <3>2, PartStays
  <2>2. CASE part = "templates"
    <3>1. [TM!Next]_(TM!vars)
      BY <2>2 DEF AllNext, all, slots, TM!vars
    <3>2. TM!SeriesInv' /\ TM!TypeOK /\ TM!CatalogIsSigned
      BY <2>2, <3>1, SeriesKeep, SeriesHold, SeriesIsSigned, ServicesAssumption
    <3> QED BY <2>2, <3>2, PartStays
  <2> QED BY <2>1, <2>2, PartStays
<1>3. PublishedStays <=> [][Stays]_all
  BY DEF PublishedStays
<1> HIDE DEF Inv, Stays
<1> QED BY <1>1, <1>2, <1>3, PTL DEF AllSpec

\* No authorization exceeds what the Maker sealed, its envelope or its balance, whatever the
\* Provider's rules, the limits and the markets are.
THEOREM AuthorizationsAreBounded == AllSpec => []AuthorizationIsBounded
<1> DEFINE Inv == part = "authorization" => AZ!RunsInv
<1>1. AllInit => Inv
  BY ServicesAssumption, RunsBegin DEF AllInit
<1>2. Inv /\ [AllNext]_all => Inv'
  <2> SUFFICES ASSUME Inv, [AllNext]_all, part = "authorization" PROVE Inv'
    BY PartStays
  <2>1. [AZ!Next]_(AZ!vars)
    BY DEF AllNext, all, slots, AZ!vars
  <2> QED BY <2>1, RunsKeep, ServicesAssumption
<1>3. Inv => AuthorizationIsBounded
  BY RunsHold DEF AuthorizationIsBounded
<1> HIDE DEF Inv
<1> QED BY <1>1, <1>2, <1>3, PTL DEF AllSpec

\* What an evaluation answers is what the guard holds when it answers, however the runs of
\* the triggers overlap.
THEOREM AnswersAreInForce == AllSpec => [][part = "authorization" => AZ!AnswerIsInForce]_all
<1> DEFINE Inv == part = "authorization" => AZ!RunsInv
           InForce == part = "authorization" => AZ!AnswerIsInForce
<1>1. AllInit => Inv
  BY ServicesAssumption, RunsBegin DEF AllInit
<1>2. Inv /\ [AllNext]_all => Inv' /\ InForce
  <2> SUFFICES ASSUME Inv, [AllNext]_all, part = "authorization" PROVE Inv' /\ InForce
    BY PartStays
  <2>1. [AZ!Next]_(AZ!vars)
    BY DEF AllNext, all, slots, AZ!vars
  <2> QED BY <2>1, RunsKeep, AnswersHold, ServicesAssumption
<1>3. (AllSpec => [][InForce]_all) <=> (AllSpec => [][part = "authorization" => AZ!AnswerIsInForce]_all)
  OBVIOUS
<1> HIDE DEF Inv, InForce
<1> QED BY <1>1, <1>2, <1>3, PTL DEF AllSpec

\* A decision of the autopilot survives crashes and is counted once; a session that follows
\* a Maker's works on proven replacements of the strategy, and the published plan or its
\* writer knows the live one.
THEOREM ExecutionIsRemembered == AllSpec => []ExecutorRemembers
<1> DEFINE Inv == /\ part = "autopilot" => AP!DecisionsInv
                  /\ part = "monitor" => MO!SessionInv
<1>1. AllInit => Inv
  BY ServicesAssumption, DecisionsBegin, SessionsBegin DEF AllInit
<1>2. Inv /\ [AllNext]_all => Inv'
  <2> SUFFICES ASSUME Inv, [AllNext]_all PROVE Inv'
    OBVIOUS
  <2>1. CASE part = "autopilot"
    <3>1. [AP!Next]_(AP!vars)
      BY <2>1 DEF AllNext, all, slots, AP!vars
    <3> QED BY <2>1, <3>1, PartStays, DecisionsKeep, ServicesAssumption
  <2>2. CASE part = "monitor"
    <3>1. [MO!Next]_(MO!vars)
      BY <2>2 DEF AllNext, all, slots, MO!vars
    <3> QED BY <2>2, <3>1, PartStays, SessionsKeep, ServicesAssumption
  <2> QED BY <2>1, <2>2, PartStays
<1>3. Inv => ExecutorRemembers
  <2>1. AP!DecisionsInv => AP!TypeOK /\ AP!DecisionsAreCounted
    BY DEF AP!DecisionsInv
  <2> QED BY <2>1, ServicesAssumption, SessionsHold DEF ExecutorRemembers
<1> HIDE DEF Inv
<1> QED BY <1>1, <1>2, <1>3, PTL DEF AllSpec

\* Whatever a session may do was proven by the key of its wallet, however logins and
\* requests overlap; and who the editor shows signed in is the wallet connected.
THEOREM SessionsProven == AllSpec => []SessionsAreProven
<1> DEFINE Inv == /\ part = "sessions" => SE!LoginInv
                  /\ part = "login" => WS!WalletInv
<1>1. AllInit => Inv
  BY ServicesAssumption, LoginsBegin, WalletsBegin DEF AllInit
<1>2. Inv /\ [AllNext]_all => Inv'
  <2> SUFFICES ASSUME Inv, [AllNext]_all PROVE Inv'
    OBVIOUS
  <2>1. CASE part = "sessions"
    <3>1. [SE!Next]_(SE!vars)
      BY <2>1 DEF AllNext, all, slots, SE!vars
    <3> QED BY <2>1, <3>1, PartStays, LoginsKeep, ServicesAssumption
  <2>2. CASE part = "login"
    <3>1. [WS!Next]_(WS!vars)
      BY <2>2 DEF AllNext, all, slots, WS!vars
    <3> QED BY <2>2, <3>1, PartStays, WalletsKeep, ServicesAssumption
  <2> QED BY <2>1, <2>2, PartStays
<1>3. Inv => SessionsAreProven
  <2>1. WS!WalletInv => WS!TypeOK /\ WS!ShowsTheWallet /\ WS!LoadingEnds
    BY DEF WS!WalletInv
  <2> QED BY <2>1, ServicesAssumption, LoginsHold DEF SessionsAreProven
<1> HIDE DEF Inv
<1> QED BY <1>1, <1>2, <1>3, PTL DEF AllSpec

\* What the mandate service shows is evidence, however requests overlap and wherever it
\* restarts; and limits are sealed for the maker of what the page shows.
THEOREM MandatesAreEvidence == AllSpec => []StoredIsEvidence
<1> DEFINE Inv == /\ part = "mandates" => MD!EvidenceInv
                  /\ part = "making" => MF!PageInv
<1>1. AllInit => Inv
  BY ServicesAssumption, EvidenceBegins, PageBegins DEF AllInit
<1>2. Inv /\ [AllNext]_all => Inv'
  <2> SUFFICES ASSUME Inv, [AllNext]_all PROVE Inv'
    OBVIOUS
  <2>1. CASE part = "mandates"
    <3>1. [MD!Next]_(MD!vars)
      BY <2>1 DEF AllNext, all, slots, MD!vars
    <3> QED BY <2>1, <3>1, PartStays, EvidenceKeeps, ServicesAssumption
  <2>2. CASE part = "making"
    <3>1. [MF!Next]_(MF!vars)
      BY <2>2 DEF AllNext, all, slots, MF!vars
    <3> QED BY <2>2, <3>1, PartStays, PageKeeps, ServicesAssumption
  <2> QED BY <2>1, <2>2, PartStays
<1>3. Inv => StoredIsEvidence
  <2>1. MF!PageInv => MF!TypeOK /\ MF!SealedForItsMaker /\ MF!RefreshEnds
    BY DEF MF!PageInv
  <2> QED BY <2>1, ServicesAssumption, EvidenceHolds DEF StoredIsEvidence
<1> HIDE DEF Inv
<1> QED BY <1>1, <1>2, <1>3, PTL DEF AllSpec

\* No log of the chain is passed over but those of a batch that a stop interrupts, no entry of
\* a queue is dropped or done by one whose claim was passed on, and no outage goes
\* unanswered, for any logs, jobs, workers and subscriptions, through failures, crashes,
\* reorganisations and stops.
THEOREM NothingIsSkipped == AllSpec => []NothingSkipped
<1> DEFINE Inv == /\ part = "events" => EV!SourceInv
                  /\ part = "outbox" => OB!QueueInv
                  /\ part = "jobs" => JO!QueueInv
                  /\ part = "outages" => OM!OutageInv
<1>1. AllInit => Inv
  BY ServicesAssumption, SourceBegins, OutageBegins, OB!QueueInit, JO!QueueInit DEF AllInit
<1>2. Inv /\ [AllNext]_all => Inv'
  <2> SUFFICES ASSUME Inv, [AllNext]_all PROVE Inv'
    OBVIOUS
  <2>1. CASE part = "events"
    <3>1. [EV!Next]_(EV!vars)
      BY <2>1 DEF AllNext, all, slots, EV!vars
    <3> QED BY <2>1, <3>1, PartStays, SourceKeeps, ServicesAssumption
  <2>2. CASE part = "outbox"
    <3>1. [OB!Next]_(OB!vars)
      BY <2>2 DEF AllNext, all, slots, OB!vars
    <3> QED BY <2>2, <3>1, PartStays, OB!QueueStep, ServicesAssumption
  <2>3. CASE part = "jobs"
    <3>1. [JO!Next]_(JO!vars)
      BY <2>3 DEF AllNext, all, slots, JO!vars
    <3> QED BY <2>3, <3>1, PartStays, JO!QueueStep, ServicesAssumption
  <2>4. CASE part = "outages"
    <3>1. [OM!Next]_(OM!vars)
      BY <2>4 DEF AllNext, all, slots, OM!vars
    <3> QED BY <2>4, <3>1, PartStays, OutageKeeps, ServicesAssumption
  <2> QED BY <2>1, <2>2, <2>3, <2>4, PartStays
<1>3. Inv => NothingSkipped
  <2>1. OB!QueueInv => OB!TypeOK /\ OB!NothingIsDropped
    BY DEF OB!QueueInv, OB!Shapes, OB!JobStands, OB!EntryStands, OB!InHands, OB!JobRow, OB!EntryRow,
           OB!TypeOK, OB!NothingIsDropped
  <2>2. JO!QueueInv => JO!TypeOK /\ JO!ResultIsOfTheHolder
    BY DEF JO!QueueInv, JO!Shapes, JO!JobStands, JO!EntryStands, JO!JobRow, JO!EntryRow,
           JO!TypeOK, JO!ResultIsOfTheHolder
  <2> QED BY <2>1, <2>2, ServicesAssumption, SourceHolds, OutageHolds DEF NothingSkipped
<1> HIDE DEF Inv
<1> QED BY <1>1, <1>2, <1>3, PTL DEF AllSpec
=============================================================================
