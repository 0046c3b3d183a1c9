------------------------------ MODULE EnsNames ------------------------------
(***************************************************************************)
(* Strategies found by name.  A Provider claims one label under the        *)
(* platform name (PinToolNamespaceRegistrar.sol), creates a strategy name  *)
(* below it and signs, version by version, that the name may stand for it: *)
(* the manifests of orchestrator/src/ens-service.mjs.  The Provider's      *)
(* browser, a delegated wallet or the publisher process                    *)
(* (ens-publisher.mjs) then write the version into the name's ENS record   *)
(* (shared/ens/transactions.mjs), and a Maker resolves the name, reviews   *)
(* the version and has it validated again with the mandate.  Releases are  *)
(* the ones Activations describes, here one per Provider.                  *)
(***************************************************************************)
EXTENDS Naturals, FiniteSets

CONSTANTS
  Providers, Labels,
  Writers,     \* sessions that may write a record: browsers and publisher passes
  Makers,
  MaxVersion,  \* bound: versions of a release
  None

VARIABLES
  owner,      \* label -> the Provider whose namespace it is
  created,    \* labels whose strategy name exists
  release,    \* Provider -> newest version, whether it is a withdrawal, what that covers
  manifests,  \* <<label, version>>: the signed public manifests
  pointer,    \* label -> version in the ENS text record, 0 when there is none
  granted,    \* labels whose record the publisher's wallet may write
  writer, maker,
  accepted    \* mandates taken with a name: version, and what was withdrawn when asked

vars == <<owner, created, release, manifests, pointer, granted, writer, maker, accepted>>
chain == <<owner, created, pointer, granted>>
files == <<release, manifests>>

Versions == 1 .. MaxVersion
NoWriter == [step |-> "idle", label |-> None, version |-> 0]
NoMaker == [step |-> "idle", label |-> None, reviewed |-> 0, read |-> 0, begun |-> 0]

Init ==
  /\ owner = [l \in Labels |-> None] /\ created = {}
  /\ release = [p \in Providers |-> [latest |-> 0, withdrawn |-> FALSE, through |-> 0]]
  /\ manifests = {} /\ pointer = [l \in Labels |-> 0] /\ granted = {}
  /\ writer = [w \in Writers |-> NoWriter] /\ maker = [m \in Makers |-> NoMaker]
  /\ accepted = {}

Release(l) == release[owner[l]]

\* publication: the version and the newest one stand, and no withdrawal covers it.
Published(l, v) ==
  v <= Release(l).latest /\ ~Release(l).withdrawn /\ v > Release(l).through
\* describeName: platform, Provider namespace and strategy name all registered.
Described(l) == l \in created
Approved(l, v) == Described(l) /\ Published(l, v) /\ <<l, v>> \in manifests
\* latest-approved: the newest version or none.
LatestApproved(l) == {v \in Versions : Approved(l, v) /\ v = Release(l).latest}

----------------------------------------------------------------------------
(* Names and releases. *)

\* register: one label for a wallet, one wallet for a label.
Claim(p, l) ==
  /\ owner[l] = None /\ \A k \in Labels : owner[k] # p
  /\ owner' = [owner EXCEPT ![l] = p]
  /\ UNCHANGED <<created, release, manifests, pointer, granted, writer, maker, accepted>>

PublishRelease(p, withdraws) ==
  /\ release[p].latest < MaxVersion /\ (withdraws => release[p].latest > 0)
  /\ release' = [release EXCEPT ![p] =
       [latest |-> @.latest + 1, withdrawn |-> withdraws,
        through |-> IF withdraws THEN @.latest + 1 ELSE @.through]]
  /\ UNCHANGED <<chain, manifests, writer, maker, accepted>>

Delegate(l, grant) ==
  /\ Described(l) /\ granted' = IF grant THEN granted \cup {l} ELSE granted \ {l}
  /\ UNCHANGED <<owner, created, pointer, files, writer, maker, accepted>>

----------------------------------------------------------------------------
(* Approving a version: registerStrategy, the signature, saveManifest. *)

Begin(w, step, l, v) ==
  /\ writer[w] = NoWriter
  /\ writer' = [writer EXCEPT ![w] = [step |-> step, label |-> l, version |-> v]]
Wrote(w) == writer' = [writer EXCEPT ![w] = NoWriter]

Sign(w, l, v) ==
  /\ owner[l] # None /\ Published(l, v)
  /\ created' = created \cup {l} /\ Begin(w, "signed", l, v)
  /\ UNCHANGED <<owner, release, manifests, pointer, granted, maker, accepted>>

SaveManifest(w) ==
  LET l == writer[w].label
      v == writer[w].version
  IN  /\ writer[w].step = "signed" /\ Wrote(w)
      /\ manifests' = IF Published(l, v) THEN manifests \cup {<<l, v>>} ELSE manifests
      /\ UNCHANGED <<chain, release, maker, accepted>>

----------------------------------------------------------------------------
(* Writing the record. *)

\* Defect: the version last published is taken, approved or not.
Newest(l, v) == Described(l) /\ v = Release(l).latest
Writable(l, v) == Approved(l, v)

\* A browser, the Provider's or a delegate's, holds a manifest it loaded.
Choose(w, l, v, by) ==
  /\ Writable(l, v) /\ (by = "delegate" => l \in granted)
  /\ Begin(w, by, l, v)
  /\ UNCHANGED <<chain, files, maker, accepted>>

\* The publisher's pass over one name: what is approved, then the grant and the
\* record as they are (no rollback, nothing to do), then the approval once more.
Look(w, l) ==
  /\ \E v \in LatestApproved(l) : Begin(w, "compare", l, v)
  /\ UNCHANGED <<chain, files, maker, accepted>>
Compare(w) ==
  LET s == writer[w] IN
  /\ s.step = "compare"
  /\ writer' = [writer EXCEPT ![w] = IF s.label \in granted /\ pointer[s.label] < s.version
                                     THEN [s EXCEPT !.step = "recheck"] ELSE NoWriter]
  /\ UNCHANGED <<chain, files, maker, accepted>>
Recheck(w) ==
  LET s == writer[w] IN
  /\ s.step = "recheck"
  /\ writer' = [writer EXCEPT ![w] = IF s.version \in LatestApproved(s.label)
                                     THEN [s EXCEPT !.step = "delegate"] ELSE NoWriter]
  /\ UNCHANGED <<chain, files, maker, accepted>>

\* publishPointer: the transaction lands when it does, if the wallet may still write.
SetText(w) ==
  LET s == writer[w] IN
  /\ s.step \in {"provider", "delegate"} /\ Wrote(w)
  /\ pointer' = IF s.step = "provider" \/ s.label \in granted
                THEN [pointer EXCEPT ![s.label] = s.version] ELSE pointer
  /\ UNCHANGED <<owner, created, granted, files, maker, accepted>>

----------------------------------------------------------------------------
(* A Maker resolves the name, reviews the version, and creates the mandate. *)

Goes(m, state) == maker' = [maker EXCEPT ![m] = state] /\ UNCHANGED <<chain, files, writer>>

Resolve(m, l) ==
  /\ maker[m] = NoMaker /\ Described(l) /\ pointer[l] > 0
  /\ Goes(m, [NoMaker EXCEPT !.step = "resolve", !.label = l, !.read = pointer[l]])
  /\ UNCHANGED accepted
Resolved(m) ==
  LET s == maker[m] IN
  /\ s.step = "resolve"
  /\ Goes(m, IF Approved(s.label, s.read) THEN [s EXCEPT !.step = "review", !.reviewed = s.read] ELSE NoMaker)
  /\ UNCHANGED accepted

\* validateSelections resolves the name again, within the request.
Ask(m) ==
  /\ maker[m].step = "review"
  /\ Goes(m, [maker[m] EXCEPT !.step = "validate", !.read = pointer[maker[m].label],
                              !.begun = Release(maker[m].label).through])
  /\ UNCHANGED accepted

Validated(m) ==
  maker[m].read = maker[m].reviewed /\ Approved(maker[m].label, maker[m].read)

Accept(m) ==
  LET s == maker[m] IN
  /\ s.step = "validate" /\ Goes(m, NoMaker)
  /\ accepted' = IF ~Validated(m) THEN accepted
                 ELSE accepted \cup {[label |-> s.label, version |-> s.reviewed, begun |-> s.begun]}

----------------------------------------------------------------------------
Next ==
  \/ \E p \in Providers : \/ \E l \in Labels : Claim(p, l)
                          \/ \E withdraws \in BOOLEAN : PublishRelease(p, withdraws)
  \/ \E l \in Labels, grant \in BOOLEAN : Delegate(l, grant)
  \/ \E w \in Writers :
       \/ \E l \in Labels, v \in Versions :
            Sign(w, l, v) \/ \E by \in {"provider", "delegate"} : Choose(w, l, v, by)
       \/ SaveManifest(w) \/ Compare(w) \/ Recheck(w) \/ SetText(w)
       \/ \E l \in Labels : Look(w, l)
  \/ \E m \in Makers : \/ \E l \in Labels : Resolve(m, l)
                       \/ Resolved(m) \/ Ask(m) \/ Accept(m)
Spec == Init /\ [][Next]_vars

TypeOK ==
  /\ \A l \in Labels : owner[l] \in Providers \cup {None}
  /\ created \subseteq Labels /\ granted \subseteq Labels
  /\ manifests \subseteq Labels \X Versions
  /\ pointer \in [Labels -> 0 .. MaxVersion]
  /\ \A a \in accepted : a.version \in Versions

\* Whoever writes the record and whenever his transaction lands, a name stands
\* only for a version its Provider signed for that name; and a mandate is taken
\* only for such a version, and never for one withdrawn before it was asked for,
\* however long the Maker reviewed it.
\* (ens-service.mjs 18-24, 96-120; ens-publisher.mjs 33-56; transactions.mjs 143-151)
NameStandsForSigned ==
  /\ \A l \in Labels : pointer[l] > 0 => <<l, pointer[l]>> \in manifests
  /\ \A a \in accepted : <<a.label, a.version>> \in manifests /\ a.version > a.begun

----------------------------------------------------------------------------
(* What holds for any Providers, labels, writers, Makers and versions. *)

Writer == [step : {"idle", "signed", "provider", "delegate", "compare", "recheck"},
           label : Labels \cup {None}, version : 0 .. MaxVersion]
Maker == [step : {"idle", "resolve", "review", "validate"}, label : Labels \cup {None},
          reviewed : 0 .. MaxVersion, read : 0 .. MaxVersion, begun : 0 .. MaxVersion]
Series == [latest : 0 .. MaxVersion, withdrawn : BOOLEAN, through : 0 .. MaxVersion]

Shapes ==
  /\ owner \in [Labels -> Providers \cup {None}] /\ created \subseteq Labels /\ granted \subseteq Labels
  /\ release \in [Providers -> Series] /\ manifests \subseteq Labels \X Versions
  /\ pointer \in [Labels -> 0 .. MaxVersion]
  /\ writer \in [Writers -> Writer] /\ maker \in [Makers -> Maker]
  /\ accepted \subseteq [label : Labels, version : Versions, begun : 0 .. MaxVersion]

\* A created name has its owner, and no withdrawal covers a version still to come.
SeriesStand ==
  /\ \A l \in created : owner[l] \in Providers
  /\ \A p \in Providers : release[p].through <= release[p].latest

\* Whoever is about to write a record writes a signed version.
WriterStands(w) ==
  writer[w].step # "idle" =>
    /\ writer[w].label \in Labels /\ writer[w].version \in Versions
    /\ writer[w].step # "signed" => <<writer[w].label, writer[w].version>> \in manifests

\* A Maker looks at a version of a created name, and what was withdrawn when he asked
\* still is.
MakerStands(m) ==
  maker[m].step # "idle" =>
    /\ maker[m].label \in created
    /\ maker[m].step = "resolve" => maker[m].read \in Versions
    /\ maker[m].step # "resolve" => maker[m].reviewed \in Versions
    /\ maker[m].step = "validate" => maker[m].begun <= Release(maker[m].label).through

NamesInv ==
  /\ Shapes /\ SeriesStand /\ NameStandsForSigned
  /\ (\A w \in Writers : WriterStands(w)) /\ (\A m \in Makers : MakerStands(m))
=============================================================================
