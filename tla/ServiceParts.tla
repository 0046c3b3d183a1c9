----------------------------- MODULE ServiceParts ------------------------------
(***************************************************************************)
(* The guard and the parts of the service that work by themselves, with    *)
(* their proofs: the event sources, what a Maker signed, the mandates, the *)
(* monitor session, the outage monitor and the limits of an authorization. *)
(* MCServices explores the parts side by side; here each one is named,     *)
(* over the variables of ServiceSlots its WITH gives it, and followed by   *)
(* the lemmas on its inductive invariant, which its own module states: one *)
(* per action, and three that say that the invariant holds at first, that  *)
(* every step keeps it, and that it implies the properties.                *)
(* They hold for any makers, strategies, reports, plans and bounds.        *)
(*                                                                         *)
(* The guard comes first: its invariant adds to the types that an active   *)
(* strategy is authorized and that a stored lease, wherever its window     *)
(* lies, ends within MaxLifetime of the block that accepted it.            *)
(***************************************************************************)
EXTENDS ServiceSlots, SequencesExt, SequenceTheorems, FiniteSetTheorems, TLAPS

\* A set of numbers has a smallest: strict inclusion of finite sets is well-founded.
LEMMA Smallest ==
  ASSUME NEW S \in SUBSET Nat, S # {}
  PROVE  \E i \in S : \A k \in S : i <= k
<1> DEFINE T == {0 .. n : n \in S}
<1>1. \A n \in S : 0 .. n \in FiniteSubsetsOf(Nat)
  BY FS_Interval DEF FiniteSubsetsOf
<1>2. T \subseteq FiniteSubsetsOf(Nat) /\ T # {}
  BY <1>1
<1>3. PICK t \in T : \A u \in T : ~ (<<u, t>> \in StrictSubsetOrdering(Nat))
  <2> HIDE DEF T
  <2> QED BY <1>2, FS_StrictSubsetOrderingWellFounded, WFMin
<1>4. PICK i \in S : t = 0 .. i
  BY <1>3
<1>5. ASSUME NEW k \in S, k < i PROVE FALSE
  <2>1. 0 .. k \in T /\ 0 .. k \subseteq 0 .. i /\ i \in 0 .. i /\ i \notin 0 .. k
    BY <1>5
  <2>2. <<0 .. k, 0 .. i>> \in StrictSubsetOrdering(Nat)
    BY <2>1 DEF StrictSubsetOrdering
  <2> QED BY <1>3, <1>4, <2>1, <2>2
<1> QED BY <1>5

-----------------------------------------------------------------------------
(* The guard.                                                              *)

\* What onReport keeps of the checks it made: the schema, and the end of a
\* lease relative to latestReportBlock.
StoredReports ==
  \A m \in Makers, s \in Strategies : \A r \in report[m][s] :
    r.schema = 1 => r.until - latestReportBlock[m][s] <= MaxLifetime

-----------------------------------------------------------------------------
(* The swap.                                                               *)

\* A swap the guard lets through leaves balances that are balances: what it
\* takes is covered by what the maker really holds.
LEMMA AfterIsBalance ==
  ASSUME TypeOK, NEW m \in Makers, NEW s \in Strategies, NEW t \in Tokens,
         NEW paid \in Amounts, NEW taken \in Amounts,
         Covers(m, s, Other(t), taken)
  PROVE  After(m, s, t, paid, taken) \in Balances
<1> DEFINE b == aqua[m][s].balance
<1>1. b \in [Tokens -> Nat]
  BY DEF TypeOK, Balances
<1>2. paid \in Nat /\ taken \in Nat
  BY GuardAssumption
<1>3. ASSUME NEW u \in Tokens
      PROVE  (IF u = t THEN b[u] + paid ELSE b[u] - taken) \in Nat
  <2>1. CASE u = t
    BY <1>1, <1>2, <2>1
  <2>2. CASE u # t
    <3>1. u = Other(t)
      BY <2>2 DEF Tokens, Other
    <3>2. taken <= b[u]
      BY <3>1 DEF Covers
    <3>3. b[u] \in Nat
      BY <1>1
    <3> QED BY <1>2, <2>2, <3>2, <3>3
  <2> QED BY <2>1, <2>2
<1> HIDE DEF b
<1>4. [u \in Tokens |-> IF u = t THEN b[u] + paid ELSE b[u] - taken] \in [Tokens -> Nat]
  BY <1>3
<1> QED BY <1>4 DEF After, Balances, b

-----------------------------------------------------------------------------
(* Types.                                                                  *)

\* At the start the guard's rows have their types.
LEMMA InitTypes == Init => TypeOK
<1> SUFFICES ASSUME Init PROVE TypeOK
  OBVIOUS
<1>1. [t \in Tokens |-> 0] \in Balances
  BY DEF Balances
<1> QED BY <1>1 DEF Init, TypeOK

\* Every step of the guard keeps the types.
LEMMA NextTypes == TypeOK /\ [Next]_vars => TypeOK'
<1> SUFFICES ASSUME TypeOK, [Next]_vars PROVE TypeOK'
  OBVIOUS
<1>1. ASSUME NEW r \in Signed, OnReport(r) PROVE TypeOK'
  <2>1. r.maker \in Makers /\ r.strategy \in Strategies
    BY GuardAssumption DEF Report
  <2>2. ActiveAfter(r) \in Strategies \cup {None}
    BY <2>1 DEF ActiveAfter, TypeOK
  <2>3. report' \in [Makers -> [Strategies -> SUBSET Signed]]
    BY <1>1, <2>1 DEF OnReport, TypeOK
  <2>4. \A m \in Makers, s \in Strategies : \A p, q \in report'[m][s] : p = q
    BY <1>1, <2>1 DEF OnReport, TypeOK
  <2>5. latestReportBlock' \in [Makers -> [Strategies -> Nat]]
    BY <1>1, <2>1 DEF OnReport, TypeOK
  <2>6. active' \in [Makers -> Strategies \cup {None}]
    BY <1>1, <2>1, <2>2 DEF OnReport, TypeOK
  <2> QED BY <1>1, <2>3, <2>4, <2>5, <2>6 DEF OnReport, TypeOK
<1>2. ASSUME NEW m \in Makers, NEW s \in Strategies, NEW flag \in BOOLEAN,
             SetStrategyRevoked(m, s, flag)
      PROVE  TypeOK'
  BY <1>2 DEF SetStrategyRevoked, ActiveUnder, TypeOK
<1>3. ASSUME NEW m \in Makers, NEW s \in Strategies, NEW t \in Tokens,
             NEW paid \in Amounts, NEW taken \in Amounts, NEW r \in report[m][s],
             Swap(m, s, r, t, paid, taken)
      PROVE  TypeOK'
  <2>1. After(m, s, t, paid, taken) \in Balances
    BY <1>3, AfterIsBalance DEF Swap, Extruction
  <2> DEFINE R == [count : {0, 2, 255}, balance : Balances]
  <2>2. aqua \in [Makers -> [Strategies -> R]]
    BY DEF TypeOK
  <2>3. [aqua[m][s] EXCEPT !.balance = After(m, s, t, paid, taken)] \in R
    <3>1. ASSUME NEW x \in R, NEW b \in Balances
          PROVE  [x EXCEPT !.balance = b] \in R
      OBVIOUS
    <3>2. aqua[m][s] \in R
      BY <2>2
    <3> HIDE DEF R
    <3> QED BY <2>1, <3>1, <3>2
  <2>4. aqua' = [aqua EXCEPT ![m] = [aqua[m] EXCEPT ![s] =
                   [aqua[m][s] EXCEPT !.balance = After(m, s, t, paid, taken)]]]
    BY <1>3, <2>2 DEF Swap
  <2> HIDE DEF R
  <2>5. aqua' \in [Makers -> [Strategies -> R]]
    BY <2>2, <2>3, <2>4
  <2> QED BY <1>3, <2>5 DEF Swap, TypeOK, R
<1>4. ASSUME NEW m \in Makers, NEW s \in Strategies, NEW funds \in Funding,
             Ship(m, s, funds)
      PROVE  TypeOK'
  BY <1>4, GuardAssumption DEF Ship, TypeOK
<1>5. ASSUME NEW m \in Makers, NEW s \in Strategies, Dock(m, s)
      PROVE  TypeOK'
  <2>1. [t \in Tokens |-> 0] \in Balances
    BY DEF Balances
  <2> QED BY <1>5, <2>1 DEF Dock, TypeOK
<1>6. CASE NextBlock
  BY <1>6 DEF NextBlock, TypeOK
<1>7. CASE UNCHANGED vars
  BY <1>7 DEF vars, TypeOK
<1> QED BY <1>1, <1>2, <1>3, <1>4, <1>5, <1>6, <1>7 DEF Next, Trade

\* The contract's storage keeps its types; in particular no swap takes more
\* than the maker's real balance.
THEOREM TypeCorrect == Spec => []TypeOK
<1>1. Init => TypeOK
  BY InitTypes
<1>2. TypeOK /\ [Next]_vars => TypeOK'
  BY NextTypes
<1> QED BY <1>1, <1>2, PTL DEF Spec

-----------------------------------------------------------------------------
(* Authorization.                                                          *)

\* Every step keeps what is active authorized.
LEMMA NextAuthorized ==
  TypeOK /\ ActiveIsAuthorized /\ [Next]_vars => ActiveIsAuthorized'
<1> SUFFICES ASSUME TypeOK, ActiveIsAuthorized, [Next]_vars,
                    NEW n \in Makers, NEW a \in Strategies, active'[n] = a
             PROVE  ~revoked'[n][a] /\ \E p \in report'[n][a] : Enabled(p)
  BY DEF ActiveIsAuthorized, Enabled
<1>1. ASSUME NEW r \in Signed, OnReport(r)
      PROVE  ~revoked'[n][a] /\ \E p \in report'[n][a] : Enabled(p)
  <2>1. r.maker \in Makers /\ r.strategy \in Strategies /\ a # None
    BY GuardAssumption DEF Report
  <2>2. revoked' = revoked
    BY <1>1 DEF OnReport
  <2>3. CASE n = r.maker /\ a = r.strategy
    <3>1. active'[n] = ActiveAfter(r) /\ report'[n][a] = {r}
      BY <1>1, <2>1, <2>3 DEF OnReport, TypeOK
    <3>2. Enabled(r)
      BY <2>1, <2>3, <3>1 DEF ActiveAfter
    <3> QED BY <1>1, <2>2, <2>3, <3>1, <3>2 DEF OnReport
  <2>4. CASE ~(n = r.maker /\ a = r.strategy)
    <3>1. report'[n][a] = report[n][a]
      BY <1>1, <2>1, <2>4 DEF OnReport, TypeOK
    <3>2. active[n] = a
      BY <1>1, <2>1, <2>4 DEF OnReport, ActiveAfter, TypeOK
    <3> QED BY <2>2, <3>1, <3>2 DEF ActiveIsAuthorized
  <2> QED BY <2>3, <2>4
<1>2. ASSUME NEW m \in Makers, NEW s \in Strategies, NEW flag \in BOOLEAN,
             SetStrategyRevoked(m, s, flag)
      PROVE  ~revoked'[n][a] /\ \E p \in report'[n][a] : Enabled(p)
  <2>1. a # None
    BY GuardAssumption
  <2>2. active[n] = a /\ ~(m = n /\ s = a /\ flag)
    BY <1>2, <2>1 DEF SetStrategyRevoked, ActiveUnder, TypeOK
  <2>3. revoked'[n][a] = revoked[n][a] \/ revoked'[n][a] = FALSE
    BY <1>2, <2>2 DEF SetStrategyRevoked, TypeOK
  <2>4. report' = report
    BY <1>2 DEF SetStrategyRevoked
  <2> QED BY <2>2, <2>3, <2>4 DEF ActiveIsAuthorized
<1>3. CASE UNCHANGED <<report, active, revoked>>
  BY <1>3 DEF ActiveIsAuthorized
<1> QED
  BY <1>1, <1>2, <1>3 DEF Next, Trade, Swap, Ship, Dock, NextBlock, vars

\* An active strategy has a stored report that enables it and is not revoked,
\* whatever reports arrive in whatever order.
THEOREM ActiveStrategiesAreAuthorized == Spec => []ActiveIsAuthorized
<1>1. Init => ActiveIsAuthorized
  BY GuardAssumption DEF Init, ActiveIsAuthorized
<1> QED BY <1>1, NextAuthorized, TypeCorrect, PTL DEF Spec

-----------------------------------------------------------------------------
(* What holds whenever balances move.                                      *)

\* The balances of a live strategy change only by a swap of that strategy,
\* with a stored report of its maker for it.
LEMMA OnlySwapsTrade ==
  ASSUME TypeOK, Next, NEW m \in Makers, NEW s \in Strategies, Traded(m, s)
  PROVE  \E t \in Tokens, paid, taken \in Amounts :
           \E r \in report[m][s] : Swap(m, s, r, t, paid, taken)
<1>1. ASSUME NEW n \in Makers, NEW a \in Strategies, NEW funds \in Funding, Ship(n, a, funds)
      PROVE  FALSE
  <2>1. CASE n = m /\ a = s
    BY <1>1, <2>1 DEF Ship, Traded
  <2>2. CASE ~(n = m /\ a = s)
    BY <1>1, <2>2 DEF Ship, Traded, TypeOK
  <2> QED BY <2>1, <2>2
<1>2. ASSUME NEW n \in Makers, NEW a \in Strategies, Dock(n, a)
      PROVE  FALSE
  <2>1. CASE n = m /\ a = s
    <3>1. aqua'[m][s].count = 255
      BY <1>2, <2>1 DEF Dock, TypeOK
    <3> QED BY <3>1 DEF Traded
  <2>2. CASE ~(n = m /\ a = s)
    BY <1>2, <2>2 DEF Dock, Traded, TypeOK
  <2> QED BY <2>1, <2>2
<1>3. ASSUME NEW n \in Makers, NEW a \in Strategies, NEW t \in Tokens,
             NEW paid \in Amounts, NEW taken \in Amounts, NEW r \in report[n][a],
             Swap(n, a, r, t, paid, taken)
      PROVE  n = m /\ a = s
  <2> SUFFICES ASSUME ~(n = m /\ a = s) PROVE FALSE
    OBVIOUS
  <2>1. aqua'[m][s] = aqua[m][s]
    BY <1>3 DEF Swap, TypeOK
  <2> QED BY <2>1 DEF Traded
<1>4. ~UNCHANGED aqua
  BY DEF Traded
<1>5. PICK n \in Makers, a \in Strategies, t \in Tokens, paid \in Amounts, taken \in Amounts :
        \E r \in report[n][a] : Swap(n, a, r, t, paid, taken)
  BY <1>1, <1>2, <1>4 DEF Next, Trade, OnReport, SetStrategyRevoked, NextBlock
<1> QED BY <1>3, <1>5

\* A strategy that trades is active, and so its maker has not revoked it.
THEOREM RevocationIsObeyed == Spec => RevokedNeverTrades
<1>1. TypeOK /\ ActiveIsAuthorized /\ [Next]_vars
        => [\A m \in Makers, s \in Strategies : Traded(m, s) => ~revoked[m][s]]_vars
  <2> SUFFICES ASSUME TypeOK, ActiveIsAuthorized, Next,
                      NEW m \in Makers, NEW s \in Strategies, Traded(m, s)
               PROVE  ~revoked[m][s]
    OBVIOUS
  <2>1. active[m] = s
    BY OnlySwapsTrade DEF Swap, Extruction
  <2> QED BY <2>1 DEF ActiveIsAuthorized
<1> QED
  BY <1>1, TypeCorrect, ActiveStrategiesAreAuthorized, PTL DEF Spec, RevokedNeverTrades

\* A swap obeys the stored report and the program's own envelope.
THEOREM EnvelopesHold == Spec => EnvelopeHolds
<1>1. TypeOK /\ [Next]_vars
        => [\A m \in Makers, s \in Strategies : Traded(m, s) =>
              \A t \in Tokens : aqua'[m][s].balance[t] <= Envelope[s].post[t]]_vars
  <2> SUFFICES ASSUME TypeOK, Next, NEW m \in Makers, NEW s \in Strategies, Traded(m, s),
                      NEW u \in Tokens
               PROVE  aqua'[m][s].balance[u] <= Envelope[s].post[u]
    OBVIOUS
  <2>1. PICK t \in Tokens, paid \in Amounts, taken \in Amounts :
          \E r \in report[m][s] : Swap(m, s, r, t, paid, taken)
    BY OnlySwapsTrade
  <2>2. PICK r \in report[m][s] : Swap(m, s, r, t, paid, taken)
    BY <2>1
  <2> DEFINE b == After(m, s, t, paid, taken)
  <2>3. b \in Balances
    BY <2>2, AfterIsBalance DEF Swap, Extruction
  <2>4. b[u] <= Cap(r, s, "post", u)
    BY <2>2 DEF Swap, Extruction
  <2>5. r \in Report
    BY GuardAssumption DEF TypeOK
  <2>6. r.caps.post[u] \in Nat /\ Envelope[s].post[u] \in Nat
    BY <2>5, GuardAssumption DEF Report, Caps, Balances
  <2>7. b[u] \in Nat
    BY <2>3 DEF Balances
  <2>8. Cap(r, s, "post", u) <= Envelope[s].post[u]
    BY <2>6 DEF Cap, Smaller
  <2>9. Cap(r, s, "post", u) \in Nat
    BY <2>6 DEF Cap, Smaller
  <2>10. aqua'[m][s].balance = b
    BY <2>2 DEF Swap, TypeOK
  <2> HIDE DEF b
  <2> QED BY <2>4, <2>6, <2>7, <2>8, <2>9, <2>10
<1> QED BY <1>1, TypeCorrect, PTL DEF Spec, EnvelopeHolds

-----------------------------------------------------------------------------
(* Leases.                                                                 *)

\* Every step keeps what is stored a report that was sent.
LEMMA NextStored == TypeOK /\ StoredReports /\ [Next]_vars => StoredReports'
<1> SUFFICES ASSUME TypeOK, StoredReports, [Next]_vars,
                    NEW m \in Makers, NEW s \in Strategies, NEW p \in report'[m][s],
                    p.schema = 1
             PROVE  p.until - latestReportBlock'[m][s] <= MaxLifetime
  BY DEF StoredReports
<1>1. ASSUME NEW r \in Signed, OnReport(r)
      PROVE  p.until - latestReportBlock'[m][s] <= MaxLifetime
  <2>1. r \in Report
    BY GuardAssumption
  <2>2. CASE m = r.maker /\ s = r.strategy
    <3>1. p = r /\ latestReportBlock'[m][s] = now
      BY <1>1, <2>2 DEF OnReport, TypeOK
    <3>2. r.after <= now /\ r.until - r.after <= MaxLifetime
      BY <1>1, <3>1 DEF OnReport, Timely
    <3>3. r.after \in Nat /\ r.until \in Nat /\ now \in Nat /\ MaxLifetime \in Nat
      BY <2>1, GuardAssumption DEF Report, TypeOK
    <3> QED BY <3>1, <3>2, <3>3
  <2>3. CASE ~(m = r.maker /\ s = r.strategy)
    <3>1. report'[m][s] = report[m][s] /\ latestReportBlock'[m][s] = latestReportBlock[m][s]
      BY <1>1, <2>1, <2>3 DEF OnReport, Report, TypeOK
    <3> QED BY <3>1 DEF StoredReports
  <2> QED BY <2>2, <2>3
<1>2. CASE UNCHANGED <<report, latestReportBlock>>
  BY <1>2 DEF StoredReports
<1> QED
  BY <1>1, <1>2 DEF Next, Trade, SetStrategyRevoked, Swap, Ship, Dock, NextBlock, vars

\* A bounded lease is over MaxLifetime after its acceptance.
THEOREM LeasesAreBounded == Spec => LeasesEnd
<1>1. Init => StoredReports
  BY DEF Init, StoredReports
<1>2. Spec => []StoredReports
  BY <1>1, NextStored, TypeCorrect, PTL DEF Spec
<1>3. TypeOK /\ StoredReports /\ [Next]_vars
        => [\A m \in Makers, s \in Strategies : Traded(m, s) =>
              \A r \in report[m][s] :
                r.schema = 1 => now - latestReportBlock[m][s] < MaxLifetime]_vars
  <2> SUFFICES ASSUME TypeOK, StoredReports, Next,
                      NEW m \in Makers, NEW s \in Strategies, Traded(m, s),
                      NEW r \in report[m][s], r.schema = 1
               PROVE  now - latestReportBlock[m][s] < MaxLifetime
    OBVIOUS
  <2>1. PICK q \in report[m][s] : Current(q)
    BY OnlySwapsTrade DEF Swap, Extruction
  <2>2. q = r
    BY DEF TypeOK
  <2>3. now < r.until
    BY <2>1, <2>2 DEF Current
  <2>4. r.until - latestReportBlock[m][s] <= MaxLifetime
    BY DEF StoredReports
  <2>5. r.until \in Nat /\ now \in Nat /\ latestReportBlock[m][s] \in Nat /\ MaxLifetime \in Nat
    BY GuardAssumption DEF TypeOK, Report
  <2> QED BY <2>3, <2>4, <2>5
<1> QED BY <1>2, <1>3, TypeCorrect, PTL DEF Spec, LeasesEnd

-----------------------------------------------------------------------------
(* Activation.                                                             *)

\* A strategy becomes active only by a report newer than all accepted before
\* for it: neither a replay nor clearing a revocation activates anything.
THEOREM ActivationIsFresh == Spec => ActivationNeedsFreshReport
<1>1. TypeOK /\ [Next]_vars
        => [\A m \in Makers, s \in Strategies :
              active'[m] = s /\ active[m] # s => Latest(m, s)' > Latest(m, s)]_vars
  <2> SUFFICES ASSUME TypeOK, Next, NEW m \in Makers, NEW s \in Strategies,
                      active'[m] = s, active[m] # s
               PROVE  Latest(m, s)' > Latest(m, s)
    OBVIOUS
  <2>1. s # None
    BY GuardAssumption
  <2>2. PICK r \in Signed : OnReport(r)
    BY <2>1 DEF Next, Trade, SetStrategyRevoked, ActiveUnder, Swap, Ship, Dock, NextBlock, TypeOK
  <2>3. r \in Report
    BY GuardAssumption
  <2>4. m = r.maker /\ s = r.strategy
    BY <2>1, <2>2, <2>3 DEF OnReport, ActiveAfter, Report, TypeOK
  <2>5. report'[m][s] = {r}
    BY <2>2, <2>4 DEF OnReport, TypeOK
  <2>6. Latest(m, s)' = r.nonce
    BY <2>5 DEF Latest
  <2>7. r.nonce \in Nat /\ r.nonce > 0
    BY <2>2, <2>3 DEF OnReport, WellFormed, Report
  <2>8. CASE report[m][s] = {}
    BY <2>6, <2>7, <2>8 DEF Latest
  <2>9. CASE report[m][s] # {}
    <3>1. (CHOOSE p \in report[m][s] : TRUE) \in report[m][s]
      BY <2>9
    <3>2. Latest(m, s) = (CHOOSE p \in report[m][s] : TRUE).nonce
      BY <2>9 DEF Latest
    <3> QED BY <2>2, <2>4, <2>6, <3>1, <3>2 DEF OnReport, Newer
  <2> QED BY <2>8, <2>9
<1> QED BY <1>1, TypeCorrect, PTL DEF Spec, ActivationNeedsFreshReport

-----------------------------------------------------------------------------
(* All a maker relies on for a swap.                                       *)

\* Whatever reports, revocations and swaps come in whatever order, a swap is not of a
\* revoked strategy, not after the end of a lease, and not past the envelope.
THEOREM SwapsAuthorized == Spec => SwapsAreAuthorized
  BY RevocationIsObeyed, LeasesAreBounded, EnvelopesHold DEF SwapsAreAuthorized

-----------------------------------------------------------------------------
(* Reading the chain (EV): v1 the chain, v2 its forks, v3 the inbox, v4 the  *)
(* durable cursors, v5 those in memory, v6 the poll, v7 the signal, v8 the   *)
(* failures and stops.                                                       *)

EV == INSTANCE EventSource WITH
     Order <- Polling, Logs <- X, Emitter <- Emits, Confirmations <- N - 1, BlockRange <- N - 1,
     MaxRanges <- N, Depth <- N, MaxHeight <- N + 1, MaxReorgs <- N - 1, MaxFails <- N - 1,
     MaxStops <- N - 1,
     chain <- v1, forks <- v2, inbox <- v3, cursor <- v4, mem <- v5, poll <- v6, aborted <- v7,
     spent <- v8

\* The bounds are numbers, the chain and what is kept of it have their types.
LEMMA SourceTypes ==
  ASSUME EV!NoneIsNoLog, EV!ChainInv, EV!Shapes
  PROVE  /\ N - 1 \in Nat /\ N \in Nat /\ N + 1 \in Nat
         /\ Len(v1) \in Nat /\ v2.seen \in Nat /\ v2.deep \in BOOLEAN
         /\ \A i \in 1 .. Len(v1) : v1[i] \in EV!Block /\ v1[i].fork \in Nat /\ v1[i].log \in X \cup {None}
         /\ \A h \in EV!Entry : h.at \in Nat /\ h.at >= 1 /\ h.fork \in Nat /\ h.log \in X
         /\ \A c \in EV!Cursor \cup {EV!Empty} :
              c.next \in Nat /\ \A h \in c.history : h \in EV!Entry
         /\ \A s \in EV!Sources : \A c \in EV!Held(s) : c \in EV!Cursor \cup {EV!Empty}
<1>1. N - 1 \in Nat /\ N \in Nat /\ N + 1 \in Nat
  BY DEF EV!NoneIsNoLog
<1>2. Len(v1) \in Nat /\ v2.seen \in Nat /\ v2.deep \in BOOLEAN
  BY <1>1 DEF EV!ChainInv
<1>3. \A i \in 1 .. Len(v1) : v1[i] \in EV!Block
  BY DEF EV!ChainInv
<1>4. \A i \in 1 .. Len(v1) : v1[i].fork \in Nat /\ v1[i].log \in X \cup {None}
  BY <1>1, <1>3 DEF EV!Block
<1>5. \A h \in EV!Entry : h.at \in Nat /\ h.at >= 1 /\ h.fork \in Nat /\ h.log \in X
  BY <1>1 DEF EV!Entry
<1>6. \A c \in EV!Cursor \cup {EV!Empty} : c.next \in Nat /\ \A h \in c.history : h \in EV!Entry
  BY <1>1 DEF EV!Cursor, EV!Empty
<1>7. \A s \in EV!Sources : \A c \in EV!Held(s) : c \in EV!Cursor \cup {EV!Empty}
  BY DEF EV!Shapes, EV!Held
<1> QED BY <1>1, <1>2, <1>3, <1>4, <1>5, <1>6, <1>7

\* When the chain moves, what gave way never comes back: a cursor stays sane, what it
\* stands for stays in the inbox.
LEMMA ChainMoves ==
  ASSUME EV!NoneIsNoLog, EV!SourceInv, EV!ChainInv', UNCHANGED <<v3, v4, v5, v6, v7, v8>>,
         Len(v1) <= Len(v1'), v2.seen <= v2'.seen, v2.deep => v2'.deep,
         \A i \in 1 .. Len(v1) : v1'[i] = v1[i] \/ v1'[i].fork > v2.seen,
         v2'.deep \/ \A i \in 1 .. Len(v1) : i + (N - 1) <= Len(v1) => v1'[i] = v1[i]
  PROVE  EV!SourceInv'
<1>1. EV!ChainInv /\ EV!Shapes
  BY DEF EV!SourceInv
<1>2. N - 1 \in Nat /\ Len(v1) \in Nat /\ v2.seen \in Nat
  BY <1>1, SourceTypes
<1>3. Len(v1') \in Nat /\ v2'.seen \in Nat /\ v2'.deep \in BOOLEAN
  BY <1>2 DEF EV!ChainInv
<1>4. EV!Shapes'
  <2>1. v6.head \in Nat
    BY <1>1, <1>2 DEF EV!Shapes, EV!Polls
  <2> QED BY <1>1, <1>2, <1>3, <2>1 DEF EV!Shapes
<1>5. EV!CursorInv /\ EV!PollInv
  BY DEF EV!SourceInv
<1> DEFINE C == EV!Cursor \cup {EV!Empty}
<1>6. ASSUME NEW c \in C, NEW s, EV!Sane(c, s), NEW h \in c.history
      PROVE  /\ h \in EV!Entry /\ h.at \in 1 .. Len(v1) /\ h.at \in 1 .. Len(v1') /\ h.at + (N - 1) <= Len(v1)
             /\ EV!InChain(h)' => EV!InChain(h) /\ v1'[h.at] = v1[h.at]
             /\ v2'.deep \/ (EV!InChain(h)' /\ EV!InChain(h))
  <2>1. h \in EV!Entry /\ h.at \in Nat /\ h.at >= 1 /\ h.fork \in Nat
    BY <1>1, <1>6, SourceTypes
  <2>2. h.at + (N - 1) <= Len(v1) /\ h.fork <= v2.seen /\ (v2.deep \/ EV!InChain(h))
    BY <1>6 DEF EV!Sane
  <2>3. h.at \in 1 .. Len(v1) /\ h.at \in 1 .. Len(v1')
    BY <1>2, <1>3, <2>1, <2>2
  <2>4. EV!InChain(h)' => v1'[h.at] = v1[h.at]
    <3>1. v1'[h.at] = v1[h.at] \/ v1'[h.at].fork > v2.seen
      BY <1>2, <2>3
    <3>2. EV!InChain(h)' => v1'[h.at].fork = h.fork
      BY DEF EV!InChain
    <3>3. v2.seen \in Nat
      BY <1>2
    <3> QED BY <2>1, <2>2, <3>1, <3>2, <3>3
  <2>5. v2'.deep \/ v1'[h.at] = v1[h.at]
    BY <2>2, <2>3
  <2> QED BY <2>1, <2>2, <2>3, <2>4, <2>5 DEF EV!InChain
<1>7. ASSUME NEW c \in C, NEW s, EV!Sane(c, s) PROVE EV!Sane(c, s)'
  <2>1. c.next <= 1 \/ c.next + (N - 1) <= Len(v1') + 1
    <3>1. c.next \in Nat
      BY <1>1, SourceTypes
    <3> QED BY <1>2, <1>3, <1>7, <3>1 DEF EV!Sane
  <2>2. ASSUME NEW h \in c.history
        PROVE  /\ h.at < c.next /\ h.at + (N - 1) <= Len(v1') /\ h.fork <= v2'.seen /\ Emits[h.log] = s
               /\ EV!InChain(h)' => v1'[h.at].log = h.log
               /\ v2'.deep \/ EV!InChain(h)'
    <3>1. h.at \in Nat /\ h.fork \in Nat
      BY <1>1, <1>6, <1>7, SourceTypes
    <3>2. /\ h.at < c.next /\ h.at + (N - 1) <= Len(v1) /\ h.fork <= v2.seen /\ Emits[h.log] = s
          /\ EV!InChain(h) => v1[h.at].log = h.log
      BY <1>7 DEF EV!Sane
    <3> QED BY <1>2, <1>3, <1>6, <1>7, <3>1, <3>2
  <2>3. \A h, k \in c.history : h.at < k.at /\ EV!InChain(h)' => h.log # k.log
    BY <1>6, <1>7 DEF EV!Sane
  <2> QED BY <2>1, <2>2, <2>3 DEF EV!Sane
<1>8. ASSUME NEW c \in C, NEW s, EV!Sane(c, s), NEW read, EV!Stands(c, s, read) PROVE EV!Stands(c, s, read)'
  <2>1. \A h \in c.history : EV!Kept(h.log)' \/ h.log \in read
    BY <1>8 DEF EV!Stands, EV!Kept
  <2>2. ASSUME ~v2'.deep, NEW i \in 1 .. Len(v1'), i < c.next, v1'[i].log # None, Emits[v1'[i].log] = s
        PROVE  v3[v1'[i].log] # None \/ v1'[i].log \in v8.cut \/ v1'[i].log \in read
    <3>1. c.next \in Nat
      BY <1>1, SourceTypes
    <3>2. i \in 1 .. Len(v1) /\ i + (N - 1) <= Len(v1)
      BY <1>2, <1>3, <1>8, <2>2, <3>1 DEF EV!Sane
    <3>3. v1'[i] = v1[i]
      BY <2>2, <3>2
    <3> QED BY <1>8, <2>2, <3>2, <3>3 DEF EV!Stands, EV!Kept
  <2> QED BY <2>1, <2>2 DEF EV!Stands, EV!Kept
<1>9. ASSUME NEW c \in C, NEW s, EV!Sane(c, s), EV!Sound(c) PROVE EV!Sound(c)'
  BY <1>6, <1>9 DEF EV!Sound, EV!Holds
<1>10. ASSUME NEW s \in EV!Sources PROVE EV!Held(s)' = EV!Held(s) /\ \A c \in EV!Held(s) : c \in C
  BY <1>1, SourceTypes DEF EV!Held
<1>11. EV!CursorInv'
  <2> SUFFICES ASSUME NEW s \in EV!Sources
               PROVE  /\ \A c \in EV!Held(s) : EV!Sane(c, s)' /\ EV!Stands(c, s, {})'
                      /\ ~v8.lost => /\ \A c \in EV!Held(s) : EV!Sound(c)'
                                     /\ s \in DOMAIN v5 => v5[s] = v4[s] \/ v4[s] \in {None, EV!Empty}
    BY <1>10 DEF EV!CursorInv
  <2> QED BY <1>5, <1>7, <1>8, <1>9, <1>10 DEF EV!CursorInv
<1>12. v6.found \in C
  BY <1>1 DEF EV!Shapes, EV!Polls
<1>13. EV!PollInv'
  <2>1. EV!Polled' = EV!Polled /\ EV!Read' = EV!Read
    BY DEF EV!Polled, EV!Read
  <2>2. PICK f : f = v6.found
    OBVIOUS
  <2>3. PICK p : p = EV!Polled
    OBVIOUS
  <2>4. PICK r : r = EV!Read
    OBVIOUS
  <2>5. EV!Sane(f, p) /\ EV!Stands(f, p, r) /\ f \in C
    BY <1>5, <1>12, <2>2, <2>3, <2>4 DEF EV!PollInv
  <2>6. EV!Sane(f, p)' /\ EV!Stands(f, p, r)'
    BY <1>7, <1>8, <2>5
  <2>7. (EV!Sane(v6.found, EV!Polled) /\ EV!Stands(v6.found, EV!Polled, EV!Read))'
    BY <2>1, <2>2, <2>3, <2>4, <2>6 DEF EV!Sane, EV!Stands, EV!InChain, EV!Kept
  <2>8. ASSUME NEW l \in v6.gone
        PROVE  /\ p \in DOMAIN v5 /\ v5[p] # None
               /\ \E h \in v5[p].history : h.log = l /\ ~EV!InChain(h)'
    <3>1. p \in DOMAIN v5 /\ v5[p] # None /\ \E h \in v5[p].history : h.log = l /\ ~EV!InChain(h)
      BY <1>5, <2>3 DEF EV!PollInv
    <3>2. v5[p] \in C /\ EV!Sane(v5[p], p)
      <4>1. p \in EV!Sources
        BY <1>1, <3>1 DEF EV!Shapes
      <4>2. v5[p] \in EV!Held(p)
        BY <3>1 DEF EV!Held
      <4> QED BY <1>5, <1>10, <4>1, <4>2 DEF EV!CursorInv
    <3>3. PICK e : e = v5[p]
      OBVIOUS
    <3>4. \A h \in e.history : EV!InChain(h)' => EV!InChain(h)
      BY <1>6, <3>2, <3>3
    <3> QED BY <3>1, <3>3, <3>4
  <2>9. v2'.deep \/ (v6.gone = {} /\ \A l \in X : v3[l] = None \/ v3[l].canonical)
    BY <1>5 DEF EV!PollInv
  <2>10. ~v8.lost => \A h \in v6.found.history : (EV!Holds(h.log) /\ h.log \notin v6.gone) \/ h.log \in EV!Read \cup v8.cut
    BY <1>5 DEF EV!PollInv
  <2> QED BY <2>1, <2>3, <2>7, <2>8, <2>9, <2>10 DEF EV!PollInv, EV!Holds
<1> QED BY <1>4, <1>11, <1>13 DEF EV!SourceInv

\* A block is added: what was read below stays where it was.
LEMMA MineKeeps ==
  ASSUME EV!NoneIsNoLog, EV!SourceInv, NEW l \in X \cup {None}, EV!Mine(l)
  PROVE  EV!SourceInv'
<1>1. EV!ChainInv /\ EV!Shapes
  BY DEF EV!SourceInv
<1>2. PICK b : b = [fork |-> v2.seen, log |-> l]
  OBVIOUS
<1>3. b \in EV!Block /\ b.fork = v2.seen /\ b.log = l
  BY <1>1, <1>2 DEF EV!ChainInv, EV!Block
<1>4. /\ v1' = Append(v1, b) /\ l \notin EV!Mined /\ Len(v1) < N + 1
      /\ UNCHANGED <<v2, v3, v4, v5, v6, v7, v8>>
  BY <1>2 DEF EV!Mine
<1>5. v1 \in Seq(EV!Block) /\ Len(v1) \in Nat /\ N + 1 \in Nat /\ v2.seen \in Nat
  BY <1>1, SourceTypes DEF EV!ChainInv
<1>6. /\ v1' \in Seq(EV!Block) /\ Len(v1') = Len(v1) + 1 /\ v1'[Len(v1) + 1] = b
      /\ \A i \in 1 .. Len(v1) : v1'[i] = v1[i]
  BY <1>3, <1>4, <1>5, AppendProperties
<1>7. EV!ChainInv'
  <2>1. Len(v1') <= N + 1
    BY <1>4, <1>5, <1>6
  <2>2. \A i \in 1 .. Len(v1') : i \in 1 .. Len(v1) \/ i = Len(v1) + 1
    BY <1>5, <1>6
  <2>3. \A i \in 1 .. Len(v1') : v1'[i].fork <= v2'.seen
    BY <1>1, <1>3, <1>4, <1>5, <1>6, <2>2 DEF EV!ChainInv
  <2>4. \A i \in 1 .. Len(v1) : v1[i].log = l => l = None
    BY <1>4 DEF EV!Mined
  <2>5. \A i, j \in 1 .. Len(v1') : v1'[i].log = v1'[j].log => i = j \/ v1'[i].log = None
    BY <1>1, <1>3, <1>6, <2>2, <2>4 DEF EV!ChainInv
  <2> QED BY <1>1, <1>4, <1>6, <2>1, <2>3, <2>5 DEF EV!ChainInv
<1> QED BY <1>4, <1>5, <1>6, <1>7, ChainMoves

\* The chain is replaced from a block on: what is confirmed stays, unless the fork is deep.
LEMMA ReorgKeeps ==
  ASSUME EV!NoneIsNoLog, EV!SourceInv, NEW n \in 1 .. N + 1, NEW new \in [1 .. n -> X \cup {None}],
         EV!Reorg(n, new)
  PROVE  EV!SourceInv'
<1>1. EV!ChainInv /\ EV!Shapes
  BY DEF EV!SourceInv
<1>2. v1 \in Seq(EV!Block) /\ Len(v1) \in Nat /\ N - 1 \in Nat /\ N + 1 \in Nat /\ v2.seen \in Nat /\ n \in Nat
      /\ v2.deep \in BOOLEAN
  BY <1>1, SourceTypes DEF EV!ChainInv
<1>3. PICK kept : kept = Len(v1) - n
  OBVIOUS
<1>4. /\ v2.seen < N - 1 /\ n \in 1 .. Len(v1)
      /\ \A i, j \in 1 .. n : new[i] = new[j] => i = j \/ new[i] = None
      /\ \A i \in 1 .. kept, j \in 1 .. n : new[j] = v1[i].log => new[j] = None
      /\ v1' = [i \in 1 .. Len(v1) |->
                  IF i <= kept THEN v1[i] ELSE [fork |-> v2.seen + 1, log |-> new[i - kept]]]
      /\ v2' = [seen |-> v2.seen + 1, deep |-> v2.deep \/ n > N - 1]
      /\ UNCHANGED <<v3, v4, v5, v6, v7, v8>>
  BY <1>3 DEF EV!Reorg
<1>5. kept \in Nat /\ kept < Len(v1)
  BY <1>2, <1>3, <1>4
<1>6. ASSUME NEW i \in 1 .. Len(v1)
      PROVE  /\ i <= kept => v1'[i] = v1[i]
             /\ i > kept => /\ i - kept \in 1 .. n
                            /\ v1'[i] = [fork |-> v2.seen + 1, log |-> new[i - kept]]
  <2>1. CASE i <= kept
    BY <1>4, <1>5, <2>1
  <2>2. CASE i > kept
    <3>1. i - kept \in 1 .. n /\ ~(i <= kept)
      BY <1>2, <1>3, <1>5, <2>2
    <3> QED BY <1>4, <3>1
  <2> QED BY <1>5, <2>1, <2>2
<1>7. \A i \in 1 .. n : [fork |-> v2.seen + 1, log |-> new[i]] \in EV!Block
  <2>1. v2.seen + 1 \in 0 .. N - 1
    BY <1>2, <1>4
  <2>2. \A i \in 1 .. n : new[i] \in X \cup {None}
    OBVIOUS
  <2> QED BY <2>1, <2>2 DEF EV!Block
<1>8. v1' \in Seq(EV!Block) /\ Len(v1') = Len(v1)
  <2>1. \A i \in 1 .. Len(v1) : v1[i] \in EV!Block /\ (i <= kept \/ i > kept)
    BY <1>1, <1>2, <1>5, SourceTypes
  <2>2. ASSUME NEW i \in 1 .. Len(v1) PROVE v1'[i] \in EV!Block
    BY <1>6, <1>7, <2>1
  <2>3. v1' \in [1 .. Len(v1) -> EV!Block]
    BY <1>4, <2>2
  <2> QED BY <1>2, <2>3, SeqDef
<1>9. \A i \in 1 .. Len(v1) :
        /\ i \in Nat /\ (i <= kept => v1'[i] = v1[i])
        /\ i > kept => /\ i - kept \in 1 .. n
                       /\ v1'[i].fork = v2.seen + 1 /\ v1'[i].log = new[i - kept]
  <2> SUFFICES ASSUME NEW i \in 1 .. Len(v1)
               PROVE  /\ i \in Nat /\ (i <= kept => v1'[i] = v1[i])
                      /\ i > kept => /\ i - kept \in 1 .. n
                                     /\ v1'[i].fork = v2.seen + 1 /\ v1'[i].log = new[i - kept]
    OBVIOUS
  <2>1. i \in Nat
    BY <1>2
  <2>5. i <= kept => v1'[i] = v1[i]
    BY <1>6
  <2>2. PICK b : b = [fork |-> v2.seen + 1, log |-> new[i - kept]]
    OBVIOUS
  <2>3. b.fork = v2.seen + 1 /\ b.log = new[i - kept]
    BY <2>2
  <2>4. i > kept => i - kept \in 1 .. n /\ v1'[i] = b
    BY <1>6, <2>2
  <2> QED BY <2>1, <2>3, <2>4, <2>5
<1>10. EV!ChainInv'
  <2>1. v2' \in [seen : 0 .. N - 1, deep : BOOLEAN] /\ v2'.seen = v2.seen + 1
    BY <1>2, <1>4
  <2>2. \A i \in 1 .. Len(v1') : v1'[i].fork <= v2'.seen
    <3>1. \A i \in 1 .. Len(v1) : v1[i].fork \in Nat /\ v1[i].fork <= v2.seen
      BY <1>1, SourceTypes DEF EV!ChainInv
    <3> QED BY <1>2, <1>5, <1>8, <1>9, <2>1, <3>1
  <2>3. ASSUME NEW i \in 1 .. Len(v1), NEW j \in 1 .. Len(v1), v1'[i].log = v1'[j].log
        PROVE  i = j \/ v1'[i].log = None
    <3>1. CASE i <= kept /\ j <= kept
      BY <1>1, <1>9, <2>3, <3>1 DEF EV!ChainInv
    <3>2. ASSUME NEW a \in 1 .. Len(v1), NEW b \in 1 .. Len(v1), a <= kept, b > kept,
                 v1'[a].log = v1'[b].log
          PROVE  v1'[a].log = None
      <4>1. a \in 1 .. kept /\ b - kept \in 1 .. n
        BY <1>5, <1>9, <3>2
      <4>2. v1'[a].log = v1[a].log /\ v1'[b].log = new[b - kept]
        BY <1>9, <3>2
      <4>3. new[b - kept] = v1[a].log => new[b - kept] = None
        BY <1>4, <4>1
      <4> QED BY <3>2, <4>2, <4>3
    <3>3. CASE i <= kept /\ j > kept
      BY <2>3, <3>2, <3>3
    <3>4. CASE i > kept /\ j <= kept
      BY <2>3, <3>2, <3>4
    <3>5. CASE i > kept /\ j > kept
      <4>1. i - kept \in 1 .. n /\ j - kept \in 1 .. n /\ i \in Nat /\ j \in Nat
        BY <1>9, <3>5
      <4>3. i - kept = j - kept => i = j
        BY <1>5, <4>1
      <4>2. v1'[i].log = new[i - kept] /\ v1'[j].log = new[j - kept]
        BY <1>9, <3>5
      <4> QED BY <1>4, <2>3, <4>1, <4>2, <4>3
    <3> QED BY <1>5, <3>1, <3>3, <3>4, <3>5
  <2> QED BY <1>1, <1>8, <2>1, <2>2, <2>3 DEF EV!ChainInv
<1>11. v2'.seen = v2.seen + 1 /\ v2'.deep = (v2.deep \/ n > N - 1)
  BY <1>4
<1>12. \A i \in 1 .. Len(v1) : v1'[i] = v1[i] \/ v1'[i].fork > v2.seen
  BY <1>2, <1>5, <1>9
<1>13. v2'.deep \/ \A i \in 1 .. Len(v1) : i + (N - 1) <= Len(v1) => v1'[i] = v1[i]
  <2>1. n <= N - 1 => \A i \in 1 .. Len(v1) : i + (N - 1) <= Len(v1) => i <= kept
    BY <1>2, <1>3
  <2>2. n > N - 1 \/ n <= N - 1
    BY <1>2
  <2>3. n > N - 1 => v2'.deep
    BY <1>4
  <2>4. n <= N - 1 => \A i \in 1 .. Len(v1) : i + (N - 1) <= Len(v1) => v1'[i] = v1[i]
    BY <1>9, <2>1
  <2> QED BY <2>2, <2>3, <2>4
<1> QED BY <1>2, <1>4, <1>8, <1>10, <1>11, <1>12, <1>13, ChainMoves

\* An idle worker, or a stopped one, has its types; there is a source to go on to.
LEMMA IdlePolls ==
  ASSUME EV!NoneIsNoLog, NEW i \in 1 .. Len(Polling)
  PROVE  /\ EV!Idle(i) \in EV!Polls /\ EV!Down \in EV!Polls /\ Len(Polling) \in Nat /\ 1 \in 1 .. Len(Polling)
         /\ EV!Idle(i).step = "idle" /\ EV!Idle(i).at = i /\ EV!Down.step = "down"
         /\ EV!Idle(i).found = EV!Empty /\ EV!Idle(i).events = {} /\ EV!Idle(i).gone = {}
         /\ EV!Down.found = EV!Empty /\ EV!Down.events = {} /\ EV!Down.gone = {}
<1>1. Len(Polling) \in Nat /\ N \in Nat /\ 0 \in 0 .. N + 1 /\ N \in 0 .. N
  BY DEF EV!NoneIsNoLog
<1>2. 1 \in 1 .. Len(Polling) /\ i \in 0 .. Len(Polling) /\ 0 \in 0 .. Len(Polling)
  BY <1>1
<1>3. PICK q : q = EV!Idle(i)
  OBVIOUS
<1>4. PICK d : d = EV!Down
  OBVIOUS
<1>5. PICK e : e = EV!Empty
  OBVIOUS
<1>6. q = [step |-> "idle", at |-> i, head |-> 0, left |-> N, found |-> e, events |-> {}, gone |-> {}]
  BY <1>3, <1>5 DEF EV!Idle
<1>7. d = [step |-> "down", at |-> 0, head |-> 0, left |-> N, found |-> e, events |-> {}, gone |-> {}]
  BY <1>4, <1>5 DEF EV!Idle, EV!Down
<1>8. q \in EV!Polls
  BY <1>1, <1>2, <1>5, <1>6 DEF EV!Polls
<1>9. d \in EV!Polls
  BY <1>1, <1>2, <1>5, <1>7 DEF EV!Polls
<1> QED BY <1>1, <1>2, <1>3, <1>4, <1>5, <1>6, <1>7, <1>8, <1>9

\* The loop goes on to a source, or ends.
LEMMA OnwardIs ==
  ASSUME EV!NoneIsNoLog, EV!Shapes, v6.step # "down"
  PROVE  \/ EV!Onward = EV!Down
         \/ \E i \in 1 .. Len(Polling) : EV!Onward = EV!Idle(i)
<1>1. Len(Polling) \in Nat /\ v6.at \in 1 .. Len(Polling)
  BY DEF EV!Shapes, EV!NoneIsNoLog
<1>2. v6.at < Len(Polling) => v6.at + 1 \in 1 .. Len(Polling)
  BY <1>1
<1>3. 1 \in 1 .. Len(Polling)
  BY <1>1
<1> QED BY <1>2, <1>3 DEF EV!Onward

\* While the chain and the inbox stay, a cursor is as good as it was.
LEMMA CursorsMove ==
  ASSUME EV!CursorInv, UNCHANGED <<v1, v2, v3>>, v8.lost => v8'.lost, v8.cut \subseteq v8'.cut,
         \A s \in EV!Sources : \A c : c \in EV!Held(s)' =>
           \/ c \in EV!Held(s)
           \/ EV!Sane(c, s)' /\ EV!Stands(c, s, {})' /\ (~v8'.lost => EV!Sound(c)'),
         ~v8'.lost => \A s \in EV!Sources :
           s \in DOMAIN v5' => v5'[s] = v4'[s] \/ v4'[s] \in {None, EV!Empty}
  PROVE  EV!CursorInv'
<1>1. ASSUME NEW s \in EV!Sources, NEW c, c \in EV!Held(s)'
      PROVE  EV!Sane(c, s)' /\ EV!Stands(c, s, {})' /\ (~v8'.lost => EV!Sound(c)')
  <2>1. CASE c \in EV!Held(s)
    <3>1. EV!Sane(c, s) /\ EV!Stands(c, s, {}) /\ (~v8'.lost => EV!Sound(c))
      BY <2>1 DEF EV!CursorInv
    <3> QED BY <3>1 DEF EV!Sane, EV!Stands, EV!Sound, EV!InChain, EV!Holds, EV!Kept
  <2>2. CASE c \notin EV!Held(s)
    BY <1>1, <2>2
  <2> QED BY <2>1, <2>2
<1> QED BY <1>1 DEF EV!CursorInv

\* A turn of the loop that ends leaves nothing read and nothing to retract.
LEMMA TurnEnds ==
  ASSUME EV!SourceInv, UNCHANGED <<v1, v2, v3>>, EV!Shapes', EV!CursorInv',
         v6' = EV!Down \/ \E i \in 1 .. Len(Polling) : v6' = EV!Idle(i), EV!NoneIsNoLog
  PROVE  EV!SourceInv'
<1>1. EV!ChainInv'
  BY DEF EV!SourceInv, EV!ChainInv
<1>2. v6'.found = EV!Empty /\ v6'.events = {} /\ v6'.gone = {}
  <2>1. 1 \in 1 .. Len(Polling)
    BY DEF EV!NoneIsNoLog
  <2> QED BY <2>1, IdlePolls
<1>3. v2.deep \/ \A l \in X : v3[l] = None \/ v3[l].canonical
  BY DEF EV!SourceInv, EV!PollInv
<1>4. EV!PollInv'
  <2>1. EV!Empty.history = {} /\ EV!Empty.next = 0
    BY DEF EV!Empty
  <2>2. EV!Sane(v6.found, EV!Polled)'
    BY <1>2, <2>1 DEF EV!Sane
  <2>3. EV!Stands(v6.found, EV!Polled, EV!Read)'
    BY <1>1, <1>2, <2>1 DEF EV!Stands, EV!ChainInv
  <2> QED BY <1>2, <1>3, <2>1, <2>2, <2>3 DEF EV!PollInv
<1> QED BY <1>1, <1>4 DEF EV!SourceInv

\* Once in a process the saved cursor is loaded.
LEMMA LoadCursorKeeps ==
  ASSUME EV!NoneIsNoLog, EV!SourceInv, EV!LoadCursor
  PROVE  EV!SourceInv'
<1>1. EV!ChainInv /\ EV!Shapes
  BY DEF EV!SourceInv
<1>2. PICK p : p = EV!Polled
  OBVIOUS
<1>3. /\ v6.step = "idle" /\ p \notin DOMAIN v5 /\ UNCHANGED <<v1, v2, v3, v4, v6, v7, v8>>
      /\ v5' = [s \in DOMAIN v5 \cup {p} |-> IF s = p THEN v4[s] ELSE v5[s]]
  BY <1>2 DEF EV!LoadCursor, EV!Loaded
<1>4. p \in EV!Sources
  BY <1>1, <1>2, <1>3 DEF EV!Shapes, EV!Polled, EV!Sources
<1>5. DOMAIN v5' = DOMAIN v5 \cup {p} /\ v5'[p] = v4[p] /\ \A s \in DOMAIN v5 : v5'[s] = v5[s]
  BY <1>3
<1>6. EV!Shapes'
  BY <1>1, <1>3, <1>4, <1>5 DEF EV!Shapes
<1>7. EV!CursorInv' /\ EV!PollInv'
  <2>1. EV!CursorInv /\ EV!PollInv
    BY DEF EV!SourceInv
  <2>2. \A s \in EV!Sources : \A c : c \in EV!Held(s)' => c \in EV!Held(s)
    BY <1>3, <1>5 DEF EV!Held
  <2>3. ~v8.lost => \A s \in EV!Sources :
          s \in DOMAIN v5' => v5'[s] = v4[s] \/ v4[s] \in {None, EV!Empty}
    BY <1>5, <2>1 DEF EV!CursorInv
  <2>4. EV!CursorInv'
    BY <1>3, <2>1, <2>2, <2>3, CursorsMove
  <2>5. v6.gone = {}
    BY <1>1, <1>3 DEF EV!Shapes
  <2>6. EV!Sane(v6.found, EV!Polled)' /\ EV!Stands(v6.found, EV!Polled, EV!Read)'
    BY <1>3, <2>1 DEF EV!PollInv, EV!Sane, EV!Stands, EV!InChain, EV!Polled, EV!Read, EV!Kept
  <2>7. EV!PollInv'
    BY <1>3, <2>1, <2>5, <2>6 DEF EV!PollInv, EV!Holds, EV!Read
  <2> QED BY <2>4, <2>7
<1>8. EV!ChainInv'
  BY <1>1, <1>3 DEF EV!ChainInv
<1> QED BY <1>3, <1>6, <1>7, <1>8 DEF EV!SourceInv

\* A poll on a raised signal reads nothing.
LEMMA PollAbortedKeeps ==
  ASSUME EV!NoneIsNoLog, EV!SourceInv, EV!PollAborted
  PROVE  EV!SourceInv'
<1>1. EV!ChainInv /\ EV!Shapes
  BY DEF EV!SourceInv
<1>2. v6.step = "idle" /\ v7 /\ v6' = [v6 EXCEPT !.step = "save"] /\ UNCHANGED <<v1, v2, v3, v4, v5, v7, v8>>
  BY DEF EV!PollAborted, EV!Ready
<1>3. v6' \in EV!Polls /\ v6'.step = "save" /\ v6'.at = v6.at
      /\ v6'.found = v6.found /\ v6'.events = {} /\ v6'.gone = {} /\ v6.events = {} /\ v6.gone = {}
  BY <1>1, <1>2 DEF EV!Shapes, EV!Polls
<1>4. EV!Shapes'
  BY <1>1, <1>2, <1>3 DEF EV!Shapes
<1>5. EV!CursorInv' /\ EV!PollInv'
  <2>1. EV!CursorInv /\ EV!PollInv
    BY DEF EV!SourceInv
  <2>2. \A s \in EV!Sources : \A c : c \in EV!Held(s)' => c \in EV!Held(s)
    BY <1>2 DEF EV!Held
  <2>3. EV!CursorInv'
    BY <1>2, <2>1, <2>2, CursorsMove DEF EV!CursorInv
  <2>4. EV!Polled' = EV!Polled /\ EV!Read' = {} /\ EV!Read = {}
    BY <1>3 DEF EV!Polled, EV!Read
  <2>5. EV!Sane(v6.found, EV!Polled)' /\ EV!Stands(v6.found, EV!Polled, EV!Read)'
    BY <1>2, <1>3, <2>1, <2>4 DEF EV!PollInv, EV!Sane, EV!Stands, EV!InChain, EV!Kept
  <2>6. EV!PollInv'
    BY <1>2, <1>3, <2>1, <2>4, <2>5 DEF EV!PollInv, EV!Holds
  <2> QED BY <2>3, <2>6
<1>6. EV!ChainInv'
  BY <1>1, <1>2 DEF EV!ChainInv
<1> QED BY <1>4, <1>5, <1>6 DEF EV!SourceInv

\* The cursor goes back to the first entry that was lost, and keeps those below it.
LEMMA RewoundIs ==
  ASSUME EV!NoneIsNoLog, NEW c \in EV!Cursor, NEW lost \in SUBSET c.history
  PROVE  /\ EV!Rewound(c, lost) \in EV!Cursor
         /\ lost = {} => EV!Rewound(c, lost) = c
         /\ lost # {} => \E g \in lost : \A h \in lost :
              /\ g.at <= h.at /\ EV!Rewound(c, lost).history = {k \in c.history : k.at < g.at}
              /\ EV!Rewound(c, lost).next = IF c.next < g.at THEN c.next ELSE g.at
<1>1. CASE lost = {}
  BY <1>1 DEF EV!Rewound
<1>2. CASE lost # {}
  <2>1. N + 1 \in Nat /\ c.next \in 1 .. N + 1 + 1 /\ c.history \in SUBSET EV!Entry
    BY DEF EV!NoneIsNoLog, EV!Cursor
  <2>2. \A h \in lost : h \in EV!Entry /\ h.at \in 1 .. N + 1 /\ h.at \in Nat
    BY <2>1 DEF EV!Entry
  <2>3. PICK n \in {h.at : h \in lost} : \A k \in {h.at : h \in lost} : n <= k
    <3>1. PICK S : S = {h.at : h \in lost}
      OBVIOUS
    <3>2. S \in SUBSET Nat /\ S # {}
      BY <1>2, <2>2, <3>1
    <3> QED BY <3>1, <3>2, Smallest
  <2>4. PICK first : first = CHOOSE m \in {h.at : h \in lost} : \A h \in lost : m <= h.at
    OBVIOUS
  <2>5. first \in {h.at : h \in lost} /\ \A h \in lost : first <= h.at
    BY <2>3, <2>4
  <2>6. PICK g \in lost : g.at = first
    BY <2>5
  <2>7. PICK r : r = [next |-> IF c.next < first THEN c.next ELSE first,
                      history |-> {h \in c.history : h.at < first}]
    OBVIOUS
  <2>8. r = EV!Rewound(c, lost)
    BY <1>2, <2>4, <2>7 DEF EV!Rewound
  <2>9. (IF c.next < first THEN c.next ELSE first) \in 1 .. N + 1 + 1
    BY <2>1, <2>2, <2>6
  <2>10. r \in EV!Cursor
    BY <2>1, <2>7, <2>9 DEF EV!Cursor
  <2>11. r.history = {k \in c.history : k.at < g.at} /\ r.next = IF c.next < g.at THEN c.next ELSE g.at
    BY <2>6, <2>7
  <2> QED BY <1>2, <2>5, <2>6, <2>8, <2>10, <2>11
<1> QED BY <1>1, <1>2

\* What is left of a history below its first divergent entry is all in the chain, and its
\* logs are not the ones that are retracted.
LEMMA ReadHeadKeeps ==
  ASSUME EV!NoneIsNoLog, EV!SourceInv, EV!ReadHead
  PROVE  EV!SourceInv'
<1>1. EV!ChainInv /\ EV!Shapes
  BY DEF EV!SourceInv
<1>2. PICK p : p = EV!Polled
  OBVIOUS
<1>3. PICK c : c = EV!Saved
  OBVIOUS
<1>4. PICK head : head = IF Len(v1) > N - 1 THEN Len(v1) - (N - 1) ELSE 0
  OBVIOUS
<1>5. PICK lost : lost = EV!Divergent(c.history, head)
  OBVIOUS
<1>6. PICK f : f = EV!Rewound(c, lost)
  OBVIOUS
<1>7. /\ v6.step = "idle" /\ ~v7 /\ p \in DOMAIN v5 /\ v5[p] # EV!Empty
      /\ v6' = [v6 EXCEPT !.step = IF head = 0 THEN "save" ELSE "logs", !.head = head,
                          !.found = f, !.gone = {h.log : h \in lost}]
      /\ UNCHANGED <<v1, v2, v3, v4, v5, v7, v8>>
  BY <1>2, <1>3, <1>4, <1>5, <1>6 DEF EV!ReadHead, EV!Ready, EV!Loaded, EV!Unreadable
<1>8. Len(v1) \in Nat /\ N - 1 \in Nat /\ N + 1 \in Nat /\ Len(v1) <= N + 1
  BY <1>1, SourceTypes DEF EV!ChainInv
<1>9. head \in Nat /\ head <= N + 1 /\ head <= Len(v1) /\ (head # 0 => head + (N - 1) = Len(v1))
  BY <1>4, <1>8
<1>10. p \in EV!Sources /\ v5[p] \in EV!Cursor \cup {None, EV!Empty}
  BY <1>1, <1>7 DEF EV!Shapes
<1>11. c \in EV!Cursor /\ (v5[p] # None => c = v5[p]) /\ (v5[p] = None => c.history = {})
  <2>1. EV!Fresh \in EV!Cursor /\ EV!Fresh.history = {}
    BY <1>8 DEF EV!Fresh, EV!Cursor
  <2> QED BY <1>2, <1>3, <1>7, <1>10, <2>1 DEF EV!Saved
<1>12. \A h \in c.history : h \in EV!Entry /\ h.at \in Nat /\ h.at >= 1 /\ h.log \in X
  BY <1>1, <1>11, SourceTypes
<1>13. lost = {h \in c.history : h.at <= head /\ ~EV!InChain(h)}
  BY <1>5 DEF EV!Divergent, EV!InChain
<1>14. f \in EV!Cursor /\ f.history \subseteq c.history
  <2>1. lost \in SUBSET c.history
    BY <1>13
  <2> QED BY <1>6, <1>11, <2>1, RewoundIs
<1>15. /\ v6' \in EV!Polls /\ v6'.step = (IF head = 0 THEN "save" ELSE "logs") /\ v6'.at = v6.at
       /\ v6'.head = head /\ v6'.found = f /\ v6'.gone = {h.log : h \in lost} /\ v6'.events = v6.events
  <2>1. PICK g : g = {h.log : h \in lost}
    OBVIOUS
  <2>2. g \in SUBSET X
    BY <1>12, <1>13, <2>1
  <2>3. PICK t : t = IF head = 0 THEN "save" ELSE "logs"
    OBVIOUS
  <2>4. v6' = [v6 EXCEPT !.step = t, !.head = head, !.found = f, !.gone = g]
    BY <1>7, <2>1, <2>3
  <2>5. head \in 0 .. N + 1
    BY <1>8, <1>9
  <2>6. t \in {"idle", "logs", "mark", "save", "down"}
    BY <2>3
  <2> QED BY <1>1, <1>14, <2>1, <2>2, <2>3, <2>4, <2>5, <2>6 DEF EV!Shapes, EV!Polls
<1>16. v6.events = {} /\ v6.at \in 1 .. Len(Polling)
  BY <1>1, <1>7 DEF EV!Shapes
<1>17. head = 0 => lost = {}
  BY <1>12, <1>13
<1>18. f # EV!Empty
  <2>1. f.next # 0
    BY <1>8, <1>14 DEF EV!Cursor
  <2> QED BY <2>1 DEF EV!Empty
<1>19. EV!Shapes'
  <2>1. UNCHANGED <<v3, v4, v5, v7, v8>>
    BY <1>7
  <2>2. v6'.step # "down" => v6'.at \in 1 .. Len(Polling)
    BY <1>15, <1>16
  <2>3. v6'.step \in {"logs", "mark"} => v6'.found # EV!Empty /\ v6'.head + (N - 1) <= Len(v1')
    BY <1>7, <1>8, <1>9, <1>15, <1>18
  <2>4. v6'.step \notin {"logs", "mark"} => v6'.events = {} /\ v6'.gone = {}
    BY <1>15, <1>16, <1>17
  <2>5. v6' \in EV!Polls
    BY <1>15
  <2>6. /\ v3 \in [X -> EV!Row \cup {None}]
        /\ DOMAIN v4 = EV!Sources /\ \A s \in EV!Sources : v4[s] \in EV!Cursor \cup {None, EV!Empty}
        /\ DOMAIN v5 \subseteq EV!Sources /\ \A s \in DOMAIN v5 : v5[s] \in EV!Cursor \cup {None, EV!Empty}
        /\ v7 \in BOOLEAN /\ v8 \in [fails : 0 .. N - 1, stops : 0 .. N - 1, lost : BOOLEAN, cut : SUBSET X]
    BY <1>1 DEF EV!Shapes
  <2> QED BY <2>1, <2>2, <2>3, <2>4, <2>5, <2>6 DEF EV!Shapes
<1>20. EV!CursorInv' /\ EV!PollInv'
  <2>1. EV!CursorInv /\ EV!PollInv
    BY DEF EV!SourceInv
  <2>2. EV!CursorInv'
    <3>1. \A s \in EV!Sources : \A e : e \in EV!Held(s)' => e \in EV!Held(s)
      BY <1>7 DEF EV!Held
    <3> QED BY <1>7, <2>1, <3>1, CursorsMove DEF EV!CursorInv
  <2>3. EV!Sane(c, p) /\ EV!Stands(c, p, {}) /\ (~v8.lost => EV!Sound(c))
    <3>1. CASE v5[p] = None
      <4>1. c = EV!Fresh
        BY <1>2, <1>3, <3>1 DEF EV!Saved
      <4>2. c.next = 1 /\ c.history = {}
        BY <4>1 DEF EV!Fresh
      <4> QED BY <1>8, <4>2 DEF EV!Sane, EV!Stands, EV!Sound
    <3>2. CASE v5[p] # None
      <4>1. c \in EV!Held(p)
        BY <1>7, <1>11, <3>2 DEF EV!Held
      <4> QED BY <1>10, <2>1, <4>1 DEF EV!CursorInv
    <3> QED BY <3>1, <3>2
  <2>4. \A h \in c.history : h \notin lost => EV!InChain(h)
    <3>1. \A h \in c.history : h.at + (N - 1) <= Len(v1)
      BY <2>3 DEF EV!Sane
    <3> QED BY <1>4, <1>8, <1>12, <1>13, <3>1
  <2>5. \A h \in f.history : \A k \in c.history : k.at <= h.at => k \notin lost
    <3>1. CASE lost = {}
      BY <3>1
    <3>2. CASE lost # {}
      <4>1. lost \in SUBSET c.history
        BY <1>13
      <4>2. PICK g \in lost : /\ \A h \in lost : g.at <= h.at
                              /\ f.history = {k \in c.history : k.at < g.at}
        BY <1>6, <1>11, <3>2, <4>1, RewoundIs
      <4> QED BY <1>12, <4>1, <4>2
    <3> QED BY <3>1, <3>2
  <2>6. f.next <= c.next /\ \A h \in f.history : h.at < f.next
    <3>1. \A h \in c.history : h.at < c.next
      BY <2>3 DEF EV!Sane
    <3>2. CASE lost = {}
      <4>1. f = c
        BY <1>6, <1>11, <3>2, RewoundIs
      <4> QED BY <1>8, <1>11, <3>1, <4>1 DEF EV!Cursor
    <3>3. CASE lost # {}
      <4>1. lost \in SUBSET c.history
        BY <1>13
      <4>2. PICK g \in lost : /\ f.history = {k \in c.history : k.at < g.at}
                              /\ f.next = IF c.next < g.at THEN c.next ELSE g.at
        BY <1>6, <1>11, <3>3, <4>1, RewoundIs
      <4>3. c.next \in Nat /\ g.at \in Nat
        BY <1>8, <1>11, <1>12, <4>1 DEF EV!Cursor
      <4> QED BY <1>12, <3>1, <4>2, <4>3
    <3> QED BY <3>2, <3>3
  <2>7. f.next \in Nat /\ c.next \in Nat
    BY <1>8, <1>11, <1>14 DEF EV!Cursor
  <2>8. EV!Sane(f, p)
    <3>1. f.next <= 1 \/ f.next + (N - 1) <= Len(v1) + 1
      BY <1>8, <2>3, <2>6, <2>7 DEF EV!Sane
    <3> QED BY <1>14, <2>3, <2>6, <3>1 DEF EV!Sane
  <2>9. EV!Stands(f, p, {})
    BY <1>8, <1>14, <2>3, <2>6, <2>7 DEF EV!Stands
  <2>10. \A h \in f.history : h.log \notin {k.log : k \in lost}
    <3> SUFFICES ASSUME NEW h \in f.history, NEW k \in lost PROVE h.log # k.log
      OBVIOUS
    <3>1. k \in c.history /\ h \in c.history
      BY <1>13, <1>14
    <3>2. h.at < k.at
      BY <1>12, <2>5, <3>1
    <3>3. EV!InChain(h)
      BY <1>12, <2>4, <2>5, <3>1
    <3> QED BY <2>3, <3>1, <3>2, <3>3 DEF EV!Sane
  <2>11. ~v8.lost => \A h \in f.history : EV!Holds(h.log) \/ h.log \in v8.cut
    <3> SUFFICES ASSUME ~v8.lost, NEW h \in f.history PROVE EV!Holds(h.log) \/ h.log \in v8.cut
      OBVIOUS
    <3>1. \A k \in c.history : k.at <= h.at => EV!InChain(k)
      BY <2>4, <2>5
    <3> QED BY <1>14, <2>3, <3>1 DEF EV!Sound
  <2>12. \A h \in lost : v5[p] # None /\ h \in v5[p].history /\ ~EV!InChain(h)
    BY <1>11, <1>13
  <2>13. v2.deep \/ lost = {}
    BY <1>13, <2>3 DEF EV!Sane
  <2>14. (EV!Polled = p)' /\ EV!Read' = {}
    BY <1>2, <1>15, <1>16 DEF EV!Polled, EV!Read
  <2>15. EV!Sane(f, p)' /\ EV!Stands(f, p, {})'
    BY <1>7, <2>8, <2>9 DEF EV!Sane, EV!Stands, EV!InChain, EV!Kept
  <2>16. (EV!Sane(v6.found, EV!Polled) /\ EV!Stands(v6.found, EV!Polled, EV!Read))'
    BY <1>15, <2>14, <2>15 DEF EV!Sane, EV!Stands, EV!InChain, EV!Kept
  <2>17. \A l \in v6'.gone : /\ p \in DOMAIN v5 /\ v5[p] # None
                             /\ \E h \in v5[p].history : h.log = l /\ ~EV!InChain(h)
    BY <1>7, <1>15, <2>12
  <2>18. v2.deep \/ (v6'.gone = {} /\ \A l \in X : v3[l] = None \/ v3[l].canonical)
    BY <1>15, <2>1, <2>13 DEF EV!PollInv
  <2>19. ~v8.lost => \A h \in v6'.found.history :
           (EV!Holds(h.log) /\ h.log \notin v6'.gone) \/ h.log \in EV!Read' \cup v8.cut
    BY <1>15, <2>10, <2>11
  <2>20. UNCHANGED <<v1, v2, v3, v5, v8>>
    BY <1>7
  <2>21. EV!PollInv'
    BY <2>14, <2>16, <2>17, <2>18, <2>19, <2>20 DEF EV!PollInv, EV!Holds, EV!InChain
  <2> QED BY <2>2, <2>21
<1>21. EV!ChainInv'
  BY <1>1, <1>7 DEF EV!ChainInv
<1> QED BY <1>19, <1>20, <1>21 DEF EV!SourceInv

\* A range read goes into the history with the blocks it was read from.
LEMMA ReadLogsKeeps ==
  ASSUME EV!NoneIsNoLog, EV!SourceInv, EV!ReadLogs
  PROVE  EV!SourceInv'
<1>1. EV!ChainInv /\ EV!Shapes
  BY DEF EV!SourceInv
<1>2. PICK p : p = EV!Polled
  OBVIOUS
<1>3. PICK from : from = v6.found.next
  OBVIOUS
<1>4. PICK to : to = IF from + (N - 1) - 1 < v6.head THEN from + (N - 1) - 1 ELSE v6.head
  OBVIOUS
<1>5. PICK read : read = {EV!Found(i) : i \in from .. to} \ {None}
  OBVIOUS
<1>6. PICK f : f = [next |-> to + 1, history |-> v6.found.history \cup read]
  OBVIOUS
<1>7. /\ v6.step = "logs" /\ from <= v6.head /\ v6.left > 0
      /\ v6' = [v6 EXCEPT !.left = @ - 1, !.events = @ \cup read, !.found = f]
      /\ UNCHANGED <<v1, v2, v3, v4, v5, v7, v8>>
  BY <1>3, <1>4, <1>5, <1>6 DEF EV!ReadLogs
<1>8. /\ Len(v1) \in Nat /\ N \in Nat /\ N - 1 \in Nat /\ N + 1 \in Nat
      /\ v6 \in EV!Polls /\ v6.head \in Nat /\ v6.head <= N + 1 /\ v6.left \in 0 .. N
      /\ v6.head + (N - 1) <= Len(v1) /\ v6.found \in EV!Cursor /\ v6.at \in 1 .. Len(Polling)
  BY <1>1, <1>7, SourceTypes DEF EV!Shapes, EV!Polls
<1>9. from \in Nat /\ from >= 1 /\ to \in Nat /\ to <= v6.head /\ from <= to + 1
  <2>1. from \in 1 .. N + 1 + 1
    BY <1>3, <1>8 DEF EV!Cursor
  <2>2. from \in Nat /\ from >= 1
    BY <1>8, <2>1
  <2>3. PICK top : top = v6.head /\ top \in Nat /\ from <= top
    BY <1>7, <1>8
  <2>4. PICK r : r = N - 1 /\ r \in Nat
    BY <1>8
  <2>5. to = IF from + r - 1 < top THEN from + r - 1 ELSE top
    BY <1>4, <2>3, <2>4
  <2>6. to \in Nat /\ to <= top /\ from <= to + 1
    BY <2>2, <2>3, <2>4, <2>5
  <2> QED BY <2>2, <2>3, <2>6
<1>10. \A i \in from .. to : i \in 1 .. Len(v1) /\ i \in 1 .. N + 1 /\ i + (N - 1) <= Len(v1)
  <2>1. PICK len, head, r, m : len = Len(v1) /\ head = v6.head /\ r = N - 1 /\ m = N + 1
    OBVIOUS
  <2>2. /\ len \in Nat /\ head \in Nat /\ r \in Nat /\ m \in Nat
        /\ head + r <= len /\ head <= m /\ to <= head
    BY <1>8, <1>9, <2>1
  <2>3. \A i \in from .. to : i \in 1 .. len /\ i \in 1 .. m /\ i + r <= len
    BY <1>9, <2>2
  <2> QED BY <2>1, <2>3
<1>11. ASSUME NEW e \in read
       PROVE  /\ e \in EV!Entry /\ e.at \in from .. to /\ e.at \in 1 .. Len(v1) /\ e.at + (N - 1) <= Len(v1)
              /\ e.fork = v1[e.at].fork /\ e.log = v1[e.at].log /\ e.log # None /\ Emits[e.log] = p
  <2>1. PICK i \in from .. to : e = EV!Found(i) /\ e # None
    BY <1>5
  <2>2. /\ v1[i].log # None /\ Emits[v1[i].log] = p
        /\ e = [at |-> i, fork |-> v1[i].fork, log |-> v1[i].log]
    BY <1>2, <2>1 DEF EV!Found
  <2>3. i \in 1 .. Len(v1) /\ i \in 1 .. N + 1 /\ i + (N - 1) <= Len(v1)
    BY <1>10, <2>1
  <2>4. v1[i] \in EV!Block
    BY <1>1, <2>3, SourceTypes
  <2>5. PICK b : b = v1[i]
    OBVIOUS
  <2>6. b.fork \in 0 .. N - 1 /\ b.log \in X
    BY <2>2, <2>4, <2>5 DEF EV!Block
  <2>7. e = [at |-> i, fork |-> b.fork, log |-> b.log]
    BY <2>2, <2>5
  <2>8. e \in EV!Entry /\ e.at = i /\ e.fork = b.fork /\ e.log = b.log
    BY <2>3, <2>6, <2>7 DEF EV!Entry
  <2> QED BY <2>2, <2>3, <2>5, <2>8
<1>12. \A i \in from .. to : v1[i].log # None /\ Emits[v1[i].log] = p => \E e \in read : e.log = v1[i].log
  <2> SUFFICES ASSUME NEW i \in from .. to, v1[i].log # None, Emits[v1[i].log] = p
               PROVE  \E e \in read : e.log = v1[i].log
    OBVIOUS
  <2>1. PICK b : b = v1[i]
    OBVIOUS
  <2>2. PICK e : e = [at |-> i, fork |-> b.fork, log |-> b.log]
    OBVIOUS
  <2>3. e = EV!Found(i) /\ e.log = b.log
    BY <1>2, <2>1, <2>2 DEF EV!Found
  <2>4. i \in 1 .. N + 1 /\ i \in 1 .. Len(v1)
    BY <1>10
  <2>5. b.fork \in 0 .. N - 1 /\ b.log \in X
    BY <1>1, <2>1, <2>4, SourceTypes DEF EV!Block
  <2>6. e \in EV!Entry
    BY <2>2, <2>4, <2>5 DEF EV!Entry
  <2>7. e # None
    BY <2>6 DEF EV!NoneIsNoLog
  <2> QED BY <1>5, <2>1, <2>3, <2>7
<1>13. f \in EV!Cursor /\ f.next = to + 1 /\ f.history = v6.found.history \cup read
  <2>1. to + 1 \in 1 .. N + 1 + 1
    BY <1>8, <1>9
  <2>2. v6.found.history \cup read \in SUBSET EV!Entry
    BY <1>8, <1>11 DEF EV!Cursor
  <2> QED BY <1>6, <2>1, <2>2 DEF EV!Cursor
<1>14. /\ v6' \in EV!Polls /\ v6'.step = "logs" /\ v6'.at = v6.at /\ v6'.head = v6.head /\ v6'.found = f
       /\ v6'.events = v6.events \cup read /\ v6'.gone = v6.gone
  <2>1. v6.left - 1 \in 0 .. N
    BY <1>7, <1>8
  <2>2. v6.events \cup read \in SUBSET EV!Entry
    BY <1>8, <1>11 DEF EV!Polls
  <2> QED BY <1>7, <1>8, <1>13, <2>1, <2>2 DEF EV!Polls
<1>15. EV!Shapes'
  <2>1. f # EV!Empty
    <3>1. f.next # 0
      BY <1>8, <1>13 DEF EV!Cursor
    <3> QED BY <3>1 DEF EV!Empty
  <2> QED BY <1>1, <1>7, <1>8, <1>14, <2>1 DEF EV!Shapes
<1>16. EV!CursorInv' /\ EV!PollInv'
  <2>1. EV!CursorInv /\ EV!PollInv
    BY DEF EV!SourceInv
  <2>2. EV!CursorInv'
    <3>1. \A s \in EV!Sources : \A e : e \in EV!Held(s)' => e \in EV!Held(s)
      BY <1>7 DEF EV!Held
    <3> QED BY <1>7, <2>1, <3>1, CursorsMove DEF EV!CursorInv
  <2>3. PICK g : g = v6.found
    OBVIOUS
  <2>4. EV!Sane(g, p) /\ EV!Stands(g, p, EV!Read) /\ g.next = from /\ f.history = g.history \cup read
    BY <1>2, <1>3, <1>13, <2>1, <2>3 DEF EV!PollInv
  <2>5. \A h \in g.history : h \in EV!Entry /\ h.at \in Nat /\ h.at < from /\ h.at \in 1 .. Len(v1)
    <3>1. \A h \in g.history : h \in EV!Entry /\ h.at \in Nat /\ h.at >= 1
      BY <1>1, <1>8, <2>3, SourceTypes
    <3>2. \A h \in g.history : h.at < from /\ h.at + (N - 1) <= Len(v1)
      BY <2>4 DEF EV!Sane
    <3> QED BY <1>8, <3>1, <3>2
  <2>6. EV!Sane(f, p)
    <3>1. f.next + (N - 1) <= Len(v1) + 1
      BY <1>8, <1>9, <1>13
    <3>2. ASSUME NEW h \in f.history
          PROVE  /\ h.at < f.next /\ h.at + (N - 1) <= Len(v1) /\ h.fork <= v2.seen /\ Emits[h.log] = p
                 /\ EV!InChain(h) => v1[h.at].log = h.log
                 /\ v2.deep \/ EV!InChain(h)
      <4>1. CASE h \in g.history
        <5>1. h.at < f.next
          BY <1>9, <1>13, <2>5, <4>1
        <5> QED BY <2>4, <4>1, <5>1 DEF EV!Sane
      <4>2. CASE h \in read
        <5>1. h.at < f.next
          BY <1>9, <1>11, <1>13, <4>2
        <5>2. h.fork <= v2.seen
          BY <1>1, <1>11, <4>2 DEF EV!ChainInv
        <5> QED BY <1>11, <4>2, <5>1, <5>2 DEF EV!InChain
      <4> QED BY <1>13, <2>3, <4>1, <4>2
    <3>3. ASSUME NEW h \in f.history, NEW k \in f.history, h.at < k.at, EV!InChain(h) PROVE h.log # k.log
      <4>1. h \in g.history \/ h \in read
        BY <1>13, <2>3
      <4>2. v1[h.at].log = h.log /\ h.at \in 1 .. Len(v1) /\ h.log # None
        <5>1. h.at \in 1 .. Len(v1)
          BY <1>11, <2>5, <4>1
        <5>2. h \in EV!Entry
          BY <1>11, <2>5, <4>1
        <5> QED BY <3>2, <3>3, <5>1, <5>2 DEF EV!NoneIsNoLog, EV!Entry
      <4>3. CASE k \in g.history
        <5>1. h \notin read
          BY <1>9, <1>11, <2>5, <3>3, <4>3
        <5> QED BY <2>4, <3>3, <4>1, <4>3, <5>1 DEF EV!Sane
      <4>4. CASE k \in read
        <5>1. v1[k.at].log = k.log /\ k.at \in 1 .. Len(v1) /\ k.at # h.at
          BY <1>8, <1>11, <3>3, <4>2, <4>4
        <5> QED BY <1>1, <4>2, <5>1 DEF EV!ChainInv
      <4> QED BY <1>13, <2>3, <4>3, <4>4
    <3> QED BY <3>1, <3>2, <3>3 DEF EV!Sane
  <2>7. PICK r : r = {e.log : e \in v6.events \cup read}
    OBVIOUS
  <2>8. EV!Read \subseteq r /\ \A e \in read : e.log \in r
    BY <2>7 DEF EV!Read
  <2>9. EV!Stands(f, p, r)
    <3>1. \A h \in f.history : EV!Kept(h.log) \/ h.log \in r
      BY <1>13, <2>3, <2>4, <2>8 DEF EV!Stands
    <3>2. ASSUME ~v2.deep, NEW i \in 1 .. Len(v1), i < f.next, v1[i].log # None, Emits[v1[i].log] = p
          PROVE  EV!Kept(v1[i].log) \/ v1[i].log \in r
      <4>1. CASE i < from
        BY <2>4, <2>8, <3>2, <4>1 DEF EV!Stands
      <4>2. CASE ~(i < from)
        <5>1. i \in from .. to
          BY <1>8, <1>9, <1>13, <3>2, <4>2
        <5> QED BY <1>12, <2>8, <3>2, <5>1
      <4> QED BY <4>1, <4>2
    <3> QED BY <3>1, <3>2 DEF EV!Stands
  <2>10. (EV!Polled = p)' /\ EV!Read' = r
    BY <1>2, <1>14, <2>7 DEF EV!Polled, EV!Read
  <2>11. EV!Sane(f, p)' /\ EV!Stands(f, p, r)'
    BY <1>7, <2>6, <2>9 DEF EV!Sane, EV!Stands, EV!InChain, EV!Kept
  <2>12. (EV!Sane(v6.found, EV!Polled) /\ EV!Stands(v6.found, EV!Polled, EV!Read))'
    BY <1>14, <2>10, <2>11 DEF EV!Sane, EV!Stands, EV!InChain, EV!Kept
  <2>13. ~v8.lost => \A h \in f.history : (EV!Holds(h.log) /\ h.log \notin v6.gone) \/ h.log \in r \cup v8.cut
    BY <1>13, <2>1, <2>8 DEF EV!PollInv
  <2>14. \A l \in v6.gone : /\ p \in DOMAIN v5 /\ v5[p] # None
                            /\ \E h \in v5[p].history : h.log = l /\ ~EV!InChain(h)
    BY <1>2, <2>1 DEF EV!PollInv
  <2>15. v2.deep \/ (v6.gone = {} /\ \A l \in X : v3[l] = None \/ v3[l].canonical)
    BY <2>1 DEF EV!PollInv
  <2>16. UNCHANGED <<v1, v2, v3, v5, v8>> /\ v6'.gone = v6.gone /\ v6'.found = f
    BY <1>7, <1>14
  <2>17. EV!PollInv'
    BY <2>10, <2>12, <2>13, <2>14, <2>15, <2>16 DEF EV!PollInv, EV!Holds, EV!InChain
  <2> QED BY <2>2, <2>17
<1>17. EV!ChainInv'
  BY <1>1, <1>7 DEF EV!ChainInv
<1> QED BY <1>15, <1>16, <1>17 DEF EV!SourceInv

\* A poll that has read its ranges, or was aborted, keeps its recent history.
LEMMA ReadDoneKeeps ==
  ASSUME EV!NoneIsNoLog, EV!SourceInv, EV!ReadDone
  PROVE  EV!SourceInv'
<1>1. EV!ChainInv /\ EV!Shapes
  BY DEF EV!SourceInv
<1>2. PICK H : H = IF v7 THEN v6.found.history ELSE EV!Recent(v6.found.history)
  OBVIOUS
<1>3. PICK f : f = [v6.found EXCEPT !.history = H]
  OBVIOUS
<1>4. v6.step = "logs" /\ UNCHANGED <<v1, v2, v3, v4, v5, v7, v8>>
  BY DEF EV!ReadDone
<1>5. /\ v6 \in EV!Polls /\ v6.found \in EV!Cursor /\ v6.found # EV!Empty /\ v6.head + (N - 1) <= Len(v1)
      /\ v6.at \in 1 .. Len(Polling) /\ H \subseteq v6.found.history
  BY <1>1, <1>2, <1>4 DEF EV!Shapes, EV!Polls, EV!Recent
<1>6. v6' = [v6 EXCEPT !.step = "mark", !.found = f]
  BY <1>2, <1>3, <1>5 DEF EV!ReadDone, EV!Polls
<1>7. f \in EV!Cursor /\ f.next = v6.found.next /\ f.history = H
  BY <1>3, <1>5 DEF EV!Cursor
<1>8. /\ v6' \in EV!Polls /\ v6'.step = "mark" /\ v6'.at = v6.at /\ v6'.head = v6.head /\ v6'.found = f
      /\ v6'.events = v6.events /\ v6'.gone = v6.gone
  BY <1>5, <1>6, <1>7 DEF EV!Polls
<1>9. EV!Shapes'
  <2>1. f # EV!Empty
    <3>1. f.next # 0
      BY <1>1, <1>7, SourceTypes DEF EV!Cursor
    <3> QED BY <3>1 DEF EV!Empty
  <2> QED BY <1>1, <1>4, <1>5, <1>8, <2>1 DEF EV!Shapes
<1>10. EV!CursorInv' /\ EV!PollInv'
  <2>1. EV!CursorInv /\ EV!PollInv
    BY DEF EV!SourceInv
  <2>2. EV!CursorInv'
    <3>1. \A s \in EV!Sources : \A e : e \in EV!Held(s)' => e \in EV!Held(s)
      BY <1>4 DEF EV!Held
    <3> QED BY <1>4, <2>1, <3>1, CursorsMove DEF EV!CursorInv
  <2>3. PICK p : p = EV!Polled
    OBVIOUS
  <2>4. PICK r : r = EV!Read
    OBVIOUS
  <2>5. EV!Sane(f, p) /\ EV!Stands(f, p, r)
    BY <1>5, <1>7, <2>1, <2>3, <2>4 DEF EV!PollInv, EV!Sane, EV!Stands
  <2>6. (EV!Polled = p)' /\ EV!Read' = r
    BY <1>8, <2>3, <2>4 DEF EV!Polled, EV!Read
  <2>7. EV!Sane(f, p)' /\ EV!Stands(f, p, r)'
    BY <1>4, <2>5 DEF EV!Sane, EV!Stands, EV!InChain, EV!Kept
  <2>8. (EV!Sane(v6.found, EV!Polled) /\ EV!Stands(v6.found, EV!Polled, EV!Read))'
    BY <1>8, <2>6, <2>7 DEF EV!Sane, EV!Stands, EV!InChain, EV!Kept
  <2>9. ~v8.lost => \A h \in f.history : (EV!Holds(h.log) /\ h.log \notin v6.gone) \/ h.log \in r \cup v8.cut
    BY <1>5, <1>7, <2>1, <2>4 DEF EV!PollInv
  <2>10. \A l \in v6.gone : /\ p \in DOMAIN v5 /\ v5[p] # None
                            /\ \E h \in v5[p].history : h.log = l /\ ~EV!InChain(h)
    BY <2>1, <2>3 DEF EV!PollInv
  <2>11. v2.deep \/ (v6.gone = {} /\ \A l \in X : v3[l] = None \/ v3[l].canonical)
    BY <2>1 DEF EV!PollInv
  <2>12. UNCHANGED <<v1, v2, v3, v5, v8>> /\ v6'.gone = v6.gone /\ v6'.found = f
    BY <1>4, <1>8
  <2>13. EV!PollInv'
    BY <2>6, <2>8, <2>9, <2>10, <2>11, <2>12 DEF EV!PollInv, EV!Holds, EV!InChain
  <2> QED BY <2>2, <2>13
<1>11. EV!ChainInv'
  BY <1>1, <1>4 DEF EV!ChainInv
<1> QED BY <1>9, <1>10, <1>11 DEF EV!SourceInv

\* What is retracted names a block that gave way; a log still in the chain below it is
\* another one.
LEMMA MarkReorgKeeps ==
  ASSUME EV!NoneIsNoLog, EV!SourceInv, EV!MarkReorg
  PROVE  EV!SourceInv'
<1>1. EV!ChainInv /\ EV!Shapes
  BY DEF EV!SourceInv
<1>2. PICK p : p = EV!Polled
  OBVIOUS
<1>3. PICK l \in v6.gone :
        /\ v3' = IF v3[l] = None THEN v3 ELSE [v3 EXCEPT ![l].canonical = FALSE]
        /\ v6' = [v6 EXCEPT !.gone = @ \ {l}]
  BY DEF EV!MarkReorg
<1>4. v6.step = "mark" /\ UNCHANGED <<v1, v2, v4, v5, v7, v8>>
  BY DEF EV!MarkReorg
<1>5. v6 \in EV!Polls /\ v3 \in [X -> EV!Row \cup {None}] /\ l \in X
  BY <1>1, <1>3 DEF EV!Shapes, EV!Polls
<1>6. /\ v6' \in EV!Polls /\ v6'.step = "mark" /\ v6'.at = v6.at /\ v6'.head = v6.head
      /\ v6'.found = v6.found /\ v6'.events = v6.events /\ v6'.gone = v6.gone \ {l}
  BY <1>3, <1>4, <1>5 DEF EV!Polls
<1>7. /\ v3' \in [X -> EV!Row \cup {None}] /\ \A k \in X : k # l => v3'[k] = v3[k]
      /\ \A k \in X : v3[k] # None => v3'[k] # None
  <2>1. CASE v3[l] = None
    BY <1>3, <1>5, <2>1
  <2>2. CASE v3[l] # None
    <3>1. v3[l] \in EV!Row
      BY <1>5, <2>2
    <3>2. PICK w : w = [v3[l] EXCEPT !.canonical = FALSE]
      OBVIOUS
    <3>3. w \in EV!Row
      BY <3>1, <3>2 DEF EV!Row
    <3>4. v3' = [v3 EXCEPT ![l] = w]
      BY <1>3, <2>2, <3>2
    <3>5. w # None
      BY <3>3 DEF EV!NoneIsNoLog
    <3> QED BY <1>5, <3>3, <3>4, <3>5
  <2> QED BY <2>1, <2>2
<1>8. EV!Shapes'
  BY <1>1, <1>4, <1>6, <1>7 DEF EV!Shapes
<1>9. EV!CursorInv' /\ EV!PollInv'
  <2>1. EV!CursorInv /\ EV!PollInv
    BY DEF EV!SourceInv
  <2>2. PICK g \in v5[p].history : g.log = l /\ ~EV!InChain(g) /\ p \in DOMAIN v5 /\ v5[p] # None
    BY <1>2, <1>3, <2>1 DEF EV!PollInv
  <2>3. v2.deep
    BY <1>3, <2>1 DEF EV!PollInv
  <2>4. PICK m : m = v5[p]
    OBVIOUS
  <2>5. p \in EV!Sources /\ m \in EV!Held(p) /\ g \in m.history
    BY <1>1, <2>2, <2>4 DEF EV!Shapes, EV!Held
  <2>6. EV!Sane(m, p) /\ Emits[l] = p
    BY <2>1, <2>2, <2>5 DEF EV!CursorInv, EV!Sane
  <2>7. ASSUME NEW s \in EV!Sources, NEW c \in EV!Held(s)
        PROVE  EV!Sane(c, s)' /\ EV!Stands(c, s, {})' /\ (~v8.lost => EV!Sound(c)')
    <3>1. EV!Sane(c, s) /\ EV!Stands(c, s, {}) /\ (~v8.lost => EV!Sound(c))
      BY <2>1 DEF EV!CursorInv
    <3>2. \A h \in c.history : h \in EV!Entry /\ h.at \in Nat /\ h.log \in X
      BY <1>1, SourceTypes
    <3>3. EV!Sane(c, s)'
      BY <1>4, <3>1 DEF EV!Sane, EV!InChain
    <3>4. EV!Stands(c, s, {})'
      BY <1>4, <1>7, <2>3, <3>1, <3>2 DEF EV!Stands, EV!Kept
    <3>5. ASSUME ~v8.lost, NEW h \in c.history, \A k \in c.history : k.at <= h.at => EV!InChain(k)
          PROVE  EV!Holds(h.log)' \/ h.log \in v8.cut
      <4>1. h.log \in X /\ (EV!Holds(h.log) \/ h.log \in v8.cut)
        BY <3>1, <3>2, <3>5 DEF EV!Sound
      <4>2. h.log # l
        <5>1. CASE s # p
          BY <2>6, <3>1, <5>1 DEF EV!Sane
        <5>2. CASE s = p
          <6>1. c = m
            <7>1. v5[p] = v4[p] \/ v4[p] \in {None, EV!Empty}
              BY <2>1, <2>2, <2>5, <3>5 DEF EV!CursorInv
            <7>2. c # EV!Empty /\ c # None
              BY <3>5 DEF EV!Empty, EV!Held
            <7> QED BY <2>2, <2>4, <5>2, <7>1, <7>2 DEF EV!Held
          <6>2. h.at < g.at
            <7>1. g \in c.history /\ ~(g.at <= h.at)
              BY <2>2, <2>5, <3>5, <6>1
            <7> QED BY <3>2, <7>1
          <6>3. EV!InChain(h)
            BY <3>2, <3>5
          <6> QED BY <2>2, <2>5, <2>6, <6>1, <6>2, <6>3 DEF EV!Sane
        <5> QED BY <5>1, <5>2
      <4> QED BY <1>7, <4>1, <4>2 DEF EV!Holds
    <3>6. ~v8.lost => EV!Sound(c)'
      BY <1>4, <3>5 DEF EV!Sound, EV!InChain
    <3> QED BY <3>3, <3>4, <3>6
  <2>8. \A s \in EV!Sources : EV!Held(s)' = EV!Held(s)
    BY <1>4 DEF EV!Held
  <2>9. ~v8.lost => \A s \in EV!Sources :
          s \in DOMAIN v5 => v5[s] = v4[s] \/ v4[s] \in {None, EV!Empty}
    BY <2>1 DEF EV!CursorInv
  <2>10. EV!CursorInv'
    BY <1>4, <2>7, <2>8, <2>9 DEF EV!CursorInv
  <2>11. PICK f : f = v6.found
    OBVIOUS
  <2>12. PICK r : r = EV!Read
    OBVIOUS
  <2>13. EV!Sane(f, p) /\ EV!Stands(f, p, r) /\ \A h \in f.history : h.log \in X
    <3>1. f \in EV!Cursor \cup {EV!Empty}
      BY <1>5, <2>11 DEF EV!Polls
    <3> QED BY <1>1, <1>2, <2>1, <2>11, <2>12, <3>1, SourceTypes DEF EV!PollInv
  <2>14. (EV!Polled = p)' /\ EV!Read' = r /\ v6'.found = f
    BY <1>2, <1>6, <2>11, <2>12 DEF EV!Polled, EV!Read
  <2>15. EV!Sane(f, p)' /\ EV!Stands(f, p, r)'
    BY <1>4, <1>7, <2>3, <2>13 DEF EV!Sane, EV!Stands, EV!InChain, EV!Kept
  <2>16. (EV!Sane(v6.found, EV!Polled) /\ EV!Stands(v6.found, EV!Polled, EV!Read))'
    BY <2>14, <2>15 DEF EV!Sane, EV!Stands, EV!InChain, EV!Kept
  <2>17. ~v8.lost => \A h \in f.history : (EV!Holds(h.log)' /\ h.log \notin v6'.gone) \/ h.log \in r \cup v8.cut
    <3> SUFFICES ASSUME ~v8.lost, NEW h \in f.history, h.log \notin r \cup v8.cut
                 PROVE  EV!Holds(h.log)' /\ h.log \notin v6'.gone
      OBVIOUS
    <3>1. EV!Holds(h.log) /\ h.log \notin v6.gone
      BY <2>1, <2>11, <2>12 DEF EV!PollInv
    <3>2. h.log # l /\ h.log \in X
      BY <1>3, <2>13, <3>1
    <3> QED BY <1>6, <1>7, <3>1, <3>2 DEF EV!Holds
  <2>18. \A k \in v6'.gone : /\ p \in DOMAIN v5 /\ v5[p] # None
                             /\ \E h \in v5[p].history : h.log = k /\ ~EV!InChain(h)
    BY <1>2, <1>6, <2>1 DEF EV!PollInv
  <2>19. EV!PollInv'
    BY <1>4, <2>3, <2>14, <2>16, <2>17, <2>18 DEF EV!PollInv, EV!InChain
  <2> QED BY <2>10, <2>19
<1>10. EV!ChainInv'
  BY <1>1, <1>4 DEF EV!ChainInv
<1> QED BY <1>8, <1>9, <1>10 DEF EV!SourceInv

\* What is put into the inbox is canonical there; what else was read still is to be put.
LEMMA IngestKeeps ==
  ASSUME EV!NoneIsNoLog, EV!SourceInv, EV!Ingest
  PROVE  EV!SourceInv'
<1>1. EV!ChainInv /\ EV!Shapes
  BY DEF EV!SourceInv
<1>2. PICK p : p = EV!Polled
  OBVIOUS
<1>3. PICK e \in v6.events : /\ v3' = [v3 EXCEPT ![e.log] = EV!Stored(@, e)]
                             /\ v6' = [v6 EXCEPT !.events = @ \ {e}]
                             /\ v8' = [v8 EXCEPT !.cut = @ \ {e.log}]
  BY DEF EV!Ingest
<1>4. v6.step = "mark" /\ v6.gone = {} /\ UNCHANGED <<v1, v2, v4, v5, v7>>
  BY DEF EV!Ingest
<1>5. v6 \in EV!Polls /\ v3 \in [X -> EV!Row \cup {None}] /\ e \in EV!Entry /\ e.log \in X
  BY <1>1, <1>3, SourceTypes DEF EV!Shapes, EV!Polls
<1>6. /\ v6' \in EV!Polls /\ v6'.step = "mark" /\ v6'.at = v6.at /\ v6'.head = v6.head
      /\ v6'.found = v6.found /\ v6'.events = v6.events \ {e} /\ v6'.gone = {}
  BY <1>3, <1>4, <1>5 DEF EV!Polls
<1>7. PICK l : l = e.log
  OBVIOUS
<1>8. PICK w : w = EV!Stored(v3[l], e)
  OBVIOUS
<1>9. w \in EV!Row /\ w # None /\ w.canonical
  <2>1. CASE v3[l] # None /\ v3[l].canonical
    <3>1. w = v3[l] /\ v3[l] \in EV!Row
      BY <1>5, <1>7, <1>8, <2>1 DEF EV!Stored
    <3> QED BY <2>1, <3>1
  <2>2. CASE ~(v3[l] # None /\ v3[l].canonical)
    <3>1. w = [at |-> e.at, fork |-> e.fork, canonical |-> TRUE]
      BY <1>8, <2>2 DEF EV!Stored
    <3>2. w \in EV!Row /\ w.canonical
      BY <1>5, <3>1 DEF EV!Entry, EV!Row
    <3> QED BY <3>2 DEF EV!NoneIsNoLog
  <2> QED BY <2>1, <2>2
<1>10. v3' = [v3 EXCEPT ![l] = w] /\ l \in X
  BY <1>3, <1>5, <1>7, <1>8
<1>11. /\ v3' \in [X -> EV!Row \cup {None}] /\ \A k \in X : k # l => v3'[k] = v3[k]
       /\ v3'[l] = w /\ \A k \in X : v3[k] # None => v3'[k] # None
  BY <1>5, <1>9, <1>10
<1>12. EV!Shapes'
  <2>1. v8' \in [fails : 0 .. N - 1, stops : 0 .. N - 1, lost : BOOLEAN, cut : SUBSET X]
    BY <1>1, <1>3 DEF EV!Shapes
  <2> QED BY <1>1, <1>4, <1>6, <1>11, <2>1 DEF EV!Shapes
<1>13. v8'.lost = v8.lost /\ \A k : k # l /\ k \in v8.cut => k \in v8'.cut
  BY <1>1, <1>3, <1>7 DEF EV!Shapes
<1>14. \A k \in X : EV!Holds(k) \/ k \in v8.cut => EV!Holds(k)' \/ k \in v8'.cut
  BY <1>9, <1>11, <1>13 DEF EV!Holds
<1>15. \A k \in X : EV!Kept(k) => EV!Kept(k)'
  BY <1>9, <1>11, <1>13 DEF EV!Kept
<1>16. EV!Kept(l)'
  BY <1>9, <1>11 DEF EV!Kept
<1>17. EV!Holds(l)'
  BY <1>9, <1>11 DEF EV!Holds
<1>18. EV!CursorInv' /\ EV!PollInv'
  <2>1. EV!CursorInv /\ EV!PollInv
    BY DEF EV!SourceInv
  <2>2. \A i \in 1 .. Len(v1) : v1[i].log \in X \cup {None}
    BY <1>1, SourceTypes
  <2>3. ASSUME NEW s \in EV!Sources, NEW c \in EV!Held(s)
        PROVE  EV!Sane(c, s)' /\ EV!Stands(c, s, {})' /\ (~v8.lost => EV!Sound(c)')
    <3>1. EV!Sane(c, s) /\ EV!Stands(c, s, {}) /\ (~v8.lost => EV!Sound(c))
      BY <2>1 DEF EV!CursorInv
    <3>2. \A h \in c.history : h.log \in X
      BY <1>1, SourceTypes
    <3>3. EV!Sane(c, s)'
      BY <1>4, <3>1 DEF EV!Sane, EV!InChain
    <3>4. EV!Stands(c, s, {})'
      BY <1>4, <1>15, <2>2, <3>1, <3>2 DEF EV!Stands
    <3>5. ~v8.lost => EV!Sound(c)'
      BY <1>4, <1>14, <3>1, <3>2 DEF EV!Sound, EV!InChain
    <3> QED BY <3>3, <3>4, <3>5
  <2>4. \A s \in EV!Sources : EV!Held(s)' = EV!Held(s)
    BY <1>4 DEF EV!Held
  <2>5. ~v8.lost => \A s \in EV!Sources :
          s \in DOMAIN v5 => v5[s] = v4[s] \/ v4[s] \in {None, EV!Empty}
    BY <2>1 DEF EV!CursorInv
  <2>6. EV!CursorInv'
    BY <1>4, <1>13, <2>3, <2>4, <2>5 DEF EV!CursorInv
  <2>7. PICK f : f = v6.found
    OBVIOUS
  <2>8. PICK r : r = {k.log : k \in v6.events \ {e}}
    OBVIOUS
  <2>9. PICK r0 : r0 = EV!Read
    OBVIOUS
  <2>10. \A k \in r0 : k \in r \/ k = l
    BY <1>7, <2>8, <2>9 DEF EV!Read
  <2>11. EV!Sane(f, p) /\ EV!Stands(f, p, r0) /\ \A h \in f.history : h.log \in X
    <3>1. f \in EV!Cursor \cup {EV!Empty}
      BY <1>5, <2>7 DEF EV!Polls
    <3> QED BY <1>1, <1>2, <2>1, <2>7, <2>9, <3>1, SourceTypes DEF EV!PollInv
  <2>12. (EV!Polled = p)' /\ EV!Read' = r /\ v6'.found = f
    BY <1>2, <1>6, <2>7, <2>8 DEF EV!Polled, EV!Read
  <2>13. EV!Sane(f, p)'
    BY <1>4, <2>11 DEF EV!Sane, EV!InChain
  <2>14. EV!Stands(f, p, r)'
    BY <1>4, <1>15, <1>16, <2>2, <2>10, <2>11 DEF EV!Stands
  <2>15. (EV!Sane(v6.found, EV!Polled) /\ EV!Stands(v6.found, EV!Polled, EV!Read))'
    BY <2>12, <2>13, <2>14 DEF EV!Sane, EV!Stands, EV!InChain, EV!Kept
  <2>16. ~v8.lost => \A h \in f.history : EV!Holds(h.log)' \/ h.log \in r \cup v8'.cut
    <3> SUFFICES ASSUME ~v8.lost, NEW h \in f.history, h.log \notin r
                 PROVE  EV!Holds(h.log)' \/ h.log \in v8'.cut
      OBVIOUS
    <3>1. EV!Holds(h.log) \/ h.log \in v8.cut \/ h.log \in r0
      BY <2>1, <2>7, <2>9 DEF EV!PollInv
    <3> QED BY <1>14, <1>17, <2>10, <2>11, <3>1
  <2>17. v2.deep \/ \A k \in X : v3'[k] = None \/ v3'[k].canonical
    <3>1. v2.deep \/ \A k \in X : v3[k] = None \/ v3[k].canonical
      BY <2>1 DEF EV!PollInv
    <3> QED BY <1>9, <1>11, <3>1
  <2>18. EV!PollInv'
    BY <1>4, <1>6, <1>13, <2>12, <2>15, <2>16, <2>17 DEF EV!PollInv
  <2> QED BY <2>6, <2>18
<1>19. EV!ChainInv'
  BY <1>1, <1>4 DEF EV!ChainInv
<1> QED BY <1>12, <1>18, <1>19 DEF EV!SourceInv

\* A turn that ends leaves the types as they are.
LEMMA TurnTypes ==
  ASSUME EV!NoneIsNoLog, EV!Shapes, UNCHANGED v3, v7' \in BOOLEAN,
         v6' = EV!Down \/ \E i \in 1 .. Len(Polling) : v6' = EV!Idle(i),
         v8' \in [fails : 0 .. N - 1, stops : 0 .. N - 1, lost : BOOLEAN, cut : SUBSET X],
         DOMAIN v4' = DOMAIN v4, \A s \in DOMAIN v4 : v4'[s] \in EV!Cursor \cup {None, EV!Empty},
         DOMAIN v5' \subseteq DOMAIN v5, \A s \in DOMAIN v5' : v5'[s] \in EV!Cursor \cup {None, EV!Empty}
  PROVE  EV!Shapes'
<1>1. 1 \in 1 .. Len(Polling)
  BY DEF EV!NoneIsNoLog
<1>2. /\ v6' \in EV!Polls /\ v6'.step \notin {"logs", "mark"} /\ v6'.events = {} /\ v6'.gone = {}
      /\ v6'.step # "down" => v6'.at \in 1 .. Len(Polling)
  <2>1. CASE v6' = EV!Down
    BY <1>1, <2>1, IdlePolls
  <2>2. ASSUME NEW i \in 1 .. Len(Polling), v6' = EV!Idle(i)
        PROVE  /\ v6' \in EV!Polls /\ v6'.step \notin {"logs", "mark"} /\ v6'.events = {} /\ v6'.gone = {}
               /\ v6'.at \in 1 .. Len(Polling)
    BY <2>2, IdlePolls
  <2> QED BY <2>1, <2>2
<1>3. v3' \in [X -> EV!Row \cup {None}]
  BY DEF EV!Shapes
<1> QED BY <1>2, <1>3 DEF EV!Shapes

\* A turn that ends without a save, a crash and a restart.
LEMMA TurnIsLost ==
  ASSUME EV!NoneIsNoLog, EV!SourceInv, UNCHANGED <<v1, v2, v3, v4>>,
         v5' = v5 \/ v5' = [s \in {} |-> None], v7' \in BOOLEAN,
         v6' = EV!Down \/ \E i \in 1 .. Len(Polling) : v6' = EV!Idle(i),
         v8' \in [fails : 0 .. N - 1, stops : 0 .. N - 1, lost : BOOLEAN, cut : SUBSET X],
         v8.lost => v8'.lost, v8.cut \subseteq v8'.cut
  PROVE  EV!SourceInv'
<1>1. EV!ChainInv /\ EV!Shapes
  BY DEF EV!SourceInv
<1>2. DOMAIN v5' \subseteq DOMAIN v5 /\ \A s \in DOMAIN v5' : v5'[s] = v5[s]
  OBVIOUS
<1>3. EV!Shapes'
  BY <1>1, <1>2, TurnTypes DEF EV!Shapes
<1>4. EV!CursorInv'
  <2>1. EV!CursorInv
    BY DEF EV!SourceInv
  <2>2. \A s \in EV!Sources : \A c : c \in EV!Held(s)' => c \in EV!Held(s)
    BY <1>2 DEF EV!Held
  <2>3. ~v8'.lost => \A s \in EV!Sources :
          s \in DOMAIN v5' => v5'[s] = v4'[s] \/ v4'[s] \in {None, EV!Empty}
    BY <1>2, <2>1 DEF EV!CursorInv
  <2> QED BY <2>1, <2>2, <2>3, CursorsMove
<1> QED BY <1>3, <1>4, TurnEnds

\* A turn that ends with a save of d.
LEMMA TurnSaves ==
  ASSUME EV!NoneIsNoLog, EV!SourceInv, UNCHANGED <<v1, v2, v3, v7>>, v6.step # "down",
         v6' = EV!Down \/ \E i \in 1 .. Len(Polling) : v6' = EV!Idle(i),
         NEW p, p = EV!Polled, NEW d \in EV!Cursor \cup {None, EV!Empty}, v4' = [v4 EXCEPT ![p] = d],
         DOMAIN v5' = DOMAIN v5, \A s \in DOMAIN v5 : v5'[s] = v5[s] \/ (s = p /\ v5'[s] = d),
         v8' \in [fails : 0 .. N - 1, stops : 0 .. N - 1, lost : BOOLEAN, cut : SUBSET X],
         v8.lost => v8'.lost, v8.cut \subseteq v8'.cut,
         d = None \/ (EV!Sane(d, p)' /\ EV!Stands(d, p, {})' /\ (~v8'.lost => EV!Sound(d)')),
         ~v8'.lost /\ p \in DOMAIN v5 => v5'[p] = d \/ d \in {None, EV!Empty}
  PROVE  EV!SourceInv'
<1>1. EV!ChainInv /\ EV!Shapes
  BY DEF EV!SourceInv
<1>2. p \in EV!Sources
  BY <1>1 DEF EV!Shapes, EV!Polled, EV!Sources
<1>3. DOMAIN v4' = DOMAIN v4 /\ v4'[p] = d /\ \A s \in EV!Sources : s # p => v4'[s] = v4[s]
  BY <1>1, <1>2 DEF EV!Shapes
<1>4. /\ \A s \in DOMAIN v5 : s # p => v5'[s] = v5[s]
      /\ p \in DOMAIN v5 => v5'[p] \in {v5[p], d}
  OBVIOUS
<1>5. EV!Shapes'
  <2>1. \A s \in DOMAIN v4 : v4'[s] \in EV!Cursor \cup {None, EV!Empty}
    BY <1>1, <1>3 DEF EV!Shapes
  <2>2. \A s \in DOMAIN v5' : v5'[s] \in EV!Cursor \cup {None, EV!Empty}
    BY <1>1, <1>4 DEF EV!Shapes
  <2>3. v7' \in BOOLEAN
    BY <1>1 DEF EV!Shapes
  <2> QED BY <1>1, <1>3, <2>1, <2>2, <2>3, TurnTypes
<1>6. EV!CursorInv'
  <2>1. EV!CursorInv
    BY DEF EV!SourceInv
  <2>2. \A s \in EV!Sources : \A c : c \in EV!Held(s)' =>
          \/ c \in EV!Held(s)
          \/ EV!Sane(c, s)' /\ EV!Stands(c, s, {})' /\ (~v8'.lost => EV!Sound(c)')
    <3> SUFFICES ASSUME NEW s \in EV!Sources, NEW c, c \in EV!Held(s)', c \notin EV!Held(s)
                 PROVE  EV!Sane(c, s)' /\ EV!Stands(c, s, {})' /\ (~v8'.lost => EV!Sound(c)')
      OBVIOUS
    <3>1. c # None /\ s = p /\ c = d
      BY <1>3, <1>4 DEF EV!Held
    <3> QED BY <3>1
  <2>3. ~v8'.lost => \A s \in EV!Sources :
          s \in DOMAIN v5' => v5'[s] = v4'[s] \/ v4'[s] \in {None, EV!Empty}
    <3> SUFFICES ASSUME ~v8'.lost, NEW s \in EV!Sources, s \in DOMAIN v5'
                 PROVE  v5'[s] = v4'[s] \/ v4'[s] \in {None, EV!Empty}
      OBVIOUS
    <3>1. CASE s = p
      BY <1>3, <3>1
    <3>2. CASE s # p
      BY <1>3, <1>4, <2>1, <3>2 DEF EV!CursorInv
    <3> QED BY <3>1, <3>2
  <2> QED BY <2>1, <2>2, <2>3, CursorsMove
<1> QED BY <1>5, <1>6, TurnEnds

\* The cursor of a batch is good to save: its events are in the inbox, or left out by a stop.
LEMMA BatchIsGood ==
  ASSUME EV!NoneIsNoLog, EV!SourceInv, v6.step = "save" \/ EV!Ingested, UNCHANGED <<v1, v2, v3>>,
         v8'.cut = EV!LeftOut, v8.lost => v8'.lost, NEW d, d = v6.found, NEW p, p = EV!Polled
  PROVE  /\ v6.step # "down" /\ d \in EV!Cursor \cup {None, EV!Empty}
         /\ EV!LeftOut \in SUBSET X /\ v8.cut \subseteq v8'.cut
         /\ EV!Sane(d, p)' /\ EV!Stands(d, p, {})' /\ (~v8'.lost => EV!Sound(d)')
<1>1. EV!Shapes /\ EV!PollInv /\ EV!ChainInv
  BY DEF EV!SourceInv
<1>2. v6.step # "down" /\ d \in EV!Cursor \cup {EV!Empty}
  BY <1>1 DEF EV!Ingested, EV!Shapes, EV!Polls
<1>3. EV!Read \in SUBSET X
  <2>1. v6.events \in SUBSET EV!Entry
    BY <1>1 DEF EV!Shapes, EV!Polls
  <2> QED BY <2>1 DEF EV!Read, EV!Entry
<1>4. PICK r : r = EV!Read
  OBVIOUS
<1>5. r \subseteq v8'.cut
  <2>1. CASE v7
    BY <1>4, <2>1 DEF EV!LeftOut
  <2>2. CASE ~v7
    <3>1. v6.events = {}
      BY <1>1, <2>2 DEF EV!Ingested, EV!Shapes
    <3> QED BY <1>4, <3>1 DEF EV!Read
  <2> QED BY <2>1, <2>2
<1>6. v8.cut \subseteq v8'.cut /\ EV!LeftOut \in SUBSET X
  BY <1>1, <1>3 DEF EV!LeftOut, EV!Shapes
<1>7. EV!Sane(d, p) /\ EV!Stands(d, p, r)
  BY <1>1, <1>4 DEF EV!PollInv
<1>8. EV!Sane(d, p)'
  BY <1>7 DEF EV!Sane, EV!InChain
<1>9. EV!Stands(d, p, {})'
  BY <1>5, <1>6, <1>7 DEF EV!Stands, EV!Kept
<1>10. ~v8'.lost => EV!Sound(d)'
  <2>1. ~v8.lost => \A h \in d.history : EV!Holds(h.log) \/ h.log \in r \cup v8.cut
    BY <1>1, <1>4 DEF EV!PollInv
  <2> QED BY <1>5, <1>6, <2>1 DEF EV!Sound, EV!Holds
<1> QED BY <1>2, <1>6, <1>8, <1>9, <1>10

\* The cursor is saved with the events in the inbox.
LEMMA CursorSaveKeeps ==
  ASSUME EV!NoneIsNoLog, EV!SourceInv, EV!Save
  PROVE  EV!SourceInv'
<1>1. EV!Shapes
  BY DEF EV!SourceInv
<1>2. PICK d : d = v6.found
  OBVIOUS
<1>3. PICK p : p = EV!Polled
  OBVIOUS
<1>4. /\ v6.step = "save" \/ EV!Ingested
      /\ v4' = [v4 EXCEPT ![p] = d]
      /\ v5' = [v5 EXCEPT ![p] = IF d = EV!Empty /\ @ # None THEN @ ELSE d]
      /\ v6' = EV!Onward /\ v8' = [v8 EXCEPT !.cut = EV!LeftOut] /\ UNCHANGED <<v1, v2, v3, v7>>
  BY <1>2, <1>3 DEF EV!Save
<1>5. v6' = EV!Down \/ \E i \in 1 .. Len(Polling) : v6' = EV!Idle(i)
  <2>1. v6.step # "down"
    BY <1>4 DEF EV!Ingested
  <2> QED BY <1>1, <1>4, <2>1, OnwardIs
<1>6. /\ DOMAIN v5' = DOMAIN v5 /\ \A s \in DOMAIN v5 : v5'[s] = v5[s] \/ (s = p /\ v5'[s] = d)
      /\ p \in DOMAIN v5 => v5'[p] = d \/ d \in {None, EV!Empty}
  BY <1>4
<1>7. v8'.cut = EV!LeftOut /\ v8'.lost = v8.lost
  BY <1>1, <1>4 DEF EV!Shapes
<1>8. /\ v6.step # "down" /\ d \in EV!Cursor \cup {None, EV!Empty}
      /\ EV!LeftOut \in SUBSET X /\ v8.cut \subseteq v8'.cut
      /\ EV!Sane(d, p)' /\ EV!Stands(d, p, {})' /\ (~v8'.lost => EV!Sound(d)')
  BY <1>2, <1>4, <1>7, <1>3, BatchIsGood
<1>9. v8' \in [fails : 0 .. N - 1, stops : 0 .. N - 1, lost : BOOLEAN, cut : SUBSET X]
  BY <1>1, <1>4, <1>8 DEF EV!Shapes
<1> QED BY <1>4, <1>5, <1>6, <1>7, <1>3, <1>8, <1>9, TurnSaves

\* The error path saves the cursor in memory, or the empty object.
LEMMA ThrownKeeps ==
  ASSUME EV!NoneIsNoLog, EV!SourceInv, EV!Thrown, v6.step # "down",
         v8' \in [fails : 0 .. N - 1, stops : 0 .. N - 1, lost : BOOLEAN, cut : SUBSET X],
         v8'.lost = v8.lost, v8'.cut = v8.cut
  PROVE  EV!SourceInv'
<1>1. EV!ChainInv /\ EV!Shapes
  BY DEF EV!SourceInv
<1>2. UNCHANGED <<v1, v2, v3, v5, v7>> /\ v6' = (IF v7 THEN EV!Down ELSE EV!Onward)
  BY DEF EV!Thrown
<1>3. v6' = EV!Down \/ \E i \in 1 .. Len(Polling) : v6' = EV!Idle(i)
  BY <1>1, <1>2, OnwardIs
<1>4. v7 \in BOOLEAN
  BY <1>1 DEF EV!Shapes
<1>5. CASE v7
  <2>1. v4' = v4
    BY <1>5 DEF EV!Thrown
  <2> QED BY <1>2, <1>3, <1>4, <2>1, TurnIsLost
<1>6. CASE ~v7
  <2>1. PICK d : d = IF EV!Loaded /\ v5[EV!Polled] # None THEN v5[EV!Polled] ELSE EV!Empty
    OBVIOUS
  <2>7. PICK p : p = EV!Polled
    OBVIOUS
  <2>2. v4' = [v4 EXCEPT ![p] = d]
    BY <1>6, <2>1, <2>7 DEF EV!Thrown
  <2>3. d \in EV!Cursor \cup {None, EV!Empty}
    BY <1>1, <2>1 DEF EV!Shapes, EV!Loaded
  <2>4. p \in EV!Sources
    BY <1>1, <2>7 DEF EV!Shapes, EV!Polled, EV!Sources
  <2>5. EV!Sane(d, p) /\ EV!Stands(d, p, {}) /\ (~v8.lost => EV!Sound(d))
    <3>1. EV!CursorInv
      BY DEF EV!SourceInv
    <3>2. CASE EV!Loaded /\ v5[EV!Polled] # None
      <4>1. d \in EV!Held(p)
        BY <2>1, <2>7, <3>2 DEF EV!Held, EV!Loaded
      <4> QED BY <2>4, <3>1, <4>1 DEF EV!CursorInv
    <3>3. CASE ~(EV!Loaded /\ v5[EV!Polled] # None)
      <4>1. d.history = {} /\ d.next = 0
        BY <2>1, <3>3 DEF EV!Empty
      <4> QED BY <1>1, <4>1 DEF EV!Sane, EV!Stands, EV!Sound, EV!ChainInv
    <3> QED BY <3>2, <3>3
  <2>8. EV!Sane(d, p)' /\ EV!Stands(d, p, {})' /\ (~v8'.lost => EV!Sound(d)')
    BY <1>2, <2>5 DEF EV!Sane, EV!Stands, EV!Sound, EV!InChain, EV!Holds, EV!Kept
  <2>6. p \in DOMAIN v5 => v5'[p] = d \/ d \in {None, EV!Empty}
    BY <1>2, <2>1, <2>7 DEF EV!Loaded
  <2> QED BY <1>2, <1>3, <2>2, <2>3, <2>6, <2>7, <2>8, TurnSaves
<1> QED BY <1>4, <1>5, <1>6

\* A failure is counted within its bound; with a save that was reported as failed, too.
LEMMA SpentStays ==
  ASSUME EV!NoneIsNoLog, EV!Shapes, v8.fails < N - 1, NEW q, q = [v8 EXCEPT !.fails = @ + 1]
  PROVE  /\ q \in [fails : 0 .. N - 1, stops : 0 .. N - 1, lost : BOOLEAN, cut : SUBSET X]
         /\ q.lost = v8.lost /\ q.cut = v8.cut
<1>1. v8 \in [fails : 0 .. N - 1, stops : 0 .. N - 1, lost : BOOLEAN, cut : SUBSET X] /\ N - 1 \in Nat
  BY DEF EV!NoneIsNoLog, EV!Shapes
<1>2. v8.fails + 1 \in 0 .. N - 1
  BY <1>1
<1> QED BY <1>1, <1>2

LEMMA LostStays ==
  ASSUME EV!NoneIsNoLog, EV!Shapes, v8.fails < N - 1, NEW out \in SUBSET X,
         NEW w, w = [v8 EXCEPT !.fails = @ + 1, !.lost = TRUE, !.cut = out]
  PROVE  w \in [fails : 0 .. N - 1, stops : 0 .. N - 1, lost : BOOLEAN, cut : SUBSET X]
<1>1. v8 \in [fails : 0 .. N - 1, stops : 0 .. N - 1, lost : BOOLEAN, cut : SUBSET X] /\ N - 1 \in Nat
  BY DEF EV!NoneIsNoLog, EV!Shapes
<1>2. v8.fails + 1 \in 0 .. N - 1
  BY <1>1
<1> QED BY <1>1, <1>2

\* A call fails, with the cursor as it was or already saved.
LEMMA CallFailsKeeps ==
  ASSUME EV!NoneIsNoLog, EV!SourceInv, EV!CallFails
  PROVE  EV!SourceInv'
<1>1. EV!Shapes /\ v6.step # "down" /\ v8.fails < N - 1
  BY DEF EV!SourceInv, EV!CallFails
<1>2. PICK q : q = [v8 EXCEPT !.fails = @ + 1]
  OBVIOUS
<1>3. q \in [fails : 0 .. N - 1, stops : 0 .. N - 1, lost : BOOLEAN, cut : SUBSET X] /\ q.lost = v8.lost /\ q.cut = v8.cut
  BY <1>1, <1>2, SpentStays
<1>4. CASE EV!Thrown /\ v8' = q
  BY <1>1, <1>3, <1>4, ThrownKeeps
<1>5. ASSUME v6' = IF v7 THEN EV!Down ELSE EV!Onward
      PROVE  v6' = EV!Down \/ \E i \in 1 .. Len(Polling) : v6' = EV!Idle(i)
  BY <1>1, <1>5, OnwardIs
<1>6. CASE /\ EV!SaveIsLost
           /\ v6' = IF v7 THEN EV!Down ELSE EV!Onward
           /\ UNCHANGED <<v1, v2, v3, v5, v7>>
  <2>1. PICK d : d = v6.found
    OBVIOUS
  <2>4. PICK p : p = EV!Polled
    OBVIOUS
  <2>5. PICK out : out = EV!LeftOut
    OBVIOUS
  <2>3. PICK w : w = [v8 EXCEPT !.fails = @ + 1, !.lost = TRUE, !.cut = out]
    OBVIOUS
  <2>2. EV!Ingested /\ v4' = [v4 EXCEPT ![p] = d] /\ v8' = w
    BY <1>6, <2>1, <2>3, <2>4, <2>5 DEF EV!SaveIsLost
  <2>6. v8'.cut = out /\ v8'.lost
    BY <1>1, <2>2, <2>3 DEF EV!Shapes
  <2>7. /\ d \in EV!Cursor \cup {None, EV!Empty} /\ out \in SUBSET X /\ v8.cut \subseteq v8'.cut
        /\ EV!Sane(d, p)' /\ EV!Stands(d, p, {})'
    BY <1>6, <2>1, <2>2, <2>4, <2>5, <2>6, BatchIsGood
  <2>8. v8' \in [fails : 0 .. N - 1, stops : 0 .. N - 1, lost : BOOLEAN, cut : SUBSET X]
    BY <1>1, <2>2, <2>3, <2>7, LostStays
  <2> QED BY <1>1, <1>5, <1>6, <2>2, <2>4, <2>6, <2>7, <2>8, TurnSaves
<1>7. CASE /\ UNCHANGED v4 /\ v8' = q
           /\ v6' = IF v7 THEN EV!Down ELSE EV!Onward
           /\ UNCHANGED <<v1, v2, v3, v5, v7>>
  <2>1. v7 \in BOOLEAN
    BY <1>1 DEF EV!Shapes
  <2> QED BY <1>3, <1>5, <1>7, <2>1, TurnIsLost
<1> QED BY <1>2, <1>4, <1>6, <1>7 DEF EV!CallFails

\* An unreadable cursor, a crash and a restart, a stop.
LEMMA StopsKeep ==
  ASSUME EV!NoneIsNoLog, EV!SourceInv, EV!CursorUnreadable \/ EV!Crash \/ EV!Restart \/ EV!Stop
  PROVE  EV!SourceInv'
<1>1. EV!ChainInv /\ EV!Shapes
  BY DEF EV!SourceInv
<1>2. v8 \in [fails : 0 .. N - 1, stops : 0 .. N - 1, lost : BOOLEAN, cut : SUBSET X] /\ v7 \in BOOLEAN /\ N - 1 \in Nat
      /\ 1 \in 1 .. Len(Polling)
  BY <1>1 DEF EV!NoneIsNoLog, EV!Shapes
<1>3. CASE EV!CursorUnreadable
  <2>1. EV!Thrown /\ v6.step # "down" /\ v8' = v8
    BY <1>3 DEF EV!CursorUnreadable, EV!Ready
  <2> QED BY <1>2, <2>1, ThrownKeeps
<1>4. CASE EV!Crash
  <2>1. PICK q : q = [v8 EXCEPT !.fails = @ + 1]
    OBVIOUS
  <2>2. v6' = EV!Down /\ v8' = q /\ v8.fails < N - 1 /\ UNCHANGED <<v1, v2, v3, v4, v5, v7>>
    BY <1>4, <2>1 DEF EV!Crash
  <2>3. q \in [fails : 0 .. N - 1, stops : 0 .. N - 1, lost : BOOLEAN, cut : SUBSET X] /\ q.lost = v8.lost /\ q.cut = v8.cut
    BY <1>1, <2>1, <2>2, SpentStays
  <2> QED BY <1>2, <2>2, <2>3, TurnIsLost
<1>5. CASE EV!Restart
  <2>1. /\ v6' = EV!Idle(1) /\ v7' = FALSE /\ v5' = [s \in {} |-> None]
        /\ UNCHANGED <<v1, v2, v3, v4, v8>>
    BY <1>5 DEF EV!Restart
  <2> QED BY <1>2, <2>1, TurnIsLost
<1>6. CASE EV!Stop
  <2>1. PICK q : q = [v8 EXCEPT !.stops = @ + 1]
    OBVIOUS
  <2>2. /\ v7' = TRUE /\ v8' = q /\ v8.stops < N - 1 /\ v6' \in {v6, EV!Down}
        /\ UNCHANGED <<v1, v2, v3, v4, v5>>
    BY <1>6, <2>1 DEF EV!Stop
  <2>3. /\ q \in [fails : 0 .. N - 1, stops : 0 .. N - 1, lost : BOOLEAN, cut : SUBSET X]
        /\ q.lost = v8.lost /\ q.cut = v8.cut
    <3>1. v8.stops + 1 \in 0 .. N - 1
      BY <1>2, <2>2
    <3> QED BY <1>2, <2>1, <3>1
  <2>4. CASE v6' = EV!Down
    BY <1>2, <2>2, <2>3, <2>4, TurnIsLost
  <2>5. CASE v6' = v6
    <3>1. EV!Shapes' /\ EV!ChainInv'
      BY <1>1, <2>2, <2>3, <2>5 DEF EV!Shapes, EV!ChainInv
    <3>2. EV!CursorInv /\ EV!PollInv
      BY DEF EV!SourceInv
    <3>3. \A s \in EV!Sources : \A c : c \in EV!Held(s)' => c \in EV!Held(s)
      BY <2>2 DEF EV!Held
    <3>4. EV!CursorInv'
      BY <2>2, <2>3, <3>2, <3>3, CursorsMove DEF EV!CursorInv
    <3>5. EV!Sane(v6.found, EV!Polled)' /\ EV!Stands(v6.found, EV!Polled, EV!Read)'
      BY <2>2, <2>3, <2>5, <3>2
      DEF EV!PollInv, EV!Sane, EV!Stands, EV!InChain, EV!Kept, EV!Polled, EV!Read
    <3>6. EV!Polled' = EV!Polled /\ EV!Read' = EV!Read
      BY <2>5 DEF EV!Polled, EV!Read
    <3>7. EV!PollInv'
      BY <2>2, <2>3, <2>5, <3>2, <3>5, <3>6 DEF EV!PollInv, EV!Holds, EV!InChain
    <3> QED BY <3>1, <3>4, <3>7 DEF EV!SourceInv
  <2> QED BY <2>2, <2>4, <2>5
<1> QED BY <1>3, <1>4, <1>5, <1>6

\* Every step of the worker and of the chain keeps the invariant.
LEMMA SourceKeeps ==
  ASSUME EV!NoneIsNoLog, EV!SourceInv, [EV!Next]_(EV!vars)
  PROVE  EV!SourceInv'
<1>1. CASE UNCHANGED EV!vars
  <2>1. UNCHANGED <<v1, v2, v3, v4, v5, v6, v7, v8>>
    BY <1>1 DEF EV!vars
  <2>2. EV!ChainInv'
    BY <2>1 DEF EV!SourceInv, EV!ChainInv
  <2> QED BY <2>1, <2>2, ChainMoves, SourceTypes DEF EV!SourceInv
<1>2. CASE EV!Environment
  BY <1>2, MineKeeps, ReorgKeeps, CallFailsKeeps, StopsKeep DEF EV!Environment
<1>3. CASE EV!Worker
  BY <1>3, LoadCursorKeeps, PollAbortedKeeps, ReadHeadKeeps, ReadLogsKeeps, ReadDoneKeeps,
     MarkReorgKeeps, IngestKeeps, CursorSaveKeeps, StopsKeep DEF EV!Worker
<1> QED BY <1>1, <1>2, <1>3 DEF EV!Next

\* At the start nothing has been read.
LEMMA SourceBegins ==
  ASSUME EV!NoneIsNoLog, EV!Init
  PROVE  EV!SourceInv
<1>1. N - 1 \in Nat /\ N + 1 \in Nat /\ 1 \in 1 .. Len(Polling)
  BY DEF EV!NoneIsNoLog
<1>2. /\ v1 = <<>> /\ v2 = [seen |-> 0, deep |-> FALSE] /\ v3 = [l \in X |-> None]
      /\ v4 = [s \in EV!Sources |-> None] /\ v5 = [s \in {} |-> None] /\ v6 = EV!Idle(1) /\ v7 = FALSE
      /\ v8 = [fails |-> 0, stops |-> 0, lost |-> FALSE, cut |-> {}]
  BY DEF EV!Init
<1>3. EV!ChainInv
  <2>1. v1 \in Seq(EV!Block) /\ Len(v1) = 0
    BY <1>2
  <2>2. 0 \in 0 .. N - 1 /\ 0 <= N + 1
    BY <1>1
  <2>3. v2 \in [seen : 0 .. N - 1, deep : BOOLEAN]
    BY <1>2, <2>2
  <2> QED BY <2>1, <2>2, <2>3 DEF EV!ChainInv
<1>4. /\ v6 \in EV!Polls /\ v6.step = "idle" /\ v6.at = 1 /\ v6.found = EV!Empty /\ v6.events = {} /\ v6.gone = {}
  BY <1>1, <1>2, IdlePolls
<1>5. EV!Shapes
  <2>1. v8 \in [fails : 0 .. N - 1, stops : 0 .. N - 1, lost : BOOLEAN, cut : SUBSET X]
    BY <1>1, <1>2
  <2>2. DOMAIN v5 = {} /\ DOMAIN v4 = EV!Sources /\ \A s \in EV!Sources : v4[s] = None
    BY <1>2
  <2>3. v3 \in [X -> EV!Row \cup {None}] /\ v7 \in BOOLEAN
    BY <1>2
  <2> QED BY <1>1, <1>4, <2>1, <2>2, <2>3 DEF EV!Shapes
<1>6. EV!CursorInv
  <2>1. \A s \in EV!Sources : EV!Held(s) = {}
    BY <1>2 DEF EV!Held
  <2> QED BY <1>2, <2>1 DEF EV!CursorInv
<1>7. EV!PollInv
  <2>1. v6.found.history = {} /\ v6.found.next = 0
    BY <1>4 DEF EV!Empty
  <2>2. Len(v1) = 0
    BY <1>2
  <2>3. EV!Sane(v6.found, EV!Polled) /\ EV!Stands(v6.found, EV!Polled, EV!Read)
    BY <2>1, <2>2 DEF EV!Sane, EV!Stands
  <2> QED BY <1>2, <1>4, <2>1, <2>3 DEF EV!PollInv
<1> QED BY <1>2, <1>3, <1>5, <1>6, <1>7 DEF EV!SourceInv

\* Behind a saved cursor nothing is missing.
LEMMA SourceHolds ==
  ASSUME EV!NoneIsNoLog, EV!SourceInv
  PROVE  EV!TypeOK /\ EV!NothingSkipped
<1>1. EV!ChainInv /\ EV!Shapes
  BY DEF EV!SourceInv
<1>2. EV!TypeOK
  <2>1. /\ v1 \in Seq(EV!Block) /\ Len(v1) <= N + 1 /\ v2.seen \in 0 .. N - 1 /\ v2.deep \in BOOLEAN
    BY <1>1 DEF EV!ChainInv
  <2>2. \A l \in X : v3[l] = None \/ v3[l].canonical \in BOOLEAN
    BY <1>1 DEF EV!Shapes, EV!Row
  <2>3. v8.fails <= N - 1 /\ v8.stops <= N - 1
    BY <1>1, SourceTypes DEF EV!Shapes
  <2> QED BY <1>1, <2>1, <2>2, <2>3 DEF EV!TypeOK, EV!Shapes
<1>3. ASSUME NEW s \in EV!Sources, v4[s] # None
      PROVE  /\ \A h \in v4[s].history : EV!Kept(h.log)
             /\ (~v8.lost /\ \A h \in v4[s].history : v1[h.at].fork = h.fork)
                  => \A h \in v4[s].history : EV!Holds(h.log) \/ h.log \in v8.cut
             /\ \A i \in 1 .. Len(v1) :
                  (i < v4[s].next /\ ~v2.deep /\ v1[i].log # None /\ Emits[v1[i].log] = s)
                    => EV!Holds(v1[i].log) \/ v1[i].log \in v8.cut
  <2>1. PICK c : c = v4[s]
    OBVIOUS
  <2>2. c \in EV!Held(s) /\ EV!CursorInv /\ EV!PollInv
    BY <1>3, <2>1 DEF EV!Held, EV!SourceInv
  <2>3. EV!Sane(c, s) /\ EV!Stands(c, s, {}) /\ (~v8.lost => EV!Sound(c))
    BY <2>2 DEF EV!CursorInv
  <2>4. \A h \in c.history : EV!Kept(h.log)
    BY <2>3 DEF EV!Stands
  <2>5. (~v8.lost /\ \A h \in c.history : v1[h.at].fork = h.fork) 
           => \A h \in c.history : EV!Holds(h.log) \/ h.log \in v8.cut
    BY <2>3 DEF EV!Sound, EV!InChain
  <2>6. ASSUME NEW i \in 1 .. Len(v1), i < c.next, ~v2.deep, v1[i].log # None, Emits[v1[i].log] = s
        PROVE  EV!Holds(v1[i].log) \/ v1[i].log \in v8.cut
    <3>1. EV!Kept(v1[i].log) /\ v1[i].log \in X
      BY <1>1, <2>3, <2>6, SourceTypes DEF EV!Stands
    <3> QED BY <2>2, <2>6, <3>1 DEF EV!PollInv, EV!Holds, EV!Kept
  <2> QED BY <2>1, <2>4, <2>5, <2>6
<1>4. EV!NothingSkipped
  BY <1>3 DEF EV!NothingSkipped
<1> QED BY <1>2, <1>4

-----------------------------------------------------------------------------
(* What the Maker signs (CO).                                               *)

CO == INSTANCE Consents WITH
     Intents <- Docs, Subs <- X, MaxRevision <- N,
     revision <- v1, compiled <- v2, busy <- v3, intents <- v4, proving <- v5, results <- v6,
     granted <- v7, revoked <- v8, subs <- v9

\* At the start nothing is prepared.
LEMMA ConsentInit == CO!Init => CO!ConsentInv
BY DEF CO!Init, CO!ConsentInv, CO!Papers, CO!NewestKnown, CO!SignedAfterReview, CO!LiveOnConsent, CO!OneRuns, CO!Running, CO!Live

\* What was confirmed for a revision stays confirmed.
LEMMA ConfirmedStays ==
  ASSUME CO!Kept, NEW kind, NEW r \in Nat \ {0}, CO!Confirmed(kind, r) # {}
  PROVE  (CO!Confirmed(kind, r) # {})'
BY DEF CO!Confirmed, CO!Kept

\* New confirmations come after the review of a compiled revision.
LEMMA ReviewsStay ==
  ASSUME CO!ConsentInv, CO!Kept, v2 \subseteq v2',
         \A i \in Docs : v6'[i] # v6[i] =>
           v4'[i].kind = "review" \/ (CO!Reviewed(v6'[i]) /\ v6'[i] \in v2),
         \A i \in Docs : v6'[i] \in Nat /\ (v6[i] # 0 => v4[i] # None)
  PROVE  CO!SignedAfterReview'
<1> SUFFICES ASSUME NEW i \in Docs, NEW r \in Nat \ {0}, r = v6'[i], v4'[i].kind # "review"
             PROVE  (CO!Confirmed("review", r) # {})' /\ r \in v2'
    BY DEF CO!SignedAfterReview, CO!Reviewed, CO!Confirmed
<1>1. CO!Reviewed(r) /\ r \in v2
  BY DEF CO!ConsentInv, CO!SignedAfterReview, CO!Kept
<1>2. (CO!Confirmed("review", r) # {})'
  BY <1>1, ConfirmedStays DEF CO!Reviewed
<1> QED
  BY <1>1, <1>2

\* Subscriptions that are live afterwards were live before, as they are, and no consent
\* of theirs is revoked: they stand if the revision does.
LEMMA LiveStays ==
  ASSUME CO!ConsentInv, CO!Kept, v1' = v1,
         \A s \in CO!Live' : s \in CO!Live /\ v9'[s].consent = v9[s].consent
           /\ v9'[s].revision = v9[s].revision /\ v9'[s].state \in {v9[s].state, "paused"}
           /\ v9[s].consent \in Docs /\ v9[s].consent \notin v8'
  PROVE  CO!LiveOnConsent' /\ CO!OneRuns'
<1>1. ASSUME NEW s \in CO!Live' PROVE CO!StandsFor(s)'
  <2>1. CO!StandsFor(s) /\ v1 \in Nat \ {0}
    BY DEF CO!ConsentInv, CO!LiveOnConsent, CO!Papers
  <2>2. (CO!Confirmed("binding", v1) # {})'
    BY <2>1, ConfirmedStays DEF CO!StandsFor, CO!Bound
  <2> QED
    BY <2>1, <2>2 DEF CO!StandsFor, CO!Bound, CO!Kept, CO!Confirmed
<1>2. CO!OneRuns'
  BY DEF CO!ConsentInv, CO!OneRuns, CO!Running
<1> QED
  BY <1>1, <1>2 DEF CO!LiveOnConsent

\* What is stopped is not live, the others are as they were.
LEMMA StopLeaves ==
  ASSUME CO!Papers, NEW which \in SUBSET CO!Live
  PROVE  /\ CO!Stop(which) \in [X -> CO!Subscription \cup {None}]
         /\ \A s \in X : s \notin which => CO!Stop(which)[s] = v9[s]
         /\ \A s \in which : CO!Stop(which)[s].state = "stopped"
<1>1. \A s \in which : s \in X /\ v9[s] \in CO!Subscription
  BY DEF CO!Papers, CO!Live
<1>2. ASSUME NEW s \in which
      PROVE  [v9[s] EXCEPT !.state = "stopped"] \in CO!Subscription
             /\ [v9[s] EXCEPT !.state = "stopped"].state = "stopped"
  BY <1>1 DEF CO!Subscription
<1> QED
  BY <1>1, <1>2 DEF CO!Stop, CO!Papers

\* The draft changes: nothing is live any more.
LEMMA NothingLive ==
  ASSUME CO!Papers, v9' = CO!Stop(CO!Live)
  PROVE  CO!Live' = {} /\ (v9 \in [X -> CO!Subscription \cup {None}])'
<1>1. /\ v9' \in [X -> CO!Subscription \cup {None}]
      /\ \A s \in X : s \notin CO!Live => v9'[s] = v9[s]
      /\ \A s \in CO!Live : v9'[s].state = "stopped"
  BY StopLeaves
<1> QED
  BY <1>1 DEF CO!Live

\* With nothing live no subscription stands on anything.
LEMMA EmptyStands == CO!Live = {} => CO!LiveOnConsent /\ CO!OneRuns
BY DEF CO!LiveOnConsent, CO!OneRuns, CO!Running

\* One more consent is the newest of any that include it.
LEMMA NewestStays ==
  ASSUME CO!ConsentInv, NEW c \in Docs, v7' \in {v7, Append(v7, c)}
  PROVE  CO!NewestKnown'
<1>0. v7 \in Seq(Docs) /\ Len(v7) \in Nat
  BY DEF CO!ConsentInv, CO!Papers
<1>1. CASE v7' = v7
  BY <1>1 DEF CO!ConsentInv, CO!NewestKnown
<1>2. CASE v7' = Append(v7, c)
  <2> SUFFICES ASSUME NEW P \in SUBSET (DOMAIN v7'), P # {}
               PROVE  \E m \in P : \A k \in P : k <= m
    BY DEF CO!NewestKnown
  <2>1. /\ DOMAIN v7' = DOMAIN v7 \cup {Len(v7) + 1} /\ DOMAIN v7 \subseteq Nat
        /\ \A k \in DOMAIN v7 : k <= Len(v7) + 1
    BY <1>0, <1>2
  <2>2. CASE Len(v7) + 1 \in P
    BY <1>0, <2>1, <2>2
  <2>3. CASE Len(v7) + 1 \notin P
    <3>1. P \in SUBSET (DOMAIN v7)
      BY <2>1, <2>3
    <3> QED
      BY <3>1 DEF CO!ConsentInv, CO!NewestKnown
  <2> QED
    BY <2>2, <2>3
<1> QED
  BY <1>1, <1>2

\* What is live has its type.
LEMMA LiveTypes == CO!Papers => \A s \in CO!Live : s \in X /\ v9[s] \in CO!Subscription
BY DEF CO!Papers, CO!Live

\* Edits, compilations, turns and reports being read.
LEMMA ConsentDraft ==
  ASSUME CO!ConsentInv, CO!Edit \/ CO!Compile \/ CO!Turn \/ \E i \in Docs : CO!ReadProof(i)
  PROVE  CO!ConsentInv'
<1>1. v4' = v4 /\ v6' = v6 /\ v7' = v7 /\ v8' = v8
      /\ v2 \subseteq v2'
  BY DEF CO!Edit, CO!Change, CO!Compile, CO!Turn, CO!ReadProof
<1>2. CO!Kept
  BY <1>1 DEF CO!Kept
<1>3. CO!SignedAfterReview'
  BY <1>1, <1>2, ReviewsStay DEF CO!ConsentInv, CO!Papers
<1>n. CO!NewestKnown'
  BY <1>1 DEF CO!ConsentInv, CO!NewestKnown
<1>4. CASE CO!Edit
  <2>1. CO!Live' = {} /\ v9' \in [X -> CO!Subscription \cup {None}]
    BY <1>4, NothingLive DEF CO!Edit, CO!Change, CO!ConsentInv
  <2>2. CO!Papers'
    BY <1>4, <2>1 DEF CO!Edit, CO!Change, CO!ConsentInv, CO!Papers
  <2>3. CO!LiveOnConsent' /\ CO!OneRuns'
    BY <2>1 DEF CO!LiveOnConsent, CO!OneRuns, CO!Running
  <2> QED
    BY <1>3, <1>n, <2>2, <2>3 DEF CO!ConsentInv
<1>5. CASE CO!Compile \/ CO!Turn \/ \E i \in Docs : CO!ReadProof(i)
  <2>1. /\ v1' = v1 /\ v9' = v9
        /\ (v5' = v5 \/ \E i \in Docs : v5' = [v5 EXCEPT ![i] = v1])
    BY <1>5 DEF CO!Compile, CO!Turn, CO!ReadProof
  <2>2. CO!Papers'
    BY <1>1, <2>1 DEF CO!ConsentInv, CO!Papers
  <2>3. \A s \in CO!Live' : s \in CO!Live /\ v9[s] \in CO!Subscription /\ CO!StandsFor(s)
    BY <2>1, LiveTypes DEF CO!ConsentInv, CO!LiveOnConsent, CO!Live
  <2>4. CO!LiveOnConsent' /\ CO!OneRuns'
    BY <1>1, <1>2, <2>1, <2>3, LiveStays DEF CO!StandsFor, CO!Subscription
  <2> QED
    BY <1>3, <1>n, <2>2, <2>4 DEF CO!ConsentInv
<1> QED
  BY <1>4, <1>5

\* Documents are prepared, expire, and are confirmed without changing the draft.
LEMMA ConsentPapers ==
  ASSUME CO!ConsentInv, CO!NoDocument, v1' = v1, v2' = v2, v9' = v9,
         v8' = v8, CO!Papers', CO!NewestKnown', CO!Kept,
         \A i \in Docs : v6'[i] # v6[i] =>
           v4'[i].kind = "review" \/ (CO!Reviewed(v6'[i]) /\ v6'[i] \in v2)
  PROVE  CO!ConsentInv'
<1>1. CO!SignedAfterReview'
  BY ReviewsStay DEF CO!ConsentInv, CO!Papers
<1>2. \A s \in CO!Live' : s \in CO!Live /\ v9[s] \in CO!Subscription /\ CO!StandsFor(s)
  BY LiveTypes DEF CO!ConsentInv, CO!LiveOnConsent, CO!Live
<1>3. CO!LiveOnConsent' /\ CO!OneRuns'
  BY <1>2, LiveStays DEF CO!StandsFor, CO!Subscription
<1> QED
  BY <1>1, <1>3 DEF CO!ConsentInv

\* Preparing and expiring.
LEMMA ConsentPrepared ==
  ASSUME CO!ConsentInv, CO!NoDocument, NEW i \in Docs,
         (\E kind \in CO!Kinds : CO!Prepare(i, kind)) \/ CO!PrepareBinding(i) \/ CO!Expire(i)
  PROVE  CO!ConsentInv'
<1>0. /\ v4 \in [Docs -> CO!Document \cup {None}] /\ v5[i] \in Nat /\ v1 \in Nat
      /\ v5 \in [Docs -> Nat]
  BY DEF CO!ConsentInv, CO!Papers
<1>1. PICK d \in CO!Document : /\ v4' = [v4 EXCEPT ![i] = d]
                               /\ v4[i] # None => d.kind = v4[i].kind
  <2>1. ASSUME NEW kind \in CO!Kinds, NEW r \in Nat, CO!Prepared(i, kind, r)
        PROVE  \E d \in CO!Document : /\ v4' = [v4 EXCEPT ![i] = d]
                                      /\ v4[i] # None => d.kind = v4[i].kind
    <3>1. [kind |-> kind, revision |-> r, open |-> TRUE] \in CO!Document
      BY DEF CO!Document
    <3> QED
      BY <2>1, <3>1 DEF CO!Prepared
  <2>2. CASE CO!Expire(i)
    <3>1. v4[i] \in CO!Document
      BY <1>0, <2>2 DEF CO!Expire
    <3>2. [v4[i] EXCEPT !.open = FALSE] \in CO!Document
          /\ [v4[i] EXCEPT !.open = FALSE].kind = v4[i].kind
      BY <3>1 DEF CO!Document
    <3> QED
      BY <2>2, <3>2 DEF CO!Expire
  <2>3. "binding" \in CO!Kinds
    BY DEF CO!Kinds
  <2> QED
    BY <1>0, <2>1, <2>2, <2>3 DEF CO!Prepare, CO!PrepareBinding
<1>2. /\ v6' = v6 /\ v1' = v1 /\ v2' = v2 /\ v9' = v9
      /\ v8' = v8 /\ v7' = v7
      /\ (v5' = v5 \/ v5' = [v5 EXCEPT ![i] = 0])
  BY DEF CO!Prepare, CO!PrepareBinding, CO!Expire
<1>3. d # None
  BY DEF CO!NoDocument
<1>4. CO!Kept
  BY <1>0, <1>1, <1>2, <1>3 DEF CO!Kept
<1>5. CO!Papers'
  <2>1. v4' \in [Docs -> CO!Document \cup {None}]
    BY <1>0, <1>1
  <2>2. v5' \in [Docs -> Nat]
    BY <1>0, <1>2
  <2> QED
    BY <1>2, <1>4, <2>1, <2>2 DEF CO!ConsentInv, CO!Papers, CO!Kept
<1>6. CO!NewestKnown'
  BY <1>2 DEF CO!ConsentInv, CO!NewestKnown
<1> QED
  BY <1>2, <1>4, <1>5, <1>6, ConsentPapers

\* A signed document is confirmed for the revision it was prepared for.
LEMMA ConsentSigned ==
  ASSUME CO!ConsentInv, CO!NoDocument, NEW i \in Docs, CO!ConfirmSigned(i)
  PROVE  CO!ConsentInv'
<1>1. /\ v4[i] \in CO!Document /\ v4[i] # None /\ v6[i] = 0
      /\ v6' = [v6 EXCEPT ![i] = v4[i].revision]
      /\ UNCHANGED <<v1, v2, v4, v5, v8, v9>>
      /\ v7' \in {v7, Append(v7, i)}
  BY DEF CO!ConfirmSigned, CO!ConsentInv, CO!Papers
<1>2. v4[i].revision \in v2 /\ CO!Reviewed(v4[i].revision)
  BY DEF CO!ConfirmSigned, CO!StillStands, CO!Reviewable
<1>3. v4[i].revision \in Nat
  BY <1>1 DEF CO!Document
<1>4. CO!Kept
  BY <1>1 DEF CO!Kept, CO!ConsentInv, CO!Papers
<1>5. CO!Papers'
  <2>1. v6' \in [Docs -> Nat] /\ \A k \in Docs : v6'[k] # 0 => v4[k] # None
    BY <1>1, <1>3 DEF CO!ConsentInv, CO!Papers
  <2>2. v7' \in Seq(Docs)
    <3>1. v7 \in Seq(Docs) /\ Append(v7, i) \in Seq(Docs)
      BY DEF CO!ConsentInv, CO!Papers
    <3> QED
      BY <1>1, <3>1
  <2> QED
    BY <1>1, <2>1, <2>2 DEF CO!ConsentInv, CO!Papers
<1>6. CO!NewestKnown'
  BY <1>1, NewestStays
<1>7. \A k \in Docs : v6'[k] # v6[k] => k = i /\ v6'[i] = v4[i].revision
  BY <1>1 DEF CO!ConsentInv, CO!Papers
<1> QED
  BY <1>1, <1>2, <1>4, <1>5, <1>6, <1>7, ConsentPapers

\* A review is confirmed, for the revision it makes when alternatives are accepted.
LEMMA ConsentReviewed ==
  ASSUME CO!ConsentInv, CO!NoDocument, NEW i \in Docs, NEW accepts \in BOOLEAN, CO!ConfirmReview(i, accepts)
  PROVE  CO!ConsentInv'
<1>1. /\ v4[i] # None /\ v6[i] = 0 /\ v4[i].kind = "review"
      /\ v6' = [v6 EXCEPT ![i] = v1']
      /\ UNCHANGED <<v2, v4, v5, v7, v8>>
      /\ \/ v1' = v1 /\ v9' = v9
         \/ v1' = v1 + 1 /\ v9' = CO!Stop(CO!Live)
  BY DEF CO!ConfirmReview, CO!Change
<1>2. CO!Kept
  BY <1>1 DEF CO!Kept, CO!ConsentInv, CO!Papers
<1>3. v6' \in [Docs -> Nat] /\ v1' \in Nat \ {0}
  BY <1>1 DEF CO!ConsentInv, CO!Papers
<1>n. CO!NewestKnown'
  BY <1>1 DEF CO!ConsentInv, CO!NewestKnown
<1>4. \A k \in Docs : v6'[k] # v6[k] => v4'[k].kind = "review"
  BY <1>1 DEF CO!ConsentInv, CO!Papers
<1>5. CASE v1' = v1 /\ v9' = v9
  <2>1. CO!Papers'
    BY <1>1, <1>3, <1>5 DEF CO!ConsentInv, CO!Papers
  <2> QED
    BY <1>1, <1>2, <1>4, <1>5, <1>n, <2>1, ConsentPapers
<1>6. CASE v1' = v1 + 1 /\ v9' = CO!Stop(CO!Live)
  <2>1. CO!Live' = {} /\ v9' \in [X -> CO!Subscription \cup {None}]
    BY <1>6, NothingLive DEF CO!ConsentInv
  <2>2. CO!Papers'
    BY <1>1, <1>3, <2>1 DEF CO!ConsentInv, CO!Papers
  <2>3. CO!LiveOnConsent' /\ CO!OneRuns'
    BY <2>1 DEF CO!LiveOnConsent, CO!OneRuns, CO!Running
  <2>4. CO!SignedAfterReview'
    BY <1>1, <1>2, <1>3, <1>4, ReviewsStay DEF CO!ConsentInv, CO!Papers
  <2> QED
    BY <1>n, <2>2, <2>3, <2>4 DEF CO!ConsentInv
<1> QED
  BY <1>1, <1>5, <1>6

\* A revocation stops whatever stands on the consent, running or paused.
LEMMA ConsentRevoked ==
  ASSUME CO!ConsentInv, NEW i \in Docs, CO!Revoke(i)
  PROVE  CO!ConsentInv'
<1>1. /\ UNCHANGED <<v1, v2, v4, v5, v6, v7>>
      /\ v8' = v8 \cup {i} /\ v9' = CO!Stop(CO!StandingOn(i))
  BY DEF CO!Revoke
<1>2. /\ v9' \in [X -> CO!Subscription \cup {None}]
      /\ \A s \in X : s \notin CO!StandingOn(i) => v9'[s] = v9[s]
      /\ \A s \in CO!StandingOn(i) : v9'[s].state = "stopped"
  <2>1. CO!StandingOn(i) \in SUBSET CO!Live
    BY DEF CO!StandingOn
  <2> QED
    BY <1>1, <2>1, StopLeaves DEF CO!ConsentInv
<1>3. CO!Kept
  BY <1>1 DEF CO!Kept
<1>4. CO!Papers'
  BY <1>1, <1>2 DEF CO!ConsentInv, CO!Papers
<1>5. CO!SignedAfterReview'
  BY <1>1, <1>3, ReviewsStay DEF CO!ConsentInv, CO!Papers
<1>6. ASSUME NEW s \in CO!Live' PROVE s \in CO!Live /\ v9'[s] = v9[s] /\ v9[s].consent # i
  <2>1. s \in X /\ s \notin CO!StandingOn(i)
    BY <1>2 DEF CO!Live
  <2> QED
    BY <1>2, <2>1 DEF CO!Live, CO!StandingOn
<1>7. \A s \in CO!Live : v9[s].consent \in Docs /\ v9[s].consent \notin v8
  BY LiveTypes DEF CO!ConsentInv, CO!LiveOnConsent, CO!StandsFor, CO!Subscription
<1>8. CO!LiveOnConsent' /\ CO!OneRuns'
  BY <1>1, <1>3, <1>6, <1>7, LiveStays
<1>n. CO!NewestKnown'
  BY <1>1 DEF CO!ConsentInv, CO!NewestKnown
<1> QED
  BY <1>4, <1>5, <1>8, <1>n DEF CO!ConsentInv

\* A subscription is stopped or paused.
LEMMA ConsentHalted ==
  ASSUME CO!ConsentInv, NEW s \in X, NEW state \in {"stopped", "paused"}, CO!Halt(s, state)
  PROVE  CO!ConsentInv'
<1>1. /\ UNCHANGED <<v1, v2, v4, v5, v6, v7, v8>>
      /\ v9' = [v9 EXCEPT ![s].state = state] /\ s \in CO!Live
  BY DEF CO!Halt
<1>2. v9[s] \in CO!Subscription
  BY <1>1, LiveTypes DEF CO!ConsentInv
<1>3. PICK x \in CO!Subscription : /\ v9' = [v9 EXCEPT ![s] = x] /\ x.state = state
                                   /\ x.consent = v9[s].consent /\ x.revision = v9[s].revision
  <2>1. /\ [v9[s] EXCEPT !.state = state] \in CO!Subscription
        /\ [v9[s] EXCEPT !.state = state].state = state
        /\ [v9[s] EXCEPT !.state = state].consent = v9[s].consent
        /\ [v9[s] EXCEPT !.state = state].revision = v9[s].revision
    BY <1>2 DEF CO!Subscription
  <2> QED
    BY <1>1, <2>1
<1>4. CO!Papers'
  BY <1>1, <1>3 DEF CO!ConsentInv, CO!Papers
<1>5. CO!Kept
  BY <1>1 DEF CO!Kept
<1>6. CO!SignedAfterReview'
  BY <1>1, <1>5, ReviewsStay DEF CO!ConsentInv, CO!Papers
<1>7. \A t \in CO!Live : v9[t].consent \in Docs /\ v9[t].consent \notin v8
  BY LiveTypes DEF CO!ConsentInv, CO!LiveOnConsent, CO!StandsFor, CO!Subscription
<1>8. v9'[s] = x /\ \A t \in X : t # s => v9'[t] = v9[t]
  BY <1>3 DEF CO!ConsentInv, CO!Papers
<1>9. \A t \in CO!Live' : /\ t \in CO!Live /\ v9'[t].consent = v9[t].consent
                          /\ v9'[t].revision = v9[t].revision
                          /\ v9'[t].state \in {v9[t].state, "paused"}
  BY <1>1, <1>3, <1>8 DEF CO!Live
<1>10. CO!LiveOnConsent' /\ CO!OneRuns'
  BY <1>1, <1>5, <1>7, <1>9, LiveStays
<1>n. CO!NewestKnown'
  BY <1>1 DEF CO!ConsentInv, CO!NewestKnown
<1> QED
  BY <1>4, <1>6, <1>10, <1>n DEF CO!ConsentInv

\* What runs is stopped, and a new subscription runs on the consent that is active.
LEMMA ConsentEnabled ==
  ASSUME CO!ConsentInv, NEW s \in X, NEW c \in Docs, CO!Enable(s, c)
  PROVE  CO!ConsentInv'
<1>1. /\ UNCHANGED <<v1, v2, v4, v5, v6, v7, v8>>
      /\ v9[s] = None /\ CO!Bound(v1) /\ c # None /\ c = CO!ActiveConsent(v1)
  BY DEF CO!Enable
<1>2. v6[c] = v1 /\ c \notin v8
  <2> DEFINE at == {n \in DOMAIN v7 : v6[v7[n]] = v1 /\ v7[n] \notin v8}
             n == CHOOSE n \in at : \A k \in at : k <= n
  <2>1. at # {} /\ c = v7[n]
    BY <1>1 DEF CO!ActiveConsent
  <2>2. \E m \in at : \A k \in at : k <= m
    <3>1. at \in SUBSET (DOMAIN v7)
      OBVIOUS
    <3> HIDE DEF at
    <3> QED
      BY <2>1, <3>1 DEF CO!ConsentInv, CO!NewestKnown
  <2>3. n \in at
    BY <2>2
  <2> QED
    BY <2>1, <2>3
<1>3. PICK new \in CO!Subscription : /\ new.consent = c /\ new.revision = v1 /\ new.state = "enabled"
                                     /\ v9' = [CO!Stop(CO!Running) EXCEPT ![s] = new]
  <2>1. [consent |-> c, revision |-> v1, state |-> "enabled"] \in CO!Subscription
    BY DEF CO!Subscription, CO!ConsentInv, CO!Papers
  <2> QED
    BY <2>1 DEF CO!Enable, CO!Running
<1>4. /\ CO!Stop(CO!Running) \in [X -> CO!Subscription \cup {None}]
      /\ \A t \in X : t \notin CO!Running => CO!Stop(CO!Running)[t] = v9[t]
      /\ \A t \in CO!Running : CO!Stop(CO!Running)[t].state = "stopped"
  <2>1. CO!Running \in SUBSET CO!Live
    BY DEF CO!Running
  <2> QED
    BY <2>1, StopLeaves DEF CO!ConsentInv
<1>5. /\ v9' \in [X -> CO!Subscription \cup {None}] /\ v9'[s] = new
      /\ \A t \in X : t # s => v9'[t] = CO!Stop(CO!Running)[t]
  BY <1>3, <1>4
<1>6. CO!Papers'
  BY <1>1, <1>5 DEF CO!ConsentInv, CO!Papers
<1>7. CO!Kept
  BY <1>1 DEF CO!Kept
<1>8. CO!SignedAfterReview'
  BY <1>1, <1>7, ReviewsStay DEF CO!ConsentInv, CO!Papers
<1>9. ASSUME NEW t \in CO!Live', t # s
      PROVE  t \in CO!Live /\ v9'[t] = v9[t] /\ v9'[t].state # "enabled"
  <2>1. t \in X /\ t \notin CO!Running
    BY <1>4, <1>5, <1>9 DEF CO!Live
  <2> QED
    BY <1>4, <1>5, <1>9, <2>1 DEF CO!Live, CO!Running
<1>10. CO!LiveOnConsent'
  <2>1. ASSUME NEW t \in CO!Live' PROVE CO!StandsFor(t)'
    <3>1. t # s => CO!StandsFor(t)
      BY <1>9 DEF CO!ConsentInv, CO!LiveOnConsent
    <3>2. t = s => v9'[t].revision = v1 /\ v9'[t].consent = c
      BY <1>3, <1>5
    <3> QED
      BY <1>1, <1>2, <1>9, <3>1, <3>2 DEF CO!StandsFor, CO!Bound, CO!Confirmed
  <2> QED
    BY <2>1 DEF CO!LiveOnConsent
<1>11. CO!OneRuns'
  BY <1>9 DEF CO!OneRuns, CO!Running
<1>n. CO!NewestKnown'
  BY <1>1 DEF CO!ConsentInv, CO!NewestKnown
<1> QED
  BY <1>6, <1>8, <1>10, <1>11, <1>n DEF CO!ConsentInv

\* Every step preserves the invariant.
LEMMA ConsentStep == CO!NoDocument /\ CO!ConsentInv /\ [CO!Next]_(CO!vars) => CO!ConsentInv'
<1> SUFFICES ASSUME CO!NoDocument, CO!ConsentInv, [CO!Next]_(CO!vars) PROVE CO!ConsentInv'
    OBVIOUS
<1>1. CASE UNCHANGED CO!vars
  <2>1. CO!Papers' /\ CO!NewestKnown' /\ CO!OneRuns'
    BY <1>1 DEF CO!vars, CO!ConsentInv, CO!Papers, CO!NewestKnown, CO!OneRuns, CO!Running, CO!Live
  <2>2. CO!SignedAfterReview' /\ CO!LiveOnConsent'
    BY <1>1 DEF CO!vars, CO!ConsentInv, CO!SignedAfterReview, CO!LiveOnConsent, CO!StandsFor, CO!Live, CO!Reviewed, CO!Bound, CO!Confirmed
  <2> QED
    BY <2>1, <2>2 DEF CO!ConsentInv
<1>2. CASE CO!Next
  BY <1>2, ConsentDraft, ConsentPrepared, ConsentSigned, ConsentReviewed, ConsentRevoked,
     ConsentHalted, ConsentEnabled DEF CO!Next
<1> QED
  BY <1>1, <1>2

\* What is confirmed was reviewed, what is live stands on the current revision and on a
\* consent of it nobody revoked, and one subscription runs at most.
LEMMA ConsentHolds == CO!ConsentInv => CO!StandsOnConsent
<1> SUFFICES ASSUME CO!ConsentInv PROVE CO!StandsOnConsent
    OBVIOUS
<1>1. Cardinality(CO!Running) <= 1
  <2>1. CASE CO!Running = {}
    BY <2>1, FS_EmptySet
  <2>2. ASSUME NEW s \in CO!Running PROVE Cardinality(CO!Running) <= 1
    <3>1. CO!Running = {s}
      BY <2>2 DEF CO!ConsentInv, CO!OneRuns
    <3> QED
      BY <3>1, FS_Singleton
  <2> QED
    BY <2>1, <2>2
<1> QED
  BY <1>1 DEF CO!ConsentInv, CO!SignedAfterReview, CO!LiveOnConsent, CO!StandsFor,
     CO!StandsOnConsent, CO!Running, Cardinality, CO!Cardinality

\* Stopping changes no revision.
LEMMA StopBounded ==
  ASSUME CO!Papers, CO!Bounded, NEW which \in SUBSET CO!Live, NEW s \in X, CO!Stop(which)[s] # None
  PROVE  CO!Stop(which)[s].revision \in CO!Revisions
<1>1. CASE s \in which
  <2>1. v9[s] \in CO!Subscription /\ v9[s] # None
    BY <1>1, LiveTypes DEF CO!Live, CO!Papers
  <2>2. [v9[s] EXCEPT !.state = "stopped"].revision = v9[s].revision
    BY <2>1 DEF CO!Subscription
  <2> QED
    BY <1>1, <2>1, <2>2 DEF CO!Stop, CO!Bounded
<1>2. CASE s \notin which
  BY <1>2 DEF CO!Stop, CO!Bounded
<1> QED
  BY <1>1, <1>2

\* The draft moves to a next revision within the bound.
LEMMA ChangeBounded ==
  ASSUME N \in Nat \ {0}, CO!Papers, CO!Bounded, CO!Change
  PROVE  v1' \in CO!Revisions /\ \A s \in X : v9'[s] # None => v9'[s].revision \in CO!Revisions
BY StopBounded DEF CO!Change, CO!Bounded, CO!Revisions

\* Every action keeps the revisions within the bound.
LEMMA BoundedStep ==
  ASSUME N \in Nat \ {0}, CO!NoDocument, CO!ConsentInv, CO!Bounded, [CO!Next]_(CO!vars)
  PROVE  CO!Bounded'
<1> USE DEF CO!ConsentInv
<1>1. CASE CO!Edit \/ CO!Compile \/ CO!Turn
  BY <1>1, ChangeBounded DEF CO!Edit, CO!Compile, CO!Turn, CO!Bounded
<1>2. ASSUME NEW i \in Docs,
             CO!ReadProof(i) \/ CO!PrepareBinding(i) \/ CO!Expire(i) \/ (\E kind \in CO!Kinds : CO!Prepare(i, kind))
      PROVE  CO!Bounded'
  <2>1. /\ UNCHANGED <<v1, v2, v3, v6, v9>>
        /\ \A k \in Docs : v5'[k] \in {v5[k], v1, 0}
    BY <1>2 DEF CO!ReadProof, CO!PrepareBinding, CO!Expire, CO!Prepare, CO!Papers
  <2>2. ASSUME NEW k \in Docs, v4'[k] # None PROVE v4'[k].revision \in CO!Revisions
    <3>1. CASE k # i
      <4>1. v4'[k] = v4[k]
        BY <1>2, <3>1 DEF CO!ReadProof, CO!PrepareBinding, CO!Expire, CO!Prepare, CO!Prepared, CO!Papers
      <4> QED
        BY <2>2, <4>1 DEF CO!Bounded
    <3>2. CASE k = i /\ CO!Expire(i)
      <4>1. PICK d \in CO!Document : v4[i] = d
        BY <3>2 DEF CO!Expire, CO!Papers
      <4>2. v4'[i] = [d EXCEPT !.open = FALSE] /\ d.revision \in CO!Revisions
        BY <3>2, <4>1 DEF CO!Expire, CO!Papers, CO!Bounded
      <4> QED
        BY <3>2, <4>1, <4>2 DEF CO!Document
    <3>3. CASE k = i /\ ~CO!Expire(i)
      <4>1. CASE CO!ReadProof(i)
        BY <2>2, <4>1 DEF CO!ReadProof, CO!Bounded
      <4>2. ASSUME NEW kind, NEW r, CO!Prepared(i, kind, r) PROVE v4'[i].revision = v1
        BY <4>2 DEF CO!Prepared, CO!Reviewable, CO!Papers
      <4>3. CASE CO!PrepareBinding(i) \/ \E kind \in CO!Kinds : CO!Prepare(i, kind)
        BY <3>3, <4>2, <4>3 DEF CO!PrepareBinding, CO!Prepare, CO!Bounded
      <4> QED
        BY <1>2, <3>3, <4>1, <4>3
    <3> QED
      BY <3>1, <3>2, <3>3
  <2> QED
    BY <2>1, <2>2 DEF CO!Bounded
<1>3. ASSUME NEW i \in Docs, NEW accepts \in BOOLEAN, CO!ConfirmReview(i, accepts) PROVE CO!Bounded'
  <2>1. v1' \in CO!Revisions /\ \A s \in X : v9'[s] # None => v9'[s].revision \in CO!Revisions
    BY <1>3, ChangeBounded DEF CO!ConfirmReview, CO!Bounded
  <2>2. \A k \in Docs : v6'[k] \in CO!Revisions \cup {0}
    BY <1>3, <2>1 DEF CO!ConfirmReview, CO!Bounded, CO!Papers
  <2> QED
    BY <1>3, <2>1, <2>2 DEF CO!ConfirmReview, CO!Bounded
<1>4. ASSUME NEW i \in Docs, CO!ConfirmSigned(i) PROVE CO!Bounded'
  BY <1>4 DEF CO!ConfirmSigned, CO!Bounded, CO!Papers
<1>5. ASSUME NEW i \in Docs, CO!Revoke(i) PROVE CO!Bounded'
  <2>1. CO!StandingOn(i) \subseteq CO!Live
    BY DEF CO!StandingOn
  <2> QED
    BY <1>5, <2>1, StopBounded DEF CO!Revoke, CO!Bounded
<1>6. ASSUME NEW s \in X, NEW state \in {"stopped", "paused"}, CO!Halt(s, state) PROVE CO!Bounded'
  <2>1. PICK p \in CO!Subscription : v9[s] = p /\ p # None
    BY <1>6, LiveTypes DEF CO!Halt, CO!Live
  <2>2. [p EXCEPT !.state = state].revision = p.revision
    BY DEF CO!Subscription
  <2>3. \A q \in X : v9'[q] = IF q = s THEN [p EXCEPT !.state = state] ELSE v9[q]
    BY <1>6, <2>1 DEF CO!Halt, CO!Papers
  <2>4. \A q \in X : v9'[q] # None => v9'[q].revision \in CO!Revisions
    BY <2>1, <2>2, <2>3 DEF CO!Bounded
  <2> QED
    BY <1>6, <2>4 DEF CO!Halt, CO!Bounded
<1>7. ASSUME NEW s \in X, NEW c \in Docs, CO!Enable(s, c) PROVE CO!Bounded'
  <2> DEFINE old == {x \in CO!Live : v9[x].state = "enabled"}
             new == [consent |-> c, revision |-> v1, state |-> "enabled"]
  <2>1. \A q \in X : v9'[q] = IF q = s THEN new ELSE CO!Stop(old)[q]
    BY <1>7 DEF CO!Enable, CO!Stop
  <2>2. \A q \in X : v9'[q] # None => v9'[q].revision \in CO!Revisions
    <3>1. old \in SUBSET CO!Live
      OBVIOUS
    <3>2. \A q \in X : CO!Stop(old)[q] # None => CO!Stop(old)[q].revision \in CO!Revisions
      BY <3>1, StopBounded
    <3>3. new.revision \in CO!Revisions
      BY DEF CO!Bounded
    <3> HIDE DEF old, new
    <3> QED
      BY <2>1, <3>2, <3>3
  <2> QED
    BY <1>7, <2>2 DEF CO!Enable, CO!Bounded
<1>8. CASE UNCHANGED CO!vars
  BY <1>8 DEF CO!vars, CO!Bounded
<1> QED
  BY <1>1, <1>2, <1>3, <1>4, <1>5, <1>6, <1>7, <1>8 DEF CO!Next

\* At the start every revision is within the bound.
LEMMA BoundedBegins == N \in Nat \ {0} /\ CO!Init => CO!Bounded
<1>1. N \in Nat \ {0} => 1 \in CO!Revisions
  BY DEF CO!Revisions
<1> QED
  BY <1>1 DEF CO!Init, CO!Bounded

\* The rows keep their types, whatever the bound of revisions.
LEMMA RowsHaveTypes == CO!ConsentInv /\ CO!Bounded => CO!TypeOK
BY DEF CO!ConsentInv, CO!Papers, CO!Bounded, CO!TypeOK, CO!Document, CO!Subscription

-----------------------------------------------------------------------------
(* The mandates (MD): v1 the reports, v2 the evaluations due, v3 the swaps, *)
(* v4 the files, v5 the temporary files, v6 the calls.                      *)

MD == INSTANCE Mandates WITH
     Mandates <- Z, Strategies <- X, Calls <- Y, Swaps <- Z, MaxReports <- N,
     Blank <- z2, Torn <- z3,
     reports <- v1, due <- v2, swaps <- v3, stored <- v4, temp <- v5, call <- v6

\* Counting in the module of the mandates is counting.
LEMMA MandateCounts ==
  \A S : MD!Cardinality(S) = Cardinality(S) /\ MD!IsFiniteSet(S) = IsFiniteSet(S)
BY DEF Cardinality, MD!Cardinality, IsFiniteSet, MD!IsFiniteSet

\* A bounded set of numbers has a largest.
LEMMA Largest ==
  ASSUME NEW n \in Nat, NEW S \in SUBSET (0 .. n), S # {}
  PROVE  \E i \in S : \A k \in S : k <= i
<1> DEFINE T == {n - i : i \in S}
<1>1. T \in SUBSET Nat /\ T # {}
  <2>1. \A i \in S : n - i \in Nat
    OBVIOUS
  <2> QED BY <2>1
<1>2. PICK t \in T : \A u \in T : t <= u
  <2> HIDE DEF T
  <2> QED BY <1>1, Smallest
<1>3. PICK i \in S : t = n - i
  BY <1>2
<1>4. ASSUME NEW k \in S PROVE k <= i
  <2>1. n - k \in T /\ k \in 0 .. n /\ i \in 0 .. n
    OBVIOUS
  <2>2. n - i <= n - k
    BY <1>2, <1>3, <2>1
  <2> QED BY <2>1, <2>2
<1> QED BY <1>4

\* What is found in the log is a report of the strategy asked for.
LEMMA SeenIsReported ==
  ASSUME v1 \in Seq([strategy : X, allows : BOOLEAN]), NEW s, NEW from \in Nat, MD!Seen(s, from) # 0
  PROVE  MD!Seen(s, from) \in from + 1 .. Len(v1) /\ v1[MD!Seen(s, from)].strategy = s
<1> DEFINE at == {i \in from + 1 .. Len(v1) : v1[i].strategy = s}
<1>1. at # {} /\ MD!Seen(s, from) = CHOOSE i \in at : \A j \in at : j <= i
  BY DEF MD!Seen
<1>2. Len(v1) \in Nat
  BY LenProperties
<1>3. at \in SUBSET (0 .. Len(v1))
  BY <1>2
<1>4. \E i \in at : \A j \in at : j <= i
  <2> HIDE DEF at
  <2> QED BY <1>1, <1>2, <1>3, Largest
<1>5. MD!Seen(s, from) \in at
  <2> HIDE DEF at
  <2> QED BY <1>1, <1>4
<1> QED BY <1>5

\* Reports are added and swaps mined: what is sound stays so.
LEMMA SoundStays ==
  ASSUME v1 \in Seq([strategy : X, allows : BOOLEAN]),
         v1' = v1 \/ \E r \in [strategy : X, allows : BOOLEAN] : v1' = Append(v1, r),
         v3 \in [Z -> MD!Mined \cup {None}], \A x \in Z : v3[x] # None => v3'[x] = v3[x]
  PROVE  /\ \A f \in MD!States : MD!Reported(f) => MD!Reported(f)'
         /\ \A events \in SUBSET MD!Events : MD!Proven(events) => MD!Proven(events)'
         /\ \A f : MD!Sound(f) => MD!Sound(f)'
<1>1. Len(v1) \in Nat /\ Len(v1') \in Nat /\ Len(v1) <= Len(v1')
      /\ \A i \in 1 .. Len(v1) : v1'[i] = v1[i]
  BY LenProperties, AppendProperties
<1>2. DOMAIN v1 = 1 .. Len(v1) /\ DOMAIN v1' = 1 .. Len(v1')
  BY LenProperties, AppendProperties
<1>3. ASSUME NEW f \in MD!States, MD!Reported(f) PROVE MD!Reported(f)'
  <2>1. f.report \in 1 .. Len(v1)
    BY <1>2, <1>3 DEF MD!Reported
  <2>2. PICK i, s : i = f.report /\ s = f.evaluated
    OBVIOUS
  <2>3. i \in 1 .. Len(v1) /\ i \in DOMAIN v1' /\ v1'[i] = v1[i]
    <3>1. i \in 1 .. Len(v1)
      BY <2>1, <2>2
    <3>2. i \in 1 .. Len(v1')
      BY <1>1, <3>1
    <3> QED BY <1>1, <1>2, <3>1, <3>2
  <2>4. i \in DOMAIN v1' /\ v1'[i] = v1[i] /\ v1[i].strategy = s
        /\ f.status[s] = (IF v1[i].allows THEN "active" ELSE "paused")
    BY <1>3, <2>2, <2>3 DEF MD!Reported
  <2>5. s \in DOMAIN f.status
    BY <1>3, <2>2 DEF MD!Reported, MD!Listed
  <2> QED BY <2>2, <2>4, <2>5 DEF MD!Reported, MD!Listed
<1>4. ASSUME NEW events \in SUBSET MD!Events, MD!Proven(events) PROVE MD!Proven(events)'
  <2> SUFFICES ASSUME NEW e \in events PROVE v3'[e.swap] # None /\ v3'[e.swap].ok = e.settled
    BY DEF MD!Proven
  <2>1. e.swap \in Z
    BY DEF MD!Events
  <2> QED BY <1>4, <2>1 DEF MD!Proven
<1>5. ASSUME NEW f, MD!Sound(f) PROVE MD!Sound(f)'
  <2>1. f.events \in SUBSET MD!Events
    BY <1>5 DEF MD!Sound, MD!States
  <2> QED BY <1>3, <1>4, <1>5, <2>1 DEF MD!Sound, MD!Alone
<1> QED BY <1>3, <1>4, <1>5

\* A call in flight stays as good while reports and requests are added.
LEMMA CallStays ==
  ASSUME NEW q, MD!CallInv(q), v1 \in Seq([strategy : X, allows : BOOLEAN]),
         v1' = v1 \/ \E r \in [strategy : X, allows : BOOLEAN] : v1' = Append(v1, r),
         v3 \in [Z -> MD!Mined \cup {None}], \A x \in Z : v3[x] # None => v3'[x] = v3[x]
  PROVE  MD!CallInv(q)'
<1>1. CASE q = MD!Idle
  BY <1>1 DEF MD!CallInv
<1>2. CASE q \in MD!Held /\ q.phase \in {"evaluating", "observing"}
  <2>1. /\ q.strategy \in X /\ q.out.report <= N /\ MD!Alone(q.out) /\ MD!Proven(q.out.events)
        /\ q.out \in MD!States
    BY <1>2 DEF MD!CallInv, MD!Held, MD!Idle, MD!Saving
  <2>2. MD!Proven(q.out.events)'
    <3>1. q.out.events \in SUBSET MD!Events
      BY <2>1 DEF MD!States
    <3> QED BY <2>1, <3>1, SoundStays
  <2> QED BY <1>2, <2>1, <2>2 DEF MD!CallInv, MD!Alone
<1>3. CASE q \in MD!Held /\ q.phase = "reading"
  <2>1. q.strategy \in X /\ q.out \in MD!States /\ MD!Alone(q.out)
        /\ MD!Reported(q.out) /\ MD!Proven(MD!Earlier(q))
    BY <1>3 DEF MD!CallInv, MD!Held, MD!Idle, MD!Saving
  <2>2. MD!Reported(q.out)'
    BY <2>1, SoundStays
  <2>3. MD!Proven(MD!Earlier(q))'
    <3>1. PICK events : events = MD!Earlier(q)
      OBVIOUS
    <3>2. events \in SUBSET MD!Events
      BY <2>1, <3>1 DEF MD!Earlier, MD!States
    <3>3. MD!Proven(events)'
      BY <2>1, <3>1, <3>2, SoundStays
    <3> QED BY <3>1, <3>3 DEF MD!Earlier
  <2> QED BY <1>3, <2>1, <2>2, <2>3 DEF MD!CallInv, MD!Alone
<1>4. CASE q \in MD!Held /\ q.phase \in {"verifying"} \cup MD!Saving
  <2>1. MD!Sound(q.out)
    BY <1>4 DEF MD!CallInv, MD!Held, MD!Idle, MD!Saving
  <2>2. MD!Sound(q.out)'
    BY <2>1, SoundStays
  <2> QED BY <1>4, <2>1, <2>2 DEF MD!CallInv
<1> QED BY <1>1, <1>2, <1>3, <1>4 DEF MD!CallInv

\* A call goes on, the chain and the files as they are.
LEMMA OneCallGoesOn ==
  ASSUME MD!EvidenceInv, NEW c \in Y, NEW q, MD!CallInv(q), v6' = [v6 EXCEPT ![c] = q],
         UNCHANGED <<v1, v2, v3, v4, v5>>
  PROVE  MD!EvidenceInv'
<1>1. \A d \in Y : MD!CallInv(v6'[d])
  BY DEF MD!EvidenceInv
<1>2. (\A d \in Y : MD!CallInv(v6[d]))'
  <2> SUFFICES ASSUME NEW d \in Y PROVE MD!CallInv(v6[d])'
    OBVIOUS
  <2>1. PICK p : p = v6'[d]
    OBVIOUS
  <2>2. MD!CallInv(p)
    BY <1>1, <2>1
  <2> QED BY <2>1, <2>2
       DEF MD!CallInv, MD!Sound, MD!Reported, MD!Proven, MD!Alone, MD!Earlier
<1>3. MD!UnderWay' = MD!UnderWay
  BY DEF MD!UnderWay
<1>4. (\A m \in Z : \A f \in {v4[m], v5[m]} : MD!Readable(f) => MD!Sound(f))'
  BY DEF MD!EvidenceInv, MD!Sound, MD!Reported, MD!Proven, MD!Alone
<1> QED BY <1>2, <1>3, <1>4 DEF MD!EvidenceInv

\* What is on chain changes; the calls and the files are as sound as they were.
LEMMA ChainGoesOn ==
  ASSUME MD!EvidenceInv, UNCHANGED <<v4, v5, v6>>,
         v1' = v1 \/ \E r \in [strategy : X, allows : BOOLEAN] : v1' = Append(v1, r),
         v2' \in [X -> 0 .. N], Len(v1') + MD!UnderWay' <= N,
         v3' \in [Z -> MD!Mined \cup {None}], \A x \in Z : v3[x] # None => v3'[x] = v3[x]
  PROVE  MD!EvidenceInv'
<1>1. v1' \in Seq([strategy : X, allows : BOOLEAN])
  <2>1. v1 \in Seq([strategy : X, allows : BOOLEAN])
    BY DEF MD!EvidenceInv
  <2>2. ASSUME NEW r \in [strategy : X, allows : BOOLEAN], v1' = Append(v1, r)
        PROVE  v1' \in Seq([strategy : X, allows : BOOLEAN])
    <3>1. Append(v1, r) \in Seq([strategy : X, allows : BOOLEAN])
      BY <2>1, AppendProperties
    <3> QED BY <2>2, <3>1
  <2> QED BY <2>1, <2>2
<1>2. (\A c \in Y : MD!CallInv(v6[c]))'
  <2> SUFFICES ASSUME NEW c \in Y PROVE MD!CallInv(v6[c])'
    OBVIOUS
  <2>1. PICK p : p = v6[c]
    OBVIOUS
  <2>2. MD!CallInv(p)'
    BY <2>1, CallStays DEF MD!EvidenceInv
  <2> QED BY <2>1, <2>2 DEF MD!CallInv, MD!Sound, MD!Reported, MD!Proven, MD!Alone, MD!Earlier
<1>3. (\A m \in Z : \A f \in {v4[m], v5[m]} : MD!Readable(f) => MD!Sound(f))'
  <2> SUFFICES ASSUME NEW m \in Z, NEW f \in {v4[m], v5[m]} PROVE MD!Readable(f) => MD!Sound(f)'
    OBVIOUS
  <2> QED BY SoundStays DEF MD!EvidenceInv
<1> QED BY <1>1, <1>2, <1>3 DEF MD!EvidenceInv

\* The evaluations under way, counted one by one.
LEMMA UnderWayCounts ==
  ASSUME N \in Nat, IsFiniteSet(X), v2 \in [X -> 0 .. N]
  PROVE  /\ MD!UnderWay \in Nat
         /\ \A s \in X : v2[s] <= MD!UnderWay
         /\ \A s \in X : v2[s] < N /\ v2' = [v2 EXCEPT ![s] = @ + 1] => MD!UnderWay' = MD!UnderWay + 1
         /\ \A s \in X : v2[s] > 0 /\ v2' = [v2 EXCEPT ![s] = @ - 1] => MD!UnderWay' = MD!UnderWay - 1
<1> DEFINE All == X \X (1 .. N)
           Due == {e \in All : e[2] <= v2[e[1]]}
           Then == {e \in All : e[2] <= v2'[e[1]]}
<1>1. IsFiniteSet(All)
  <2>1. IsFiniteSet(1 .. N)
    BY FS_Interval
  <2> QED BY <2>1, FS_Product
<1>2. IsFiniteSet(Due) /\ Cardinality(Due) \in Nat
  BY <1>1, FS_Subset, FS_CardinalityType
<1>3. MD!UnderWay = Cardinality(Due) /\ MD!UnderWay' = Cardinality(Then)
  BY MandateCounts DEF MD!UnderWay
<1>4. ASSUME NEW s \in X PROVE v2[s] <= Cardinality(Due)
  <2>1. PICK n : n = v2[s] /\ n \in 0 .. N
    OBVIOUS
  <2> DEFINE f == [i \in 1 .. n |-> <<s, i>>]
  <2>2. \A i \in 1 .. n : <<s, i>> \in Due
    BY <2>1
  <2>3. f \in Injection(1 .. n, Due)
    <3> HIDE DEF Due
    <3> QED BY <2>2 DEF Injection, IsInjective
  <2>4. Cardinality(1 .. n) = n
    BY <2>1, FS_Interval
  <2>5. Cardinality(1 .. n) <= Cardinality(Due)
    <3> HIDE DEF f, Due
    <3> QED BY <1>2, <2>3, FS_Injection
  <2> QED BY <2>1, <2>4, <2>5
<1>5. ASSUME NEW s \in X, v2[s] < N, v2' = [v2 EXCEPT ![s] = @ + 1]
      PROVE  Cardinality(Then) = Cardinality(Due) + 1
  <2>1. PICK n : n = v2[s] + 1 /\ n \in 1 .. N
    BY <1>5
  <2>2. v2'[s] = n /\ \A t \in X : t # s => v2'[t] = v2[t]
    BY <1>5, <2>1
  <2>3. <<s, n>> \in All /\ <<s, n>> \notin Due
    BY <2>1
  <2>4. Then = Due \cup {<<s, n>>}
    <3>1. ASSUME NEW e \in Then PROVE e \in Due \cup {<<s, n>>}
      <4>1. PICK t \in X, k \in 1 .. N : e = <<t, k>>
        OBVIOUS
      <4>2. k <= v2'[t]
        BY <4>1
      <4>3. CASE t = s
        BY <2>1, <2>2, <4>1, <4>2, <4>3
      <4>4. CASE t # s
        BY <2>2, <4>1, <4>2, <4>4
      <4> QED BY <4>3, <4>4
    <3>2. ASSUME NEW e \in Due PROVE e \in Then
      <4>1. PICK t \in X, k \in 1 .. N : e = <<t, k>>
        OBVIOUS
      <4>2. k <= v2[t]
        BY <4>1
      <4>3. k <= v2'[t]
        BY <2>1, <2>2, <4>2
      <4> QED BY <4>1, <4>3
    <3>3. <<s, n>> \in Then
      BY <2>1, <2>2
    <3> QED BY <3>1, <3>2, <3>3
  <2> HIDE DEF Then, Due, All
  <2> QED BY <1>2, <2>3, <2>4, FS_AddElement
<1>6. ASSUME NEW s \in X, v2[s] > 0, v2' = [v2 EXCEPT ![s] = @ - 1]
      PROVE  Cardinality(Then) = Cardinality(Due) - 1
  <2>1. PICK n : n = v2[s] /\ n \in 1 .. N
    BY <1>6
  <2>2. v2'[s] = n - 1 /\ \A t \in X : t # s => v2'[t] = v2[t]
    BY <1>6, <2>1
  <2>3. <<s, n>> \in Due
    BY <2>1
  <2>4. Then = Due \ {<<s, n>>}
    <3>1. ASSUME NEW e \in Then PROVE e \in Due \ {<<s, n>>}
      <4>1. PICK t \in X, k \in 1 .. N : e = <<t, k>>
        OBVIOUS
      <4>2. k <= v2'[t]
        BY <4>1
      <4>3. CASE t = s
        BY <2>1, <2>2, <4>1, <4>2, <4>3
      <4>4. CASE t # s
        BY <2>2, <4>1, <4>2, <4>4
      <4> QED BY <4>3, <4>4
    <3>2. ASSUME NEW e \in Due, e # <<s, n>> PROVE e \in Then
      <4>1. PICK t \in X, k \in 1 .. N : e = <<t, k>>
        OBVIOUS
      <4>2. k <= v2[t] /\ (t = s => k # n)
        BY <3>2, <4>1
      <4>3. k <= v2'[t]
        BY <2>1, <2>2, <4>2
      <4> QED BY <4>1, <4>3
    <3> QED BY <3>1, <3>2
  <2> HIDE DEF Then, Due, All
  <2> QED BY <1>2, <2>3, <2>4, FS_RemoveElement
<1> HIDE DEF Due, Then, All
<1> QED BY <1>2, <1>3, <1>4, <1>5, <1>6

\* Triggering an evaluation, or finding the standing report, keeps the invariant.
LEMMA TriggerKeeps ==
  ASSUME N \in Nat, MD!NoneIsNoState, MD!EvidenceInv, NEW c \in Y, MD!Trigger(c)
  PROVE  MD!EvidenceInv'
<1>1. PICK q : q = v6[c]
  OBVIOUS
<1>2. q.phase = "evaluating" /\ UNCHANGED <<v1, v3, v4, v5>> /\ MD!CallInv(q)
  BY <1>1 DEF MD!Trigger, MD!EvidenceInv
<1>3. /\ q \in MD!Held /\ q.strategy \in X
      /\ q.out.report <= N /\ MD!Alone(q.out) /\ MD!Proven(q.out.events)
  BY <1>2 DEF MD!CallInv, MD!Idle, MD!Saving
<1>4. IsFiniteSet(X) /\ v2 \in [X -> 0 .. N] /\ Len(v1) \in Nat
  BY MandateCounts, LenProperties DEF MD!NoneIsNoState, MD!EvidenceInv
<1>5. PICK from \in Nat : v6' = [v6 EXCEPT ![c].phase = "observing", ![c].from = from]
  <2>1. ASSUME MD!Seen(q.strategy, 0) # 0 PROVE MD!Seen(q.strategy, 0) - 1 \in Nat
    <3>1. MD!Seen(q.strategy, 0) \in 0 + 1 .. Len(v1)
      BY <2>1, SeenIsReported DEF MD!EvidenceInv
    <3> QED BY <1>4, <3>1
  <2> QED BY <1>1, <1>4, <2>1 DEF MD!Trigger
<1>6. PICK r : r = [q EXCEPT !.phase = "observing", !.from = from]
  OBVIOUS
<1>7. v6' = [v6 EXCEPT ![c] = r]
  BY <1>1, <1>5, <1>6 DEF MD!EvidenceInv
<1>8. MD!CallInv(r)
  <2>1. /\ r \in MD!Held /\ r.phase = "observing" /\ r.strategy = q.strategy /\ r.out = q.out
    BY <1>3, <1>6 DEF MD!Held
  <2> QED BY <1>3, <2>1 DEF MD!CallInv
<1>9. CASE UNCHANGED v2
  BY <1>2, <1>7, <1>8, <1>9, OneCallGoesOn
<1>10. CASE Len(v1) + MD!UnderWay < N /\ v2' = [v2 EXCEPT ![q.strategy] = @ + 1]
  <2>1. MD!UnderWay \in Nat /\ v2[q.strategy] <= MD!UnderWay
    BY <1>3, <1>4, UnderWayCounts
  <2>2. v2[q.strategy] \in 0 .. N /\ v2[q.strategy] < N
    BY <1>3, <1>4, <1>10, <2>1
  <2>3. v2' \in [X -> 0 .. N]
    <3>1. PICK k : k = v2[q.strategy] + 1 /\ k \in 0 .. N
      BY <2>2
    <3>2. v2' = [v2 EXCEPT ![q.strategy] = k]
      BY <1>4, <1>10, <3>1
    <3> QED BY <1>4, <3>1, <3>2
  <2>4. Len(v1') + MD!UnderWay' <= N
    <3>1. MD!UnderWay' = MD!UnderWay + 1
      BY <1>3, <1>4, <1>10, <2>2, UnderWayCounts
    <3> QED BY <1>2, <1>4, <1>10, <2>1, <3>1
  <2>5. \A d \in Y : MD!CallInv(v6'[d])
    BY <1>7, <1>8 DEF MD!EvidenceInv
  <2>6. (\A d \in Y : MD!CallInv(v6[d]))'
    <3> SUFFICES ASSUME NEW d \in Y PROVE MD!CallInv(v6[d])'
      OBVIOUS
    <3>1. PICK p : p = v6'[d]
      OBVIOUS
    <3>2. MD!CallInv(p)
      BY <2>5, <3>1
    <3> QED BY <1>2, <3>1, <3>2
         DEF MD!CallInv, MD!Sound, MD!Reported, MD!Proven, MD!Alone, MD!Earlier
  <2>7. (\A m \in Z : \A f \in {v4[m], v5[m]} : MD!Readable(f) => MD!Sound(f))'
    BY <1>2 DEF MD!EvidenceInv, MD!Sound, MD!Reported, MD!Proven, MD!Alone
  <2> QED BY <1>2, <1>7, <2>3, <2>4, <2>6, <2>7 DEF MD!EvidenceInv
<1> QED BY <1>1, <1>9, <1>10 DEF MD!Trigger

\* There is room for every report accepted.
LEMMA ReportsFit ==
  ASSUME N \in Nat, MD!NoneIsNoState, MD!EvidenceInv
  PROVE  /\ Len(v1) \in Nat /\ Len(v1) <= N
         /\ \A f : MD!Sound(f) => f.report \in 1 .. N
<1>1. IsFiniteSet(X) /\ v2 \in [X -> 0 .. N] /\ Len(v1) \in Nat /\ DOMAIN v1 = 1 .. Len(v1)
  BY MandateCounts, LenProperties DEF MD!NoneIsNoState, MD!EvidenceInv
<1>2. Len(v1) <= N
  <2>1. MD!UnderWay \in Nat
    BY <1>1, UnderWayCounts
  <2> QED BY <1>1, <2>1 DEF MD!EvidenceInv
<1>3. ASSUME NEW f, MD!Sound(f) PROVE f.report \in 1 .. N
  <2>1. f.report \in 1 .. Len(v1)
    BY <1>1, <1>3 DEF MD!Sound, MD!Reported
  <2> QED BY <1>1, <1>2, <2>1
<1> QED BY <1>1, <1>2, <1>3

\* Calls save what is sound.
LEMMA FilesGoOn ==
  ASSUME MD!EvidenceInv, DOMAIN v6' = Y, \A d \in Y : MD!CallInv(v6'[d]),
         UNCHANGED <<v1, v2, v3>>, DOMAIN v4' = Z, DOMAIN v5' = Z,
         \A m \in Z : \A f \in {v4'[m], v5'[m]} : MD!Readable(f) => MD!Sound(f)
  PROVE  MD!EvidenceInv'
<1>1. v1 \in Seq([strategy : X, allows : BOOLEAN]) /\ v3 \in [Z -> MD!Mined \cup {None}]
  BY DEF MD!EvidenceInv
<1>2. (\A d \in Y : MD!CallInv(v6[d]))'
  <2> SUFFICES ASSUME NEW d \in Y PROVE MD!CallInv(v6[d])'
    OBVIOUS
  <2>1. PICK p : p = v6'[d]
    OBVIOUS
  <2>2. MD!CallInv(p)'
    BY <1>1, <2>1, CallStays
  <2> QED BY <2>1, <2>2
       DEF MD!CallInv, MD!Sound, MD!Reported, MD!Proven, MD!Alone, MD!Earlier
<1>3. MD!UnderWay' = MD!UnderWay
  BY DEF MD!UnderWay
<1>4. (\A m \in Z : \A f \in {v4[m], v5[m]} : MD!Readable(f) => MD!Sound(f))'
  BY DEF MD!Sound, MD!Reported, MD!Proven, MD!Alone, MD!Readable
<1> QED BY <1>2, <1>3, <1>4 DEF MD!EvidenceInv

\* A request starts from what is stored, or from nothing.
LEMMA RequestKeeps ==
  ASSUME N \in Nat, MD!NoneIsNoState, MD!EvidenceInv, NEW c \in Y, MD!Requests(c)
  PROVE  MD!EvidenceInv'
<1>1. PICK m, s, x, phase, out : m \in Z /\ s \in X \cup {None} /\ x \in Z \cup {None} /\ MD!Begin(c, m, s, x, phase, out) /\ (
        \/ phase = "evaluating" /\ s \in X /\ out = MD!Unopened
        \/ phase = "evaluating" /\ s \in X /\ MD!Readable(v4[m]) /\ out = v4[m]
        \/ phase = "verifying" /\ MD!Readable(v4[m]) /\ out = v4[m]
        \/ /\ phase = "reading" /\ s \in X /\ MD!Readable(v4[m])
           /\ x \in Z /\ \E settled \in BOOLEAN :
                out = [v4[m] EXCEPT !.events = @ \cup {[swap |-> x, settled |-> settled]}])
  <2>1. ASSUME NEW m \in Z, MD!Get(c, m)
        PROVE  MD!Readable(v4[m]) /\ MD!Begin(c, m, None, None, "verifying", v4[m])
    BY <2>1 DEF MD!Get
  <2>2. ASSUME NEW m \in Z, NEW s \in X, MD!Create(c, m, s)
        PROVE  MD!Begin(c, m, s, None, "evaluating", MD!Unopened)
    BY <2>2 DEF MD!Create
  <2>3. ASSUME NEW m \in Z, NEW s \in X, MD!Add(c, m, s)
        PROVE  MD!Readable(v4[m]) /\ MD!Begin(c, m, s, None, "evaluating", v4[m])
    BY <2>3 DEF MD!Add
  <2>4. ASSUME NEW m \in Z, NEW s \in X, NEW x \in Z, NEW settled \in BOOLEAN,
               MD!RecordExecution(c, m, s, x, settled)
        PROVE  /\ MD!Readable(v4[m])
               /\ MD!Begin(c, m, s, x, "reading",
                    [v4[m] EXCEPT !.events = @ \cup {[swap |-> x, settled |-> settled]}])
    BY <2>4 DEF MD!RecordExecution
  <2>5. PICK m \in Z :
          \/ MD!Get(c, m)
          \/ \E s \in X : MD!Create(c, m, s) \/ MD!Add(c, m, s)
               \/ \E x \in Z, settled \in BOOLEAN : MD!RecordExecution(c, m, s, x, settled)
    BY DEF MD!Requests
  <2>6. CASE MD!Get(c, m)
    BY <2>1, <2>6
  <2>7. CASE \E s \in X : MD!Create(c, m, s)
    BY <2>2, <2>7
  <2>8. CASE \E s \in X : MD!Add(c, m, s)
    BY <2>3, <2>8
  <2>9. CASE \E s \in X, x \in Z, settled \in BOOLEAN : MD!RecordExecution(c, m, s, x, settled)
    <3>1. PICK s \in X, x \in Z, settled \in BOOLEAN : MD!RecordExecution(c, m, s, x, settled)
      BY <2>9
    <3>2. PICK out : out = [v4[m] EXCEPT !.events = @ \cup {[swap |-> x, settled |-> settled]}]
      OBVIOUS
    <3>3. MD!Readable(v4[m]) /\ MD!Begin(c, m, s, x, "reading", out)
      BY <2>4, <3>1, <3>2
    <3> QED BY <3>2, <3>3
  <2> QED BY <2>5, <2>6, <2>7, <2>8, <2>9
<1>2. PICK q : q = [reads |-> phase = "verifying", mandate |-> m, strategy |-> s,
                    swap |-> x, from |-> 0, phase |-> phase, out |-> out]
  OBVIOUS
<1>3. v6' = [v6 EXCEPT ![c] = q] /\ UNCHANGED <<v1, v2, v3, v4, v5>>
  BY <1>1, <1>2 DEF MD!Begin
<1>4. MD!Readable(v4[m]) => MD!Sound(v4[m])
  BY <1>1 DEF MD!EvidenceInv
<1>5. MD!CallInv(q)
  <2>1. CASE phase = "evaluating" /\ s \in X /\ out = MD!Unopened
    <3>1. out \in MD!States /\ out.report = 0 /\ out.events = {} /\ MD!Listed(out) = {}
      <4>1. out.status \in [{} -> MD!Statuses]
        BY <2>1 DEF MD!Unopened
      <4> QED BY <2>1, <4>1 DEF MD!Unopened, MD!States, MD!Listed
    <3>2. MD!Alone(out) /\ MD!Proven(out.events)
      BY <3>1 DEF MD!Alone, MD!Proven
    <3>3. q \in MD!Held /\ q.phase = "evaluating" /\ q.strategy \in X /\ q.out = out
      BY <1>1, <1>2, <2>1, <3>1 DEF MD!Held
    <3> QED BY <3>1, <3>2, <3>3 DEF MD!CallInv
  <2>2. CASE phase = "evaluating" /\ s \in X /\ MD!Readable(v4[m]) /\ out = v4[m]
    <3>1. MD!Sound(out)
      BY <1>4, <2>2
    <3>2. out \in MD!States /\ out.report <= N /\ MD!Alone(out) /\ MD!Proven(out.events)
      BY <3>1, ReportsFit DEF MD!Sound
    <3>3. q \in MD!Held /\ q.phase = "evaluating" /\ q.strategy \in X /\ q.out = out
      BY <1>1, <1>2, <2>2, <3>2 DEF MD!Held
    <3> QED BY <3>2, <3>3 DEF MD!CallInv
  <2>3. CASE phase = "verifying" /\ MD!Readable(v4[m]) /\ out = v4[m]
    <3>1. MD!Sound(out)
      BY <1>4, <2>3
    <3>2. q \in MD!Held /\ q.phase = "verifying" /\ q.out = out
      BY <1>1, <1>2, <2>3, <3>1 DEF MD!Held, MD!Sound
    <3> QED BY <3>1, <3>2 DEF MD!CallInv
  <2>4. CASE /\ phase = "reading" /\ s \in X /\ MD!Readable(v4[m])
             /\ x \in Z /\ \E settled \in BOOLEAN :
                  out = [v4[m] EXCEPT !.events = @ \cup {[swap |-> x, settled |-> settled]}]
    <3>1. PICK settled \in BOOLEAN :
            out = [v4[m] EXCEPT !.events = @ \cup {[swap |-> x, settled |-> settled]}]
      BY <2>4
    <3>2. PICK f : f = v4[m] /\ MD!Sound(f)
      BY <1>4, <2>4
    <3>3. PICK e \in SUBSET MD!Events : e = f.events \cup {[swap |-> x, settled |-> settled]}
      <4>1. f.events \in SUBSET MD!Events
        BY <3>2 DEF MD!Sound, MD!States
      <4>2. [swap |-> x, settled |-> settled] \in MD!Events
        BY <2>4 DEF MD!Events
      <4> QED BY <4>1, <4>2
    <3>4. out = [f EXCEPT !.events = e]
      BY <3>1, <3>2, <3>3 DEF MD!Sound, MD!States
    <3>5. out \in MD!States /\ out.status = f.status /\ out.report = f.report
          /\ out.evaluated = f.evaluated
      BY <3>2, <3>4 DEF MD!Sound, MD!States
    <3>6. MD!Alone(out) /\ MD!Reported(out)
      BY <3>2, <3>5 DEF MD!Sound, MD!Alone, MD!Reported, MD!Listed
    <3>7. q \in MD!Held /\ q.phase = "reading" /\ q.strategy \in X /\ q.out = out /\ q.swap = x
      BY <1>1, <1>2, <2>4, <3>5 DEF MD!Held
    <3>8. MD!Proven(MD!Earlier(q))
      <4>1. out.events = f.events \cup {[swap |-> x, settled |-> settled]}
        BY <3>2, <3>3, <3>4 DEF MD!Sound, MD!States
      <4>2. MD!Earlier(q) \in SUBSET f.events
        BY <3>7, <4>1 DEF MD!Earlier
      <4> QED BY <3>2, <4>2 DEF MD!Sound, MD!Proven
    <3> QED BY <2>4, <3>6, <3>7, <3>8 DEF MD!CallInv
  <2> QED BY <1>1, <2>1, <2>2, <2>3, <2>4
<1> QED BY <1>3, <1>5, OneCallGoesOn

\* A call that ends leaves everything else alone.
LEMMA CallEndKeeps ==
  ASSUME MD!EvidenceInv, NEW c \in Y, MD!Ends(c), UNCHANGED <<v1, v2, v3, v4, v5>>
  PROVE  MD!EvidenceInv'
<1>1. MD!CallInv(MD!Idle)
  BY DEF MD!CallInv
<1> QED BY <1>1, OneCallGoesOn DEF MD!Ends

\* The state an evaluation returns follows the report it observed.
LEMMA AcceptedKeeps ==
  ASSUME MD!NoneIsNoState, MD!EvidenceInv, NEW c \in Y, MD!Observe(c)
  PROVE  MD!EvidenceInv'
<1>1. PICK q : q = v6[c]
  OBVIOUS
<1>2. PICK s, i : s = q.strategy /\ i = MD!Seen(q.strategy, q.from)
  OBVIOUS
<1>3. q.phase = "observing" /\ i # 0 /\ UNCHANGED <<v1, v2, v3, v4, v5>> /\ MD!CallInv(q)
  BY <1>1, <1>2 DEF MD!Observe, MD!EvidenceInv
<1>4. /\ q \in MD!Held /\ s \in X /\ q.out \in MD!States
      /\ MD!Alone(q.out) /\ MD!Proven(q.out.events)
  BY <1>2, <1>3 DEF MD!CallInv, MD!Idle, MD!Held, MD!Saving
<1>5. i \in DOMAIN v1 /\ i \in Nat /\ v1[i].strategy = s /\ v1[i].allows \in BOOLEAN
  <2>1. v1 \in Seq([strategy : X, allows : BOOLEAN]) /\ q.from \in Nat
    BY <1>4 DEF MD!EvidenceInv, MD!Held
  <2>2. i \in q.from + 1 .. Len(v1) /\ v1[i].strategy = s
    BY <1>2, <1>3, <2>1, SeenIsReported
  <2>3. i \in 1 .. Len(v1) /\ DOMAIN v1 = 1 .. Len(v1) /\ Len(v1) \in Nat
    BY <2>1, <2>2, LenProperties
  <2>4. v1[i] \in [strategy : X, allows : BOOLEAN]
    BY <2>1, <2>3, ElementOfSeq
  <2> QED BY <2>2, <2>3, <2>4
<1>6. PICK f : f = MD!Evaluated(q.out, s, i)
  OBVIOUS
<1>7. PICK r : r = [q EXCEPT !.phase = "verifying", !.strategy = None, !.from = 0, !.out = f]
  OBVIOUS
<1>8. v6' = [v6 EXCEPT ![c] = r]
  BY <1>1, <1>2, <1>6, <1>7 DEF MD!Observe, MD!EvidenceInv
<1>9. MD!Sound(f)
  <2>1. PICK known \in SUBSET X : q.out.status \in [known -> MD!Statuses]
    BY <1>4 DEF MD!States
  <2>2. PICK g : g = [t \in known \cup {s} |->
          IF t = s THEN IF v1[i].allows THEN "active" ELSE "paused"
          ELSE IF v1[i].allows THEN "standby" ELSE q.out.status[t]]
    OBVIOUS
  <2>3. f = [status |-> g, report |-> i, evaluated |-> s, events |-> q.out.events]
    BY <1>6, <2>1, <2>2 DEF MD!Evaluated, MD!Listed
  <2>4. g \in [known \cup {s} -> MD!Statuses] /\ known \cup {s} \in SUBSET X
    BY <1>4, <2>1, <2>2 DEF MD!Statuses
  <2>5. f \in MD!States
    BY <1>4, <1>5, <2>3, <2>4 DEF MD!States
  <2>6. g[s] = (IF v1[i].allows THEN "active" ELSE "paused")
    BY <2>2
  <2>7. MD!Reported(f)
    BY <1>5, <2>3, <2>4, <2>6 DEF MD!Reported, MD!Listed
  <2>8. ASSUME NEW t \in known \cup {s}, NEW u \in known \cup {s}, g[t] = "active", g[u] = "active"
        PROVE  t = u
    <3>1. CASE v1[i].allows
      BY <2>2, <2>8, <3>1
    <3>2. CASE ~v1[i].allows
      <4>1. t # s /\ u # s /\ q.out.status[t] = "active" /\ q.out.status[u] = "active"
        BY <2>2, <2>8, <3>2
      <4> QED BY <1>4, <2>1, <4>1 DEF MD!Alone, MD!Listed
    <3> QED BY <3>1, <3>2
  <2>9. MD!Alone(f)
    BY <2>3, <2>4, <2>8 DEF MD!Alone, MD!Listed
  <2> QED BY <1>4, <2>3, <2>5, <2>7, <2>9 DEF MD!Sound
<1>10. MD!CallInv(r)
  <2>1. r \in MD!Held /\ r.phase = "verifying" /\ r.out = f
    BY <1>4, <1>7, <1>9 DEF MD!Held, MD!Sound
  <2> QED BY <1>9, <2>1 DEF MD!CallInv
<1> QED BY <1>3, <1>8, <1>10, OneCallGoesOn

\* Receipts are checked before a state is saved.
LEMMA VerifyKeeps ==
  ASSUME MD!EvidenceInv, NEW c \in Y, MD!Verify(c)
  PROVE  MD!EvidenceInv'
<1>1. PICK q : q = v6[c]
  OBVIOUS
<1>2. q.phase = "verifying" /\ UNCHANGED <<v1, v2, v3, v4, v5>> /\ MD!CallInv(q)
  BY <1>1 DEF MD!Verify, MD!EvidenceInv
<1>3. q \in MD!Held /\ MD!Sound(q.out)
  BY <1>2 DEF MD!CallInv, MD!Idle
<1>4. CASE MD!Ends(c)
  BY <1>2, <1>4, CallEndKeeps
<1>5. CASE MD!Moves(c, "saving")
  <2>1. PICK r : r = [q EXCEPT !.phase = "saving"]
    OBVIOUS
  <2>2. v6' = [v6 EXCEPT ![c] = r]
    BY <1>1, <1>5, <2>1 DEF MD!Moves, MD!EvidenceInv
  <2>3. r \in MD!Held /\ r.phase = "saving" /\ r.out = q.out
    BY <1>3, <2>1 DEF MD!Held, MD!Saving
  <2>4. MD!CallInv(r)
    BY <1>3, <2>3 DEF MD!CallInv, MD!Saving
  <2> QED BY <1>2, <2>2, <2>4, OneCallGoesOn
<1> QED BY <1>4, <1>5 DEF MD!Verify

\* A swap is recorded once it was read with the outcome claimed.
LEMMA ReadSwapKeeps ==
  ASSUME MD!NoneIsNoState, MD!EvidenceInv, NEW c \in Y, MD!ReadSwap(c)
  PROVE  MD!EvidenceInv'
<1>1. PICK q : q = v6[c]
  OBVIOUS
<1>2. q.phase = "reading" /\ UNCHANGED <<v1, v2, v3, v4, v5>> /\ MD!CallInv(q)
  BY <1>1 DEF MD!ReadSwap, MD!EvidenceInv
<1>3. /\ q \in MD!Held /\ q.strategy \in X
      /\ MD!Alone(q.out) /\ MD!Reported(q.out) /\ MD!Proven(MD!Earlier(q))
  BY <1>2 DEF MD!CallInv, MD!Idle, MD!Saving
<1>4. CASE MD!Ends(c)
  BY <1>2, <1>4, CallEndKeeps
<1>5. CASE /\ \A e \in q.out.events : e.swap = q.swap =>
                v3[e.swap] = [strategy |-> q.strategy, ok |-> e.settled]
           /\ v6' = [v6 EXCEPT ![c].phase = "saving", ![c].strategy = None, ![c].swap = None]
  <2>1. PICK r : r = [q EXCEPT !.phase = "saving", !.strategy = None, !.swap = None]
    OBVIOUS
  <2>2. v6' = [v6 EXCEPT ![c] = r]
    BY <1>1, <1>5, <2>1 DEF MD!EvidenceInv
  <2>3. r \in MD!Held /\ r.phase = "saving" /\ r.out = q.out
    BY <1>3, <2>1 DEF MD!Held, MD!Saving
  <2>4. ASSUME NEW e \in q.out.events PROVE v3[e.swap] # None /\ v3[e.swap].ok = e.settled
    <3>1. e \in MD!Events
      BY <1>3 DEF MD!Held, MD!States
    <3>2. CASE e.swap # q.swap
      BY <1>3, <3>2 DEF MD!Earlier, MD!Proven
    <3>3. CASE e.swap = q.swap
      <4>1. PICK x : x = [strategy |-> q.strategy, ok |-> e.settled]
        OBVIOUS
      <4>2. v3[e.swap] = x
        BY <1>5, <3>3, <4>1
      <4>3. x \in MD!Mined /\ x.ok = e.settled
        BY <1>3, <3>1, <4>1 DEF MD!Mined, MD!Events
      <4> QED BY <4>2, <4>3 DEF MD!NoneIsNoState
    <3> QED BY <3>2, <3>3
  <2>5. MD!Sound(r.out)
    BY <1>3, <2>3, <2>4 DEF MD!Sound, MD!Proven, MD!Held
  <2>6. MD!CallInv(r)
    BY <2>3, <2>5 DEF MD!CallInv, MD!Saving
  <2> QED BY <1>2, <2>2, <2>6, OneCallGoesOn
<1> QED BY <1>1, <1>4, <1>5 DEF MD!ReadSwap

\* A call on its way to the end of its save.
LEMMA SaverGoesOn ==
  ASSUME NEW q, MD!CallInv(q), q.phase \in MD!Saving, NEW phase \in MD!Saving
  PROVE  MD!CallInv([q EXCEPT !.phase = phase])
<1>1. q \in MD!Held /\ MD!Sound(q.out)
  BY DEF MD!CallInv, MD!Idle, MD!Saving
<1>2. PICK r : r = [q EXCEPT !.phase = phase]
  OBVIOUS
<1>3. r \in MD!Held /\ r.phase = phase /\ r.out = q.out
  BY <1>1, <1>2 DEF MD!Held
<1> QED BY <1>1, <1>2, <1>3 DEF MD!CallInv

\* What is written to the shared temporary file, or over what was renamed, is sound or cannot be
\* read.
LEMMA FileSaveKeeps ==
  ASSUME MD!NoneIsNoState, MD!EvidenceInv, NEW c \in Y, MD!OpenTemp(c) \/ MD!WriteTemp(c)
  PROVE  MD!EvidenceInv'
<1>1. PICK q, m : q = v6[c] /\ m = q.mandate
  OBVIOUS
<1>2. q.phase \in MD!Saving /\ UNCHANGED <<v1, v2, v3>> /\ MD!CallInv(q)
  BY <1>1 DEF MD!OpenTemp, MD!WriteTemp, MD!EvidenceInv, MD!Saving
<1>3. q \in MD!Held /\ MD!Sound(q.out) /\ m \in Z
  BY <1>1, <1>2 DEF MD!CallInv, MD!Idle, MD!Saving, MD!Held
<1>4. /\ DOMAIN v4 = Z /\ DOMAIN v5 = Z
      /\ \A k \in Z : \A f \in {v4[k], v5[k]} : MD!Readable(f) => MD!Sound(f)
  BY DEF MD!EvidenceInv
<1>5. DOMAIN v6' = Y /\ \A d \in Y : MD!CallInv(v6'[d])
  <2>1. PICK phase \in MD!Saving : v6' = [v6 EXCEPT ![c].phase = phase]
    BY DEF MD!OpenTemp, MD!WriteTemp, MD!Moves, MD!Saving
  <2>2. v6' = [v6 EXCEPT ![c] = [q EXCEPT !.phase = phase]]
    BY <1>1, <2>1 DEF MD!EvidenceInv
  <2>3. MD!CallInv([q EXCEPT !.phase = phase])
    BY <1>2, SaverGoesOn
  <2> QED BY <2>2, <2>3 DEF MD!EvidenceInv
<1>6. CASE MD!OpenTemp(c)
  <2>1. v5' = [v5 EXCEPT ![m] = z2] /\ v4' = v4
    BY <1>1, <1>6 DEF MD!OpenTemp
  <2>2. ~MD!Readable(z2)
    BY DEF MD!Readable
  <2> QED BY <1>2, <1>4, <1>5, <2>1, <2>2, FilesGoOn
<1>7. CASE MD!WriteTemp(c)
  <2>1. PICK f : /\ MD!Readable(f) => MD!Sound(f)
                 /\ \/ v5' = [v5 EXCEPT ![m] = f] /\ v4' = v4
                    \/ v4' = [v4 EXCEPT ![m] = f] /\ v5' = v5
    <3>1. \A old : \A f \in MD!Filled(old, q.out) : MD!Readable(f) => MD!Sound(f)
      BY <1>3 DEF MD!Filled, MD!Readable
    <3> QED BY <1>1, <1>7, <3>1 DEF MD!WriteTemp
  <2>2. /\ DOMAIN v4' = Z /\ DOMAIN v5' = Z
        /\ \A k \in Z : \A g \in {v4'[k], v5'[k]} : MD!Readable(g) => MD!Sound(g)
    BY <1>3, <1>4, <2>1
  <2> QED BY <1>2, <1>5, <2>2, FilesGoOn
<1> QED BY <1>6, <1>7

\* What is renamed is as sound as it was; the other saves go on, elsewhere.
LEMMA RenameKeeps ==
  ASSUME MD!NoneIsNoState, MD!EvidenceInv, NEW c \in Y, MD!Rename(c)
  PROVE  MD!EvidenceInv'
<1>1. PICK m : m = v6[c].mandate
  OBVIOUS
<1>2. CASE v5[m] = None
  <2>1. MD!Ends(c) /\ UNCHANGED <<v1, v2, v3, v4, v5>>
    BY <1>1, <1>2 DEF MD!Rename
  <2> QED BY <2>1, CallEndKeeps
<1>3. CASE v5[m] # None
  <2>1. /\ v4' = [v4 EXCEPT ![m] = v5[m]] /\ v5' = [v5 EXCEPT ![m] = None]
        /\ v6' = [d \in Y |-> IF d = c THEN MD!Idle ELSE MD!Displaced(v6[d], m)]
        /\ UNCHANGED <<v1, v2, v3>>
    BY <1>1, <1>3 DEF MD!Rename
  <2>2. m \in Z
    <3>1. PICK q : q = v6[c] /\ q.phase = "renaming" /\ MD!CallInv(q)
      BY DEF MD!Rename, MD!EvidenceInv
    <3> QED BY <1>1, <3>1 DEF MD!CallInv, MD!Idle, MD!Held
  <2>3. ASSUME NEW d \in Y PROVE MD!CallInv(v6'[d])
    <3>1. CASE d = c
      BY <2>1, <3>1 DEF MD!CallInv
    <3>2. CASE d # c
      <4>1. PICK p : p = v6[d] /\ MD!CallInv(p) /\ v6'[d] = MD!Displaced(p, m)
        BY <2>1, <3>2 DEF MD!EvidenceInv
      <4>2. CASE p.phase \in {"writing", "overwriting"}
        <5>1. MD!CallInv([p EXCEPT !.phase = "overwriting"]) /\ MD!CallInv([p EXCEPT !.phase = "renaming"])
          BY <4>1, <4>2, SaverGoesOn DEF MD!Saving
        <5> QED BY <4>1, <5>1 DEF MD!Displaced
      <4>3. CASE p.phase \notin {"writing", "overwriting"}
        BY <4>1, <4>3 DEF MD!Displaced
      <4> QED BY <4>2, <4>3
    <3> QED BY <3>1, <3>2
  <2>4. /\ DOMAIN v4' = Z /\ DOMAIN v5' = Z
        /\ \A k \in Z : \A f \in {v4'[k], v5'[k]} : MD!Readable(f) => MD!Sound(f)
    BY <2>1, <2>2 DEF MD!EvidenceInv, MD!Readable
  <2>5. DOMAIN v6' = Y
    BY <2>1
  <2> QED BY <2>1, <2>3, <2>4, <2>5, FilesGoOn
<1> QED BY <1>2, <1>3

\* A report lands, an evaluation fails or a swap is mined.
LEMMA ChainKeeps ==
  ASSUME N \in Nat, MD!NoneIsNoState, MD!EvidenceInv, MD!Chain
  PROVE  MD!EvidenceInv'
<1>1. IsFiniteSet(X) /\ v2 \in [X -> 0 .. N] /\ v1 \in Seq([strategy : X, allows : BOOLEAN])
      /\ v3 \in [Z -> MD!Mined \cup {None}]
  BY MandateCounts DEF MD!NoneIsNoState, MD!EvidenceInv
<1>2. Len(v1) \in Nat /\ MD!UnderWay \in Nat /\ Len(v1) + MD!UnderWay <= N
  <2>1. MD!UnderWay \in Nat
    BY <1>1, UnderWayCounts
  <2> QED BY <1>1, <2>1, LenProperties DEF MD!EvidenceInv
<1>3. ASSUME NEW s \in X, v2[s] > 0, v2' = [v2 EXCEPT ![s] = @ - 1]
      PROVE  v2' \in [X -> 0 .. N] /\ MD!UnderWay' = MD!UnderWay - 1
  <2>1. PICK k : k = v2[s] - 1 /\ k \in 0 .. N
    BY <1>1, <1>3
  <2>2. v2' = [v2 EXCEPT ![s] = k]
    BY <1>1, <1>3, <2>1
  <2>3. v2' \in [X -> 0 .. N]
    BY <1>1, <2>1, <2>2
  <2> QED BY <1>1, <1>3, <2>3, UnderWayCounts
<1>4. CASE \E s \in X : MD!EvaluationFails(s)
  <2>1. PICK s \in X : MD!EvaluationFails(s)
    BY <1>4
  <2>2. v2' \in [X -> 0 .. N] /\ MD!UnderWay' = MD!UnderWay - 1 /\ UNCHANGED <<v1, v3, v4, v5, v6>>
    BY <1>3, <2>1 DEF MD!EvaluationFails
  <2>3. Len(v1') + MD!UnderWay' <= N
    BY <1>2, <2>2
  <2> QED BY <1>1, <2>2, <2>3, ChainGoesOn
<1>5. CASE \E s \in X, allows \in BOOLEAN : MD!ReportLands(s, allows)
  <2>1. PICK s \in X, allows \in BOOLEAN : MD!ReportLands(s, allows)
    BY <1>5
  <2>2. PICK r : r = [strategy |-> s, allows |-> allows]
    OBVIOUS
  <2>3. r \in [strategy : X, allows : BOOLEAN] /\ v1' = Append(v1, r)
    BY <2>1, <2>2 DEF MD!ReportLands
  <2>4. v2' \in [X -> 0 .. N] /\ MD!UnderWay' = MD!UnderWay - 1 /\ UNCHANGED <<v3, v4, v5, v6>>
    BY <1>3, <2>1 DEF MD!ReportLands
  <2>5. Len(v1') = Len(v1) + 1
    BY <1>1, <2>3, AppendProperties
  <2>6. Len(v1') + MD!UnderWay' <= N
    BY <1>2, <2>4, <2>5
  <2> QED BY <1>1, <2>3, <2>4, <2>6, ChainGoesOn
<1>6. CASE \E s \in X, x \in Z : MD!SwapMined(x, s)
  <2>1. PICK s \in X, x \in Z : MD!SwapMined(x, s)
    BY <1>6
  <2>2. PICK w : w = [strategy |-> s, ok |-> MD!Tradable(s)]
    OBVIOUS
  <2>3. v3[x] = None /\ v3' = [v3 EXCEPT ![x] = w] /\ UNCHANGED <<v1, v2, v4, v5, v6>>
    BY <2>1, <2>2 DEF MD!SwapMined
  <2>4. MD!Tradable(s) \in BOOLEAN
    <3>1. v1[MD!Seen(s, 0)].allows \in BOOLEAN \/ MD!Seen(s, 0) = 0
      <4>1. CASE MD!Seen(s, 0) # 0
        <5>1. MD!Seen(s, 0) \in 0 + 1 .. Len(v1)
          BY <1>1, <4>1, SeenIsReported
        <5>2. MD!Seen(s, 0) \in 1 .. Len(v1)
          BY <1>2, <5>1
        <5>3. v1[MD!Seen(s, 0)] \in [strategy : X, allows : BOOLEAN]
          BY <1>1, <5>2, ElementOfSeq
        <5> QED BY <5>3
      <4> QED BY <4>1
    <3> QED BY <3>1 DEF MD!Tradable
  <2>5. w \in MD!Mined
    BY <2>2, <2>4 DEF MD!Mined
  <2>6. v3' \in [Z -> MD!Mined \cup {None}] /\ \A y \in Z : v3[y] # None => v3'[y] = v3[y]
    BY <1>1, <2>3, <2>5
  <2>7. MD!UnderWay' = MD!UnderWay
    BY <2>3 DEF MD!UnderWay
  <2> QED BY <1>1, <1>2, <2>3, <2>6, <2>7, ChainGoesOn
<1> QED BY <1>4, <1>5, <1>6 DEF MD!Chain

\* Every step of the mandates keeps the invariant.
LEMMA EvidenceKeeps ==
  ASSUME N \in Nat, MD!NoneIsNoState, MD!EvidenceInv, [MD!Next]_(MD!vars)
  PROVE  MD!EvidenceInv'
<1>1. CASE UNCHANGED MD!vars
  <2>1. UNCHANGED <<v1, v2, v3, v4, v5, v6>>
    BY <1>1 DEF MD!vars
  <2> QED BY <2>1
       DEF MD!EvidenceInv, MD!CallInv, MD!Sound, MD!Reported, MD!Proven, MD!Alone, MD!Earlier, MD!UnderWay
<1>2. ASSUME NEW c \in Y, MD!Steps(c) PROVE MD!EvidenceInv'
  <2>1. CASE MD!Trigger(c)
    BY <2>1, TriggerKeeps
  <2>2. CASE MD!Observe(c)
    BY <2>2, AcceptedKeeps
  <2>3. CASE MD!Verify(c)
    BY <2>3, VerifyKeeps
  <2>4. CASE MD!ReadSwap(c)
    BY <2>4, ReadSwapKeeps
  <2>5. CASE MD!OpenTemp(c) \/ MD!WriteTemp(c)
    BY <2>5, FileSaveKeeps
  <2>6. CASE MD!TimeOut(c) \/ MD!Unavailable(c)
    BY <2>6, CallEndKeeps DEF MD!TimeOut, MD!Unavailable
  <2>7. CASE MD!Rename(c)
    BY <2>7, RenameKeeps
  <2> QED BY <1>2, <2>1, <2>2, <2>3, <2>4, <2>5, <2>6, <2>7 DEF MD!Steps
<1>3. CASE MD!Restart
  <2>1. /\ UNCHANGED <<v1, v2, v3, v4>> /\ v5' = [m \in Z |-> None]
        /\ DOMAIN v6' = Y /\ \A c \in Y : v6'[c] = MD!Idle
    BY <1>3 DEF MD!Restart
  <2>2. \A c \in Y : MD!CallInv(v6'[c])
    BY <2>1 DEF MD!CallInv
  <2>3. /\ DOMAIN v4' = Z /\ DOMAIN v5' = Z
        /\ \A m \in Z : \A f \in {v4'[m], v5'[m]} : MD!Readable(f) => MD!Sound(f)
    BY <2>1 DEF MD!EvidenceInv, MD!Readable
  <2> QED BY <2>1, <2>2, <2>3, FilesGoOn
<1> QED BY <1>1, <1>2, <1>3, RequestKeeps, ChainKeeps DEF MD!Next

\* At the start nothing is stored.
LEMMA EvidenceBegins ==
  ASSUME N \in Nat, MD!Init
  PROVE  MD!EvidenceInv
<1>1. v1 \in Seq([strategy : X, allows : BOOLEAN]) /\ Len(v1) = 0
  BY DEF MD!Init
<1>2. v2 \in [X -> 0 .. N] /\ v3 \in [Z -> MD!Mined \cup {None}]
  BY DEF MD!Init
<1>3. MD!UnderWay = 0
  <2>1. {e \in X \X (1 .. N) : e[2] <= v2[e[1]]} = {}
    BY DEF MD!Init
  <2> QED BY <2>1, MandateCounts, FS_EmptySet DEF MD!UnderWay
<1>4. \A c \in Y : MD!CallInv(v6[c])
  <2>1. ASSUME NEW c \in Y PROVE v6[c] = MD!Idle
    BY DEF MD!Init
  <2> QED BY <2>1 DEF MD!CallInv
<1>5. \A m \in Z : \A f \in {v4[m], v5[m]} : ~MD!Readable(f)
  BY DEF MD!Init, MD!Readable
<1> QED BY <1>1, <1>2, <1>3, <1>4, <1>5 DEF MD!EvidenceInv, MD!Init

\* The invariant implies the types and that what is stored is evidence.
LEMMA EvidenceHolds ==
  ASSUME N \in Nat, MD!NoneIsNoState, MD!EvidenceInv
  PROVE  MD!TypeOK /\ MD!StoredIsEvidence
<1>1. Len(v1) <= N /\ \A f : MD!Sound(f) => f.report \in 1 .. N
  BY ReportsFit
<1>2. \A i \in DOMAIN v1 : v1[i] \in [strategy : X, allows : BOOLEAN]
  <2>1. v1 \in Seq([strategy : X, allows : BOOLEAN])
    BY DEF MD!EvidenceInv
  <2> QED BY <2>1, LenProperties, ElementOfSeq
<1>3. \A f \in MD!States : f.report \in 0 .. N => MD!State(f)
  BY DEF MD!States, MD!State
<1>4. \A f : MD!Sound(f) => MD!State(f)
  <2> SUFFICES ASSUME NEW f, MD!Sound(f) PROVE MD!State(f)
    OBVIOUS
  <2>1. f \in MD!States /\ f.report \in 1 .. N
    BY <1>1 DEF MD!Sound
  <2>2. f.report \in 0 .. N
    BY <2>1
  <2> QED BY <1>3, <2>1, <2>2
<1>5. ASSUME NEW c \in Y PROVE v6[c].out = None \/ MD!State(v6[c].out)
  <2>1. PICK q : q = v6[c] /\ MD!CallInv(q)
    BY DEF MD!EvidenceInv
  <2>2. CASE q = MD!Idle
    BY <2>1, <2>2 DEF MD!Idle
  <2>3. CASE q \in MD!Held /\ MD!Sound(q.out)
    BY <1>4, <2>1, <2>3
  <2>4. CASE q \in MD!Held /\ q.out.report <= N
    <3>1. q.out \in MD!States /\ q.out.report \in Nat
      BY <2>4 DEF MD!Held, MD!States
    <3>2. q.out.report \in 0 .. N
      BY <2>4, <3>1
    <3> QED BY <1>3, <2>1, <3>1, <3>2
  <2>5. CASE q \in MD!Held /\ MD!Reported(q.out)
    <3>1. q.out \in MD!States /\ q.out.report \in DOMAIN v1
      BY <2>5 DEF MD!Held, MD!Reported
    <3>2. v1 \in Seq([strategy : X, allows : BOOLEAN])
      BY DEF MD!EvidenceInv
    <3>3. DOMAIN v1 = 1 .. Len(v1) /\ Len(v1) \in Nat
      BY <3>2, LenProperties
    <3>4. q.out.report \in 0 .. N
      BY <1>1, <3>1, <3>3
    <3> QED BY <1>3, <2>1, <3>1, <3>4
  <2> QED BY <2>1, <2>2, <2>3, <2>4, <2>5 DEF MD!CallInv
<1>6. MD!TypeOK
  <2>1. \A x \in Z : v3[x] = None \/ v3[x] \in [strategy : X, ok : BOOLEAN]
    BY DEF MD!EvidenceInv, MD!Mined
  <2>2. \A m \in Z : \A f \in {v4[m], v5[m]} : MD!Readable(f) => MD!State(f)
    BY <1>4 DEF MD!EvidenceInv
  <2> QED BY <1>1, <1>2, <1>5, <2>1, <2>2 DEF MD!TypeOK, MD!EvidenceInv
<1>7. ASSUME NEW f, MD!Sound(f) PROVE MD!OneActive(f)
  <2>1. PICK known \in SUBSET X : f.status \in [known -> MD!Statuses]
    BY <1>7 DEF MD!Sound, MD!States
  <2>2. PICK shown : shown = {s \in known : f.status[s] = "active"}
    OBVIOUS
  <2>3. \A s, t \in shown : s = t
    BY <1>7, <2>1, <2>2 DEF MD!Sound, MD!Alone, MD!Listed
  <2>4. Cardinality(shown) <= 1
    <3>1. CASE shown = {}
      BY <3>1, FS_EmptySet
    <3>2. CASE shown # {}
      <4>1. PICK s : shown = {s}
        BY <2>3, <3>2
      <4>2. Cardinality({s}) = 1
        BY FS_Singleton
      <4> QED BY <4>1, <4>2
    <3> QED BY <3>1, <3>2
  <2> QED BY <2>1, <2>2, <2>4, MandateCounts DEF MD!OneActive, MD!Listed
<1>8. ASSUME NEW m \in Z, MD!Readable(v4[m])
      PROVE  /\ v4[m].report \in DOMAIN v1
             /\ v1[v4[m].report].strategy = v4[m].evaluated
             /\ v4[m].status[v4[m].evaluated] = (IF v1[v4[m].report].allows THEN "active" ELSE "paused")
             /\ MD!Backed(v4[m])
  <2>1. PICK f : f = v4[m] /\ MD!Sound(f)
    BY <1>8 DEF MD!EvidenceInv
  <2>2. MD!Backed(f)
    BY <1>7, <2>1 DEF MD!Backed, MD!Sound, MD!Proven
  <2> QED BY <2>1, <2>2 DEF MD!Sound, MD!Reported
<1> QED BY <1>6, <1>8 DEF MD!StoredIsEvidence

-----------------------------------------------------------------------------
(* The monitor's sessions (MO): v1 the live strategy, v2 the transactions,  *)
(* v3 the published plan, v4 the sessions, v5 whether a move was lost.      *)

MO == INSTANCE MonitorSession WITH
     Followers <- Z, Writer <- z2, MaxMoves <- N, Root <- z3, Others <- Y,
     live <- v1, mined <- v2, file <- v3, session <- v4, lost <- v5

\* Counting in the module of the monitor is counting.
LEMMA MonitorCounts ==
  \A S : MO!Cardinality(S) = Cardinality(S) /\ MO!IsFiniteSet(S) = IsFiniteSet(S)
BY DEF Cardinality, MO!Cardinality, IsFiniteSet, MO!IsFiniteSet

\* Where a plan ends, after some of its entries and after one more.
LEMMA EntriesEnd ==
  ASSUME NEW steps \in Seq(MO!Steps)
  PROVE  /\ MO!End(steps) \in MO!Known
         /\ \A i \in 0 .. Len(steps) :
              MO!End(SubSeq(steps, 1, i)) = IF i = 0 THEN z3 ELSE steps[i].to
         /\ \A x \in MO!Steps : MO!End(Append(steps, x)) = x.to
<1>1. MO!End(steps) \in MO!Known
  <2>1. CASE steps = <<>>
    BY <2>1 DEF MO!End, MO!Known
  <2>2. CASE steps # <<>>
    <3>1. Len(steps) \in 1 .. Len(steps)
      BY <2>2, EmptySeq, LenProperties
    <3>2. steps[Len(steps)] \in MO!Steps
      BY <3>1, ElementOfSeq
    <3> QED BY <2>2, <3>2 DEF MO!End, MO!Last, MO!Steps
  <2> QED BY <2>1, <2>2
<1>2. ASSUME NEW i \in 0 .. Len(steps)
      PROVE  MO!End(SubSeq(steps, 1, i)) = IF i = 0 THEN z3 ELSE steps[i].to
  <2>1. CASE i = 0
    <3>1. SubSeq(steps, 1, i) = <<>>
      BY <2>1, SubSeqEmpty
    <3> QED BY <2>1, <3>1 DEF MO!End
  <2>2. CASE i # 0
    <3> DEFINE t == SubSeq(steps, 1, i)
    <3>1. \A k \in 1 .. i : steps[k] \in MO!Steps
      BY ElementOfSeq, LenProperties
    <3>2. i \in 1 .. i /\ i - 1 + 1 = i
      BY <2>2, LenProperties
    <3>3. Len(t) = i /\ \A k \in 1 .. i : t[k] = steps[1 + k - 1]
      <4>1. /\ Len(t) = (IF 1 <= i THEN i - 1 + 1 ELSE 0)
            /\ \A k \in 1 .. (i - 1 + 1) : t[k] = steps[1 + k - 1]
        BY <3>1, LenProperties, SubSeqProperties
      <4> QED BY <3>2, <4>1
    <3>4. t[i] = steps[i]
      BY <3>2, <3>3
    <3>5. t # <<>>
      BY <2>2, <3>3, EmptySeq
    <3> QED BY <2>2, <3>3, <3>4, <3>5 DEF MO!End, MO!Last
  <2> QED BY <2>1, <2>2
<1>3. ASSUME NEW x \in MO!Steps PROVE MO!End(Append(steps, x)) = x.to
  BY AppendProperties DEF MO!End, MO!Last
<1> QED BY <1>1, <1>2, <1>3

\* A proven plan names transactions in the order they were mined: it is no longer than
\* they are many.
LEMMA ChainIsShort ==
  ASSUME N \in Nat, MO!TransactionsAreNumbered, MO!MovesAreAChain,
         NEW steps \in Seq(MO!Steps), MO!IsChain(steps)
  PROVE  Len(steps) <= N
<1>1. PICK n : n = Len(steps) /\ n \in Nat
  BY LenProperties
<1>2. Cardinality(v2) \in Nat /\ Cardinality(v2) <= N
  BY MonitorCounts, FS_CardinalityType DEF MO!TransactionsAreNumbered
<1>3. \A i \in 1 .. n : steps[i].tx \in 1 .. Cardinality(v2)
  <2> SUFFICES ASSUME NEW i \in 1 .. n PROVE steps[i].tx \in 1 .. Cardinality(v2)
    OBVIOUS
  <2>1. PICK t \in v2 : t.id = steps[i].tx
    BY <1>1 DEF MO!IsChain
  <2> QED BY <1>2, <2>1, MonitorCounts DEF MO!TransactionsAreNumbered
<1>4. \A i \in 1 .. n : i # 1 => steps[i - 1].tx < steps[i].tx
  <2> SUFFICES ASSUME NEW i \in 1 .. n, i # 1 PROVE steps[i - 1].tx < steps[i].tx
    OBVIOUS
  <2>1. PICK t \in v2 : t.maker /\ t.id = steps[i].tx /\ t.from = steps[i - 1].to
    BY <1>1 DEF MO!IsChain
  <2>2. i - 1 \in 1 .. n
    BY <1>1
  <2>3. PICK u \in v2 : u.maker /\ u.id = steps[i - 1].tx /\ u.to = steps[i - 1].to
    BY <1>1, <2>2 DEF MO!IsChain
  <2>4. t \in MO!Moves /\ u \in MO!Moves
    BY <2>1, <2>3 DEF MO!Moves
  <2>5. PICK w \in MO!Moves : w.to = t.from /\ w.id < t.id
    BY <2>1, <2>3, <2>4 DEF MO!MovesAreAChain
  <2>6. w = u
    BY <2>1, <2>3, <2>4, <2>5 DEF MO!MovesAreAChain
  <2> QED BY <2>1, <2>3, <2>5, <2>6
<1>5. \A i \in 1 .. n : i <= steps[i].tx
  <2> DEFINE Less == {i \in 1 .. n : steps[i].tx < i}
  <2>1. ASSUME Less # {} PROVE FALSE
    <3>1. Less \in SUBSET Nat
      BY <1>1
    <3>2. PICK i \in Less : \A k \in Less : i <= k
      BY <2>1, <3>1, Smallest
    <3>3. i # 1
      BY <1>1, <1>2, <1>3, <3>2
    <3>4. i - 1 \in 1 .. n
      BY <1>1, <3>2, <3>3
    <3>5. steps[i - 1].tx \in Nat /\ steps[i].tx \in Nat
      BY <1>2, <1>3, <3>2, <3>4
    <3>6. steps[i - 1].tx < steps[i].tx
      BY <1>4, <3>2, <3>3
    <3>7. i - 1 \in Less
      BY <3>2, <3>4, <3>5, <3>6
    <3> QED BY <3>2, <3>4, <3>7
  <2> QED BY <1>1, <1>2, <1>3, <2>1
<1>6. CASE n = 0
  BY <1>1, <1>6
<1>7. CASE n # 0
  <2>1. n \in 1 .. n
    BY <1>1, <1>7
  <2> QED BY <1>1, <1>2, <1>3, <1>5, <2>1
<1> QED BY <1>6, <1>7

\* Transactions are only added.
LEMMA ChainStays ==
  ASSUME NEW steps, v2 \subseteq v2', MO!IsChain(steps)
  PROVE  MO!IsChain(steps)'
BY DEF MO!IsChain

\* A step of one session, on the plan the file holds and the transactions there are.
LEMMA OneSessionChanges ==
  ASSUME MO!SessionInv, NEW s \in MO!Sessions, NEW r \in MO!Rows, v4' = [v4 EXCEPT ![s] = r],
         v5' \in BOOLEAN, v5 => v5',
         UNCHANGED <<v1, v2, v3>>,
         r.active = MO!End(r.plan.steps), MO!IsChain(r.plan.steps),
         r.at = "docked" => v1 = None,
         (~v5' /\ s = z2) => /\ r.at # "moved" /\ v4[s].at # "moved"
                             /\ MO!Reaches(r.pending.steps)
  PROVE  MO!SessionInv'
<1>1. v4' \in [MO!Sessions -> MO!Rows] /\ v4'[s] = r
  BY DEF MO!SessionInv
<1>2. \A u \in MO!Sessions : u # s => v4'[u] = v4[u]
  BY DEF MO!SessionInv
<1>3. MO!TransactionsAreNumbered' /\ MO!MovesAreAChain'
  BY DEF MO!SessionInv, MO!TransactionsAreNumbered, MO!MovesAreAChain, MO!Moves, MO!Shipped
<1>4. MO!FollowsTheMaker'
  <2> SUFFICES ASSUME NEW u \in MO!Sessions
               PROVE  /\ v4'[u].active = MO!End(v4'[u].plan.steps)
                      /\ \A i \in 1 .. Len(v4'[u].plan.steps) : \E t \in v2' :
                           /\ t.maker /\ t.id = v4'[u].plan.steps[i].tx
                           /\ t.to = v4'[u].plan.steps[i].to
                           /\ t.from = IF i = 1 THEN z3 ELSE v4'[u].plan.steps[i - 1].to
    BY DEF MO!FollowsTheMaker, MO!IsChain
  <2>1. PICK q : q = v4'[u]
    OBVIOUS
  <2>2. q.active = MO!End(q.plan.steps) /\ MO!IsChain(q.plan.steps)
    BY <1>1, <1>2, <2>1 DEF MO!SessionInv, MO!FollowsTheMaker
  <2> QED BY <2>1, <2>2 DEF MO!IsChain
<1>5. z2 \in MO!Sessions
  BY DEF MO!Sessions
<1>6. MO!LiveIsReached'
  <2>1. PICK q : q = v4'[z2]
    OBVIOUS
  <2>2. CASE s = z2
    BY <1>1, <2>1, <2>2 DEF MO!SessionInv, MO!LiveIsReached, MO!Reaches, MO!At
  <2>3. CASE s # z2
    BY <1>2, <1>5, <2>1, <2>3 DEF MO!SessionInv, MO!LiveIsReached, MO!Reaches, MO!At
  <2> QED BY <2>2, <2>3
<1>7. (\A u \in MO!Sessions : MO!At(u, "docked") => v1 = None)'
  BY <1>1, <1>2 DEF MO!SessionInv, MO!At
<1> QED BY <1>1, <1>3, <1>4, <1>6, <1>7 DEF MO!SessionInv

\* A check that ends without a transaction.
LEMMA TurnsKeep ==
  ASSUME MO!SessionInv, NEW s \in MO!Sessions, MO!At(s, "checked"),
         NEW at \in {"idle", "stopped", "failed"}, MO!Turns(s, at), UNCHANGED <<v1, v2, v3, v5>>
  PROVE  MO!SessionInv'
<1> DEFINE r == [v4[s] EXCEPT !.at = at]
<1>1. v4[s] \in MO!Rows
  BY DEF MO!SessionInv
<1>2. r \in MO!Rows /\ r.plan = v4[s].plan /\ r.pending = v4[s].pending /\ r.at = at
      /\ r.active = v4[s].active
  BY <1>1 DEF MO!Rows
<1>3. v4' = [v4 EXCEPT ![s] = r]
  BY <1>1 DEF MO!Turns, MO!SessionInv
<1>4. r.active = MO!End(r.plan.steps) /\ MO!IsChain(r.plan.steps)
  BY <1>2 DEF MO!SessionInv, MO!FollowsTheMaker
<1>5. ~v5 /\ s = z2 => MO!Reaches(r.pending.steps)
  BY <1>2 DEF MO!At, MO!SessionInv, MO!LiveIsReached
<1> HIDE DEF r
<1>6. v5 \in BOOLEAN /\ v4[s].at # "moved"
  BY DEF MO!At, MO!SessionInv
<1> QED BY <1>2, <1>3, <1>4, <1>5, <1>6, OneSessionChanges

\* A session takes over the plan of the file.
LEMMA SynchronizeKeeps ==
  ASSUME MO!SessionInv, NEW s \in MO!Sessions, MO!Synchronize(s)
  PROVE  MO!SessionInv'
<1> USE DEF MO!Synchronize
<1>1. v4[s] \in MO!Rows /\ v4[s].at = "idle" /\ v5 \in BOOLEAN
  BY DEF MO!SessionInv, MO!At
<1>2. MO!Latest(s) \in MO!Plans
  BY <1>1 DEF MO!Latest, MO!SessionInv, MO!Rows
<1>3. PICK new : new = MO!Latest(s).steps
  OBVIOUS
<1>4. PICK old : old = v4[s].plan.steps
  OBVIOUS
<1>5. new \in Seq(MO!Steps) /\ old \in Seq(MO!Steps)
  BY <1>1, <1>2, <1>3, <1>4 DEF MO!Plans, MO!Rows
<1>6. MO!End(new) \in MO!Known
  BY <1>5, EntriesEnd
<1>7. ~v5 /\ s = z2 => MO!Reaches(v4[s].pending.steps)
  BY <1>1 DEF MO!At, MO!SessionInv, MO!LiveIsReached
<1>8. v4[s].active = MO!End(old) /\ MO!IsChain(old)
  BY <1>4 DEF MO!SessionInv, MO!FollowsTheMaker
<1>9. CASE MO!Accepted(s)
  <2> DEFINE r == [v4[s] EXCEPT !.plan = MO!Latest(s), !.active = MO!End(new), !.at = "checked"]
  <2>1. /\ r \in MO!Rows /\ r.plan = MO!Latest(s) /\ r.plan.steps = new /\ r.active = MO!End(new)
        /\ r.at = "checked" /\ r.pending = v4[s].pending
    BY <1>1, <1>2, <1>3, <1>6 DEF MO!Rows
  <2>2. v4' = [v4 EXCEPT ![s] = r]
    BY <1>3, <1>9 DEF MO!SessionInv
  <2>3. PICK m, n : m = Len(old) /\ n = Len(new) /\ m \in Nat /\ n \in Nat
    BY <1>5, LenProperties
  <2>4. m <= n /\ \A i \in 1 .. m : new[i] = old[i]
    <3>1. m <= n /\ SubSeq(old, 1, m) = SubSeq(new, 1, m)
      BY <1>3, <1>4, <1>9, <2>3 DEF MO!Accepted, MO!IsPrefix
    <3>2. ASSUME NEW i \in 1 .. m PROVE new[i] = old[i]
      <4>1. \A k \in 1 .. m : old[k] \in MO!Steps
        BY <1>5, <2>3, ElementOfSeq
      <4>2. \A k \in 1 .. m : new[k] \in MO!Steps
        BY <1>5, <2>3, <3>1, ElementOfSeq
      <4>3. i \in 1 .. (m - 1 + 1) /\ 1 + i - 1 = i
        BY <2>3
      <4>4. SubSeq(old, 1, m)[i] = old[i]
        BY <2>3, <4>1, <4>3, SubSeqProperties
      <4>5. SubSeq(new, 1, m)[i] = new[i]
        BY <2>3, <4>2, <4>3, SubSeqProperties
      <4> QED BY <3>1, <4>4, <4>5
    <3> QED BY <3>1, <3>2
  <2>5. MO!IsChain(new)
    <3> SUFFICES ASSUME NEW i \in 1 .. n
                 PROVE  \E t \in v2 : /\ t.maker /\ t.id = new[i].tx /\ t.to = new[i].to
                                      /\ t.from = IF i = 1 THEN z3 ELSE new[i - 1].to
      BY <2>3 DEF MO!IsChain
    <3>1. CASE i <= m
      <4>1. i \in 1 .. m /\ (i # 1 => i - 1 \in 1 .. m)
        BY <2>3, <3>1
      <4>2. \E t \in v2 : /\ t.maker /\ t.id = old[i].tx /\ t.to = old[i].to
                          /\ t.from = IF i = 1 THEN z3 ELSE old[i - 1].to
        BY <1>8, <2>3, <4>1 DEF MO!IsChain
      <4> QED BY <2>4, <4>1, <4>2
    <3>2. CASE ~(i <= m)
      <4>1. i \in m + 1 .. n /\ i - 1 \in 0 .. n
        BY <2>3, <3>2
      <4>2. MO!IsProven(new, i)
        BY <1>3, <1>4, <1>9, <2>3, <4>1 DEF MO!Accepted
      <4>3. PICK t \in v2 : /\ t.id = new[i].tx /\ t.maker
                            /\ t.from = MO!End(SubSeq(new, 1, i - 1)) /\ t.to = new[i].to
        BY <4>2 DEF MO!IsProven
      <4>4. MO!End(SubSeq(new, 1, i - 1)) = IF i - 1 = 0 THEN z3 ELSE new[i - 1].to
        BY <1>5, <2>3, <4>1, EntriesEnd
      <4>5. (i - 1 = 0) = (i = 1)
        BY <2>3
      <4> QED BY <4>3, <4>4, <4>5
    <3> QED BY <3>1, <3>2
  <2> HIDE DEF r
  <2> QED BY <1>1, <1>7, <2>1, <2>2, <2>5, OneSessionChanges
<1>10. CASE ~MO!Accepted(s)
  <2> DEFINE r == [v4[s] EXCEPT !.at = "failed"]
  <2>1. /\ r \in MO!Rows /\ r.plan = v4[s].plan /\ r.active = v4[s].active
        /\ r.at = "failed" /\ r.pending = v4[s].pending
    BY <1>1 DEF MO!Rows
  <2>2. v4' = [v4 EXCEPT ![s] = r]
    BY <1>10 DEF MO!SessionInv
  <2>3. r.active = MO!End(r.plan.steps) /\ MO!IsChain(r.plan.steps)
    BY <1>4, <1>8, <2>1
  <2>4. ~v5 /\ s = z2 => MO!Reaches(r.pending.steps)
    BY <1>7, <2>1
  <2>5. UNCHANGED <<v1, v2, v3, v5>>
    OBVIOUS
  <2> HIDE DEF r, MO!Synchronize
  <2> QED BY <1>1, <2>1, <2>2, <2>3, <2>4, <2>5, OneSessionChanges
<1> QED BY <1>9, <1>10

\* A check that finds the strategy live and within its limit changes nothing.
LEMMA WithinKeeps ==
  ASSUME MO!SessionInv, NEW s \in MO!Sessions, MO!Within(s)
  PROVE  MO!SessionInv'
BY TurnsKeep DEF MO!Within

\* A check that finds the strategy docked already leaves the plan alone.
LEMMA AlreadyDockedKeeps ==
  ASSUME MO!SessionInv, NEW s \in MO!Sessions, MO!AlreadyDocked(s)
  PROVE  MO!SessionInv'
BY TurnsKeep DEF MO!AlreadyDocked

\* Once nothing is live, no plan is behind.
LEMMA BreachDockKeeps ==
  ASSUME MO!SessionInv, MO!NoneIsNoStrategy, NEW s \in MO!Sessions, MO!Dock(s)
  PROVE  MO!SessionInv'
<1>1. CASE v1 = v4[s].active
  <2>1. v1' = None /\ MO!Turns(s, "docked") /\ UNCHANGED <<v2, v3, v5>>
    BY <1>1 DEF MO!Dock
  <2>2. v4 \in [MO!Sessions -> MO!Rows] /\ v4[s] \in MO!Rows
    BY DEF MO!SessionInv
  <2>3. v4' \in [MO!Sessions -> MO!Rows]
    BY <2>1, <2>2 DEF MO!Turns, MO!Rows
  <2>4. \A u \in MO!Sessions : v4'[u].plan = v4[u].plan /\ v4'[u].active = v4[u].active
    BY <2>1, <2>2 DEF MO!Turns, MO!Rows
  <2>5. MO!TransactionsAreNumbered'
    BY <2>1 DEF MO!SessionInv, MO!TransactionsAreNumbered
  <2>6. MO!MovesAreAChain'
    <3>1. \A t \in MO!Moves : t.from \in MO!Known
      BY DEF MO!SessionInv, MO!TransactionsAreNumbered, MO!Moves
    <3> QED BY <2>1, <3>1 DEF MO!SessionInv, MO!MovesAreAChain, MO!Moves, MO!NoneIsNoStrategy
  <2>7. MO!FollowsTheMaker'
    BY <2>1, <2>4 DEF MO!SessionInv, MO!FollowsTheMaker, MO!IsChain
  <2>8. MO!LiveIsReached'
    BY <2>1 DEF MO!LiveIsReached, MO!Reaches
  <2> QED BY <2>1, <2>3, <2>5, <2>6, <2>7, <2>8 DEF MO!SessionInv
<1>2. CASE v1 # v4[s].active
  BY <1>2, TurnsKeep DEF MO!Dock
<1> QED BY <1>1, <1>2

\* The published plan changes; the sessions follow it later.
LEMMA FileChanges ==
  ASSUME MO!SessionInv, v3' \in MO!Plans, UNCHANGED <<v1, v2, v4, v5>>,
         \/ v1 = None
         \/ v4[z2].at # "moved" /\ (MO!Reaches(v3.steps) => MO!Reaches(v3'.steps))
  PROVE  MO!SessionInv'
<1>1. MO!TransactionsAreNumbered' /\ MO!MovesAreAChain'
  BY DEF MO!SessionInv, MO!TransactionsAreNumbered, MO!MovesAreAChain, MO!Moves, MO!Shipped
<1>2. MO!FollowsTheMaker'
  BY DEF MO!SessionInv, MO!FollowsTheMaker, MO!IsChain
<1>3. MO!LiveIsReached'
  BY DEF MO!SessionInv, MO!LiveIsReached, MO!Reaches, MO!At
<1> QED BY <1>1, <1>2, <1>3 DEF MO!SessionInv, MO!At

\* A session that ends writes its plan as finished.
LEMMA FinishKeeps ==
  ASSUME MO!SessionInv, NEW s \in MO!Sessions, MO!Finish(s)
  PROVE  MO!SessionInv'
<1> DEFINE plan == [v4[s].plan EXCEPT !.finished = TRUE]
           r == [v4[s] EXCEPT !.plan = plan, !.pending = MO!IfWriter(s, plan), !.at = "stopped"]
<1>1. v4[s] \in MO!Rows /\ v4[s].at = "docked" /\ v1 = None /\ v5 \in BOOLEAN
  BY DEF MO!SessionInv, MO!Finish, MO!At
<1>2. plan \in MO!Plans /\ plan.steps = v4[s].plan.steps
  BY <1>1 DEF MO!Rows, MO!Plans
<1>3. MO!IfWriter(s, plan) \in MO!Plans
  BY <1>2, EmptySeq DEF MO!IfWriter, MO!Plan, MO!Plans
<1>4. r \in MO!Rows /\ r.plan = plan /\ r.active = v4[s].active /\ r.at = "stopped"
  BY <1>1, <1>2, <1>3 DEF MO!Rows
<1>5. v4' = [v4 EXCEPT ![s] = r] /\ v3' = plan /\ UNCHANGED <<v1, v2, v5>>
  BY DEF MO!Finish, MO!SessionInv
<1>6. r.active = MO!End(r.plan.steps) /\ MO!IsChain(r.plan.steps)
  BY <1>2, <1>4 DEF MO!SessionInv, MO!FollowsTheMaker
<1> HIDE DEF r, plan
<1>7. v4' \in [MO!Sessions -> MO!Rows] /\ v4'[s] = r
      /\ \A u \in MO!Sessions : u # s => v4'[u] = v4[u]
  BY <1>4, <1>5 DEF MO!SessionInv
<1>8. MO!TransactionsAreNumbered' /\ MO!MovesAreAChain'
  BY <1>5 DEF MO!SessionInv, MO!TransactionsAreNumbered, MO!MovesAreAChain, MO!Moves, MO!Shipped
<1>9. MO!FollowsTheMaker'
  <2> SUFFICES ASSUME NEW u \in MO!Sessions
               PROVE  /\ v4'[u].active = MO!End(v4'[u].plan.steps)
                      /\ \A i \in 1 .. Len(v4'[u].plan.steps) : \E t \in v2' :
                           /\ t.maker /\ t.id = v4'[u].plan.steps[i].tx
                           /\ t.to = v4'[u].plan.steps[i].to
                           /\ t.from = IF i = 1 THEN z3 ELSE v4'[u].plan.steps[i - 1].to
    BY DEF MO!FollowsTheMaker, MO!IsChain
  <2>1. PICK q : q = v4'[u]
    OBVIOUS
  <2>2. q.active = MO!End(q.plan.steps) /\ MO!IsChain(q.plan.steps)
    BY <1>6, <1>7, <2>1 DEF MO!SessionInv, MO!FollowsTheMaker
  <2>3. PICK st : st = v4'[u].plan.steps
    OBVIOUS
  <2>4. v4'[u].active = MO!End(st) /\ MO!IsChain(st)
    BY <2>1, <2>2, <2>3
  <2>5. \A i \in 1 .. Len(st) : \E t \in v2 :
          /\ t.maker /\ t.id = st[i].tx /\ t.to = st[i].to
          /\ t.from = IF i = 1 THEN z3 ELSE st[i - 1].to
    BY <2>4 DEF MO!IsChain
  <2>6. v2' = v2
    BY <1>5
  <2> QED BY <2>3, <2>4, <2>5, <2>6
<1>10. MO!LiveIsReached'
  BY <1>1, <1>5 DEF MO!LiveIsReached, MO!Reaches
<1> QED BY <1>1, <1>2, <1>5, <1>7, <1>8, <1>9, <1>10 DEF MO!SessionInv, MO!At

\* The writer of the plan publishes it.
LEMMA PlanPublishKeeps ==
  ASSUME MO!SessionInv, MO!Publish
  PROVE  MO!SessionInv'
<1> DEFINE plan == v4[z2].plan
           r == [v4[z2] EXCEPT !.pending = plan, !.at = "idle"]
<1>1. z2 \in MO!Sessions /\ v4[z2] \in MO!Rows /\ v4[z2].at = "moved" /\ v5 \in BOOLEAN
  BY DEF MO!SessionInv, MO!Publish, MO!At, MO!Sessions
<1>2. plan \in MO!Plans /\ plan.steps \in Seq(MO!Steps)
  BY <1>1 DEF MO!Rows, MO!Plans
<1>3. /\ r \in MO!Rows /\ r.plan = plan /\ r.active = v4[z2].active /\ r.at = "idle"
      /\ r.pending = plan
  BY <1>1, <1>2 DEF MO!Rows
<1>4. v4' = [v4 EXCEPT ![z2] = r] /\ v3' = plan /\ UNCHANGED <<v1, v2, v5>>
  BY DEF MO!Publish, MO!SessionInv
<1>5. v4[z2].active = MO!End(plan.steps) /\ MO!IsChain(plan.steps)
  BY <1>1 DEF MO!SessionInv, MO!FollowsTheMaker
<1> HIDE DEF r
<1>6. v4' \in [MO!Sessions -> MO!Rows] /\ v4'[z2] = r
      /\ \A u \in MO!Sessions : u # z2 => v4'[u] = v4[u]
  BY <1>1, <1>3, <1>4 DEF MO!SessionInv
<1>7. MO!TransactionsAreNumbered' /\ MO!MovesAreAChain'
  BY <1>4 DEF MO!SessionInv, MO!TransactionsAreNumbered, MO!MovesAreAChain, MO!Moves, MO!Shipped
<1>8. MO!FollowsTheMaker'
  BY <1>3, <1>4, <1>5, <1>6 DEF MO!SessionInv, MO!FollowsTheMaker, MO!IsChain
<1>9. ~v5 => MO!Reaches(plan.steps)
  <2> SUFFICES ASSUME ~v5, v1 # None PROVE MO!Reaches(plan.steps)
    BY DEF MO!Reaches
  <2>1. v1 = MO!End(plan.steps)
    BY <1>1, <1>5 DEF MO!SessionInv, MO!LiveIsReached, MO!At
  <2>2. PICK n : n = Len(plan.steps) /\ n \in Nat
    BY <1>2, LenProperties
  <2>3. MO!End(SubSeq(plan.steps, 1, n)) = v1
    BY <1>2, <2>1, <2>2, SubSeqFull
  <2>4. n \in 0 .. Len(plan.steps)
    BY <2>2
  <2> QED BY <2>3, <2>4 DEF MO!Reaches
<1>10. MO!LiveIsReached'
  BY <1>3, <1>4, <1>6, <1>9 DEF MO!LiveIsReached, MO!Reaches, MO!At
<1>11. (\A u \in MO!Sessions : MO!At(u, "docked") => v1 = None)'
  BY <1>3, <1>4, <1>6 DEF MO!SessionInv, MO!At
<1> QED BY <1>2, <1>4, <1>6, <1>7, <1>8, <1>10, <1>11 DEF MO!SessionInv

\* The landed transaction goes from what was live to what was never shipped.
LEMMA RebalanceKeeps ==
  ASSUME N \in Nat, MO!NoneIsNoStrategy, MO!SessionInv, NEW to \in MO!Known, MO!Rebalance(to)
  PROVE  MO!SessionInv'
<1>1. CASE v1 = v4[z2].active /\ to \notin MO!Shipped
  <2>1. PICK c : c = Cardinality(v2)
    OBVIOUS
  <2> DEFINE w == v4[z2]
             t == [id |-> c + 1, from |-> w.active, to |-> to, maker |-> TRUE]
             step == [to |-> to, tx |-> c + 1]
             plan == [w.plan EXCEPT !.steps = Append(@, step)]
             r == [w EXCEPT !.active = to, !.at = "moved", !.plan = plan]
  <2>2. c \in Nat /\ c < N /\ IsFiniteSet(v2)
    BY <2>1, MonitorCounts, FS_CardinalityType
    DEF MO!Rebalance, MO!SessionInv, MO!TransactionsAreNumbered
  <2>3. z2 \in MO!Sessions /\ w \in MO!Rows /\ w.at = "checked" /\ w.active \in MO!Known
    BY DEF MO!SessionInv, MO!Rebalance, MO!At, MO!Sessions, MO!Rows
  <2>4. w.plan \in MO!Plans /\ w.plan.steps \in Seq(MO!Steps)
    BY <2>3 DEF MO!Rows, MO!Plans
  <2>5. step \in MO!Steps
    BY <2>2 DEF MO!Steps
  <2>6. PICK old : old = w.plan.steps
    OBVIOUS
  <2>7. PICK new : new = Append(old, step)
    OBVIOUS
  <2>8. old \in Seq(MO!Steps) /\ new \in Seq(MO!Steps)
    BY <2>4, <2>5, <2>6, <2>7, AppendProperties
  <2>9. plan \in MO!Plans /\ plan.steps = new
    BY <2>4, <2>6, <2>7, <2>8 DEF MO!Plans
  <2>10. r \in MO!Rows /\ r.plan = plan /\ r.active = to /\ r.at = "moved" /\ r.pending = w.pending
    BY <2>3, <2>9 DEF MO!Rows
  <2>11. v4' = [v4 EXCEPT ![z2] = r] /\ v2' = v2 \union {t} /\ v1' = to /\ UNCHANGED <<v3, v5>>
    <3>1. v1' = to /\ UNCHANGED <<v3, v5>>
      BY <1>1 DEF MO!Rebalance
    <3>2. v2' = v2 \union {t}
      BY <1>1, <2>1, MonitorCounts DEF MO!Rebalance
    <3>3. v4' = [v4 EXCEPT ![z2].active = to, ![z2].at = "moved",
                   ![z2].plan.steps = Append(@, step)]
      BY <1>1, <2>1, MonitorCounts DEF MO!Rebalance
    <3>4. v4' = [v4 EXCEPT ![z2] = r]
      BY <2>3, <3>3 DEF MO!SessionInv
    <3> QED BY <3>1, <3>2, <3>4
  <2>12. w.active = MO!End(old) /\ MO!IsChain(old)
    BY <2>3, <2>6 DEF MO!SessionInv, MO!FollowsTheMaker
  <2>13. /\ t \in [id : Nat, from : MO!Known, to : MO!Known, maker : BOOLEAN]
         /\ t.id = c + 1 /\ t.from = v1 /\ t.to = to /\ t.maker
    BY <1>1, <2>2, <2>3
  <2>14. v4' \in [MO!Sessions -> MO!Rows] /\ v4'[z2] = r
         /\ \A u \in MO!Sessions : u # z2 => v4'[u] = v4[u]
    BY <2>3, <2>10, <2>11 DEF MO!SessionInv
  <2>15. \A u \in v2 : u.id \in Nat /\ 1 <= u.id /\ u.id <= c
    BY <2>1, MonitorCounts DEF MO!SessionInv, MO!TransactionsAreNumbered
  <2> HIDE DEF r, t, plan
  <2>16. MO!TransactionsAreNumbered'
    <3>1. t \notin v2
      BY <2>2, <2>13, <2>15
    <3>2. IsFiniteSet(v2') /\ Cardinality(v2') = c + 1
      BY <2>1, <2>2, <2>11, <3>1, FS_AddElement
    <3>3. v2' \subseteq [id : Nat, from : MO!Known, to : MO!Known, maker : BOOLEAN]
      BY <2>11, <2>13 DEF MO!SessionInv, MO!TransactionsAreNumbered
    <3>4. \A u \in v2' : 1 <= u.id /\ u.id <= c + 1
      BY <2>2, <2>11, <2>13, <2>15
    <3>5. \A u, v \in v2' : u.id = v.id => u = v
      BY <2>2, <2>11, <2>13, <2>15 DEF MO!SessionInv, MO!TransactionsAreNumbered
    <3> QED BY <2>2, <3>2, <3>3, <3>4, <3>5, MonitorCounts DEF MO!TransactionsAreNumbered
  <2>17. MO!MovesAreAChain'
    <3>1. MO!Moves' = MO!Moves \union {t}
      BY <2>11, <2>13 DEF MO!Moves
    <3>2. v1 \in MO!Known /\ v1 \in MO!Shipped /\ v1 # to
      BY <1>1, <2>3 DEF MO!SessionInv, MO!MovesAreAChain, MO!NoneIsNoStrategy
    <3>3. \A u \in MO!Moves : u.to # to /\ u.to # z3 /\ u.from # v1 /\ to # z3
      BY <1>1 DEF MO!SessionInv, MO!MovesAreAChain, MO!Shipped
    <3>4. \A u \in MO!Moves : u.from # to
      BY <1>1, <3>3 DEF MO!SessionInv, MO!MovesAreAChain, MO!Shipped
    <3>5. v1 # z3 => \E u \in MO!Moves : u.to = v1 /\ u.id < t.id
      <4> SUFFICES ASSUME v1 # z3 PROVE \E u \in MO!Moves : u.to = v1 /\ u.id < t.id
        OBVIOUS
      <4>1. PICK u \in MO!Moves : u.to = v1
        BY <3>2 DEF MO!Shipped
      <4>2. u.id \in Nat /\ u.id <= c
        BY <2>15 DEF MO!Moves
      <4> QED BY <2>2, <2>13, <4>1, <4>2
    <3>6. to # z3
      BY <1>1 DEF MO!Shipped
    <3>7. to \in MO!Shipped'
      BY <2>13, <3>1 DEF MO!Shipped
    <3>8. \A u \in MO!Moves' : /\ u.to # z3 /\ u.from # to
                               /\ u.from # z3 => \E w1 \in MO!Moves' : w1.to = u.from /\ w1.id < u.id
      BY <2>13, <3>1, <3>2, <3>3, <3>4, <3>5, <3>6 DEF MO!SessionInv, MO!MovesAreAChain
    <3>9. \A u, v \in MO!Moves' : u.to = v.to => u = v
      BY <2>13, <3>1, <3>3 DEF MO!SessionInv, MO!MovesAreAChain
    <3> QED BY <2>11, <3>7, <3>8, <3>9 DEF MO!MovesAreAChain
  <2>18. \A i \in 1 .. Len(new) : \E u \in v2' :
           /\ u.maker /\ u.id = new[i].tx /\ u.to = new[i].to
           /\ u.from = IF i = 1 THEN z3 ELSE new[i - 1].to
    <3>1. PICK m : m = Len(old) /\ m \in Nat
      BY <2>8, LenProperties
    <3>6. PICK k : k = m + 1
      OBVIOUS
    <3>2. Len(new) = k /\ (\A i \in 1 .. m : new[i] = old[i]) /\ new[k] = step
      BY <2>5, <2>7, <2>8, <3>1, <3>6, AppendProperties
    <3>3. ASSUME NEW i \in 1 .. m
          PROVE  \E u \in v2' : /\ u.maker /\ u.id = new[i].tx /\ u.to = new[i].to
                                /\ u.from = IF i = 1 THEN z3 ELSE new[i - 1].to
      <4>1. i # 1 => i - 1 \in 1 .. m
        BY <3>1
      <4>2. \E u \in v2 : /\ u.maker /\ u.id = old[i].tx /\ u.to = old[i].to
                          /\ u.from = IF i = 1 THEN z3 ELSE old[i - 1].to
        BY <2>12, <3>1 DEF MO!IsChain
      <4> QED BY <2>11, <3>2, <4>1, <4>2
    <3>4. w.active = IF k = 1 THEN z3 ELSE new[k - 1].to
      <4>1. m \in 0 .. Len(old) /\ (k = 1 <=> m = 0) /\ k - 1 = m /\ (m # 0 => m \in 1 .. m)
        BY <3>1, <3>6
      <4>2. SubSeq(old, 1, m) = old
        BY <2>8, <3>1, SubSeqFull
      <4>3. MO!End(SubSeq(old, 1, m)) = IF m = 0 THEN z3 ELSE old[m].to
        BY <2>8, <4>1, EntriesEnd
      <4>4. w.active = IF m = 0 THEN z3 ELSE old[m].to
        BY <2>12, <4>2, <4>3
      <4>5. m # 0 => new[m] = old[m]
        BY <3>2, <4>1
      <4> QED BY <4>1, <4>4, <4>5
    <3>5. t \in v2' /\ t.maker /\ t.id = step.tx /\ t.to = step.to /\ t.from = w.active
      BY <1>1, <2>11, <2>13
    <3>7. \E u \in v2' : /\ u.maker /\ u.id = new[k].tx /\ u.to = new[k].to
                         /\ u.from = IF k = 1 THEN z3 ELSE new[k - 1].to
      <4> HIDE DEF step, w
      <4> QED BY <3>2, <3>4, <3>5
    <3>8. \A i \in 1 .. Len(new) : i \in 1 .. m \/ i = k
      BY <3>1, <3>2, <3>6
    <3> HIDE DEF step, w
    <3> QED BY <3>3, <3>7, <3>8
  <2>19. to = MO!End(new)
    BY <2>5, <2>7, <2>8, EntriesEnd
  <2>20. MO!FollowsTheMaker'
    <3> SUFFICES ASSUME NEW u \in MO!Sessions
                 PROVE  /\ v4'[u].active = MO!End(v4'[u].plan.steps)
                        /\ \A i \in 1 .. Len(v4'[u].plan.steps) : \E x \in v2' :
                             /\ x.maker /\ x.id = v4'[u].plan.steps[i].tx
                             /\ x.to = v4'[u].plan.steps[i].to
                             /\ x.from = IF i = 1 THEN z3 ELSE v4'[u].plan.steps[i - 1].to
      BY DEF MO!FollowsTheMaker, MO!IsChain
    <3>1. CASE u = z2
      BY <2>9, <2>10, <2>14, <2>18, <2>19, <3>1
    <3>2. CASE u # z2
      BY <2>11, <2>14, <3>2 DEF MO!SessionInv, MO!FollowsTheMaker, MO!IsChain
    <3> QED BY <3>1, <3>2
  <2>21. MO!LiveIsReached'
    BY <2>10, <2>11, <2>14 DEF MO!LiveIsReached, MO!At
  <2>22. (\A u \in MO!Sessions : MO!At(u, "docked") => v1 = None)'
    BY <1>1, <2>3, <2>10, <2>14 DEF MO!SessionInv, MO!At, MO!NoneIsNoStrategy
  <2> QED BY <2>11, <2>14, <2>16, <2>17, <2>20, <2>21, <2>22 DEF MO!SessionInv
<1>2. CASE ~(v1 = v4[z2].active /\ to \notin MO!Shipped)
  <2>1. z2 \in MO!Sessions /\ MO!At(z2, "checked")
    BY DEF MO!Sessions, MO!Rebalance
  <2>2. MO!Turns(z2, "idle") /\ UNCHANGED <<v1, v2, v3, v5>>
    BY <1>2 DEF MO!Rebalance
  <2> QED BY <2>1, <2>2, TurnsKeep
<1> QED BY <1>1, <1>2

\* A session started again reads the plan back.
LEMMA RestartKeeps ==
  ASSUME MO!SessionInv, NEW s \in MO!Sessions, MO!Restart(s)
  PROVE  MO!SessionInv'
<1> DEFINE r == [MO!Fresh EXCEPT !.pending = MO!IfWriter(s, v3)]
<1>1. v3 \in MO!Plans /\ v4[s] \in MO!Rows /\ v5 \in BOOLEAN
  BY DEF MO!SessionInv
<1>2. MO!Plan(<<>>, FALSE) \in MO!Plans
  BY EmptySeq DEF MO!Plan, MO!Plans
<1>3. MO!IfWriter(s, v3) \in MO!Plans
  BY <1>1, <1>2 DEF MO!IfWriter
<1>4. /\ r \in MO!Rows /\ r.plan.steps = <<>> /\ r.active = z3 /\ r.at = "idle"
      /\ r.pending = MO!IfWriter(s, v3)
  BY <1>2, <1>3 DEF MO!Fresh, MO!Rows, MO!Known, MO!Plan
<1>5. r.active = MO!End(r.plan.steps) /\ MO!IsChain(r.plan.steps)
  BY <1>4 DEF MO!End, MO!IsChain
<1>6. v4' = [v4 EXCEPT ![s] = r] /\ UNCHANGED <<v1, v2, v3>> /\ v5' = (v5 \/ v4[s].at = "moved")
  BY DEF MO!Restart, MO!At
<1> HIDE DEF r
<1>7. ~v5' /\ s = z2 => MO!Reaches(v3.steps)
  BY <1>6 DEF MO!SessionInv, MO!LiveIsReached, MO!At
<1>8. (~v5' /\ s = z2) => /\ r.at # "moved" /\ v4[s].at # "moved"
                          /\ MO!Reaches(r.pending.steps)
  BY <1>4, <1>6, <1>7 DEF MO!IfWriter
<1> QED BY <1>1, <1>4, <1>5, <1>6, <1>8, OneSessionChanges

\* Another account's transaction is numbered with the others and is no move of the maker.
LEMMA OtherMoveKeeps ==
  ASSUME N \in Nat, MO!SessionInv, NEW from \in MO!Known, NEW to \in MO!Known, MO!OtherMove(from, to)
  PROVE  MO!SessionInv'
<1>1. PICK c : c = Cardinality(v2)
  OBVIOUS
<1> DEFINE t == [id |-> c + 1, from |-> from, to |-> to, maker |-> FALSE]
<1>2. c \in Nat /\ c < N /\ IsFiniteSet(v2)
  BY <1>1, MonitorCounts, FS_CardinalityType
  DEF MO!OtherMove, MO!SessionInv, MO!TransactionsAreNumbered
<1>3. v2' = v2 \union {t} /\ UNCHANGED <<v1, v3, v4, v5>>
  BY <1>1, MonitorCounts DEF MO!OtherMove
<1>4. /\ t \in [id : Nat, from : MO!Known, to : MO!Known, maker : BOOLEAN]
      /\ t.id = c + 1 /\ ~t.maker
  BY <1>2
<1>5. \A u \in v2 : u.id \in Nat /\ 1 <= u.id /\ u.id <= c
  BY <1>1, MonitorCounts DEF MO!SessionInv, MO!TransactionsAreNumbered
<1> HIDE DEF t
<1>6. MO!TransactionsAreNumbered'
  <2>1. t \notin v2
    BY <1>2, <1>4, <1>5
  <2>2. IsFiniteSet(v2') /\ Cardinality(v2') = c + 1
    BY <1>1, <1>2, <1>3, <2>1, FS_AddElement
  <2>3. v2' \subseteq [id : Nat, from : MO!Known, to : MO!Known, maker : BOOLEAN]
    BY <1>3, <1>4 DEF MO!SessionInv, MO!TransactionsAreNumbered
  <2>4. \A u \in v2' : 1 <= u.id /\ u.id <= c + 1
    BY <1>2, <1>3, <1>4, <1>5
  <2>5. \A u, v \in v2' : u.id = v.id => u = v
    BY <1>2, <1>3, <1>4, <1>5 DEF MO!SessionInv, MO!TransactionsAreNumbered
  <2> QED BY <1>2, <2>2, <2>3, <2>4, <2>5, MonitorCounts DEF MO!TransactionsAreNumbered
<1>7. MO!Moves' = MO!Moves
  BY <1>3, <1>4 DEF MO!Moves
<1>8. MO!MovesAreAChain'
  BY <1>3, <1>7 DEF MO!SessionInv, MO!MovesAreAChain, MO!Shipped
<1>9. MO!FollowsTheMaker'
  BY <1>3 DEF MO!SessionInv, MO!FollowsTheMaker, MO!IsChain
<1>10. MO!LiveIsReached'
  BY <1>3 DEF MO!SessionInv, MO!LiveIsReached, MO!Reaches, MO!At
<1> QED BY <1>3, <1>6, <1>8, <1>9, <1>10 DEF MO!SessionInv, MO!At

\* One more entry leads to all those before it led to.
LEMMA MisprintKeeps ==
  ASSUME MO!SessionInv, NEW to \in MO!Known, NEW t \in v2, MO!Misprint(to, t.id)
  PROVE  MO!SessionInv'
<1> DEFINE step == [to |-> to, tx |-> t.id]
           plan == [v3 EXCEPT !.steps = Append(@, step)]
<1>1. PICK old : old = v3.steps
  OBVIOUS
<1>2. step \in MO!Steps
  BY DEF MO!SessionInv, MO!TransactionsAreNumbered, MO!Steps
<1>3. v3 \in MO!Plans /\ old \in Seq(MO!Steps)
  BY <1>1 DEF MO!SessionInv, MO!Plans
<1>4. PICK new : new = Append(old, step)
  OBVIOUS
<1>5. PICK m : m = Len(old) /\ m \in Nat
  BY <1>3, LenProperties
<1>6. /\ new \in Seq(MO!Steps) /\ Len(new) = m + 1 /\ \A i \in 1 .. m : new[i] = old[i]
  BY <1>2, <1>3, <1>4, <1>5, AppendProperties
<1>7. plan \in MO!Plans /\ plan.steps = new
  BY <1>1, <1>3, <1>4, <1>6 DEF MO!Plans
<1>8. v3' = plan /\ UNCHANGED <<v1, v2, v4, v5>>
  BY DEF MO!Misprint
<1>9. MO!Reaches(old) => MO!Reaches(new)
  <2> SUFFICES ASSUME v1 # None, MO!Reaches(old) PROVE MO!Reaches(new)
    BY DEF MO!Reaches
  <2>1. PICK k \in 0 .. m : MO!End(SubSeq(old, 1, k)) = v1
    BY <1>5 DEF MO!Reaches
  <2>2. k \in 0 .. Len(new) /\ k \in 0 .. Len(old) /\ (k # 0 => k \in 1 .. m)
    BY <1>5, <1>6
  <2>3. MO!End(SubSeq(new, 1, k)) = MO!End(SubSeq(old, 1, k))
    BY <1>3, <1>6, <2>2, EntriesEnd
  <2> QED BY <2>1, <2>2, <2>3 DEF MO!Reaches
<1>10. z2 \in MO!Sessions /\ v4[z2].at # "moved"
  BY DEF MO!Sessions, MO!Misprint, MO!At
<1> HIDE DEF plan, step
<1> QED BY <1>1, <1>7, <1>8, <1>9, <1>10, FileChanges

\* Every step of the monitor keeps its invariant.
LEMMA SessionsKeep ==
  ASSUME N \in Nat, MO!NoneIsNoStrategy, MO!SessionInv, [MO!Next]_(MO!vars)
  PROVE  MO!SessionInv'
<1>1. CASE UNCHANGED MO!vars
  BY <1>1, FileChanges DEF MO!vars, MO!SessionInv, MO!TransactionsAreNumbered,
     MO!MovesAreAChain, MO!Moves, MO!Shipped, MO!FollowsTheMaker, MO!IsChain, MO!LiveIsReached,
     MO!Reaches, MO!At
<1>2. CASE MO!Next
  BY <1>2, SynchronizeKeeps, WithinKeeps, AlreadyDockedKeeps, BreachDockKeeps, FinishKeeps, RestartKeeps,
     PlanPublishKeeps, RebalanceKeeps, OtherMoveKeeps, MisprintKeeps DEF MO!Next
<1> QED BY <1>1, <1>2

\* At the start nothing has moved.
LEMMA SessionsBegin ==
  ASSUME N \in Nat, MO!NoneIsNoStrategy, MO!Init
  PROVE  MO!SessionInv
<1>1. MO!Plan(<<>>, FALSE) \in MO!Plans
  BY EmptySeq DEF MO!Plan, MO!Plans
<1>2. MO!Fresh \in MO!Rows /\ MO!Fresh.at = "idle" /\ MO!Fresh.active = z3
      /\ MO!Fresh.plan.steps = <<>> /\ MO!Fresh.pending.steps = <<>>
  BY <1>1 DEF MO!Fresh, MO!Rows, MO!Known, MO!Plan
<1>3. MO!Moves = {} /\ MO!Shipped = {z3}
  BY DEF MO!Init, MO!Moves, MO!Shipped
<1>4. MO!TransactionsAreNumbered
  BY MonitorCounts, FS_EmptySet DEF MO!Init, MO!TransactionsAreNumbered
<1>5. MO!MovesAreAChain
  BY <1>3 DEF MO!Init, MO!MovesAreAChain
<1>6. MO!FollowsTheMaker
  BY <1>2 DEF MO!Init, MO!FollowsTheMaker, MO!IsChain, MO!End
<1>7. MO!Reaches(<<>>)
  <2>1. SubSeq(<<>>, 1, 0) = <<>>
    BY SubSeqEmpty
  <2>2. MO!End(SubSeq(<<>>, 1, 0)) = z3 /\ 0 \in 0 .. Len(<<>>)
    BY <2>1 DEF MO!End
  <2> QED BY <2>2 DEF MO!Init, MO!Reaches
<1>8. MO!LiveIsReached
  <2>1. z2 \in MO!Sessions
    BY DEF MO!Sessions
  <2> QED BY <1>2, <1>7, <2>1 DEF MO!Init, MO!LiveIsReached, MO!At, MO!Plan
<1> QED BY <1>1, <1>2, <1>4, <1>5, <1>6, <1>8 DEF MO!Init, MO!SessionInv, MO!Known, MO!At

\* When every published entry is proven, the strategy live is the last of them: the
\* maker's transactions leave it nowhere.
LEMMA SessionsHold ==
  ASSUME N \in Nat, MO!SessionInv
  PROVE  MO!TypeOK /\ MO!FollowsTheMaker /\ MO!LiveIsKnown
<1>1. MO!TypeOK
  <2> SUFFICES ASSUME NEW s \in MO!Sessions
               PROVE  v4[s].active \in MO!Known /\ Len(v4[s].plan.steps) <= N
    BY DEF MO!TypeOK, MO!SessionInv
  <2>1. v4[s] \in MO!Rows /\ MO!IsChain(v4[s].plan.steps)
    BY DEF MO!SessionInv, MO!FollowsTheMaker
  <2>2. v4[s].plan.steps \in Seq(MO!Steps)
    BY <2>1 DEF MO!Rows, MO!Plans
  <2>3. v4[s].active \in MO!Known
    BY <2>1 DEF MO!Rows
  <2> QED BY <2>1, <2>2, <2>3, ChainIsShort DEF MO!SessionInv
<1>2. MO!LiveIsKnown
  <2> SUFFICES ASSUME ~v5, v1 # None, v4[z2].active # v1,
                      \A i \in 1 .. Len(v3.steps) : MO!IsProven(v3.steps, i)
               PROVE  MO!End(v3.steps) = v1
    BY DEF MO!LiveIsKnown
  <2>1. MO!Reaches(v3.steps)
    BY DEF MO!SessionInv, MO!LiveIsReached
  <2>2. PICK steps : steps = v3.steps
    OBVIOUS
  <2>3. steps \in Seq(MO!Steps)
    BY <2>2 DEF MO!SessionInv, MO!Plans
  <2>4. PICK n : n = Len(steps) /\ n \in Nat
    BY <2>3, LenProperties
  <2>5. PICK k \in 0 .. n : MO!End(SubSeq(steps, 1, k)) = v1
    BY <2>1, <2>2, <2>4 DEF MO!Reaches
  <2>6. CASE k = n
    BY <2>2, <2>3, <2>4, <2>5, <2>6, SubSeqFull
  <2>7. CASE k # n
    <3>1. k + 1 \in 1 .. n /\ k + 1 - 1 = k
      BY <2>4, <2>7
    <3>2. MO!IsProven(steps, k + 1)
      BY <2>2, <2>4, <3>1
    <3>3. PICK t \in v2 : t.maker /\ t.from = MO!End(SubSeq(steps, 1, k + 1 - 1))
      BY <3>2 DEF MO!IsProven
    <3> QED BY <2>5, <3>1, <3>3 DEF MO!SessionInv, MO!MovesAreAChain, MO!Moves
  <2> QED BY <2>6, <2>7
<1> QED BY <1>1, <1>2 DEF MO!SessionInv

-----------------------------------------------------------------------------
(* The outage monitor (OM): v1 the sources, v2 what the worker remembers of  *)
(* them, v3 the consents, v4 the rows of the monitor, v5 the evaluations     *)
(* waiting, v6 those running, v7 what was told, v8 and v9 who flapped and    *)
(* whose evaluation was dropped.                                             *)

OM == INSTANCE OutageMonitor WITH
     Subs <- Z, Sources <- Z, Policy <- [s \in Z |-> Z], MaxAttempts <- N, MaxJobs <- N,
     source <- v1, polled <- v2, consented <- v3, row <- v4, jobs <- v5, running <- v6,
     told <- v7, flapped <- v8, dropped <- v9

\* The sources and what the worker remembers of them only keep their types.
LEMMA SourcesKeep ==
  ASSUME OM!NoneIsNoHealth, OM!OutageInv, NEW x \in Z,
         \/ OM!Age(x) \/ OM!RestartWorker
         \/ \E age \in {"recent", "old", "ahead"} : OM!PollSucceeds(x, age)
         \/ \E recorded \in BOOLEAN : OM!PollFails(x, recorded)
  PROVE  OM!OutageInv'
<1>1. v1 \in [Z -> {None} \cup OM!Health] /\ v2 \in [Z -> {"unknown", "healthy", "error"}]
  BY DEF OM!OutageInv, OM!OutageTypes
<1>2. ASSUME NEW h \in {"healthy", "recovered", "error"}, NEW a \in {"recent", "old", "ahead"}, OM!Record(x, h, a)
      PROVE  v1' \in [Z -> {None} \cup OM!Health]
  <2>1. PICK r : r = [health |-> h, age |-> a]
    OBVIOUS
  <2>2. r \in OM!Health
    BY <2>1 DEF OM!Health
  <2>3. v1' = [v1 EXCEPT ![x] = r]
    BY <1>2, <2>1 DEF OM!Record
  <2> QED BY <1>1, <2>2, <2>3
<1>3. /\ v1' \in [Z -> {None} \cup OM!Health] /\ v2' \in [Z -> {"unknown", "healthy", "error"}]
      /\ UNCHANGED <<v3, v4, v5, v6, v7, v8, v9>>
  <2>1. CASE OM!Age(x)
    <3>1. v1[x] \in OM!Health
      BY <1>1, <2>1 DEF OM!Age
    <3>2. v1[x].health \in {"healthy", "recovered", "error"}
      BY <3>1 DEF OM!Health
    <3>3. PICK h, a : h = v1[x].health /\ a = IF v1[x].age = "recent" THEN "old" ELSE "recent"
      OBVIOUS
    <3>4. OM!Record(x, h, a) /\ UNCHANGED <<v2, v3, v4, v5, v6, v7, v8, v9>>
      BY <2>1, <3>3 DEF OM!Age
    <3> QED BY <1>1, <1>2, <3>2, <3>3, <3>4
  <2>2. CASE OM!RestartWorker
    BY <1>1, <2>2 DEF OM!RestartWorker
  <2>3. ASSUME NEW a \in {"recent", "old", "ahead"}, OM!PollSucceeds(x, a)
        PROVE  /\ v1' \in [Z -> {None} \cup OM!Health] /\ v2' \in [Z -> {"unknown", "healthy", "error"}]
               /\ UNCHANGED <<v3, v4, v5, v6, v7, v8, v9>>
    <3>1. PICK h : h = IF v2[x] = "error" THEN "recovered" ELSE "healthy"
      OBVIOUS
    <3>2. OM!Record(x, h, a) /\ v2' = [v2 EXCEPT ![x] = "healthy"] /\ UNCHANGED <<v3, v4, v5, v6, v7, v8, v9>>
      BY <2>3, <3>1 DEF OM!PollSucceeds
    <3> QED BY <1>1, <1>2, <3>1, <3>2
  <2>4. ASSUME NEW b \in BOOLEAN, OM!PollFails(x, b)
        PROVE  /\ v1' \in [Z -> {None} \cup OM!Health] /\ v2' \in [Z -> {"unknown", "healthy", "error"}]
               /\ UNCHANGED <<v3, v4, v5, v6, v7, v8, v9>>
    <3>1. v2' = [v2 EXCEPT ![x] = "error"] /\ UNCHANGED <<v3, v4, v5, v6, v7, v8, v9>>
      BY <2>4 DEF OM!PollFails
    <3>2. v1' = v1 \/ OM!Record(x, "error", "recent")
      BY <2>4 DEF OM!PollFails
    <3> QED BY <1>1, <1>2, <3>1, <3>2
  <2> QED BY <2>1, <2>2, <2>3, <2>4
<1>4. OM!OutageTypes'
  BY <1>3 DEF OM!OutageInv, OM!OutageTypes
<1>5. \A s \in Z : OM!Waits(s)' /\ OM!Answers(s)'
  BY <1>3 DEF OM!OutageInv, OM!Waits, OM!Answers, OM!Seen
<1> QED BY <1>4, <1>5 DEF OM!OutageInv

\* An evaluation more is one more waiting.
LEMMA OneMoreWaits ==
  ASSUME OM!NoneIsNoHealth, OM!OutageTypes, NEW s \in Z, NEW n \in 1 .. N, v5' = [v5 EXCEPT ![s] = Append(@, n)]
  PROVE  /\ v5' \in [Z -> Seq(1 .. N)] /\ v5'[s] # <<>> /\ Len(v5'[s]) = Len(v5[s]) + 1 /\ Len(v5[s]) \in Nat
         /\ \A u \in Z : u # s => v5'[u] = v5[u]
<1>1. v5 \in [Z -> Seq(1 .. N)] /\ v5[s] \in Seq(1 .. N)
  BY DEF OM!OutageTypes
<1>2. PICK q : q = v5[s]
  OBVIOUS
<1>3. PICK w : w = Append(q, n)
  OBVIOUS
<1>4. w \in Seq(1 .. N) /\ Len(w) = Len(q) + 1 /\ Len(q) \in Nat
  BY <1>1, <1>2, <1>3, AppendProperties
<1>5. w # <<>>
  BY <1>4
<1>6. v5' = [v5 EXCEPT ![s] = w]
  BY <1>1, <1>2, <1>3
<1> QED BY <1>1, <1>2, <1>4, <1>5, <1>6

\* What is left when one is taken out is one less.
LEMMA OneLessWaits ==
  ASSUME OM!NoneIsNoHealth, NEW q \in Seq(1 .. N), NEW n \in DOMAIN q
  PROVE  OM!Without(q, n) \in Seq(1 .. N) /\ Len(OM!Without(q, n)) = Len(q) - 1 /\ q[n] \in 1 .. N /\ Len(q) \in Nat
<1>1. Len(q) \in Nat /\ n \in 1 .. Len(q) /\ q[n] \in 1 .. N
  BY LenProperties, ElementOfSeq
<1>e. \A i \in 1 .. Len(q) : q[i] \in 1 .. N
  BY ElementOfSeq
<1>2. PICK a : a = SubSeq(q, 1, n - 1)
  OBVIOUS
<1>3. PICK b : b = SubSeq(q, n + 1, Len(q))
  OBVIOUS
<1>4. a \in Seq(1 .. N) /\ Len(a) = n - 1
  <2>1. n - 1 \in Int /\ 1 \in Int /\ \A i \in 1 .. n - 1 : q[i] \in 1 .. N
    <3>1. \A i \in 1 .. n - 1 : i \in 1 .. Len(q)
      BY <1>1
    <3>2. \A i \in 1 .. n - 1 : q[i] \in 1 .. N
      BY <1>e, <3>1
    <3> QED BY <1>1, <3>2
  <2>2. a \in Seq(1 .. N) /\ Len(a) = IF 1 <= n - 1 THEN n - 1 - 1 + 1 ELSE 0
    BY <1>1, <1>2, <2>1, SubSeqProperties
  <2> QED BY <1>1, <2>2
<1>5. b \in Seq(1 .. N) /\ Len(b) = Len(q) - n
  <2>1. n + 1 \in Int /\ Len(q) \in Int /\ \A i \in n + 1 .. Len(q) : q[i] \in 1 .. N
    <3>1. \A i \in n + 1 .. Len(q) : i \in 1 .. Len(q)
      BY <1>1
    <3>2. \A i \in n + 1 .. Len(q) : q[i] \in 1 .. N
      BY <1>e, <3>1
    <3> QED BY <1>1, <3>2
  <2>2. b \in Seq(1 .. N) /\ Len(b) = IF n + 1 <= Len(q) THEN Len(q) - (n + 1) + 1 ELSE 0
    BY <1>1, <1>3, <2>1, SubSeqProperties
  <2> QED BY <1>1, <2>2
<1>6. PICK c : c = a \o b
  OBVIOUS
<1>7. c \in Seq(1 .. N) /\ Len(c) = Len(a) + Len(b)
  BY <1>4, <1>5, <1>6, ConcatProperties
<1>8. Len(a) + Len(b) = Len(q) - 1
  BY <1>1, <1>4, <1>5
<1>9. OM!Without(q, n) = c
  BY <1>2, <1>3, <1>6 DEF OM!Without
<1> QED BY <1>1, <1>7, <1>8, <1>9

\* A step about one subscription leaves the others as they were.
LEMMA OthersAnswer ==
  ASSUME OM!OutageInv, NEW s \in Z, OM!OutageTypes',
         \A u \in Z : u # s =>
           /\ v4'[u] = v4[u] /\ v5'[u] = v5[u] /\ v6'[u] = v6[u] /\ v7'[u] = v7[u]
           /\ (u \in v8' <=> u \in v8) /\ (u \in v9' <=> u \in v9),
         OM!Waits(s)', OM!Answers(s)'
  PROVE  OM!OutageInv'
<1>1. ASSUME NEW u \in Z, u # s PROVE OM!Waits(u)' /\ OM!Answers(u)'
  <2>1. OM!Waits(u) /\ OM!Answers(u)
    BY DEF OM!OutageInv
  <2>2. OM!Waits(u)'
    BY <1>1, <2>1 DEF OM!Waits
  <2>3. OM!Answers(u)'
    BY <1>1, <2>1 DEF OM!Answers, OM!Seen
  <2> QED BY <2>2, <2>3
<1> QED BY <1>1 DEF OM!OutageInv

\* A round queues an evaluation when what it sees has changed.
LEMMA RoundKeeps ==
  ASSUME OM!NoneIsNoHealth, OM!OutageInv, NEW s \in Z, OM!ScheduleHealthEvaluation(s)
  PROVE  OM!OutageInv'
<1>1. OM!OutageTypes /\ OM!Waits(s) /\ OM!Answers(s) /\ N \in Nat \ {0} /\ None \notin BOOLEAN
  BY DEF OM!OutageInv, OM!NoneIsNoHealth
<1>2. PICK b : b = OM!PauseRequired(s)
  OBVIOUS
<1>3. b \in BOOLEAN
  BY <1>2 DEF OM!PauseRequired
<1>4. v4' = [v4 EXCEPT ![s] = b] /\ UNCHANGED <<v1, v2, v3, v6, v7, v8, v9>>
  BY <1>2 DEF OM!ScheduleHealthEvaluation
<1>5. v4' \in [Z -> {None, TRUE, FALSE}] /\ v4'[s] = b /\ \A u \in Z : u # s => v4'[u] = v4[u]
  BY <1>1, <1>3, <1>4 DEF OM!OutageTypes
<1>6. CASE OM!Changed(s)
  <2>1. v5' = [v5 EXCEPT ![s] = Append(@, 1)] /\ Len(v5[s]) < N /\ 1 \in 1 .. N
    BY <1>1, <1>6 DEF OM!ScheduleHealthEvaluation
  <2>2. /\ v5' \in [Z -> Seq(1 .. N)] /\ v5'[s] # <<>> /\ Len(v5'[s]) = Len(v5[s]) + 1 /\ Len(v5[s]) \in Nat
        /\ \A u \in Z : u # s => v5'[u] = v5[u]
    BY <1>1, <2>1, OneMoreWaits
  <2>3. OM!OutageTypes'
    BY <1>1, <1>4, <1>5, <2>2 DEF OM!OutageTypes
  <2>4. OM!Waits(s)' /\ OM!Answers(s)'
    <3>1. Len(v5'[s]) <= N /\ Len(v5'[s]) <= N + 1
      BY <1>1, <2>1, <2>2
    <3> QED BY <1>1, <2>2, <3>1 DEF OM!Waits, OM!Answers
  <2> QED BY <1>4, <1>5, <2>2, <2>3, <2>4, OthersAnswer
<1>7. CASE ~OM!Changed(s)
  <2>1. v5' = v5
    BY <1>7 DEF OM!ScheduleHealthEvaluation
  <2>2. OM!OutageTypes'
    BY <1>1, <1>4, <1>5, <2>1 DEF OM!OutageTypes
  <2>3. v4'[s] = TRUE <=> v4[s] = TRUE
    <3>1. v4[s] = b \/ (v4[s] = None /\ ~b)
      BY <1>2, <1>7 DEF OM!Changed
    <3> QED BY <1>1, <1>3, <1>5, <3>1
  <2>4. OM!Waits(s)'
    BY <1>1, <1>4, <2>1 DEF OM!Waits
  <2>5. OM!Answers(s)'
    BY <1>1, <1>4, <2>1, <2>3 DEF OM!Answers, OM!Seen
  <2> QED BY <1>4, <1>5, <2>1, <2>2, <2>4, <2>5, OthersAnswer
<1> QED BY <1>6, <1>7

\* An event queues an evaluation.
LEMMA EventKeeps ==
  ASSUME OM!NoneIsNoHealth, OM!OutageInv, NEW s \in Z, OM!Event(s)
  PROVE  OM!OutageInv'
<1>1. OM!OutageTypes /\ N \in Nat \ {0}
  BY DEF OM!OutageInv, OM!NoneIsNoHealth
<1>2. /\ v5' = [v5 EXCEPT ![s] = Append(@, 1)] /\ Len(v5[s]) < N /\ 1 \in 1 .. N
      /\ UNCHANGED <<v1, v2, v3, v4, v6, v7, v8, v9>>
  BY <1>1 DEF OM!Event
<1>3. /\ v5' \in [Z -> Seq(1 .. N)] /\ v5'[s] # <<>> /\ Len(v5'[s]) = Len(v5[s]) + 1 /\ Len(v5[s]) \in Nat
      /\ \A u \in Z : u # s => v5'[u] = v5[u]
  BY <1>1, <1>2, OneMoreWaits
<1>4. OM!OutageTypes'
  BY <1>1, <1>2, <1>3 DEF OM!OutageTypes
<1>5. OM!Waits(s)' /\ OM!Answers(s)'
  <2>1. Len(v5'[s]) <= N /\ Len(v5'[s]) <= N + 1
    BY <1>1, <1>2, <1>3
  <2> QED BY <1>1, <1>3, <2>1 DEF OM!Waits, OM!Answers
<1> QED BY <1>2, <1>3, <1>4, <1>5, OthersAnswer

\* An evaluation claimed has read nothing yet.
LEMMA EvaluationClaimKeeps ==
  ASSUME OM!NoneIsNoHealth, OM!OutageInv, NEW s \in Z, NEW n \in 1 .. N + 1, OM!Claim(s, n)
  PROVE  OM!OutageInv'
<1>1. OM!OutageTypes /\ OM!Waits(s) /\ N \in Nat \ {0}
  BY DEF OM!OutageInv, OM!NoneIsNoHealth
<1>2. PICK q : q = v5[s]
  OBVIOUS
<1>3. PICK w : w = OM!Without(q, n)
  OBVIOUS
<1>4. PICK r : r = [attempt |-> q[n], read |-> None, flap |-> FALSE]
  OBVIOUS
<1>5. q \in Seq(1 .. N) /\ n \in DOMAIN q /\ v6[s] = None
  BY <1>1, <1>2 DEF OM!Claim, OM!OutageTypes
<1>6. w \in Seq(1 .. N) /\ Len(w) = Len(q) - 1 /\ q[n] \in 1 .. N /\ Len(q) \in Nat
  BY <1>3, <1>5, OneLessWaits
<1>7. r \in OM!Evaluation /\ r.read = None /\ r # None
  <2>1. PICK e : e = q[n]
    OBVIOUS
  <2>2. r = [attempt |-> e, read |-> None, flap |-> FALSE] /\ e \in 1 .. N
    BY <1>4, <1>6, <2>1
  <2>3. r \in OM!Evaluation /\ r.read = None
    BY <2>2 DEF OM!Evaluation
  <2> QED BY <2>3 DEF OM!NoneIsNoHealth
<1>8. v5' = [v5 EXCEPT ![s] = w] /\ v6' = [v6 EXCEPT ![s] = r] /\ UNCHANGED <<v1, v2, v3, v4, v7, v8, v9>>
  BY <1>1, <1>2, <1>3, <1>4 DEF OM!Claim, OM!OutageTypes
<1>9. /\ v5' \in [Z -> Seq(1 .. N)] /\ v6' \in [Z -> {None} \cup OM!Evaluation]
      /\ v5'[s] = w /\ v6'[s] = r /\ \A u \in Z : u # s => v5'[u] = v5[u] /\ v6'[u] = v6[u]
  BY <1>1, <1>6, <1>7, <1>8 DEF OM!OutageTypes
<1>10. OM!OutageTypes'
  BY <1>1, <1>8, <1>9 DEF OM!OutageTypes
<1>11. OM!Waits(s)'
  <2>1. Len(w) <= N
    BY <1>1, <1>2, <1>5, <1>6 DEF OM!Waits
  <2> QED BY <1>7, <1>9, <2>1 DEF OM!Waits
<1>12. OM!Answers(s)'
  BY <1>7, <1>9 DEF OM!Answers
<1> QED BY <1>8, <1>9, <1>10, <1>11, <1>12, OthersAnswer

\* What it reads is what the monitor saw, or it remembers that it is not.
LEMMA ReadSourcesKeeps ==
  ASSUME OM!NoneIsNoHealth, OM!OutageInv, NEW s \in Z, OM!ReadSources(s)
  PROVE  OM!OutageInv'
<1>1. OM!OutageTypes /\ OM!Waits(s) /\ None \notin BOOLEAN
  BY DEF OM!OutageInv, OM!NoneIsNoHealth
<1>2. PICK b, f : b = OM!PauseRequired(s) /\ f = (OM!PauseRequired(s) # (v4[s] = TRUE))
  OBVIOUS
<1>3. b \in BOOLEAN /\ f \in BOOLEAN /\ (f \/ (b = TRUE <=> v4[s] = TRUE))
  BY <1>2 DEF OM!PauseRequired
<1>4. PICK r : r = [v6[s] EXCEPT !.read = b, !.flap = f]
  OBVIOUS
<1>5. v6[s] \in OM!Evaluation
  BY <1>1 DEF OM!ReadSources, OM!OutageTypes
<1>6. r \in OM!Evaluation /\ r.read = b /\ r.flap = f /\ r # None
  BY <1>3, <1>4, <1>5 DEF OM!Evaluation, OM!NoneIsNoHealth
<1>7. v6' = [v6 EXCEPT ![s] = r] /\ v6[s] # None /\ UNCHANGED <<v1, v2, v3, v4, v5, v7, v8, v9>>
  BY <1>1, <1>2, <1>4 DEF OM!ReadSources, OM!OutageTypes
<1>8. v6' \in [Z -> {None} \cup OM!Evaluation] /\ v6'[s] = r /\ \A u \in Z : u # s => v6'[u] = v6[u]
  BY <1>1, <1>6, <1>7 DEF OM!OutageTypes
<1>9. OM!OutageTypes'
  BY <1>1, <1>7, <1>8 DEF OM!OutageTypes
<1>10. OM!Waits(s)'
  BY <1>1, <1>6, <1>7, <1>8 DEF OM!Waits
<1>11. OM!Answers(s)'
  BY <1>1, <1>3, <1>6, <1>7, <1>8 DEF OM!Answers, OM!Seen
<1> QED BY <1>7, <1>8, <1>9, <1>10, <1>11, OthersAnswer

\* Nothing runs for a subscription once its evaluation has finished.
LEMMA EvaluationFinishKeeps ==
  ASSUME OM!NoneIsNoHealth, OM!OutageInv, NEW s \in Z, OM!Finish(s)
  PROVE  OM!OutageInv'
<1>1. OM!OutageTypes /\ OM!Waits(s) /\ OM!Answers(s)
  BY DEF OM!OutageInv
<1>2. PICK r : r = v6[s]
  OBVIOUS
<1>3. r \in OM!Evaluation /\ r # None /\ r.read # None
  BY <1>1, <1>2 DEF OM!Finish, OM!OutageTypes
<1>4. r.read \in {None, TRUE, FALSE}
  BY <1>3 DEF OM!Evaluation
<1>5. /\ v7' = [v7 EXCEPT ![s] = r.read] /\ v6' = [v6 EXCEPT ![s] = None]
      /\ v8' = (IF r.flap THEN v8 \cup {s} ELSE v8 \ {s}) /\ v9' = v9 \ {s}
      /\ UNCHANGED <<v1, v2, v3, v4, v5>>
  BY <1>2 DEF OM!Finish
<1>6. /\ v6' \in [Z -> {None} \cup OM!Evaluation] /\ v7' \in [Z -> {None, TRUE, FALSE}]
      /\ v6'[s] = None /\ v7'[s] = r.read /\ \A u \in Z : u # s => v6'[u] = v6[u] /\ v7'[u] = v7[u]
  BY <1>1, <1>4, <1>5 DEF OM!OutageTypes
<1>7. OM!OutageTypes'
  BY <1>1, <1>5, <1>6 DEF OM!OutageTypes
<1>8. OM!Waits(s)'
  <2>1. Len(v5[s]) <= N /\ Len(v5[s]) \in Nat /\ N \in Nat
    BY <1>1, <1>2, <1>3 DEF OM!Waits, OM!OutageTypes, OM!NoneIsNoHealth
  <2>2. Len(v5[s]) <= N + 1
    BY <2>1
  <2> QED BY <1>5, <1>6, <2>2 DEF OM!Waits
<1>9. OM!Answers(s)'
  BY <1>1, <1>2, <1>3, <1>5, <1>6 DEF OM!Answers, OM!Seen
<1>10. \A u \in Z : u # s => (u \in v8' <=> u \in v8) /\ (u \in v9' <=> u \in v9)
  BY <1>5
<1> QED BY <1>5, <1>6, <1>7, <1>8, <1>9, <1>10, OthersAnswer

\* An evaluation that fails is tried again, or is remembered as dropped.
LEMMA EvaluationFailKeeps ==
  ASSUME OM!NoneIsNoHealth, OM!OutageInv, NEW s \in Z, NEW counted \in BOOLEAN, OM!Fail(s, counted)
  PROVE  OM!OutageInv'
<1>1. OM!OutageTypes /\ OM!Waits(s) /\ N \in Nat \ {0}
  BY DEF OM!OutageInv, OM!NoneIsNoHealth
<1>2. PICK r : r = v6[s]
  OBVIOUS
<1>3. r \in OM!Evaluation /\ r # None
  BY <1>1, <1>2 DEF OM!Fail, OM!OutageTypes
<1>4. r.attempt \in 1 .. N
  BY <1>3 DEF OM!Evaluation
<1>5. v6' = [v6 EXCEPT ![s] = None] /\ UNCHANGED <<v1, v2, v3, v4, v7, v8>>
  BY DEF OM!Fail
<1>6. v6' \in [Z -> {None} \cup OM!Evaluation] /\ v6'[s] = None /\ \A u \in Z : u # s => v6'[u] = v6[u]
  BY <1>1, <1>5 DEF OM!OutageTypes
<1>7. Len(v5[s]) <= N /\ Len(v5[s]) \in Nat
  BY <1>1, <1>2, <1>3 DEF OM!Waits, OM!OutageTypes
<1>8. CASE counted /\ r.attempt = N
  <2>1. v5' = v5 /\ v9' = v9 \cup {s}
    BY <1>2, <1>8 DEF OM!Fail
  <2>2. OM!OutageTypes'
    BY <1>1, <1>5, <1>6, <2>1 DEF OM!OutageTypes
  <2>3. Len(v5'[s]) <= N + 1
    BY <1>1, <1>7, <2>1
  <2>4. OM!Waits(s)' /\ OM!Answers(s)'
    BY <1>6, <2>1, <2>3 DEF OM!Waits, OM!Answers
  <2>5. \A u \in Z : u # s => (u \in v9' <=> u \in v9)
    BY <2>1
  <2> QED BY <1>5, <1>6, <2>1, <2>2, <2>4, <2>5, OthersAnswer
<1>9. CASE ~(counted /\ r.attempt = N)
  <2>1. PICK a : a = IF r.attempt = N THEN N ELSE r.attempt + 1
    OBVIOUS
  <2>2. a \in 1 .. N
    BY <1>1, <1>4, <2>1
  <2>3. v5' = [v5 EXCEPT ![s] = Append(@, a)] /\ v9' = v9
    BY <1>2, <1>9, <2>1 DEF OM!Fail, OM!Back
  <2>4. /\ v5' \in [Z -> Seq(1 .. N)] /\ v5'[s] # <<>> /\ Len(v5'[s]) = Len(v5[s]) + 1
        /\ \A u \in Z : u # s => v5'[u] = v5[u]
    BY <1>1, <2>2, <2>3, OneMoreWaits
  <2>5. OM!OutageTypes'
    BY <1>1, <1>5, <1>6, <2>3, <2>4 DEF OM!OutageTypes
  <2>6. Len(v5'[s]) <= N + 1
    BY <1>1, <1>7, <2>4
  <2>7. OM!Waits(s)' /\ OM!Answers(s)'
    BY <1>6, <2>4, <2>6 DEF OM!Waits, OM!Answers
  <2> QED BY <1>5, <1>6, <2>3, <2>4, <2>5, <2>7, OthersAnswer
<1> QED BY <1>8, <1>9

\* Every step keeps the invariant.
LEMMA OutageKeeps ==
  ASSUME OM!NoneIsNoHealth, OM!OutageInv, [OM!Next]_(OM!vars)
  PROVE  OM!OutageInv'
<1>1. OM!OutageTypes
  BY DEF OM!OutageInv
<1>2. CASE UNCHANGED OM!vars
  <2>1. UNCHANGED <<v1, v2, v3, v4, v5, v6, v7, v8, v9>>
    BY <1>2 DEF OM!vars
  <2> QED BY <2>1 DEF OM!OutageInv, OM!OutageTypes, OM!Waits, OM!Answers, OM!Seen
<1>3. CASE OM!RestartWorker
  <2>1. v2' = [x \in Z |-> "unknown"] /\ UNCHANGED <<v1, v3, v4, v5, v6, v7, v8, v9>>
    BY <1>3 DEF OM!RestartWorker
  <2> QED BY <2>1 DEF OM!OutageInv, OM!OutageTypes, OM!Waits, OM!Answers, OM!Seen
<1>4. ASSUME NEW s \in Z, OM!EndConsent(s) PROVE OM!OutageInv'
  <2>1. v3' \subseteq v3 /\ UNCHANGED <<v1, v2, v4, v5, v6, v7, v8, v9>>
    BY <1>4 DEF OM!EndConsent
  <2> QED BY <2>1 DEF OM!OutageInv, OM!OutageTypes, OM!Waits, OM!Answers, OM!Seen
<1> QED BY <1>2, <1>3, <1>4, SourcesKeep, RoundKeeps, EventKeeps, EvaluationClaimKeeps, ReadSourcesKeeps, EvaluationFinishKeeps,
           EvaluationFailKeeps DEF OM!Next

\* At the start no source has been polled.
LEMMA OutageBegins ==
  ASSUME OM!NoneIsNoHealth, OM!Init
  PROVE  OM!OutageInv
<1>1. N \in Nat \ {0} /\ 1 \in 1 .. N
  BY DEF OM!NoneIsNoHealth
<1>2. PICK q : q = <<1>>
  OBVIOUS
<1>3. q \in Seq(1 .. N) /\ Len(q) = 1 /\ q # <<>>
  BY <1>1, <1>2
<1>4. v5 = [s \in Z |-> q]
  BY <1>2 DEF OM!Init
<1>5. OM!OutageTypes
  BY <1>3, <1>4 DEF OM!Init, OM!OutageTypes
<1>6. ASSUME NEW s \in Z PROVE OM!Waits(s) /\ OM!Answers(s)
  <2>1. v5[s] = q /\ v6[s] = None /\ 1 <= N + 1
    BY <1>1, <1>4 DEF OM!Init
  <2> QED BY <1>3, <2>1 DEF OM!Waits, OM!Answers
<1> QED BY <1>5, <1>6 DEF OM!OutageInv

\* Whoever has no evaluation left was told what the monitor last saw.
LEMMA OutageHolds ==
  ASSUME OM!NoneIsNoHealth, OM!OutageInv
  PROVE  OM!TypeOK /\ OM!OutageIsAnswered
<1>1. OM!OutageTypes /\ None \notin BOOLEAN /\ N \in Nat
  BY DEF OM!OutageInv, OM!NoneIsNoHealth
<1>2. ASSUME NEW s \in Z
      PROVE  Len(v5[s]) <= N + 1 /\ \A n \in DOMAIN v5[s] : v5[s][n] \in 1 .. N
  <2>1. PICK q : q = v5[s]
    OBVIOUS
  <2>2. q \in Seq(1 .. N)
    BY <1>1, <2>1 DEF OM!OutageTypes
  <2>3. Len(q) \in Nat /\ (Len(q) <= N + 1 \/ Len(q) <= N)
    BY <2>1, <2>2 DEF OM!OutageInv, OM!Waits
  <2>4. Len(q) <= N + 1
    BY <1>1, <2>3
  <2>5. \A n \in DOMAIN q : q[n] \in 1 .. N
    <3>1. DOMAIN q = 1 .. Len(q)
      BY <2>2, LenProperties
    <3>2. \A n \in 1 .. Len(q) : q[n] \in 1 .. N
      BY <2>2, ElementOfSeq
    <3> QED BY <3>1, <3>2
  <2> QED BY <2>1, <2>4, <2>5
<1>3. OM!TypeOK
  BY <1>1, <1>2 DEF OM!TypeOK, OM!OutageTypes, OM!Health
<1>4. ASSUME NEW s \in Z, v5[s] = <<>>, v6[s] = None, v4[s] # None
      PROVE  v7[s] = v4[s] \/ s \in v8 \/ s \in v9
  <2>1. OM!Seen(v7[s], s) \/ s \in v8 \/ s \in v9
    BY <1>4 DEF OM!OutageInv, OM!Answers
  <2>2. v7[s] \in {None, TRUE, FALSE} /\ v4[s] \in {None, TRUE, FALSE}
    BY <1>1 DEF OM!OutageTypes
  <2> QED BY <1>4, <2>1, <2>2 DEF OM!Seen
<1> QED BY <1>3, <1>4 DEF OM!OutageIsAnswered

-----------------------------------------------------------------------------
(* The authorizations (AZ): v1 the clock, v2 the market, v3 the reports the *)
(* guard stores, v4 the active strategy, v5 the runs.                       *)

AZ == INSTANCE Authorization WITH
     Runs <- X, Strategies <- Z, Policy <- Secret, Limits <- Sealed, Markets <- Observed,
     MaxSpread <- 5, MinTraded <- 1, Bps <- Bps, Scale <- Bps * Bps, MaxLifetime <- MaxLifetime,
     MaxTime <- N, MaxNonce <- N + 1, MaxClose <- N + 2,
     now <- v1, market <- v2, stored <- v3, active <- v4, run <- v5

\* What a division rounded down leaves, and products of what is at most another.
LEMMA Floor ==
  ASSUME NEW a \in Nat, NEW d \in Nat \ {0}
  PROVE  a \div d \in Nat /\ (a \div d) * d <= a
BY SMT

\* A product grows with its factor.
LEMMA Grows ==
  ASSUME NEW a \in Nat, NEW b \in Nat, NEW d \in Nat, a <= b
  PROVE  a * d <= b * d
BY SMT

\* The least of two sums is at most each, token by token.
LEMMA LeastOfBoth ==
  ASSUME NEW f \in AZ!Sums, NEW g \in AZ!Sums
  PROVE  AZ!Least(f, g) \in AZ!Sums /\ \A t \in AZ!Tokens : AZ!Least(f, g)[t] <= f[t] /\ AZ!Least(f, g)[t] <= g[t]
BY DEF AZ!Least, AZ!Lesser, AZ!Sums

\* The lesser of two numbers is at most each.
LEMMA LesserOfBoth ==
  ASSUME NEW a \in Nat, NEW b \in Nat
  PROVE  AZ!Lesser(a, b) \in Nat /\ AZ!Lesser(a, b) <= a /\ AZ!Lesser(a, b) <= b
BY DEF AZ!Lesser

\* A value of the Maker, in units of the token paid, is worth no more at the midpoint.
LEMMA ValueFits ==
  ASSUME NEW m \in Observed, AZ!WellObserved(m), AZ!InputsAreTyped, NEW v \in Nat
  PROVE  /\ AZ!Midpoint(m) \in Nat \ {0}
         /\ AZ!Token1ValueToToken0(v, m) \in Nat
         /\ \A a \in Nat : a <= AZ!Token1ValueToToken0(v, m) => a * AZ!Midpoint(m) <= v
<1>1. m.bid \in Nat /\ m.ask \in Nat /\ 0 < m.bid /\ m.bid <= m.ask
  BY DEF AZ!InputsAreTyped, AZ!WellObserved
<1>2. AZ!Midpoint(m) \in Nat \ {0}
  BY <1>1 DEF AZ!Midpoint
<1>3. PICK d \in Nat \ {0} : d = AZ!Midpoint(m)
  BY <1>2
<1>4. PICK q : q = v \div d
  OBVIOUS
<1>5. q \in Nat /\ q * d <= v
  BY <1>4, Floor
<1>6. ASSUME NEW a \in Nat, a <= q PROVE a * d <= v
  <2>1. a * d <= q * d
    BY <1>5, <1>6, Grows
  <2>2. a * d \in Nat /\ q * d \in Nat
    BY <1>5
  <2> QED BY <1>5, <2>1, <2>2
<1>7. AZ!Token1ValueToToken0(v, m) = q
  BY <1>3, <1>4 DEF AZ!Token1ValueToToken0
<1> QED BY <1>2, <1>3, <1>5, <1>6, <1>7

\* What the Maker's limits allow per swap.
LEMMA MostFits ==
  ASSUME NEW m \in Observed, AZ!WellObserved(m), AZ!InputsAreTyped, NEW l \in Sealed
  PROVE  /\ AZ!MakerMost(l, m) \in AZ!Sums
         /\ \A a \in Nat, t \in AZ!Tokens : a <= AZ!MakerMost(l, m)[t] =>
              IF l.version \in {2, 3} THEN AZ!Worth(a, t, m) <= l.swapValue ELSE a <= l.most[t]
<1>1. AZ!LimitsAreTyped(l)
  BY DEF AZ!InputsAreTyped
<1>2. CASE l.version \in {2, 3}
  <2>1. PICK v \in Nat : v = l.swapValue
    BY <1>1, <1>2 DEF AZ!LimitsAreTyped
  <2>2. PICK q \in Nat : q = AZ!Token1ValueToToken0(v, m)
    BY ValueFits
  <2>3. \A a \in Nat : a <= q => a * AZ!Midpoint(m) <= v
    BY <2>2, ValueFits
  <2>4. AZ!MakerMost(l, m) = [t \in AZ!Tokens |-> IF t = 0 THEN q ELSE v]
    BY <1>2, <2>1, <2>2 DEF AZ!MakerMost
  <2> QED BY <1>2, <2>1, <2>3, <2>4 DEF AZ!Sums, AZ!Worth, AZ!Tokens
<1>3. CASE l.version \notin {2, 3}
  BY <1>1, <1>3 DEF AZ!MakerMost, AZ!LimitsAreTyped
<1> QED BY <1>2, <1>3

\* What the Maker's limits allow to hold after a swap.
LEMMA PostFits ==
  ASSUME NEW m \in Observed, AZ!WellObserved(m), AZ!InputsAreTyped, NEW l \in Sealed
  PROVE  /\ AZ!MakerPost(l, m) \in AZ!Sums
         /\ \A a \in Nat, t \in AZ!Tokens : a <= AZ!MakerPost(l, m)[t] =>
              IF l.version = 4 THEN a <= l.post[t] ELSE AZ!Worth(a, t, m) <= l.budget
         /\ \A a \in Nat : a <= AZ!MakerPost(l, m)[0] =>
              /\ l.version # 4 => AZ!Worth(a, 0, m) * Bps <= l.budget * l.shareBps
              /\ l.version \in {2, 3} => AZ!Worth(a, 0, m) <= l.token0Value
<1>1. AZ!LimitsAreTyped(l) /\ Bps \in Nat \ {0}
  BY DEF AZ!InputsAreTyped
<1>2. CASE l.version = 4
  BY <1>1, <1>2 DEF AZ!MakerPost, AZ!LimitsAreTyped
<1>3. CASE l.version # 4
  <2>1. PICK budget \in Nat, share \in 0 .. Bps : budget = l.budget /\ share = l.shareBps
    BY <1>1, <1>3 DEF AZ!LimitsAreTyped
  <2>2. PICK p \in Nat : p = budget * share /\ p <= budget * Bps
    <3>1. share \in Nat /\ share <= Bps /\ Bps \in Nat
      BY <1>1
    <3>2. share * budget <= Bps * budget
      BY <3>1, Grows
    <3>3. share * budget = budget * share /\ Bps * budget = budget * Bps /\ budget * share \in Nat
      BY <3>1
    <3> QED BY <3>2, <3>3
  <2>3. PICK part1 \in Nat : part1 = p \div Bps /\ part1 * Bps <= p
    BY <1>1, Floor
  <2>4. part1 <= budget
    BY <1>1, <2>2, <2>3
  <2>5. PICK v \in Nat : /\ v = IF l.version = 1 THEN part1 ELSE AZ!Lesser(part1, l.token0Value)
                         /\ v <= part1 /\ (l.version # 1 => v <= l.token0Value)
    <3>1. CASE l.version = 1
      BY <2>3, <3>1
    <3>2. CASE l.version # 1
      <4>1. l.token0Value \in Nat
        BY <1>1, <1>3, <3>2 DEF AZ!LimitsAreTyped
      <4>2. PICK v \in Nat : v = AZ!Lesser(part1, l.token0Value) /\ v <= part1 /\ v <= l.token0Value
        BY <4>1, LesserOfBoth
      <4> QED BY <3>2, <4>2
    <3> QED BY <3>1, <3>2
  <2>6. PICK q \in Nat : q = AZ!Token1ValueToToken0(v, m)
    BY ValueFits
  <2>7. AZ!MakerPost(l, m) = [t \in AZ!Tokens |-> IF t = 0 THEN q ELSE budget]
    BY <1>3, <2>1, <2>2, <2>3, <2>5, <2>6 DEF AZ!MakerPost
  <2>8. ASSUME NEW a \in Nat, a <= q
        PROVE  /\ AZ!Worth(a, 0, m) \in Nat /\ AZ!Worth(a, 0, m) <= v
    <3>1. a * AZ!Midpoint(m) <= v /\ AZ!Midpoint(m) \in Nat
      BY <2>6, <2>8, ValueFits
    <3>2. a * AZ!Midpoint(m) \in Nat
      BY <3>1
    <3> QED BY <3>1, <3>2 DEF AZ!Worth
  <2>9. ASSUME NEW a \in Nat, a <= q
        PROVE  /\ AZ!Worth(a, 0, m) <= budget /\ AZ!Worth(a, 0, m) * Bps <= p
               /\ l.version # 1 => AZ!Worth(a, 0, m) <= l.token0Value
    <3>1. PICK w \in Nat : w = AZ!Worth(a, 0, m) /\ w <= part1 /\ w <= v
      BY <2>5, <2>8, <2>9
    <3>2. w * Bps <= part1 * Bps
      BY <1>1, <3>1, Grows
    <3>3. w * Bps <= p
      <4>1. w * Bps \in Nat /\ part1 * Bps \in Nat
        BY <1>1
      <4> QED BY <2>3, <3>2, <4>1
    <3>4. l.version # 1 => w <= l.token0Value
      <4>1. l.version # 1 => l.token0Value \in Nat
        BY <1>1, <1>3 DEF AZ!LimitsAreTyped
      <4> QED BY <2>5, <3>1, <4>1
    <3> QED BY <2>4, <3>1, <3>3, <3>4
  <2>10. AZ!MakerPost(l, m) \in AZ!Sums
    BY <2>7 DEF AZ!Sums
  <2>11. AZ!MakerPost(l, m)[0] = q /\ AZ!MakerPost(l, m)[1] = budget
    BY <2>7 DEF AZ!Tokens
  <2>12. \A a \in Nat : AZ!Worth(a, 1, m) = a
    BY DEF AZ!Worth
  <2> QED BY <1>3, <2>1, <2>2, <2>9, <2>10, <2>11, <2>12 DEF AZ!Tokens
<1> QED BY <1>2, <1>3

\* A rule that applies is the first whose conditions hold.
LEMMA RuleApplies ==
  ASSUME AZ!InputsAreTyped, NEW p \in [rules : Seq(AZ!Rules), post : AZ!Sums], NEW m,
         AZ!MatchRule(p, m) # None
  PROVE  \E i \in DOMAIN p.rules :
           /\ AZ!MatchRule(p, m) = p.rules[i] /\ p.rules[i] \in AZ!Rules
           /\ AZ!Matches(p.rules[i].when, m) /\ \A k \in 1 .. i - 1 : ~AZ!Matches(p.rules[k].when, m)
<1> DEFINE fits == {i \in DOMAIN p.rules : AZ!Matches(p.rules[i].when, m)}
<1>1. DOMAIN p.rules = 1 .. Len(p.rules) /\ Len(p.rules) \in Nat /\ p.rules \in Seq(AZ!Rules)
  OBVIOUS
<1>2. fits # {} /\ AZ!MatchRule(p, m) = p.rules[CHOOSE i \in fits : \A k \in fits : i <= k]
  BY DEF AZ!MatchRule
<1>3. fits \in SUBSET Nat
  BY <1>1
<1>4. \E i \in fits : \A k \in fits : i <= k
  <2> HIDE DEF fits
  <2> QED BY <1>2, <1>3, Smallest
<1>5. PICK i \in fits : /\ \A k \in fits : i <= k
                        /\ i = CHOOSE j \in fits : \A k \in fits : j <= k
  <2> HIDE DEF fits
  <2> QED BY <1>4
<1>6. AZ!MatchRule(p, m) = p.rules[i]
  BY <1>2, <1>5
<1>7. i \in 1 .. Len(p.rules) /\ AZ!Matches(p.rules[i].when, m)
  BY <1>1, <1>5
<1>8. \A k \in 1 .. i - 1 : k \in DOMAIN p.rules /\ ~(i <= k)
  BY <1>1, <1>7
<1>9. \A k \in 1 .. i - 1 : ~AZ!Matches(p.rules[k].when, m)
  BY <1>5, <1>8
<1> QED BY <1>1, <1>6, <1>7, <1>9

\* The intersection of a rule and of limits is within both.
LEMMA IntersectionFits ==
  ASSUME AZ!InputsAreTyped, NEW s \in Z, NEW l \in Sealed, NEW m \in Observed, AZ!WellObserved(m),
         NEW t \in Nat, NEW c, c = AZ!ComputeAuthorization(Secret[s], l, m, t)
  PROVE  c \in AZ!Reports /\ (c.dirs # {} => AZ!Bounded(c, l, m, Secret[s]))
<1>1. PICK p \in [rules : Seq(AZ!Rules), post : AZ!Sums] : p = Secret[s]
  BY DEF AZ!InputsAreTyped
<1>2. PICK rule : rule = AZ!MatchRule(p, m)
  OBVIOUS
<1>3. AZ!LimitsAreTyped(l) /\ m.balance \in AZ!Sums /\ MaxLifetime \in Nat
  BY DEF AZ!InputsAreTyped
<1>4. PICK most : most = IF rule = None THEN AZ!Zero ELSE AZ!Least(rule.most, AZ!MakerMost(l, m))
  OBVIOUS
<1>5. PICK post \in AZ!Sums : /\ post = AZ!Least(p.post, AZ!MakerPost(l, m))
                             /\ \A k \in AZ!Tokens : post[k] <= p.post[k] /\ post[k] <= AZ!MakerPost(l, m)[k]
  <2>1. p.post \in AZ!Sums /\ AZ!MakerPost(l, m) \in AZ!Sums
    BY PostFits
  <2> QED BY <2>1, LeastOfBoth
<1>6. PICK dirs : dirs = IF rule = None \/ \E k \in AZ!Tokens : most[k] = 0 THEN {}
                        ELSE {k \in rule.allows : m.balance[k] < post[k]}
  OBVIOUS
<1>7. PICK ttl : ttl = AZ!Lesser(IF rule = None THEN MaxLifetime ELSE rule.ttl, AZ!Lesser(l.ttl, MaxLifetime))
  OBVIOUS
<1>8. c = [nonce |-> t, after |-> t, standing |-> AZ!Standing(l), until |-> IF AZ!Standing(l) THEN 0 ELSE t + ttl,
           dirs |-> dirs, most |-> IF dirs = {} THEN AZ!Zero ELSE most,
           post |-> IF dirs = {} THEN AZ!Zero ELSE post]
  BY <1>1, <1>2, <1>4, <1>5, <1>6, <1>7 DEF AZ!ComputeAuthorization
<1>9. AZ!Standing(l) = (l.version \in {3, 4}) /\ AZ!Standing(l) \in BOOLEAN /\ AZ!Zero \in AZ!Sums
  BY DEF AZ!Standing, AZ!Zero, AZ!Sums, AZ!Tokens
<1>10. CASE rule = None
  <2>1. dirs = {}
    BY <1>6, <1>10
  <2>2. ~AZ!Standing(l) => ttl \in Nat
    <3>1. ~AZ!Standing(l) => l.ttl \in Nat
      BY <1>3 DEF AZ!LimitsAreTyped, AZ!Standing
    <3> QED BY <1>3, <1>7, <1>10, <3>1, LesserOfBoth
  <2>3. (IF AZ!Standing(l) THEN 0 ELSE t + ttl) \in Nat
    BY <1>9, <2>2
  <2> QED BY <1>8, <1>9, <2>1, <2>3 DEF AZ!Reports
<1>11. CASE rule # None
  <2>1. PICK i \in DOMAIN p.rules :
          /\ rule = p.rules[i] /\ rule \in AZ!Rules
          /\ AZ!Matches(p.rules[i].when, m) /\ \A k \in 1 .. i - 1 : ~AZ!Matches(p.rules[k].when, m)
    BY <1>2, <1>11, RuleApplies
  <2>2. rule.most \in AZ!Sums /\ rule.allows \subseteq AZ!Tokens /\ rule.ttl \in Nat
    BY <2>1 DEF AZ!Rules
  <2>3. most \in AZ!Sums /\ \A k \in AZ!Tokens : most[k] <= rule.most[k] /\ most[k] <= AZ!MakerMost(l, m)[k]
    BY <1>4, <1>11, <2>2, MostFits, LeastOfBoth
  <2>4. dirs \subseteq rule.allows /\ \A k \in dirs : m.balance[k] < post[k]
    BY <1>6
  <2>5. ~AZ!Standing(l) => ttl \in Nat /\ ttl <= rule.ttl /\ ttl <= l.ttl
    <3>1. ASSUME ~AZ!Standing(l) PROVE l.ttl \in Nat
      BY <1>3, <3>1 DEF AZ!LimitsAreTyped, AZ!Standing
    <3>2. ASSUME ~AZ!Standing(l) PROVE ttl \in Nat /\ ttl <= rule.ttl /\ ttl <= l.ttl
      <4>1. PICK b \in Nat : b = AZ!Lesser(l.ttl, MaxLifetime) /\ b <= l.ttl
        BY <1>3, <3>1, <3>2, LesserOfBoth
      <4>2. ttl \in Nat /\ ttl <= rule.ttl /\ ttl <= b
        BY <1>7, <1>11, <2>2, <4>1, LesserOfBoth
      <4> QED BY <3>1, <3>2, <4>1, <4>2
    <3> QED BY <3>2
  <2>6. (IF AZ!Standing(l) THEN 0 ELSE t + ttl) \in Nat
    BY <1>9, <2>5
  <2>7. dirs \subseteq AZ!Tokens
    BY <2>2, <2>4
  <2>8. c \in AZ!Reports
    BY <1>8, <1>9, <2>3, <2>6, <2>7 DEF AZ!Reports
  <2>9. ASSUME c.dirs # {} PROVE AZ!Bounded(c, l, m, p)
    <3>1. c.dirs = dirs /\ c.most = most /\ c.post = post /\ c.standing = AZ!Standing(l) /\ c.after = t
      BY <1>8, <2>9
    <3>2. ~AZ!Standing(l) => c.until = t + ttl
      BY <1>8
    <3>3. \A k \in AZ!Tokens : most[k] \in Nat /\ post[k] \in Nat
      BY <2>3 DEF AZ!Sums
    <3>4. ~AZ!Standing(l) => c.until - c.after <= rule.ttl /\ c.until - c.after <= l.ttl
      BY <2>5, <3>1, <3>2
    <3>5. /\ c.dirs \subseteq p.rules[i].allows
          /\ \A k \in AZ!Tokens : c.most[k] <= p.rules[i].most[k] /\ c.post[k] <= p.post[k]
          /\ c.standing \/ c.until - c.after <= p.rules[i].ttl
      BY <1>5, <2>1, <2>3, <2>4, <3>1, <3>4
    <3>6. \A k \in AZ!Tokens :
            /\ IF l.version \in {2, 3} THEN AZ!Worth(c.most[k], k, m) <= l.swapValue ELSE c.most[k] <= l.most[k]
            /\ IF l.version = 4 THEN c.post[k] <= l.post[k] ELSE AZ!Worth(c.post[k], k, m) <= l.budget
            /\ k \in c.dirs => m.balance[k] < c.post[k]
      BY <1>5, <2>3, <2>4, <3>1, <3>3, MostFits, PostFits
    <3>7. /\ l.version # 4 => AZ!Worth(c.post[0], 0, m) * Bps <= l.budget * l.shareBps
          /\ l.version \in {2, 3} => AZ!Worth(c.post[0], 0, m) <= l.token0Value
      <4>1. post[0] \in Nat /\ post[0] <= AZ!MakerPost(l, m)[0]
        BY <1>5, <3>3 DEF AZ!Tokens
      <4> QED BY <3>1, <4>1, PostFits
    <3>8. IF l.version \in {3, 4} THEN c.standing ELSE c.until - c.after <= l.ttl
      BY <1>9, <3>1, <3>4
    <3> QED BY <2>1, <3>5, <3>6, <3>7, <3>8 DEF AZ!Bounded
  <2> QED BY <1>1, <2>8, <2>9
<1> QED BY <1>10, <1>11

\* What the compiled envelope leaves of a report is within it too.
LEMMA ClampFits ==
  ASSUME AZ!InputsAreTyped, NEW l \in Sealed, l.version = 4, NEW m \in Observed, NEW p,
         p \in [rules : Seq(AZ!Rules), post : AZ!Sums],
         NEW r \in AZ!Reports, r.dirs # {} => AZ!Bounded(r, l, m, p),
         NEW c, c = AZ!ClampBuilderReport(r, l, m)
  PROVE  c \in AZ!Reports /\ (c.dirs # {} => AZ!Bounded(c, l, m, p))
<1>1. l.most \in AZ!Sums /\ l.post \in AZ!Sums
  BY DEF AZ!InputsAreTyped, AZ!LimitsAreTyped
<1>2. r.most \in AZ!Sums /\ r.post \in AZ!Sums /\ r.dirs \subseteq AZ!Tokens /\ AZ!Zero \in AZ!Sums
  BY DEF AZ!Reports, AZ!Zero, AZ!Sums, AZ!Tokens
<1>3. PICK most \in AZ!Sums : /\ most = AZ!Least(r.most, l.most)
                            /\ \A t \in AZ!Tokens : most[t] <= r.most[t] /\ most[t] <= l.most[t]
  BY <1>1, <1>2, LeastOfBoth
<1>4. PICK post \in AZ!Sums : /\ post = AZ!Least(r.post, l.post)
                            /\ \A t \in AZ!Tokens : post[t] <= r.post[t] /\ post[t] <= l.post[t]
  BY <1>1, <1>2, LeastOfBoth
<1>5. PICK dirs : dirs = IF \E t \in AZ!Tokens : most[t] = 0 THEN {} ELSE {t \in r.dirs : m.balance[t] < post[t]}
  OBVIOUS
<1>6. c = [r EXCEPT !.dirs = dirs, !.most = IF dirs = {} THEN AZ!Zero ELSE most,
                    !.post = IF dirs = {} THEN AZ!Zero ELSE post]
  BY <1>3, <1>4, <1>5 DEF AZ!ClampBuilderReport
<1>7. /\ c.dirs = dirs /\ c.standing = r.standing /\ c.until = r.until /\ c.after = r.after
      /\ dirs # {} => c.most = most /\ c.post = post
      /\ dirs \subseteq r.dirs /\ \A t \in dirs : m.balance[t] < post[t]
  BY <1>5, <1>6 DEF AZ!Reports
<1>8. c \in AZ!Reports
  BY <1>2, <1>3, <1>4, <1>6, <1>7 DEF AZ!Reports
<1>9. ASSUME c.dirs # {} PROVE AZ!Bounded(c, l, m, p)
  <2>1. AZ!Bounded(r, l, m, p) /\ c.most = most /\ c.post = post
    BY <1>7, <1>9
  <2>2. PICK i \in DOMAIN p.rules :
          /\ AZ!Matches(p.rules[i].when, m) /\ \A k \in 1 .. i - 1 : ~AZ!Matches(p.rules[k].when, m)
          /\ r.dirs \subseteq p.rules[i].allows
          /\ \A t \in AZ!Tokens : r.most[t] <= p.rules[i].most[t] /\ r.post[t] <= p.post[t]
          /\ r.standing \/ r.until - r.after <= p.rules[i].ttl
    BY <2>1 DEF AZ!Bounded
  <2>3. \A t \in AZ!Tokens : /\ most[t] \in Nat /\ r.most[t] \in Nat /\ p.rules[i].most[t] \in Nat
                            /\ post[t] \in Nat /\ r.post[t] \in Nat /\ p.post[t] \in Nat
    <3>1. p.rules[i] \in AZ!Rules
      BY <2>2
    <3> QED BY <1>2, <1>3, <1>4, <3>1 DEF AZ!Sums, AZ!Rules
  <2>4. \A t \in AZ!Tokens : c.most[t] <= p.rules[i].most[t] /\ c.post[t] <= p.post[t]
    BY <1>3, <1>4, <2>1, <2>2, <2>3
  <2>5. c.standing
    BY <1>7, <2>1 DEF AZ!Bounded
  <2>6. \A t \in AZ!Tokens :
          /\ c.most[t] <= l.most[t] /\ c.post[t] <= l.post[t]
          /\ t \in c.dirs => m.balance[t] < c.post[t]
    BY <1>3, <1>4, <1>7, <2>1
  <2>7. /\ c.dirs \subseteq p.rules[i].allows
        /\ c.standing \/ c.until - c.after <= p.rules[i].ttl
    BY <1>7, <2>2, <2>5
  <2>8. \A t \in AZ!Tokens :
          /\ IF l.version \in {2, 3} THEN AZ!Worth(c.most[t], t, m) <= l.swapValue ELSE c.most[t] <= l.most[t]
          /\ IF l.version = 4 THEN c.post[t] <= l.post[t] ELSE AZ!Worth(c.post[t], t, m) <= l.budget
          /\ t \in c.dirs => m.balance[t] < c.post[t]
    <3>1. l.version = 4 /\ l.version \notin {2, 3}
      OBVIOUS
    <3> QED BY <3>1, <2>6
  <2>9. /\ l.version # 4 => AZ!Worth(c.post[0], 0, m) * Bps <= l.budget * l.shareBps
        /\ l.version \in {2, 3} => AZ!Worth(c.post[0], 0, m) <= l.token0Value
        /\ IF l.version \in {3, 4} THEN c.standing ELSE c.until - c.after <= l.ttl
    BY <2>5
  <2> QED BY <2>2, <2>4, <2>7, <2>8, <2>9 DEF AZ!Bounded
<1> QED BY <1>8, <1>9

\* The runs that are not at a step stay as they are.
LEMMA RunsGoOn ==
  ASSUME AZ!RunsInv, NEW x \in X, NEW e, v5' = [v5 EXCEPT ![x] = e],
         e \in [phase : AZ!Phases, strategy : Z \cup {None}, limits : Sealed \cup {None},
                market : Observed \cup {None}, active : Z \cup {None}, report : AZ!Reports \cup {None}],
         \/ e = AZ!Idle
         \/ /\ e.phase # "idle" /\ e.report \in AZ!Reports /\ e.limits \in Sealed /\ e.strategy \in Z
            /\ e.report.dirs # {} => AZ!Bounded(e.report, e.limits, e.market, Secret[e.strategy]),
         v1' \in 1 .. N, v2' \in Observed, v3' \in [Z -> AZ!Reports \cup {None}], v4' \in Z \cup {None}
  PROVE  AZ!RunsInv'
<1>1. DOMAIN v5' = X /\ v5'[x] = e /\ \A y \in X : y # x => v5'[y] = v5[y]
  BY DEF AZ!RunsInv
<1> QED BY <1>1 DEF AZ!RunsInv, AZ!Computed

\* What a run remembers has its types.
LEMMA RunIs ==
  ASSUME AZ!RunsInv, NEW x \in X
  PROVE  v5[x] \in [phase : AZ!Phases, strategy : Z \cup {None}, limits : Sealed \cup {None},
                    market : Observed \cup {None}, active : Z \cup {None}, report : AZ!Reports \cup {None}]
BY DEF AZ!RunsInv

\* A run begins with the limits it was given.
LEMMA EvaluateRunKeeps ==
  ASSUME AZ!InputsAreTyped, AZ!RunsInv, NEW x \in X, NEW s \in Z, NEW l \in Sealed, AZ!Evaluate(x, s, l)
  PROVE  AZ!RunsInv'
<1>1. PICK m \in Observed, t \in Nat : m = v2 /\ t = v1
  BY DEF AZ!RunsInv
<1>2. PICK c : c = AZ!ComputeAuthorization(Secret[s], l, m, t)
  OBVIOUS
<1>3. PICK r : r = IF l.version = 4 /\ AZ!Valid(c) THEN AZ!ClampBuilderReport(c, l, m) ELSE c
  OBVIOUS
<1>4. PICK e : e = [phase |-> IF AZ!Valid(r) THEN "computed" ELSE "invalid", strategy |-> s,
                    limits |-> l, market |-> m, active |-> None, report |-> r]
  OBVIOUS
<1>5. AZ!WellObserved(m) /\ v5' = [v5 EXCEPT ![x] = e] /\ UNCHANGED <<v1, v2, v3, v4>>
  BY <1>1, <1>2, <1>3, <1>4 DEF AZ!Evaluate
<1>6. c \in AZ!Reports /\ (c.dirs # {} => AZ!Bounded(c, l, m, Secret[s]))
  BY <1>2, <1>5, IntersectionFits
<1>7. Secret[s] \in [rules : Seq(AZ!Rules), post : AZ!Sums]
  BY DEF AZ!InputsAreTyped
<1>8. r \in AZ!Reports /\ (r.dirs # {} => AZ!Bounded(r, l, m, Secret[s]))
  BY <1>3, <1>6, <1>7, ClampFits
<1>9. /\ e \in [phase : AZ!Phases, strategy : Z \cup {None}, limits : Sealed \cup {None},
                market : Observed \cup {None}, active : Z \cup {None}, report : AZ!Reports \cup {None}]
      /\ e.phase # "idle" /\ e.report = r /\ e.limits = l /\ e.strategy = s /\ e.market = m
  BY <1>4, <1>8 DEF AZ!Phases
<1>10. v1' \in 1 .. N /\ v2' \in Observed /\ v3' \in [Z -> AZ!Reports \cup {None}] /\ v4' \in Z \cup {None}
  BY <1>5 DEF AZ!RunsInv
<1> QED BY <1>5, <1>8, <1>9, <1>10, RunsGoOn

\* A run that goes on with the report it computed.
LEMMA PhaseKeeps ==
  ASSUME AZ!RunsInv, NEW x \in X, NEW e, NEW to \in AZ!Phases \ {"idle"}, NEW a \in Z \cup {None},
         e = [v5[x] EXCEPT !.phase = to, !.active = a], v5[x].phase # "idle",
         v5' = [v5 EXCEPT ![x] = e],
         v1' \in 1 .. N, v2' \in Observed, v3' \in [Z -> AZ!Reports \cup {None}], v4' \in Z \cup {None}
  PROVE  AZ!RunsInv'
<1>1. PICK o : o = v5[x] /\ o \in [phase : AZ!Phases, strategy : Z \cup {None}, limits : Sealed \cup {None},
                    market : Observed \cup {None}, active : Z \cup {None}, report : AZ!Reports \cup {None}]
  BY RunIs
<1>2. /\ o.report \in AZ!Reports /\ o.limits \in Sealed /\ o.strategy \in Z
      /\ o.report.dirs # {} => AZ!Bounded(o.report, o.limits, o.market, Secret[o.strategy])
  BY <1>1 DEF AZ!RunsInv, AZ!Computed, AZ!Idle
<1>3. e = [o EXCEPT !.phase = to, !.active = a]
  BY <1>1
<1>4. /\ e \in [phase : AZ!Phases, strategy : Z \cup {None}, limits : Sealed \cup {None},
                 market : Observed \cup {None}, active : Z \cup {None}, report : AZ!Reports \cup {None}]
      /\ e.phase = to /\ e.report = o.report /\ e.limits = o.limits /\ e.strategy = o.strategy
      /\ e.market = o.market
  BY <1>1, <1>3
<1> QED BY <1>2, <1>4, RunsGoOn

\* A run goes on to its next step and stores nothing but what it wrote.
LEMMA GoesKeeps ==
  ASSUME AZ!RunsInv, NEW x \in X, NEW to \in AZ!Phases \ {"idle"}, AZ!Goes(x, to), v5[x].phase # "idle",
         UNCHANGED <<v1, v2>>, v3' \in [Z -> AZ!Reports \cup {None}], v4' \in Z \cup {None}
  PROVE  AZ!RunsInv'
<1>1. PICK o : o = v5[x] /\ o \in [phase : AZ!Phases, strategy : Z \cup {None}, limits : Sealed \cup {None},
                    market : Observed \cup {None}, active : Z \cup {None}, report : AZ!Reports \cup {None}]
  BY RunIs
<1>2. PICK a \in Z \cup {None} : a = o.active
  BY <1>1
<1>3. PICK e : e = [o EXCEPT !.phase = to]
  OBVIOUS
<1>4. e = [o EXCEPT !.phase = to, !.active = a]
  BY <1>1, <1>2, <1>3
<1>5. v5' = [v5 EXCEPT ![x] = e]
  BY <1>1, <1>3 DEF AZ!Goes, AZ!RunsInv
<1>6. v1' \in 1 .. N /\ v2' \in Observed
  BY DEF AZ!RunsInv
<1> QED BY <1>1, <1>4, <1>5, <1>6, PhaseKeeps

\* A run reads what is active.
LEMMA ReadActiveKeeps ==
  ASSUME AZ!RunsInv, NEW x \in X, AZ!ReadActive(x)
  PROVE  AZ!RunsInv'
<1>1. PICK o : o = v5[x]
  OBVIOUS
<1>2. PICK to : to = IF o.report.standing THEN "reading" ELSE "writing"
  OBVIOUS
<1>3. PICK a \in Z \cup {None} : a = v4
  BY DEF AZ!RunsInv
<1>4. PICK e : e = [o EXCEPT !.phase = to, !.active = a]
  OBVIOUS
<1>5. e = [o EXCEPT !.active = a, !.phase = to] /\ to \in AZ!Phases \ {"idle"}
  <2>1. o \in [phase : AZ!Phases, strategy : Z \cup {None}, limits : Sealed \cup {None},
                    market : Observed \cup {None}, active : Z \cup {None}, report : AZ!Reports \cup {None}]
    BY <1>1, RunIs
  <2> QED BY <1>2, <1>4, <2>1 DEF AZ!Phases
<1>6. v5' = [v5 EXCEPT ![x] = e] /\ v5[x].phase # "idle" /\ UNCHANGED <<v1, v2, v3, v4>>
  BY <1>1, <1>2, <1>3, <1>5 DEF AZ!ReadActive, AZ!RunsInv
<1>7. v1' \in 1 .. N /\ v2' \in Observed /\ v3' \in [Z -> AZ!Reports \cup {None}] /\ v4' \in Z \cup {None}
  BY <1>6 DEF AZ!RunsInv
<1> QED BY <1>1, <1>4, <1>5, <1>6, <1>7, PhaseKeeps

\* The nonce is raised above the stored one; nothing else of the report changes.
LEMMA ReadReportKeeps ==
  ASSUME AZ!InputsAreTyped, AZ!RunsInv, NEW x \in X, AZ!ReadReport(x)
  PROVE  AZ!RunsInv'
<1>1. v5[x].phase = "reading" /\ UNCHANGED <<v1, v2, v3, v4>>
  BY DEF AZ!ReadReport
<1>2. v3' \in [Z -> AZ!Reports \cup {None}] /\ v4' \in Z \cup {None} /\ v1' \in 1 .. N /\ v2' \in Observed
  BY <1>1 DEF AZ!RunsInv
<1>3. CASE AZ!Goes(x, "writing") \/ AZ!Goes(x, "unchanged") \/ AZ!Goes(x, "stale")
  BY <1>1, <1>2, <1>3, GoesKeeps DEF AZ!Phases
<1>4. CASE ~(AZ!Goes(x, "writing") \/ AZ!Goes(x, "unchanged") \/ AZ!Goes(x, "stale"))
  <2>1. PICK o : /\ o = v5[x]
                 /\ o \in [phase : AZ!Phases, strategy : Z \cup {None}, limits : Sealed \cup {None},
                          market : Observed \cup {None}, active : Z \cup {None}, report : AZ!Reports \cup {None}]
    BY RunIs
  <2>2. /\ o.report \in AZ!Reports /\ o.limits \in Sealed /\ o.strategy \in Z
        /\ o.report.dirs # {} => AZ!Bounded(o.report, o.limits, o.market, Secret[o.strategy])
    BY <1>1, <2>1 DEF AZ!RunsInv, AZ!Computed, AZ!Idle
  <2>3. PICK saved : saved = v3[o.strategy] /\ saved \in AZ!Reports
    BY <1>4, <2>1, <2>2 DEF AZ!ReadReport, AZ!RunsInv
  <2>4. PICK r : r = o.report
    OBVIOUS
  <2>5. PICK n : n = IF r.nonce <= saved.nonce THEN saved.nonce + 1 ELSE r.nonce
    OBVIOUS
  <2>6. PICK w : w = [r EXCEPT !.nonce = n]
    OBVIOUS
  <2>7. PICK e : e = [o EXCEPT !.phase = "writing", !.report = w]
    OBVIOUS
  <2>8. r \in AZ!Reports /\ r.nonce \in Nat /\ saved.nonce \in Nat /\ n \in Nat
    BY <2>2, <2>3, <2>4, <2>5 DEF AZ!Reports
  <2>9. v5' = [v5 EXCEPT ![x] = e]
    <3>1. v5' = [v5 EXCEPT ![x].phase = "writing",
                           ![x].report.nonce = IF @ <= saved.nonce THEN saved.nonce + 1 ELSE @]
      BY <1>4, <2>1, <2>3 DEF AZ!ReadReport
    <3>2. v5[x] = o /\ o.report = r /\ DOMAIN v5 = X
      BY <2>1, <2>4 DEF AZ!RunsInv
    <3> QED BY <2>1, <2>5, <2>6, <2>7, <3>1, <3>2
  <2>10. /\ w \in AZ!Reports /\ w.dirs = r.dirs /\ w.most = r.most /\ w.post = r.post
         /\ w.standing = r.standing /\ w.until = r.until /\ w.after = r.after
    BY <2>6, <2>8 DEF AZ!Reports
  <2>11. AZ!Bounded(r, o.limits, o.market, Secret[o.strategy])
           => AZ!Bounded(w, o.limits, o.market, Secret[o.strategy])
    BY <2>10 DEF AZ!Bounded
  <2>12. /\ e \in [phase : AZ!Phases, strategy : Z \cup {None}, limits : Sealed \cup {None},
                  market : Observed \cup {None}, active : Z \cup {None}, report : AZ!Reports \cup {None}]
         /\ e.phase = "writing" /\ e.report = w /\ e.limits = o.limits /\ e.strategy = o.strategy
         /\ e.market = o.market
    BY <2>1, <2>7, <2>10 DEF AZ!Phases
  <2> QED BY <1>2, <2>2, <2>4, <2>9, <2>10, <2>11, <2>12, RunsGoOn
<1> QED BY <1>3, <1>4

\* A run writes its answer.
LEMMA WriteKeeps ==
  ASSUME AZ!RunsInv, NEW x \in X, AZ!Write(x)
  PROVE  AZ!RunsInv'
<1>1. v5[x].phase = "writing" /\ UNCHANGED <<v1, v2>>
  BY DEF AZ!Write
<1>2. v5[x].report \in AZ!Reports /\ v5[x].strategy \in Z
  BY <1>1 DEF AZ!RunsInv, AZ!Computed, AZ!Idle
<1>3. v3 \in [Z -> AZ!Reports \cup {None}] /\ v4 \in Z \cup {None}
  BY DEF AZ!RunsInv
<1>4. /\ v3' \in [Z -> AZ!Reports \cup {None}] /\ v4' \in Z \cup {None}
      /\ AZ!Goes(x, "written") \/ AZ!Goes(x, "failed")
  <2>1. PICK s \in Z, r \in AZ!Reports : s = v5[x].strategy /\ r = v5[x].report
    BY <1>2
  <2>2. \/ /\ v3' = [v3 EXCEPT ![s] = r] /\ AZ!Goes(x, "written")
           /\ v4' = IF r.dirs # {} THEN s ELSE IF v4 = s THEN None ELSE v4
        \/ UNCHANGED <<v3, v4>> /\ AZ!Goes(x, "failed")
    BY <2>1 DEF AZ!Write
  <2> QED BY <1>3, <2>1, <2>2
<1> QED BY <1>1, <1>4, GoesKeeps DEF AZ!Phases

\* A run reads back what the guard stored.
LEMMA ReadBackKeeps ==
  ASSUME AZ!RunsInv, NEW x \in X, AZ!ReadBack(x)
  PROVE  AZ!RunsInv'
<1>1. /\ v5[x].phase = "written" /\ UNCHANGED <<v1, v2, v3, v4>>
      /\ AZ!Goes(x, "accepted") \/ AZ!Goes(x, "failed")
  BY DEF AZ!ReadBack
<1>2. v3' \in [Z -> AZ!Reports \cup {None}] /\ v4' \in Z \cup {None}
  BY <1>1 DEF AZ!RunsInv
<1> QED BY <1>1, <1>2, GoesKeeps DEF AZ!Phases

\* A run ends.
LEMMA EndKeeps ==
  ASSUME AZ!RunsInv, NEW x \in X, AZ!End(x)
  PROVE  AZ!RunsInv'
<1>1. v5' = [v5 EXCEPT ![x] = AZ!Idle] /\ UNCHANGED <<v1, v2, v3, v4>>
  BY DEF AZ!End
<1>2. AZ!Idle \in [phase : AZ!Phases, strategy : Z \cup {None}, limits : Sealed \cup {None},
                   market : Observed \cup {None}, active : Z \cup {None}, report : AZ!Reports \cup {None}]
  BY DEF AZ!Idle, AZ!Phases
<1>3. v1' \in 1 .. N /\ v2' \in Observed /\ v3' \in [Z -> AZ!Reports \cup {None}] /\ v4' \in Z \cup {None}
  BY <1>1 DEF AZ!RunsInv
<1> QED BY <1>1, <1>2, <1>3, RunsGoOn

\* Time passes.
LEMMA TickKeeps ==
  ASSUME N \in Nat, AZ!RunsInv, AZ!Tick
  PROVE  AZ!RunsInv'
BY DEF AZ!Tick, AZ!RunsInv, AZ!Computed

\* Every step of the evaluations keeps their invariant.
LEMMA RunsKeep ==
  ASSUME N \in Nat, AZ!InputsAreTyped, AZ!RunsInv, [AZ!Next]_(AZ!vars)
  PROVE  AZ!RunsInv'
<1>1. CASE UNCHANGED AZ!vars
  BY <1>1 DEF AZ!vars, AZ!RunsInv, AZ!Computed
<1> QED
  BY <1>1, TickKeeps, ReadActiveKeeps, ReadReportKeeps, WriteKeeps, ReadBackKeeps, EndKeeps, EvaluateRunKeeps
  DEF AZ!Next

\* At the start no run is under way.
LEMMA RunsBegin == N \in Nat \ {0} /\ AZ!Init => AZ!RunsInv
BY DEF AZ!Init, AZ!RunsInv, AZ!Idle, AZ!Phases

\* The invariant implies the types and the bounds of an authorization.
LEMMA RunsHold == AZ!RunsInv => AZ!TypeOK /\ AZ!AuthorizationIsBounded
<1> SUFFICES ASSUME AZ!RunsInv PROVE AZ!TypeOK /\ AZ!AuthorizationIsBounded
  OBVIOUS
<1>1. AZ!TypeOK
  BY DEF AZ!RunsInv, AZ!Computed, AZ!TypeOK
<1>2. AZ!AuthorizationIsBounded
  BY DEF AZ!RunsInv, AZ!Computed, AZ!AuthorizationIsBounded, AZ!Idle
<1> QED BY <1>1, <1>2

\* What a run answers is what the guard holds when it answers.
LEMMA AnswersHold ==
  ASSUME AZ!InputsAreTyped, AZ!RunsInv, [AZ!Next]_(AZ!vars)
  PROVE  AZ!AnswerIsInForce
<1> SUFFICES ASSUME NEW x \in X, v5'[x].phase \in {"accepted", "unchanged"}, v5[x].phase # v5'[x].phase
             PROVE  LET saved == v3'[v5[x].strategy] IN
                    /\ saved # None /\ AZ!Terms(saved) = AZ!Terms(v5[x].report)
                    /\ v5'[x].phase = "accepted" => saved = v5[x].report
  BY DEF AZ!AnswerIsInForce
<1>1. DOMAIN v5 = X
  BY DEF AZ!RunsInv
<1>2. AZ!ReadBack(x) \/ AZ!ReadReport(x)
  <2>1. ASSUME NEW y \in X, y # x,
               \/ AZ!ReadActive(y) \/ AZ!ReadReport(y) \/ AZ!Write(y) \/ AZ!ReadBack(y) \/ AZ!End(y)
               \/ \E s \in Z, l \in Sealed : AZ!Evaluate(y, s, l)
        PROVE  FALSE
    <3>1. v5'[x] = v5[x]
      BY <1>1, <2>1 DEF AZ!ReadActive, AZ!ReadReport, AZ!Write, AZ!ReadBack, AZ!End, AZ!Evaluate, AZ!Goes
    <3> QED BY <3>1
  <2>2. ~(AZ!Tick \/ UNCHANGED AZ!vars)
    BY DEF AZ!Tick, AZ!vars
  <2>3. ~AZ!ReadActive(x)
    BY <1>1, RunIs DEF AZ!ReadActive
  <2>4. ~AZ!Write(x)
    BY <1>1, RunIs DEF AZ!Write, AZ!Goes
  <2>5. ~AZ!End(x)
    BY <1>1 DEF AZ!End, AZ!Idle
  <2>6. ~ \E s \in Z, l \in Sealed : AZ!Evaluate(x, s, l)
    BY <1>1 DEF AZ!Evaluate
  <2> QED BY <2>1, <2>2, <2>3, <2>4, <2>5, <2>6 DEF AZ!Next
<1>3. CASE AZ!ReadBack(x)
  <2>1. v5[x].phase = "written" /\ v3' = v3 /\ AZ!Goes(x, IF AZ!ReadsBack(x) THEN "accepted" ELSE "failed")
    BY <1>3 DEF AZ!ReadBack
  <2>2. AZ!ReadsBack(x)
    BY <1>1, <2>1, RunIs DEF AZ!Goes
  <2>3. v3[v5[x].strategy] = v5[x].report /\ v5[x].report # None
    BY <2>1, <2>2 DEF AZ!ReadsBack, AZ!RunsInv, AZ!Computed, AZ!Idle, AZ!InputsAreTyped
  <2> QED BY <2>1, <2>3
<1>4. CASE AZ!ReadReport(x)
  <2>1. PICK o : o = v5[x]
    OBVIOUS
  <2>2. PICK saved : saved = v3[o.strategy]
    OBVIOUS
  <2>3. v3' = v3 /\ o.phase = "reading"
    BY <1>4, <2>1 DEF AZ!ReadReport
  <2>4. saved # None /\ AZ!SameStanding(x, saved) /\ v5'[x].phase = "unchanged"
    <3>1. o \in [phase : AZ!Phases, strategy : Z \cup {None}, limits : Sealed \cup {None},
                 market : Observed \cup {None}, active : Z \cup {None}, report : AZ!Reports \cup {None}]
      BY <2>1, RunIs
    <3>2. \A to : AZ!Goes(x, to) => v5'[x].phase = to
      BY <1>1, <2>1, <3>1 DEF AZ!Goes
    <3>3. \/ AZ!Goes(x, "writing") \/ AZ!Goes(x, "stale")
          \/ saved # None /\ AZ!SameStanding(x, saved) /\ AZ!Goes(x, "unchanged")
          \/ v5' = [v5 EXCEPT ![x].phase = "writing",
                              ![x].report.nonce = IF @ <= saved.nonce THEN saved.nonce + 1 ELSE @]
      BY <1>4, <2>1, <2>2 DEF AZ!ReadReport
    <3>4. ASSUME v5' = [v5 EXCEPT ![x].phase = "writing",
                                  ![x].report.nonce = IF @ <= saved.nonce THEN saved.nonce + 1 ELSE @]
          PROVE  v5'[x].phase = "writing"
      BY <1>1, <2>1, <3>1, <3>4
    <3> QED BY <3>2, <3>3, <3>4
  <2> QED BY <2>1, <2>2, <2>3, <2>4 DEF AZ!SameStanding
<1> QED BY <1>2, <1>3, <1>4
=============================================================================
