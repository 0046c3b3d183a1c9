--------------------------- MODULE WalletExecution ---------------------------
(***************************************************************************)
(* Transactions that a Maker's browser wallet signs and sends while the    *)
(* Builder service only prepares them and looks for them on chain          *)
(* (packages/builder-service: wallet-execution.ts, wallet-chain.ts,        *)
(* transaction-plans.ts; frontend: WalletTransactions.tsx).                *)
(*                                                                         *)
(* The actors: browser tabs, each with at most one request or wallet       *)
(* prompt; checks in flight, which read the journal and the chain and      *)
(* write later; the wallet itself, which may reprice, cancel or send       *)
(* something else; and a chain whose top may be reorganised and whose      *)
(* nodes may lag behind.  A write under the journal's optimistic version   *)
(* happens only if nothing was written in between: a check is 'dated' once *)
(* its row has been written, which is all the version number is for.       *)
(***************************************************************************)
EXTENDS Naturals, Sequences, FiniteSets, FiniteSetTheorems, TLAPS

CONSTANTS
  Steps,       \* the transactions of the reviewed plans
  After,       \* step -> the step its preflight wants to see mined, or None
  Once,        \* steps that a chain refuses to do twice (ship, dock)
  Other,       \* any transaction of this wallet that no plan asks for
  Tabs, Checks,
  MaxNonce,    \* bound of the model: transactions the account sends
  MaxRows,     \* bound of the model: requests in the journal
  MaxReorgs,   \* bound of the model
  MaxOwn,      \* bound of the model: what the wallet sends of its own accord
  PoolSeen,    \* the service's node counts what the wallet has sent and is not mined
  Unsent,      \* a hash that no transaction of the account has
  None

ASSUME WalletBounds ==
  /\ MaxNonce \in Nat /\ MaxRows \in Nat /\ MaxReorgs \in Nat /\ MaxOwn \in Nat /\ PoolSeen \in BOOLEAN
  /\ Other \notin Steps /\ After \in [Steps -> Steps \cup {None}] /\ Once \subseteq Steps
  /\ None # Unsent
  /\ {None, Unsent} \cap [nonce : 0 .. MaxNonce - 1, what : Steps \cup {Other}, bump : BOOLEAN]
       = {}

VARIABLES
  rows,    \* builder.wallet_executions of one owner, oldest first
  tab,     \* what each tab is at
  check,   \* what each reconciliation has read
  pool,    \* every transaction the account has signed
  mined,   \* the account's transactions on chain, by nonce
  deep,    \* how many of them have the required confirmations
  reorgs

vars == <<rows, tab, check, pool, mined, deep, reorgs>>

\* A transaction; its contents and number stand for its hash (bump: repriced by the wallet).
Tx == [nonce : 0 .. MaxNonce - 1, what : Steps \cup {Other}, bump : BOOLEAN]
Hash == Tx \cup {Unsent}
Unresolved == {"awaiting-wallet", "pending", "unverified"}
Fenced == {"awaiting-wallet", "pending"}
Decided == {"confirmed", "reverted", "replaced"}
State == Unresolved \cup Decided \cup {"rejected"}
RowType == [step : Steps, state : State, nonce : 0 .. MaxNonce - 1, hash : Hash \cup {None}]

Active == {i \in DOMAIN rows : rows[i].state \in Unresolved}
Succeeded(s) == {n \in DOMAIN mined : mined[n].tx.what = s /\ mined[n].ok}

Idle == [at |-> "idle"]
NoCheck == [row |-> 0, dated |-> FALSE, state |-> "rejected", hash |-> None]

Init ==
  /\ rows = <<>> /\ pool = {} /\ mined = <<>> /\ deep = 0 /\ reorgs = 0
  /\ tab = [b \in Tabs |-> Idle]
  /\ check = [c \in Checks |-> NoCheck]

\* Row i is written: checks that read it before have lost their version.
Write(i, row) ==
  /\ rows' = [rows EXCEPT ![i] = row]
  /\ check' = [c \in Checks |-> IF check[c].row = i THEN [check[c] EXCEPT !.dated = TRUE]
                                ELSE check[c]]
-----------------------------------------------------------------------------
(* Preparing and signing.                                                  *)

\* A node's latest and pending counts agree on n; it may not see what only the wallet has sent.
Quiet(n) == PoolSeen => \A t \in pool : t.nonce < n

\* prepare, first half: a node that is at most the confirmations behind says the nonce.
Preflight(b, s) ==
  /\ tab[b] = Idle
  /\ \E n \in deep .. Len(mined) :
       /\ n < MaxNonce /\ Quiet(n)
       /\ s \in Once => \A k \in Succeeded(s) : k > n
       /\ After[s] # None => \E k \in Succeeded(After[s]) : k <= n
       /\ tab' = [tab EXCEPT ![b] = [at |-> "observed", step |-> s, nonce |-> n]]
  /\ UNCHANGED <<rows, check, pool, mined, deep, reorgs>>

Completed(s) == \E i \in DOMAIN rows : rows[i].step = s /\ rows[i].state = "confirmed"

Prompt(b, i, n) == tab' = [tab EXCEPT ![b] = [at |-> "prompt", row |-> i, nonce |-> n]]

\* prepare, second half, under the owner's lock; then the wallet opens.
Prepare(b) ==
  /\ tab[b].at = "observed"
  /\ LET s == tab[b].step
         n == tab[b].nonce IN
     \/ /\ Active = {} /\ ~Completed(s) /\ Len(rows) < MaxRows
        /\ rows' = Append(rows, [step |-> s, state |-> "awaiting-wallet", nonce |-> n,
                                 hash |-> None])
        /\ Prompt(b, Len(rows) + 1, n)
        /\ UNCHANGED check
     \/ \E i \in Active :
          /\ \A j \in Active : i <= j
          /\ rows[i].step = s /\ rows[i].state = "awaiting-wallet" /\ rows[i].nonce = n
          /\ Write(i, rows[i])
          /\ Prompt(b, i, n)
  /\ UNCHANGED <<pool, mined, deep, reorgs>>

\* Refused, expired, or the response never arrived in the tab: nothing was asked of the wallet.
GiveUp(b) ==
  /\ tab[b].at \in {"observed", "rejecting"}
  /\ tab' = [tab EXCEPT ![b] = Idle]
  /\ UNCHANGED <<rows, check, pool, mined, deep, reorgs>>

\* The wallet signs and sends; the tab may or may not learn the hash.
Sign(b) ==
  /\ tab[b].at = "prompt" /\ tab[b].nonce >= Len(mined)
  /\ pool' = pool \cup {[nonce |-> tab[b].nonce, what |-> rows[tab[b].row].step, bump |-> FALSE]}
  /\ tab' = [tab EXCEPT ![b] = Idle]
  /\ UNCHANGED <<rows, check, mined, deep, reorgs>>

\* The account's own nonce has moved on: the wallet cannot send this any more.
Unsendable(b) ==
  /\ tab[b].at = "prompt" /\ tab[b].nonce < Len(mined)
  /\ tab' = [tab EXCEPT ![b] = Idle]
  /\ UNCHANGED <<rows, check, pool, mined, deep, reorgs>>

\* 'rejected', first half: the user refused this prompt, or closed one that was never signed.
Unused(i) == rows[i].nonce = Len(mined) /\ Quiet(rows[i].nonce)

Refuse(b, i) ==
  /\ \/ tab[b].at = "prompt" /\ tab[b].row = i
     \/ /\ tab[b] = Idle
        /\ \A t \in pool : t.nonce = rows[i].nonce => t.what # rows[i].step
        /\ \A d \in Tabs : tab[d].at = "prompt" => tab[d].row # i
  /\ rows[i].state = "awaiting-wallet" /\ rows[i].hash = None /\ Unused(i)
  /\ tab' = [tab EXCEPT ![b] = [at |-> "rejecting", row |-> i]]
  /\ UNCHANGED <<rows, check, pool, mined, deep, reorgs>>

\* A refused prompt whose row cannot be released.
RefuseInVain(b) ==
  /\ tab[b].at = "prompt"
  /\ LET r == rows[tab[b].row] IN
     r.state # "awaiting-wallet" \/ r.hash # None \/ ~Unused(tab[b].row)
  /\ tab' = [tab EXCEPT ![b] = Idle]
  /\ UNCHANGED <<rows, check, pool, mined, deep, reorgs>>

\* 'rejected', second half.
Reject(b) ==
  /\ tab[b].at = "rejecting"
  /\ LET i == tab[b].row IN
     /\ rows[i].state = "awaiting-wallet" /\ rows[i].hash = None
     /\ Write(i, [rows[i] EXCEPT !.state = "rejected"])
  /\ tab' = [tab EXCEPT ![b] = Idle]
  /\ UNCHANGED <<pool, mined, deep, reorgs>>
-----------------------------------------------------------------------------
(* Reconciling.                                                            *)

\* What a canonical transaction says of a row.
Verdict(m, row) ==
  CASE m.tx.what # row.step -> "replaced"
    [] ~m.ok -> "reverted"
    [] OTHER -> "confirmed"

\* Defect: a transaction counts as soon as it is mined.
AnyDepth == Len(mined)

Depth == deep

\* Defect: only the transaction whose hash is known is looked for.
ByHash(row, h, e) ==
  IF h \in pool
  THEN IF row.nonce < e /\ mined[row.nonce + 1].tx = h
       THEN [state |-> Verdict(mined[row.nonce + 1], row), hash |-> h]
       ELSE [state |-> "pending", hash |-> h]
  ELSE None

\* What a node at depth e proves of a row, with hash h as the hint: a verdict on the
\* transaction that took the nonce, 'pending' if only the hinted one is known, or nothing.
Proof(row, h, e) ==
  IF row.nonce < e
  THEN [state |-> Verdict(mined[row.nonce + 1], row), hash |-> mined[row.nonce + 1].tx]
  ELSE IF h \in pool THEN [state |-> "pending", hash |-> h] ELSE None

\* The state to be saved: an outcome once seen is never taken for an unsent request again.
Outcome(row, h, p) ==
  IF p # None
  THEN IF p.state = "pending" /\ row.state \notin Fenced THEN "unverified" ELSE p.state
  ELSE IF row.state = "awaiting-wallet" /\ h = None THEN "awaiting-wallet"
  ELSE IF row.state \in Fenced THEN "pending" ELSE "unverified"

\* A node at depth e finds the hinted hash: it must if the transaction is that deep, and one
\* of another nonce is an error, which changes nothing.  Or it knows no such transaction, for
\* good or not yet.
Finds(h, n) == h \in pool /\ h.nonce = n
Misses(h, e) == \A n \in 1 .. e : mined[n].tx # h

\* Load the row, ask a node that may lag.  The hint is the row's hash, or any hash that the
\* browser remembers or its user types in.
Ask(c, i, h, e) ==
  /\ check[c] = NoCheck
  /\ h = rows[i].hash \/ h # None
  /\ \E found \in {h, None} :
       /\ IF found # None THEN Finds(h, rows[i].nonce) ELSE Misses(h, e)
       /\ LET p == Proof(rows[i], found, e) IN
          /\ p # None \/ rows[i].state # "rejected"
          /\ check' = [check EXCEPT ![c] =
               [row |-> i, dated |-> FALSE, state |-> Outcome(rows[i], h, p),
                hash |-> IF p = None THEN h ELSE p.hash]]
  /\ UNCHANGED <<rows, tab, pool, mined, deep, reorgs>>

\* Defect: a late result is saved whatever was written since.
Always(c) == TRUE

SameVersion(c) == ~check[c].dated

Save(c) ==
  /\ check[c] # NoCheck
  /\ LET k == check[c] IN
     IF SameVersion(c)
     THEN /\ rows' = [rows EXCEPT ![k.row].state = k.state, ![k.row].hash = k.hash]
          /\ check' = [d \in Checks |->
               IF d = c THEN NoCheck
               ELSE IF check[d].row = k.row THEN [check[d] EXCEPT !.dated = TRUE] ELSE check[d]]
     ELSE UNCHANGED rows /\ check' = [check EXCEPT ![c] = NoCheck]
  /\ UNCHANGED <<tab, pool, mined, deep, reorgs>>
-----------------------------------------------------------------------------
(* The wallet and the chain.                                               *)

\* The user speeds a transaction up, cancels it, or sends something else.
WalletSends ==
  /\ Len(mined) < MaxNonce
  /\ Cardinality({t \in pool : t.bump \/ t.what = Other}) < MaxOwn
  /\ \/ pool' = pool \cup {[nonce |-> Len(mined), what |-> Other, bump |-> FALSE]}
     \/ \E t \in pool : t.nonce >= Len(mined) /\ t.what # Other /\ pool' = pool \cup {[t EXCEPT !.bump = TRUE]}
  /\ pool' # pool
  /\ UNCHANGED <<rows, tab, check, mined, deep, reorgs>>

Mine(t) ==
  /\ t \in pool /\ t.nonce = Len(mined)
  /\ \E ok \in BOOLEAN :
       /\ ok /\ t.what \in Once => Succeeded(t.what) = {}
       /\ mined' = Append(mined, [tx |-> t, ok |-> ok])
  /\ UNCHANGED <<rows, tab, check, pool, deep, reorgs>>

Deepen ==
  /\ deep < Len(mined) /\ deep' = deep + 1
  /\ UNCHANGED <<rows, tab, check, pool, mined, reorgs>>

\* Blocks that are not deep yet may be exchanged.
Reorg ==
  /\ deep < Len(mined) /\ reorgs < MaxReorgs
  /\ mined' = SubSeq(mined, 1, deep) /\ reorgs' = reorgs + 1
  /\ UNCHANGED <<rows, tab, check, pool, deep>>
-----------------------------------------------------------------------------
Hints == pool \cup {Unsent, None}
Next ==
  \/ \E b \in Tabs :
       \/ \E s \in Steps : Preflight(b, s)
       \/ Prepare(b) \/ GiveUp(b) \/ Sign(b) \/ Unsendable(b)
       \/ \E i \in DOMAIN rows : Refuse(b, i)
       \/ RefuseInVain(b) \/ Reject(b)
  \/ \E c \in Checks :
       \/ \E i \in DOMAIN rows, h \in Hints, e \in 0 .. Depth : Ask(c, i, h, e)
       \/ Save(c)
  \/ WalletSends \/ (\E t \in pool : Mine(t)) \/ Deepen \/ Reorg

Spec == Init /\ [][Next]_vars

\* The page asks about every pending or unverified request every few seconds.
Poll(i) ==
  /\ i \in DOMAIN rows /\ rows[i].state \in {"pending", "unverified"}
  /\ \E c \in Checks : Ask(c, i, rows[i].hash, Depth)

\* A node in step with the chain is met again and again; what can be mined is mined.
FairSpec ==
  /\ Spec
  /\ \A i \in 1 .. MaxRows : SF_vars(Poll(i))
  /\ \A c \in Checks : WF_vars(Save(c))
  /\ WF_vars(\E t \in pool : Mine(t)) /\ WF_vars(Deepen)
-----------------------------------------------------------------------------
TabType ==
  {Idle} \cup [at : {"observed"}, step : Steps, nonce : 0 .. MaxNonce - 1]
         \cup [at : {"prompt"}, row : 1 .. MaxRows, nonce : 0 .. MaxNonce - 1]
         \cup [at : {"rejecting"}, row : 1 .. MaxRows]
CheckType == [row : 0 .. MaxRows, dated : BOOLEAN, state : State, hash : Hash \cup {None}]
Receipt == [tx : Tx, ok : BOOLEAN]

\* The journal's types; a request seen on chain names its transaction (migration 018).
TypeOK ==
  /\ rows \in Seq(RowType) /\ Len(rows) <= MaxRows
  /\ \A i \in DOMAIN rows : rows[i].state \in Decided \cup {"pending"} => rows[i].hash # None
  /\ tab \in [Tabs -> TabType]
  /\ check \in [Checks -> CheckType]
  /\ pool \subseteq Tx
  /\ mined \in Seq(Receipt) /\ deep \in 0 .. Len(mined)
  /\ reorgs \in 0 .. MaxReorgs

\* The database's unique index on an owner's waiting requests is never what stops a write: no
\* interleaving of requests, rejections and late checks leaves two of them (wallet-execution.ts:
\* prepare, reconcile, rejected; migration 018).
OneRequestAtATime ==
  \A i, j \in DOMAIN rows : rows[i].state \in Fenced /\ rows[j].state \in Fenced => i = j

\* What the journal says became of a request is what the chain says for good, whichever hint,
\* lagging node or late check it came from (wallet-chain.ts: reconcile).
OutcomeIsCanonical ==
  \A i \in DOMAIN rows : rows[i].state \in Decided =>
    /\ rows[i].nonce < deep
    /\ rows[i].state = Verdict(mined[rows[i].nonce + 1], rows[i])

\* No step succeeds twice on chain, however often it is prepared, repriced, cancelled or
\* signed again (wallet-execution.ts: prepare).
StepOnce == \A s \in Steps : Cardinality(Succeeded(s)) <= 1

\* An owner's wallet is asked one thing at a time, and no step of a plan is done twice.
SentOnce == TypeOK /\ OneRequestAtATime /\ StepOnce

\* A transaction has taken, or can take, the request's nonce; the hash noted for the request
\* is not that of a transaction of another nonce.
NonceIsUsed(row) == \E t \in pool : t.nonce = row.nonce
Misled(row) == row.hash \in pool /\ row.hash.nonce # row.nonce

\* A pending request is settled in the end, even if the wallet sent it again under another
\* hash, something else took its nonce, its block was exchanged, or the hash it was taken for
\* sent by was never sent (wallet-chain.ts: reconcile; WalletTransactions.tsx polls).  Two
\* requests are not: one whose nonce the account never uses, and one that a hint left with
\* the hash of a transaction of another nonce, which each poll then reports as a mismatch.
PendingIsSettled ==
  \A i \in 1 .. MaxRows :
    (i \in DOMAIN rows /\ rows[i].state = "pending" /\ NonceIsUsed(rows[i]))
      ~> (i \in DOMAIN rows /\ (rows[i].state \in Decided \/ Misled(rows[i])))
-----------------------------------------------------------------------------
(* What holds for any plans, tabs, checks and bounds.                      *)

\* The tabs and the checks refer to rows that exist.
KnownRows ==
  /\ \A b \in Tabs : tab[b].at \in {"prompt", "rejecting"} => tab[b].row \in DOMAIN rows
  /\ \A c \in Checks : check[c] # NoCheck => check[c].row \in DOMAIN rows

\* What the chain says of row i for good.
Canonical(i, state) ==
  rows[i].nonce < deep /\ state = Verdict(mined[rows[i].nonce + 1], rows[i])

\* A verdict in flight is the chain's, and names its transaction; a check that
\* found a request with the wallet, and still has its version, is right about it.
CheckOf(c) ==
  /\ check[c].state \in Decided => Canonical(check[c].row, check[c].state)
  /\ check[c].state \in Decided \cup {"pending"} => check[c].hash # None
  /\ check[c].state \in Fenced /\ ~check[c].dated => rows[check[c].row].state \in Fenced
CheckInv == \A c \in Checks : check[c] # NoCheck => CheckOf(c)

WalletInv ==
  TypeOK /\ KnownRows /\ CheckInv /\ OneRequestAtATime /\ OutcomeIsCanonical

\* No hash is mistaken for none.
LEMMA HashIsNotNone == None \notin Hash
BY WalletBounds DEF Tx, Hash

\* What a tab is at.
LEMMA TabShape ==
  ASSUME NEW x \in TabType
  PROVE  /\ x.at = "observed" => x.step \in Steps /\ x.nonce \in 0 .. MaxNonce - 1
         /\ x.at = "prompt" => x.row \in 1 .. MaxRows /\ x.nonce \in 0 .. MaxNonce - 1
         /\ x.at = "rejecting" => x.row \in 1 .. MaxRows
BY DEF TabType, Idle

\* A verdict on a row depends on the transaction it asked for only.
LEMMA VerdictOfStep ==
  ASSUME NEW m, NEW x, NEW y, x.step = y.step
  PROVE  Verdict(m, x) = Verdict(m, y)
BY DEF Verdict

\* Initially there is nothing to look at.
LEMMA WalletInit == Init => WalletInv
<1> SUFFICES ASSUME Init PROVE WalletInv
    OBVIOUS
<1> USE WalletBounds DEF Init
<1>1. TypeOK
  BY DEF TypeOK, TabType, CheckType, NoCheck, State
<1>2. KnownRows /\ CheckInv
  BY DEF KnownRows, CheckInv, Idle
<1>3. OneRequestAtATime /\ OutcomeIsCanonical
  BY DEF OneRequestAtATime, OutcomeIsCanonical
<1> QED
  BY <1>1, <1>2, <1>3 DEF WalletInv

\* A step of a tab that changes only what it is at.
LEMMA TabMoves ==
  ASSUME WalletInv, UNCHANGED <<rows, check, mined, deep, reorgs>>, pool' \subseteq Tx,
         NEW b \in Tabs, NEW x \in TabType, tab' = [tab EXCEPT ![b] = x],
         x.at \in {"prompt", "rejecting"} => x.row \in DOMAIN rows
  PROVE  WalletInv'
<1>1. TypeOK'
  BY DEF WalletInv, TypeOK
<1>2. KnownRows' /\ CheckInv'
  BY DEF WalletInv, TypeOK, KnownRows, CheckInv, CheckOf, Canonical, Verdict
<1>3. OneRequestAtATime' /\ OutcomeIsCanonical'
  BY DEF WalletInv, OneRequestAtATime, OutcomeIsCanonical, Verdict
<1> QED
  BY <1>1, <1>2, <1>3 DEF WalletInv

\* The first halves: reading, signing, refusing, giving up.
LEMMA WalletTabs ==
  ASSUME WalletInv, NEW b \in Tabs,
         \/ \E s \in Steps : Preflight(b, s)
         \/ GiveUp(b) \/ Sign(b) \/ Unsendable(b) \/ RefuseInVain(b)
         \/ \E i \in DOMAIN rows : Refuse(b, i)
  PROVE  WalletInv'
<1> USE WalletBounds
<1>0. /\ tab[b] \in TabType /\ pool \subseteq Tx /\ deep \in Nat /\ rows \in Seq(RowType)
      /\ Len(rows) <= MaxRows /\ Len(mined) \in Nat
      /\ tab[b].at \in {"prompt", "rejecting"} => tab[b].row \in DOMAIN rows
  BY DEF WalletInv, TypeOK, KnownRows
<1>1. ASSUME NEW s \in Steps, Preflight(b, s) PROVE WalletInv'
  <2>1. PICK n \in deep .. Len(mined) :
          n < MaxNonce /\ tab' = [tab EXCEPT ![b] = [at |-> "observed", step |-> s, nonce |-> n]]
    BY <1>1 DEF Preflight
  <2>2. [at |-> "observed", step |-> s, nonce |-> n] \in TabType
    BY <1>0, <2>1 DEF TabType
  <2> QED
    BY <1>0, <1>1, <2>1, <2>2, TabMoves DEF Preflight
<1>2. CASE GiveUp(b) \/ Unsendable(b) \/ RefuseInVain(b)
  BY <1>0, <1>2, TabMoves DEF GiveUp, Unsendable, RefuseInVain, TabType, Idle
<1>3. CASE Sign(b)
  <2>1. tab[b].row \in DOMAIN rows /\ tab[b].nonce \in 0 .. MaxNonce - 1
    BY <1>0, <1>3, TabShape DEF Sign
  <2>2. rows[tab[b].row] \in RowType
    BY <1>0, <2>1
  <2>3. rows[tab[b].row].step \in Steps
    BY <2>2 DEF RowType
  <2>4. [nonce |-> tab[b].nonce, what |-> rows[tab[b].row].step, bump |-> FALSE] \in Tx
    BY <2>1, <2>3 DEF Tx
  <2>5. pool' \subseteq Tx
    BY <1>0, <1>3, <2>4 DEF Sign
  <2> QED
    BY <1>3, <2>5, TabMoves DEF Sign, TabType, Idle
<1>4. ASSUME NEW i \in DOMAIN rows, Refuse(b, i) PROVE WalletInv'
  <2>1. [at |-> "rejecting", row |-> i] \in TabType
    BY <1>0 DEF TabType
  <2> QED
    BY <1>0, <1>4, <2>1, TabMoves DEF Refuse
<1> QED
  BY <1>1, <1>2, <1>3, <1>4

\* The chain: what is deep stays.
LEMMA WalletChain ==
  ASSUME WalletInv, UNCHANGED <<rows, tab, check>>, pool' \subseteq Tx, mined' \in Seq(Receipt),
         deep' \in 0 .. Len(mined'), deep <= deep', \A n \in 1 .. deep : mined'[n] = mined[n],
         reorgs' \in 0 .. MaxReorgs
  PROVE  WalletInv'
<1>0. /\ deep \in Nat /\ deep' \in Nat
      /\ \A i \in DOMAIN rows : rows[i] \in RowType
      /\ \A c \in Checks : check[c] # NoCheck => check[c].row \in DOMAIN rows
  BY DEF WalletInv, TypeOK, KnownRows
<1>1. TypeOK'
  BY DEF WalletInv, TypeOK
<1>2. ASSUME NEW i \in DOMAIN rows, NEW state, Canonical(i, state) PROVE Canonical(i, state)'
  <2>1. rows[i].nonce \in Nat /\ rows[i].nonce < deep
    BY <1>0, <1>2, WalletBounds DEF Canonical, RowType
  <2>2. rows[i].nonce + 1 \in 1 .. deep /\ rows[i].nonce < deep'
    BY <1>0, <2>1
  <2> QED
    BY <1>2, <2>2 DEF Canonical
<1>3. KnownRows' /\ OneRequestAtATime'
  BY DEF WalletInv, KnownRows, OneRequestAtATime
<1>4. CheckInv'
  BY <1>0, <1>2 DEF WalletInv, CheckInv, CheckOf
<1>5. OutcomeIsCanonical'
  BY <1>2 DEF WalletInv, OutcomeIsCanonical, Canonical
<1> QED
  BY <1>1, <1>3, <1>4, <1>5 DEF WalletInv

\* The wallet sends, a block is mined, deepens, or is exchanged.
LEMMA WalletNetwork ==
  ASSUME WalletInv, WalletSends \/ (\E t \in pool : Mine(t)) \/ Deepen \/ Reorg
  PROVE  WalletInv'
<1> USE WalletBounds
<1>0. /\ pool \subseteq Tx /\ mined \in Seq(Receipt) /\ Len(mined) \in Nat
      /\ deep \in Nat /\ deep <= Len(mined) /\ reorgs \in 0 .. MaxReorgs
  BY DEF WalletInv, TypeOK
<1>1. CASE WalletSends
  <2>1. pool' \subseteq Tx
    <3>1. CASE pool' = pool \cup {[nonce |-> Len(mined), what |-> Other, bump |-> FALSE]}
      <4>1. Len(mined) \in 0 .. MaxNonce - 1
        BY <1>0, <1>1 DEF WalletSends
      <4>2. [nonce |-> Len(mined), what |-> Other, bump |-> FALSE] \in Tx
        BY <4>1 DEF Tx
      <4> QED
        BY <1>0, <3>1, <4>2
    <3>2. ASSUME NEW t \in pool, pool' = pool \cup {[t EXCEPT !.bump = TRUE]}
          PROVE  pool' \subseteq Tx
      <4>1. t \in Tx
        BY <1>0
      <4>2. [t EXCEPT !.bump = TRUE] \in Tx
        BY <4>1 DEF Tx
      <4> QED
        BY <1>0, <3>2, <4>2
    <3> QED
      BY <1>1, <3>1, <3>2 DEF WalletSends
  <2> QED
    BY <1>0, <1>1, <2>1, WalletChain DEF WalletSends
<1>2. ASSUME NEW t \in pool, Mine(t) PROVE WalletInv'
  <2>1. PICK ok \in BOOLEAN : mined' = Append(mined, [tx |-> t, ok |-> ok])
    BY <1>2 DEF Mine
  <2>2. [tx |-> t, ok |-> ok] \in Receipt
    BY <1>0 DEF Receipt
  <2>3. /\ mined' \in Seq(Receipt) /\ Len(mined') = Len(mined) + 1
        /\ \A n \in 1 .. deep : mined'[n] = mined[n]
    BY <1>0, <2>1, <2>2
  <2> QED
    BY <1>0, <1>2, <2>3, WalletChain DEF Mine
<1>3. CASE Deepen
  BY <1>0, <1>3, WalletChain DEF Deepen
<1>4. CASE Reorg
  <2>1. mined' = SubSeq(mined, 1, deep) /\ reorgs' = reorgs + 1 /\ reorgs < MaxReorgs
    BY <1>4 DEF Reorg
  <2>2. /\ mined' \in Seq(Receipt) /\ Len(mined') = deep
        /\ \A n \in 1 .. deep : mined'[n] = mined[n]
    BY <1>0, <2>1
  <2> QED
    BY <1>0, <1>4, <2>1, <2>2, WalletChain DEF Reorg
<1> QED
  BY <1>1, <1>2, <1>3, <1>4

\* Row i is written with the same transaction and hash, as it was or rejected:
\* the checks that read it lose their version.
LEMMA WalletWrite ==
  ASSUME WalletInv, UNCHANGED <<pool, mined, deep, reorgs>>,
         NEW i \in DOMAIN rows, NEW state \in {rows[i].state, "rejected"},
         Write(i, [rows[i] EXCEPT !.state = state]),
         NEW b \in Tabs, NEW x \in TabType, tab' = [tab EXCEPT ![b] = x],
         x.at \in {"prompt", "rejecting"} => x.row \in DOMAIN rows
  PROVE  WalletInv'
<1> DEFINE r == [rows[i] EXCEPT !.state = state]
<1>0. /\ rows \in Seq(RowType) /\ check \in [Checks -> CheckType] /\ tab \in [Tabs -> TabType]
      /\ rows[i] \in RowType /\ \A j \in DOMAIN rows : rows[j] \in RowType
  BY DEF WalletInv, TypeOK
<1>1. /\ r \in RowType /\ r.step = rows[i].step /\ r.nonce = rows[i].nonce
      /\ r.hash = rows[i].hash /\ r.state = state
  BY <1>0 DEF RowType, State
<1>2. rows' = [rows EXCEPT ![i] = r]
  BY DEF Write
<1> HIDE DEF r
<1>3. /\ rows' \in Seq(RowType) /\ Len(rows') = Len(rows) /\ DOMAIN rows' = DOMAIN rows
      /\ rows'[i] = r /\ \A j \in DOMAIN rows : j # i => rows'[j] = rows[j]
  BY <1>0, <1>1, <1>2
<1>4. \A j \in DOMAIN rows : /\ rows'[j].step = rows[j].step /\ rows'[j].nonce = rows[j].nonce
                             /\ rows'[j].hash = rows[j].hash
                             /\ rows'[j].state \in {rows[j].state, "rejected"}
                             /\ j # i => rows'[j].state = rows[j].state
  BY <1>1, <1>3
<1>5. \A c \in Checks : check'[c] = IF check[c].row = i THEN [check[c] EXCEPT !.dated = TRUE]
                                    ELSE check[c]
  BY DEF Write
<1>6. ASSUME NEW c \in Checks
      PROVE  /\ check'[c].row = check[c].row /\ check'[c].state = check[c].state
             /\ check'[c].hash = check[c].hash /\ check'[c] \in CheckType
             /\ check[c].row = i => check'[c].dated
             /\ check[c].row # i => check'[c].dated = check[c].dated
             /\ check[c] = NoCheck => check'[c] = NoCheck
  <2>1. check[c] \in CheckType /\ i # 0
    BY <1>0
  <2>2. check[c] = NoCheck => check[c].row # i
    BY <2>1 DEF NoCheck
  <2> QED
    BY <1>5, <2>1, <2>2 DEF CheckType
<1>7. check' \in [Checks -> CheckType]
  <2>1. check' = [c \in Checks |-> check'[c]]
    BY DEF Write
  <2> QED
    BY <1>6, <2>1
<1>8. ASSUME NEW j \in DOMAIN rows, NEW s, Canonical(j, s) PROVE Canonical(j, s)'
  <2>1. rows'[j].nonce = rows[j].nonce /\ rows'[j].step = rows[j].step
    BY <1>4
  <2>2. Verdict(mined[rows[j].nonce + 1], rows'[j]) = Verdict(mined[rows[j].nonce + 1], rows[j])
    BY <2>1, VerdictOfStep
  <2>3. Canonical(j, s)' <=> /\ rows'[j].nonce < deep
                             /\ s = Verdict(mined[rows'[j].nonce + 1], rows'[j])
    BY DEF Canonical, Verdict
  <2> QED
    BY <1>8, <2>1, <2>2, <2>3 DEF Canonical
<1>9. TypeOK'
  <2>1. \A j \in DOMAIN rows' : rows'[j].state \in Decided \cup {"pending"} => rows'[j].hash # None
    BY <1>3, <1>4 DEF WalletInv, TypeOK, Decided
  <2> QED
    BY <1>0, <1>3, <1>7, <2>1 DEF WalletInv, TypeOK
<1>10. KnownRows' /\ CheckInv'
  <2>1. ASSUME NEW c \in Checks, check'[c] # NoCheck
        PROVE  check[c] # NoCheck /\ CheckOf(c) /\ check[c].row \in DOMAIN rows
    BY <1>6, <2>1 DEF WalletInv, KnownRows, CheckInv
  <2>2. KnownRows'
    BY <1>0, <1>3, <1>6, <2>1 DEF WalletInv, KnownRows
  <2>3. ASSUME NEW c \in Checks, check'[c] # NoCheck PROVE CheckOf(c)'
    <3>1. /\ check'[c].state \in Decided => Canonical(check[c].row, check[c].state)'
          /\ check'[c].state \in Decided \cup {"pending"} => check'[c].hash # None
      BY <1>6, <1>8, <2>1, <2>3 DEF CheckOf
    <3>2. check'[c].state \in Fenced /\ ~check'[c].dated => rows'[check[c].row].state \in Fenced
      BY <1>4, <1>6, <2>1, <2>3 DEF CheckOf
    <3>3. check'[c].row = check[c].row /\ check'[c].state = check[c].state
      BY <1>6
    <3> QED
      BY <3>1, <3>2, <3>3 DEF CheckOf, Canonical
  <2> QED
    BY <2>2, <2>3 DEF CheckInv
<1>11. OneRequestAtATime'
  BY <1>3, <1>4 DEF WalletInv, OneRequestAtATime, Fenced
<1>12. OutcomeIsCanonical'
  <2> SUFFICES ASSUME NEW j \in DOMAIN rows, rows'[j].state \in Decided
               PROVE  Canonical(j, rows[j].state)' /\ rows'[j].state = rows[j].state
    BY <1>3 DEF OutcomeIsCanonical, Canonical
  <2>1. rows'[j].state = rows[j].state
    BY <1>4 DEF Decided
  <2>2. Canonical(j, rows[j].state)
    BY <2>1 DEF WalletInv, OutcomeIsCanonical, Canonical
  <2> QED
    BY <1>8, <2>1, <2>2
<1> QED
  BY <1>9, <1>10, <1>11, <1>12 DEF WalletInv

\* A request enters the journal while no other is unresolved, or is shown again.
LEMMA WalletPrepare == ASSUME WalletInv, NEW b \in Tabs, Prepare(b) PROVE WalletInv'
<1> DEFINE s == tab[b].step
           n == tab[b].nonce
           r == [step |-> s, state |-> "awaiting-wallet", nonce |-> n, hash |-> None]
<1>0. /\ rows \in Seq(RowType) /\ tab[b] \in TabType /\ Len(rows) \in Nat
      /\ MaxRows \in Nat /\ Len(rows) <= MaxRows
      /\ s \in Steps /\ n \in 0 .. MaxNonce - 1
  BY TabShape, WalletBounds DEF WalletInv, TypeOK, Prepare
<1>1. ASSUME NEW i \in Active, Write(i, rows[i]), Prompt(b, i, n) PROVE WalletInv'
  <2>1. i \in DOMAIN rows /\ i \in 1 .. MaxRows
    BY <1>0 DEF Active
  <2>2. rows[i] = [rows[i] EXCEPT !.state = rows[i].state]
    <3>1. rows[i] \in RowType
      BY <1>0, <2>1
    <3> QED
      BY <3>1 DEF RowType
  <2>3. [at |-> "prompt", row |-> i, nonce |-> n] \in TabType
    BY <1>0, <2>1 DEF TabType
  <2>4. UNCHANGED <<pool, mined, deep, reorgs>>
    BY DEF Prepare
  <2> HIDE DEF n
  <2> QED
    BY <1>1, <2>1, <2>2, <2>3, <2>4, WalletWrite DEF Prompt
<1>2. CASE /\ Active = {} /\ Len(rows) < MaxRows
           /\ rows' = Append(rows, r) /\ Prompt(b, Len(rows) + 1, n) /\ check' = check
  <2>1. r \in RowType /\ r.state = "awaiting-wallet"
    BY <1>0 DEF RowType, State, Unresolved
  <2> HIDE DEF r, s, n
  <2>2. /\ rows' \in Seq(RowType) /\ Len(rows') = Len(rows) + 1
        /\ DOMAIN rows' = DOMAIN rows \cup {Len(rows) + 1}
        /\ rows'[Len(rows) + 1] = r /\ \A j \in DOMAIN rows : rows'[j] = rows[j]
    BY <1>0, <1>2, <2>1
  <2>3. ASSUME NEW j \in DOMAIN rows, NEW v, Canonical(j, v) PROVE Canonical(j, v)'
    BY <2>2, <2>3 DEF Canonical, Verdict, Prepare
  <2>4. [at |-> "prompt", row |-> Len(rows) + 1, nonce |-> n] \in TabType
    BY <1>0, <1>2 DEF TabType
  <2>5. tab' \in [Tabs -> TabType] /\ tab' = [tab EXCEPT ![b] = [at |-> "prompt", row |-> Len(rows) + 1, nonce |-> n]]
    BY <1>2, <2>4 DEF Prompt, WalletInv, TypeOK
  <2>6. \A j \in DOMAIN rows' : rows'[j].state \in Decided \cup {"pending"} => rows'[j].hash # None
    BY <2>1, <2>2 DEF WalletInv, TypeOK, Decided
  <2>7. TypeOK'
    BY <1>0, <1>2, <2>2, <2>5, <2>6 DEF WalletInv, TypeOK, Prepare
  <2>8. KnownRows'
    BY <1>2, <2>2, <2>5 DEF WalletInv, TypeOK, KnownRows
  <2>9. CheckInv'
    <3> SUFFICES ASSUME NEW c \in Checks, check[c] # NoCheck PROVE CheckOf(c)'
      BY <1>2 DEF CheckInv
    <3>1. CheckOf(c) /\ check[c].row \in DOMAIN rows
      BY DEF WalletInv, CheckInv, KnownRows
    <3>2. PICK j, v : j \in DOMAIN rows /\ check[c].row = j /\ check[c].state = v
      BY <3>1
    <3>3. v \in Decided => Canonical(j, v)
      BY <3>1, <3>2 DEF CheckOf
    <3>4. v \in Decided => Canonical(j, v)'
      BY <2>3, <3>2, <3>3
    <3>5. rows'[j] = rows[j] /\ check' = check
      BY <1>2, <2>2, <3>2
    <3>6. check'[c].row = j /\ check'[c].state = v
      BY <3>2, <3>5
    <3> QED
      BY <3>1, <3>2, <3>4, <3>5, <3>6 DEF CheckOf, Canonical
  <2>10. OneRequestAtATime'
    BY <1>2, <2>2 DEF Active, OneRequestAtATime, Fenced, Unresolved
  <2>11. OutcomeIsCanonical'
    BY <2>1, <2>2, <2>3 DEF WalletInv, OutcomeIsCanonical, Canonical, Decided
  <2> QED
    BY <2>7, <2>8, <2>9, <2>10, <2>11 DEF WalletInv
<1> QED
  BY <1>1, <1>2 DEF Prepare

\* A refused request is rejected.
LEMMA WalletReject == ASSUME WalletInv, NEW b \in Tabs, Reject(b) PROVE WalletInv'
<1>1. tab[b].row \in DOMAIN rows
  BY DEF WalletInv, KnownRows, Reject
<1>2. Idle \in TabType /\ Idle.at = "idle"
  BY DEF TabType, Idle
<1> QED
  BY <1>1, <1>2, WalletWrite DEF Reject

\* What a node proves of a row, and what is made of it.
LEMMA Asked ==
  ASSUME WalletInv, NEW i \in DOMAIN rows, NEW h \in Hints, NEW e \in 0 .. deep,
         h = rows[i].hash \/ h # None, NEW found \in {h, None},
         NEW p, p = Proof(rows[i], found, e),
         NEW state, state = Outcome(rows[i], h, p),
         NEW hash, hash = IF p = None THEN h ELSE p.hash
  PROVE  /\ state \in Decided => Canonical(i, state)
         /\ state \in Fenced => rows[i].state \in Fenced
         /\ state \in Decided \cup {"pending"} => hash # None
         /\ state \in State /\ hash \in Hash \cup {None}
<1> USE DEF Decided, Fenced, Unresolved, State
<1>a. rows[i] \in RowType /\ (rows[i].state = "pending" => rows[i].hash # None)
  BY DEF WalletInv, TypeOK
<1>b. rows[i].nonce \in Nat /\ rows[i].state \in State
  BY <1>a, WalletBounds DEF RowType
<1>c. mined \in Seq(Receipt) /\ deep \in Nat /\ deep <= Len(mined) /\ pool \subseteq Tx
  BY DEF WalletInv, TypeOK
<1>d. h \in Hash \cup {None} /\ Tx \subseteq Hash /\ None \notin Hash
  BY <1>c, HashIsNotNone DEF Hints, Hash
<1>0. /\ p = None => /\ state \notin Decided
                     /\ state \in Fenced => rows[i].state \in Fenced
                     /\ state = "pending" => h # None
                     /\ state \in State /\ hash = h
  <2> SUFFICES ASSUME p = None
               PROVE  /\ state \notin Decided
                      /\ state \in Fenced => rows[i].state \in Fenced
                      /\ state = "pending" => h # None
                      /\ state \in State /\ hash = h
    OBVIOUS
  <2>1. state = IF rows[i].state = "awaiting-wallet" /\ h = None THEN "awaiting-wallet"
                ELSE IF rows[i].state \in Fenced THEN "pending" ELSE "unverified"
    BY DEF Outcome
  <2>2. h = None => h = rows[i].hash
    BY <1>c, <1>d
  <2> QED
    BY <1>a, <2>1, <2>2
<1>1. CASE rows[i].nonce < e
  <2> DEFINE m == mined[rows[i].nonce + 1]
  <2>1. m \in Receipt
    BY <1>1, <1>b, <1>c
  <2>2. m.tx \in Tx
    BY <2>1 DEF Receipt
  <2>3. Verdict(m, rows[i]) \in Decided
    BY DEF Verdict
  <2>4. p = [state |-> Verdict(m, rows[i]), hash |-> m.tx]
    BY <1>1 DEF Proof
  <2>5. rows[i].nonce < deep
    BY <1>1, <1>b, <1>c
  <2> HIDE DEF m
  <2>6. p.state = Verdict(m, rows[i]) /\ p.hash = m.tx
    BY <2>4
  <2>7. CASE p # None
    <3>1. state = Verdict(m, rows[i]) /\ hash = m.tx
      BY <2>3, <2>6, <2>7 DEF Outcome
    <3>2. Canonical(i, state)
      BY <2>5, <3>1 DEF Canonical, m
    <3> QED
      BY <1>d, <2>2, <2>3, <3>1, <3>2
  <2>8. CASE p = None
    BY <1>0, <1>d, <2>8
  <2> QED
    BY <2>7, <2>8
<1>2. CASE ~(rows[i].nonce < e) /\ found \in pool
  <2>0. found = h
    BY <1>2, <1>c, <1>d
  <2>1. p = [state |-> "pending", hash |-> h]
    BY <1>2, <2>0 DEF Proof
  <2>2. p.state = "pending" /\ p.hash = h /\ h \in Tx
    BY <1>2, <2>0, <2>1 DEF WalletInv, TypeOK
  <2>3. CASE p # None
    BY <1>a, <1>b, <1>d, <2>2, <2>3 DEF Outcome
  <2> QED
    BY <1>0, <1>d, <2>3
<1>3. CASE ~(rows[i].nonce < e) /\ found \notin pool
  <2>1. p = None
    BY <1>3 DEF Proof
  <2> QED
    BY <1>0, <1>d, <2>1
<1> QED
  BY <1>1, <1>2, <1>3

\* A check reads a row and the chain.
LEMMA WalletAsk ==
  ASSUME WalletInv, NEW c \in Checks, NEW i \in DOMAIN rows, NEW h \in Hints,
         NEW e \in 0 .. deep, Ask(c, i, h, e)
  PROVE  WalletInv'
<1>0. PICK found \in {h, None} :
        check' = [check EXCEPT ![c] =
          [row |-> i, dated |-> FALSE, state |-> Outcome(rows[i], h, Proof(rows[i], found, e)),
           hash |-> IF Proof(rows[i], found, e) = None THEN h
                    ELSE Proof(rows[i], found, e).hash]]
  BY DEF Ask
<1>1. PICK p : p = Proof(rows[i], found, e)
  OBVIOUS
<1>2. PICK state : state = Outcome(rows[i], h, p)
  OBVIOUS
<1>3. PICK hash : hash = IF p = None THEN h ELSE p.hash
  OBVIOUS
<1>4. PICK k : k = [row |-> i, dated |-> FALSE, state |-> state, hash |-> hash]
  OBVIOUS
<1>5. k.row = i /\ k.dated = FALSE /\ k.state = state /\ k.hash = hash
  BY <1>4
<1>6. check' = [check EXCEPT ![c] = k] /\ UNCHANGED <<rows, tab, pool, mined, deep, reorgs>>
  BY <1>0, <1>1, <1>2, <1>3, <1>4 DEF Ask
<1>7. /\ state \in Decided => Canonical(i, state)
      /\ state \in Fenced => rows[i].state \in Fenced
      /\ state \in Decided \cup {"pending"} => hash # None
      /\ state \in State /\ hash \in Hash \cup {None}
  BY <1>1, <1>2, <1>3, Asked DEF Ask
<1>8. k \in CheckType
  <2>1. i \in 0 .. MaxRows
    BY WalletBounds DEF WalletInv, TypeOK
  <2> QED
    BY <1>4, <1>7, <2>1 DEF CheckType
<1>9. check' \in [Checks -> CheckType] /\ check'[c] = k /\ \A d \in Checks : d # c => check'[d] = check[d]
  BY <1>6, <1>8 DEF WalletInv, TypeOK
<1>10. \A j, v : Canonical(j, v) => Canonical(j, v)'
  BY <1>6 DEF Canonical, Verdict
<1>11. TypeOK'
  BY <1>6, <1>9 DEF WalletInv, TypeOK
<1>12. KnownRows'
  BY <1>5, <1>6, <1>9 DEF WalletInv, KnownRows
<1>13. CheckInv'
  <2> SUFFICES ASSUME NEW d \in Checks, check'[d] # NoCheck PROVE CheckOf(d)'
    BY DEF CheckInv
  <2>1. CASE d = c
    <3>1. state \in Decided => Canonical(i, state)'
      BY <1>7, <1>10
    <3>2. check'[d].row = i /\ check'[d].state = state /\ check'[d].hash = hash
      BY <1>5, <1>9, <2>1
    <3> QED
      BY <1>6, <1>7, <3>1, <3>2 DEF CheckOf, Canonical
  <2>2. CASE d # c
    <3>1. check'[d] = check[d] /\ CheckOf(d)
      BY <1>9, <2>2 DEF WalletInv, CheckInv
    <3>2. PICK j, v : j = check[d].row /\ v = check[d].state
      OBVIOUS
    <3>3. v \in Decided => Canonical(j, v)'
      BY <1>10, <3>1, <3>2 DEF CheckOf
    <3> QED
      BY <1>6, <3>1, <3>2, <3>3 DEF CheckOf, Canonical
  <2> QED
    BY <2>1, <2>2
<1>14. OneRequestAtATime' /\ OutcomeIsCanonical'
  BY <1>6 DEF WalletInv, OneRequestAtATime, OutcomeIsCanonical, Verdict
<1> QED
  BY <1>11, <1>12, <1>13, <1>14 DEF WalletInv

\* A check with its version saves its finding; the others that read the row lose theirs.
LEMMA WalletSave == ASSUME WalletInv, NEW c \in Checks, Save(c) PROVE WalletInv'
<1>1. PICK i, state, hash :
        i = check[c].row /\ state = check[c].state /\ hash = check[c].hash
  OBVIOUS
<1>2. /\ i \in DOMAIN rows /\ rows[i] \in RowType /\ i \in Nat /\ i # 0 /\ NoCheck.row = 0
      /\ check[c] \in CheckType /\ \A j \in DOMAIN rows : rows[j] \in RowType
      /\ \A d \in Checks : check[d] \in CheckType
      /\ CheckOf(c) /\ rows \in Seq(RowType)
      /\ UNCHANGED <<tab, pool, mined, deep, reorgs>>
  BY <1>1 DEF WalletInv, TypeOK, KnownRows, CheckInv, Save, NoCheck
<1>3. /\ state \in Decided => Canonical(i, state)
      /\ state \in Decided \cup {"pending"} => hash # None
      /\ state \in Fenced /\ ~check[c].dated => rows[i].state \in Fenced
  BY <1>1, <1>2 DEF CheckOf
<1>4. state \in State /\ hash \in Hash \cup {None}
  BY <1>1, <1>2 DEF CheckType
<1>5. NoCheck \in CheckType
  BY WalletBounds DEF NoCheck, CheckType, State
<1>6. CASE check[c].dated
  <2>1. rows' = rows /\ check' = [check EXCEPT ![c] = NoCheck]
    BY <1>6 DEF Save, SameVersion
  <2>2. TypeOK'
    BY <1>2, <1>5, <2>1 DEF WalletInv, TypeOK
  <2>3. KnownRows' /\ CheckInv'
    BY <1>2, <2>1 DEF WalletInv, TypeOK, KnownRows, CheckInv, CheckOf, Canonical, Verdict
  <2>4. OneRequestAtATime' /\ OutcomeIsCanonical'
    BY <1>2, <2>1 DEF WalletInv, OneRequestAtATime, OutcomeIsCanonical, Verdict
  <2> QED
    BY <2>2, <2>3, <2>4 DEF WalletInv
<1>7. CASE ~check[c].dated
  <2> DEFINE r == [rows[i] EXCEPT !.state = state, !.hash = hash]
  <2>1. /\ r \in RowType /\ r.step = rows[i].step /\ r.nonce = rows[i].nonce
        /\ r.state = state /\ r.hash = hash
    BY <1>2, <1>4 DEF RowType
  <2>2. rows' = [rows EXCEPT ![i] = r]
    BY <1>1, <1>2, <1>7 DEF Save, SameVersion
  <2>3. check' = [d \in Checks |->
           IF d = c THEN NoCheck
           ELSE IF check[d].row = i THEN [check[d] EXCEPT !.dated = TRUE] ELSE check[d]]
    BY <1>1, <1>7 DEF Save, SameVersion
  <2> HIDE DEF r
  <2>4. /\ rows' \in Seq(RowType) /\ Len(rows') = Len(rows) /\ DOMAIN rows' = DOMAIN rows
        /\ rows'[i] = r /\ \A j \in DOMAIN rows : j # i => rows'[j] = rows[j]
    BY <1>2, <2>1, <2>2
  <2>5. ASSUME NEW d \in Checks, d # c
        PROVE  /\ check'[d].row = check[d].row /\ check'[d].state = check[d].state
               /\ check'[d].hash = check[d].hash /\ check'[d] \in CheckType
               /\ check[d].row = i => check'[d].dated
               /\ check[d].row # i => check'[d].dated = check[d].dated
               /\ check[d] = NoCheck => check'[d] = NoCheck
    BY <1>2, <2>3, <2>5 DEF CheckType
  <2>6. check'[c] = NoCheck
    BY <2>3
  <2>7. check' \in [Checks -> CheckType]
    <3>1. check' = [d \in Checks |-> check'[d]]
      BY <2>3
    <3> QED
      BY <1>5, <2>5, <2>6, <3>1
  <2>8. ASSUME NEW j \in DOMAIN rows, NEW v, Canonical(j, v) PROVE Canonical(j, v)'
    <3>1. rows'[j].nonce = rows[j].nonce /\ rows'[j].step = rows[j].step
      BY <2>1, <2>4
    <3>2. Verdict(mined[rows[j].nonce + 1], rows'[j]) = Verdict(mined[rows[j].nonce + 1], rows[j])
      BY <3>1, VerdictOfStep
    <3>3. Canonical(j, v)' <=> /\ rows'[j].nonce < deep
                               /\ v = Verdict(mined[rows'[j].nonce + 1], rows'[j])
      BY <1>2 DEF Canonical, Verdict
    <3> QED
      BY <2>8, <3>1, <3>2, <3>3 DEF Canonical
  <2>9. TypeOK'
    <3>1. \A j \in DOMAIN rows' : rows'[j].state \in Decided \cup {"pending"} => rows'[j].hash # None
      BY <1>3, <2>1, <2>4 DEF WalletInv, TypeOK
    <3> QED
      BY <1>2, <2>4, <2>7, <3>1 DEF WalletInv, TypeOK
  <2>10. \A d \in Checks : check'[d] # NoCheck =>
           d # c /\ check[d] # NoCheck /\ CheckOf(d) /\ check[d].row \in DOMAIN rows
    BY <2>5, <2>6 DEF WalletInv, KnownRows, CheckInv
  <2>11. KnownRows'
    BY <1>2, <2>4, <2>5, <2>10 DEF WalletInv, KnownRows
  <2>12. CheckInv'
    <3> SUFFICES ASSUME NEW d \in Checks, check'[d] # NoCheck PROVE CheckOf(d)'
      BY DEF CheckInv
    <3>1. d # c /\ CheckOf(d) /\ check[d].row \in DOMAIN rows
      BY <2>10
    <3>2. PICK j, v : j \in DOMAIN rows /\ check[d].row = j /\ check[d].state = v
      BY <3>1
    <3>3. check'[d].row = j /\ check'[d].state = v /\ check'[d].hash = check[d].hash
      BY <2>5, <3>1, <3>2
    <3>4. v \in Decided => Canonical(j, v)'
      BY <2>8, <3>1, <3>2 DEF CheckOf
    <3>5. v \in Fenced /\ ~check'[d].dated => rows'[j].state \in Fenced
      BY <2>4, <2>5, <3>1, <3>2 DEF CheckOf
    <3>6. v \in Decided \cup {"pending"} => check[d].hash # None
      BY <3>1, <3>2 DEF CheckOf
    <3> QED
      BY <3>3, <3>4, <3>5, <3>6 DEF CheckOf, Canonical
  <2>13. OneRequestAtATime'
    <3>1. \A j \in DOMAIN rows : rows'[j].state \in Fenced => rows[j].state \in Fenced
      BY <1>3, <1>7, <2>1, <2>4
    <3> QED
      BY <2>4, <3>1 DEF WalletInv, OneRequestAtATime
  <2>14. OutcomeIsCanonical'
    <3> SUFFICES ASSUME NEW j \in DOMAIN rows, rows'[j].state \in Decided
                 PROVE  Canonical(j, rows[j].state)'
      BY <2>4 DEF OutcomeIsCanonical, Canonical
    <3>1. PICK v : v = rows'[j].state
      OBVIOUS
    <3>2. Canonical(j, v)
      BY <1>3, <2>1, <2>4, <3>1 DEF WalletInv, OutcomeIsCanonical, Canonical
    <3>3. Canonical(j, v)'
      BY <2>8, <3>2
    <3> QED
      BY <3>1, <3>3 DEF Canonical
  <2> QED
    BY <2>9, <2>11, <2>12, <2>13, <2>14 DEF WalletInv
<1> QED
  BY <1>6, <1>7

\* Every step preserves the invariant.
LEMMA WalletStep == WalletInv /\ [Next]_vars => WalletInv'
<1> SUFFICES ASSUME WalletInv, [Next]_vars PROVE WalletInv'
    OBVIOUS
<1>1. CASE UNCHANGED vars
  BY <1>1 DEF vars, WalletInv, TypeOK, KnownRows, CheckInv, CheckOf, Canonical, Verdict,
              OneRequestAtATime, OutcomeIsCanonical
<1>2. CASE Next
  BY <1>2, WalletTabs, WalletPrepare, WalletReject, WalletAsk, WalletSave, WalletNetwork
  DEF Next, Depth
<1> QED
  BY <1>1, <1>2

\* The inductive invariant holds for any plans, tabs, checks and bounds.
THEOREM WalletInvariant == Spec => []WalletInv
<1> QED
  BY WalletInit, WalletStep, PTL DEF Spec

\* What the journal says became of a request is what the chain says for good.
THEOREM OutcomesAreCanonical == Spec => []OutcomeIsCanonical
<1>1. WalletInv => OutcomeIsCanonical
  BY DEF WalletInv
<1> QED
  BY <1>1, WalletInvariant, PTL

\* No two requests of an owner are with the wallet or pending at once.
THEOREM OneRequest == Spec => []OneRequestAtATime
<1>1. WalletInv => OneRequestAtATime
  BY DEF WalletInv
<1> QED
  BY <1>1, WalletInvariant, PTL
-----------------------------------------------------------------------------
(* With one tab, and a node that sees what the wallet has sent, no step    *)
(* succeeds twice.                                                         *)

OneTab == PoolSeen /\ \A b, d \in Tabs : b = d

\* What is mined was sent, in the order of its numbers.
MinedWasSent == \A n \in DOMAIN mined : mined[n].tx \in pool /\ mined[n].tx.nonce + 1 = n

\* Its number is taken for good by something that is not a success of its step.
Dead(t) == t.nonce < deep /\ ~(mined[t.nonce + 1].tx.what = t.what /\ mined[t.nonce + 1].ok)
OneLives ==
  \A t, u \in pool : t.what \in Steps /\ t.what = u.what => t.nonce = u.nonce \/ Dead(t) \/ Dead(u)

\* What was sent was sent for a request, and not for one that is rejected.
Covered(t) ==
  \E i \in DOMAIN rows : rows[i].step = t.what /\ rows[i].nonce = t.nonce /\ rows[i].state # "rejected"
AllCovered == \A t \in pool : t.what \in Steps => Covered(t)

\* Step s can be tried with nonce n: whatever was sent for it before has this nonce or is dead.
Free(s, n) == \A t \in pool : t.what = s => t.nonce = n \/ Dead(t)
FencedFree == \A i \in DOMAIN rows : rows[i].state \in Fenced => Free(rows[i].step, rows[i].nonce)

\* What a prompt shows can be sent, and nothing was sent that a refusal would disown.
PromptStands(b) ==
  tab[b].at = "prompt" =>
    LET i == tab[b].row IN
    /\ rows[i].nonce = tab[b].nonce /\ rows[i].state # "rejected" /\ Free(rows[i].step, rows[i].nonce)
    /\ \A j \in DOMAIN rows : rows[j].state \in Fenced => j = i
RefusalStands(b) ==
  tab[b].at = "rejecting" =>
    \A t \in pool : t.nonce = rows[tab[b].row].nonce => t.what # rows[tab[b].row].step
TabsStand == \A b \in Tabs : PromptStands(b) /\ RefusalStands(b)

\* No check finds a request rejected.
ChecksFind == \A c \in Checks : check[c] # NoCheck => check[c].state # "rejected"

OnceInv == MinedWasSent /\ OneLives /\ AllCovered /\ FencedFree /\ TabsStand /\ ChecksFind

\* Initially nothing was sent.
LEMMA OnceInit == Init => OnceInv
BY DEF Init, OnceInv, MinedWasSent, OneLives, AllCovered, FencedFree, TabsStand, PromptStands,
       RefusalStands, ChecksFind, Idle

\* The tab alone moves.
LEMMA OnceTab ==
  ASSUME WalletInv, OnceInv, OneTab, UNCHANGED <<rows, check, pool, mined, deep>>, NEW b \in Tabs,
         PromptStands(b)', RefusalStands(b)'
  PROVE  OnceInv'
<1>1. MinedWasSent' /\ OneLives' /\ AllCovered' /\ FencedFree' /\ ChecksFind'
  BY DEF OnceInv, MinedWasSent, OneLives, AllCovered, FencedFree, ChecksFind, Covered, Free, Dead
<1>2. TabsStand'
  BY DEF OneTab, TabsStand
<1> QED
  BY <1>1, <1>2 DEF OnceInv

\* A tab that waits for neither the wallet nor a refusal relies on nothing.
LEMMA OnceQuiet ==
  ASSUME WalletInv, OnceInv, OneTab, UNCHANGED <<rows, check, pool, mined, deep>>, NEW b \in Tabs,
         NEW x, x.at \notin {"prompt", "rejecting"}, tab' = [tab EXCEPT ![b] = x]
  PROVE  OnceInv'
<1>1. tab'[b] = x
  BY DEF WalletInv, TypeOK
<1> QED
  BY <1>1, OnceTab DEF PromptStands, RefusalStands

\* Only what was never sent can be refused.
LEMMA OnceRefuse ==
  ASSUME WalletInv, OnceInv, OneTab, NEW b \in Tabs, NEW i \in DOMAIN rows, Refuse(b, i)
  PROVE  OnceInv'
<1>1. tab'[b] = [at |-> "rejecting", row |-> i] /\ UNCHANGED <<rows, check, pool, mined, deep>>
  BY DEF WalletInv, TypeOK, Refuse
<1>2. rows[i] \in RowType /\ pool \subseteq Tx
  BY DEF WalletInv, TypeOK
<1>3. \A t \in pool : t.nonce < rows[i].nonce
  BY DEF OneTab, Refuse, Unused, Quiet
<1>4. \A t \in pool : t.nonce # rows[i].nonce
  <2>1. rows[i].nonce \in Nat /\ \A t \in pool : t.nonce \in Nat
    BY <1>2, WalletBounds DEF RowType, Tx
  <2> QED
    BY <1>3, <2>1
<1>5. PromptStands(b)' /\ RefusalStands(b)'
  BY <1>1, <1>4 DEF PromptStands, RefusalStands
<1> QED
  BY <1>1, <1>5, OnceTab

\* What the wallet sends is the one transaction of its step that is not dead.
LEMMA OnceSign ==
  ASSUME WalletInv, OnceInv, OneTab, NEW b \in Tabs, Sign(b)
  PROVE  OnceInv'
<1> DEFINE i == tab[b].row
           u == [nonce |-> tab[b].nonce, what |-> rows[i].step, bump |-> FALSE]
<1>1. /\ pool' = pool \cup {u} /\ tab'[b] = Idle /\ UNCHANGED <<rows, check, mined, deep>>
      /\ tab[b].at = "prompt"
  BY DEF WalletInv, TypeOK, Sign
<1>2. u.nonce = rows[i].nonce /\ u.what = rows[i].step
  BY <1>1 DEF OnceInv, TabsStand, PromptStands
<1>3. /\ i \in DOMAIN rows /\ rows[i].state # "rejected" /\ Free(rows[i].step, rows[i].nonce)
      /\ \A j \in DOMAIN rows : rows[j].state \in Fenced => j = i
  BY <1>1 DEF OnceInv, TabsStand, PromptStands, WalletInv, KnownRows
<1> HIDE DEF u, i
<1>4. \A t : Dead(t)' <=> Dead(t)
  BY <1>1 DEF Dead
<1>5. MinedWasSent' /\ ChecksFind'
  BY <1>1 DEF OnceInv, MinedWasSent, ChecksFind
<1>6. OneLives'
  BY <1>1, <1>2, <1>3, <1>4 DEF OnceInv, OneLives, Free
<1>7. AllCovered'
  BY <1>1, <1>2, <1>3 DEF OnceInv, AllCovered, Covered
<1>8. FencedFree'
  BY <1>1, <1>2, <1>3, <1>4 DEF OnceInv, FencedFree, Free
<1>9. TabsStand'
  BY <1>1 DEF OneTab, TabsStand, PromptStands, RefusalStands, Idle
<1> QED
  BY <1>5, <1>6, <1>7, <1>8, <1>9 DEF OnceInv

\* A step that can be requested is dead wherever it was sent before.
LEMMA NothingLives ==
  ASSUME WalletInv, OnceInv, Active = {}, NEW s \in Steps, ~Completed(s), NEW t \in pool, t.what = s
  PROVE  Dead(t)
<1>1. PICK i \in DOMAIN rows : rows[i].step = t.what /\ rows[i].nonce = t.nonce /\ rows[i].state # "rejected"
  BY DEF OnceInv, AllCovered, Covered
<1>2. rows[i].state \in State
  <2>1. rows[i] \in RowType
    BY DEF WalletInv, TypeOK
  <2> QED
    BY <2>1 DEF RowType
<1>3. rows[i].state \in {"reverted", "replaced"}
  BY <1>1, <1>2 DEF State, Active, Completed, Decided
<1>4. rows[i].nonce < deep /\ rows[i].state = Verdict(mined[rows[i].nonce + 1], rows[i])
  BY <1>3 DEF WalletInv, OutcomeIsCanonical, Decided
<1>5. rows[i].state = "replaced" => mined[rows[i].nonce + 1].tx.what # rows[i].step
  BY <1>4 DEF Verdict
<1>6. rows[i].state = "reverted" => ~mined[rows[i].nonce + 1].ok
  BY <1>4 DEF Verdict
<1> QED
  BY <1>1, <1>3, <1>4, <1>5, <1>6 DEF Dead

\* A request enters the journal, or is shown again.
LEMMA OncePrepare ==
  ASSUME WalletInv, OnceInv, OneTab, NEW b \in Tabs, Prepare(b)
  PROVE  OnceInv'
<1> DEFINE s == tab[b].step
           n == tab[b].nonce
           r == [step |-> s, state |-> "awaiting-wallet", nonce |-> n, hash |-> None]
<1>0. /\ rows \in Seq(RowType) /\ tab[b] \in TabType /\ Len(rows) \in Nat /\ s \in Steps
      /\ UNCHANGED <<pool, mined, deep>>
  BY TabShape DEF WalletInv, TypeOK, Prepare
<1>1. \A t : Dead(t)' <=> Dead(t)
  BY <1>0 DEF Dead
<1>2. \A x, y : Free(x, y)' <=> Free(x, y)
  BY <1>0, <1>1 DEF Free
<1>3. MinedWasSent' /\ OneLives'
  BY <1>0, <1>1 DEF OnceInv, MinedWasSent, OneLives
<1>4. CASE /\ Active = {} /\ ~Completed(s)
           /\ rows' = Append(rows, r) /\ Prompt(b, Len(rows) + 1, n) /\ check' = check
  <2>1. Free(s, n)
    BY <1>0, <1>4, NothingLives DEF Free
  <2>2. r.step = s /\ r.state = "awaiting-wallet" /\ r.nonce = n
    OBVIOUS
  <2> HIDE DEF r, s, n
  <2>3. /\ DOMAIN rows' = DOMAIN rows \cup {Len(rows) + 1}
        /\ rows'[Len(rows) + 1] = r /\ \A j \in DOMAIN rows : rows'[j] = rows[j]
    BY <1>0, <1>4
  <2>4. tab'[b] = [at |-> "prompt", row |-> Len(rows) + 1, nonce |-> n]
    BY <1>4 DEF Prompt, WalletInv, TypeOK
  <2>5. AllCovered'
    BY <1>0, <2>3 DEF OnceInv, AllCovered, Covered
  <2>6. FencedFree'
    BY <1>2, <2>1, <2>2, <2>3 DEF OnceInv, FencedFree
  <2>7. \A j \in DOMAIN rows' : rows'[j].state \in Fenced => j = Len(rows) + 1
    BY <1>4, <2>3 DEF Active, Fenced, Unresolved
  <2>8. TabsStand'
    BY <1>2, <2>1, <2>2, <2>3, <2>4, <2>7 DEF OneTab, TabsStand, PromptStands, RefusalStands
  <2> QED
    BY <1>3, <1>4, <2>5, <2>6, <2>8 DEF OnceInv, ChecksFind
<1>5. ASSUME NEW i \in Active, rows[i].step = s, rows[i].state = "awaiting-wallet", rows[i].nonce = n,
             Write(i, rows[i]), Prompt(b, i, n)
      PROVE  OnceInv'
  <2> HIDE DEF s, n
  <2>1. i \in DOMAIN rows /\ rows' = rows
    BY <1>0, <1>5 DEF Active, Write
  <2>2. tab'[b] = [at |-> "prompt", row |-> i, nonce |-> n]
    BY <1>5 DEF Prompt, WalletInv, TypeOK
  <2>3. AllCovered'
    BY <1>0, <2>1 DEF OnceInv, AllCovered, Covered
  <2>4. FencedFree'
    BY <1>2, <2>1 DEF OnceInv, FencedFree
  <2>5. Free(rows[i].step, rows[i].nonce) /\ \A j \in DOMAIN rows : rows[j].state \in Fenced => j = i
    BY <1>5, <2>1 DEF OnceInv, FencedFree, Fenced, WalletInv, OneRequestAtATime
  <2>6. TabsStand'
    BY <1>2, <1>5, <2>1, <2>2, <2>5 DEF OneTab, TabsStand, PromptStands, RefusalStands
  <2>7. ChecksFind'
    <3>1. ASSUME NEW c \in Checks, check'[c] # NoCheck PROVE check'[c].state # "rejected"
      <4>1. check[c] \in CheckType /\ i # 0
        BY <1>0, <2>1 DEF WalletInv, TypeOK
      <4>2. check'[c] = IF check[c].row = i THEN [check[c] EXCEPT !.dated = TRUE] ELSE check[c]
        BY <1>5 DEF Write
      <4>3. check[c] # NoCheck
        BY <3>1, <4>1, <4>2 DEF NoCheck
      <4>4. check'[c].state = check[c].state
        BY <4>1, <4>2 DEF CheckType
      <4> QED
        BY <4>3, <4>4 DEF OnceInv, ChecksFind
    <3> QED
      BY <3>1 DEF ChecksFind
  <2> QED
    BY <1>3, <2>3, <2>4, <2>6, <2>7 DEF OnceInv
<1> QED
  BY <1>4, <1>5 DEF Prepare

\* Rows get another state: none is fenced that was not, and none rejected that was sent.
LEMMA OnceRows ==
  ASSUME WalletInv, OnceInv, UNCHANGED <<pool, mined, deep>>, DOMAIN rows' = DOMAIN rows,
         \A j \in DOMAIN rows :
           /\ rows'[j].step = rows[j].step /\ rows'[j].nonce = rows[j].nonce
           /\ rows'[j].state \in Fenced => rows[j].state \in Fenced
           /\ \/ rows'[j].state = "rejected" => rows[j].state = "rejected"
              \/ \A t \in pool : t.nonce = rows[j].nonce => t.what # rows[j].step
  PROVE  MinedWasSent' /\ OneLives' /\ AllCovered' /\ FencedFree'
<1>1. \A t : Dead(t)' <=> Dead(t)
  BY DEF Dead
<1>2. MinedWasSent' /\ OneLives'
  BY <1>1 DEF OnceInv, MinedWasSent, OneLives
<1>3. AllCovered'
  BY DEF OnceInv, AllCovered, Covered
<1>4. FencedFree'
  BY <1>1 DEF OnceInv, FencedFree, Free
<1> QED
  BY <1>2, <1>3, <1>4

\* A request is rejected whose refusal still stands.
LEMMA OnceReject ==
  ASSUME WalletInv, OnceInv, OneTab, NEW b \in Tabs, Reject(b)
  PROVE  OnceInv'
<1>1. PICK i : i = tab[b].row
  OBVIOUS
<1>2. /\ i \in DOMAIN rows /\ rows[i] \in RowType /\ rows \in Seq(RowType) /\ i # 0
      /\ check \in [Checks -> CheckType]
  BY <1>1 DEF WalletInv, TypeOK, KnownRows, Reject
<1>3. PICK r : r = [rows[i] EXCEPT !.state = "rejected"]
  OBVIOUS
<1>4. r.step = rows[i].step /\ r.nonce = rows[i].nonce /\ r.state = "rejected"
  BY <1>2, <1>3 DEF RowType
<1>5. /\ rows' = [rows EXCEPT ![i] = r] /\ tab'[b] = Idle /\ UNCHANGED <<pool, mined, deep>>
      /\ check' = [c \in Checks |-> IF check[c].row = i THEN [check[c] EXCEPT !.dated = TRUE]
                                    ELSE check[c]]
  BY <1>1, <1>3 DEF Reject, Write, WalletInv, TypeOK
<1>6. \A t \in pool : t.nonce = rows[i].nonce => t.what # rows[i].step
  BY <1>1 DEF Reject, OnceInv, TabsStand, RefusalStands
<1>7. MinedWasSent' /\ OneLives' /\ AllCovered' /\ FencedFree'
  <2>1. /\ DOMAIN rows' = DOMAIN rows /\ rows'[i] = r
        /\ \A j \in DOMAIN rows : j # i => rows'[j] = rows[j]
    BY <1>2, <1>5
  <2> QED
    BY <1>4, <1>5, <1>6, <2>1, OnceRows DEF Fenced
<1>8. TabsStand'
  BY <1>5 DEF OneTab, TabsStand, PromptStands, RefusalStands, Idle
<1>9. ChecksFind'
  <2>1. ASSUME NEW c \in Checks, check'[c] # NoCheck PROVE check'[c].state # "rejected"
    <3>0. NoCheck.row = 0 /\ check[c] \in CheckType
      BY <1>2 DEF NoCheck
    <3>1. check[c] # NoCheck
      BY <1>2, <1>5, <2>1, <3>0
    <3>2. check'[c].state = check[c].state
      BY <1>5, <3>0 DEF CheckType
    <3> QED
      BY <3>1, <3>2 DEF OnceInv, ChecksFind
  <2> QED
    BY <2>1 DEF ChecksFind
<1> QED
  BY <1>7, <1>8, <1>9 DEF OnceInv

\* A check never makes a request look unsent.
LEMMA OnceAsk ==
  ASSUME WalletInv, OnceInv, OneTab, NEW c \in Checks, NEW i \in DOMAIN rows, NEW h \in Hints,
         NEW e \in 0 .. deep, Ask(c, i, h, e)
  PROVE  OnceInv'
<1>0. PICK found \in {h, None} :
        /\ Proof(rows[i], found, e) # None \/ rows[i].state # "rejected"
        /\ check' = [check EXCEPT ![c] =
             [row |-> i, dated |-> FALSE, state |-> Outcome(rows[i], h, Proof(rows[i], found, e)),
              hash |-> IF Proof(rows[i], found, e) = None THEN h
                       ELSE Proof(rows[i], found, e).hash]]
  BY DEF Ask
<1>1. PICK p, state, hash : /\ p = Proof(rows[i], found, e) /\ state = Outcome(rows[i], h, p)
                            /\ hash = IF p = None THEN h ELSE p.hash
  OBVIOUS
<1>2. /\ check' = [check EXCEPT ![c] = [row |-> i, dated |-> FALSE, state |-> state, hash |-> hash]]
      /\ UNCHANGED <<rows, tab, pool, mined, deep>>
  BY <1>0, <1>1 DEF Ask
<1>3. state # "rejected"
  <2>1. p = None => state # "rejected"
    BY <1>1 DEF Outcome
  <2>2. CASE p # None
    <3>1. p.state # "rejected"
      BY <1>1, <2>2 DEF Proof, Verdict
    <3> QED
      BY <1>1, <2>2, <3>1 DEF Outcome
  <2> QED
    BY <2>1, <2>2
<1>4. ChecksFind'
  BY <1>2, <1>3 DEF OnceInv, ChecksFind, WalletInv, TypeOK
<1>5. MinedWasSent' /\ OneLives' /\ AllCovered' /\ FencedFree'
  BY <1>2, OnceRows
<1>6. TabsStand'
  BY <1>2 DEF OnceInv, TabsStand, PromptStands, RefusalStands, Free, Dead
<1> QED
  BY <1>4, <1>5, <1>6 DEF OnceInv

\* A finding that is saved rejects nothing and releases no request but to settle it.
LEMMA OnceSave ==
  ASSUME WalletInv, OnceInv, OneTab, NEW c \in Checks, Save(c)
  PROVE  OnceInv'
<1>1. PICK i, state, hash : i = check[c].row /\ state = check[c].state /\ hash = check[c].hash
  OBVIOUS
<1>2. /\ i \in DOMAIN rows /\ rows[i] \in RowType /\ rows \in Seq(RowType)
      /\ check \in [Checks -> CheckType] /\ state # "rejected"
      /\ state \in Fenced /\ ~check[c].dated => rows[i].state \in Fenced
  BY <1>1 DEF WalletInv, TypeOK, KnownRows, CheckInv, CheckOf, Save, OnceInv, ChecksFind
<1>3. UNCHANGED <<tab, pool, mined, deep>>
  BY DEF Save
<1>4. /\ DOMAIN rows' = DOMAIN rows
      /\ \A j \in DOMAIN rows :
           /\ rows'[j].step = rows[j].step /\ rows'[j].nonce = rows[j].nonce
           /\ rows'[j].state \in Fenced => rows[j].state \in Fenced
           /\ rows'[j].state = "rejected" => rows[j].state = "rejected"
  <2>1. CASE check[c].dated
    BY <2>1 DEF Save, SameVersion
  <2>2. CASE ~check[c].dated
    <3>1. PICK r : r = [rows[i] EXCEPT !.state = state, !.hash = hash]
      OBVIOUS
    <3>2. r.step = rows[i].step /\ r.nonce = rows[i].nonce /\ r.state = state
      BY <1>2, <3>1 DEF RowType
    <3>3. rows' = [rows EXCEPT ![i] = r]
      BY <1>1, <2>2, <3>1 DEF Save, SameVersion
    <3>4. /\ DOMAIN rows' = DOMAIN rows /\ rows'[i] = r
          /\ \A j \in DOMAIN rows : j # i => rows'[j] = rows[j]
      BY <1>2, <3>3
    <3> QED
      BY <1>2, <2>2, <3>2, <3>4
  <2> QED
    BY <2>1, <2>2
<1>5. MinedWasSent' /\ OneLives' /\ AllCovered' /\ FencedFree'
  BY <1>3, <1>4, OnceRows
<1>6. TabsStand'
  <2>1. \A t : Dead(t)' <=> Dead(t)
    BY <1>3 DEF Dead
  <2>2. \A x, y : Free(x, y)' <=> Free(x, y)
    BY <1>3, <2>1 DEF Free
  <2>3. ASSUME NEW b \in Tabs PROVE PromptStands(b)' /\ RefusalStands(b)'
    <3>1. tab[b].at \in {"prompt", "rejecting"} => tab[b].row \in DOMAIN rows
      BY DEF WalletInv, KnownRows
    <3> QED
      BY <1>3, <1>4, <2>2, <3>1 DEF OnceInv, TabsStand, PromptStands, RefusalStands
  <2> QED
    BY <2>3 DEF TabsStand
<1>7. ChecksFind'
  <2>1. ASSUME NEW d \in Checks, check'[d] # NoCheck PROVE check'[d].state # "rejected"
    <3>1. NoCheck.row = 0 /\ check[d] \in CheckType /\ i # 0
      BY <1>2 DEF NoCheck
    <3>2. /\ check'[d] \in {NoCheck, check[d], [check[d] EXCEPT !.dated = TRUE]}
          /\ check[d].row # i => check'[d] \in {NoCheck, check[d]}
      BY <1>1, <1>2 DEF Save
    <3>3. check[d] # NoCheck
      BY <2>1, <3>1, <3>2
    <3>4. check'[d].state = check[d].state
      BY <2>1, <3>1, <3>2 DEF CheckType
    <3> QED
      BY <3>3, <3>4 DEF OnceInv, ChecksFind
  <2> QED
    BY <2>1 DEF ChecksFind
<1> QED
  BY <1>5, <1>6, <1>7 DEF OnceInv

\* The chain and the wallet: what is dead stays so, and nothing new is sent for a step.
LEMMA OnceNetwork ==
  ASSUME WalletInv, OnceInv, UNCHANGED <<rows, tab, check>>, MinedWasSent',
         \A t \in pool : Dead(t) => Dead(t)',
         \A u \in pool' : u.what \in Steps =>
           \E t \in pool : t.nonce = u.nonce /\ t.what = u.what
  PROVE  OnceInv'
<1>1. ASSUME NEW t, NEW u, t.nonce = u.nonce, t.what = u.what, Dead(t)' PROVE Dead(u)'
  BY <1>1 DEF Dead
<1>2. OneLives'
  <2> SUFFICES ASSUME NEW t \in pool', NEW u \in pool', t.what \in Steps, t.what = u.what
               PROVE  t.nonce = u.nonce \/ Dead(t)' \/ Dead(u)'
    BY DEF OneLives, Dead
  <2>1. PICK x \in pool : x.nonce = t.nonce /\ x.what = t.what
    OBVIOUS
  <2>2. PICK y \in pool : y.nonce = u.nonce /\ y.what = u.what
    OBVIOUS
  <2>3. x.nonce = y.nonce \/ Dead(x) \/ Dead(y)
    BY <2>1, <2>2 DEF OnceInv, OneLives
  <2> QED
    BY <1>1, <2>1, <2>2, <2>3
<1>3. AllCovered' /\ ChecksFind'
  BY DEF OnceInv, AllCovered, Covered, ChecksFind
<1>4. ASSUME NEW s \in Steps, NEW n, Free(s, n) PROVE Free(s, n)'
  <2> SUFFICES ASSUME NEW u \in pool', u.what = s PROVE u.nonce = n \/ Dead(u)'
    BY DEF Free, Dead
  <2>1. PICK t \in pool : t.nonce = u.nonce /\ t.what = u.what
    OBVIOUS
  <2>2. t.nonce = n \/ Dead(t)
    BY <1>4, <2>1 DEF Free
  <2> QED
    BY <1>1, <2>1, <2>2
<1>5. \A i \in DOMAIN rows : rows[i].step \in Steps
  <2>1. \A i \in DOMAIN rows : rows[i] \in RowType
    BY DEF WalletInv, TypeOK
  <2> QED
    BY <2>1 DEF RowType
<1>6. FencedFree'
  <2> SUFFICES ASSUME NEW i \in DOMAIN rows, rows[i].state \in Fenced
               PROVE  Free(rows[i].step, rows[i].nonce)'
    BY DEF FencedFree
  <2>1. PICK s, n : s \in Steps /\ s = rows[i].step /\ n = rows[i].nonce
    BY <1>5
  <2>2. Free(s, n)'
    BY <1>4, <2>1 DEF OnceInv, FencedFree
  <2> QED
    BY <2>1, <2>2 DEF Free, Dead
<1>7. ASSUME NEW b \in Tabs PROVE PromptStands(b)' /\ RefusalStands(b)'
  <2>1. tab[b].at \in {"prompt", "rejecting"} => tab[b].row \in DOMAIN rows
    BY DEF WalletInv, KnownRows
  <2>2. RefusalStands(b)'
    BY <1>5, <2>1 DEF OnceInv, TabsStand, RefusalStands
  <2>3. ASSUME tab[b].at = "prompt" PROVE PromptStands(b)'
    <3>1. PICK s, n : s \in Steps /\ s = rows[tab[b].row].step /\ n = rows[tab[b].row].nonce
      BY <1>5, <2>1, <2>3
    <3>2. Free(s, n)'
      BY <1>4, <2>3, <3>1 DEF OnceInv, TabsStand, PromptStands
    <3>3. Free(rows[tab[b].row].step, rows[tab[b].row].nonce)'
      BY <3>1, <3>2 DEF Free, Dead
    <3> QED
      BY <2>3, <3>3 DEF OnceInv, TabsStand, PromptStands
  <2> QED
    BY <2>2, <2>3 DEF PromptStands
<1> QED
  BY <1>2, <1>3, <1>6, <1>7 DEF OnceInv, TabsStand

\* The wallet sends, a block is mined, deepens, or is exchanged.
LEMMA OnceChain ==
  ASSUME WalletInv, OnceInv, WalletSends \/ (\E t \in pool : Mine(t)) \/ Deepen \/ Reorg
  PROVE  OnceInv'
<1>0. /\ pool \subseteq Tx /\ mined \in Seq(Receipt) /\ Len(mined) \in Nat
      /\ deep \in Nat /\ deep <= Len(mined) /\ DOMAIN mined = 1 .. Len(mined)
  BY DEF WalletInv, TypeOK
<1>n. \A t \in Tx : t.nonce \in Nat
  BY WalletBounds DEF Tx
<1>c. UNCHANGED <<rows, tab, check>>
  BY DEF WalletSends, Mine, Deepen, Reorg
<1>1. CASE WalletSends
  <2>1. \A u \in pool' : u.what \in Steps => \E t \in pool : t.nonce = u.nonce /\ t.what = u.what
    <3>1. CASE pool' = pool \cup {[nonce |-> Len(mined), what |-> Other, bump |-> FALSE]}
      BY <3>1, WalletBounds
    <3>2. ASSUME NEW t \in pool, pool' = pool \cup {[t EXCEPT !.bump = TRUE]}
          PROVE  \A u \in pool' : u.what \in Steps => \E x \in pool : x.nonce = u.nonce /\ x.what = u.what
      <4>1. t \in Tx
        BY <1>0
      <4>2. [t EXCEPT !.bump = TRUE].nonce = t.nonce /\ [t EXCEPT !.bump = TRUE].what = t.what
        BY <4>1 DEF Tx
      <4> QED
        BY <3>2, <4>2
    <3> QED
      BY <1>1, <3>1, <3>2 DEF WalletSends
  <2>2. MinedWasSent' /\ \A t : Dead(t) => Dead(t)'
    BY <1>1 DEF WalletSends, OnceInv, MinedWasSent, Dead
  <2> QED
    BY <1>c, <2>1, <2>2, OnceNetwork
<1>2. ASSUME pool' = pool, NEW x \in 0 .. Len(mined'), deep' = x, deep <= x, mined' \in Seq(Receipt),
             \A n \in 1 .. deep : mined'[n] = mined[n], MinedWasSent'
      PROVE  OnceInv'
  <2>1. ASSUME NEW t \in pool, Dead(t) PROVE Dead(t)'
    <3>1. t.nonce \in Nat /\ t.nonce < deep
      BY <1>0, <1>n, <2>1 DEF Dead
    <3>2. t.nonce + 1 \in 1 .. deep /\ t.nonce < deep'
      BY <1>0, <1>2, <3>1
    <3> QED
      BY <1>2, <2>1, <3>2 DEF Dead
  <2> QED
    BY <1>2, <1>c, <2>1, OnceNetwork
<1>3. ASSUME NEW t \in pool, Mine(t) PROVE OnceInv'
  <2>1. PICK ok \in BOOLEAN : mined' = Append(mined, [tx |-> t, ok |-> ok])
    BY <1>3 DEF Mine
  <2>2. [tx |-> t, ok |-> ok] \in Receipt /\ t.nonce = Len(mined)
    BY <1>0, <1>3 DEF Receipt, Mine
  <2>3. /\ mined' \in Seq(Receipt) /\ Len(mined') = Len(mined) + 1
        /\ \A n \in 1 .. Len(mined) : mined'[n] = mined[n]
        /\ mined'[Len(mined) + 1] = [tx |-> t, ok |-> ok]
    BY <1>0, <2>1, <2>2
  <2>4. pool' = pool /\ deep' = deep
    BY <1>3 DEF Mine
  <2>5. MinedWasSent'
    BY <1>0, <2>2, <2>3, <2>4 DEF OnceInv, MinedWasSent
  <2> QED
    BY <1>0, <1>2, <2>3, <2>4, <2>5
<1>4. CASE Deepen
  <2>1. /\ mined' = mined /\ pool' = pool /\ deep' = deep + 1 /\ deep < Len(mined)
    BY <1>4 DEF Deepen
  <2>2. MinedWasSent'
    BY <2>1 DEF OnceInv, MinedWasSent
  <2> QED
    BY <1>0, <1>2, <2>1, <2>2
<1>5. CASE Reorg
  <2>1. mined' = SubSeq(mined, 1, deep) /\ deep' = deep /\ pool' = pool
    BY <1>5 DEF Reorg
  <2>2. /\ mined' \in Seq(Receipt) /\ Len(mined') = deep
        /\ \A n \in 1 .. deep : mined'[n] = mined[n]
    BY <1>0, <2>1
  <2>3. MinedWasSent'
    BY <1>0, <2>1, <2>2 DEF OnceInv, MinedWasSent
  <2> QED
    BY <1>0, <1>2, <2>1, <2>2, <2>3
<1> QED
  BY <1>1, <1>3, <1>4, <1>5

\* Every step preserves it.
LEMMA OnceStep == OneTab /\ WalletInv /\ OnceInv /\ [Next]_vars => OnceInv'
<1> SUFFICES ASSUME OneTab, WalletInv, OnceInv, [Next]_vars PROVE OnceInv'
    OBVIOUS
<1>1. CASE UNCHANGED vars
  BY <1>1 DEF vars, OnceInv, MinedWasSent, OneLives, AllCovered, FencedFree, TabsStand, ChecksFind,
              Covered, Free, Dead, PromptStands, RefusalStands
<1>2. ASSUME NEW b \in Tabs,
             (\E s \in Steps : Preflight(b, s)) \/ GiveUp(b) \/ Unsendable(b) \/ RefuseInVain(b)
      PROVE  OnceInv'
  <2>1. ASSUME NEW s \in Steps, Preflight(b, s) PROVE OnceInv'
    <3>1. PICK n : tab' = [tab EXCEPT ![b] = [at |-> "observed", step |-> s, nonce |-> n]]
      BY <2>1 DEF Preflight
    <3> QED
      BY <2>1, <3>1, OnceQuiet DEF Preflight
  <2>2. CASE GiveUp(b) \/ Unsendable(b) \/ RefuseInVain(b)
    BY <2>2, OnceQuiet DEF GiveUp, Unsendable, RefuseInVain, Idle
  <2> QED
    BY <1>2, <2>1, <2>2
<1>3. CASE Next
  BY <1>2, <1>3, OnceRefuse, OnceSign, OncePrepare, OnceReject, OnceAsk, OnceSave, OnceChain
  DEF Next, Depth
<1> QED
  BY <1>1, <1>3

\* Two successes of a step would be two transactions of it that are not dead.
LEMMA OneSuccess == ASSUME WalletInv, OnceInv PROVE StepOnce
<1> SUFFICES ASSUME NEW s \in Steps PROVE Cardinality(Succeeded(s)) <= 1
    BY DEF StepOnce
<1>0. mined \in Seq(Receipt) /\ DOMAIN mined \subseteq Nat /\ pool \subseteq Tx
  BY DEF WalletInv, TypeOK
<1>1. ASSUME NEW n \in Succeeded(s), NEW m \in Succeeded(s) PROVE n = m
  <2>1. /\ n \in Nat /\ m \in Nat
        /\ mined[n].tx \in pool /\ mined[n].tx.nonce + 1 = n /\ mined[n].tx.what = s /\ mined[n].ok
        /\ mined[m].tx \in pool /\ mined[m].tx.nonce + 1 = m /\ mined[m].tx.what = s /\ mined[m].ok
    BY <1>0 DEF Succeeded, OnceInv, MinedWasSent
  <2>2. ~Dead(mined[n].tx) /\ ~Dead(mined[m].tx)
    BY <2>1 DEF Dead
  <2>3. mined[n].tx.nonce = mined[m].tx.nonce
    BY <2>1, <2>2 DEF OnceInv, OneLives
  <2> QED
    BY <2>1, <2>3
<1>2. CASE Succeeded(s) = {}
  BY <1>2, FS_EmptySet
<1>3. ASSUME NEW n \in Succeeded(s) PROVE Cardinality(Succeeded(s)) <= 1
  <2>1. Succeeded(s) = {n}
    BY <1>1, <1>3
  <2> QED
    BY <2>1, FS_Singleton
<1> QED
  BY <1>2, <1>3

\* For any plans, checks, lagging nodes and reorganisations: a Maker who prepares in one
\* tab, with a node that sees the wallet's pool, is asked one thing at a time and does no
\* step of a plan twice, a repeatable approval included.
THEOREM SentOnceByOneTab == ASSUME OneTab PROVE Spec => []SentOnce
<1>1. Init => OnceInv
  BY OnceInit
<1>2. OnceInv /\ WalletInv /\ [Next]_vars => OnceInv'
  BY OnceStep
<1>3. WalletInv /\ OnceInv => SentOnce
  BY OneSuccess DEF WalletInv, SentOnce
<1> QED
  BY <1>1, <1>2, <1>3, WalletInvariant, PTL DEF Spec
=============================================================================
