------------------------------- MODULE Sessions -------------------------------
(***************************************************************************)
(* The builder's HTTP front: wallet logins by a signed challenge bound to a *)
(* Privy identity, the bearer sessions they open, the per-process limit on  *)
(* attempts, and the order in which a request is checked before an          *)
(* operation runs for its owner.  A login reads the challenge, verifies the *)
(* signature and only then consumes it; a request authenticates and only    *)
(* then reads its body, so other requests happen in between.                *)
(***************************************************************************)
EXTENDS Naturals, FiniteSets, Functions

CONSTANTS Challenges, Requests, Wallets, Identities, Peers,
          MaxTime, ChallengeLife, SessionLife, \* 5 minutes and 24 hours in the code
          Window, LoginBudget, ReadBudget,     \* 60 s, 60 and 120
          MaxPeers,                            \* 10000 remembered addresses
          None

VARIABLES now,
          challenges,  \* challenge -> None or its row
          sessions,    \* rows of builder.sessions
          attempts,    \* peer -> None or [count, expires]
          request,     \* request -> None or how far it got
          done         \* operations that ran: [owner, identity, kind]

vars == <<now, challenges, sessions, attempts, request, done>>

Issued == {c \in Challenges : challenges[c] # None}
Kinds == {"write", "catalog", "logout"}

Init == /\ now = 0 /\ challenges = [c \in Challenges |-> None] /\ sessions = {}
        /\ attempts = [p \in Peers |-> None] /\ request = [r \in Requests |-> None]
        /\ done = {}

(***************************************************************************)
(* The limiter: a fixed window per address; the map is swept when a new     *)
(* window opens and refuses new addresses while it is full.                 *)
(***************************************************************************)
Swept(at) == [p \in Peers |-> IF at[p] # None /\ at[p].expires <= now THEN None ELSE at[p]]
Known(at) == {p \in Peers : at[p] # None}
OpenWindow(p) == attempts[p] # None /\ attempts[p].expires > now
\* The count stops mattering beyond both budgets (bound of the model).
Counted(p) ==
  IF OpenWindow(p) THEN [attempts EXCEPT ![p].count = IF @ > LoginBudget + ReadBudget THEN @ ELSE @ + 1]
  ELSE [Swept(attempts) EXCEPT ![p] = [count |-> 1, expires |-> now + Window]]
Allowed(p, budget) ==
  IF OpenWindow(p) THEN attempts[p].count < budget
  ELSE Cardinality(Known(Swept(attempts))) < MaxPeers /\ budget > 0
\* A refused attempt of a known address is counted too; a full map is only swept.
Limit(p, budget) ==
  attempts' = IF OpenWindow(p) \/ Allowed(p, budget) THEN Counted(p) ELSE Swept(attempts)

(***************************************************************************)
(* Challenges and logins.                                                   *)
(***************************************************************************)
Challenge(c, w, i, p) ==
  /\ challenges[c] = None /\ Limit(p, LoginBudget)
  /\ challenges' = IF Allowed(p, LoginBudget)
       THEN [challenges EXCEPT ![c] = [wallet |-> w, identity |-> i, consumed |-> FALSE,
                expires |-> now + ChallengeLife, until |-> now + SessionLife]]
       ELSE challenges
  /\ UNCHANGED <<now, sessions, request, done>>

Open(c) == /\ challenges[c] # None /\ ~challenges[c].consumed /\ challenges[c].expires > now
Matches(row, identity) == row.identity = identity

\* The server-held message is verified against the address it was issued for.
ReadChallenge(r, c, i, p) ==
  /\ request[r] = None /\ Limit(p, LoginBudget)
  /\ IF Allowed(p, LoginBudget) /\ Open(c) /\ Matches(challenges[c], i)
     THEN request' = [request EXCEPT ![r] = [step |-> "consume", challenge |-> c, identity |-> i]]
     ELSE UNCHANGED request
  /\ UNCHANGED <<now, challenges, sessions, done>>

\* Defect: the row read before the signature was verified is trusted.
ReadBefore(c) == challenges[c].expires > now
Unconsumed(c) == Open(c)
At(r, step) == request[r] # None /\ request[r].step = step
Consume(r) ==
  /\ At(r, "consume") /\ request' = [request EXCEPT ![r] = None]
  /\ LET c == request[r].challenge row == challenges[request[r].challenge]
     IN IF Unconsumed(c)
        THEN /\ challenges' = [challenges EXCEPT ![c].consumed = TRUE]
             /\ sessions' = sessions \union
                  {[token |-> r, challenge |-> c, wallet |-> row.wallet,
                    identity |-> request[r].identity, expires |-> row.until, revoked |-> FALSE]}
        ELSE UNCHANGED <<challenges, sessions>>
  /\ UNCHANGED <<now, attempts, done>>
Unsigned(r) == /\ At(r, "consume") /\ request' = [request EXCEPT ![r] = None]
               /\ UNCHANGED <<now, challenges, sessions, attempts, done>>

(***************************************************************************)
(* Requests: the session is read, the body awaited, the operation run.      *)
(***************************************************************************)
Live(s) == ~s.revoked /\ s.expires > now
Authenticate(r, s, i, kind, p) ==
  /\ request[r] = None
  /\ IF Live(s) /\ Matches(s, i) /\ (kind = "catalog" => Allowed(p, ReadBudget))
     THEN request' = [request EXCEPT ![r] =
            [step |-> "body", owner |-> s.wallet, identity |-> i, kind |-> kind, session |-> s]]
     ELSE UNCHANGED request
  /\ IF kind = "catalog" /\ Live(s) /\ Matches(s, i) THEN Limit(p, ReadBudget) ELSE UNCHANGED attempts
  /\ UNCHANGED <<now, challenges, sessions, done>>

\* The checks between the session and the operation: a service that is not
\* configured, a write without an idempotency key, a body that does not parse.
Dismissed(r) == /\ At(r, "body") /\ request[r].kind # "logout"
                /\ request' = [request EXCEPT ![r] = None]
                /\ UNCHANGED <<now, challenges, sessions, attempts, done>>
Operate(r) ==
  /\ At(r, "body") /\ request' = [request EXCEPT ![r] = None]
  /\ LET q == request[r]
     IN IF q.kind = "logout"
        THEN /\ sessions' = {IF s.token = q.session.token /\ s.challenge = q.session.challenge
                             THEN [s EXCEPT !.revoked = TRUE] ELSE s : s \in sessions}
             /\ UNCHANGED done
        ELSE /\ done' = done \union {[owner |-> q.owner, identity |-> q.identity, kind |-> q.kind]}
             /\ UNCHANGED sessions
  /\ UNCHANGED <<now, challenges, attempts>>

Tick == /\ now < MaxTime /\ now' = now + 1
        /\ UNCHANGED <<challenges, sessions, attempts, request, done>>

Next ==
  \/ \E c \in Challenges, i \in Identities, p \in Peers :
        \/ \E w \in Wallets : Challenge(c, w, i, p)
        \/ \E r \in Requests : ReadChallenge(r, c, i, p)
  \/ \E r \in Requests : \/ Consume(r) \/ Unsigned(r) \/ Dismissed(r) \/ Operate(r)
                         \/ \E s \in sessions, i \in Identities, p \in Peers, kind \in Kinds :
                               Authenticate(r, s, i, kind, p)
  \/ Tick

Spec == Init /\ [][Next]_vars

(***************************************************************************)
(* Properties.                                                              *)
(***************************************************************************)
TypeOK == /\ now \in 0 .. MaxTime
          /\ \A c \in Issued : challenges[c].until <= MaxTime + SessionLife
          /\ \A s \in sessions : s.challenge \in Issued
          /\ \A p \in Peers : attempts[p] # None => attempts[p].expires <= now + Window
          /\ Cardinality(Known(attempts)) <= MaxPeers

\* A signed challenge opens one session, however many logins carry the
\* signature at once, for the identity it was issued to and until the moment
\* its text says; and whatever ran for an owner ran for an identity that had
\* such a session of that owner's wallet.
SessionsAreProven ==
  /\ \A s, t \in sessions : s.challenge = t.challenge => s.token = t.token
  /\ \A s \in sessions : LET row == challenges[s.challenge]
                         IN /\ row.consumed /\ row.identity = s.identity
                            /\ row.wallet = s.wallet /\ row.until = s.expires
  /\ \A d \in done : \E s \in sessions : s.wallet = d.owner /\ s.identity = d.identity

(***************************************************************************)
(* The inductive invariant.  A login under way is the one its challenge was *)
(* issued to, though it may be consumed by then; an operation about to run  *)
(* has an owner with a session, though it may be revoked by then.           *)
(***************************************************************************)
ChallengeRows == [wallet : Wallets, identity : Identities, consumed : BOOLEAN,
                  expires : Nat, until : 0 .. MaxTime + SessionLife]
SessionRows == [token : Requests, challenge : Challenges, wallet : Wallets,
                identity : Identities, expires : Nat, revoked : BOOLEAN]
Logins == [step : {"consume"}, challenge : Challenges, identity : Identities]
Bodies == [step : {"body"}, owner : Wallets, identity : Identities, kind : Kinds,
           session : SessionRows]

LimiterInv ==
  /\ now \in 0 .. MaxTime
  /\ attempts \in [Peers -> [count : Nat, expires : Int] \union {None}]
  /\ \A p \in Peers : attempts[p] # None => attempts[p].expires <= now + Window
  /\ Cardinality(Known(attempts)) <= MaxPeers

LoginsAreIssued ==
  \A r \in Requests : At(r, "consume") =>
    /\ request[r].challenge \in Issued
    /\ challenges[request[r].challenge].identity = request[r].identity
OwnersSignedIn ==
  \A r \in Requests : At(r, "body") =>
    \E s \in sessions : s.wallet = request[r].owner /\ s.identity = request[r].identity

LoginInv ==
  /\ LimiterInv
  /\ challenges \in [Challenges -> ChallengeRows \union {None}]
  /\ sessions \subseteq SessionRows
  /\ request \in [Requests -> Logins \union Bodies \union {None}]
  /\ \A s \in sessions : s.challenge \in Issued
  /\ LoginsAreIssued /\ OwnersSignedIn /\ SessionsAreProven

\* The lives are numbers, and what stands for no challenge is none.
Lives == /\ MaxTime \in Nat /\ SessionLife \in Nat /\ ChallengeLife \in Nat /\ Window \in Nat
         /\ MaxPeers \in Nat /\ IsFiniteSet(Peers) /\ None \notin ChallengeRows
=============================================================================
