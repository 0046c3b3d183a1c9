---------------------------- MODULE WalletSession -----------------------------
(***************************************************************************)
(* Who is signed in, as every page of the strategy editor sees it          *)
(* (contexts/AuthContext.tsx, lib/supabase.ts): the wallet connected, the  *)
(* session of the identity service, the state shown, and the accounts and  *)
(* canvases read for the wallet shown.  A check of the session runs on     *)
(* every change of the wallet and may be overtaken by the next one; the    *)
(* service answers a read with the rows of the wallet its token claims.    *)
(***************************************************************************)
EXTENDS Naturals, FiniteSets

CONSTANTS
  Wallets,
  MaxChecks,  \* bound: checks of the session and sign-ins under way at a time
  None

VARIABLES
  wallet,      \* the wallet connected, or None
  session,     \* None, or the session with the wallet its token claims
  shown,       \* isAuthenticated, isLoading, walletAddress, canvasesLoaded
  rows,        \* whose accounts and whose canvases are shown
  checks,      \* checkSession under way: the wallet it runs for, and its step
  signing,     \* handleSignIn under way, at most one: isSigningIn
  leaving,     \* handleSignOut under way
  reads,       \* fetchAccounts and fetchCanvases under way
  late         \* a request failed, or its answer came when the wallet or the session had changed

vars == <<wallet, session, shown, rows, checks, signing, leaving, reads, late>>

Kinds == {"accounts", "canvases"}
Empty == [k \in Kinds |-> None]
SignedOut == [authenticated |-> FALSE, loading |-> FALSE, address |-> None, loaded |-> FALSE]
Both(w) == [kind : Kinds, owner : {w}]
Check(w) == [of |-> w, step |-> "session"]

Init ==
  /\ wallet = None /\ session \in {None} \cup [claim : Wallets]
  /\ shown = [SignedOut EXCEPT !.loading = TRUE] /\ rows = Empty
  /\ checks = {Check(None)} /\ signing = None /\ leaving = FALSE /\ reads = {} /\ late = FALSE

(***************************************************************************)
(* The wallet.  Disconnecting it signs out whoever is shown signed in.     *)
(***************************************************************************)
Room == Cardinality(checks) + (IF signing = None THEN 0 ELSE 1) < MaxChecks

Connects(w) ==
  /\ w # wallet /\ Check(w) \notin checks /\ Room
  /\ wallet' = w /\ checks' = checks \cup {Check(w)}
  /\ leaving' = (leaving \/ (w = None /\ shown.authenticated))
  /\ UNCHANGED <<session, shown, rows, signing, reads, late>>

\* The service announces the end of the session to whoever listens.
Forgets == session' = None /\ shown' = [SignedOut EXCEPT !.loading = shown.loading] /\ rows' = Empty

SessionEnds ==
  /\ session # None /\ Forgets
  /\ late' = (late \/ checks # {} \/ signing # None \/ reads # {})
  /\ UNCHANGED <<wallet, checks, signing, leaving, reads>>

(***************************************************************************)
(* Checking the session: it is read, then its token is made to claim the   *)
(* wallet, then both are shown.                                            *)
(***************************************************************************)
CheckReads(c) ==
  /\ c.step = "session" /\ checks' = (checks \ {c}) \cup {k \in {[c EXCEPT !.step = "claim"]} : session # None /\ c.of # None}
  /\ shown' = IF session = None THEN [shown EXCEPT !.loading = FALSE]
              ELSE IF c.of = None THEN [shown EXCEPT !.authenticated = TRUE, !.loading = FALSE, !.address = None]
              ELSE shown
  /\ late' = (late \/ (session # None /\ c.of # wallet))
  /\ UNCHANGED <<wallet, session, rows, signing, leaving, reads>>

\* The claim may be refused: the check goes on with the token as it is.
Claimed(w, accepted) == IF accepted /\ session # None THEN [claim |-> w] ELSE session

CheckShows(c, accepted) ==
  /\ c.step = "claim" /\ checks' = checks \ {c}
  /\ session' = Claimed(c.of, accepted)
  /\ shown' = [shown EXCEPT !.authenticated = TRUE, !.loading = FALSE, !.address = c.of]
  /\ reads' = reads \cup Both(c.of)
  /\ late' = (late \/ ~accepted \/ c.of # wallet)
  /\ UNCHANGED <<wallet, rows, signing, leaving>>

CheckFails(c) ==
  /\ checks' = checks \ {c} /\ shown' = [shown EXCEPT !.loading = FALSE] /\ late' = TRUE
  /\ UNCHANGED <<wallet, session, rows, signing, leaving, reads>>

(***************************************************************************)
(* Signing in: a signature of the wallet makes a session, whose token is   *)
(* then made to claim it.                                                  *)
(***************************************************************************)
SignIn ==
  /\ signing = None /\ wallet # None /\ Room
  /\ signing' = [of |-> wallet, step |-> "signature"] /\ shown' = [shown EXCEPT !.loading = TRUE]
  /\ UNCHANGED <<wallet, session, rows, checks, leaving, reads, late>>

SignatureGiven ==
  /\ signing # None /\ signing.step = "signature" /\ wallet = signing.of
  /\ session' = [claim |-> IF session = None THEN None ELSE session.claim]
  /\ shown' = [shown EXCEPT !.authenticated = TRUE, !.loading = FALSE]
  /\ signing' = [signing EXCEPT !.step = "claim"]
  /\ UNCHANGED <<wallet, rows, checks, leaving, reads, late>>

SignedIn(accepted) ==
  /\ signing # None /\ signing.step = "claim" /\ signing' = None
  /\ session' = Claimed(signing.of, accepted)
  /\ shown' = [authenticated |-> TRUE, loading |-> FALSE, address |-> signing.of, loaded |-> FALSE]
  /\ rows' = Empty /\ reads' = reads \cup Both(signing.of)
  /\ late' = (late \/ ~accepted \/ signing.of # wallet)
  /\ UNCHANGED <<wallet, checks, leaving>>

\* A signature refused by its owner leaves what is shown; another failure shows nobody in.
SignInFails(refused) ==
  /\ signing # None /\ (refused => signing.step = "signature") /\ signing' = None
  /\ shown' = [shown EXCEPT !.loading = FALSE, !.authenticated = refused /\ shown.authenticated]
  /\ late' = (late \/ ~refused)
  /\ UNCHANGED <<wallet, session, rows, checks, leaving, reads>>

SignOut == shown.authenticated /\ leaving' = TRUE
           /\ UNCHANGED <<wallet, session, shown, rows, checks, signing, reads, late>>

\* Whether the service could end the session or not, nobody is shown.
SignedOff(ended) ==
  /\ leaving /\ leaving' = FALSE /\ session' = (IF ended THEN None ELSE session)
  /\ shown' = SignedOut /\ rows' = Empty
  /\ late' = (late \/ ~ended \/ checks # {} \/ signing # None \/ reads # {})
  /\ UNCHANGED <<wallet, checks, signing, reads>>

(***************************************************************************)
(* The rows of the wallet shown                                            *)
(***************************************************************************)
Again(k) ==
  /\ shown.address # None /\ reads' = reads \cup {[kind |-> k, owner |-> shown.address]}
  /\ UNCHANGED <<wallet, session, shown, rows, checks, signing, leaving, late>>

Answered(r) ==
  /\ reads' = reads \ {r}
  /\ rows' = [rows EXCEPT ![r.kind] = IF session # None /\ session.claim = r.owner THEN r.owner ELSE None]
  /\ shown' = [shown EXCEPT !.loaded = (@ \/ r.kind = "canvases")]
  /\ late' = (late \/ r.owner # shown.address)
  /\ UNCHANGED <<wallet, session, checks, signing, leaving>>

ReadFails(r) ==
  /\ reads' = reads \ {r} /\ late' = TRUE
  /\ shown' \in {shown} \cup {[shown EXCEPT !.loaded = TRUE] : k \in {"canvases"} \cap {r.kind}}
  /\ UNCHANGED <<wallet, session, rows, checks, signing, leaving>>

Next ==
  \/ \E w \in Wallets \cup {None} : Connects(w)
  \/ SessionEnds \/ SignIn \/ SignatureGiven \/ SignOut
  \/ \E c \in checks : CheckReads(c) \/ CheckFails(c) \/ \E accepted \in BOOLEAN : CheckShows(c, accepted)
  \/ \E yes \in BOOLEAN : SignedIn(yes) \/ SignInFails(yes) \/ SignedOff(yes)
  \/ \E k \in Kinds : Again(k)
  \/ \E r \in reads : Answered(r) \/ ReadFails(r)

Spec == Init /\ [][Next]_vars

----------------------------------------------------------------------------
TypeOK ==
  /\ wallet \in Wallets \cup {None} /\ session \in {None} \cup [claim : Wallets \cup {None}]
  /\ shown \in [authenticated : BOOLEAN, loading : BOOLEAN, address : Wallets \cup {None}, loaded : BOOLEAN]
  /\ rows \in [Kinds -> Wallets \cup {None}] /\ checks \subseteq [of : Wallets \cup {None}, step : {"session", "claim"}]
  /\ reads \subseteq [kind : Kinds, owner : Wallets]

\* The page shows one wallet: the one connected, which the token claims, and whose rows are
\* shown or being read; until the first request that fails or answers late.
ShowsTheWallet ==
  late \/ /\ shown.authenticated => session # None
          /\ shown.address # None =>
               /\ leaving \/ shown.address = wallet \/ \E c \in checks : c.of = wallet
               /\ session.claim = shown.address
               /\ \A k \in Kinds : rows[k] = shown.address \/ \E r \in reads : r.kind = k
               /\ shown.loaded \/ \E r \in reads : r.kind = "canvases"
          /\ shown.address = None => leaving \/ rows = Empty

\* A page that is loading has a check or a sign-in under way.
LoadingEnds == shown.loading => checks # {} \/ signing # None

----------------------------------------------------------------------------
(* The inductive invariant adds what the steps under way may rely on: a     *)
(* claim being made has a wallet and, unless something came late, a session *)
(* to be made for; and a wallet shown is signed in, and signed out once it  *)
(* is disconnected.                                                         *)

ClaimsHaveWallets ==
  /\ signing \in {None} \cup [of : Wallets, step : {"signature", "claim"}]
  /\ leaving \in BOOLEAN /\ late \in BOOLEAN
  /\ \A c \in checks : c.step = "claim" => c.of # None

ClaimsHaveSessions ==
  late \/ /\ \A c \in checks : c.step = "claim" => session # None
          /\ signing # None => (signing.step = "claim" => session # None)
          /\ shown.address # None => shown.authenticated /\ (wallet = None => leaving)

WalletInv == TypeOK /\ ClaimsHaveWallets /\ ClaimsHaveSessions /\ ShowsTheWallet /\ LoadingEnds

\* What stands for nobody is no wallet, no session and no sign-in.
NoneIsNobody ==
  None \notin Wallets \cup [claim : Wallets \cup {None}] \cup [of : Wallets, step : {"signature", "claim"}]
=============================================================================
