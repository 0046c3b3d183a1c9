----------------------------- MODULE Workspace ------------------------------
(***************************************************************************)
(* The page of the strategy builder (frontend builder/BuilderWorkspace     *)
(* .tsx, client.ts) against the service: a person signs in with a wallet,  *)
(* chooses a conversation, sends messages that start agent turns, and the  *)
(* page polls and reloads what it shows.  Requests cross, answers are      *)
(* lost, the wallet or the conversation changes while they are under way.  *)
(***************************************************************************)
EXTENDS Naturals, FiniteSets

CONSTANTS
  Conversations,   \* with the draft of each
  Mine,            \* those of the first wallet; the others are the second one's
  Messages,        \* texts as they are typed, each typed once
  MaxRevision,     \* bound: revisions of a draft
  MaxKeys,         \* bound: idempotency keys made
  MaxVisits,       \* bound: conversations chosen
  None

VARIABLES
  revision,   \* the service: the revision of each draft
  turn,       \* the message each conversation is answering, or None
  accepted,   \* requests accepted, each under its key
  flying,     \* start requests not yet handled
  wallet,     \* the page: "first" or "second"
  connected,
  selected,   \* the conversation chosen, or None
  visit,      \* how often one was chosen
  shown,      \* the draft on the page: [conversation, revision], or None
  listed,     \* the turns of the list of conversations as last loaded
  polled,     \* the turn the page follows, or None
  input,      \* the text in the composer, or None
  typed,      \* texts already typed
  pending,    \* the request kept for a repetition, or None
  keys,       \* keys made
  waits       \* loads and answers the page waits for

vars == <<revision, turn, accepted, flying, wallet, connected, selected, visit, shown, listed, polled,
          input, typed, pending, keys, waits>>
service == <<revision, turn, accepted, flying>>

Owned == IF wallet = "first" THEN Mine ELSE Conversations \ Mine
\* A load of the chosen conversation: what it is for, and what the service answers it.
\* It is read when it is asked for and may arrive much later.
Load(for, c) == [for |-> for, conversation |-> c, revision |-> revision[c], turns |-> turn]
Busy == \E w \in waits : w.for \in {"choose", "send", "sent", "restore"}

Init ==
  /\ revision = [c \in Conversations |-> 1] /\ turn = [c \in Conversations |-> None]
  /\ accepted = {} /\ flying = {}
  /\ wallet = "first" /\ connected = FALSE /\ selected = None /\ visit = 0 /\ shown = None
  /\ listed = turn /\ polled = None /\ input = None /\ typed = {} /\ pending = None /\ keys = 0 /\ waits = {}

(***************************************************************************)
(* The service, as the page sees it                                        *)
(***************************************************************************)
page == <<wallet, connected, selected, visit, shown, listed, polled, input, typed, pending, keys>>

Answers(r, w) == w.for = "send" /\ r = pending
\* A key answers once; a new one needs the current revision and no turn under way.
Start(r, heard) ==
  /\ r \in flying /\ flying' = flying \ {r}
  /\ LET again == r \in accepted
         fresh == ~again /\ revision[r.conversation] = r.revision /\ turn[r.conversation] = None
     IN /\ accepted' = IF fresh THEN accepted \cup {r} ELSE accepted
        /\ turn' = IF fresh THEN [turn EXCEPT ![r.conversation] = r.message] ELSE turn
        /\ \/ heard /\ (again \/ fresh)
              /\ waits' = {IF Answers(r, w) THEN [Load("sent", w.conversation) EXCEPT !.turns[w.conversation] = r.message]
                                            ELSE w : w \in waits}
           \/ ~(heard /\ (again \/ fresh))
              /\ waits' = {w \in waits : ~Answers(r, w)}
  /\ IF \E w \in waits' : w.for = "sent" /\ w \notin waits
     THEN input' = None /\ pending' = None
     ELSE UNCHANGED <<input, pending>>
  /\ UNCHANGED <<revision, wallet, connected, selected, visit, shown, listed, polled, typed, keys>>

\* The agent of the turn changes the draft, or ends; another page restores a revision.
Revise(c) ==
  /\ turn[c] # None /\ revision[c] < MaxRevision
  /\ revision' = [revision EXCEPT ![c] = @ + 1]
  /\ UNCHANGED <<turn, accepted, flying, waits>> /\ UNCHANGED page

EndTurn(c) ==
  /\ turn[c] # None /\ turn' = [turn EXCEPT ![c] = None]
  /\ UNCHANGED <<revision, accepted, flying, waits>> /\ UNCHANGED page

(***************************************************************************)
(* Scopes                                                                  *)
(***************************************************************************)
\* Defect: an answer is applied although the page has moved on.
Kept == {w \in waits : w.for # "send"}
\* A new scope: whatever still arrives for the earlier one is dropped.
Abandoned == {}

SwitchWallet ==
  /\ wallet' = (IF wallet = "first" THEN "second" ELSE "first")
  /\ connected' = FALSE /\ selected' = None /\ shown' = None /\ polled' = None /\ pending' = None
  /\ waits' = Abandoned
  /\ UNCHANGED service /\ UNCHANGED <<visit, listed, input, typed, keys>>

\* A 401 anywhere: the page keeps what it shows behind the sign-in.
SessionExpires ==
  /\ connected /\ connected' = FALSE /\ polled' = None /\ waits' = Abandoned
  /\ UNCHANGED service /\ UNCHANGED <<wallet, selected, visit, shown, listed, input, typed, pending, keys>>

Choose(c) ==
  /\ c \in Owned /\ ~Busy /\ visit < MaxVisits /\ visit' = visit + 1
  /\ selected' = c /\ shown' = None /\ polled' = None /\ pending' = None
  /\ waits' = Abandoned \cup {[Load("choose", c) EXCEPT !.turns = listed']}
  /\ UNCHANGED service /\ UNCHANGED <<wallet, input, typed, keys>>

\* Signing in lists the conversations and chooses one.
Connect(c) == ~connected /\ connected' = TRUE /\ listed' = turn /\ Choose(c)
Select(c) == connected /\ UNCHANGED <<connected, listed>> /\ Choose(c)

(***************************************************************************)
(* Loads                                                                   *)
(***************************************************************************)
\* Reload after an error, a poll that saw a tool or the end of the turn.
Refresh(for) ==
  /\ connected /\ selected # None /\ (for = "poll" => polled # None)
  /\ \A w \in waits : w.for # for
  /\ waits' = waits \cup {Load(IF for = "poll" /\ turn[selected] # polled THEN "ended" ELSE for, selected)}
  /\ UNCHANGED service /\ UNCHANGED page

\* The page shows what was read.  A reload that finds the conversation answering takes
\* the kept request as accepted, and empties the composer.
Show(w) ==
  /\ w \in waits /\ w.for # "send" /\ waits' = waits \ {w}
  /\ shown' = [conversation |-> w.conversation, revision |-> w.revision]
  /\ listed' = IF w.for \in {"choose", "sent"} THEN listed ELSE w.turns
  /\ polled' = CASE w.for \in {"choose", "sent", "reload"} -> w.turns[w.conversation]
                 [] w.for = "ended" -> None
                 [] OTHER -> polled
  /\ LET taken == w.for = "reload" /\ w.turns[w.conversation] # None /\ pending # None
     IN /\ pending' = IF taken /\ pending.conversation = w.conversation THEN None ELSE pending
        /\ input' = IF taken /\ pending.conversation = w.conversation /\ input = pending.message THEN None ELSE input
  /\ UNCHANGED service /\ UNCHANGED <<wallet, connected, selected, visit, typed, keys>>

Fail(w) ==
  /\ w \in waits /\ w.for # "send" /\ waits' = waits \ {w}
  /\ UNCHANGED service /\ UNCHANGED page

(***************************************************************************)
(* Messages                                                                *)
(***************************************************************************)
Type(m) ==
  /\ m \notin typed /\ input' = m /\ typed' = typed \cup {m}
  /\ UNCHANGED service /\ UNCHANGED <<wallet, connected, selected, visit, shown, listed, polled, pending, keys, waits>>

\* A repetition of the same text at the same revision goes under the key it had.
Repeats(r) == pending # None /\ [pending EXCEPT !.key = r.key] = r

Submit ==
  /\ connected /\ selected # None /\ shown # None /\ input # None /\ polled = None /\ ~Busy
  /\ LET r == [key |-> keys + 1, conversation |-> selected, message |-> input, revision |-> shown.revision, visit |-> visit]
     IN IF Repeats(r)
        THEN flying' = flying \cup {pending} /\ UNCHANGED <<pending, keys>>
        ELSE keys < MaxKeys /\ keys' = keys + 1 /\ pending' = r /\ flying' = flying \cup {r}
  /\ waits' = waits \cup {Load("send", selected)}
  /\ UNCHANGED <<revision, turn, accepted, wallet, connected, selected, visit, shown, listed, polled, input, typed>>

\* The polled turn is cancelled on the service; the poll starts again.
Stop ==
  /\ connected /\ polled # None /\ selected # None
  /\ turn' = [c \in Conversations |-> IF turn[c] = polled THEN None ELSE turn[c]]
  /\ waits' = {w \in waits : w.for \notin {"poll", "ended"}}
  /\ UNCHANGED <<revision, accepted, flying>> /\ UNCHANGED page

\* A restore makes a new revision and supersedes a turn; it needs the revision shown.
Restore ==
  /\ connected /\ selected # None /\ shown # None /\ ~Busy /\ polled = None
  /\ IF shown.revision = revision[selected] /\ revision[selected] < MaxRevision
     THEN /\ revision' = [revision EXCEPT ![selected] = @ + 1] /\ turn' = [turn EXCEPT ![selected] = None]
          /\ waits' = waits \cup {Load("restore", selected)}
     ELSE UNCHANGED <<revision, turn, waits>>
  /\ UNCHANGED <<accepted, flying>> /\ UNCHANGED page

Next ==
  \/ SwitchWallet \/ SessionExpires \/ Submit \/ Stop \/ Restore
  \/ \E r \in flying, heard \in BOOLEAN : Start(r, heard)
  \/ \E c \in Conversations : Revise(c) \/ EndTurn(c) \/ Connect(c) \/ Select(c)
  \/ \E for \in {"reload", "poll"} : Refresh(for)
  \/ \E w \in waits : Show(w) \/ Fail(w)
  \/ \E m \in Messages : Type(m)

Spec == Init /\ [][Next]_vars

(***************************************************************************)
(* Properties                                                              *)
(***************************************************************************)
\* The types of the page and of the service.
TypeOK ==
  /\ revision \in [Conversations -> 1 .. MaxRevision] /\ turn \in [Conversations -> Messages \cup {None}]
  /\ \A r \in accepted \cup flying : r.key \in 1 .. MaxKeys /\ r.message \in Messages
  /\ selected \in Conversations \cup {None} /\ polled \in Messages \cup {None} /\ input \in typed \cup {None}
  /\ \A w \in waits : w.for \in {"choose", "send", "sent", "restore", "reload", "poll", "ended"}

\* The page never mixes scopes: the draft it shows is the chosen conversation's, and that
\* is the signed-in wallet's, whatever answers were still under way when either changed.
ShownIsSelected ==
  /\ shown # None => shown.conversation = selected
  /\ selected # None => selected \in Owned

\* A text sent again because its answer was lost does not start a second turn: in one
\* visit of a conversation it is accepted at most once for a revision.
OneTurnPerMessage ==
  \A r, s \in accepted : [r EXCEPT !.key = s.key] = s => r = s
=============================================================================
