---------------------------- MODULE DesignTurns ----------------------------
(***************************************************************************)
(* One draft of the Builder service, the conversation about it and the     *)
(* agent's turns (packages/builder-service: turns.ts, turn-lease.ts,       *)
(* agent-worker.ts, draft-persistence.ts, store.ts, requests.ts).  A turn  *)
(* is work that any worker process may claim under a lease; the lease      *)
(* token authorises every write the worker makes, and a user's edit or     *)
(* message takes the authority away.                                       *)
(*                                                                         *)
(* Each action is one database transaction: all of them lock the draft's   *)
(* row first.  A claim's token is fresh, so the number of the attempt      *)
(* stands for it.  Heartbeats only keep a lease alive; that one was missed *)
(* for too long is the action LeaseRunsOut.                                *)
(***************************************************************************)
EXTENDS Naturals, Sequences, FiniteSets

CONSTANTS
  Turns,        \* request ids of the turns a user may ask for
  Doers,        \* worker processes
  Requests,     \* request ids of the user's other mutations
  MaxAttempts,  \* 3 in the code
  MaxRevision,  \* bound of the model: revisions of the draft
  EventBudget,  \* 200 in the code: events an attempt may append
  User,         \* author of the revisions no turn wrote
  None

ASSUME TurnBounds ==
  /\ MaxAttempts \in Nat \ {0} /\ MaxRevision \in Nat \ {0} /\ EventBudget \in Nat
  /\ User \notin Turns

VARIABLES
  draft,         \* authors of the draft's revisions, oldest first
  ready,         \* does validateStrategy call the draft's contents complete and in time?
  turn,          \* the rows of agent_turns
  stream,        \* the rows of agent_events, per turn
  conversation,  \* the rows of messages
  doer,          \* what each worker process is at: a claim, or None
  done           \* request ids whose response is stored

turnVars == <<draft, ready, turn, stream, conversation, doer, done>>

Revision == Len(draft)
Active == {"queued", "running"}
Concluded == {"succeeded", "failed", "cancelled", "superseded"}
TurnState == {"unasked"} \cup Active \cup Concluded
Message == [role : {"user", "assistant"}, turn : Turns \cup {None}]
Event == [attempt : 0 .. MaxAttempts,
          kind : {"started", "output", "completed", "failed", "cancelled", "superseded"}]
Row == [state : TurnState, attempts : 0 .. MaxAttempts, live : BOOLEAN,
        accepted : 0 .. MaxRevision, last : 0 .. MaxRevision]
Claim == [turn : Turns, attempt : 1 .. MaxAttempts]

ActiveTurns == {t \in Turns : turn[t].state \in Active}

\* Defect: the token of an earlier attempt will do.
AuthorizedAnyAttempt(c) ==
  turn[c.turn].state = "running" /\ turn[c.turn].live /\ turn[c.turn].last = Revision

\* The lease check that every write of a worker makes.
Authorized(c) ==
  LET r == turn[c.turn] IN
  /\ r.state = "running" /\ r.attempts = c.attempt /\ r.live
  /\ r.last = Revision

Note(t, attempt, kind) == Append(stream[t], [attempt |-> attempt, kind |-> kind])

\* The turns that an intervention of the user ends.
Interrupted == {t \in Turns : turn[t].state \in Active}

Supersede ==
  /\ turn' = [t \in Turns |-> IF t \in Interrupted
               THEN [turn[t] EXCEPT !.state = "superseded", !.live = FALSE] ELSE turn[t]]
  /\ stream' = [t \in Turns |-> IF t \in Interrupted
               THEN Note(t, turn[t].attempts, "superseded") ELSE stream[t]]
Conclude(t, s, kind) ==
  /\ turn' = [turn EXCEPT ![t].state = s, ![t].live = FALSE]
  /\ stream' = [stream EXCEPT ![t] = Note(t, turn[t].attempts, kind)]

\* Names are interchangeable: the next one is any that is not in use.
Fresh(S) == CHOOSE x \in S : TRUE
Unasked == {t \in Turns : turn[t].state = "unasked"}

\* A mutation runs once for each request id: a second delivery gets the stored response.
Once == /\ Requests \ done # {}
        /\ done' = done \cup {Fresh(Requests \ done)}

TurnInit ==
  /\ draft = <<User>> /\ ready \in BOOLEAN
  /\ turn = [t \in Turns |-> [state |-> "unasked", attempts |-> 0, live |-> FALSE,
                              accepted |-> 0, last |-> 0]]
  /\ stream = [t \in Turns |-> <<>>]
  /\ conversation = <<>>
  /\ doer = [w \in Doers |-> None]
  /\ done = {}
-----------------------------------------------------------------------------
(* The user.                                                               *)
Accept ==
  /\ Unasked # {} /\ ActiveTurns = {}
  /\ LET t == Fresh(Unasked) IN
     /\ turn' = [turn EXCEPT ![t].state = "queued",
                             ![t].accepted = Revision, ![t].last = Revision]
     /\ conversation' = Append(conversation, [role |-> "user", turn |-> t])
  /\ UNCHANGED <<draft, ready, stream, doer, done>>

CancelTurn(t) ==
  /\ turn[t].state \in Active
  /\ Conclude(t, "cancelled", "cancelled")
  /\ UNCHANGED <<draft, ready, conversation, doer, done>>

\* A message that asks for no turn; the agent's answer to the one before is now out of date.
Interruption == Supersede
AppendUserMessage ==
  /\ Once
  /\ Interruption
  /\ conversation' = Append(conversation, [role |-> "user", turn |-> None])
  /\ UNCHANGED <<draft, ready, doer>>

\* Defect: a turn at work takes the user's revision for its own.
Adopted ==
  /\ turn' = [t \in Turns |-> IF t \in ActiveTurns
               THEN [turn[t] EXCEPT !.last = Revision + 1] ELSE turn[t]]
  /\ UNCHANGED stream

\* A patch or a restore: a new revision, and whatever a turn was doing is superseded.
Takeover == Supersede
UserChange ==
  /\ Once /\ Revision < MaxRevision
  /\ draft' = Append(draft, User) /\ ready' \in BOOLEAN
  /\ Takeover
  /\ UNCHANGED <<conversation, doer>>

\* Nobody edits, but the strategy's deadline passes.
StrategyExpires ==
  /\ ready /\ ready' = FALSE
  /\ UNCHANGED <<draft, turn, stream, conversation, doer, done>>
-----------------------------------------------------------------------------
(* The workers.                                                            *)
\* Defect: a turn whose worker died is never claimed again.
OnlyQueued(t) == turn[t].state = "queued"

Claimable(t) == turn[t].state = "queued" \/ (turn[t].state = "running" /\ ~turn[t].live)

MayTry(t) == turn[t].attempts < MaxAttempts

ClaimTurn(w, t) ==
  /\ doer[w] = None /\ Claimable(t) /\ MayTry(t)
  /\ LET n == turn[t].attempts + 1 IN
     /\ turn' = [turn EXCEPT ![t].state = "running", ![t].attempts = n, ![t].live = TRUE]
     /\ stream' = [stream EXCEPT ![t] = Note(t, n, "started")]
     /\ doer' = [doer EXCEPT ![w] = [turn |-> t, attempt |-> n]]
  /\ UNCHANGED <<draft, ready, conversation, done>>

GiveUpTurn(w, t) ==
  /\ doer[w] = None /\ Claimable(t) /\ ~MayTry(t)
  /\ Conclude(t, "failed", "failed")
  /\ UNCHANGED <<draft, ready, conversation, doer, done>>

\* Text or a tool's result for the reader of the stream.
AppendEvent(w) ==
  /\ doer[w] # None /\ Authorized(doer[w])
  /\ LET c == doer[w]
         written == SelectSeq(stream[c.turn], LAMBDA e : e.attempt = c.attempt) IN
     /\ Len(written) < EventBudget
     /\ stream' = [stream EXCEPT ![c.turn] = Note(c.turn, c.attempt, "output")]
  /\ UNCHANGED <<draft, ready, turn, conversation, doer, done>>

\* The agent's patch or restore keeps its own turn's authority over the new revision.
AgentChange(w) ==
  /\ doer[w] # None /\ Authorized(doer[w]) /\ Revision < MaxRevision
  /\ draft' = Append(draft, doer[w].turn) /\ ready' \in BOOLEAN
  /\ turn' = [turn EXCEPT ![doer[w].turn].last = Revision + 1]
  /\ UNCHANGED <<stream, conversation, doer, done>>

FinishTurn(w) ==
  /\ doer[w] # None /\ Authorized(doer[w])
  /\ \/ /\ Conclude(doer[w].turn, "succeeded", "completed")
        /\ conversation' = Append(conversation, [role |-> "assistant", turn |-> doer[w].turn])
     \/ /\ Conclude(doer[w].turn, "failed", "failed")
        /\ UNCHANGED conversation
  /\ doer' = [doer EXCEPT ![w] = None]
  /\ UNCHANGED <<draft, ready, done>>

\* A worker stops without a write: killed, shut down, or refused by the lease check.
LeaveTurn(w) ==
  /\ doer[w] # None /\ doer' = [doer EXCEPT ![w] = None]
  /\ UNCHANGED <<draft, ready, turn, stream, conversation, done>>

TurnLeaseRunsOut(t) ==
  /\ turn[t].state = "running" /\ turn[t].live
  /\ turn' = [turn EXCEPT ![t].live = FALSE]
  /\ UNCHANGED <<draft, ready, stream, conversation, doer, done>>
-----------------------------------------------------------------------------
TurnTypeOK ==
  /\ draft \in Seq(Turns \cup {User}) /\ Revision \in 1 .. MaxRevision
  /\ ready \in BOOLEAN
  /\ turn \in [Turns -> Row]
  /\ stream \in [Turns -> Seq(Event)]
  /\ conversation \in Seq(Message)
  /\ doer \in [Doers -> Claim \cup {None}]
  /\ done \subseteq Requests

\* At most one turn is at work, and it always stands on the draft's latest revision: nobody
\* else's edit can slip under a turn that still has its authority (turn-lease.ts,
\* draft-persistence.ts).
AuthorityIsCurrent ==
  /\ \A t \in ActiveTurns : turn[t].last = Revision
  /\ \A t, u \in ActiveTurns : t = u

\* What a turn changed, from the revision it was accepted on to its last, is all its own work,
\* over all of its attempts (draft-persistence.ts: persistDraftChange).
OwnRevisions ==
  \A t \in Turns : \A r \in turn[t].accepted + 1 .. turn[t].last : draft[r] = t

\* A reader of a turn's events sees each attempt open with 'started', no output of an attempt
\* after a later one has started, and the conclusion once and last (turns.ts: appendEvent,
\* claim, finish, cancel).
StreamIsOrderly ==
  \A t \in Turns : \A i \in 1 .. Len(stream[t]) :
    LET e == stream[t][i] IN
    /\ e.kind \in {"completed", "failed", "cancelled", "superseded"}
         <=> i = Len(stream[t]) /\ turn[t].state \in Concluded
    /\ e.kind = "started" => e.attempt = (IF i = 1 THEN 1 ELSE stream[t][i-1].attempt + 1)
    /\ e.kind # "started" => e.attempt = (IF i = 1 THEN 0 ELSE stream[t][i-1].attempt)

\* The assistant's message follows the message it answers, with nothing said in between
\* (turns.ts: finish; store.ts: appendUserMessage).
RepliesInTurn ==
  \A i \in 1 .. Len(conversation) :
    conversation[i].role = "assistant" =>
      i > 1 /\ conversation[i-1] = [role |-> "user", turn |-> conversation[i].turn]
=============================================================================
