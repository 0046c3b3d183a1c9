---------------------------- MODULE MonitorSession ----------------------------
(***************************************************************************)
(* The standalone loss monitor: a session that rebalances under its own     *)
(* queue and publishes its plan by atomic rename, and followers that reread *)
(* the plan at every check, accept a new entry only with the maker's        *)
(* confirmed transaction for exactly that move, and dock on a breach.       *)
(***************************************************************************)
EXTENDS Naturals, Sequences, FiniteSets, SequencesExt

CONSTANTS Followers, Writer,
          MaxMoves,    \* rebalances that may land
          Root,        \* strategy of the plan
          Others,      \* replacement strategies
          None

VARIABLES live,     \* the strategy active on Aqua, None once docked
          mined,    \* confirmed transactions: [from, to, maker]
          file,     \* the published plan: [steps, finished]
          session,  \* session -> [plan, active, at]
          lost      \* a rebalance landed and the process died before publishing it

vars == <<live, mined, file, session, lost>>

Sessions == Followers \union {Writer}
Known == Others \union {Root}
Plan(steps, finished) == [steps |-> steps, finished |-> finished]
End(steps) == IF steps = <<>> THEN Root ELSE Last(steps).to
Fresh == [plan |-> Plan(<<>>, FALSE), active |-> Root, at |-> "idle", pending |-> Plan(<<>>, FALSE)]

Init == /\ live = Root /\ mined = {} /\ file = Plan(<<>>, FALSE) /\ lost = FALSE
        /\ session = [s \in Sessions |-> Fresh]

\* A follower never reads its pending plan.
IfWriter(s, plan) == IF s = Writer THEN plan ELSE Plan(<<>>, FALSE)
At(s, at) == session[s].at = at
Turns(s, at) == session' = [session EXCEPT ![s].at = at]

(***************************************************************************)
(* synchronize: followers read the file, the writer its pending plan.  The  *)
(* history may only grow, and every new entry must be a confirmed maker     *)
(* move from the strategy the entries before it end at.                     *)
(***************************************************************************)
Latest(s) == IF s = Writer THEN session[s].pending ELSE file
IsProven(steps, i) ==
  \E t \in mined : /\ t.id = steps[i].tx /\ t.maker
                   /\ t.from = End(SubSeq(steps, 1, i - 1)) /\ t.to = steps[i].to
Accepted(s) ==
  LET old == session[s].plan.steps new == Latest(s).steps
  IN /\ IsPrefix(old, new)
     /\ \A i \in Len(old) + 1 .. Len(new) : IsProven(new, i)

Synchronize(s) ==
  /\ At(s, "idle")
  /\ session' = [session EXCEPT ![s] =
       IF Accepted(s)
       THEN [@ EXCEPT !.plan = Latest(s), !.active = End(Latest(s).steps), !.at = "checked"]
       ELSE [@ EXCEPT !.at = "failed"]]
  /\ UNCHANGED <<live, mined, file, lost>>

(***************************************************************************)
(* The check: within the limit, already docked, or a breach that docks.     *)
(***************************************************************************)
Within(s) == /\ At(s, "checked") /\ live = session[s].active /\ Turns(s, "idle")
             /\ UNCHANGED <<live, mined, file, lost>>
\* The run loop ends at a docked strategy once the plan is finished.
AlreadyDocked(s) ==
  /\ At(s, "checked") /\ live # session[s].active
  /\ Turns(s, IF session[s].plan.finished THEN "stopped" ELSE "idle")
  /\ UNCHANGED <<live, mined, file, lost>>
\* A transaction for a strategy that is docked by then reverts: fatal.
Dock(s) == /\ At(s, "checked")
           /\ IF live = session[s].active
              THEN live' = None /\ Turns(s, "docked")
              ELSE Turns(s, "failed") /\ UNCHANGED live
           /\ UNCHANGED <<mined, file, lost>>
Finish(s) == /\ At(s, "docked")
             /\ LET plan == [session[s].plan EXCEPT !.finished = TRUE]
                IN /\ session' = [session EXCEPT ![s].plan = plan, ![s].at = "stopped",
                                                 ![s].pending = IfWriter(s, plan)]
                   /\ file' = plan
             /\ UNCHANGED <<live, mined, lost>>

(***************************************************************************)
(* The writer's rebalance: one atomic dock and ship, then the plan.  Aqua   *)
(* ships no strategy twice; one refused ends in an error of its caller, and *)
(* the queue goes on.                                                       *)
(***************************************************************************)
Moves == {t \in mined : t.maker}
Shipped == {Root} \union {t.to : t \in Moves}

Rebalance(to) ==
  /\ At(Writer, "checked") /\ to # session[Writer].active
  /\ Cardinality(mined) < MaxMoves
  /\ IF live = session[Writer].active /\ to \notin Shipped
     THEN /\ live' = to
          /\ LET id == Cardinality(mined) + 1
             IN /\ mined' = mined \union
                     {[id |-> id, from |-> session[Writer].active, to |-> to, maker |-> TRUE]}
                /\ session' = [session EXCEPT ![Writer].active = to, ![Writer].at = "moved",
                     ![Writer].plan.steps = Append(@, [to |-> to, tx |-> id])]
     ELSE Turns(Writer, "idle") /\ UNCHANGED <<live, mined>>
  /\ UNCHANGED <<file, lost>>
Publish == /\ At(Writer, "moved") /\ file' = session[Writer].plan
           /\ session' = [session EXCEPT ![Writer].pending = session[Writer].plan,
                                         ![Writer].at = "idle"]
           /\ UNCHANGED <<live, mined, lost>>

\* A process dies or is restarted; a session starts over from the published plan.
Restart(s) ==
  /\ session' = [session EXCEPT ![s] = [Fresh EXCEPT !.pending = IfWriter(s, file)]]
  /\ lost' = (lost \/ At(s, "moved")) /\ UNCHANGED <<live, mined, file>>

\* Another transaction on chain that an entry could name: another account's (bound: one).
OtherMove(from, to) ==
  /\ Cardinality(mined) < MaxMoves /\ \A t \in mined : t.maker
  /\ mined' = mined \union {[id |-> Cardinality(mined) + 1, from |-> from, to |-> to, maker |-> FALSE]}
  /\ UNCHANGED <<live, file, session, lost>>
\* A plan file written by somebody else than a session, naming any transaction.
Misprint(to, tx) ==
  /\ Len(file.steps) < MaxMoves /\ \A s \in Sessions : ~At(s, "moved")
  /\ file' = [file EXCEPT !.steps = Append(@, [to |-> to, tx |-> tx])]
  /\ UNCHANGED <<live, mined, session, lost>>

Next ==
  \/ \E s \in Sessions : \/ Synchronize(s) \/ Within(s) \/ AlreadyDocked(s) \/ Dock(s)
                         \/ Finish(s) \/ Restart(s)
  \/ Publish
  \/ \E to \in Known : \/ Rebalance(to)
                       \/ \E from \in Known \ {to} : OtherMove(from, to)
                       \/ \E t \in mined : Misprint(to, t.id)

Spec == Init /\ [][Next]_vars

(***************************************************************************)
(* Properties.                                                              *)
(***************************************************************************)
TypeOK == /\ live \in Known \union {None}
          /\ \A s \in Sessions : /\ session[s].active \in Known
                                 /\ Len(session[s].plan.steps) <= MaxMoves

\* Entries that are the maker's own moves, each from where the one before it led.
IsChain(steps) ==
  \A i \in 1 .. Len(steps) :
    \E t \in mined : /\ t.maker /\ t.id = steps[i].tx /\ t.to = steps[i].to
                     /\ t.from = IF i = 1 THEN Root ELSE steps[i - 1].to
\* Whatever the file says, a session's plan is a chain of the maker's own
\* confirmed moves from the original strategy and its active strategy is the
\* end of that chain; so no session watches or docks a strategy the maker
\* never moved to.
FollowsTheMaker ==
  \A s \in Sessions : /\ session[s].active = End(session[s].plan.steps)
                      /\ IsChain(session[s].plan.steps)

\* What is live is known to the writer or to the published plan, unless the
\* process died between a rebalance and its publication or the file holds
\* entries nobody moved to.
LiveIsKnown ==
  ~lost /\ live # None /\ (\A i \in 1 .. Len(file.steps) : IsProven(file.steps, i))
    => session[Writer].active = live \/ End(file.steps) = live

(***************************************************************************)
(* The inductive invariant.  The maker's moves are one chain from the       *)
(* original strategy: each replacement is shipped once, by a later          *)
(* transaction than the strategy it replaces, and nothing leaves what is    *)
(* live.  A plan that was proven is a stretch of that chain.                *)
(***************************************************************************)
Steps == [to : Known, tx : Nat]
Plans == [steps : Seq(Steps), finished : BOOLEAN]
Rows == [plan : Plans, active : Known, pending : Plans,
         at : {"idle", "checked", "docked", "moved", "stopped", "failed"}]

TransactionsAreNumbered ==
  /\ mined \subseteq [id : Nat, from : Known, to : Known, maker : BOOLEAN]
  /\ IsFiniteSet(mined) /\ Cardinality(mined) <= MaxMoves
  /\ \A t \in mined : 1 <= t.id /\ t.id <= Cardinality(mined)
  /\ \A t, u \in mined : t.id = u.id => t = u

MovesAreAChain ==
  /\ \A t \in Moves : /\ t.to # Root /\ t.from # live
                      /\ t.from # Root => \E u \in Moves : u.to = t.from /\ u.id < t.id
  /\ \A t, u \in Moves : t.to = u.to => t = u
  /\ live \in Shipped \union {None}

\* The strategy live is one of those the entries lead to.
Reaches(steps) == live = None \/ \E k \in 0 .. Len(steps) : End(SubSeq(steps, 1, k)) = live

LiveIsReached ==
  ~lost => IF At(Writer, "moved") THEN live \in {None, session[Writer].active}
           ELSE Reaches(file.steps) /\ Reaches(session[Writer].pending.steps)

SessionInv ==
  /\ live \in Known \union {None} /\ lost \in BOOLEAN
  /\ file \in Plans /\ session \in [Sessions -> Rows]
  /\ TransactionsAreNumbered /\ MovesAreAChain /\ FollowsTheMaker /\ LiveIsReached
  /\ \A s \in Sessions : At(s, "docked") => live = None

\* What stands for no strategy is none.
NoneIsNoStrategy == None \notin Known
=============================================================================
