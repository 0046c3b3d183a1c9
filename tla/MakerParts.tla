------------------------------ MODULE MakerParts -------------------------------
(***************************************************************************)
(* The parts of the service a Maker or a developer asks for, with their    *)
(* proofs, laid out as in ServiceParts: the autopilot, simulations,        *)
(* sessions and logins, the pages that sign, releases and activations,     *)
(* names, drafts, templates, and the first guard.                          *)
(***************************************************************************)
EXTENDS ServiceSlots, SequencesExt, SequenceTheorems, FiniteSetTheorems, TLAPS

-----------------------------------------------------------------------------
(* The autopilot (AP): v1 the strategy's replacements, v4 the journal, v5   *)
(* the saved state, v6 the ticks.                                           *)

AP == INSTANCE Autopilot WITH
     Ticks <- X, Intents <- Y, Others <- Z, MaxRebalances <- N - 1,
     strategy <- v1, open <- v2, expired <- v3, journal <- v4, auto <- v5, tick <- v6

\* Counting in the module of the autopilot is counting.
LEMMA DecisionsCount == \A S : AP!Cardinality(S) = Cardinality(S)
  BY DEF Cardinality, AP!Cardinality

\* The intents that were rolled over are finitely many.
LEMMA RolledAreFinite ==
  ASSUME AP!FreshIntents
  PROVE  /\ IsFiniteSet(AP!Requests) /\ Cardinality(AP!Requests) \in Nat
         /\ \A S \in SUBSET AP!Requests :
              IsFiniteSet(S) /\ Cardinality(S) \in Nat /\ Cardinality(S) <= Cardinality(AP!Requests)
<1>1. IsFiniteSet(AP!Requests)
  BY DEF AP!FreshIntents, IsFiniteSet, AP!IsFiniteSet
<1> QED BY <1>1, FS_CardinalityType, FS_Subset

\* A tick moves on: the others and what is saved stay.
LEMMA TickMoves ==
  ASSUME AP!DecisionsInv, NEW t \in X, NEW k, v6' = [v6 EXCEPT ![t] = k],
         k \in [phase : {"idle", "decided", "submitting", "running"}, action : AP!Actions,
                strategy : AP!Generations, intent : Y \cup {None}],
         AP!Stands(k), UNCHANGED <<v1, v2, v3, v4, v5>>
  PROVE  AP!DecisionsInv'
<1>1. AP!Pending' = AP!Pending /\ AP!Rolled' = AP!Rolled /\ AP!Replaced' = AP!Replaced
  BY DEF AP!Pending, AP!Rolled, AP!Replaced
<1>2. AP!TypeOK'
  BY DEF AP!TypeOK, AP!DecisionsInv
<1>3. AP!DecisionsAreCounted' /\ AP!SavedStands'
  BY <1>1 DEF AP!DecisionsInv, AP!DecisionsAreCounted, AP!SavedStands, AP!InBudget
<1>4. \A q : AP!Stands(q) => AP!Stands(q)'
  BY <1>1 DEF AP!Stands, AP!InBudget
<1>5. \A u \in X : v6'[u] = IF u = t THEN k ELSE v6[u]
  BY DEF AP!TypeOK, AP!DecisionsInv
<1>6. (\A u \in X : AP!Stands(v6[u]))'
  <2> SUFFICES ASSUME NEW u \in X PROVE AP!Stands(v6[u])'
    OBVIOUS
  <2> PICK q : q = v6[u]
    OBVIOUS
  <2> PICK e : e = v6'[u]
    OBVIOUS
  <2>1. AP!Stands(e)'
    <3>1. u # t => e = q
      BY <1>5
    <3>2. u = t => e = k
      BY <1>5
    <3>3. AP!Stands(q)
      BY DEF AP!DecisionsInv
    <3> QED BY <3>1, <3>2, <3>3, <1>4
  <2> QED BY <2>1 DEF AP!Stands
<1> QED BY <1>1, <1>2, <1>3, <1>6 DEF AP!DecisionsInv

\* An idle tick stands wherever the session is.
LEMMA IdleStands ==
  ASSUME AP!DecisionsInv, AP!FreshIntents
  PROVE  /\ AP!Stands(AP!Idle)
         /\ AP!Idle \in [phase : {"idle", "decided", "submitting", "running"}, action : AP!Actions,
                         strategy : AP!Generations, intent : Y \cup {None}]
<1>1. v1 \in Nat /\ 0 \in AP!Generations
  BY RolledAreFinite, DecisionsCount DEF AP!Generations, AP!DecisionsInv, AP!TypeOK
<1> QED BY <1>1 DEF AP!Stands, AP!Idle, AP!Actions

\* A tick goes on with the decision it finds stored.
LEMMA ResumeKeeps ==
  ASSUME AP!FreshIntents, AP!DecisionsInv, NEW t \in X, AP!Resume(t)
  PROVE  AP!DecisionsInv'
<1>1. PICK p : p = v5.pending
  OBVIOUS
<1>2. p \in [id : Y \cup {None}, action : AP!Actions, strategy : AP!Generations] /\ p # AP!NoIntent
  BY <1>1 DEF AP!DecisionsInv, AP!TypeOK, AP!Resume
<1>3. PICK k : k = [phase |-> "submitting", action |-> p.action, strategy |-> p.strategy, intent |-> p.id]
  OBVIOUS
<1>4. v6' = [v6 EXCEPT ![t] = k] /\ UNCHANGED <<v1, v2, v3, v4, v5>>
  BY <1>1, <1>3 DEF AP!Resume
<1>5. p.id \in Y /\ p.strategy <= v1
  BY <1>1, <1>2 DEF AP!DecisionsInv, AP!SavedStands
<1>6. AP!Stands(k)
  BY <1>1, <1>3, <1>5 DEF AP!Stands
<1>7. k \in [phase : {"idle", "decided", "submitting", "running"}, action : AP!Actions,
             strategy : AP!Generations, intent : Y \cup {None}]
  BY <1>2, <1>3
<1> QED BY <1>4, <1>6, <1>7, TickMoves

\* A proposal to roll over is made while nothing is saved: the count is then of all rollovers.
LEMMA ObserveKeeps ==
  ASSUME AP!FreshIntents, AP!DecisionsInv, NEW t \in X, NEW a \in {"rebalance", "dock"}, AP!Observe(t, a)
  PROVE  AP!DecisionsInv'
<1>1. PICK k : k = [phase |-> "decided", action |-> a, strategy |-> v1, intent |-> None]
  OBVIOUS
<1>2. v6' = [v6 EXCEPT ![t] = k] /\ UNCHANGED <<v1, v2, v3, v4, v5>>
  BY <1>1 DEF AP!Observe
<1>3. v1 \in AP!Generations /\ v1 \in Nat
  BY RolledAreFinite, DecisionsCount DEF AP!DecisionsInv, AP!TypeOK, AP!Generations
<1>4. a = "rebalance" => AP!InBudget
  <2> SUFFICES ASSUME a = "rebalance" PROVE AP!InBudget
    OBVIOUS
  <2>1. v5.rebalances < N - 1 /\ v5.pending.id = None
    BY DEF AP!Observe, AP!Rollover, AP!NoIntent
  <2>2. None \notin AP!Rolled
    BY DEF AP!Rolled, AP!FreshIntents, AP!Requests
  <2>3. AP!Rolled \ {v5.pending.id} = AP!Rolled
    BY <2>1, <2>2
  <2> QED BY <2>1, <2>3 DEF AP!DecisionsInv, AP!DecisionsAreCounted, AP!InBudget
<1>5. AP!Stands(k)
  BY <1>1, <1>3, <1>4 DEF AP!Stands
<1>6. k \in [phase : {"idle", "decided", "submitting", "running"}, action : AP!Actions,
             strategy : AP!Generations, intent : Y \cup {None}]
  BY <1>1, <1>3 DEF AP!Actions
<1> QED BY <1>2, <1>5, <1>6, TickMoves

\* A tick that rests leaves the decisions alone.
LEMMA RestKeeps ==
  ASSUME AP!FreshIntents, AP!DecisionsInv, NEW t \in X, v6' = [v6 EXCEPT ![t] = AP!Idle],
         UNCHANGED <<v1, v2, v3, v4, v5>>
  PROVE  AP!DecisionsInv'
  BY IdleStands, TickMoves

\* Binding saves the intent, while nothing is pending and the session is as it was observed.
LEMMA BindKeeps ==
  ASSUME AP!FreshIntents, AP!DecisionsInv, NEW t \in X, NEW i \in Y, AP!Bind(t, i)
  PROVE  AP!DecisionsInv'
<1>1. CASE ~AP!StillCurrent(t)
  BY <1>1, RestKeeps DEF AP!Bind
<1>2. CASE AP!StillCurrent(t)
  <2>1. PICK k : k = v6[t]
    OBVIOUS
  <2>2. PICK a : a = k.action
    OBVIOUS
  <2>3. k \in [phase : {"idle", "decided", "submitting", "running"}, action : AP!Actions,
               strategy : AP!Generations, intent : Y \cup {None}] /\ a \in AP!Actions
    BY <2>1, <2>2 DEF AP!DecisionsInv, AP!TypeOK
  <2>4. k.phase = "decided" /\ k.strategy = v1 /\ v5.pending = AP!NoIntent /\ v4[i] = AP!Unknown /\ AP!Pending = {}
    BY <1>2, <2>1 DEF AP!Bind, AP!StillCurrent
  <2>5. PICK p : p = [id |-> i, action |-> a, strategy |-> v1]
    OBVIOUS
  <2>6. PICK e : e = [k EXCEPT !.phase = "submitting", !.intent = i, !.strategy = v1]
    OBVIOUS
  <2>7. v5' = [v5 EXCEPT !.pending = p] /\ v6' = [v6 EXCEPT ![t] = e] /\ UNCHANGED <<v1, v2, v3, v4>>
    BY <1>2, <2>1, <2>2, <2>5, <2>6 DEF AP!Bind
  <2>8. e.phase = "submitting" /\ e.intent = i /\ e.strategy = v1 /\ e.action = a
    BY <2>2, <2>3, <2>6
  <2>9. v1 \in AP!Generations /\ v1 \in Nat
    BY RolledAreFinite, DecisionsCount DEF AP!DecisionsInv, AP!TypeOK, AP!Generations
  <2>10. e \in [phase : {"idle", "decided", "submitting", "running"}, action : AP!Actions,
                strategy : AP!Generations, intent : Y \cup {None}]
    BY <2>3, <2>6, <2>9
  <2>11. v5'.pending = p /\ v5'.rebalances = v5.rebalances /\ v5' \in [rebalances : AP!Generations, halted : BOOLEAN,
               pending : [id : Y \cup {None}, action : AP!Actions, strategy : AP!Generations]]
    BY <2>3, <2>5, <2>7, <2>9 DEF AP!DecisionsInv, AP!TypeOK
  <2>12. AP!TypeOK'
    BY <2>7, <2>10, <2>11 DEF AP!DecisionsInv, AP!TypeOK
  <2>13. AP!Pending' = {} /\ AP!Rolled' = AP!Rolled /\ AP!Replaced' = AP!Replaced
    BY <2>4, <2>7 DEF AP!Pending, AP!Rolled, AP!Replaced
  <2>14. i \notin AP!Rolled /\ None \notin AP!Rolled
    BY <2>4 DEF AP!Rolled, AP!Unknown, AP!FreshIntents, AP!Requests
  <2>15. AP!Rolled \ {i} = AP!Rolled \ {v5.pending.id}
    <3>1. v5.pending.id = None
      BY <2>4 DEF AP!NoIntent
    <3>2. AP!Rolled \ {i} = AP!Rolled \ {None}
      BY <2>14
    <3> QED BY <3>1, <3>2
  <2>16. AP!DecisionsAreCounted'
    <3>1. v5'.pending.id = i
      BY <2>5, <2>11
    <3>2. v5.rebalances = AP!Cardinality(AP!Rolled \ {v5.pending.id}) /\ AP!Cardinality(AP!Rolled) <= N - 1
      BY DEF AP!DecisionsInv, AP!DecisionsAreCounted
    <3>3. v5'.rebalances = AP!Cardinality(AP!Rolled' \ {v5'.pending.id}) /\ AP!Cardinality(AP!Rolled') <= N - 1
      BY <2>11, <2>13, <2>15, <3>1, <3>2
    <3> QED BY <2>13, <3>3 DEF AP!DecisionsAreCounted
  <2>17. a = "rebalance" => AP!InBudget
    BY <2>1, <2>2, <2>4 DEF AP!DecisionsInv, AP!Stands
  <2>18. AP!SavedStands'
    BY <2>4, <2>5, <2>7, <2>9, <2>11, <2>13, <2>17 DEF AP!SavedStands, AP!InBudget, AP!Unknown
  <2>19. (\A u \in X : AP!Stands(v6[u]))'
    <3> SUFFICES ASSUME NEW u \in X PROVE AP!Stands(v6[u])'
      OBVIOUS
    <3> PICK q : q = v6[u]
      OBVIOUS
    <3> PICK f : f = v6'[u]
      OBVIOUS
    <3>1. AP!Stands(q) /\ q \in [phase : {"idle", "decided", "submitting", "running"}, action : AP!Actions,
                strategy : AP!Generations, intent : Y \cup {None}]
      BY DEF AP!DecisionsInv, AP!TypeOK
    <3>2. f = IF u = t THEN e ELSE q
      BY <2>7 DEF AP!DecisionsInv, AP!TypeOK
    <3>3. AP!Stands(e)'
      BY <2>5, <2>7, <2>8, <2>9, <2>11 DEF AP!Stands
    <3>4. AP!Stands(q)'
      <4>1. q.phase \in {"submitting", "running"} => v4[q.intent].status \in AP!Concluded
        BY <2>4, <3>1 DEF AP!Stands, AP!NoIntent, AP!FreshIntents, AP!Requests
      <4> QED BY <2>7, <2>13, <3>1, <4>1 DEF AP!Stands, AP!InBudget
    <3>5. AP!Stands(f)'
      BY <3>2, <3>3, <3>4
    <3> QED BY <3>5 DEF AP!Stands
  <2> QED BY <2>7, <2>12, <2>13, <2>16, <2>18, <2>19 DEF AP!DecisionsInv
<1> QED BY <1>1, <1>2

\* A request enters the journal pending, when none is, and only as the saved intent.
LEMMA SubmitKeeps ==
  ASSUME AP!FreshIntents, AP!DecisionsInv, NEW t \in X, NEW lapsed \in BOOLEAN, AP!Submit(t, lapsed)
  PROVE  AP!DecisionsInv'
<1> PICK k : k = v6[t]
  OBVIOUS
<1> PICK i : i = k.intent
  OBVIOUS
<1>1. /\ k \in [phase : {"idle", "decided", "submitting", "running"}, action : AP!Actions,
                strategy : AP!Generations, intent : Y \cup {None}]
      /\ AP!Stands(k) /\ k.phase = "submitting" /\ i \in Y
  BY DEF AP!DecisionsInv, AP!TypeOK, AP!Submit, AP!Stands
<1> PICK e : e = [k EXCEPT !.phase = "running"]
  OBVIOUS
<1>2. /\ e \in [phase : {"idle", "decided", "submitting", "running"}, action : AP!Actions,
                strategy : AP!Generations, intent : Y \cup {None}]
      /\ e.phase = "running" /\ e.action = k.action /\ e.strategy = k.strategy /\ e.intent = i
  BY <1>1
<1>3. CASE v4[i] # AP!Unknown /\ v6' = [v6 EXCEPT ![t] = e] /\ UNCHANGED <<v1, v2, v3, v4, v5>>
  <2>1. v4[i].status # "unknown"
    BY <1>1, <1>3 DEF AP!DecisionsInv, AP!Requests
  <2>2. AP!Stands(e)
    BY <1>1, <1>2, <2>1 DEF AP!Stands
  <2> QED BY <1>2, <1>3, <2>2, TickMoves
<1>4. CASE v6' = [v6 EXCEPT ![t] = AP!Idle] /\ UNCHANGED <<v1, v2, v3, v4, v5>>
  BY <1>4, RestKeeps
<1> PICK j : j = [status |-> "pending", action |-> k.action, strategy |-> v1]
  OBVIOUS
<1>5. CASE /\ v4[i] = AP!Unknown /\ AP!Pending = {}
           /\ v4' = [v4 EXCEPT ![i] = j] /\ v6' = [v6 EXCEPT ![t] = e] /\ UNCHANGED <<v1, v2, v3, v5>>
  <2>1. v5.pending.id = i /\ v5.pending.action = k.action
    BY <1>1, <1>5 DEF AP!Stands, AP!Unknown, AP!Concluded
  <2>2. \A r \in AP!Requests : v4'[r] = IF r = i THEN j ELSE v4[r]
    BY <1>5 DEF AP!DecisionsInv, AP!TypeOK
  <2>3. v1 \in AP!Generations /\ v1 \in Nat /\ i \in AP!Requests
    BY <1>1, RolledAreFinite, DecisionsCount DEF AP!DecisionsInv, AP!TypeOK, AP!Generations, AP!Requests
  <2>4. AP!TypeOK'
    <3>1. j \in [status : {"unknown", "pending", "rebalanced", "failed", "docked"}, action : AP!Actions,
                 strategy : AP!Generations]
      BY <1>1, <2>3
    <3> QED BY <1>2, <1>5, <3>1 DEF AP!DecisionsInv, AP!TypeOK
  <2>5. AP!Pending' = {i}
    BY <1>5, <2>2, <2>3 DEF AP!Pending
  <2>6. AP!Rolled' = AP!Rolled
    BY <1>1, <1>5, <2>2 DEF AP!Rolled, AP!Requests, AP!Unknown
  <2>7. AP!Replaced' = AP!Replaced
    BY <1>5, <2>2, <2>3 DEF AP!Replaced, AP!Unknown
  <2>8. AP!DecisionsAreCounted'
    <3>1. AP!Pending' \cap Y \subseteq {v5'.pending.id}
      BY <1>5, <2>1, <2>5
    <3> QED BY <1>5, <2>6, <3>1 DEF AP!DecisionsInv, AP!DecisionsAreCounted
  <2>9. AP!SavedStands'
    <3>1. v4'[v5.pending.id] = j /\ j.action = v5.pending.action /\ j.status = "pending"
      BY <2>1, <2>2, <2>3
    <3>2. v5.pending # AP!NoIntent
      BY <1>1, <2>1 DEF AP!NoIntent, AP!FreshIntents, AP!Requests
    <3>3. v5.pending.action = "rebalance" => AP!InBudget
      BY <1>5, <2>1, <3>2 DEF AP!DecisionsInv, AP!SavedStands, AP!Unknown, AP!Concluded
    <3> QED BY <1>5, <2>6, <3>1, <3>2, <3>3 DEF AP!DecisionsInv, AP!SavedStands, AP!InBudget
  <2>10. (\A r \in AP!Requests : v4[r].status = "unknown" => v4[r] = AP!Unknown)'
    BY <2>2 DEF AP!DecisionsInv, AP!Requests
  <2>11. (\A u \in X : AP!Stands(v6[u]))'
    <3> SUFFICES ASSUME NEW u \in X PROVE AP!Stands(v6[u])'
      OBVIOUS
    <3> PICK q : q = v6[u]
      OBVIOUS
    <3> PICK f : f = v6'[u]
      OBVIOUS
    <3>1. AP!Stands(q)
      BY DEF AP!DecisionsInv
    <3>2. f = IF u = t THEN e ELSE q
      BY <1>5 DEF AP!DecisionsInv, AP!TypeOK
    <3>3. AP!Stands(e)'
      <4>1. v4'[i] = j /\ j.status # "unknown"
        BY <2>2, <2>3
      <4> QED BY <1>1, <1>2, <1>5, <2>1, <4>1 DEF AP!Stands
    <3>4. AP!Stands(q)'
      <4>1. q.phase \in {"submitting", "running"} =>
              (v4[q.intent].status \in AP!Concluded => v4'[q.intent].status \in AP!Concluded)
        BY <1>5, <2>2, <3>1 DEF AP!Stands, AP!Unknown, AP!Concluded, AP!Requests
      <4>2. q.phase = "running" => v4'[q.intent].status # "unknown"
        BY <1>5, <2>2, <3>1 DEF AP!Stands, AP!Requests
      <4> QED BY <1>5, <2>6, <3>1, <4>1, <4>2 DEF AP!Stands, AP!InBudget
    <3>5. AP!Stands(f)'
      BY <3>2, <3>3, <3>4
    <3> QED BY <3>5 DEF AP!Stands
  <2> QED BY <1>5, <2>4, <2>7, <2>8, <2>9, <2>10, <2>11 DEF AP!DecisionsInv
<1> QED BY <1>3, <1>4, <1>5 DEF AP!Submit, AP!Acceptable

\* A concluded intent is counted once: by the tick that still finds it saved.
LEMMA SettleKeeps ==
  ASSUME AP!FreshIntents, AP!DecisionsInv, NEW t \in X, AP!Settle(t)
  PROVE  AP!DecisionsInv'
<1> PICK i : i = v6[t].intent
  OBVIOUS
<1> PICK r : r = v4[i]
  OBVIOUS
<1>1. i \in Y /\ r.status \in AP!Concluded /\ AP!Stands(v6[t]) /\ v6[t].phase = "running"
  <2>1. AP!Stands(v6[t]) /\ v6[t].phase = "running" /\ r.status \notin {"unknown", "pending"}
    BY DEF AP!DecisionsInv, AP!Settle
  <2>2. i \in Y
    BY <2>1 DEF AP!Stands
  <2>3. r.status \in {"unknown", "pending", "rebalanced", "failed", "docked"}
    BY <2>2 DEF AP!DecisionsInv, AP!TypeOK, AP!Requests
  <2> QED BY <2>1, <2>2, <2>3 DEF AP!Concluded
<1>2. CASE ~AP!Unsettled(t)
  BY <1>2, RestKeeps DEF AP!Settle
<1>3. CASE AP!Unsettled(t)
  <2>1. v5.pending.id = i
    BY <1>3 DEF AP!Unsettled
  <2> PICK a : a = [rebalances |-> v5.rebalances + (IF r.status = "rebalanced" THEN 1 ELSE 0),
                    pending |-> AP!NoIntent, halted |-> v5.halted \/ r.status = "failed"]
    OBVIOUS
  <2>2. v5' = a /\ v6' = [v6 EXCEPT ![t] = AP!Idle] /\ UNCHANGED <<v1, v2, v3, v4>>
    BY <1>3 DEF AP!Settle
  <2>3. a.pending = AP!NoIntent /\ a.pending.id = None /\ a.halted = (v5.halted \/ r.status = "failed")
        /\ a.rebalances = v5.rebalances + (IF r.status = "rebalanced" THEN 1 ELSE 0)
    BY DEF AP!NoIntent
  <2>4. AP!Pending' = AP!Pending /\ AP!Rolled' = AP!Rolled /\ AP!Replaced' = AP!Replaced
    BY <2>2 DEF AP!Pending, AP!Rolled, AP!Replaced
  <2>5. AP!Rolled \subseteq AP!Requests /\ None \notin AP!Rolled
    BY DEF AP!Rolled, AP!Requests, AP!FreshIntents
  <2>6. IsFiniteSet(AP!Rolled) /\ Cardinality(AP!Rolled) \in Nat /\ Cardinality(AP!Rolled) <= Cardinality(AP!Requests)
    BY <2>5, RolledAreFinite
  <2>7. i \in AP!Rolled <=> r.status = "rebalanced"
    BY <1>1 DEF AP!Rolled
  <2>8. v5.rebalances = Cardinality(AP!Rolled \ {i})
    BY <2>1, DecisionsCount DEF AP!DecisionsInv, AP!DecisionsAreCounted
  <2>9. a.rebalances = Cardinality(AP!Rolled)
    <3>1. CASE r.status = "rebalanced"
      <4>1. Cardinality(AP!Rolled \ {i}) = Cardinality(AP!Rolled) - 1
        BY <2>6, <2>7, <3>1, FS_RemoveElement
      <4> QED BY <2>3, <2>6, <2>8, <3>1, <4>1
    <3>2. CASE r.status # "rebalanced"
      <4>1. AP!Rolled \ {i} = AP!Rolled
        BY <2>7, <3>2
      <4> QED BY <2>3, <2>6, <2>8, <3>2, <4>1
    <3> QED BY <3>1, <3>2
  <2>10. a.rebalances \in AP!Generations /\ 0 \in AP!Generations
    BY <2>6, <2>9, RolledAreFinite, DecisionsCount DEF AP!Generations
  <2>11. a \in [rebalances : AP!Generations, halted : BOOLEAN,
               pending : [id : Y \cup {None}, action : AP!Actions, strategy : AP!Generations]]
    <3>1. AP!NoIntent \in [id : Y \cup {None}, action : AP!Actions, strategy : AP!Generations]
      BY <2>10 DEF AP!NoIntent, AP!Actions
    <3>2. (v5.halted \/ r.status = "failed") \in BOOLEAN
      OBVIOUS
    <3> PICK h : h = (v5.halted \/ r.status = "failed")
      OBVIOUS
    <3> PICK c : c = v5.rebalances + (IF r.status = "rebalanced" THEN 1 ELSE 0)
      OBVIOUS
    <3>3. a = [rebalances |-> c, pending |-> AP!NoIntent, halted |-> h] /\ c \in AP!Generations /\ h \in BOOLEAN
      BY <2>3, <2>10, <3>2
    <3> QED BY <3>1, <3>3
  <2>12. AP!TypeOK'
    BY <2>2, <2>11, IdleStands DEF AP!DecisionsInv, AP!TypeOK
  <2>13. AP!DecisionsAreCounted'
    <3>1. AP!Pending \cap Y = {}
      <4>1. AP!Pending \cap Y \subseteq {i}
        BY <2>1 DEF AP!DecisionsInv, AP!DecisionsAreCounted
      <4>2. i \notin AP!Pending
        BY <1>1 DEF AP!Pending, AP!Concluded
      <4> QED BY <4>1, <4>2
    <3>2. AP!Rolled \ {None} = AP!Rolled
      BY <2>5
    <3>3. AP!Cardinality(AP!Rolled) <= N - 1
      BY DEF AP!DecisionsInv, AP!DecisionsAreCounted
    <3>4. v5'.rebalances = AP!Cardinality(AP!Rolled' \ {v5'.pending.id})
      BY <2>2, <2>3, <2>4, <2>9, <3>2, DecisionsCount
    <3> QED BY <2>4, <3>1, <3>3, <3>4 DEF AP!DecisionsAreCounted
  <2>14. AP!SavedStands'
    BY <2>2, <2>3 DEF AP!SavedStands
  <2>15. (\A u \in X : AP!Stands(v6[u]))'
    <3> SUFFICES ASSUME NEW u \in X PROVE AP!Stands(v6[u])'
      OBVIOUS
    <3> PICK q : q = v6[u]
      OBVIOUS
    <3> PICK f : f = v6'[u]
      OBVIOUS
    <3>1. AP!Stands(q)
      BY DEF AP!DecisionsInv
    <3>2. f = IF u = t THEN AP!Idle ELSE q
      BY <2>2 DEF AP!DecisionsInv, AP!TypeOK
    <3>3. AP!Stands(AP!Idle)'
      BY <2>2, IdleStands DEF AP!Stands, AP!Idle
    <3>4. AP!Stands(q)'
      <4>1. q.phase \in {"submitting", "running"} => v4[q.intent].status \in AP!Concluded
        BY <1>1, <2>1, <3>1 DEF AP!Stands
      <4> QED BY <2>2, <2>4, <3>1, <4>1 DEF AP!Stands, AP!InBudget
    <3>5. AP!Stands(f)'
      BY <3>2, <3>3, <3>4
    <3> QED BY <3>5 DEF AP!Stands
  <2> QED BY <2>2, <2>4, <2>12, <2>13, <2>14, <2>15 DEF AP!DecisionsInv
<1> QED BY <1>2, <1>3

\* The executor concludes a pending request; only the saved intent may roll over, and the
\* budget has room for it.
LEMMA ConcludeKeeps ==
  ASSUME AP!FreshIntents, AP!DecisionsInv, NEW r \in AP!Requests, NEW o \in AP!Concluded, AP!Conclude(r, o)
  PROVE  AP!DecisionsInv'
<1> PICK j : j = [v4[r] EXCEPT !.status = o]
  OBVIOUS
<1> PICK g : g = v4[r]
  OBVIOUS
<1>1. /\ g \in [status : {"unknown", "pending", "rebalanced", "failed", "docked"}, action : AP!Actions,
                strategy : AP!Generations]
      /\ g.status = "pending" /\ r \in AP!Pending
      /\ o = "rebalanced" => g.action = "rebalance"
  BY DEF AP!DecisionsInv, AP!TypeOK, AP!Conclude, AP!Pending
<1>2. j \in [status : {"unknown", "pending", "rebalanced", "failed", "docked"}, action : AP!Actions,
             strategy : AP!Generations] /\ j.status = o /\ j.action = g.action
  BY <1>1 DEF AP!Concluded
<1>3. v4' = [v4 EXCEPT ![r] = j] /\ v5' = v5 /\ v6' = v6
  BY DEF AP!Conclude
<1>4. \A q \in AP!Requests : v4'[q] = IF q = r THEN j ELSE v4[q]
  BY <1>3 DEF AP!DecisionsInv, AP!TypeOK
<1>5. AP!Replaced' = (IF o = "rebalanced" THEN AP!Replaced \cup {r} ELSE AP!Replaced) /\ r \notin AP!Replaced
      /\ AP!Replaced' \subseteq AP!Requests
  BY <1>1, <1>2, <1>4 DEF AP!Replaced
<1>6. v1' = IF o = "rebalanced" THEN v1 + 1 ELSE v1
  BY DEF AP!Conclude
<1>7. v1 = Cardinality(AP!Replaced) /\ v1 \in Nat /\ IsFiniteSet(AP!Replaced)
  <2>1. AP!Replaced \subseteq AP!Requests
    BY DEF AP!Replaced
  <2> QED BY <2>1, RolledAreFinite, DecisionsCount DEF AP!DecisionsInv
<1>8. v1' = Cardinality(AP!Replaced') /\ v1' \in AP!Generations /\ v1 <= v1' /\ v1' \in Nat
  <2>1. v1' = Cardinality(AP!Replaced')
    <3>1. Cardinality(AP!Replaced \cup {r}) = Cardinality(AP!Replaced) + 1
      BY <1>5, <1>7, FS_AddElement
    <3> QED BY <1>5, <1>6, <1>7, <3>1
  <2> QED BY <1>5, <1>6, <1>7, <2>1, RolledAreFinite, DecisionsCount DEF AP!Generations
<1>9. AP!TypeOK'
  BY <1>2, <1>3, <1>8 DEF AP!DecisionsInv, AP!TypeOK, AP!Conclude
<1>10. AP!Pending' = AP!Pending \ {r}
  BY <1>2, <1>4 DEF AP!Pending, AP!Concluded
<1>11. r \in Y => v5.pending.id = r
  BY <1>1 DEF AP!DecisionsInv, AP!DecisionsAreCounted
<1>12. AP!Rolled' = IF o = "rebalanced" /\ r \in Y THEN AP!Rolled \cup {r} ELSE AP!Rolled
  BY <1>1, <1>2, <1>4 DEF AP!Rolled, AP!Requests
<1>13. AP!Rolled' \ {v5.pending.id} = AP!Rolled \ {v5.pending.id}
  BY <1>11, <1>12
<1>14. o = "rebalanced" /\ r \in Y => AP!InBudget
  <2> SUFFICES ASSUME o = "rebalanced", r \in Y PROVE AP!InBudget
    OBVIOUS
  <2>1. v5.pending # AP!NoIntent
    BY <1>11 DEF AP!NoIntent, AP!FreshIntents, AP!Requests
  <2> QED BY <1>1, <1>11, <2>1 DEF AP!DecisionsInv, AP!SavedStands, AP!Concluded
<1>15. AP!Cardinality(AP!Rolled') <= N - 1
  <2>1. AP!Rolled \subseteq AP!Requests
    BY DEF AP!Rolled, AP!Requests
  <2>2. IsFiniteSet(AP!Rolled) /\ Cardinality(AP!Rolled) \in Nat /\ r \notin AP!Rolled /\ N - 1 \in Nat
    BY <1>1, <2>1, RolledAreFinite DEF AP!Rolled, AP!FreshIntents
  <2>3. Cardinality(AP!Rolled \cup {r}) = Cardinality(AP!Rolled) + 1
    BY <2>2, FS_AddElement
  <2>4. Cardinality(AP!Rolled) <= N - 1
    BY DecisionsCount DEF AP!DecisionsInv, AP!DecisionsAreCounted
  <2> QED BY <1>12, <1>14, <2>2, <2>3, <2>4, DecisionsCount DEF AP!InBudget
<1>16. AP!DecisionsAreCounted'
  <2>1. AP!Pending' \cap Y \subseteq {v5'.pending.id}
    BY <1>3, <1>10 DEF AP!DecisionsInv, AP!DecisionsAreCounted
  <2>2. v5'.rebalances = AP!Cardinality(AP!Rolled' \ {v5'.pending.id})
    BY <1>3, <1>13 DEF AP!DecisionsInv, AP!DecisionsAreCounted
  <2> QED BY <1>15, <2>1, <2>2 DEF AP!DecisionsAreCounted
<1>17. o # "rebalanced" \/ r \notin Y => (AP!InBudget' <=> AP!InBudget)
  BY <1>12 DEF AP!InBudget
<1>18. AP!SavedStands'
  <2> PICK p : p = v5.pending
    OBVIOUS
  <2>1. CASE p = AP!NoIntent
    BY <1>3, <2>1 DEF AP!SavedStands
  <2>2. CASE p # AP!NoIntent
    <3>1. /\ p.id \in Y /\ p.strategy <= v1
          /\ v4[p.id].status # "unknown" => v4[p.id].action = p.action
          /\ p.action = "rebalance" /\ v4[p.id].status \notin AP!Concluded => AP!InBudget
      BY <2>2 DEF AP!DecisionsInv, AP!SavedStands
    <3>2. p.strategy \in Nat /\ p.strategy <= v1'
      <4>1. p.strategy \in AP!Generations
        BY DEF AP!DecisionsInv, AP!TypeOK
      <4> QED BY <1>7, <1>8, <3>1, <4>1, RolledAreFinite, DecisionsCount DEF AP!Generations
    <3>3. v4'[p.id].status # "unknown" => v4'[p.id].action = p.action
      BY <1>1, <1>2, <1>4, <3>1 DEF AP!Requests
    <3>4. p.action = "rebalance" /\ v4'[p.id].status \notin AP!Concluded => AP!InBudget'
      <4>1. CASE p.id = r
        BY <1>2, <1>4, <4>1
      <4>2. CASE p.id # r
        <5>1. r \notin Y
          BY <1>11, <4>2
        <5> QED BY <1>4, <1>17, <3>1, <4>2, <5>1 DEF AP!Requests
      <4> QED BY <4>1, <4>2
    <3> QED BY <1>3, <3>1, <3>2, <3>3, <3>4 DEF AP!SavedStands
  <2> QED BY <2>1, <2>2
<1>19. (\A q \in AP!Requests : v4[q].status = "unknown" => v4[q] = AP!Unknown)'
  <2> SUFFICES ASSUME NEW q \in AP!Requests PROVE v4'[q].status = "unknown" => v4'[q] = AP!Unknown
    OBVIOUS
  <2>1. v4[q].status = "unknown" => v4[q] = AP!Unknown
    BY DEF AP!DecisionsInv
  <2> QED BY <1>2, <1>4, <2>1 DEF AP!Concluded
<1>20. (\A u \in X : AP!Stands(v6[u]))'
  <2> SUFFICES ASSUME NEW u \in X PROVE AP!Stands(v6[u])'
    OBVIOUS
  <2> PICK q : q = v6[u]
    OBVIOUS
  <2>1. AP!Stands(q) /\ q.strategy \in AP!Generations
    BY DEF AP!DecisionsInv, AP!TypeOK
  <2>2. q.strategy \in Nat
    BY <2>1, RolledAreFinite, DecisionsCount DEF AP!Generations
  <2>3. q.phase \in {"submitting", "running"} =>
          /\ v4[q.intent].status \in AP!Concluded => v4'[q.intent].status \in AP!Concluded
          /\ v4[q.intent].status # "unknown" => v4'[q.intent].status # "unknown"
    BY <1>2, <1>4, <2>1 DEF AP!Stands, AP!Requests, AP!Concluded
  <2>4. q.phase = "decided" /\ q.action = "rebalance" /\ q.strategy = v1' => AP!InBudget'
    <3>1. CASE o = "rebalanced"
      <4>1. q.strategy <= v1 /\ v1' = v1 + 1
        BY <1>6, <2>1, <3>1 DEF AP!Stands
      <4> QED BY <1>7, <2>2, <4>1
    <3>2. CASE o # "rebalanced"
      BY <1>6, <1>17, <2>1, <3>2 DEF AP!Stands
    <3> QED BY <3>1, <3>2
  <2>5. q.strategy <= v1'
    BY <1>7, <1>8, <2>1, <2>2 DEF AP!Stands
  <2>6. AP!Stands(q)'
    BY <1>3, <2>1, <2>3, <2>4, <2>5 DEF AP!Stands
  <2> QED BY <1>3, <2>6 DEF AP!Stands
<1> QED BY <1>8, <1>9, <1>16, <1>18, <1>19, <1>20, DecisionsCount DEF AP!DecisionsInv

\* Another caller's request is of none of the autopilot's intents.
LEMMA OtherRequestKeeps ==
  ASSUME AP!FreshIntents, AP!DecisionsInv, NEW o \in Z, NEW a \in {"rebalance", "dock"}, AP!OtherRequest(o, a)
  PROVE  AP!DecisionsInv'
<1> PICK j : j = [status |-> "pending", action |-> a, strategy |-> v1]
  OBVIOUS
<1>1. v4' = [v4 EXCEPT ![o] = j] /\ v4[o] = AP!Unknown /\ AP!Pending = {} /\ UNCHANGED <<v1, v2, v3, v5, v6>>
  BY DEF AP!OtherRequest
<1>2. o \in AP!Requests /\ o \notin Y
  BY DEF AP!Requests, AP!FreshIntents
<1>3. \A r \in AP!Requests : v4'[r] = IF r = o THEN j ELSE v4[r]
  BY <1>1 DEF AP!DecisionsInv, AP!TypeOK
<1>4. \A i \in Y : v4'[i] = v4[i]
  BY <1>2, <1>3 DEF AP!Requests
<1>5. AP!TypeOK'
  <2>1. j \in [status : {"unknown", "pending", "rebalanced", "failed", "docked"}, action : AP!Actions,
               strategy : AP!Generations]
    BY DEF AP!DecisionsInv, AP!TypeOK, AP!Actions
  <2> QED BY <1>1, <2>1 DEF AP!DecisionsInv, AP!TypeOK
<1>6. AP!Pending' = {o} /\ AP!Rolled' = AP!Rolled /\ AP!Replaced' = AP!Replaced
  <2>1. AP!Pending' = {o}
    BY <1>1, <1>2, <1>3 DEF AP!Pending
  <2>2. AP!Rolled' = AP!Rolled
    BY <1>4 DEF AP!Rolled
  <2>3. AP!Replaced' = AP!Replaced
    BY <1>1, <1>2, <1>3 DEF AP!Replaced, AP!Unknown
  <2> QED BY <2>1, <2>2, <2>3
<1>7. AP!DecisionsAreCounted'
  BY <1>1, <1>2, <1>6 DEF AP!DecisionsInv, AP!DecisionsAreCounted
<1>8. AP!SavedStands'
  BY <1>1, <1>4, <1>6 DEF AP!DecisionsInv, AP!SavedStands, AP!InBudget
<1>9. (\A r \in AP!Requests : v4[r].status = "unknown" => v4[r] = AP!Unknown)'
  BY <1>3 DEF AP!DecisionsInv
<1>10. (\A u \in X : AP!Stands(v6[u]))'
  BY <1>1, <1>4, <1>6 DEF AP!DecisionsInv, AP!Stands, AP!InBudget
<1> QED BY <1>1, <1>5, <1>6, <1>7, <1>8, <1>9, <1>10 DEF AP!DecisionsInv

\* Nothing of the decisions hangs on the clock.
LEMMA ExpireKeepsDecisions ==
  ASSUME AP!DecisionsInv, v3' \in BOOLEAN, UNCHANGED <<v1, v2, v4, v5, v6>>
  PROVE  AP!DecisionsInv'
<1>1. AP!TypeOK'
  BY DEF AP!DecisionsInv, AP!TypeOK
<1>2. AP!Pending' = AP!Pending /\ AP!Rolled' = AP!Rolled /\ AP!Replaced' = AP!Replaced
  BY DEF AP!Pending, AP!Rolled, AP!Replaced
<1>3. AP!DecisionsAreCounted' /\ AP!SavedStands'
  BY <1>2 DEF AP!DecisionsInv, AP!DecisionsAreCounted, AP!SavedStands, AP!InBudget
<1>4. (\A u \in X : AP!Stands(v6[u]))'
  BY <1>2 DEF AP!DecisionsInv, AP!Stands, AP!InBudget
<1> QED BY <1>1, <1>2, <1>3, <1>4 DEF AP!DecisionsInv

\* Every step of the autopilot keeps its invariant.
LEMMA DecisionsKeep ==
  ASSUME AP!FreshIntents, AP!DecisionsInv, [AP!Next]_(AP!vars)
  PROVE  AP!DecisionsInv'
<1>1. CASE UNCHANGED AP!vars
  <2>1. v3' \in BOOLEAN /\ UNCHANGED <<v1, v2, v4, v5, v6>>
    BY <1>1 DEF AP!vars, AP!DecisionsInv, AP!TypeOK
  <2> QED BY <2>1, ExpireKeepsDecisions
<1>2. CASE \E t \in X : AP!TickSteps(t) \/ AP!Crash(t)
  <2> PICK t \in X : AP!TickSteps(t) \/ AP!Crash(t)
    BY <1>2
  <2>1. CASE AP!Resume(t)
    BY <2>1, ResumeKeeps
  <2>2. CASE AP!Settle(t)
    BY <2>2, SettleKeeps
  <2>3. CASE \E a \in {"rebalance", "dock"} : AP!Observe(t, a)
    BY <2>3, ObserveKeeps
  <2>4. CASE \E i \in Y : AP!Bind(t, i)
    BY <2>4, BindKeeps
  <2>5. CASE \E lapsed \in BOOLEAN : AP!Submit(t, lapsed)
    BY <2>5, SubmitKeeps
  <2>6. CASE AP!Crash(t)
    BY <2>6, RestKeeps DEF AP!Crash
  <2> QED BY <2>1, <2>2, <2>3, <2>4, <2>5, <2>6 DEF AP!TickSteps
<1>3. CASE AP!Executor
  <2> PICK r \in AP!Requests, o \in {"rebalanced", "failed", "docked"} : AP!Conclude(r, o)
    BY <1>3 DEF AP!Executor
  <2>1. o \in AP!Concluded
    BY DEF AP!Concluded
  <2> QED BY <2>1, ConcludeKeeps
<1>4. CASE AP!Expire
  BY <1>4, ExpireKeepsDecisions DEF AP!Expire
<1>5. CASE \E o \in Z, a \in {"rebalance", "dock"} : AP!OtherRequest(o, a)
  BY <1>5, OtherRequestKeeps
<1> QED BY <1>1, <1>2, <1>3, <1>4, <1>5 DEF AP!Next

\* At the start nothing has been decided.
LEMMA DecisionsBegin == AP!FreshIntents /\ AP!Init => AP!DecisionsInv
<1> SUFFICES ASSUME AP!FreshIntents, AP!Init PROVE AP!DecisionsInv
  OBVIOUS
<1>1. AP!Pending = {} /\ AP!Rolled = {} /\ AP!Replaced = {}
  BY DEF AP!Init, AP!Pending, AP!Rolled, AP!Replaced, AP!Requests, AP!Unknown
<1>2. Cardinality({}) = 0 /\ AP!Cardinality({}) = 0
  BY FS_EmptySet, DecisionsCount
<1>3. 0 \in AP!Generations /\ N - 1 \in Nat
  BY RolledAreFinite, DecisionsCount DEF AP!Generations, AP!FreshIntents
<1>4. AP!Idle \in [phase : {"idle", "decided", "submitting", "running"}, action : AP!Actions,
                  strategy : AP!Generations, intent : Y \cup {None}]
  BY <1>3 DEF AP!Idle, AP!Actions
<1>5. AP!NoIntent \in [id : Y \cup {None}, action : AP!Actions, strategy : AP!Generations]
  BY <1>3 DEF AP!NoIntent, AP!Actions
<1>6. AP!Unknown \in [status : {"unknown", "pending", "rebalanced", "failed", "docked"},
                      action : AP!Actions, strategy : AP!Generations]
  BY <1>3 DEF AP!Unknown, AP!Actions
<1>7. AP!TypeOK
  BY <1>3, <1>4, <1>5, <1>6 DEF AP!Init, AP!TypeOK
<1>8. AP!DecisionsAreCounted /\ AP!SavedStands
  BY <1>1, <1>2, <1>3 DEF AP!Init, AP!DecisionsAreCounted, AP!SavedStands
<1>9. v1 = AP!Cardinality(AP!Replaced) /\ \A t \in X : AP!Stands(v6[t])
  BY <1>1, <1>2 DEF AP!Init, AP!Stands, AP!Idle
<1> QED BY <1>7, <1>8, <1>9 DEF AP!Init, AP!DecisionsInv

-----------------------------------------------------------------------------
(* The simulation (FK): v2 the cases due, v4 the Anvil process, v5 what the *)
(* fork's state holds, v6 the snapshot, v7 and v8 where the script stands,  *)
(* v9 the results, v10 the evidence.                                        *)

FK == INSTANCE ForkSimulation WITH
     Setup <- Setup, First <- "missing-report", Cases <- Cases,
     good <- v1, due <- v2, fresh <- v3, child <- v4, chain <- v5, saved <- v6, at <- v7,
     step <- v8, cases <- v9, outcome <- v10

\* Sequences one after the other, the first of a length given.
LEMMA Joined ==
  ASSUME NEW S, NEW a \in Seq(S), NEW c \in Seq(S), NEW n \in Nat, Len(a) = n
  PROVE  /\ a \o c \in Seq(S) /\ Len(a \o c) = n + Len(c)
         /\ \A i \in 1..(n + Len(c)) : (a \o c)[i] = IF i <= n THEN a[i] ELSE c[i - n]
<1>1. a \o c \in Seq(S)
  BY ConcatProperties, Zenon
<1>2. Len(a \o c) = Len(a) + Len(c)
  BY ConcatProperties, Zenon
<1>3. \A i \in 1..(Len(a) + Len(c)) : (a \o c)[i] = IF i <= Len(a) THEN a[i] ELSE c[i - Len(a)]
  BY ConcatProperties, Zenon
<1> QED BY <1>1, <1>2, <1>3, Zenon

\* The script: the setup, the case without a report, the report, the other cases.
LEMMA ScriptAre ==
  ASSUME FK!PlainScript
  PROVE  /\ Len(Setup) \in Nat \ {0} /\ Len(Cases) \in Nat
         /\ Len(FK!Script) = Len(Setup) + 2 + Len(Cases)
         /\ \A i \in 1..Len(FK!Script) :
              FK!Script[i] = IF i <= Len(Setup) THEN Setup[i]
                             ELSE IF i = Len(Setup) + 1 THEN "missing-report"
                             ELSE IF i = Len(Setup) + 2 THEN "report"
                             ELSE Cases[i - Len(Setup) - 2]
<1>1. Setup \in Seq(STRING) /\ Cases \in Seq(STRING) /\ Setup # <<>>
  BY DEF FK!PlainScript
<1>2. PICK c : c = <<"missing-report", "report">>
  OBVIOUS
<1>3. c \in Seq(STRING) /\ Len(c) = 2 /\ c[1] = "missing-report" /\ c[2] = "report"
  BY <1>2 DEF FK!PlainScript, FK!Report
<1>4. FK!Script = (Setup \o c) \o Cases
  BY <1>2 DEF FK!Script, FK!Report
<1>5. Len(Setup) \in Nat \ {0} /\ Len(Cases) \in Nat
  BY <1>1
<1>6. PICK s : s = Setup \o c
  OBVIOUS
<1>7. /\ s \in Seq(STRING) /\ Len(s) = Len(Setup) + 2
      /\ \A i \in 1..(Len(Setup) + 2) : s[i] = IF i <= Len(Setup) THEN Setup[i] ELSE c[i - Len(Setup)]
  <2>1. Len(Setup) \in Nat
    BY <1>5
  <2>2. PICK n \in Nat : n = Len(Setup)
    BY <2>1
  <2>3. /\ Setup \o c \in Seq(STRING) /\ Len(Setup \o c) = n + Len(c)
        /\ \A i \in 1..(n + Len(c)) : (Setup \o c)[i] = IF i <= n THEN Setup[i] ELSE c[i - n]
    <3>1. c \in Seq(STRING) /\ Setup \in Seq(STRING) /\ Len(Setup) = n
      BY <1>1, <1>3, <2>2
    <3> QED BY <3>1, Joined
  <2> QED BY <1>3, <1>6, <2>2, <2>3, Zenon
<1>8. /\ Len(FK!Script) = Len(Setup) + 2 + Len(Cases)
      /\ \A i \in 1..(Len(Setup) + 2 + Len(Cases)) :
           FK!Script[i] = IF i <= Len(Setup) + 2 THEN s[i] ELSE Cases[i - (Len(Setup) + 2)]
  <2>1. Len(Setup) + 2 \in Nat
    BY <1>5
  <2>2. FK!Script = s \o Cases
    BY <1>4, <1>6
  <2>3. PICK n \in Nat : n = Len(Setup) + 2
    BY <2>1
  <2>4. /\ Len(s \o Cases) = n + Len(Cases)
        /\ \A i \in 1..(n + Len(Cases)) : (s \o Cases)[i] = IF i <= n THEN s[i] ELSE Cases[i - n]
    BY <1>1, <1>7, <2>3, Joined
  <2> QED BY <2>2, <2>3, <2>4, Zenon
<1>9. ASSUME NEW i \in 1..Len(FK!Script)
      PROVE  FK!Script[i] = IF i <= Len(Setup) THEN Setup[i] ELSE IF i = Len(Setup) + 1 THEN "missing-report"
                            ELSE IF i = Len(Setup) + 2 THEN "report" ELSE Cases[i - Len(Setup) - 2]
  <2> DEFINE L == Len(Setup)
  <2>1. L \in Nat /\ Len(Cases) \in Nat /\ i \in 1..(L + 2 + Len(Cases))
    BY <1>5, <1>8
  <2>2. FK!Script[i] = IF i <= L + 2 THEN s[i] ELSE Cases[i - (L + 2)]
    BY <1>8, <2>1
  <2>3. ASSUME i <= L + 2 PROVE s[i] = IF i <= L THEN Setup[i] ELSE c[i - L]
    <3>1. i \in 1..(L + 2)
      BY <2>1, <2>3
    <3> QED BY <1>7, <3>1
  <2> HIDE DEF L
  <2>4. CASE i <= L
    <3>1. i <= L + 2
      BY <2>1, <2>4
    <3> QED BY <2>2, <2>3, <2>4, <3>1 DEF L
  <2>5. CASE i = L + 1
    <3>1. i <= L + 2 /\ ~(i <= L) /\ i - L = 1
      BY <2>1, <2>5
    <3> QED BY <1>3, <2>2, <2>3, <2>5, <3>1 DEF L
  <2>6. CASE i = L + 2
    <3>1. i <= L + 2 /\ ~(i <= L) /\ i - L = 2 /\ i # L + 1
      BY <2>1, <2>6
    <3> QED BY <1>3, <2>2, <2>3, <2>6, <3>1 DEF L
  <2>7. CASE i > L + 2
    <3>1. ~(i <= L + 2) /\ ~(i <= L) /\ i # L + 1 /\ i # L + 2 /\ i - (L + 2) = i - L - 2
      BY <2>1, <2>7
    <3> QED BY <2>2, <3>1 DEF L
  <2> QED BY <2>1, <2>4, <2>5, <2>6, <2>7
<1> QED BY <1>5, <1>8, <1>9

\* The steps that stay are the setup and the report.
LEMMA ItemsAre ==
  ASSUME FK!PlainScript, NEW i \in 1..Len(FK!Script)
  PROVE  /\ FK!Script[i] \in FK!Kept \cup FK!Isolated
         /\ FK!Script[i] \in FK!Kept <=> i <= Len(Setup) \/ i = Len(Setup) + 2
         /\ FK!Script[i] \in FK!Kept /\ FK!Script[i] \in FK!Recorded <=> i = Len(Setup)
         /\ FK!Script[i] \in FK!Isolated => FK!Script[i] \in FK!Recorded
<1>1. Len(Setup) \in Nat \ {0} /\ Len(Cases) \in Nat /\ Len(FK!Script) = Len(Setup) + 2 + Len(Cases)
  BY ScriptAre
<1>2. FK!Kept \cap FK!Isolated = {}
  BY DEF FK!PlainScript
<1>3. CASE i <= Len(Setup)
  <2>1. FK!Script[i] = Setup[i] /\ i \in 1..Len(Setup)
    BY <1>1, <1>3, ScriptAre
  <2>2. FK!Script[i] \in FK!Kept
    BY <2>1 DEF FK!Kept
  <2>3. FK!Script[i] \in FK!Recorded <=> i = Len(Setup)
    BY <1>1, <1>2, <2>1, <2>2 DEF FK!Recorded, FK!PlainScript
  <2> QED BY <1>2, <1>3, <2>2, <2>3
<1>4. CASE i = Len(Setup) + 1
  <2>1. FK!Script[i] = "missing-report"
    BY <1>1, <1>4, ScriptAre
  <2> QED BY <1>1, <1>2, <1>4, <2>1 DEF FK!Isolated, FK!Recorded
<1>5. CASE i = Len(Setup) + 2
  <2>1. FK!Script[i] = "report"
    BY <1>1, <1>5, ScriptAre
  <2>2. FK!Script[i] \in FK!Kept
    BY <2>1 DEF FK!Kept, FK!Report
  <2>3. FK!Script[i] \notin FK!Recorded
    BY <1>2, <2>1, <2>2 DEF FK!Recorded, FK!PlainScript, FK!Report
  <2> QED BY <1>1, <1>2, <1>5, <2>2, <2>3
<1>6. CASE i > Len(Setup) + 2
  <2>1. FK!Script[i] = Cases[i - Len(Setup) - 2] /\ i - Len(Setup) - 2 \in 1..Len(Cases)
    BY <1>1, <1>6, ScriptAre
  <2>2. FK!Script[i] \in FK!Isolated
    BY <2>1 DEF FK!Isolated
  <2> QED BY <1>1, <1>2, <1>6, <2>2 DEF FK!Recorded
<1> QED BY <1>1, <1>3, <1>4, <1>5, <1>6

\* Every step has a place in the script.
LEMMA ItemsArePlaced ==
  ASSUME FK!PlainScript, NEW x \in FK!Kept \cup FK!Isolated
  PROVE  \E i \in 1..Len(FK!Script) : FK!Script[i] = x
<1>1. Len(Setup) \in Nat \ {0} /\ Len(Cases) \in Nat /\ Len(FK!Script) = Len(Setup) + 2 + Len(Cases)
  BY ScriptAre
<1>2. CASE \E j \in 1..Len(Setup) : x = Setup[j]
  <2>1. PICK j \in 1..Len(Setup) : x = Setup[j]
    BY <1>2
  <2>2. j \in 1..Len(FK!Script) /\ FK!Script[j] = x
    BY <1>1, <2>1, ScriptAre
  <2> QED BY <2>2
<1>3. CASE x = "missing-report"
  <2>1. Len(Setup) + 1 \in 1..Len(FK!Script) /\ FK!Script[Len(Setup) + 1] = x
    BY <1>1, <1>3, ScriptAre
  <2> QED BY <2>1
<1>4. CASE x = "report"
  <2>1. Len(Setup) + 2 \in 1..Len(FK!Script) /\ FK!Script[Len(Setup) + 2] = x
    BY <1>1, <1>4, ScriptAre
  <2> QED BY <2>1
<1>5. CASE \E j \in 1..Len(Cases) : x = Cases[j]
  <2>1. PICK j \in 1..Len(Cases) : x = Cases[j]
    BY <1>5
  <2>2. Len(Setup) + 2 + j \in 1..Len(FK!Script) /\ FK!Script[Len(Setup) + 2 + j] = x
    BY <1>1, <2>1, ScriptAre
  <2> QED BY <2>2
<1> QED BY <1>2, <1>3, <1>4, <1>5 DEF FK!Kept, FK!Isolated, FK!Report

\* The state the next step starts from.
LEMMA NextBase ==
  ASSUME FK!PlainScript, NEW i \in 1..Len(FK!Script)
  PROVE  FK!Base(i + 1) = IF FK!Script[i] \in FK!Kept THEN FK!Base(i) \cup {FK!Script[i]} ELSE FK!Base(i)
<1>1. 1 .. ((i + 1) - 1) = (1 .. (i - 1)) \cup {i}
  BY ScriptAre
<1> QED BY <1>1 DEF FK!Base

\* The successes before a step, and before the next.
LEMMA NextBefore ==
  ASSUME FK!PlainScript, NEW i \in 1..Len(FK!Script)
  PROVE  /\ FK!Before(i) \in Nat /\ FK!Before(i) <= Len(Cases) + 2 /\ FK!Before(i + 1) <= Len(Cases) + 3
         /\ FK!Script[i] \in FK!Isolated => FK!Before(i) <= Len(Cases) + 1
         /\ FK!Script[i] \in FK!Recorded => FK!Before(i + 1) = FK!Before(i) + 1
         /\ FK!Script[i] \notin FK!Recorded => FK!Before(i + 1) = FK!Before(i)
<1>1. Len(Setup) \in Nat \ {0} /\ Len(Cases) \in Nat /\ Len(FK!Script) = Len(Setup) + 2 + Len(Cases)
  BY ScriptAre
<1>2. FK!Kept \cap FK!Isolated = {}
  BY DEF FK!PlainScript
<1> QED BY <1>1, <1>2, ItemsAre DEF FK!Before

\* What is recorded stays, and a failure or a skipped case is seen in the results.
LEMMA ResultsGrow ==
  ASSUME v9 \in Seq(FK!Results), NEW r \in FK!Results, v9' = Append(v9, r)
  PROVE  /\ v9' \in Seq(FK!Results) /\ Len(v9') = Len(v9) + 1
         /\ FK!Failed => FK!Failed'
         /\ FK!Skipped => FK!Skipped'
         /\ r.passed = FALSE => FK!Failed'
         /\ r.passed = None => FK!Skipped'
<1>1. /\ v9' \in Seq(FK!Results) /\ Len(v9') = Len(v9) + 1 /\ Len(v9) \in Nat
      /\ \A i \in 1..Len(v9) : v9'[i] = v9[i]
      /\ v9'[Len(v9) + 1] = r
  OBVIOUS
<1>2. \A i \in 1..Len(v9) : i \in 1..Len(v9')
  BY <1>1
<1>3. Len(v9) + 1 \in 1..Len(v9')
  BY <1>1
<1> QED BY <1>1, <1>2, <1>3 DEF FK!Failed, FK!Skipped

\* When a case has run, or was skipped, the cases up to it have been tried.
LEMMA TriedGoesOn ==
  ASSUME FK!PlainScript, NEW a \in 1..Len(FK!Script), FK!Tried(a - 1), FK!Skipped => FK!Skipped', UNCHANGED <<v1, v2>>,
         FK!Script[a] \in FK!Kept \cup v2 => FK!Script[a] \in v1,
         FK!Script[a] \in FK!Isolated \ v2 => FK!Skipped'
  PROVE  FK!Tried(a)'
<1>1. \A i \in 1..a : i = a \/ i \in 1..(a - 1)
  BY ScriptAre
<1> QED BY <1>1 DEF FK!Tried

\* What was tried stays tried.
LEMMA TriedStays ==
  ASSUME NEW n, FK!Tried(n), FK!Skipped => FK!Skipped', UNCHANGED <<v1, v2>>
  PROVE  FK!Tried(n)'
BY DEF FK!Tried

\* What was tried was kept, or is said to be skipped.
LEMMA TriedSays ==
  ASSUME NEW n, FK!Tried(n), NEW i \in 1..n
  PROVE  /\ FK!Script[i] \in FK!Kept \cup v2 => FK!Script[i] \in v1
         /\ FK!Script[i] \in FK!Isolated \ v2 => FK!Skipped
BY DEF FK!Tried

\* The next step of the script starts from the kept steps alone.
LEMMA AdvanceKeeps ==
  ASSUME FK!PlainScript, NEW a \in 1..Len(FK!Script), v7 = a, FK!Advance, FK!Tried(a)',
         v5' = FK!Base(a + 1), v9' \in Seq(FK!Results), Len(v9') <= FK!Before(a + 1),
         UNCHANGED v4
  PROVE  v7' \in 1..Len(FK!Script) /\ v8' \in {"next", "stop"} /\ FK!Stages' /\ UNCHANGED v10
<1>1. Len(FK!Script) \in Nat /\ Len(Cases) \in Nat /\ Len(v9') \in Nat
  BY ScriptAre
<1>2. CASE a = Len(FK!Script)
  <2>1. v8' = "stop" /\ v7' = a /\ UNCHANGED v10
    BY <1>2 DEF FK!Advance, FK!Goes
  <2>2. FK!Before(a + 1) <= Len(Cases) + 3 /\ FK!Before(a + 1) \in Int
    BY <1>1, NextBefore
  <2>4. Len(v9') <= Len(Cases) + 3
    BY <1>1, <2>2
  <2> QED BY <1>2, <2>1, <2>4 DEF FK!Stages
<1>3. CASE a # Len(FK!Script)
  <2>1. v8' = "next" /\ v7' = a + 1 /\ UNCHANGED v10
    BY <1>3 DEF FK!Advance, FK!Goes
  <2>2. a + 1 \in 1..Len(FK!Script) /\ (a + 1) - 1 = a
    BY <1>1, <1>3
  <2>3. v5' = FK!Base(v7') /\ FK!Tried(v7 - 1)' /\ Len(v9') <= FK!Before(v7')
    BY <2>1, <2>2
  <2> QED BY <2>1, <2>2, <2>3 DEF FK!Stages
<1> QED BY <1>2, <1>3

\* A fork is asked for.
LEMMA StartForkKeeps ==
  ASSUME FK!PlainScript, FK!ForkInv, FK!StartFork
  PROVE  FK!ForkInv'
<1>1. /\ v8 = "start" /\ UNCHANGED <<v1, v2, v3, v5, v6, v7, v9, v10>>
      /\ \/ v8' = "boot" /\ v4' = "booting"
         \/ v8' = "threw" /\ UNCHANGED v4
  BY DEF FK!StartFork, FK!Chosen, FK!Goes
<1>2. FK!Shapes'
  BY <1>1 DEF FK!ForkInv, FK!Shapes
<1>3. Len(v9') <= Len(Cases) + 3
  BY <1>1, ScriptAre DEF FK!ForkInv, FK!Stages
<1>4. FK!Stages'
  BY <1>1, <1>3 DEF FK!ForkInv, FK!Stages
<1>5. FK!Answers'
  BY <1>1 DEF FK!ForkInv, FK!Answers
<1> QED BY <1>2, <1>4, <1>5 DEF FK!ForkInv

\* A fork answers.
LEMMA ForkReadyKeeps ==
  ASSUME FK!PlainScript, FK!ForkInv, FK!ForkReady
  PROVE  FK!ForkInv'
<1>1. /\ v8 = "boot" /\ UNCHANGED <<v1, v2, v3, v5, v6, v7, v9, v10>>
      /\ v8' = "next" /\ v4' = "up"
  BY DEF FK!ForkReady, FK!Chosen, FK!Goes
<1>2. FK!Shapes'
  BY <1>1 DEF FK!ForkInv, FK!Shapes
<1>3. v7' = 1 /\ v5' = {} /\ v9' = <<>>
  BY <1>1 DEF FK!ForkInv, FK!Stages
<1>4. FK!Base(1) = {} /\ FK!Before(1) = 0
  BY ScriptAre DEF FK!Base, FK!Before
<1>5. FK!Tried(v7 - 1)'
  BY <1>3 DEF FK!Tried
<1>6. FK!Stages'
  BY <1>1, <1>3, <1>4, <1>5 DEF FK!Stages
<1>7. FK!Answers'
  BY <1>1 DEF FK!ForkInv, FK!Answers
<1> QED BY <1>2, <1>6, <1>7 DEF FK!ForkInv

\* A check of the fork fails and stops it.
LEMMA ForkRefusedKeeps ==
  ASSUME FK!PlainScript, FK!ForkInv, FK!ForkRefused
  PROVE  FK!ForkInv'
<1>1. /\ v8 = "boot" /\ UNCHANGED <<v1, v2, v3, v5, v6, v7, v9, v10>>
      /\ v8' = "threw" /\ v4' = "dead"
  BY DEF FK!ForkRefused, FK!Chosen, FK!Goes
<1>2. FK!Shapes'
  BY <1>1 DEF FK!ForkInv, FK!Shapes
<1>3. Len(v9') <= Len(Cases) + 3
  BY <1>1, ScriptAre DEF FK!ForkInv, FK!Stages
<1>4. FK!Stages'
  BY <1>1, <1>3 DEF FK!Stages
<1>5. FK!Answers'
  BY <1>1 DEF FK!ForkInv, FK!Answers
<1> QED BY <1>2, <1>4, <1>5 DEF FK!ForkInv

\* An isolated case that is not due is skipped.
LEMMA SkipKeeps ==
  ASSUME FK!PlainScript, FK!ForkInv, FK!Skip
  PROVE  FK!ForkInv'
<1>1. PICK a \in 1..Len(FK!Script) : a = v7
  BY DEF FK!ForkInv, FK!Shapes
<1>2. PICK r \in FK!Results : r = [name |-> FK!Script[a], passed |-> None]
  BY ItemsAre DEF FK!Results
<1>3. /\ v8 = "next" /\ FK!Script[a] \in FK!Isolated \ v2 /\ v9' = Append(v9, r)
      /\ FK!Advance /\ UNCHANGED <<v1, v2, v3, v4, v5, v6>>
  BY <1>1, <1>2 DEF FK!Skip, FK!Chosen, FK!Item, FK!Case
<1>4. v5 = FK!Base(a) /\ FK!Tried(a - 1) /\ Len(v9) <= FK!Before(a) /\ v9 \in Seq(FK!Results)
  BY <1>1, <1>3 DEF FK!ForkInv, FK!Stages, FK!Shapes
<1>5. /\ v9' \in Seq(FK!Results) /\ Len(v9') = Len(v9) + 1
      /\ FK!Skipped => FK!Skipped'
      /\ FK!Skipped'
  BY <1>2, <1>3, <1>4, ResultsGrow
<1>6. FK!Kept \cap FK!Isolated = {}
  BY DEF FK!PlainScript
<1>7. FK!Tried(a)'
  BY <1>3, <1>4, <1>5, <1>6, TriedGoesOn
<1>8. v5' = FK!Base(a + 1) /\ Len(v9') <= FK!Before(a + 1)
  <2>1. FK!Script[a] \notin FK!Kept /\ FK!Script[a] \in FK!Recorded
    BY <1>3, <1>6, ItemsAre
  <2>2. FK!Before(a + 1) = FK!Before(a) + 1 /\ FK!Before(a) \in Nat /\ Len(v9) \in Nat
    BY <1>4, <2>1, NextBefore
  <2>3. FK!Base(a + 1) = FK!Base(a)
    BY <2>1, NextBase
  <2> QED BY <1>3, <1>4, <1>5, <2>2, <2>3
<1>9. v7' \in 1..Len(FK!Script) /\ v8' \in {"next", "stop"} /\ FK!Stages' /\ UNCHANGED v10
  BY <1>1, <1>3, <1>5, <1>7, <1>8, AdvanceKeeps
<1>10. FK!Shapes'
  BY <1>3, <1>5, <1>9 DEF FK!ForkInv, FK!Shapes
<1>11. FK!Answers'
  BY <1>3, <1>9 DEF FK!ForkInv, FK!Answers
<1> QED BY <1>9, <1>10, <1>11 DEF FK!ForkInv

\* A snapshot is taken before a case.
LEMMA TakeSnapshotKeeps ==
  ASSUME FK!ForkInv, FK!TakeSnapshot
  PROVE  FK!ForkInv'
<1>1. /\ v8 = "next" /\ FK!Item \in v2 /\ v6' = v5 /\ v8' = "work"
      /\ UNCHANGED <<v1, v2, v3, v4, v5, v7, v9, v10>>
  BY DEF FK!TakeSnapshot, FK!Chosen, FK!Goes
<1>2. FK!Shapes'
  BY <1>1 DEF FK!ForkInv, FK!Shapes
<1>3. v5' = FK!Base(v7') /\ Len(v9') <= FK!Before(v7') /\ FK!Tried(v7 - 1)
  BY <1>1 DEF FK!ForkInv, FK!Stages
<1>4. FK!Tried(v7 - 1)' /\ FK!Item'= FK!Item
  BY <1>1, <1>3 DEF FK!Tried, FK!Skipped, FK!Item
<1>5. FK!Stages'
  BY <1>1, <1>3, <1>4 DEF FK!Stages
<1>6. FK!Answers'
  BY <1>1 DEF FK!ForkInv, FK!Answers
<1> QED BY <1>2, <1>5, <1>6 DEF FK!ForkInv

\* A failed result ends the script.
LEMMA FailureKeeps ==
  ASSUME FK!PlainScript, FK!ForkInv, NEW r \in FK!Results, r.passed = FALSE, v9' = Append(v9, r),
         v8 \in {"next", "work", "revert"}, v8' = "stop", FK!Shapes', UNCHANGED <<v1, v2, v10>>
  PROVE  FK!ForkInv'
<1>1. PICK a \in 1..Len(FK!Script) : a = v7
  BY DEF FK!ForkInv, FK!Shapes
<1>2. FK!Failed' /\ Len(v9') = Len(v9) + 1
  BY ResultsGrow DEF FK!ForkInv, FK!Shapes
<1>3. Len(Cases) \in Nat /\ Len(v9) \in Nat
  BY ScriptAre DEF FK!ForkInv, FK!Shapes
<1>4. CASE v8 \in {"next", "work"}
  <2>1. Len(v9) <= FK!Before(a)
    BY <1>1, <1>4 DEF FK!ForkInv, FK!Stages
  <2>2. FK!Before(a) \in Nat /\ FK!Before(a) <= Len(Cases) + 2
    BY NextBefore
  <2>3. Len(v9') <= Len(Cases) + 3
    BY <1>2, <1>3, <2>1, <2>2
  <2> QED BY <1>2, <2>3 DEF FK!ForkInv, FK!Stages, FK!Answers
<1>5. CASE v8 = "revert"
  <2>1. Len(v9) <= FK!Before(a) + 1 /\ FK!Script[a] \in FK!Isolated
    BY <1>1, <1>5 DEF FK!ForkInv, FK!Stages, FK!Item
  <2>2. FK!Before(a) \in Nat /\ FK!Before(a) <= Len(Cases) + 1
    BY <2>1, NextBefore
  <2>3. Len(v9') <= Len(Cases) + 3
    BY <1>2, <1>3, <2>1, <2>2
  <2> QED BY <1>2, <2>3 DEF FK!ForkInv, FK!Stages, FK!Answers
<1> QED BY <1>4, <1>5

\* A case runs on the fork.
LEMMA WorkKeeps ==
  ASSUME FK!PlainScript, FK!ForkInv, FK!Work
  PROVE  FK!ForkInv'
<1>1. PICK a \in 1..Len(FK!Script) : a = v7
  BY DEF FK!ForkInv, FK!Shapes
<1>2. PICK ok :
        /\ ok \in (IF v5 = FK!Base(a) THEN {FK!Script[a] \in v1} ELSE BOOLEAN)
        /\ v9' = IF ~ok \/ FK!Script[a] \in FK!Recorded THEN Append(v9, FK!Case(FK!Script[a], ok)) ELSE v9
        /\ IF FK!Script[a] \in FK!Isolated THEN FK!Goes(IF ok THEN "revert" ELSE "stop") /\ UNCHANGED v7
           ELSE IF ok THEN FK!Advance ELSE FK!Goes("stop") /\ UNCHANGED v7
  BY <1>1 DEF FK!Work, FK!Item
<1>3. /\ v8 = IF FK!Script[a] \in FK!Kept THEN "next" ELSE "work"
      /\ v5' = v5 \cup {FK!Script[a]} /\ UNCHANGED <<v1, v2, v3, v4, v6>>
  BY <1>1 DEF FK!Work, FK!Item, FK!Chosen
<1>4. /\ v5 = FK!Base(a) /\ FK!Tried(a - 1) /\ Len(v9) <= FK!Before(a) /\ v9 \in Seq(FK!Results)
      /\ v8 = "work" => v6 = FK!Base(a) /\ FK!Script[a] \in v2
  BY <1>1, <1>3 DEF FK!ForkInv, FK!Stages, FK!Shapes, FK!Item
<1>5. ok = (FK!Script[a] \in v1) /\ ok \in BOOLEAN
  BY <1>2, <1>4
<1>6. /\ FK!Kept \cap FK!Isolated = {} /\ FK!Script[a] \in FK!Kept \cup FK!Isolated
      /\ v5' \subseteq FK!Kept \cup FK!Isolated
  BY <1>3, ItemsAre DEF FK!PlainScript, FK!ForkInv, FK!Shapes
<1>7. PICK r \in FK!Results : r = [name |-> FK!Script[a], passed |-> ok]
  BY <1>5, <1>6 DEF FK!Results
<1>8. CASE ~ok
  <2>1. v9' = Append(v9, r) /\ v8' = "stop" /\ UNCHANGED <<v7, v10>>
    BY <1>2, <1>7, <1>8 DEF FK!Goes, FK!Case
  <2>2. r.passed = FALSE
    BY <1>5, <1>7, <1>8
  <2>3. v9' \in Seq(FK!Results)
    BY <1>4, <2>1, ResultsGrow
  <2>4. FK!Shapes'
    BY <1>3, <1>6, <2>1, <2>3 DEF FK!ForkInv, FK!Shapes
  <2>5. v8 \in {"next", "work", "revert"}
    BY <1>3
  <2> QED BY <1>3, <2>1, <2>2, <2>4, <2>5, FailureKeeps
<1>9. CASE ok /\ FK!Script[a] \in FK!Isolated
  <2>1. v9' = Append(v9, r) /\ v8' = "revert" /\ UNCHANGED <<v7, v10>>
    BY <1>2, <1>7, <1>9, ItemsAre DEF FK!Goes, FK!Case
  <2>2. v9' \in Seq(FK!Results) /\ Len(v9') = Len(v9) + 1 /\ (FK!Skipped => FK!Skipped')
    BY <1>4, <2>1, ResultsGrow
  <2>3. v6' = FK!Base(a) /\ FK!Script[a] \in v2
    BY <1>3, <1>4, <1>6, <1>9
  <2>4. FK!Tried(a)'
    BY <1>3, <1>4, <1>5, <1>9, <2>2, <2>3, TriedGoesOn
  <2>5. Len(v9') <= FK!Before(a) + 1
    BY <1>4, <2>2, NextBefore
  <2>6. FK!Stages'
    BY <1>1, <1>9, <2>1, <2>3, <2>4, <2>5 DEF FK!Stages, FK!Item
  <2>7. FK!Shapes'
    BY <1>3, <1>6, <2>1, <2>2 DEF FK!ForkInv, FK!Shapes
  <2>8. FK!Answers'
    BY <1>3, <2>1 DEF FK!ForkInv, FK!Answers
  <2> QED BY <2>6, <2>7, <2>8 DEF FK!ForkInv
<1>10. CASE ok /\ FK!Script[a] \notin FK!Isolated
  <2>1. FK!Script[a] \in FK!Kept /\ FK!Advance
    BY <1>2, <1>6, <1>10
  <2>2. \/ v9' = Append(v9, r) /\ FK!Script[a] \in FK!Recorded
        \/ v9' = v9 /\ FK!Script[a] \notin FK!Recorded
    <3>1. FK!Case(FK!Script[a], ok) = r
      BY <1>7 DEF FK!Case
    <3>2. CASE FK!Script[a] \in FK!Recorded
      BY <1>2, <3>1, <3>2
    <3>3. CASE FK!Script[a] \notin FK!Recorded
      BY <1>2, <1>10, <3>3
    <3> QED BY <3>2, <3>3
  <2>3. v9' \in Seq(FK!Results) /\ Len(v9') <= FK!Before(a + 1) /\ (FK!Skipped => FK!Skipped')
    <3>1. FK!Before(a) \in Nat /\ Len(v9) \in Nat
      BY <1>4, NextBefore
    <3>2. CASE v9' = Append(v9, r) /\ FK!Script[a] \in FK!Recorded
      <4>1. v9' \in Seq(FK!Results) /\ Len(v9') = Len(v9) + 1 /\ (FK!Skipped => FK!Skipped')
        BY <1>4, <3>2, ResultsGrow
      <4>2. FK!Before(a + 1) = FK!Before(a) + 1
        BY <3>2, NextBefore
      <4> QED BY <1>4, <3>1, <4>1, <4>2
    <3>3. CASE v9' = v9 /\ FK!Script[a] \notin FK!Recorded
      <4>1. FK!Before(a + 1) = FK!Before(a)
        BY <3>3, NextBefore
      <4> QED BY <1>4, <3>3, <4>1 DEF FK!Skipped
    <3> QED BY <2>2, <3>2, <3>3
  <2>4. FK!Tried(a)'
    BY <1>3, <1>4, <1>5, <1>10, <2>3, TriedGoesOn
  <2>5. v5' = FK!Base(a + 1)
    BY <1>3, <1>4, <2>1, NextBase
  <2>6. v7' \in 1..Len(FK!Script) /\ v8' \in {"next", "stop"} /\ FK!Stages' /\ UNCHANGED v10
    BY <1>1, <1>3, <2>1, <2>3, <2>4, <2>5, AdvanceKeeps
  <2>7. FK!Shapes'
    BY <1>3, <1>6, <2>3, <2>6 DEF FK!ForkInv, FK!Shapes
  <2>8. FK!Answers'
    BY <1>3, <2>6 DEF FK!ForkInv, FK!Answers
  <2> QED BY <2>6, <2>7, <2>8 DEF FK!ForkInv
<1> QED BY <1>5, <1>8, <1>9, <1>10

\* The fork goes back to the snapshot.
LEMMA RevertKeeps ==
  ASSUME FK!PlainScript, FK!ForkInv, FK!Revert
  PROVE  FK!ForkInv'
<1>1. PICK a \in 1..Len(FK!Script) : a = v7
  BY DEF FK!ForkInv, FK!Shapes
<1>2. v8 = "revert" /\ v5' = v6 /\ FK!Advance /\ UNCHANGED <<v1, v2, v3, v4, v9>>
  BY DEF FK!Revert, FK!Chosen, FK!Rollback
<1>3. /\ v6 = FK!Base(a) /\ FK!Script[a] \in FK!Isolated /\ FK!Tried(a) /\ Len(v9) <= FK!Before(a) + 1
      /\ v9 \in Seq(FK!Results)
  BY <1>1, <1>2 DEF FK!ForkInv, FK!Stages, FK!Item, FK!Shapes
<1>4. FK!Kept \cap FK!Isolated = {}
  BY DEF FK!PlainScript
<1>5. v5' = FK!Base(a + 1) /\ Len(v9') <= FK!Before(a + 1)
  BY <1>2, <1>3, <1>4, NextBase, NextBefore, ItemsAre
<1>6. FK!Tried(a)'
  BY <1>2, <1>3, TriedStays DEF FK!Skipped
<1>7. v7' \in 1..Len(FK!Script) /\ v8' \in {"next", "stop"} /\ FK!Stages' /\ UNCHANGED v10
  BY <1>1, <1>2, <1>3, <1>5, <1>6, AdvanceKeeps
<1>8. v5' \subseteq FK!Kept \cup FK!Isolated
  BY <1>5 DEF FK!Base
<1>9. FK!Shapes'
  BY <1>2, <1>7, <1>8 DEF FK!ForkInv, FK!Shapes
<1>10. FK!Answers'
  BY <1>2, <1>7 DEF FK!ForkInv, FK!Answers
<1> QED BY <1>7, <1>9, <1>10 DEF FK!ForkInv

\* A request to the fork fails and is recorded as a failed case.
LEMMA UnavailableKeeps ==
  ASSUME FK!PlainScript, FK!ForkInv, FK!Unavailable
  PROVE  FK!ForkInv'
<1>1. PICK a \in 1..Len(FK!Script) : a = v7
  BY DEF FK!ForkInv, FK!Shapes
<1>2. PICK r \in FK!Results : r = [name |-> FK!Script[a], passed |-> FALSE]
  BY ItemsAre DEF FK!Results
<1>3. /\ v8 \in {"next", "work", "revert"} /\ v9' = Append(v9, r) /\ v8' = "stop"
      /\ UNCHANGED <<v1, v2, v3, v4, v5, v6, v7, v10>>
  BY <1>1, <1>2 DEF FK!Unavailable, FK!Chosen, FK!Item, FK!Case, FK!Goes
<1>4. v9' \in Seq(FK!Results)
  BY <1>3, ResultsGrow DEF FK!ForkInv, FK!Shapes
<1>5. FK!Shapes'
  BY <1>3, <1>4 DEF FK!ForkInv, FK!Shapes
<1> QED BY <1>2, <1>3, <1>5, FailureKeeps

\* The fork is stopped.
LEMMA StopForkKeeps ==
  ASSUME FK!PlainScript, FK!ForkInv, FK!StopFork
  PROVE  FK!ForkInv'
<1>1. /\ v8 = "stop" /\ v4' = "dead" /\ v8' = "done"
      /\ v10' = [passed |-> FK!Passed, complete |-> FK!CoverageComplete]
      /\ UNCHANGED <<v1, v2, v3, v5, v6, v7, v9>>
  BY DEF FK!StopFork, FK!Chosen
<1>2. FK!Shapes'
  BY <1>1 DEF FK!ForkInv, FK!Shapes
<1>3. (FK!Failed \/ FK!Tried(Len(FK!Script))) /\ Len(v9) <= Len(Cases) + 3
  BY <1>1 DEF FK!ForkInv, FK!Stages
<1>4. FK!Failed' \/ FK!Tried(Len(FK!Script))'
  BY <1>1, <1>3, TriedStays DEF FK!Failed, FK!Skipped
<1>5. FK!Stages'
  BY <1>1, <1>3, <1>4 DEF FK!Stages
<1>6. ASSUME FK!Passed PROVE FK!Kept \cup v2 \subseteq v1
  <2>1. FK!Tried(Len(FK!Script))
    BY <1>3, <1>6 DEF FK!Passed, FK!Failed
  <2>2. v2 \subseteq FK!Isolated
    BY DEF FK!ForkInv, FK!Shapes
  <2>3. ASSUME NEW x \in FK!Kept \cup v2 PROVE x \in v1
    <3>1. PICK i \in 1..Len(FK!Script) : FK!Script[i] = x
      BY <2>2, ItemsArePlaced
    <3> QED BY <2>1, <3>1, TriedSays
  <2> QED BY <2>3
<1>7. ASSUME FK!CoverageComplete PROVE FK!Kept \cup FK!Isolated \subseteq v1
  <2>1. ~FK!Failed /\ ~FK!Skipped
    BY <1>7 DEF FK!CoverageComplete, FK!Failed, FK!Skipped, FK!PlainScript
  <2>2. FK!Tried(Len(FK!Script))
    BY <1>3, <2>1
  <2>3. ASSUME NEW x \in FK!Kept \cup FK!Isolated PROVE x \in v1
    <3>1. PICK i \in 1..Len(FK!Script) : FK!Script[i] = x
      BY ItemsArePlaced
    <3> QED BY <2>1, <2>2, <3>1, TriedSays
  <2> QED BY <2>3
<1>8. FK!Answers'
  BY <1>1, <1>6, <1>7 DEF FK!Answers
<1> QED BY <1>2, <1>5, <1>8 DEF FK!ForkInv

\* The fork dies by itself.
LEMMA ForkDiesKeeps ==
  ASSUME FK!PlainScript, FK!ForkInv, FK!ForkDies
  PROVE  FK!ForkInv'
<1>1. v4 \in {"booting", "up"} /\ v4' = "dead" /\ UNCHANGED <<v1, v2, v3, v5, v6, v7, v8, v9, v10>>
  BY DEF FK!ForkDies, FK!Chosen
<1>2. FK!Shapes'
  BY <1>1 DEF FK!ForkInv, FK!Shapes
<1>3. FK!Failed' = FK!Failed /\ \A n : FK!Tried(n)' = FK!Tried(n)
  BY <1>1 DEF FK!Failed, FK!Tried, FK!Skipped
<1>4. v8 # "start"
  BY <1>1 DEF FK!ForkInv, FK!Stages
<1>5. FK!Stages'
  BY <1>1, <1>3, <1>4 DEF FK!ForkInv, FK!Stages, FK!Item
<1>6. FK!Answers'
  BY <1>1 DEF FK!ForkInv, FK!Answers
<1> QED BY <1>2, <1>5, <1>6 DEF FK!ForkInv

\* Every step of a simulation keeps its invariant.
LEMMA ForksKeep ==
  ASSUME FK!PlainScript, FK!ForkInv, [FK!Next]_(FK!vars)
  PROVE  FK!ForkInv'
<1>1. CASE UNCHANGED FK!vars
  BY <1>1 DEF FK!ForkInv, FK!Shapes, FK!Stages, FK!Answers, FK!vars, FK!Failed, FK!Tried, FK!Skipped, FK!Item
<1> QED
  BY <1>1, StartForkKeeps, ForkReadyKeeps, ForkRefusedKeeps, SkipKeeps, TakeSnapshotKeeps, WorkKeeps,
     RevertKeeps, UnavailableKeeps, StopForkKeeps, ForkDiesKeeps DEF FK!Next

\* At the start no fork runs.
LEMMA ForksBegin == ASSUME FK!PlainScript, FK!Init PROVE FK!ForkInv
<1>1. 1 \in 1..Len(FK!Script)
  BY ScriptAre
<1> QED BY <1>1 DEF FK!Init, FK!ForkInv, FK!Shapes, FK!Stages, FK!Answers, FK!Results

\* Counting in the module of the fork is counting.
LEMMA ForkCases == \A S : FK!Cardinality(S) = Cardinality(S)
BY DEF Cardinality, FK!Cardinality

\* The invariant implies the types and that the evidence is sound.
LEMMA ForksHold == ASSUME FK!PlainScript, FK!ForkInv PROVE FK!TypeOK /\ FK!EvidenceIsSound
<1>1. FK!Cardinality(FK!Isolated) = Len(Cases) + 1 /\ Len(Cases) \in Nat
  BY ScriptAre DEF FK!PlainScript
<1>2. Len(v9) <= Len(Cases) + 3
  <2>1. PICK a \in 1..Len(FK!Script) : a = v7
    BY DEF FK!ForkInv, FK!Shapes
  <2>2. Len(v9) \in Nat /\ (v9 = <<>> => Len(v9) = 0)
    BY DEF FK!ForkInv, FK!Shapes
  <2>3. FK!Before(a) \in Nat /\ FK!Before(a) <= Len(Cases) + 2
    BY NextBefore
  <2>4. \/ Len(v9) <= FK!Before(a) + 1 \/ v9 = <<>> \/ Len(v9) <= Len(Cases) + 3
    BY <1>1, <2>1, <2>2, <2>3 DEF FK!ForkInv, FK!Shapes, FK!Stages
  <2> QED BY <1>1, <2>2, <2>3, <2>4
<1>3. Len(v9) <= FK!Cardinality(FK!Isolated) + 2
  BY <1>1, <1>2 DEF FK!ForkInv, FK!Shapes
<1>4. FK!TypeOK
  BY <1>3 DEF FK!ForkInv, FK!Shapes, FK!TypeOK
<1> QED BY <1>4 DEF FK!ForkInv, FK!Stages, FK!Answers, FK!EvidenceIsSound

-----------------------------------------------------------------------------
(* The logins (SE): v1 the clock, v2 the challenges, v3 the sessions, v4    *)
(* the attempts of the addresses, v5 the requests, v6 what ran.             *)

SE == INSTANCE Sessions WITH
     Challenges <- Z, Requests <- X, Wallets <- Z, Identities <- Y, Peers <- W,
     MaxTime <- N, ChallengeLife <- N - 1, SessionLife <- N, Window <- N - 1, LoginBudget <- N + 1,
     ReadBudget <- N, MaxPeers <- N - 1,
     now <- v1, challenges <- v2, sessions <- v3, attempts <- v4, request <- v5, done <- v6

\* Counting in the module of the sessions is counting.
LEMMA LoginPeers == \A S : SE!Cardinality(S) = Cardinality(S) /\ SE!IsFiniteSet(S) = IsFiniteSet(S)
BY DEF Cardinality, SE!Cardinality, IsFiniteSet, SE!IsFiniteSet

\* A request counts against the budget of its peer.
LEMMA LimitKeeps ==
  ASSUME SE!Lives, SE!LimiterInv, NEW p \in W, NEW budget, SE!Limit(p, budget), UNCHANGED v1
  PROVE  SE!LimiterInv'
<1> USE DEF SE!Lives
<1>1. PICK swept : swept = SE!Swept(v4)
  OBVIOUS
<1>2. /\ swept \in [W -> [count : Nat, expires : Int] \union {None}]
      /\ \A q \in W : swept[q] \in {None, v4[q]}
  BY <1>1 DEF SE!Swept, SE!LimiterInv
<1>3. SE!Known(swept) \subseteq SE!Known(v4) /\ SE!Known(v4) \subseteq W
  BY <1>2 DEF SE!Known
<1>4. \A S \in SUBSET W : IsFiniteSet(S) /\ Cardinality(S) \in Nat
  BY LoginPeers, FS_Subset, FS_CardinalityType
<1>5. \A S, T \in SUBSET W : S \subseteq T => Cardinality(S) <= Cardinality(T)
  BY <1>4, FS_Subset
<1>6. SE!Known(v4) \in SUBSET W /\ Cardinality(SE!Known(v4)) <= N - 1
  BY <1>3, LoginPeers DEF SE!LimiterInv
<1>7. CASE SE!OpenWindow(p)
  <2>1. v4[p] # None /\ v4[p] \in [count : Nat, expires : Int]
    BY <1>7 DEF SE!OpenWindow, SE!LimiterInv
  <2>2. PICK k \in Nat : v4' = [v4 EXCEPT ![p].count = k]
    <3>1. PICK k : k = IF v4[p].count > (N + 1) + N THEN v4[p].count ELSE v4[p].count + 1
      OBVIOUS
    <3>2. v4' = SE!Counted(p)
      BY <1>7 DEF SE!Limit
    <3>3. v4' = [v4 EXCEPT ![p].count = k]
      BY <1>7, <3>1, <3>2 DEF SE!Counted, SE!LimiterInv
    <3>4. k \in Nat
      BY <2>1, <3>1
    <3> QED BY <3>3, <3>4
  <2>3. v4' = [v4 EXCEPT ![p] = [v4[p] EXCEPT !.count = k]]
    BY <2>2 DEF SE!LimiterInv
  <2>4. PICK e : e = [v4[p] EXCEPT !.count = k]
    OBVIOUS
  <2>5. e \in [count : Nat, expires : Int] /\ e.expires = v4[p].expires
    BY <2>1, <2>4
  <2>6. /\ v4' \in [W -> [count : Nat, expires : Int] \union {None}]
        /\ v4'[p] = e /\ \A q \in W : q # p => v4'[q] = v4[q]
    BY <2>3, <2>4, <2>5 DEF SE!LimiterInv
  <2>7. SE!Known(v4') \subseteq SE!Known(v4)
    BY <2>1, <2>6 DEF SE!Known
  <2>8. Cardinality(SE!Known(v4')) <= N - 1
    <3>1. SE!Known(v4') \in SUBSET W
      BY <1>3, <2>7
    <3>2. PICK a, b : a = Cardinality(SE!Known(v4')) /\ b = Cardinality(SE!Known(v4))
      OBVIOUS
    <3>3. a <= b /\ a \in Nat /\ b \in Nat /\ b <= N - 1
      BY <1>4, <1>5, <1>6, <2>7, <3>1, <3>2
    <3> QED BY <3>2, <3>3
  <2>9. \A q \in W : v4'[q] # None => v4'[q].expires <= v1 + (N - 1)
    BY <2>1, <2>5, <2>6 DEF SE!LimiterInv
  <2> QED BY <2>6, <2>8, <2>9, LoginPeers DEF SE!LimiterInv
<1>8. CASE ~SE!OpenWindow(p) /\ SE!Allowed(p, budget)
  <2> DEFINE e == [count |-> 1, expires |-> v1 + (N - 1)]
  <2>1. v4' = [swept EXCEPT ![p] = e]
    BY <1>1, <1>8 DEF SE!Limit, SE!Counted
  <2>2. e \in [count : Nat, expires : Int] /\ e.expires = v1 + (N - 1)
    BY DEF SE!LimiterInv
  <2> HIDE DEF e
  <2>3. /\ v4' \in [W -> [count : Nat, expires : Int] \union {None}]
        /\ v4'[p] = e /\ \A q \in W : q # p => v4'[q] = swept[q]
    BY <1>2, <2>1, <2>2
  <2>4. SE!Known(v4') \subseteq SE!Known(swept) \union {p}
    BY <2>3 DEF SE!Known
  <2>5. Cardinality(SE!Known(swept)) < N - 1
    BY <1>1, <1>8, LoginPeers DEF SE!Allowed
  <2>6. Cardinality(SE!Known(v4')) <= N - 1
    <3>1. SE!Known(swept) \in SUBSET W /\ SE!Known(swept) \union {p} \in SUBSET W
          /\ SE!Known(v4') \in SUBSET W
      BY <1>3, <2>4
    <3>2. PICK a, b, c : /\ a = Cardinality(SE!Known(v4')) /\ b = Cardinality(SE!Known(swept) \union {p})
                         /\ c = Cardinality(SE!Known(swept))
      OBVIOUS
    <3>3. a \in Nat /\ b \in Nat /\ c \in Nat /\ a <= b
      BY <1>4, <1>5, <2>4, <3>1, <3>2
    <3>4. b = c \/ b = c + 1
      BY <1>4, <3>1, <3>2, FS_AddElement
    <3> QED BY <2>5, <3>2, <3>3, <3>4
  <2>7. \A q \in W : v4'[q] # None => v4'[q].expires <= v1 + (N - 1)
    BY <1>2, <2>2, <2>3 DEF SE!LimiterInv
  <2> QED BY <2>3, <2>6, <2>7, LoginPeers DEF SE!LimiterInv
<1>9. CASE ~SE!OpenWindow(p) /\ ~SE!Allowed(p, budget)
  <2>1. v4' = swept
    BY <1>1, <1>9 DEF SE!Limit
  <2>2. Cardinality(SE!Known(swept)) <= N - 1
    <3>1. SE!Known(swept) \in SUBSET W
      BY <1>3
    <3>2. PICK a, b : a = Cardinality(SE!Known(swept)) /\ b = Cardinality(SE!Known(v4))
      OBVIOUS
    <3>3. a <= b /\ a \in Nat /\ b \in Nat /\ b <= N - 1
      BY <1>3, <1>4, <1>5, <1>6, <3>1, <3>2
    <3> QED BY <3>2, <3>3
  <2>3. \A q \in W : swept[q] # None => swept[q].expires <= v1 + (N - 1)
    BY <1>2 DEF SE!LimiterInv
  <2> QED BY <1>2, <2>1, <2>2, <2>3, LoginPeers DEF SE!LimiterInv
<1> QED BY <1>7, <1>8, <1>9

\* A challenge is handed out.
LEMMA ChallengeKeeps ==
  ASSUME SE!Lives, SE!LoginInv, NEW c \in Z, NEW w \in Z, NEW i \in Y, NEW p \in W,
         SE!Challenge(c, w, i, p)
  PROVE  SE!LoginInv'
<1>1. SE!LimiterInv'
  BY LimitKeeps DEF SE!Challenge, SE!LoginInv
<1>2. UNCHANGED <<v1, v3, v5, v6>> /\ v2[c] = None /\ (\A d \in Z : d # c => v2'[d] = v2[d])
      /\ v2' \in [Z -> SE!ChallengeRows \union {None}]
  <2> DEFINE row == [wallet |-> w, identity |-> i, consumed |-> FALSE,
                     expires |-> v1 + (N - 1), until |-> v1 + N]
  <2>1. v2' = v2 \/ v2' = [v2 EXCEPT ![c] = row]
    BY DEF SE!Challenge
  <2>2. row \in SE!ChallengeRows
    BY DEF SE!ChallengeRows, SE!Lives, SE!LoginInv, SE!LimiterInv
  <2> HIDE DEF row
  <2> QED BY <2>1, <2>2 DEF SE!Challenge, SE!LoginInv
<1>3. \A d \in SE!Issued : d \in Z /\ d \in SE!Issued' /\ v2'[d] = v2[d]
  BY <1>2 DEF SE!Issued
<1>4. SE!LoginsAreIssued'
  BY <1>2, <1>3 DEF SE!LoginInv, SE!LoginsAreIssued, SE!At
<1>5. SE!OwnersSignedIn'
  BY <1>2 DEF SE!LoginInv, SE!OwnersSignedIn, SE!At
<1>6. SE!SessionsAreProven'
  BY <1>2, <1>3 DEF SE!LoginInv, SE!SessionsAreProven
<1> QED BY <1>1, <1>2, <1>3, <1>4, <1>5, <1>6 DEF SE!LoginInv

\* Only the requests change, and one of them to what it may be.
LEMMA OneRequestChanges ==
  ASSUME SE!LoginInv, SE!LimiterInv', UNCHANGED <<v2, v3>>, NEW r \in X,
         NEW q \in SE!Logins \union SE!Bodies \union {None}, v5' = [v5 EXCEPT ![r] = q],
         q # None /\ q.step = "consume" =>
           q.challenge \in SE!Issued /\ v2[q.challenge].identity = q.identity,
         q # None /\ q.step = "body" =>
           \E s \in v3 : s.wallet = q.owner /\ s.identity = q.identity,
         \A d \in v6' : d \in v6 \/ \E s \in v3 : s.wallet = d.owner /\ s.identity = d.identity
  PROVE  SE!LoginInv'
<1>1. /\ v5' \in [X -> SE!Logins \union SE!Bodies \union {None}]
      /\ v5'[r] = q /\ \A u \in X : u # r => v5'[u] = v5[u]
  BY DEF SE!LoginInv
<1>2. SE!Issued' = SE!Issued
  BY DEF SE!Issued
<1>3. SE!LoginsAreIssued'
  BY <1>1, <1>2 DEF SE!LoginInv, SE!LoginsAreIssued, SE!At
<1>4. SE!OwnersSignedIn'
  BY <1>1 DEF SE!LoginInv, SE!OwnersSignedIn, SE!At
<1>5. SE!SessionsAreProven'
  BY DEF SE!LoginInv, SE!SessionsAreProven
<1> QED BY <1>1, <1>2, <1>3, <1>4, <1>5 DEF SE!LoginInv

\* Steps that leave challenges, sessions and requests alone keep the invariant.
LEMMA NothingAsked ==
  ASSUME SE!LoginInv, SE!LimiterInv', UNCHANGED <<v2, v3, v5, v6>>
  PROVE  SE!LoginInv'
<1>1. SE!Issued' = SE!Issued
  BY DEF SE!Issued
<1> QED BY <1>1 DEF SE!LoginInv, SE!LoginsAreIssued, SE!OwnersSignedIn, SE!SessionsAreProven, SE!At

\* A login reads the challenge it answers.
LEMMA ReadChallengeKeeps ==
  ASSUME SE!Lives, SE!LoginInv, NEW r \in X, NEW c \in Z, NEW i \in Y, NEW p \in W,
         SE!ReadChallenge(r, c, i, p)
  PROVE  SE!LoginInv'
<1>1. SE!LimiterInv'
  BY LimitKeeps DEF SE!ReadChallenge, SE!LoginInv
<1>2. CASE UNCHANGED v5
  BY <1>1, <1>2, NothingAsked DEF SE!ReadChallenge
<1>3. CASE ~UNCHANGED v5
  <2> DEFINE q == [step |-> "consume", challenge |-> c, identity |-> i]
  <2>1. q \in SE!Logins
    BY DEF SE!Logins
  <2>2. v5' = [v5 EXCEPT ![r] = q] /\ SE!Open(c) /\ SE!Matches(v2[c], i)
    BY <1>3 DEF SE!ReadChallenge
  <2>3. q.challenge \in SE!Issued /\ v2[q.challenge].identity = q.identity /\ q.step = "consume"
    BY <2>2 DEF SE!Open, SE!Matches, SE!Issued
  <2>4. UNCHANGED <<v2, v3, v6>>
    BY DEF SE!ReadChallenge
  <2> HIDE DEF q
  <2> QED BY <1>1, <2>1, <2>2, <2>3, <2>4, OneRequestChanges
<1> QED BY <1>2, <1>3

\* A request is checked against its session.
LEMMA AuthenticateKeeps ==
  ASSUME SE!Lives, SE!LoginInv, NEW r \in X, NEW s \in v3, NEW i \in Y, NEW kind \in SE!Kinds,
         NEW p \in W, SE!Authenticate(r, s, i, kind, p)
  PROVE  SE!LoginInv'
<1>1. SE!LimiterInv'
  <2>1. CASE UNCHANGED v4
    BY <2>1 DEF SE!Authenticate, SE!LoginInv, SE!LimiterInv
  <2>2. CASE SE!Limit(p, N)
    BY <2>2, LimitKeeps DEF SE!Authenticate, SE!LoginInv
  <2> QED BY <2>1, <2>2 DEF SE!Authenticate
<1>2. CASE UNCHANGED v5
  BY <1>1, <1>2, NothingAsked DEF SE!Authenticate
<1>3. CASE ~UNCHANGED v5
  <2> DEFINE q == [step |-> "body", owner |-> s.wallet, identity |-> i, kind |-> kind, session |-> s]
  <2>1. v5' = [v5 EXCEPT ![r] = q] /\ SE!Matches(s, i)
    BY <1>3 DEF SE!Authenticate
  <2>2. s \in SE!SessionRows
    BY DEF SE!LoginInv
  <2>3. q \in SE!Bodies
    BY <2>2 DEF SE!Bodies, SE!SessionRows
  <2>4. q.step = "body" /\ s.wallet = q.owner /\ s.identity = q.identity
    BY <2>1 DEF SE!Matches
  <2>5. UNCHANGED <<v2, v3, v6>>
    BY DEF SE!Authenticate
  <2> HIDE DEF q
  <2> QED BY <1>1, <2>1, <2>3, <2>4, <2>5, OneRequestChanges
<1> QED BY <1>2, <1>3

\* The limiter stays as it is.
LEMMA LimiterStays ==
  ASSUME SE!LoginInv, UNCHANGED <<v1, v4>>
  PROVE  SE!LimiterInv'
BY DEF SE!LoginInv, SE!LimiterInv

\* A login that is not signed, or a request with a bad body, is dropped.
LEMMA GivenUpKeeps ==
  ASSUME SE!LoginInv, NEW r \in X, SE!Unsigned(r) \/ SE!Dismissed(r)
  PROVE  SE!LoginInv'
BY LimiterStays, OneRequestChanges DEF SE!Unsigned, SE!Dismissed

\* The challenge is read again when it is consumed: it opens one session, the one it names.
LEMMA ConsumeKeeps ==
  ASSUME SE!Lives, SE!LoginInv, NEW r \in X, SE!Consume(r)
  PROVE  SE!LoginInv'
<1>1. SE!LimiterInv' /\ UNCHANGED <<v1, v4, v6>> /\ v5' = [v5 EXCEPT ![r] = None]
  BY LimiterStays DEF SE!Consume
<1>2. PICK c : c = v5[r].challenge
  OBVIOUS
<1>3. CASE ~SE!Unconsumed(c)
  <2>1. UNCHANGED <<v2, v3>>
    BY <1>2, <1>3 DEF SE!Consume
  <2> QED BY <1>1, <2>1, OneRequestChanges
<1>4. CASE SE!Unconsumed(c)
  <2> DEFINE row == [v2[c] EXCEPT !.consumed = TRUE]
             s == [token |-> r, challenge |-> c, wallet |-> v2[c].wallet,
                   identity |-> v5[r].identity, expires |-> v2[c].until, revoked |-> FALSE]
  <2>1. v5[r] \in SE!Logins /\ c \in SE!Issued /\ v2[c].identity = v5[r].identity
    BY <1>2 DEF SE!LoginInv, SE!LoginsAreIssued, SE!Consume, SE!At, SE!Bodies
  <2>2. c \in Z /\ v2[c] \in SE!ChallengeRows /\ ~v2[c].consumed
    BY <1>4, <2>1 DEF SE!LoginInv, SE!Issued, SE!Unconsumed, SE!Open
  <2>3. /\ row \in SE!ChallengeRows /\ row.consumed /\ row.identity = v2[c].identity
        /\ row.wallet = v2[c].wallet /\ row.until = v2[c].until
    BY <2>2 DEF SE!ChallengeRows
  <2>4. v2[c].until \in Nat
    <3>1. v2[c].until \in 0 .. N + N
      BY <2>2 DEF SE!ChallengeRows
    <3> QED BY <3>1 DEF SE!Lives
  <2>5. /\ s \in SE!SessionRows /\ s.challenge = c /\ s.token = r /\ s.wallet = v2[c].wallet
        /\ s.identity = v2[c].identity /\ s.expires = v2[c].until
    BY <2>1, <2>2, <2>4 DEF SE!SessionRows, SE!ChallengeRows
  <2>6. v2' = [v2 EXCEPT ![c] = row] /\ v3' = v3 \union {s}
    <3>1. v2' = [v2 EXCEPT ![c].consumed = TRUE] /\ v3' = v3 \union {s}
      BY <1>2, <1>4 DEF SE!Consume
    <3> QED BY <2>2, <3>1 DEF SE!LoginInv
  <2> HIDE DEF row, s
  <2>7. /\ v2' \in [Z -> SE!ChallengeRows \union {None}]
        /\ v2'[c] = row /\ \A d \in Z : d # c => v2'[d] = v2[d]
    BY <2>2, <2>3, <2>6 DEF SE!LoginInv
  <2>8. \A t \in v3 : t.challenge # c
    BY <2>2 DEF SE!LoginInv, SE!SessionsAreProven
  <2>9. SE!Issued' = SE!Issued
    BY <2>1, <2>3, <2>7 DEF SE!Issued, SE!Lives
  <2>10. \A d \in Z : v2'[d].identity = v2[d].identity
    BY <2>2, <2>3, <2>7
  <2>11. v5' \in [X -> SE!Logins \union SE!Bodies \union {None}]
         /\ v5'[r] = None /\ \A u \in X : u # r => v5'[u] = v5[u]
    BY <1>1 DEF SE!LoginInv
  <2>12. SE!LoginsAreIssued'
    <3> SUFFICES ASSUME NEW u \in X, v5'[u] # None, v5'[u].step = "consume"
                 PROVE  v5'[u].challenge \in SE!Issued /\ v2'[v5'[u].challenge].identity = v5'[u].identity
      BY <2>9 DEF SE!LoginsAreIssued, SE!At
    <3>1. PICK q : q = v5'[u] /\ q = v5[u]
      BY <2>11
    <3>2. q.challenge \in SE!Issued /\ v2[q.challenge].identity = q.identity
      BY <3>1 DEF SE!LoginInv, SE!LoginsAreIssued, SE!At
    <3> QED BY <2>10, <3>1, <3>2 DEF SE!Issued
  <2>13. SE!OwnersSignedIn'
    BY <2>6, <2>11 DEF SE!LoginInv, SE!OwnersSignedIn, SE!At
  <2>14. \A t \in v3' : t.challenge \in SE!Issued'
    BY <2>1, <2>5, <2>6, <2>9 DEF SE!LoginInv
  <2>15. SE!SessionsAreProven'
    <3>1. \A t, u \in v3' : t.challenge = u.challenge => t.token = u.token
      BY <2>5, <2>6, <2>8 DEF SE!LoginInv, SE!SessionsAreProven
    <3>2. ASSUME NEW t \in v3'
          PROVE  /\ v2'[t.challenge].consumed /\ v2'[t.challenge].identity = t.identity
                 /\ v2'[t.challenge].wallet = t.wallet /\ v2'[t.challenge].until = t.expires
      <4>1. CASE t = s
        BY <2>3, <2>5, <2>7, <4>1
      <4>2. CASE t # s
        <5>1. t \in v3 /\ t.challenge \in Z /\ t.challenge # c
          BY <2>6, <2>8, <4>2 DEF SE!LoginInv, SE!Issued
        <5>2. v2'[t.challenge] = v2[t.challenge]
          BY <2>7, <5>1
        <5> QED BY <5>1, <5>2 DEF SE!LoginInv, SE!SessionsAreProven
      <4> QED BY <4>1, <4>2
    <3>3. \A d \in v6' : \E t \in v3' : t.wallet = d.owner /\ t.identity = d.identity
      BY <1>1, <2>6 DEF SE!LoginInv, SE!SessionsAreProven
    <3> QED BY <3>1, <3>2, <3>3 DEF SE!SessionsAreProven
  <2>16. v3' \subseteq SE!SessionRows
    BY <2>5, <2>6 DEF SE!LoginInv
  <2> QED BY <1>1, <2>7, <2>11, <2>12, <2>13, <2>14, <2>15, <2>16 DEF SE!LoginInv
<1> QED BY <1>3, <1>4

\* A logout revokes its own session and leaves what every session stands for.
LEMMA OperateKeeps ==
  ASSUME SE!Lives, SE!LoginInv, NEW r \in X, SE!Operate(r)
  PROVE  SE!LoginInv'
<1>1. SE!LimiterInv' /\ UNCHANGED <<v1, v2, v4>> /\ v5' = [v5 EXCEPT ![r] = None]
  BY LimiterStays DEF SE!Operate
<1>2. PICK q : q = v5[r]
  OBVIOUS
<1>3. CASE q.kind = "logout"
  <2> DEFINE mine(s) == s.token = q.session.token /\ s.challenge = q.session.challenge
             after(s) == IF mine(s) THEN [s EXCEPT !.revoked = TRUE] ELSE s
  <2>1. v3' = {after(s) : s \in v3} /\ UNCHANGED v6
    BY <1>2, <1>3 DEF SE!Operate
  <2>2. ASSUME NEW s \in v3
        PROVE  /\ after(s) \in SE!SessionRows /\ after(s).token = s.token
               /\ after(s).challenge = s.challenge /\ after(s).wallet = s.wallet
               /\ after(s).identity = s.identity /\ after(s).expires = s.expires
    <3>1. s \in SE!SessionRows
      BY DEF SE!LoginInv
    <3>2. after(s) \in {s, [s EXCEPT !.revoked = TRUE]}
      OBVIOUS
    <3> HIDE DEF after
    <3> QED BY <3>1, <3>2 DEF SE!SessionRows
  <2> HIDE DEF after
  <2>3. v5' \in [X -> SE!Logins \union SE!Bodies \union {None}]
        /\ v5'[r] = None /\ \A u \in X : u # r => v5'[u] = v5[u]
    BY <1>1 DEF SE!LoginInv
  <2>4. SE!Issued' = SE!Issued
    BY <1>1 DEF SE!Issued
  <2>5. SE!LoginsAreIssued'
    BY <1>1, <2>3, <2>4 DEF SE!LoginInv, SE!LoginsAreIssued, SE!At
  <2>6. \A owner, identity : (\E s \in v3 : s.wallet = owner /\ s.identity = identity) =>
                             (\E s \in v3' : s.wallet = owner /\ s.identity = identity)
    <3> SUFFICES ASSUME NEW s \in v3
                 PROVE  \E t \in v3' : t.wallet = s.wallet /\ t.identity = s.identity
      OBVIOUS
    <3>1. after(s) \in v3'
      BY <2>1
    <3> QED BY <2>2, <3>1
  <2>7. SE!OwnersSignedIn'
    BY <2>3, <2>6 DEF SE!LoginInv, SE!OwnersSignedIn, SE!At
  <2>8. ASSUME NEW t \in v3'
        PROVE  \E s \in v3 : /\ t \in SE!SessionRows /\ t.token = s.token
                             /\ t.challenge = s.challenge /\ t.wallet = s.wallet
                             /\ t.identity = s.identity /\ t.expires = s.expires
    <3>1. PICK s \in v3 : t = after(s)
      BY <2>1
    <3> QED BY <2>2, <3>1
  <2>9. SE!SessionsAreProven'
    <3>1. \A t, u \in v3' : t.challenge = u.challenge => t.token = u.token
      BY <2>8 DEF SE!LoginInv, SE!SessionsAreProven
    <3>2. \A t \in v3' : /\ v2[t.challenge].consumed /\ v2[t.challenge].identity = t.identity
                         /\ v2[t.challenge].wallet = t.wallet /\ v2[t.challenge].until = t.expires
      BY <2>8 DEF SE!LoginInv, SE!SessionsAreProven
    <3>3. \A d \in v6 : \E t \in v3' : t.wallet = d.owner /\ t.identity = d.identity
      BY <2>6 DEF SE!LoginInv, SE!SessionsAreProven
    <3> QED BY <1>1, <2>1, <3>1, <3>2, <3>3 DEF SE!SessionsAreProven
  <2>10. v3' \subseteq SE!SessionRows /\ \A t \in v3' : t.challenge \in SE!Issued'
    BY <2>4, <2>8 DEF SE!LoginInv
  <2> QED BY <1>1, <2>3, <2>5, <2>7, <2>9, <2>10 DEF SE!LoginInv
<1>4. CASE q.kind # "logout"
  <2> DEFINE ran == [owner |-> q.owner, identity |-> q.identity, kind |-> q.kind]
  <2>1. UNCHANGED v3 /\ v6' = v6 \union {ran}
    BY <1>2, <1>4 DEF SE!Operate
  <2>2. \E s \in v3 : s.wallet = q.owner /\ s.identity = q.identity
    BY <1>2 DEF SE!Operate, SE!LoginInv, SE!OwnersSignedIn
  <2>3. \A d \in v6' : d \in v6 \/ \E s \in v3 : s.wallet = d.owner /\ s.identity = d.identity
    BY <2>1, <2>2
  <2> QED BY <1>1, <2>1, <2>3, OneRequestChanges
<1> QED BY <1>3, <1>4

\* Time passes: challenges, sessions and budgets run out.
LEMMA SessionTicks ==
  ASSUME SE!Lives, SE!LoginInv, SE!Tick
  PROVE  SE!LoginInv'
<1>1. SE!LimiterInv'
  <2>1. \A p \in W : v4[p] # None => v4[p].expires <= v1 + 1 + (N - 1)
    BY DEF SE!LoginInv, SE!LimiterInv, SE!Lives
  <2>2. v1' = v1 + 1 /\ v1' \in 0 .. N /\ UNCHANGED <<v2, v3, v4, v5, v6>>
    BY DEF SE!Tick, SE!LoginInv, SE!LimiterInv, SE!Lives
  <2> QED BY <2>1, <2>2 DEF SE!LoginInv, SE!LimiterInv
<1> QED BY <1>1, NothingAsked DEF SE!Tick

\* Every step of the sessions keeps their invariant.
LEMMA LoginsKeep ==
  ASSUME SE!Lives, SE!LoginInv, [SE!Next]_(SE!vars)
  PROVE  SE!LoginInv'
<1>1. CASE UNCHANGED SE!vars
  BY <1>1, LimiterStays, NothingAsked DEF SE!vars
<1>2. CASE SE!Next
  BY <1>2, ChallengeKeeps, ReadChallengeKeeps, ConsumeKeeps, GivenUpKeeps, OperateKeeps,
     AuthenticateKeeps, SessionTicks DEF SE!Next
<1> QED BY <1>1, <1>2

\* At the start nobody is signed in.
LEMMA LoginsBegin ==
  ASSUME SE!Lives, SE!Init
  PROVE  SE!LoginInv
<1>1. SE!Known(v4) = {} /\ Cardinality({}) = 0
  BY FS_EmptySet DEF SE!Init, SE!Known
<1>2. SE!LimiterInv
  BY <1>1, LoginPeers DEF SE!Init, SE!LimiterInv, SE!Lives
<1> QED BY <1>2 DEF SE!Init, SE!LoginInv, SE!LoginsAreIssued, SE!OwnersSignedIn,
     SE!SessionsAreProven, SE!At

\* The invariant implies the types and that sessions are proven.
LEMMA LoginsHold ==
  ASSUME SE!Lives, SE!LoginInv
  PROVE  SE!TypeOK /\ SE!SessionsAreProven
<1>1. \A c \in SE!Issued : v2[c].until <= N + N
  <2> SUFFICES ASSUME NEW c \in SE!Issued PROVE v2[c].until <= N + N
    OBVIOUS
  <2>1. v2[c] \in SE!ChallengeRows
    BY DEF SE!LoginInv, SE!Issued
  <2>2. v2[c].until \in 0 .. N + N
    BY <2>1 DEF SE!ChallengeRows
  <2> QED BY <2>2 DEF SE!Lives
<1> QED BY <1>1 DEF SE!LoginInv, SE!LimiterInv, SE!TypeOK

-----------------------------------------------------------------------------
(* Who is shown signed in (WS): v1 the wallet, v2 the session, v3 what is   *)
(* shown, v4 the rows, v5 the checks, v6 the sign-in, v7 whether a sign-out *)
(* is under way, v8 the reads, v9 whether something came late.              *)

WS == INSTANCE WalletSession WITH
     Wallets <- X, MaxChecks <- N,
     wallet <- v1, session <- v2, shown <- v3, rows <- v4, checks <- v5, signing <- v6,
     leaving <- v7, reads <- v8, late <- v9

\* The steps that something late is to be expected of, and the types of the others.
LEMMA ConnectsKeeps ==
  ASSUME WS!NoneIsNobody, WS!WalletInv, NEW w \in X \cup {None}, WS!Connects(w)
  PROVE  WS!WalletInv'
<1>1. v5' = v5 \cup {WS!Check(w)} /\ WS!Check(w) \in [of : X \cup {None}, step : {"session", "claim"}]
      /\ WS!Check(w).of = w /\ WS!Check(w).step = "session"
  BY DEF WS!Connects, WS!Check
<1>2. v1' = w /\ UNCHANGED <<v2, v3, v4, v6, v8, v9>> /\ v7' = (v7 \/ (w = None /\ v3.authenticated))
  BY DEF WS!Connects
<1>3. WS!TypeOK'
  BY <1>1, <1>2 DEF WS!WalletInv, WS!TypeOK
<1>4. v3.authenticated \in BOOLEAN
  BY DEF WS!WalletInv, WS!TypeOK
<1>5. WS!ClaimsHaveWallets'
  BY <1>1, <1>2, <1>4 DEF WS!WalletInv, WS!ClaimsHaveWallets
<1>6. WS!ClaimsHaveSessions'
  BY <1>1, <1>2 DEF WS!WalletInv, WS!ClaimsHaveSessions
<1>7. WS!ShowsTheWallet'
  BY <1>1, <1>2 DEF WS!WalletInv, WS!ShowsTheWallet
<1>8. WS!LoadingEnds'
  BY <1>1, <1>2 DEF WS!WalletInv, WS!LoadingEnds
<1> QED BY <1>3, <1>5, <1>6, <1>7, <1>8 DEF WS!WalletInv

\* The session ends at the server.
LEMMA SessionEndsKept ==
  ASSUME WS!NoneIsNobody, WS!WalletInv, WS!SessionEnds
  PROVE  WS!WalletInv'
<1> USE DEF WS!SessionEnds, WS!Forgets, WS!SignedOut, WS!Empty, WS!Claimed, WS!Both, WS!Check
<1>1. WS!TypeOK'
  BY DEF WS!WalletInv, WS!TypeOK, WS!ClaimsHaveWallets, WS!Kinds
<1>2. WS!ClaimsHaveWallets'
  BY DEF WS!WalletInv, WS!ClaimsHaveWallets, WS!TypeOK
<1>3. WS!ClaimsHaveSessions'
  BY DEF WS!WalletInv, WS!ClaimsHaveSessions, WS!ShowsTheWallet, WS!ClaimsHaveWallets, WS!TypeOK, WS!NoneIsNobody
<1>4. WS!ShowsTheWallet'
  BY DEF WS!WalletInv, WS!ShowsTheWallet, WS!ClaimsHaveSessions, WS!ClaimsHaveWallets, WS!TypeOK, WS!NoneIsNobody, WS!Kinds
<1>5. WS!LoadingEnds'
  BY DEF WS!WalletInv, WS!LoadingEnds, WS!TypeOK, WS!ClaimsHaveWallets, WS!NoneIsNobody
<1> QED BY <1>1, <1>2, <1>3, <1>4, <1>5 DEF WS!WalletInv

\* A check reads the session.
LEMMA CheckReadsKept ==
  ASSUME WS!NoneIsNobody, WS!WalletInv, NEW c \in v5, WS!CheckReads(c)
  PROVE  WS!WalletInv'
<1> USE DEF WS!CheckReads, WS!Forgets, WS!SignedOut, WS!Empty, WS!Claimed, WS!Both, WS!Check
<1>1. WS!TypeOK'
  BY DEF WS!WalletInv, WS!TypeOK, WS!ClaimsHaveWallets, WS!Kinds
<1>2. WS!ClaimsHaveWallets'
  BY DEF WS!WalletInv, WS!ClaimsHaveWallets, WS!TypeOK
<1>3. WS!ClaimsHaveSessions'
  BY DEF WS!WalletInv, WS!ClaimsHaveSessions, WS!ShowsTheWallet, WS!ClaimsHaveWallets, WS!TypeOK, WS!NoneIsNobody
<1>4. WS!ShowsTheWallet'
  <2> SUFFICES ASSUME ~v9' PROVE WS!ShowsTheWallet'
    BY DEF WS!ShowsTheWallet
  <2>1. ~v9 /\ (v2 # None => c.of = v1)
    OBVIOUS
  <2>2. v3.address # None => v2 # None /\ v3.authenticated /\ (v1 = None => v7)
    BY <2>1 DEF WS!WalletInv, WS!ShowsTheWallet, WS!ClaimsHaveSessions
  <2>3. CASE v2 = None
    BY <2>1, <2>2, <2>3 DEF WS!WalletInv, WS!ShowsTheWallet, WS!TypeOK
  <2>4. CASE v2 # None /\ c.of = None
    <3>1. /\ v3'.address = None /\ v3'.authenticated /\ UNCHANGED <<v2, v4, v7>>
      BY <2>4 DEF WS!WalletInv, WS!TypeOK
    <3>2. v7 \/ v4 = [k \in WS!Kinds |-> None]
      BY <2>1, <2>2, <2>4 DEF WS!WalletInv, WS!ShowsTheWallet
    <3> QED BY <2>4, <3>1, <3>2 DEF WS!ShowsTheWallet
  <2>5. CASE v2 # None /\ c.of # None
    <3>1. UNCHANGED <<v1, v2, v3, v4, v6, v7, v8>> /\ [c EXCEPT !.step = "claim"] \in v5'
          /\ \A d \in v5 : d \in v5' \/ d = c
      BY <2>5
    <3>2. [c EXCEPT !.step = "claim"].of = v1
      BY <2>1, <2>5 DEF WS!WalletInv, WS!TypeOK
    <3>3. \E d \in v5' : d.of = v1
      BY <3>1, <3>2
    <3> HIDE DEF WS!CheckReads
    <3> QED BY <2>1, <3>1, <3>3 DEF WS!WalletInv, WS!ShowsTheWallet
  <2> QED BY <2>3, <2>4, <2>5
<1>5. WS!LoadingEnds'
  BY DEF WS!WalletInv, WS!LoadingEnds, WS!TypeOK, WS!ClaimsHaveWallets, WS!NoneIsNobody
<1> QED BY <1>1, <1>2, <1>3, <1>4, <1>5 DEF WS!WalletInv

\* A check shows what it read, unless another came after it.
LEMMA CheckShowsKept ==
  ASSUME WS!NoneIsNobody, WS!WalletInv, NEW c \in v5, NEW accepted \in BOOLEAN, WS!CheckShows(c, accepted)
  PROVE  WS!WalletInv'
<1> USE DEF WS!CheckShows, WS!Forgets, WS!SignedOut, WS!Empty, WS!Claimed, WS!Both, WS!Check
<1>1. WS!TypeOK'
  BY DEF WS!WalletInv, WS!TypeOK, WS!ClaimsHaveWallets, WS!Kinds
<1>2. WS!ClaimsHaveWallets'
  BY DEF WS!WalletInv, WS!ClaimsHaveWallets, WS!TypeOK
<1>3. ~v9' => /\ v1 # None /\ v2' = [claim |-> v1] /\ v2' # None
              /\ v3'.address = v1 /\ v3'.authenticated
              /\ \A k \in WS!Kinds : \E r \in v8' : r.kind = k
  <2> SUFFICES ASSUME ~v9'
               PROVE  /\ v1 # None /\ v2' = [claim |-> v1] /\ v2' # None
                      /\ v3'.address = v1 /\ v3'.authenticated
                      /\ \A k \in WS!Kinds : \E r \in v8' : r.kind = k
    OBVIOUS
  <2>1. ~v9 /\ accepted /\ c.of = v1 /\ v1 \in X /\ v1 # None
    BY DEF WS!WalletInv, WS!ClaimsHaveWallets, WS!TypeOK, WS!NoneIsNobody
  <2>2. v2 # None
    BY <2>1 DEF WS!WalletInv, WS!ClaimsHaveSessions
  <2>3. v2' = [claim |-> v1] /\ v2' # None
    BY <2>1, <2>2 DEF WS!NoneIsNobody
  <2>4. v3'.address = v1 /\ v3'.authenticated
    BY <2>1 DEF WS!WalletInv, WS!TypeOK
  <2>5. \A k \in WS!Kinds : [kind |-> k, owner |-> v1] \in v8'
    BY <2>1
  <2> QED BY <2>1, <2>3, <2>4, <2>5
<1>4. WS!ClaimsHaveSessions'
  BY <1>3 DEF WS!ClaimsHaveSessions
<1>5. WS!ShowsTheWallet'
  <2> SUFFICES ASSUME ~v9' PROVE WS!ShowsTheWallet'
    BY DEF WS!ShowsTheWallet
  <2>1. UNCHANGED v1 /\ v2'.claim = v1
    BY <1>3
  <2>2. "canvases" \in WS!Kinds
    BY DEF WS!Kinds
  <2> QED BY <1>3, <2>1, <2>2 DEF WS!ShowsTheWallet
<1>6. WS!LoadingEnds'
  BY DEF WS!WalletInv, WS!LoadingEnds, WS!TypeOK, WS!ClaimsHaveWallets, WS!NoneIsNobody
<1> QED BY <1>1, <1>2, <1>4, <1>5, <1>6 DEF WS!WalletInv

\* A check fails.
LEMMA CheckFailsKept ==
  ASSUME WS!NoneIsNobody, WS!WalletInv, NEW c \in v5, WS!CheckFails(c)
  PROVE  WS!WalletInv'
<1> USE DEF WS!CheckFails, WS!Forgets, WS!SignedOut, WS!Empty, WS!Claimed, WS!Both, WS!Check
<1>1. WS!TypeOK'
  BY DEF WS!WalletInv, WS!TypeOK, WS!ClaimsHaveWallets, WS!Kinds
<1>2. WS!ClaimsHaveWallets'
  BY DEF WS!WalletInv, WS!ClaimsHaveWallets, WS!TypeOK
<1>3. WS!ClaimsHaveSessions'
  BY DEF WS!WalletInv, WS!ClaimsHaveSessions, WS!ShowsTheWallet, WS!ClaimsHaveWallets, WS!TypeOK, WS!NoneIsNobody
<1>4. WS!ShowsTheWallet'
  BY DEF WS!WalletInv, WS!ShowsTheWallet, WS!ClaimsHaveSessions, WS!ClaimsHaveWallets, WS!TypeOK, WS!NoneIsNobody, WS!Kinds
<1>5. WS!LoadingEnds'
  BY DEF WS!WalletInv, WS!LoadingEnds, WS!TypeOK, WS!ClaimsHaveWallets, WS!NoneIsNobody
<1> QED BY <1>1, <1>2, <1>3, <1>4, <1>5 DEF WS!WalletInv

\* The editor asks for a signature.
LEMMA SignInKept ==
  ASSUME WS!NoneIsNobody, WS!WalletInv, WS!SignIn
  PROVE  WS!WalletInv'
<1> USE DEF WS!SignIn, WS!Forgets, WS!SignedOut, WS!Empty, WS!Claimed, WS!Both, WS!Check
<1>1. WS!TypeOK'
  BY DEF WS!WalletInv, WS!TypeOK, WS!ClaimsHaveWallets, WS!Kinds
<1>2. WS!ClaimsHaveWallets'
  BY DEF WS!WalletInv, WS!ClaimsHaveWallets, WS!TypeOK
<1>3. WS!ClaimsHaveSessions'
  BY DEF WS!WalletInv, WS!ClaimsHaveSessions, WS!ShowsTheWallet, WS!ClaimsHaveWallets, WS!TypeOK, WS!NoneIsNobody
<1>4. WS!ShowsTheWallet'
  BY DEF WS!WalletInv, WS!ShowsTheWallet, WS!ClaimsHaveSessions, WS!ClaimsHaveWallets, WS!TypeOK, WS!NoneIsNobody, WS!Kinds
<1>5. WS!LoadingEnds'
  BY DEF WS!WalletInv, WS!LoadingEnds, WS!TypeOK, WS!ClaimsHaveWallets, WS!NoneIsNobody
<1> QED BY <1>1, <1>2, <1>3, <1>4, <1>5 DEF WS!WalletInv

\* The wallet signs.
LEMMA SignatureGivenKept ==
  ASSUME WS!NoneIsNobody, WS!WalletInv, WS!SignatureGiven
  PROVE  WS!WalletInv'
<1> USE DEF WS!SignatureGiven, WS!Forgets, WS!SignedOut, WS!Empty, WS!Claimed, WS!Both, WS!Check
<1>1. WS!TypeOK'
  BY DEF WS!WalletInv, WS!TypeOK, WS!ClaimsHaveWallets, WS!Kinds
<1>2. WS!ClaimsHaveWallets'
  BY DEF WS!WalletInv, WS!ClaimsHaveWallets, WS!TypeOK
<1>3. WS!ClaimsHaveSessions'
  BY DEF WS!WalletInv, WS!ClaimsHaveSessions, WS!ShowsTheWallet, WS!ClaimsHaveWallets, WS!TypeOK, WS!NoneIsNobody
<1>4. WS!ShowsTheWallet'
  BY DEF WS!WalletInv, WS!ShowsTheWallet, WS!ClaimsHaveSessions, WS!ClaimsHaveWallets, WS!TypeOK, WS!NoneIsNobody, WS!Kinds
<1>5. WS!LoadingEnds'
  BY DEF WS!WalletInv, WS!LoadingEnds, WS!TypeOK, WS!ClaimsHaveWallets, WS!NoneIsNobody
<1> QED BY <1>1, <1>2, <1>3, <1>4, <1>5 DEF WS!WalletInv

\* The server answers a login.
LEMMA SignedInKept ==
  ASSUME WS!NoneIsNobody, WS!WalletInv, NEW accepted \in BOOLEAN, WS!SignedIn(accepted)
  PROVE  WS!WalletInv'
<1> USE DEF WS!SignedIn, WS!Forgets, WS!SignedOut, WS!Empty, WS!Claimed, WS!Both, WS!Check
<1>1. WS!TypeOK'
  BY DEF WS!WalletInv, WS!TypeOK, WS!ClaimsHaveWallets, WS!Kinds
<1>2. WS!ClaimsHaveWallets'
  BY DEF WS!WalletInv, WS!ClaimsHaveWallets, WS!TypeOK
<1>3. ~v9' => /\ v1 # None /\ v2' = [claim |-> v1] /\ v2' # None
              /\ v3'.address = v1 /\ v3'.authenticated
              /\ \A k \in WS!Kinds : \E r \in v8' : r.kind = k
  <2> SUFFICES ASSUME ~v9'
               PROVE  /\ v1 # None /\ v2' = [claim |-> v1] /\ v2' # None
                      /\ v3'.address = v1 /\ v3'.authenticated
                      /\ \A k \in WS!Kinds : \E r \in v8' : r.kind = k
    OBVIOUS
  <2>1. ~v9 /\ accepted /\ v6.of = v1 /\ v1 \in X /\ v1 # None
    BY DEF WS!WalletInv, WS!ClaimsHaveWallets, WS!TypeOK, WS!NoneIsNobody
  <2>2. v2 # None
    BY <2>1 DEF WS!WalletInv, WS!ClaimsHaveSessions
  <2>3. v2' = [claim |-> v1] /\ v2' # None
    BY <2>1, <2>2 DEF WS!NoneIsNobody
  <2>4. v3'.address = v1 /\ v3'.authenticated
    BY <2>1 DEF WS!WalletInv, WS!TypeOK
  <2>5. \A k \in WS!Kinds : [kind |-> k, owner |-> v1] \in v8'
    BY <2>1
  <2> QED BY <2>1, <2>3, <2>4, <2>5
<1>4. WS!ClaimsHaveSessions'
  BY <1>3 DEF WS!ClaimsHaveSessions
<1>5. WS!ShowsTheWallet'
  <2> SUFFICES ASSUME ~v9' PROVE WS!ShowsTheWallet'
    BY DEF WS!ShowsTheWallet
  <2>1. UNCHANGED v1 /\ v2'.claim = v1
    BY <1>3
  <2>2. "canvases" \in WS!Kinds
    BY DEF WS!Kinds
  <2> QED BY <1>3, <2>1, <2>2 DEF WS!ShowsTheWallet
<1>6. WS!LoadingEnds'
  BY DEF WS!WalletInv, WS!LoadingEnds, WS!TypeOK, WS!ClaimsHaveWallets, WS!NoneIsNobody
<1> QED BY <1>1, <1>2, <1>4, <1>5, <1>6 DEF WS!WalletInv

\* A login fails or is refused.
LEMMA SignInFailsKept ==
  ASSUME WS!NoneIsNobody, WS!WalletInv, NEW refused \in BOOLEAN, WS!SignInFails(refused)
  PROVE  WS!WalletInv'
<1> USE DEF WS!SignInFails, WS!Forgets, WS!SignedOut, WS!Empty, WS!Claimed, WS!Both, WS!Check
<1>1. WS!TypeOK'
  BY DEF WS!WalletInv, WS!TypeOK, WS!ClaimsHaveWallets, WS!Kinds
<1>2. WS!ClaimsHaveWallets'
  BY DEF WS!WalletInv, WS!ClaimsHaveWallets, WS!TypeOK
<1>3. WS!ClaimsHaveSessions'
  BY DEF WS!WalletInv, WS!ClaimsHaveSessions, WS!ShowsTheWallet, WS!ClaimsHaveWallets, WS!TypeOK, WS!NoneIsNobody
<1>4. WS!ShowsTheWallet'
  BY DEF WS!WalletInv, WS!ShowsTheWallet, WS!ClaimsHaveSessions, WS!ClaimsHaveWallets, WS!TypeOK, WS!NoneIsNobody, WS!Kinds
<1>5. WS!LoadingEnds'
  BY DEF WS!WalletInv, WS!LoadingEnds, WS!TypeOK, WS!ClaimsHaveWallets, WS!NoneIsNobody
<1> QED BY <1>1, <1>2, <1>3, <1>4, <1>5 DEF WS!WalletInv

\* The editor signs out.
LEMMA SignOutKept ==
  ASSUME WS!NoneIsNobody, WS!WalletInv, WS!SignOut
  PROVE  WS!WalletInv'
<1> USE DEF WS!SignOut, WS!Forgets, WS!SignedOut, WS!Empty, WS!Claimed, WS!Both, WS!Check
<1>1. WS!TypeOK'
  BY DEF WS!WalletInv, WS!TypeOK, WS!ClaimsHaveWallets, WS!Kinds
<1>2. WS!ClaimsHaveWallets'
  BY DEF WS!WalletInv, WS!ClaimsHaveWallets, WS!TypeOK
<1>3. WS!ClaimsHaveSessions'
  BY DEF WS!WalletInv, WS!ClaimsHaveSessions, WS!ShowsTheWallet, WS!ClaimsHaveWallets, WS!TypeOK, WS!NoneIsNobody
<1>4. WS!ShowsTheWallet'
  BY DEF WS!WalletInv, WS!ShowsTheWallet, WS!ClaimsHaveSessions, WS!ClaimsHaveWallets, WS!TypeOK, WS!NoneIsNobody, WS!Kinds
<1>5. WS!LoadingEnds'
  BY DEF WS!WalletInv, WS!LoadingEnds, WS!TypeOK, WS!ClaimsHaveWallets, WS!NoneIsNobody
<1> QED BY <1>1, <1>2, <1>3, <1>4, <1>5 DEF WS!WalletInv

\* The server answers that the session ended.
LEMMA SignedOffKept ==
  ASSUME WS!NoneIsNobody, WS!WalletInv, NEW ended \in BOOLEAN, WS!SignedOff(ended)
  PROVE  WS!WalletInv'
<1> USE DEF WS!SignedOff, WS!Forgets, WS!SignedOut, WS!Empty, WS!Claimed, WS!Both, WS!Check
<1>1. WS!TypeOK'
  BY DEF WS!WalletInv, WS!TypeOK, WS!ClaimsHaveWallets, WS!Kinds
<1>2. WS!ClaimsHaveWallets'
  BY DEF WS!WalletInv, WS!ClaimsHaveWallets, WS!TypeOK
<1>3. WS!ClaimsHaveSessions'
  BY DEF WS!WalletInv, WS!ClaimsHaveSessions, WS!ShowsTheWallet, WS!ClaimsHaveWallets, WS!TypeOK, WS!NoneIsNobody
<1>4. WS!ShowsTheWallet'
  BY DEF WS!WalletInv, WS!ShowsTheWallet, WS!ClaimsHaveSessions, WS!ClaimsHaveWallets, WS!TypeOK, WS!NoneIsNobody, WS!Kinds
<1>5. WS!LoadingEnds'
  BY DEF WS!WalletInv, WS!LoadingEnds, WS!TypeOK, WS!ClaimsHaveWallets, WS!NoneIsNobody
<1> QED BY <1>1, <1>2, <1>3, <1>4, <1>5 DEF WS!WalletInv

\* A list is read again.
LEMMA AgainKept ==
  ASSUME WS!NoneIsNobody, WS!WalletInv, NEW k \in WS!Kinds, WS!Again(k)
  PROVE  WS!WalletInv'
<1> USE DEF WS!Again, WS!Forgets, WS!SignedOut, WS!Empty, WS!Claimed, WS!Both, WS!Check
<1>1. WS!TypeOK'
  BY DEF WS!WalletInv, WS!TypeOK, WS!ClaimsHaveWallets, WS!Kinds
<1>2. WS!ClaimsHaveWallets'
  BY DEF WS!WalletInv, WS!ClaimsHaveWallets, WS!TypeOK
<1>3. WS!ClaimsHaveSessions'
  BY DEF WS!WalletInv, WS!ClaimsHaveSessions, WS!ShowsTheWallet, WS!ClaimsHaveWallets, WS!TypeOK, WS!NoneIsNobody
<1>4. WS!ShowsTheWallet'
  BY DEF WS!WalletInv, WS!ShowsTheWallet, WS!ClaimsHaveSessions, WS!ClaimsHaveWallets, WS!TypeOK, WS!NoneIsNobody, WS!Kinds
<1>5. WS!LoadingEnds'
  BY DEF WS!WalletInv, WS!LoadingEnds, WS!TypeOK, WS!ClaimsHaveWallets, WS!NoneIsNobody
<1> QED BY <1>1, <1>2, <1>3, <1>4, <1>5 DEF WS!WalletInv

\* A list is answered; only the newest read of it shows.
LEMMA AnsweredKept ==
  ASSUME WS!NoneIsNobody, WS!WalletInv, NEW r \in v8, WS!Answered(r)
  PROVE  WS!WalletInv'
<1> USE DEF WS!Answered, WS!Forgets, WS!SignedOut, WS!Empty, WS!Claimed, WS!Both, WS!Check
<1>1. WS!TypeOK'
  BY DEF WS!WalletInv, WS!TypeOK, WS!ClaimsHaveWallets, WS!Kinds
<1>2. WS!ClaimsHaveWallets'
  BY DEF WS!WalletInv, WS!ClaimsHaveWallets, WS!TypeOK
<1>3. WS!ClaimsHaveSessions'
  BY DEF WS!WalletInv, WS!ClaimsHaveSessions, WS!ShowsTheWallet, WS!ClaimsHaveWallets, WS!TypeOK, WS!NoneIsNobody
<1>4. WS!ShowsTheWallet'
  BY DEF WS!WalletInv, WS!ShowsTheWallet, WS!ClaimsHaveSessions, WS!ClaimsHaveWallets, WS!TypeOK, WS!NoneIsNobody, WS!Kinds
<1>5. WS!LoadingEnds'
  BY DEF WS!WalletInv, WS!LoadingEnds, WS!TypeOK, WS!ClaimsHaveWallets, WS!NoneIsNobody
<1> QED BY <1>1, <1>2, <1>3, <1>4, <1>5 DEF WS!WalletInv

\* A read of a list fails.
LEMMA ReadFailsKept ==
  ASSUME WS!NoneIsNobody, WS!WalletInv, NEW r \in v8, WS!ReadFails(r)
  PROVE  WS!WalletInv'
<1> USE DEF WS!ReadFails, WS!Forgets, WS!SignedOut, WS!Empty, WS!Claimed, WS!Both, WS!Check
<1>1. WS!TypeOK'
  BY DEF WS!WalletInv, WS!TypeOK, WS!ClaimsHaveWallets, WS!Kinds
<1>2. WS!ClaimsHaveWallets'
  BY DEF WS!WalletInv, WS!ClaimsHaveWallets, WS!TypeOK
<1>3. WS!ClaimsHaveSessions'
  BY DEF WS!WalletInv, WS!ClaimsHaveSessions, WS!ShowsTheWallet, WS!ClaimsHaveWallets, WS!TypeOK, WS!NoneIsNobody
<1>4. WS!ShowsTheWallet'
  BY DEF WS!WalletInv, WS!ShowsTheWallet, WS!ClaimsHaveSessions, WS!ClaimsHaveWallets, WS!TypeOK, WS!NoneIsNobody, WS!Kinds
<1>5. WS!LoadingEnds'
  BY DEF WS!WalletInv, WS!LoadingEnds, WS!TypeOK, WS!ClaimsHaveWallets, WS!NoneIsNobody
<1> QED BY <1>1, <1>2, <1>3, <1>4, <1>5 DEF WS!WalletInv

\* Every step of the login page keeps its invariant.
LEMMA WalletsKeep ==
  ASSUME WS!NoneIsNobody, WS!WalletInv, [WS!Next]_(WS!vars)
  PROVE  WS!WalletInv'
<1>1. CASE UNCHANGED WS!vars
  BY <1>1 DEF WS!vars, WS!WalletInv, WS!TypeOK, WS!ClaimsHaveWallets, WS!ClaimsHaveSessions,
     WS!ShowsTheWallet, WS!LoadingEnds
<1>2. CASE WS!Next
  BY <1>2, ConnectsKeeps, SessionEndsKept, CheckReadsKept, CheckShowsKept, CheckFailsKept,
     SignInKept, SignatureGivenKept, SignedInKept, SignInFailsKept, SignOutKept, SignedOffKept,
     AgainKept, AnsweredKept, ReadFailsKept DEF WS!Next
<1> QED BY <1>1, <1>2

\* At the start nobody is connected.
LEMMA WalletsBegin ==
  ASSUME WS!Init
  PROVE  WS!WalletInv
<1> USE DEF WS!Init, WS!SignedOut, WS!Empty
<1>1. WS!Check(None) \in [of : X \cup {None}, step : {"session", "claim"}]
      /\ WS!Check(None).step = "session"
  BY DEF WS!Check
<1>2. v2 \in {None} \cup [claim : X \cup {None}]
  <2>1. \A w \in X : w \in X \cup {None}
    OBVIOUS
  <2> QED BY <2>1
<1>3. v3.address = None /\ ~v3.authenticated /\ v3.loading /\ ~v3.loaded
      /\ v3 \in [authenticated : BOOLEAN, loading : BOOLEAN, address : X \cup {None}, loaded : BOOLEAN]
  OBVIOUS
<1>4. WS!TypeOK
  BY <1>1, <1>2, <1>3 DEF WS!TypeOK
<1>5. WS!ClaimsHaveWallets /\ WS!ClaimsHaveSessions /\ WS!LoadingEnds
  BY <1>1, <1>3 DEF WS!ClaimsHaveWallets, WS!ClaimsHaveSessions, WS!LoadingEnds
<1>6. WS!ShowsTheWallet
  BY <1>3 DEF WS!ShowsTheWallet
<1> QED BY <1>4, <1>5, <1>6 DEF WS!WalletInv

-----------------------------------------------------------------------------
(* The page of a Maker (MF): v1 the link, v2 the account, v3 the phase, v4   *)
(* the choice, v5 editing, v6 the mandate shown, v7 refreshing, v8 what was  *)
(* restored, v9 .. v13 the requests under way, v14 the mandates made, v15    *)
(* whether an answer went astray.                                            *)

MF == INSTANCE MakerFlow WITH
     Wallets <- X, Strategies <- Z, Mandates <- W, Existing <- Z, MaxRequests <- N - 1,
     link <- v1, account <- v2, phase <- v3, selected <- v4, editing <- v5, mandate <- v6,
     refreshing <- v7, restored <- v8, strategyLoad <- v9, mandateLoad <- v10, refreshes <- v11,
     confirming <- v12, submits <- v13, made <- v14, stray <- v15

\* A link is to a strategy, to a mandate that was made, or to neither.
LEMMA LinkIsOne ==
  ASSUME MF!NoneIsNoChoice, NEW l \in MF!Links
  PROVE  /\ l = [strategy |-> l.strategy, mandate |-> l.mandate]
         /\ l.strategy \in Z \cup {None} /\ l.mandate \in W \cup {None}
         /\ l.mandate # None => l.strategy = None /\ MF!Known(l.mandate)
BY DEF MF!Links, MF!Known

\* Its types hold while what is made, linked and asked for stays.
LEMMA PageTypesStay ==
  ASSUME MF!PageInv, UNCHANGED <<v1, v2, v14>>,
         v3' \in {"choose", "activate", "limits", "review", "submitting", "monitor"},
         v4' \in MF!Choices \cup {None}, v5' \in BOOLEAN, v6' = None \/ MF!Known(v6'),
         v7' \in BOOLEAN, v9' \in {None, v9}, v10' \in {None, v10},
         \A m \in v11' : MF!Known(m), v12' \subseteq MF!Choices,
         v13' \subseteq [maker : X, of : MF!Choices, under : W \cup {None}], v15' \in BOOLEAN
  PROVE  MF!TypeOK' /\ MF!PageTypes'
<1>1. MF!Links' = MF!Links
  BY DEF MF!Links
<1>2. MF!TypeOK'
  BY <1>1 DEF MF!PageInv, MF!TypeOK, MF!PageTypes, MF!Known
<1>3. MF!PageTypes'
  BY DEF MF!PageInv, MF!PageTypes, MF!Known
<1> QED BY <1>2, <1>3

\* The page has loaded a strategy.
LEMMA StrategyLoadedKeeps ==
  ASSUME MF!NoneIsNoChoice, MF!PageInv, NEW executable \in BOOLEAN, MF!StrategyLoaded(executable)
  PROVE  MF!PageInv'
<1>1. v9 \in [strategy : Z, wallet : X] /\ v9.strategy = v1.strategy /\ v9.wallet = v2.active
  BY DEF MF!StrategyLoaded, MF!PageInv, MF!TypeOK, MF!PageTypes, MF!Asked
<1>2. PICK f : f = MF!Choice(v9.strategy, v9.wallet, None, executable)
  OBVIOUS
<1>3. /\ f \in MF!Choices /\ f.wallet = v2.active /\ f.mandate = None /\ f.ready = executable
      /\ f # None
  BY <1>1, <1>2 DEF MF!Choice, MF!Choices, MF!NoneIsNoChoice
<1>4. v4' = f /\ v9' = None /\ v3' = (IF executable THEN "limits" ELSE "activate")
      /\ UNCHANGED <<v1, v2, v5, v6, v7, v8, v10, v11, v12, v13, v14, v15>>
  BY <1>2 DEF MF!StrategyLoaded
<1>5. v1.strategy # None
  BY <1>1 DEF MF!NoneIsNoChoice
<1>6. MF!TypeOK' /\ MF!PageTypes'
  BY <1>3, <1>4, PageTypesStay DEF MF!PageInv, MF!TypeOK, MF!PageTypes, MF!Known
<1>7. MF!Asked' /\ MF!FoundForWallet'
  BY <1>3, <1>4, <1>5 DEF MF!Asked, MF!FoundForWallet
<1>8. MF!RefreshEnds' /\ MF!SealedForItsMaker'
  BY <1>4 DEF MF!PageInv, MF!RefreshEnds, MF!SealedForItsMaker, MF!Restored
<1>9. v15' \/ MF!ShownWhole'
  BY <1>3, <1>4 DEF MF!PageInv, MF!ShownWhole, MF!Known
<1> QED BY <1>6, <1>7, <1>8, <1>9 DEF MF!PageInv

\* A strategy that cannot be read, a mandate read or not.
LEMMA LoadEndsKeeps ==
  ASSUME MF!NoneIsNoChoice, MF!PageInv, MF!StrategyFails \/ MF!MandateLoaded \/ MF!MandateFails
  PROVE  MF!PageInv'
<1>1. MF!TypeOK /\ MF!PageTypes
  BY DEF MF!PageInv
<1>2. CASE MF!StrategyFails
  <2>1. v9' = None /\ UNCHANGED <<v1, v2, v3, v4, v5, v6, v7, v8, v10, v11, v12, v13, v14, v15>>
    BY <1>2 DEF MF!StrategyFails
  <2>2. MF!TypeOK' /\ MF!PageTypes'
    BY <1>1, <2>1, PageTypesStay DEF MF!TypeOK, MF!PageTypes, MF!Known
  <2>3. MF!Asked' /\ MF!FoundForWallet'
    BY <2>1 DEF MF!PageInv, MF!Asked, MF!FoundForWallet
  <2>4. MF!RefreshEnds' /\ MF!SealedForItsMaker'
    BY <2>1 DEF MF!PageInv, MF!RefreshEnds, MF!SealedForItsMaker, MF!Restored
  <2>5. v15' \/ MF!ShownWhole'
    BY <2>1 DEF MF!PageInv, MF!ShownWhole, MF!Known
  <2> QED BY <2>2, <2>3, <2>4, <2>5 DEF MF!PageInv
<1>3. CASE MF!MandateLoaded
  <2>1. /\ v6' = v10 /\ v4' = None /\ v3' = "monitor" /\ v10' = None /\ v7' = FALSE
        /\ UNCHANGED <<v1, v2, v5, v9, v11, v12, v13, v14, v15>>
    BY <1>3 DEF MF!MandateLoaded
  <2>2. v1.mandate = v10 /\ v10 # None /\ MF!Known(v10)
    BY <1>1, <1>3, LinkIsOne DEF MF!MandateLoaded, MF!TypeOK
  <2>3. MF!TypeOK' /\ MF!PageTypes'
    BY <1>1, <2>1, <2>2, PageTypesStay DEF MF!TypeOK, MF!PageTypes, MF!Known
  <2>4. MF!Asked' /\ MF!FoundForWallet'
    BY <2>1 DEF MF!PageInv, MF!Asked, MF!FoundForWallet
  <2>5. MF!RefreshEnds' /\ MF!SealedForItsMaker'
    BY <2>1 DEF MF!PageInv, MF!RefreshEnds, MF!SealedForItsMaker
  <2>6. v15' \/ MF!ShownWhole'
    BY <2>1, <2>2 DEF MF!PageInv, MF!ShownWhole, MF!Known
  <2> QED BY <2>3, <2>4, <2>5, <2>6 DEF MF!PageInv
<1>4. CASE MF!MandateFails
  <2>1. v10' = None /\ v7' = FALSE /\ UNCHANGED <<v1, v2, v3, v4, v5, v6, v8, v9, v11, v12, v13, v14, v15>>
    BY <1>4 DEF MF!MandateFails
  <2>2. MF!TypeOK' /\ MF!PageTypes'
    BY <1>1, <2>1, PageTypesStay DEF MF!TypeOK, MF!PageTypes, MF!Known
  <2>3. MF!Asked' /\ MF!FoundForWallet'
    BY <2>1 DEF MF!PageInv, MF!Asked, MF!FoundForWallet
  <2>4. MF!RefreshEnds' /\ MF!SealedForItsMaker'
    BY <2>1 DEF MF!PageInv, MF!RefreshEnds, MF!SealedForItsMaker
  <2>5. v15' \/ MF!ShownWhole'
    BY <2>1 DEF MF!PageInv, MF!ShownWhole, MF!Known
  <2> QED BY <2>2, <2>3, <2>4, <2>5 DEF MF!PageInv
<1> QED BY <1>2, <1>3, <1>4

\* The effects follow the address and the account: what is chosen and shown for what was
\* linked before goes, or stays with what it was chosen for.
LEMMA MovesKeep ==
  ASSUME MF!NoneIsNoChoice, MF!PageInv, NEW l \in MF!Links', NEW a \in MF!Accounts, NEW s,
         MF!Moves(l, a, s), UNCHANGED <<v11, v12, v15>>, v13' \subseteq v13,
         v14' \in [W -> MF!Signings \cup {None}],
         \A m \in W : v14[m] # None => v14'[m] = v14[m],
         \/ s.phase = v3 /\ s.mandate = v6 /\ s.editing = v5
         \/ /\ s.phase = "monitor" /\ s.editing = FALSE /\ s.mandate = l.mandate
            /\ l.mandate \in W /\ v14'[l.mandate] # None /\ l # v1
  PROVE  MF!PageInv'
<1>1. MF!TypeOK /\ MF!PageTypes /\ MF!Asked /\ MF!FoundForWallet /\ MF!RefreshEnds
  BY DEF MF!PageInv
<1>2. /\ l.strategy \in Z \cup {None} /\ l.mandate \in W \cup {None}
      /\ (l.mandate # None => l.strategy = None /\ MF!Known(l.mandate)')
      /\ v1.strategy \in Z \cup {None} /\ v1.mandate \in W \cup {None}
      /\ (v1.mandate # None => v1.strategy = None)
      /\ l = [strategy |-> l.strategy, mandate |-> l.mandate]
      /\ v1 = [strategy |-> v1.strategy, mandate |-> v1.mandate]
  <2>1. /\ l = [strategy |-> l.strategy, mandate |-> l.mandate]
        /\ l.strategy \in Z \cup {None} /\ l.mandate \in W \cup {None}
        /\ (l.mandate # None => l.strategy = None /\ MF!Known(l.mandate)')
    BY DEF MF!Links, MF!Known, MF!NoneIsNoChoice
  <2>2. v1 \in MF!Links
    BY <1>1 DEF MF!TypeOK
  <2> QED BY <2>1, <2>2, LinkIsOne
<1>3. /\ a \in [linked : SUBSET X, active : X \cup {None}] /\ (a.active # None => a.active \in a.linked)
      /\ v2 \in [linked : SUBSET X, active : X \cup {None}] /\ (v2.active # None => v2.active \in v2.linked)
  BY <1>1 DEF MF!TypeOK, MF!Accounts
<1>4. v1' = l /\ v2' = a
  BY DEF MF!Moves
<1>5. \/ /\ l.strategy = v1.strategy /\ a.active = v2.active /\ v9' = v9 /\ v4' = v4
      \/ /\ l.strategy # None /\ a.active # None /\ v4' = None
         /\ v9' = [strategy |-> l.strategy, wallet |-> a.active]
      \/ /\ l.strategy = None \/ a.active = None
         /\ v9' = None /\ v4' = (IF l.strategy = None /\ v1.strategy # None THEN None ELSE v4)
  BY DEF MF!Moves, MF!FollowsStrategy, MF!Opening
<1>6. \/ /\ l = v1 /\ a.linked = v2.linked /\ v6' = s.mandate /\ v5' = s.editing
         /\ UNCHANGED <<v7, v8, v10>>
      \/ /\ l # v1 \/ a.linked # v2.linked
         /\ v6' = (IF l.mandate = None \/ ~MF!SignedIn(a) THEN None ELSE s.mandate)
         /\ v5' = (l.mandate # None /\ s.editing)
         /\ v8' = (IF l.mandate = None \/ ~MF!SignedIn(a) THEN None ELSE v8)
         /\ \/ /\ l.mandate # None /\ MF!SignedIn(a) /\ v10' = l.mandate /\ v7' = TRUE
            \/ /\ l.mandate = None \/ ~MF!SignedIn(a) \/ MF!Restored(l, a, v8)
               /\ v10' = None /\ v7' = (v7 /\ l.mandate # None)
  BY DEF MF!Moves, MF!FollowsMandate
<1>7. v3' \in {s.phase, "choose"}
      /\ (l.strategy = None /\ v1.strategy # None => v3' = "choose")
      /\ (l # v1 /\ l.mandate = None /\ l.strategy = None => v3' = "choose")
      /\ (l.mandate # None /\ ~MF!SignedIn(a) => v3' = "choose")
  BY DEF MF!Moves
<1>8. MF!TypeOK' /\ MF!PageTypes'
  <2>1. v1' \in MF!Links' /\ v2' \in MF!Accounts
    BY <1>4
  <2>2. v9' \in [strategy : Z, wallet : X] \cup {None} /\ (v9' # None => v9'.strategy = l.strategy)
    BY <1>1, <1>2, <1>3, <1>5 DEF MF!TypeOK, MF!PageTypes
  <2>3. v4' \in MF!Choices \cup {None}
    BY <1>1, <1>5 DEF MF!TypeOK
  <2>4. v5' \in BOOLEAN /\ v7' \in BOOLEAN
    BY <1>1, <1>6 DEF MF!PageTypes
  <2>5. v6' = None \/ MF!Known(v6)'
    BY <1>1, <1>6 DEF MF!TypeOK, MF!Known
  <2>6. v10' # None => v10' = l.mandate
    BY <1>1, <1>6 DEF MF!TypeOK
  <2>7. v3' \in {"choose", "activate", "limits", "review", "submitting", "monitor"}
    BY <1>1, <1>7 DEF MF!TypeOK
  <2>8. \A m \in v11 : MF!Known(m)'
    BY <1>1 DEF MF!PageTypes, MF!Known
  <2>9. \A q \in v13' : q.maker \in X /\ q.of \in MF!Choices
    BY <1>1 DEF MF!TypeOK
  <2>10. MF!PageTypes'
    BY <1>1, <2>2, <2>4, <2>8 DEF MF!PageTypes, MF!Known
  <2>11. MF!TypeOK'
    BY <1>4, <2>1, <2>2, <2>3, <2>5, <2>6, <2>7, <2>9 DEF MF!TypeOK, MF!Known
  <2> QED BY <2>10, <2>11
<1>9. MF!Asked'
  BY <1>1, <1>3, <1>4, <1>5 DEF MF!Asked
<1>10. MF!FoundForWallet'
  BY <1>1, <1>4, <1>5 DEF MF!FoundForWallet
<1>11. MF!RefreshEnds'
  BY <1>1, <1>4, <1>6 DEF MF!RefreshEnds, MF!Restored, MF!SignedIn
<1>12. CASE v15
  <2>1. MF!SealedForItsMaker'
    BY <1>12 DEF MF!SealedForItsMaker
  <2> QED BY <1>8, <1>9, <1>10, <1>11, <1>12, <2>1 DEF MF!PageInv
<1>13. CASE ~v15
  <2>1. MF!ShownWhole /\ MF!SealedForItsMaker
    BY <1>13 DEF MF!PageInv
  <2>2. MF!SealedForItsMaker'
    BY <2>1, <1>13 DEF MF!SealedForItsMaker, MF!ShownWhole, MF!Known
  <2>3. l.mandate = None => v6' = None /\ v5' = FALSE
    BY <1>6, <2>1 DEF MF!ShownWhole
  <2>4. \A c \in v12 : c.mandate = None
    BY <2>1 DEF MF!ShownWhole
  <2>5. \A q \in v13' : q.of.mandate = None \/ MF!Known(q.of.mandate)'
    BY <2>1 DEF MF!ShownWhole, MF!Known
  <2>6. v4' # None /\ v3' = "activate" => v4'.mandate = None
    BY <1>5, <1>7, <2>1 DEF MF!ShownWhole
  <2>7. ASSUME v4' # None, v3' \in {"limits", "review", "submitting"}
        PROVE  /\ v4'.ready
               /\ \/ v4'.mandate = None
                  \/ v5' /\ v6' = v4'.mandate
                  \/ l.strategy # None /\ a.active = None
    <3>1. v4' = v4 /\ v3' = v3 /\ s.phase = v3 /\ s.mandate = v6 /\ s.editing = v5
      BY <1>5, <1>7, <2>7
    <3>2. v4.ready /\ (\/ v4.mandate = None
                       \/ v5 /\ v6 = v4.mandate
                       \/ v1.strategy # None /\ v2.active = None)
      BY <2>1, <2>7, <3>1 DEF MF!ShownWhole
    <3>3. CASE v4.mandate = None
      BY <3>1, <3>2, <3>3
    <3>4. CASE v1.strategy # None /\ v2.active = None
      <4>1. l.strategy # None
        BY <1>7, <2>7, <3>4
      <4>2. a.active = None
        BY <1>5, <2>7, <3>4, <4>1
      <4> QED BY <3>1, <3>2, <4>1, <4>2
    <3>5. CASE v4.mandate # None /\ v5 /\ v6 = v4.mandate
      <4>1. v1.mandate # None
        BY <2>1, <3>5 DEF MF!ShownWhole
      <4>2. CASE l = v1
        <5>1. l.mandate # None /\ MF!SignedIn(a)
          BY <1>7, <2>7, <4>1, <4>2
        <5>2. v5' /\ v6' = v6
          BY <1>6, <3>1, <3>5, <5>1
        <5> QED BY <3>1, <3>2, <3>5, <5>2
      <4>3. CASE l # v1 /\ l.mandate # None
        <5>1. MF!SignedIn(a)
          BY <1>7, <2>7, <4>3
        <5>2. v5' /\ v6' = v6
          BY <1>6, <3>1, <3>5, <4>3, <5>1
        <5> QED BY <3>1, <3>2, <3>5, <5>2
      <4>4. CASE l # v1 /\ l.mandate = None
        <5>1. l.strategy # None /\ v1.strategy = None
          BY <1>2, <1>7, <2>7, <4>1, <4>4
        <5>2. a.active = None
          BY <1>5, <2>7, <5>1
        <5> QED BY <3>1, <3>2, <5>1, <5>2
      <4> QED BY <4>2, <4>3, <4>4
    <3> QED BY <3>2, <3>3, <3>4, <3>5
  <2>8. MF!ShownWhole'
    BY <1>4, <2>3, <2>4, <2>5, <2>6, <2>7 DEF MF!ShownWhole
  <2> QED BY <1>8, <1>9, <1>10, <1>11, <2>2, <2>8 DEF MF!PageInv
<1> QED BY <1>12, <1>13

\* The Maker follows a link or switches the account.
LEMMA FollowKeeps ==
  ASSUME MF!NoneIsNoChoice, MF!PageInv,
         \/ \E l \in MF!Links : MF!Follow(l)
         \/ \E a \in MF!Accounts : MF!Switch(a)
  PROVE  MF!PageInv'
<1>1. MF!TypeOK /\ MF!PageTypes
  BY DEF MF!PageInv
<1>2. PICK l, a : l \in MF!Links /\ a \in MF!Accounts /\ MF!Moves(l, a, MF!Now)
                  /\ UNCHANGED <<v11, v12, v13, v14, v15>>
  BY <1>1 DEF MF!Follow, MF!Switch, MF!TypeOK
<1>3. MF!Links' = MF!Links
  BY <1>2 DEF MF!Links
<1>4. PICK s : s = MF!Now
  OBVIOUS
<1>5. s.phase = v3 /\ s.mandate = v6 /\ s.editing = v5
  BY <1>4 DEF MF!Now
<1>6. v14' \in [W -> MF!Signings \cup {None}] /\ \A m \in W : v14[m] # None => v14'[m] = v14[m]
  BY <1>1, <1>2 DEF MF!PageTypes
<1> QED BY <1>2, <1>3, <1>4, <1>5, <1>6, MovesKeep

\* A mandate that was created is shown, and everything under way stays what it was.
LEMMA SubmittedKeeps ==
  ASSUME MF!NoneIsNoChoice, MF!PageInv, NEW q \in v13, NEW m \in W, MF!Submitted(q, m)
  PROVE  MF!PageInv'
<1>1. MF!TypeOK /\ MF!PageTypes
  BY DEF MF!PageInv
<1>2. PICK w : w = [maker |-> q.maker, strategy |-> q.of.strategy]
  OBVIOUS
<1>3. w \in MF!Signings /\ w # None
  BY <1>1, <1>2 DEF MF!TypeOK, MF!Choices, MF!Signings, MF!NoneIsNoChoice
<1>4. v14[m] = None /\ v14' = [v14 EXCEPT ![m] = w] /\ v13' \subseteq v13 /\ UNCHANGED <<v11, v12, v15>>
  BY <1>2 DEF MF!Submitted
<1>5. /\ v14' \in [W -> MF!Signings \cup {None}] /\ v14'[m] # None
      /\ \A n \in W : v14[n] # None => v14'[n] = v14[n]
  BY <1>1, <1>3, <1>4 DEF MF!PageTypes
<1>6. PICK l, s : l = [strategy |-> None, mandate |-> m]
                  /\ s = [phase |-> "monitor", mandate |-> m, editing |-> FALSE]
  OBVIOUS
<1>7. MF!Moves(l, v2, s)
  BY <1>6 DEF MF!Submitted
<1>8. l \in MF!Links'
  BY <1>5, <1>6 DEF MF!Links
<1>9. l # v1
  <2>1. v1 \in MF!Links /\ m # None
    BY <1>1 DEF MF!TypeOK, MF!NoneIsNoChoice
  <2> QED BY <1>4, <1>6, <2>1, LinkIsOne DEF MF!Known
<1>10. v2 \in MF!Accounts
  BY <1>1 DEF MF!TypeOK
<1>11. s.phase = "monitor" /\ s.editing = FALSE /\ s.mandate = l.mandate /\ l.mandate = m
  BY <1>6
<1> QED BY <1>4, <1>5, <1>7, <1>8, <1>9, <1>10, <1>11, MovesKeep

\* Between the limits, their review and the mandate.
LEMMA PagesGoKeep ==
  ASSUME MF!NoneIsNoChoice, MF!PageInv, MF!SavePolicy \/ MF!EditAgain \/ MF!Overview
  PROVE  MF!PageInv'
<1>1. /\ UNCHANGED <<v1, v2, v4, v6, v7, v8, v9, v10, v11, v12, v13, v14, v15>>
      /\ \/ v3 \in {"limits", "review"} /\ v3' \in {"limits", "review"} /\ v5' = v5
         \/ v3 = "limits" /\ v3' = "monitor" /\ v5' = FALSE
  BY DEF MF!SavePolicy, MF!EditAgain, MF!Overview, MF!Goes
<1>2. MF!TypeOK' /\ MF!PageTypes'
  BY <1>1, PageTypesStay DEF MF!PageInv, MF!TypeOK, MF!PageTypes, MF!Known
<1>3. MF!Asked' /\ MF!FoundForWallet'
  BY <1>1 DEF MF!PageInv, MF!Asked, MF!FoundForWallet
<1>4. MF!RefreshEnds' /\ MF!SealedForItsMaker'
  BY <1>1 DEF MF!PageInv, MF!RefreshEnds, MF!SealedForItsMaker, MF!Restored
<1>5. v15' \/ MF!ShownWhole'
  BY <1>1 DEF MF!PageInv, MF!ShownWhole, MF!Known
<1> QED BY <1>2, <1>3, <1>4, <1>5 DEF MF!PageInv

\* The page of the details comes back to a page that remembers nothing.
LEMMA DetailsKeeps ==
  ASSUME MF!NoneIsNoChoice, MF!PageInv, MF!Details
  PROVE  MF!PageInv'
<1>1. /\ v1' = MF!Nowhere /\ v3' = "choose" /\ v4' = None /\ v6' = None /\ v7' = FALSE
      /\ v8' = None /\ v9' = None /\ v10' = None /\ v11' = {} /\ v12' = {} /\ v13' = {}
      /\ ~v5 /\ UNCHANGED <<v2, v5, v14, v15>>
  BY DEF MF!Details
<1>2. v1' \in MF!Links' /\ v1'.mandate = None
  BY <1>1 DEF MF!Links, MF!Nowhere
<1>3. MF!TypeOK' /\ MF!PageTypes'
  BY <1>1, <1>2 DEF MF!PageInv, MF!TypeOK, MF!PageTypes
<1>4. MF!Asked' /\ MF!FoundForWallet' /\ MF!RefreshEnds' /\ MF!SealedForItsMaker'
  BY <1>1 DEF MF!Asked, MF!FoundForWallet, MF!RefreshEnds, MF!SealedForItsMaker
<1>5. MF!ShownWhole'
  BY <1>1 DEF MF!ShownWhole, MF!PageInv, MF!PageTypes
<1> QED BY <1>3, <1>4, <1>5 DEF MF!PageInv

\* The strategy is looked up again, and found ready: for what is chosen, or astray.
LEMMA ReadyKeeps ==
  ASSUME MF!NoneIsNoChoice, MF!PageInv, MF!CheckReady \/ \E c \in v12 : MF!Ready(c)
  PROVE  MF!PageInv'
<1>1. MF!TypeOK /\ MF!PageTypes
  BY DEF MF!PageInv
<1>2. CASE MF!CheckReady
  <2>1. /\ v12' = v12 \cup {v4} /\ v3 = "activate" /\ v4 # None
        /\ UNCHANGED <<v1, v2, v3, v4, v5, v6, v7, v8, v9, v10, v11, v13, v14, v15>>
    BY <1>2 DEF MF!CheckReady
  <2>2. MF!TypeOK' /\ MF!PageTypes'
    BY <1>1, <2>1, PageTypesStay DEF MF!TypeOK, MF!PageTypes, MF!Known
  <2>3. MF!Asked' /\ MF!FoundForWallet'
    BY <2>1 DEF MF!PageInv, MF!Asked, MF!FoundForWallet
  <2>4. MF!RefreshEnds' /\ MF!SealedForItsMaker'
    BY <2>1 DEF MF!PageInv, MF!RefreshEnds, MF!SealedForItsMaker, MF!Restored
  <2>5. v15' \/ MF!ShownWhole'
    BY <2>1 DEF MF!PageInv, MF!ShownWhole, MF!Known
  <2> QED BY <2>2, <2>3, <2>4, <2>5 DEF MF!PageInv
<1>3. ASSUME NEW c \in v12, MF!Ready(c) PROVE MF!PageInv'
  <2>1. PICK r : r = [c EXCEPT !.ready = TRUE]
    OBVIOUS
  <2>2. /\ v12' \subseteq v12 /\ v3' = "limits" /\ v4' = (IF v4 = c THEN r ELSE v4)
        /\ v15' = (v15 \/ v4 # c) /\ UNCHANGED <<v1, v2, v5, v6, v7, v8, v9, v10, v11, v13, v14>>
    BY <1>3, <2>1 DEF MF!Ready
  <2>3. c \in MF!Choices /\ r \in MF!Choices /\ r.mandate = c.mandate /\ r.wallet = c.wallet
        /\ r.ready = TRUE /\ r # None /\ c # None
    BY <1>1, <2>1 DEF MF!PageTypes, MF!Choices, MF!NoneIsNoChoice
  <2>4. MF!TypeOK' /\ MF!PageTypes'
    <3>1. v15' \in BOOLEAN
      BY <1>1, <2>2 DEF MF!PageTypes
    <3> QED BY <1>1, <2>2, <2>3, <3>1, PageTypesStay DEF MF!TypeOK, MF!PageTypes, MF!Known
  <2>5. MF!Asked' /\ MF!FoundForWallet'
    BY <2>2, <2>3 DEF MF!PageInv, MF!Asked, MF!FoundForWallet
  <2>6. MF!RefreshEnds' /\ MF!SealedForItsMaker'
    BY <2>2 DEF MF!PageInv, MF!RefreshEnds, MF!SealedForItsMaker, MF!Restored
  <2>7. v15' \/ MF!ShownWhole'
    BY <1>3, <2>2, <2>3 DEF MF!PageInv, MF!ShownWhole, MF!Known
  <2> QED BY <2>4, <2>5, <2>6, <2>7 DEF MF!PageInv
<1> QED BY <1>2, <1>3

\* A mandate read again: the one shown, or astray.
LEMMA RefreshKeeps ==
  ASSUME MF!NoneIsNoChoice, MF!PageInv,
         MF!Refresh \/ \E m \in v11, answered \in BOOLEAN : MF!Refreshed(m, answered)
  PROVE  MF!PageInv'
<1>1. MF!TypeOK /\ MF!PageTypes
  BY DEF MF!PageInv
<1>2. CASE MF!Refresh
  <2>1. /\ v11' = v11 \cup {v6} /\ v6 # None /\ v7' = TRUE
        /\ UNCHANGED <<v1, v2, v3, v4, v5, v6, v8, v9, v10, v12, v13, v14, v15>>
    BY <1>2 DEF MF!Refresh
  <2>2. MF!TypeOK' /\ MF!PageTypes'
    BY <1>1, <2>1, PageTypesStay DEF MF!TypeOK, MF!PageTypes, MF!Known
  <2>3. MF!Asked' /\ MF!FoundForWallet'
    BY <2>1 DEF MF!PageInv, MF!Asked, MF!FoundForWallet
  <2>4. MF!RefreshEnds' /\ MF!SealedForItsMaker'
    BY <2>1 DEF MF!PageInv, MF!RefreshEnds, MF!SealedForItsMaker
  <2>5. v15' \/ MF!ShownWhole'
    BY <2>1 DEF MF!PageInv, MF!ShownWhole, MF!Known
  <2> QED BY <2>2, <2>3, <2>4, <2>5 DEF MF!PageInv
<1>3. ASSUME NEW m \in v11, NEW answered \in BOOLEAN, MF!Refreshed(m, answered) PROVE MF!PageInv'
  <2>1. /\ v11' \subseteq v11 /\ v7' = FALSE /\ v6' = (IF answered THEN m ELSE v6)
        /\ v15' = (v15 \/ (answered /\ v6 # m))
        /\ UNCHANGED <<v1, v2, v3, v4, v5, v8, v9, v10, v12, v13, v14>>
    BY <1>3 DEF MF!Refreshed
  <2>2. MF!TypeOK' /\ MF!PageTypes'
    <3>1. v15' \in BOOLEAN
      BY <1>1, <2>1 DEF MF!PageTypes
    <3> QED BY <1>1, <2>1, <3>1, PageTypesStay DEF MF!TypeOK, MF!PageTypes, MF!Known
  <2>3. MF!Asked' /\ MF!FoundForWallet'
    BY <2>1 DEF MF!PageInv, MF!Asked, MF!FoundForWallet
  <2>4. MF!RefreshEnds' /\ MF!SealedForItsMaker'
    BY <2>1 DEF MF!PageInv, MF!RefreshEnds, MF!SealedForItsMaker
  <2>5. v15' \/ MF!ShownWhole'
    BY <2>1 DEF MF!PageInv, MF!ShownWhole, MF!Known
  <2> QED BY <2>2, <2>3, <2>4, <2>5 DEF MF!PageInv
<1> QED BY <1>2, <1>3

\* The Maker edits the limits.
LEMMA EditLimitsKeeps ==
  ASSUME MF!NoneIsNoChoice, MF!PageInv, MF!EditLimits
  PROVE  MF!PageInv'
<1>1. MF!TypeOK /\ MF!PageTypes
  BY DEF MF!PageInv
<1>2. v6 \in W /\ v14[v6] \in MF!Signings /\ v6 # None
  BY <1>1 DEF MF!EditLimits, MF!TypeOK, MF!PageTypes
<1>3. PICK f : f = MF!Choice(v14[v6].strategy, None, v6, TRUE)
  OBVIOUS
<1>4. f \in MF!Choices /\ f.mandate = v6 /\ f.ready = TRUE
  BY <1>2, <1>3 DEF MF!Choice, MF!Choices, MF!Signings
<1>5. /\ v5' = TRUE /\ v3' = "limits" /\ v4' = f /\ v9 = None
      /\ UNCHANGED <<v1, v2, v6, v7, v8, v9, v10, v11, v12, v13, v14, v15>>
  BY <1>3 DEF MF!EditLimits, MF!Covered
<1>6. MF!TypeOK' /\ MF!PageTypes'
  BY <1>1, <1>4, <1>5, PageTypesStay DEF MF!TypeOK, MF!PageTypes, MF!Known
<1>7. MF!Asked' /\ MF!FoundForWallet'
  BY <1>2, <1>4, <1>5 DEF MF!PageInv, MF!Asked, MF!FoundForWallet
<1>8. MF!RefreshEnds' /\ MF!SealedForItsMaker'
  BY <1>5 DEF MF!PageInv, MF!RefreshEnds, MF!SealedForItsMaker, MF!Restored
<1>9. v15' \/ MF!ShownWhole'
  BY <1>2, <1>4, <1>5 DEF MF!PageInv, MF!ShownWhole, MF!Known
<1> QED BY <1>6, <1>7, <1>8, <1>9 DEF MF!PageInv

\* Limits are submitted for the maker of what is shown.
LEMMA LimitsSubmitKeep ==
  ASSUME MF!NoneIsNoChoice, MF!PageInv, MF!Submit
  PROVE  MF!PageInv'
<1>1. MF!TypeOK /\ MF!PageTypes /\ MF!FoundForWallet
  BY DEF MF!PageInv
<1>2. PICK q, w : w = MF!SetupMaker /\ q = [maker |-> w, of |-> v4, under |-> v6]
  OBVIOUS
<1>3. /\ v13' = v13 \cup {q} /\ v3 = "review" /\ v3' = "submitting" /\ v4 # None /\ w # None
      /\ UNCHANGED <<v1, v2, v4, v5, v6, v7, v8, v9, v10, v11, v12, v14, v15>>
  BY <1>2 DEF MF!Submit
<1>4. v4 \in MF!Choices /\ v6 \in W \cup {None} /\ (v6 # None => v14[v6] \in MF!Signings)
      /\ v2.active \in X \cup {None}
  BY <1>1, <1>3 DEF MF!TypeOK, MF!PageTypes, MF!Accounts
<1>5. w = (IF ~v5 \/ v6 = None THEN v2.active
           ELSE IF v14[v6].maker \in v2.linked THEN v14[v6].maker ELSE None)
  BY <1>2 DEF MF!SetupMaker
<1>6. w \in X
  <2>1. v6 # None => v14[v6].maker \in X
    BY <1>4 DEF MF!Signings
  <2> QED BY <1>3, <1>4, <1>5, <2>1
<1>7. q \in [maker : X, of : MF!Choices, under : W \cup {None}] /\ q.maker = w /\ q.of = v4
  BY <1>2, <1>4, <1>6
<1>8. MF!TypeOK' /\ MF!PageTypes'
  BY <1>1, <1>3, <1>7, PageTypesStay DEF MF!TypeOK, MF!PageTypes, MF!Known
<1>9. MF!Asked' /\ MF!FoundForWallet' /\ MF!RefreshEnds'
  BY <1>3 DEF MF!PageInv, MF!Asked, MF!FoundForWallet, MF!RefreshEnds, MF!Restored
<1>10. v15 \/ /\ v4.ready
              /\ w = (IF v4.mandate = None THEN v4.wallet ELSE v14[v4.mandate].maker)
              /\ v4.mandate = None \/ MF!Known(v4.mandate)
  <2>1. CASE ~v15
    <3>1. MF!ShownWhole
      BY <2>1 DEF MF!PageInv
    <3>2. /\ v4.ready
          /\ \/ v4.mandate = None
             \/ v5 /\ v6 = v4.mandate
             \/ v1.strategy # None /\ v2.active = None
      BY <1>3, <3>1 DEF MF!ShownWhole
    <3>3. v1.strategy # None => v1.mandate = None
      BY <1>1, LinkIsOne DEF MF!TypeOK
    <3>4. v1.mandate = None => v6 = None /\ v5 = FALSE
      BY <3>1 DEF MF!ShownWhole
    <3>5. CASE v4.mandate = None
      <4>1. w = v2.active /\ v4.wallet = v2.active
        BY <1>1, <1>3, <1>5, <3>3, <3>4, <3>5 DEF MF!FoundForWallet
      <4> QED BY <3>2, <3>5, <4>1
    <3>6. CASE v4.mandate # None /\ v5 /\ v6 = v4.mandate
      <4>1. w = v14[v4.mandate].maker /\ MF!Known(v4.mandate)
        BY <1>1, <1>3, <1>5, <3>6 DEF MF!TypeOK, MF!Known
      <4> QED BY <3>2, <3>6, <4>1
    <3>7. CASE v1.strategy # None /\ v2.active = None
      BY <1>3, <1>5, <3>3, <3>4, <3>7
    <3> QED BY <3>2, <3>5, <3>6, <3>7
  <2> QED BY <2>1
<1>11. MF!SealedForItsMaker'
  BY <1>3, <1>7, <1>10 DEF MF!PageInv, MF!SealedForItsMaker
<1>12. v15' \/ MF!ShownWhole'
  BY <1>3, <1>7, <1>10 DEF MF!PageInv, MF!ShownWhole, MF!Known
<1> QED BY <1>8, <1>9, <1>11, <1>12 DEF MF!PageInv

\* Sending the limits fails.
LEMMA SubmitFailsKeeps ==
  ASSUME MF!NoneIsNoChoice, MF!PageInv, NEW q \in v13, MF!SubmitFails(q)
  PROVE  MF!PageInv'
<1>1. /\ v13' \subseteq v13 /\ v3' = "review" /\ UNCHANGED <<v1, v2, v4, v5, v6, v7, v8, v9, v10, v11, v12, v14>>
      /\ v15' = (v15 \/ v3 # "submitting" \/ v4 # q.of \/ v6 # q.under)
  BY DEF MF!SubmitFails
<1>2. MF!TypeOK' /\ MF!PageTypes'
  <2>1. v15' \in BOOLEAN
    BY <1>1 DEF MF!PageInv, MF!PageTypes
  <2> QED BY <1>1, <2>1, PageTypesStay DEF MF!PageInv, MF!TypeOK, MF!PageTypes, MF!Known
<1>3. MF!Asked' /\ MF!FoundForWallet'
  BY <1>1 DEF MF!PageInv, MF!Asked, MF!FoundForWallet
<1>4. MF!RefreshEnds' /\ MF!SealedForItsMaker'
  BY <1>1 DEF MF!PageInv, MF!RefreshEnds, MF!SealedForItsMaker, MF!Restored
<1>5. v15' \/ MF!ShownWhole'
  BY <1>1 DEF MF!PageInv, MF!ShownWhole, MF!Known
<1> QED BY <1>2, <1>3, <1>4, <1>5 DEF MF!PageInv

\* Every step of the page keeps the invariant.
LEMMA PageKeeps ==
  ASSUME MF!NoneIsNoChoice, MF!PageInv, [MF!Next]_(MF!vars)
  PROVE  MF!PageInv'
<1>1. CASE UNCHANGED MF!vars
  <2>1. UNCHANGED <<v1, v2, v3, v4, v5, v6, v7, v8, v9, v10, v11, v12, v13, v14, v15>>
    BY <1>1 DEF MF!vars
  <2>2. MF!TypeOK' /\ MF!PageTypes'
    BY <2>1, PageTypesStay DEF MF!PageInv, MF!TypeOK, MF!PageTypes, MF!Known
  <2> QED BY <2>1, <2>2
       DEF MF!PageInv, MF!Asked, MF!FoundForWallet, MF!RefreshEnds, MF!Restored,
           MF!SealedForItsMaker, MF!ShownWhole, MF!Known
<1> QED BY <1>1, FollowKeeps, StrategyLoadedKeeps, LoadEndsKeeps, PagesGoKeep, DetailsKeeps, ReadyKeeps,
           RefreshKeeps, EditLimitsKeeps, LimitsSubmitKeep, SubmitFailsKeeps, SubmittedKeeps
     DEF MF!Next

\* At the start the page shows nothing.
LEMMA PageBegins ==
  ASSUME MF!NoneIsNoChoice, MF!Init
  PROVE  MF!PageInv
<1>1. v1 \in MF!Links /\ v2 \in MF!Accounts
  BY DEF MF!Init, MF!Links, MF!Accounts, MF!Nowhere
<1>2. MF!TypeOK /\ MF!PageTypes
  BY <1>1 DEF MF!Init, MF!TypeOK, MF!PageTypes, MF!Signings
<1> QED BY <1>2 DEF MF!Init, MF!PageInv, MF!Asked, MF!FoundForWallet, MF!RefreshEnds,
                    MF!SealedForItsMaker, MF!ShownWhole

-----------------------------------------------------------------------------
(* The releases (PB): publishers alone, any number of versions.            *)

PB == INSTANCE Activations WITH
     Publishers <- X, Digests <- Y, MaxVersion <- N + 1, Calls <- {}, Plans <- {}, Programs <- {},
     releases <- v1, publishing <- v2, plan <- v3, ship <- v4, pending <- v5, call <- v6,
     evaluated <- v7
AC == INSTANCE Activations WITH
     Publishers <- Z, Digests <- Z, MaxVersion <- N, Plans <- X, Programs <- Y, Calls <- W,
     releases <- v1, publishing <- v2, plan <- v3, ship <- v4, pending <- v5, call <- v6,
     evaluated <- v7

ReleasesInv == PB!Shapes /\ \A p \in X : PB!PublicationStands(p)

\* What is withdrawn is withdrawn up to a version.
LEMMA WithdrawnIsVersion ==
  ASSUME N \in Nat, PB!Shapes
  PROVE  PB!Through \in 0 .. N + 1
<1>1. CASE v1 = <<>>
  BY <1>1 DEF PB!Through
<1>2. CASE v1 # <<>>
  <2>1. v1 \in Seq(PB!Records) /\ Len(v1) \in 1 .. Len(v1)
    BY <1>2 DEF PB!Shapes
  <2>2. v1[Len(v1)] \in PB!Records
    BY <2>1
  <2> QED BY <1>2, <2>2 DEF PB!Through, PB!Records
<1> QED BY <1>1, <1>2

\* A release is changed by linking and publishing only.
LEMMA ReleaseSteps ==
  ASSUME PB!Shapes, PB!Next
  PROVE  \/ \E p \in X : PB!LinkVersion(p)
         \/ \E p \in X, d \in Y, state \in {"published", "withdrawn"} : PB!Publish(p, d, state)
<1>1. \A v : PB!Catalog(v) = {}
  BY DEF PB!Catalog, PB!Confirmed
<1> QED BY <1>1 DEF PB!Next, PB!Evaluate

\* A Provider publishes or withdraws a release.
LEMMA PublishKeepsReleases ==
  ASSUME N \in Nat, ReleasesInv,
         NEW p \in X, NEW d \in Y, NEW state \in {"published", "withdrawn"}, PB!Publish(p, d, state)
  PROVE  ReleasesInv'
<1> DEFINE releases == v1  publishing == v2
           v == Len(releases) + 1
           r == [digest |-> d, state |-> state, withdrawnThrough |-> PB!WithdrawnThrough(v, state)]
<1>1. v \in 1 .. N + 1 /\ Len(releases) \in Nat
  BY DEF PB!Publish, ReleasesInv, PB!Shapes
<1>2. PB!WithdrawnThrough(v, state) \in 0 .. N + 1
  BY <1>1, WithdrawnIsVersion DEF PB!WithdrawnThrough, ReleasesInv
<1>3. [version |-> v, record |-> r] \in PB!Publication
  BY <1>1, <1>2 DEF PB!Publication, PB!Versions, PB!Records
<1>4. publishing' = [publishing EXCEPT ![p] = [version |-> v, record |-> r]]
  BY DEF PB!Publish
<1>5. UNCHANGED <<v1, v3, v4, v5, v6, v7>>
  BY DEF PB!Publish
<1>6. PB!Shapes'
  BY <1>3, <1>4, <1>5 DEF ReleasesInv, PB!Shapes
<1>7. ASSUME NEW q \in X PROVE PB!PublicationStands(q)'
  <2>1. CASE q = p
    <3>1. publishing'[q] = [version |-> v, record |-> r]
      BY <1>4, <2>1 DEF ReleasesInv, PB!Shapes
    <3> QED BY <3>1, <1>1, <1>5 DEF PB!PublicationStands, PB!WithdrawnThrough, PB!Through
  <2>2. CASE q # p
    <3>1. publishing'[q] = publishing[q]
      BY <1>4, <2>2 DEF ReleasesInv, PB!Shapes
    <3> QED BY <1>5, <3>1 DEF ReleasesInv, PB!PublicationStands, PB!WithdrawnThrough, PB!Through
  <2> QED BY <2>1, <2>2
<1> QED BY <1>6, <1>7 DEF ReleasesInv

\* A link appends the file it was given or leaves the releases alone.
LEMMA LinkAppends ==
  ASSUME N \in Nat, PB!ActivationBounds, ReleasesInv, NEW p \in X, PB!LinkVersion(p)
  PROVE  \E r \in PB!Publication :
           /\ v2[p] = r
           /\ \/ v1' = v1
              \/ v1' = Append(v1, r.record) /\ r.version = Len(v1) + 1
<1>1. PICK r \in PB!Publication : v2[p] = r
  BY DEF PB!LinkVersion, ReleasesInv, PB!Shapes
<1>2. r.version \in 1 .. N + 1 /\ r.record \in PB!Records
  BY DEF PB!Publication, PB!Versions
<1>3. v1 \in Seq(PB!Records) /\ Len(v1) \in Nat
  BY DEF ReleasesInv, PB!Shapes
<1>4. r.version <= Len(v1) + 1
  BY <1>1 DEF ReleasesInv, PB!PublicationStands, PB!ActivationBounds
<1> QED BY <1>1, <1>2, <1>3, <1>4 DEF PB!LinkVersion, PB!Link

\* A Provider links the next version.
LEMMA LinkKeepsReleases ==
  ASSUME N \in Nat, PB!ActivationBounds, ReleasesInv, NEW p \in X, PB!LinkVersion(p)
  PROVE  ReleasesInv'
<1> DEFINE releases == v1  publishing == v2
<1>1. PICK r \in PB!Publication :
        /\ v2[p] = r
        /\ \/ v1' = v1
           \/ v1' = Append(v1, r.record) /\ r.version = Len(v1) + 1
  BY LinkAppends
<1>2. UNCHANGED <<v3, v4, v5, v6, v7>> /\ publishing' = [publishing EXCEPT ![p] = None]
  BY DEF PB!LinkVersion
<1>3. r.version \in 1 .. N + 1 /\ r.record \in PB!Records
  BY DEF PB!Publication, PB!Versions
<1>4. releases \in Seq(PB!Records) /\ Len(releases) \in Nat /\ Len(releases) <= N + 1
  BY DEF ReleasesInv, PB!Shapes
<1>5. releases' \in Seq(PB!Records) /\ Len(releases') <= N + 1
  BY <1>1, <1>3, <1>4
<1>6. PB!Shapes'
  BY <1>2, <1>5 DEF ReleasesInv, PB!Shapes
<1>7. ASSUME NEW q \in X PROVE PB!PublicationStands(q)'
  <2>1. CASE q = p
    BY <1>2, <2>1 DEF PB!PublicationStands, ReleasesInv, PB!Shapes
  <2>2. CASE q # p
    <3>1. publishing'[q] = publishing[q]
      BY <1>2, <2>2 DEF ReleasesInv, PB!Shapes
    <3>2. CASE releases' = releases
      BY <3>1, <3>2 DEF ReleasesInv, PB!PublicationStands, PB!WithdrawnThrough, PB!Through
    <3>3. CASE releases' # releases
      <4>1. Len(releases') = Len(releases) + 1
        BY <1>1, <1>3, <1>4, <3>3
      <4>2. publishing[q] # None =>
              publishing[q].version <= Len(releases) + 1 /\ publishing[q].version \in Nat
        BY DEF ReleasesInv, PB!PublicationStands, PB!Shapes, PB!Publication, PB!Versions
      <4> QED BY <1>4, <3>1, <4>1, <4>2 DEF PB!PublicationStands
    <3> QED BY <3>2, <3>3
  <2> QED BY <2>1, <2>2
<1> QED BY <1>6, <1>7 DEF ReleasesInv

\* Every step keeps the types of the releases.
LEMMA ReleasesKeep ==
  ASSUME N \in Nat, PB!ActivationBounds, ReleasesInv, [PB!Next]_(PB!vars)
  PROVE  ReleasesInv'
<1>1. CASE UNCHANGED PB!vars
  BY <1>1 DEF PB!vars, ReleasesInv, PB!Shapes, PB!PublicationStands, PB!WithdrawnThrough, PB!Through
<1>2. CASE PB!Next
  BY <1>2, ReleaseSteps, PublishKeepsReleases, LinkKeepsReleases DEF ReleasesInv
<1> QED BY <1>1, <1>2

\* At the start nothing is released.
LEMMA ReleasesBegin == N \in Nat /\ PB!Init => ReleasesInv
BY DEF PB!Init, ReleasesInv, PB!Shapes, PB!PublicationStands, PB!Idle

\* The invariant implies the types.
LEMMA ReleasesHold == ReleasesInv => PB!TypeOK
BY DEF ReleasesInv, PB!Shapes, PB!TypeOK, PB!Publication, PB!PlanRow, PB!Request

\* A file once linked stays, and no later one makes active again what was withdrawn.
LEMMA ReleasesAreFinal ==
  ASSUME N \in Nat, PB!ActivationBounds, ReleasesInv, [PB!Next]_(PB!vars)
  PROVE  PB!PublicationIsFinal
<1> DEFINE releases == v1
<1>0. releases \in Seq(PB!Records) /\ Len(releases) \in Nat
  BY DEF ReleasesInv, PB!Shapes
<1>1. CASE releases' = releases
  <2>1. PB!Through' = PB!Through /\ PB!Through \in Nat
    BY <1>1, WithdrawnIsVersion DEF PB!Through, ReleasesInv
  <2> QED BY <1>1, <2>1 DEF PB!PublicationIsFinal, PB!ActiveRelease
<1>2. CASE releases' # releases
  <2>1. PICK p \in X : PB!LinkVersion(p)
    BY <1>2, ReleaseSteps DEF PB!vars, PB!Publish, ReleasesInv
  <2>2. PICK r \in PB!Publication :
          v2[p] = r /\ releases' = Append(releases, r.record) /\ r.version = Len(releases) + 1
    BY <1>2, <2>1, LinkAppends
  <2>3. r.record \in PB!Records /\ r # None
    BY DEF PB!Publication, PB!ActivationBounds
  <2>4. /\ Len(releases') = Len(releases) + 1 /\ releases'[Len(releases) + 1] = r.record
        /\ \A v \in 1 .. Len(releases) : releases'[v] = releases[v]
        /\ releases' # <<>> /\ DOMAIN releases' = 1 .. Len(releases) + 1
    BY <1>0, <2>2, <2>3
  <2>5. r.record.withdrawnThrough = PB!WithdrawnThrough(r.version, r.record.state)
    BY <2>2, <2>3 DEF ReleasesInv, PB!PublicationStands
  <2>6. \A v \in DOMAIN releases : v \in DOMAIN releases' /\ releases'[v] = releases[v]
    BY <1>0, <2>4
  <2>7. ASSUME NEW v \in 1 .. PB!Through PROVE ~PB!ActiveRelease(v)'
    <3>1. CASE r.record.state = "withdrawn"
      BY <2>4, <3>1 DEF PB!ActiveRelease
    <3>2. CASE r.record.state # "withdrawn"
      <4>1. PB!Through' = PB!Through
        BY <2>4, <2>5, <3>2 DEF PB!WithdrawnThrough, PB!Through
      <4> QED BY <4>1, WithdrawnIsVersion DEF PB!ActiveRelease, ReleasesInv
    <3> QED BY <3>1, <3>2
  <2> QED BY <2>6, <2>7 DEF PB!PublicationIsFinal
<1> QED BY <1>1, <1>2

-----------------------------------------------------------------------------
(* The activations (AC).                                                   *)

\* The catalog stands as long as releases and requests stay.
LEMMA CatalogKept ==
  ASSUME AC!CatalogStands, UNCHANGED <<v3, v4, v7>>
  PROVE  AC!CatalogStands'
BY DEF AC!CatalogStands, AC!Catalog, AC!Confirmed

\* A publication stands as long as the versions stay.
LEMMA PublicationsKept ==
  ASSUME NEW p \in Z, AC!PublicationStands(p), UNCHANGED <<v1, v2>>
  PROVE  AC!PublicationStands(p)'
BY DEF AC!PublicationStands, AC!WithdrawnThrough, AC!Through

\* What is withdrawn is withdrawn up to a version.
LEMMA ThroughIsVersion ==
  ASSUME N \in Nat, AC!Shapes
  PROVE  AC!Through \in 0 .. N
<1>1. CASE v1 = <<>>
  BY <1>1 DEF AC!Through
<1>2. CASE v1 # <<>>
  <2>1. v1 \in Seq(AC!Records) /\ Len(v1) \in 1 .. Len(v1)
    BY <1>2 DEF AC!Shapes
  <2>2. v1[Len(v1)] \in AC!Records
    BY <2>1
  <2> QED BY <1>2, <2>2 DEF AC!Through, AC!Records
<1> QED BY <1>1, <1>2

\* A Provider publishes or withdraws a release.
LEMMA PublishKeeps ==
  ASSUME N \in Nat, AC!ActivationBounds, AC!ActivationInv,
         NEW p \in Z, NEW d \in Z, NEW state \in {"published", "withdrawn"},
         AC!Publish(p, d, state)
  PROVE  AC!ActivationInv'
<1> DEFINE releases == v1  publishing == v2
           v == Len(releases) + 1
           r == [digest |-> d, state |-> state, withdrawnThrough |-> AC!WithdrawnThrough(v, state)]
<1>1. v \in 1 .. N /\ Len(releases) \in Nat
  BY DEF AC!Publish, AC!ActivationInv, AC!Shapes
<1>2. AC!WithdrawnThrough(v, state) \in 0 .. N
  BY <1>1, ThroughIsVersion DEF AC!WithdrawnThrough, AC!ActivationInv
<1>3. [version |-> v, record |-> r] \in AC!Publication
  BY <1>1, <1>2 DEF AC!Publication, AC!Versions, AC!Records
<1>4. publishing' = [publishing EXCEPT ![p] = [version |-> v, record |-> r]]
  BY DEF AC!Publish
<1>5. UNCHANGED <<v1, v3, v4, v5, v6, v7>>
  BY DEF AC!Publish
<1>6. AC!Shapes'
  BY <1>3, <1>4, <1>5 DEF AC!ActivationInv, AC!Shapes
<1>7. AC!PublicationStands(p)'
  <2>1. publishing'[p] = [version |-> v, record |-> r]
    BY <1>4 DEF AC!ActivationInv, AC!Shapes
  <2> QED BY <2>1, <1>1, <1>5 DEF AC!PublicationStands, AC!WithdrawnThrough, AC!Through
<1>8. ASSUME NEW q \in Z PROVE AC!PublicationStands(q)'
  <2>1. CASE q = p
    BY <1>7, <2>1
  <2>2. CASE q # p
    <3>1. publishing'[q] = publishing[q]
      BY <1>4, <2>2 DEF AC!ActivationInv, AC!Shapes
    <3> QED BY <1>5, <3>1 DEF AC!ActivationInv, AC!PublicationStands, AC!WithdrawnThrough, AC!Through
  <2> QED BY <2>1, <2>2
<1>9. AC!CatalogStands'
  BY <1>5, CatalogKept DEF AC!ActivationInv
<1>10. \A c \in W : AC!ConfirmationStands(c)'
  BY <1>5 DEF AC!ActivationInv, AC!ConfirmationStands, AC!Catalog, AC!Confirmed
<1> QED BY <1>5, <1>6, <1>8, <1>9, <1>10 DEF AC!ActivationInv

\* A Provider links the next version.
LEMMA LinkKeeps ==
  ASSUME N \in Nat, AC!ActivationBounds, AC!ActivationInv, NEW p \in Z, AC!LinkVersion(p)
  PROVE  AC!ActivationInv'
<1> DEFINE releases == v1  publishing == v2
<1>1. PICK r \in AC!Publication : publishing[p] = r
  BY DEF AC!LinkVersion, AC!ActivationInv, AC!Shapes
<1>2. UNCHANGED <<v3, v4, v5, v6, v7>> /\ publishing' = [publishing EXCEPT ![p] = None]
  BY DEF AC!LinkVersion
<1>3. r.version \in 1 .. N /\ r.record \in AC!Records
  BY DEF AC!Publication, AC!Versions
<1>4. releases \in Seq(AC!Records) /\ Len(releases) \in Nat /\ Len(releases) <= N
  BY DEF AC!ActivationInv, AC!Shapes
<1>5. r.version <= Len(releases) + 1
  BY <1>1 DEF AC!ActivationInv, AC!PublicationStands, AC!ActivationBounds
<1>6. \/ releases' = releases
      \/ releases' = Append(releases, r.record) /\ r.version = Len(releases) + 1
  BY <1>1, <1>3, <1>4, <1>5 DEF AC!LinkVersion, AC!Link
<1>7. releases' \in Seq(AC!Records) /\ Len(releases') <= N
  BY <1>3, <1>4, <1>6
<1>8. AC!Shapes'
  BY <1>2, <1>7 DEF AC!ActivationInv, AC!Shapes
<1>9. ASSUME NEW q \in Z PROVE AC!PublicationStands(q)'
  <2>1. CASE q = p
    BY <1>2, <2>1 DEF AC!PublicationStands, AC!ActivationInv, AC!Shapes
  <2>2. CASE q # p
    <3>1. publishing'[q] = publishing[q]
      BY <1>2, <2>2 DEF AC!ActivationInv, AC!Shapes
    <3>2. CASE releases' = releases
      BY <3>1, <3>2 DEF AC!ActivationInv, AC!PublicationStands, AC!WithdrawnThrough, AC!Through
    <3>3. CASE releases' # releases
      <4>1. Len(releases') = Len(releases) + 1
        BY <1>3, <1>4, <1>6, <3>3
      <4>2. publishing[q] # None =>
              publishing[q].version <= Len(releases) + 1 /\ publishing[q].version \in Nat
        BY DEF AC!ActivationInv, AC!PublicationStands, AC!Shapes, AC!Publication, AC!Versions
      <4> QED BY <1>4, <3>1, <4>1, <4>2 DEF AC!PublicationStands
    <3> QED BY <3>2, <3>3
  <2> QED BY <2>1, <2>2
<1>10. AC!CatalogStands'
  BY <1>2, CatalogKept DEF AC!ActivationInv
<1>11. \A c \in W : AC!ConfirmationStands(c)'
  BY <1>2 DEF AC!ActivationInv, AC!ConfirmationStands, AC!Catalog, AC!Confirmed
<1> QED BY <1>2, <1>8, <1>9, <1>10, <1>11 DEF AC!ActivationInv

\* A call inserts its request, unless it is there already.
LEMMA InsertKeeps ==
  ASSUME N \in Nat, AC!ActivationBounds, AC!ActivationInv, NEW c \in W, NEW q \in Y, AC!Insert(c, q)
  PROVE  AC!ActivationInv'
<1> DEFINE plan == v3  call == v6  a == call[c].plan
           new == [version |-> call[c].version, program |-> q, confirmed |-> FALSE]
<1>1. UNCHANGED <<v1, v2, v4, v5, v7>> /\ call' = [call EXCEPT ![c] = AC!Idle]
  BY DEF AC!Insert
<1>2. call[c] \in AC!Request
  BY DEF AC!Insert, AC!ActivationInv, AC!Shapes, AC!Idle
<1>3. a \in X /\ new \in AC!PlanRow
  BY <1>2 DEF AC!Request, AC!PlanRow
<1>4. plan' = plan \/ (plan[a] = None /\ plan' = [plan EXCEPT ![a] = new])
  BY DEF AC!Insert
<1>5. \A b \in X : plan[b] # None => plan'[b] = plan[b]
  BY <1>4 DEF AC!ActivationInv, AC!Shapes
<1>6. ASSUME NEW v PROVE AC!Confirmed(v)' = AC!Confirmed(v)
  <2>1. ASSUME NEW b \in X
        PROVE  b \in AC!Confirmed(v)' <=> b \in AC!Confirmed(v)
    <3>1. CASE plan[b] # None
      BY <1>5, <3>1 DEF AC!Confirmed
    <3>2. CASE plan[b] = None /\ plan'[b] = None
      BY <3>2 DEF AC!Confirmed
    <3>3. CASE plan[b] = None /\ plan'[b] # None
      <4>1. plan'[b] = new
        BY <1>3, <1>4, <3>3 DEF AC!ActivationInv, AC!Shapes
      <4> QED BY <3>3, <4>1 DEF AC!Confirmed
    <3> QED BY <3>1, <3>2, <3>3
  <2> QED BY <2>1 DEF AC!Confirmed
<1>7. \A v : AC!Catalog(v)' = AC!Catalog(v)
  BY <1>5, <1>6 DEF AC!Catalog, AC!Confirmed
<1>8. AC!Shapes'
  BY <1>1, <1>3, <1>4 DEF AC!ActivationInv, AC!Shapes
<1>9. AC!CatalogStands'
  BY <1>1, <1>7 DEF AC!ActivationInv, AC!CatalogStands
<1>10. ASSUME NEW d \in W PROVE AC!ConfirmationStands(d)'
  <2>0. \A e \in W : call'[e] = IF e = c THEN AC!Idle ELSE call[e]
    BY <1>1 DEF AC!ActivationInv, AC!Shapes
  <2>1. CASE d = c
    BY <2>0, <2>1 DEF AC!ConfirmationStands, AC!Idle
  <2>2. CASE d # c
    <3>1. call'[d] = call[d] /\ AC!ConfirmationStands(d)
      BY <2>0, <2>2 DEF AC!ActivationInv
    <3>2. CASE call[d].phase \in {"queued", "confirming"}
      <4>1. call[d] \in AC!Request
        BY <3>2 DEF AC!ActivationInv, AC!Shapes, AC!Idle
      <4>2. call[d].plan \in X /\ plan[call[d].plan] # None
        BY <3>1, <3>2, <4>1 DEF AC!ConfirmationStands, AC!Request
      <4>3. plan'[call[d].plan] = plan[call[d].plan]
        BY <1>5, <4>2
      <4>4. \A e \in W : call'[e].phase = "confirming" => call[e].phase = "confirming"
        BY <2>0 DEF AC!Idle
      <4> QED BY <1>7, <3>1, <3>2, <4>2, <4>3, <4>4 DEF AC!ConfirmationStands
    <3>3. CASE call[d].phase \notin {"queued", "confirming"}
      BY <3>1, <3>3 DEF AC!ConfirmationStands
    <3> QED BY <3>2, <3>3
  <2> QED BY <2>1, <2>2
<1>11. \A p \in Z : AC!PublicationStands(p)'
  BY <1>1, PublicationsKept DEF AC!ActivationInv
<1>12. \A b \in X : v5'[b] => plan'[b] # None
  BY <1>1, <1>5 DEF AC!ActivationInv
<1> QED BY <1>8, <1>9, <1>10, <1>11, <1>12 DEF AC!ActivationInv

\* A call that goes on without writing keeps the invariant.
LEMMA CallKeeps ==
  ASSUME AC!ActivationInv, UNCHANGED <<v1, v2, v3, v4, v5, v7>>,
         NEW c \in W, NEW r \in AC!Request \cup {AC!Idle}, v6' = [v6 EXCEPT ![c] = r],
         r.phase \in {"queued", "confirming"} => v3[r.plan] # None /\ r.version = v3[r.plan].version,
         r.phase = "confirming" =>
           /\ AC!Catalog(r.version) \subseteq {v3[r.plan].program}
           /\ \A d \in W : v6[d].phase # "confirming"
  PROVE  AC!ActivationInv'
<1> DEFINE plan == v3  call == v6
<1>1. \A d \in W : call'[d] = IF d = c THEN r ELSE call[d]
  BY DEF AC!ActivationInv, AC!Shapes
<1>2. AC!Shapes'
  <2>1. call' \in [W -> AC!Request \cup {AC!Idle}]
    BY DEF AC!ActivationInv, AC!Shapes
  <2> QED BY <2>1 DEF AC!ActivationInv, AC!Shapes
<1>3. \A v : AC!Catalog(v)' = AC!Catalog(v)
  BY DEF AC!Catalog, AC!Confirmed
<1>4. ASSUME NEW d \in W PROVE AC!ConfirmationStands(d)'
  <2>1. CASE d = c
    BY <1>1, <1>3, <2>1 DEF AC!ConfirmationStands
  <2>2. CASE d # c
    <3>1. call'[d] = call[d] /\ AC!ConfirmationStands(d)
      BY <1>1, <2>2 DEF AC!ActivationInv
    <3> QED BY <1>1, <1>3, <3>1 DEF AC!ConfirmationStands
  <2> QED BY <2>1, <2>2
<1>5. \A p \in Z : AC!PublicationStands(p)'
  BY PublicationsKept DEF AC!ActivationInv
<1>6. AC!CatalogStands'
  BY CatalogKept DEF AC!ActivationInv
<1>7. (\A b \in X : v5[b] => plan[b] # None)'
  BY DEF AC!ActivationInv
<1> QED BY <1>2, <1>4, <1>5, <1>6, <1>7 DEF AC!ActivationInv

\* An activation is prepared.
LEMMA PrepareKeeps ==
  ASSUME AC!ActivationInv, NEW c \in W, NEW a \in X, NEW v \in AC!Versions, AC!Prepare(c, a, v)
  PROVE  AC!ActivationInv'
<1> DEFINE r == [kind |-> "prepare", plan |-> a, version |-> v, phase |-> "compiling"]
<1>1. r \in AC!Request /\ r.phase = "compiling"
  BY DEF AC!Request
<1>2. UNCHANGED <<v1, v2, v3, v4, v5, v7>> /\ v6' = [v6 EXCEPT ![c] = r]
  BY DEF AC!Prepare, AC!Starts
<1> HIDE DEF r
<1> QED BY <1>1, <1>2, CallKeeps

\* A confirmation is asked for.
LEMMA ConfirmKeeps ==
  ASSUME AC!ActivationInv, AC!ActivationBounds, NEW c \in W, NEW a \in X, AC!Confirm(c, a)
  PROVE  AC!ActivationInv'
<1> DEFINE plan == v3
           r == [kind |-> "confirm", plan |-> a, version |-> plan[a].version, phase |-> "queued"]
<1>1. plan[a] # None /\ plan[a] \in AC!PlanRow
  BY DEF AC!Confirm, AC!ActivationInv, AC!Shapes
<1>2. r \in AC!Request /\ r.phase = "queued" /\ r.plan = a /\ r.version = plan[a].version
  BY <1>1 DEF AC!Request, AC!PlanRow
<1>3. UNCHANGED <<v1, v2, v3, v4, v5, v7>> /\ v6' = [v6 EXCEPT ![c] = r]
  BY DEF AC!Confirm, AC!Starts
<1> HIDE DEF r
<1> QED BY <1>1, <1>2, <1>3, CallKeeps

\* A confirmation is checked against the chain.
LEMMA CheckKeeps ==
  ASSUME AC!ActivationInv, NEW c \in W, AC!CheckConfirmation(c)
  PROVE  AC!ActivationInv'
<1> DEFINE plan == v3  call == v6
<1>1. call[c].phase = "queued" /\ \A d \in W : call[d].phase # "confirming"
  BY DEF AC!CheckConfirmation, AC!MyTurn
<1>2. PICK r \in AC!Request : call[c] = r
  BY <1>1 DEF AC!ActivationInv, AC!Shapes, AC!Idle
<1>3. UNCHANGED <<v1, v2, v3, v4, v5, v7>>
  BY DEF AC!CheckConfirmation
<1>4. plan[r.plan] # None /\ r.version = plan[r.plan].version
  BY <1>1, <1>2 DEF AC!ActivationInv, AC!ConfirmationStands
<1>5. CASE call' = [call EXCEPT ![c] = AC!Idle]
  <2>1. AC!Idle.phase = "idle"
    BY DEF AC!Idle
  <2> QED BY <1>3, <1>5, <2>1, CallKeeps
<1>6. CASE /\ call' = [call EXCEPT ![c].phase = "confirming"]
           /\ AC!Catalog(r.version) \subseteq {plan[r.plan].program}
  <2> DEFINE s == [r EXCEPT !.phase = "confirming"]
  <2>1. s \in AC!Request /\ s.plan = r.plan /\ s.version = r.version /\ s.phase = "confirming"
    BY DEF AC!Request
  <2>2. call' = [call EXCEPT ![c] = s]
    BY <1>2, <1>6
  <2> HIDE DEF s
  <2>3. plan[s.plan] # None /\ s.version = plan[s.plan].version
    BY <1>4, <2>1
  <2>4. AC!Catalog(s.version) \subseteq {plan[s.plan].program}
    BY <1>6, <2>1
  <2> QED BY <1>1, <1>3, <2>1, <2>2, <2>3, <2>4, CallKeeps
<1> QED BY <1>2, <1>5, <1>6 DEF AC!CheckConfirmation

\* A call fails.
LEMMA FailKeeps ==
  ASSUME AC!ActivationInv, NEW c \in W, AC!Fail(c)
  PROVE  AC!ActivationInv'
<1>1. AC!Idle.phase = "idle"
  BY DEF AC!Idle
<1> QED BY <1>1, CallKeeps DEF AC!Fail

\* A confirmation is saved, with the version it was prepared for.
LEMMA SaveKeeps ==
  ASSUME AC!ActivationInv, AC!ActivationBounds, NEW c \in W, AC!SaveConfirmation(c)
  PROVE  AC!ActivationInv'
<1> DEFINE plan == v3  ship == v4  pending == v5  call == v6
<1>1. call[c].phase = "confirming" /\ call[c] \in AC!Request
  BY DEF AC!SaveConfirmation, AC!ActivationInv, AC!Shapes, AC!Idle
<1>0. PICK a \in X : call[c].plan = a
  BY <1>1 DEF AC!Request
<1>2. plan[a] # None /\ call[c].version = plan[a].version
  BY <1>0, <1>1 DEF AC!ActivationInv, AC!ConfirmationStands
<1>3. PICK x \in AC!PlanRow : plan[a] = x
  BY <1>2 DEF AC!ActivationInv, AC!Shapes
<1>4. AC!Catalog(x.version) \subseteq {x.program}
  BY <1>0, <1>1, <1>2, <1>3 DEF AC!ActivationInv, AC!ConfirmationStands
<1>5. \A d \in W : d # c => call[d].phase # "confirming"
  BY <1>1 DEF AC!ActivationInv, AC!ConfirmationStands
<1>6. CASE ship[x.program] # "shipped"
  <2>1. AC!Idle.phase = "idle" /\ AC!Idle \in AC!Request \cup {AC!Idle}
    BY DEF AC!Idle
  <2>2. UNCHANGED <<v1, v2, v3, v4, v5, v7>> /\ v6' = [v6 EXCEPT ![c] = AC!Idle]
    BY <1>0, <1>3, <1>6 DEF AC!SaveConfirmation
  <2> QED BY <2>1, <2>2, CallKeeps
<1>7. CASE ship[x.program] = "shipped"
  <2> DEFINE s == [x EXCEPT !.confirmed = TRUE]
  <2>1. s \in AC!PlanRow /\ s.confirmed /\ s.version = x.version /\ s.program = x.program
    BY DEF AC!PlanRow
  <2>2. /\ UNCHANGED <<v1, v2, v4, v7>>
        /\ plan' = [plan EXCEPT ![a] = s] /\ pending' = [pending EXCEPT ![a] = FALSE]
        /\ call' = [call EXCEPT ![c] = AC!Idle]
    BY <1>0, <1>3, <1>7 DEF AC!SaveConfirmation
  <2> HIDE DEF s
  <2>3. AC!Shapes'
    BY <2>1, <2>2 DEF AC!ActivationInv, AC!Shapes
  <2>4. \A b \in X : plan'[b] = IF b = a THEN s ELSE plan[b]
    BY <2>2 DEF AC!ActivationInv, AC!Shapes
  <2>5. s # None
    BY <2>1 DEF AC!ActivationBounds
  <2>6. ASSUME NEW v, v # x.version
        PROVE  AC!Catalog(v)' = AC!Catalog(v)
    <3>1. AC!Confirmed(v)' = AC!Confirmed(v)
      BY <1>2, <1>3, <2>1, <2>4, <2>5, <2>6 DEF AC!Confirmed
    <3>2. \A b \in AC!Confirmed(v) : plan'[b] = plan[b]
      BY <1>3, <2>4, <2>6 DEF AC!Confirmed
    <3> QED BY <3>1, <3>2 DEF AC!Catalog
  <2>7. AC!Catalog(x.version)' = {x.program}
    <3>1. AC!Confirmed(x.version)' = AC!Confirmed(x.version) \cup {a}
      BY <1>2, <1>3, <2>1, <2>4, <2>5 DEF AC!Confirmed
    <3>2. \A b \in AC!Confirmed(x.version) : plan[b].program = x.program
      BY <1>4 DEF AC!Catalog
    <3>3. \A b \in AC!Confirmed(x.version) \cup {a} : plan'[b].program = x.program
      BY <1>2, <2>1, <2>4, <3>2 DEF AC!Confirmed
    <3>4. AC!Catalog(x.version)' = {plan'[b].program : b \in AC!Confirmed(x.version)'}
      BY <2>4 DEF AC!Catalog
    <3> QED BY <3>1, <3>3, <3>4
  <2>8. AC!CatalogStands'
    <3>1. ASSUME NEW v \in AC!Versions, NEW q \in AC!Catalog(v)', NEW r \in AC!Catalog(v)'
          PROVE  q = r /\ ship'[q] # "none"
      <4>1. CASE v = x.version
        BY <1>7, <2>2, <2>7, <3>1, <4>1
      <4>2. CASE v # x.version
        BY <2>2, <2>6, <3>1, <4>2 DEF AC!ActivationInv, AC!CatalogStands
      <4> QED BY <4>1, <4>2
    <3>2. ASSUME NEW e \in v7' PROVE e[2] \in AC!Catalog(e[1])'
      <4>1. e[2] \in AC!Catalog(e[1])
        BY <2>2 DEF AC!ActivationInv, AC!CatalogStands
      <4> QED BY <1>4, <2>6, <2>7, <4>1
    <3>3. AC!Versions' = AC!Versions
      BY DEF AC!Versions
    <3> QED BY <3>1, <3>2, <3>3 DEF AC!CatalogStands
  <2>9. ASSUME NEW d \in W PROVE AC!ConfirmationStands(d)'
    <3>1. call'[d] = IF d = c THEN AC!Idle ELSE call[d]
      BY <2>2 DEF AC!ActivationInv, AC!Shapes
    <3>2. CASE d = c
      BY <3>1, <3>2 DEF AC!ConfirmationStands, AC!Idle
    <3>3. CASE d # c
      <4>1. call'[d] = call[d] /\ call[d].phase # "confirming" /\ AC!ConfirmationStands(d)
        BY <1>5, <3>1, <3>3 DEF AC!ActivationInv
      <4>2. CASE call[d].phase = "queued"
        <5>1. call[d] \in AC!Request
          BY <4>2 DEF AC!ActivationInv, AC!Shapes, AC!Idle
        <5>2. call[d].plan \in X /\ plan[call[d].plan] # None
              /\ call[d].version = plan[call[d].plan].version
          BY <4>1, <4>2, <5>1 DEF AC!ConfirmationStands, AC!Request
        <5>3. plan'[call[d].plan] # None /\ plan'[call[d].plan].version = plan[call[d].plan].version
          BY <1>3, <2>1, <2>4, <2>5, <5>2
        <5> QED BY <4>1, <4>2, <5>2, <5>3 DEF AC!ConfirmationStands
      <4>3. CASE call[d].phase # "queued"
        BY <4>1, <4>3 DEF AC!ConfirmationStands
      <4> QED BY <4>2, <4>3
    <3> QED BY <3>2, <3>3
  <2>10. \A p \in Z : AC!PublicationStands(p)'
    BY <2>2, PublicationsKept DEF AC!ActivationInv
  <2>11. (\A b \in X : pending[b] => plan[b] # None)'
    BY <2>2, <2>4, <2>5 DEF AC!ActivationInv, AC!Shapes
  <2> QED BY <2>3, <2>8, <2>9, <2>10, <2>11 DEF AC!ActivationInv
<1> QED BY <1>6, <1>7

\* The wallet ships the plan the browser loaded.
LEMMA ShipKeeps ==
  ASSUME AC!ActivationInv, NEW a \in X, NEW remembers \in BOOLEAN, AC!Ship(a, remembers)
  PROVE  AC!ActivationInv'
<1> DEFINE plan == v3  ship == v4  pending == v5
<1>1. PICK q \in Y : plan[a].program = q
  BY DEF AC!Ship, AC!ActivationInv, AC!Shapes, AC!PlanRow
<1>2. /\ UNCHANGED <<v1, v2, v3, v6, v7>> /\ ship' = [ship EXCEPT ![q] = "shipped"]
      /\ pending' = [pending EXCEPT ![a] = remembers] /\ plan[a] # None
  BY <1>1 DEF AC!Ship
<1>3. AC!Shapes'
  BY <1>2 DEF AC!ActivationInv, AC!Shapes
<1>4. \A v : AC!Catalog(v)' = AC!Catalog(v)
  BY <1>2 DEF AC!Catalog, AC!Confirmed
<1>5. \A r : ship[r] # "none" => ship'[r] # "none"
  BY <1>2 DEF AC!ActivationInv, AC!Shapes
<1>6. AC!CatalogStands'
  BY <1>2, <1>4, <1>5 DEF AC!ActivationInv, AC!CatalogStands
<1>7. (\A b \in X : pending[b] => plan[b] # None)'
  BY <1>2 DEF AC!ActivationInv, AC!Shapes
<1>8. \A p \in Z : AC!PublicationStands(p)'
  BY <1>2, PublicationsKept DEF AC!ActivationInv
<1>9. \A c \in W : AC!ConfirmationStands(c)'
  BY <1>2, <1>4 DEF AC!ActivationInv, AC!ConfirmationStands
<1> QED BY <1>3, <1>6, <1>7, <1>8, <1>9 DEF AC!ActivationInv

\* A shipped program is docked.
LEMMA DockKeeps ==
  ASSUME AC!ActivationInv, NEW q \in Y, AC!Dock(q)
  PROVE  AC!ActivationInv'
<1> DEFINE plan == v3  ship == v4  pending == v5
<1>1. UNCHANGED <<v1, v2, v3, v5, v6, v7>> /\ ship' = [ship EXCEPT ![q] = "docked"]
  BY DEF AC!Dock
<1>2. AC!Shapes'
  BY <1>1 DEF AC!ActivationInv, AC!Shapes
<1>3. \A v : AC!Catalog(v)' = AC!Catalog(v)
  BY <1>1 DEF AC!Catalog, AC!Confirmed
<1>4. \A r : ship[r] # "none" => ship'[r] # "none"
  BY <1>1 DEF AC!ActivationInv, AC!Shapes
<1>5. AC!CatalogStands'
  BY <1>1, <1>3, <1>4 DEF AC!ActivationInv, AC!CatalogStands
<1>6. (\A b \in X : pending[b] => plan[b] # None)'
  BY <1>1 DEF AC!ActivationInv
<1>7. \A p \in Z : AC!PublicationStands(p)'
  BY <1>1, PublicationsKept DEF AC!ActivationInv
<1>8. \A c \in W : AC!ConfirmationStands(c)'
  BY <1>1, <1>3 DEF AC!ActivationInv, AC!ConfirmationStands
<1> QED BY <1>2, <1>5, <1>6, <1>7, <1>8 DEF AC!ActivationInv

\* A release is evaluated with the programs of its catalog.
LEMMA EvaluateKeeps ==
  ASSUME AC!ActivationInv, NEW v \in AC!Versions, AC!Evaluate(v)
  PROVE  AC!ActivationInv'
<1> DEFINE plan == v3  evaluated == v7
<1>1. UNCHANGED <<v1, v2, v3, v4, v5, v6>> /\ evaluated' = evaluated \cup ({v} \X AC!Catalog(v))
  BY DEF AC!Evaluate
<1>2. AC!Catalog(v) \subseteq Y
  BY DEF AC!Catalog, AC!Confirmed, AC!ActivationInv, AC!Shapes, AC!PlanRow
<1>3. AC!Shapes'
  BY <1>1, <1>2 DEF AC!ActivationInv, AC!Shapes, AC!Versions
<1>4. \A w : AC!Catalog(w)' = AC!Catalog(w)
  BY <1>1 DEF AC!Catalog, AC!Confirmed
<1>5. AC!CatalogStands'
  BY <1>1, <1>4 DEF AC!ActivationInv, AC!CatalogStands
<1>6. (\A b \in X : v5[b] => plan[b] # None)'
  BY <1>1 DEF AC!ActivationInv
<1>7. \A p \in Z : AC!PublicationStands(p)'
  BY <1>1, PublicationsKept DEF AC!ActivationInv
<1>8. \A c \in W : AC!ConfirmationStands(c)'
  BY <1>1, <1>4 DEF AC!ActivationInv, AC!ConfirmationStands
<1> QED BY <1>3, <1>5, <1>6, <1>7, <1>8 DEF AC!ActivationInv

\* Every step of the activations keeps their invariant.
LEMMA ActivationsKeep ==
  ASSUME N \in Nat, AC!ActivationBounds, AC!ActivationInv, [AC!Next]_(AC!vars)
  PROVE  AC!ActivationInv'
<1>1. CASE UNCHANGED AC!vars
  <2>1. UNCHANGED <<v1, v2, v3, v4, v5, v6, v7>>
    BY <1>1 DEF AC!vars
  <2>2. AC!Shapes' /\ (\A b \in X : v5[b] => v3[b] # None)'
    BY <2>1 DEF AC!ActivationInv, AC!Shapes
  <2>3. \A p \in Z : AC!PublicationStands(p)'
    BY <2>1, PublicationsKept DEF AC!ActivationInv
  <2>4. \A c \in W : AC!ConfirmationStands(c)'
    BY <2>1 DEF AC!ActivationInv, AC!ConfirmationStands, AC!Catalog, AC!Confirmed
  <2> QED BY <2>1, <2>2, <2>3, <2>4, CatalogKept DEF AC!ActivationInv
<1>2. CASE AC!Next
  BY <1>2, PublishKeeps, LinkKeeps, InsertKeeps, PrepareKeeps, ConfirmKeeps, CheckKeeps, FailKeeps,
     SaveKeeps, ShipKeeps, DockKeeps, EvaluateKeeps DEF AC!Next
<1> QED BY <1>1, <1>2

\* At the start nothing is activated.
LEMMA ActivationsBegin ==
  ASSUME N \in Nat, AC!ActivationBounds, AC!Init
  PROVE  AC!ActivationInv
<1>1. AC!Shapes
  BY DEF AC!Init, AC!Shapes, AC!Idle
<1>2. \A v : AC!Catalog(v) = {}
  BY DEF AC!Init, AC!Catalog, AC!Confirmed
<1>3. \A c \in W : AC!ConfirmationStands(c)
  BY DEF AC!Init, AC!ConfirmationStands, AC!Idle
<1>4. \A p \in Z : AC!PublicationStands(p)
  BY DEF AC!Init, AC!PublicationStands
<1> QED BY <1>1, <1>2, <1>3, <1>4 DEF AC!Init, AC!ActivationInv, AC!CatalogStands

\* Counting in the module of the activations is counting.
LEMMA ActivationsCount == \A S : AC!Cardinality(S) = Cardinality(S)
BY DEF Cardinality, AC!Cardinality

\* The invariant implies the types and that a version has one program.
LEMMA ActivationsHold ==
  ASSUME N \in Nat, AC!ActivationInv
  PROVE  AC!TypeOK /\ AC!OneProgramPerVersion
<1>1. AC!TypeOK
  BY DEF AC!ActivationInv, AC!Shapes, AC!TypeOK, AC!Publication, AC!PlanRow, AC!Request
<1>2. ASSUME NEW v \in AC!Versions PROVE Cardinality(AC!Catalog(v)) <= 1
  <2>1. CASE AC!Catalog(v) = {}
    BY <2>1, FS_EmptySet
  <2>2. CASE AC!Catalog(v) # {}
    <3>1. PICK q : AC!Catalog(v) = {q}
      BY <2>2 DEF AC!ActivationInv, AC!CatalogStands
    <3> QED BY <3>1, FS_Singleton
  <2> QED BY <2>1, <2>2
<1>3. ASSUME NEW v \in AC!Versions
      PROVE  /\ \A q \in AC!Catalog(v) : v4[q] # "none"
             /\ \A e \in v7 : e[1] = v => e[2] \in AC!Catalog(v)
  BY DEF AC!ActivationInv, AC!CatalogStands
<1>4. AC!OneProgramPerVersion
  BY <1>2, <1>3, ActivationsCount DEF AC!OneProgramPerVersion
<1> QED BY <1>1, <1>4

-----------------------------------------------------------------------------
(* The names (EN).                                                         *)

EN == INSTANCE EnsNames WITH
     Providers <- X, Labels <- Z, Writers <- Y, Makers <- Z, MaxVersion <- N,
     owner <- v1, created <- v2, release <- v3, manifests <- v4, pointer <- v5, granted <- v6,
     writer <- v7, maker <- v8, accepted <- v9

\* The releases of a name that was created are a series, and somebody owns it.
LEMMA SeriesAre ==
  ASSUME EN!Shapes, EN!SeriesStand, NEW l \in v2
  PROVE  EN!Release(l) \in EN!Series /\ v1[l] \in X
BY DEF EN!Shapes, EN!SeriesStand, EN!Release

\* A writer goes on with a signed version while manifests are added.
LEMMA WriterGoesOn ==
  ASSUME NEW w, EN!WriterStands(w), v7'[w] = v7[w], v4 \subseteq v4'
  PROVE  EN!WriterStands(w)'
BY DEF EN!WriterStands, EN!Versions

\* A Maker goes on while names are created and versions are withdrawn.
LEMMA MakerGoesOn ==
  ASSUME NEW m, EN!MakerStands(m), v8'[m] = v8[m], v2 \subseteq v2',
         UNCHANGED <<v1, v3>>
  PROVE  EN!MakerStands(m)'
BY DEF EN!MakerStands, EN!Versions, EN!Release

\* What was found signed stays so.
LEMMA NamesStay ==
  ASSUME EN!NameStandsForSigned, v4 \subseteq v4', UNCHANGED <<v5, v9>>
  PROVE  EN!NameStandsForSigned'
BY DEF EN!NameStandsForSigned

\* A Provider claims a name.
LEMMA ClaimKeeps ==
  ASSUME EN!NamesInv, NEW p \in X, NEW l \in Z, None \notin X, EN!Claim(p, l)
  PROVE  EN!NamesInv'
<1>1. /\ v1[l] = None /\ v1' = [v1 EXCEPT ![l] = p]
      /\ UNCHANGED <<v2, v3, v4, v5, v6, v7, v8, v9>>
  BY DEF EN!Claim
<1>2. EN!Shapes'
  BY <1>1 DEF EN!NamesInv, EN!Shapes
<1>3. \A k \in v2 : v1'[k] = v1[k]
  BY <1>1 DEF EN!NamesInv, EN!Shapes, EN!SeriesStand
<1>4. EN!SeriesStand'
  BY <1>1, <1>3 DEF EN!NamesInv, EN!SeriesStand
<1>5. \A w \in Y : EN!WriterStands(w)'
  BY <1>1, WriterGoesOn DEF EN!NamesInv
<1>6. \A m \in Z : EN!MakerStands(m)'
  BY <1>1, <1>3 DEF EN!NamesInv, EN!MakerStands, EN!Release, EN!Versions
<1>7. EN!NameStandsForSigned'
  BY <1>1, NamesStay DEF EN!NamesInv
<1> QED BY <1>2, <1>4, <1>5, <1>6, <1>7 DEF EN!NamesInv

\* A Provider publishes or withdraws a release.
LEMMA PublishReleaseKeeps ==
  ASSUME N \in Nat, EN!NamesInv, NEW p \in X, NEW withdraws \in BOOLEAN, EN!PublishRelease(p, withdraws)
  PROVE  EN!NamesInv'
<1>1. PICK s \in EN!Series : v3[p] = s
  BY DEF EN!NamesInv, EN!Shapes
<1> DEFINE t == [latest |-> s.latest + 1, withdrawn |-> withdraws,
                 through |-> IF withdraws THEN s.latest + 1 ELSE s.through]
<1>2. /\ v3' = [v3 EXCEPT ![p] = t] /\ s.latest < N
      /\ UNCHANGED <<v1, v2, v4, v5, v6, v7, v8, v9>>
  BY <1>1 DEF EN!PublishRelease, EN!chain
<1>3. s.through <= s.latest /\ s.latest \in Nat /\ s.through \in Nat
  BY <1>1 DEF EN!NamesInv, EN!SeriesStand, EN!Series
<1>4. t \in EN!Series /\ t.through <= t.latest /\ s.through <= t.through
  BY <1>2, <1>3 DEF EN!Series
<1> HIDE DEF t
<1>5. \A q \in X : v3'[q] = IF q = p THEN t ELSE v3[q]
  BY <1>2 DEF EN!NamesInv, EN!Shapes
<1>6. EN!Shapes'
  BY <1>2, <1>4 DEF EN!NamesInv, EN!Shapes
<1>7. EN!SeriesStand'
  BY <1>2, <1>4, <1>5 DEF EN!NamesInv, EN!SeriesStand
<1>8. \A w \in Y : EN!WriterStands(w)'
  BY <1>2, WriterGoesOn DEF EN!NamesInv
<1>9. ASSUME NEW m \in Z PROVE EN!MakerStands(m)'
  <2>1. ASSUME NEW l \in v2, NEW b \in Nat, b <= EN!Release(l).through
        PROVE  b <= EN!Release(l)'.through
    <3>1. v1[l] \in X /\ EN!Release(l) = v3[v1[l]] /\ EN!Release(l)' = v3'[v1[l]]
      BY <1>2, SeriesAre DEF EN!NamesInv, EN!Release
    <3>2. CASE v1[l] = p
      BY <1>1, <1>3, <1>4, <1>5, <2>1, <3>1, <3>2 DEF EN!Series
    <3>3. CASE v1[l] # p
      BY <1>5, <2>1, <3>1, <3>3
    <3> QED BY <3>2, <3>3
  <2>2. v8[m] \in EN!Maker /\ EN!MakerStands(m) /\ v8'[m] = v8[m] /\ v2' = v2
    BY <1>2 DEF EN!NamesInv, EN!Shapes
  <2>3. v8[m].begun \in Nat
    BY <2>2 DEF EN!Maker
  <2>4. v8[m].step = "validate" => v8[m].begun <= EN!Release(v8[m].label)'.through
    BY <2>1, <2>2, <2>3 DEF EN!MakerStands
  <2> QED BY <2>2, <2>4 DEF EN!MakerStands, EN!Versions, EN!Release
<1>10. EN!NameStandsForSigned'
  BY <1>2, NamesStay DEF EN!NamesInv
<1> QED BY <1>6, <1>7, <1>8, <1>9, <1>10 DEF EN!NamesInv

\* The owner of a name lets the service write it, or no longer.
LEMMA DelegateKeeps ==
  ASSUME EN!NamesInv, NEW l \in Z, NEW grant \in BOOLEAN, EN!Delegate(l, grant)
  PROVE  EN!NamesInv'
<1>1. UNCHANGED <<v1, v2, v3, v4, v5, v7, v8, v9>> /\ v6' \subseteq Z
  BY DEF EN!Delegate, EN!files, EN!NamesInv, EN!Shapes
<1>2. EN!Shapes' /\ EN!SeriesStand'
  BY <1>1 DEF EN!NamesInv, EN!Shapes, EN!SeriesStand
<1> QED BY <1>1, <1>2, WriterGoesOn, MakerGoesOn, NamesStay DEF EN!NamesInv

\* A writer's own step: what it writes next is signed.
LEMMA WriterStep ==
  ASSUME EN!NamesInv, NEW w \in Y, NEW s \in EN!Writer, v7' = [v7 EXCEPT ![w] = s],
         UNCHANGED <<v1, v3, v6, v8, v9>>,
         v2 \subseteq v2', v2' \subseteq Z, \A l \in v2' : v1[l] \in X,
         v4 \subseteq v4', v4' \subseteq Z \X EN!Versions,
         v5' \in [Z -> 0 .. N], \A l \in Z : v5'[l] > 0 => <<l, v5'[l]>> \in v4',
         s.step # "idle" =>
           /\ s.label \in Z /\ s.version \in EN!Versions
           /\ s.step # "signed" => <<s.label, s.version>> \in v4'
  PROVE  EN!NamesInv'
<1>1. \A x \in Y : v7'[x] = IF x = w THEN s ELSE v7[x]
  BY DEF EN!NamesInv, EN!Shapes
<1>2. EN!Versions' = EN!Versions
  BY DEF EN!Versions
<1>3. EN!Shapes'
  <2>1. v7' \in [Y -> EN!Writer]
    BY DEF EN!NamesInv, EN!Shapes
  <2> QED BY <1>2, <2>1 DEF EN!NamesInv, EN!Shapes
<1>4. EN!SeriesStand'
  BY DEF EN!NamesInv, EN!SeriesStand
<1>5. ASSUME NEW x \in Y PROVE EN!WriterStands(x)'
  <2>1. CASE x = w
    BY <1>1, <1>2, <2>1 DEF EN!WriterStands
  <2>2. CASE x # w
    BY <1>1, <2>2, WriterGoesOn DEF EN!NamesInv
  <2> QED BY <2>1, <2>2
<1>6. \A m \in Z : EN!MakerStands(m)'
  BY MakerGoesOn DEF EN!NamesInv
<1>7. EN!NameStandsForSigned'
  BY DEF EN!NamesInv, EN!NameStandsForSigned
<1> QED BY <1>3, <1>4, <1>5, <1>6, <1>7 DEF EN!NamesInv

\* What the invariant says of owners, manifests and pointers.
LEMMA NamesRest ==
  ASSUME EN!NamesInv
  PROVE  /\ v2 \subseteq Z /\ (\A l \in v2 : v1[l] \in X)
         /\ v4 \subseteq Z \X EN!Versions /\ v5 \in [Z -> 0 .. N]
         /\ \A l \in Z : v5[l] > 0 => <<l, v5[l]>> \in v4
BY DEF EN!NamesInv, EN!Shapes, EN!SeriesStand, EN!NameStandsForSigned

\* No writer is at work at the start.
LEMMA NoWriterStands == EN!NoWriter \in EN!Writer \/ N \notin Nat
BY DEF EN!NoWriter, EN!Writer

\* A manifest is signed for a version.
LEMMA SignKeeps ==
  ASSUME N \in Nat, EN!NamesInv, NEW w \in Y, NEW l \in Z, NEW v \in EN!Versions, EN!Sign(w, l, v)
  PROVE  EN!NamesInv'
<1> DEFINE s == [step |-> "signed", label |-> l, version |-> v]
<1>1. s \in EN!Writer /\ s.step = "signed" /\ s.label = l /\ s.version = v
  BY DEF EN!Writer, EN!Versions
<1>2. /\ v7' = [v7 EXCEPT ![w] = s] /\ UNCHANGED <<v1, v3, v4, v5, v6, v8, v9>>
      /\ v2' = v2 \cup {l} /\ v1[l] # None
  BY DEF EN!Sign, EN!Begin
<1>3. v1[l] \in X
  BY <1>2 DEF EN!NamesInv, EN!Shapes
<1> HIDE DEF s
<1> QED BY <1>1, <1>2, <1>3, NamesRest, WriterStep

\* A signed manifest is stored.
LEMMA SaveManifestKeeps ==
  ASSUME N \in Nat, EN!NamesInv, NEW w \in Y, EN!SaveManifest(w)
  PROVE  EN!NamesInv'
<1>1. EN!NoWriter \in EN!Writer /\ EN!NoWriter.step = "idle"
  BY NoWriterStands DEF EN!NoWriter
<1>2. PICK s \in EN!Writer : v7[w] = s
  BY DEF EN!NamesInv, EN!Shapes
<1>3. s.label \in Z /\ s.version \in EN!Versions
  BY <1>2 DEF EN!SaveManifest, EN!NamesInv, EN!WriterStands
<1>4. /\ v7' = [v7 EXCEPT ![w] = EN!NoWriter] /\ UNCHANGED <<v1, v2, v3, v5, v6, v8, v9>>
      /\ v4' = v4 \/ v4' = v4 \cup {<<s.label, s.version>>}
  BY <1>2 DEF EN!SaveManifest, EN!Wrote, EN!chain
<1>5. v4 \subseteq v4' /\ v4' \subseteq Z \X EN!Versions
  BY <1>3, <1>4, NamesRest
<1>6. v5' \in [Z -> 0 .. N] /\ \A l \in Z : v5'[l] > 0 => <<l, v5'[l]>> \in v4'
  BY <1>4, <1>5, NamesRest
<1> QED BY <1>1, <1>4, <1>5, <1>6, NamesRest, WriterStep

\* The record is chosen, compared, checked again and written.
LEMMA RecordKeeps ==
  ASSUME N \in Nat, EN!NamesInv, NEW w \in Y,
         \/ \E l \in Z, v \in EN!Versions, by \in {"provider", "delegate"} : EN!Choose(w, l, v, by)
         \/ (\E l \in Z : EN!Look(w, l)) \/ EN!Compare(w) \/ EN!Recheck(w)
  PROVE  EN!NamesInv'
<1>1. UNCHANGED <<v1, v2, v3, v4, v5, v6, v8, v9>>
  BY DEF EN!Choose, EN!Look, EN!Compare, EN!Recheck, EN!chain, EN!files
<1>2. PICK s \in EN!Writer : v7[w] = s
  BY DEF EN!NamesInv, EN!Shapes
<1>3. \E r \in EN!Writer :
        /\ v7' = [v7 EXCEPT ![w] = r]
        /\ r.step # "idle" =>
             /\ r.label \in Z /\ r.version \in EN!Versions
             /\ r.step # "signed" => <<r.label, r.version>> \in v4
  <2>1. ASSUME NEW l \in Z, NEW v \in EN!Versions,
               NEW step \in {"provider", "delegate", "compare"}, EN!Begin(w, step, l, v), EN!Approved(l, v)
        PROVE  \E r \in EN!Writer :
                 /\ v7' = [v7 EXCEPT ![w] = r]
                 /\ r.step # "idle" =>
                      /\ r.label \in Z /\ r.version \in EN!Versions
                      /\ r.step # "signed" => <<r.label, r.version>> \in v4
    <3>1. [step |-> step, label |-> l, version |-> v] \in EN!Writer
      BY DEF EN!Writer, EN!Versions
    <3> QED BY <2>1, <3>1 DEF EN!Begin, EN!Approved
  <2>2. CASE \E l \in Z, v \in EN!Versions, by \in {"provider", "delegate"} : EN!Choose(w, l, v, by)
    BY <2>1, <2>2 DEF EN!Choose, EN!Writable
  <2>3. CASE \E l \in Z : EN!Look(w, l)
    BY <2>1, <2>3 DEF EN!Look, EN!LatestApproved
  <2>4. CASE EN!Compare(w) \/ EN!Recheck(w)
    <3>1. \E step \in {"recheck", "delegate"} :
            v7' = [v7 EXCEPT ![w] = [s EXCEPT !.step = step]] \/ v7' = [v7 EXCEPT ![w] = EN!NoWriter]
      BY <1>2, <2>4 DEF EN!Compare, EN!Recheck
    <3>2. PICK step \in {"recheck", "delegate"} :
            v7' = [v7 EXCEPT ![w] = [s EXCEPT !.step = step]] \/ v7' = [v7 EXCEPT ![w] = EN!NoWriter]
      BY <3>1
    <3>3. /\ s.label \in Z /\ s.version \in EN!Versions
          /\ <<s.label, s.version>> \in v4
      BY <1>2, <2>4 DEF EN!Compare, EN!Recheck, EN!NamesInv, EN!WriterStands
    <3> DEFINE r == [s EXCEPT !.step = step]
    <3>4. r \in EN!Writer /\ r.label = s.label /\ r.version = s.version
      BY DEF EN!Writer
    <3>5. EN!NoWriter \in EN!Writer /\ EN!NoWriter.step = "idle"
      BY NoWriterStands DEF EN!NoWriter
    <3> HIDE DEF r
    <3>6. CASE v7' = [v7 EXCEPT ![w] = r]
      BY <3>3, <3>4, <3>6
    <3>7. CASE v7' = [v7 EXCEPT ![w] = EN!NoWriter]
      BY <3>5, <3>7
    <3> QED BY <3>2, <3>6, <3>7 DEF r
  <2> QED BY <2>2, <2>3, <2>4
<1>4. PICK r \in EN!Writer :
        /\ v7' = [v7 EXCEPT ![w] = r]
        /\ r.step # "idle" =>
             /\ r.label \in Z /\ r.version \in EN!Versions
             /\ r.step # "signed" => <<r.label, r.version>> \in v4
  BY <1>3
<1> QED BY <1>1, <1>4, NamesRest, WriterStep

\* The pointer of a name is set to a manifest.
LEMMA SetTextKeeps ==
  ASSUME N \in Nat, EN!NamesInv, NEW w \in Y, EN!SetText(w)
  PROVE  EN!NamesInv'
<1>1. EN!NoWriter \in EN!Writer /\ EN!NoWriter.step = "idle"
  BY NoWriterStands DEF EN!NoWriter
<1>2. PICK s \in EN!Writer : v7[w] = s
  BY DEF EN!NamesInv, EN!Shapes
<1>3. s.label \in Z /\ s.version \in 1 .. N /\ <<s.label, s.version>> \in v4
  BY <1>2 DEF EN!SetText, EN!NamesInv, EN!WriterStands, EN!Versions
<1>4. /\ v7' = [v7 EXCEPT ![w] = EN!NoWriter] /\ UNCHANGED <<v1, v2, v3, v4, v6, v8, v9>>
      /\ v5' = v5 \/ v5' = [v5 EXCEPT ![s.label] = s.version]
  BY <1>2 DEF EN!SetText, EN!Wrote, EN!files
<1>5. v5' \in [Z -> 0 .. N] /\ \A l \in Z : v5'[l] > 0 => <<l, v5'[l]>> \in v4
  BY <1>3, <1>4, NamesRest
<1> QED BY <1>1, <1>4, <1>5, NamesRest, WriterStep

\* A Maker's own step.
LEMMA MakerStep ==
  ASSUME EN!NamesInv, NEW m \in Z, NEW s \in EN!Maker, EN!Goes(m, s),
         s.step # "idle" =>
           /\ s.label \in v2
           /\ s.step = "resolve" => s.read \in EN!Versions
           /\ s.step # "resolve" => s.reviewed \in EN!Versions
           /\ s.step = "validate" => s.begun <= EN!Release(s.label).through,
         v9' \subseteq [label : Z, version : EN!Versions, begun : 0 .. N],
         \A a \in v9' : <<a.label, a.version>> \in v4 /\ a.version > a.begun
  PROVE  EN!NamesInv'
<1>1. UNCHANGED <<v1, v2, v3, v4, v5, v6, v7>> /\ v8' = [v8 EXCEPT ![m] = s]
  BY DEF EN!Goes, EN!chain, EN!files
<1>2. \A x \in Z : v8'[x] = IF x = m THEN s ELSE v8[x]
  BY <1>1 DEF EN!NamesInv, EN!Shapes
<1>3. EN!Versions' = EN!Versions
  BY DEF EN!Versions
<1>4. EN!Shapes'
  <2>1. v8' \in [Z -> EN!Maker]
    BY <1>1 DEF EN!NamesInv, EN!Shapes
  <2> QED BY <1>1, <1>3, <2>1 DEF EN!NamesInv, EN!Shapes
<1>5. EN!SeriesStand'
  BY <1>1 DEF EN!NamesInv, EN!SeriesStand
<1>6. \A w \in Y : EN!WriterStands(w)'
  BY <1>1, WriterGoesOn DEF EN!NamesInv
<1>7. ASSUME NEW x \in Z PROVE EN!MakerStands(x)'
  <2>1. CASE x = m
    BY <1>1, <1>2, <1>3, <2>1 DEF EN!MakerStands, EN!Release
  <2>2. CASE x # m
    BY <1>1, <1>2, <2>2, MakerGoesOn DEF EN!NamesInv
  <2> QED BY <2>1, <2>2
<1>8. EN!NameStandsForSigned'
  BY <1>1 DEF EN!NamesInv, EN!NameStandsForSigned
<1> QED BY <1>4, <1>5, <1>6, <1>7, <1>8 DEF EN!NamesInv

\* What Makers accepted had a manifest, and was newer than what they began with.
LEMMA AcceptedAre ==
  ASSUME EN!NamesInv
  PROVE  /\ v9 \subseteq [label : Z, version : EN!Versions, begun : 0 .. N]
         /\ \A a \in v9 : <<a.label, a.version>> \in v4 /\ a.version > a.begun
BY DEF EN!NamesInv, EN!Shapes, EN!NameStandsForSigned

\* A Maker begins to resolve a name.
LEMMA ResolveKeeps ==
  ASSUME N \in Nat, EN!NamesInv, NEW m \in Z, NEW l \in Z, EN!Resolve(m, l)
  PROVE  EN!NamesInv'
<1> DEFINE s == [EN!NoMaker EXCEPT !.step = "resolve", !.label = l, !.read = v5[l]]
<1>1. v5[l] \in 1 .. N /\ l \in v2
  BY DEF EN!Resolve, EN!Described, EN!NamesInv, EN!Shapes
<1>2. EN!NoMaker \in EN!Maker
  BY DEF EN!NoMaker, EN!Maker
<1>3. s \in EN!Maker /\ s.step = "resolve" /\ s.label = l /\ s.read = v5[l]
  <2>1. PICK n \in 0 .. N : v5[l] = n
    BY <1>1
  <2>2. PICK e \in EN!Maker : e = EN!NoMaker
    BY <1>2
  <2>3. PICK r : r = [e EXCEPT !.step = "resolve", !.label = l, !.read = n]
    OBVIOUS
  <2>4. r \in EN!Maker /\ r.step = "resolve" /\ r.label = l /\ r.read = n
    BY <1>1, <2>3, NamesRest DEF EN!Maker
  <2>5. s = r
    BY <2>1, <2>2, <2>3
  <2> HIDE DEF s
  <2> QED BY <2>1, <2>4, <2>5
<1>4. EN!Goes(m, s) /\ v9' = v9
  BY DEF EN!Resolve
<1> HIDE DEF s
<1> QED BY <1>1, <1>3, <1>4, AcceptedAre, MakerStep DEF EN!Versions

\* A name is resolved to the manifest it points to.
LEMMA ResolvedKeeps ==
  ASSUME N \in Nat, EN!NamesInv, NEW m \in Z, EN!Resolved(m)
  PROVE  EN!NamesInv'
<1>1. PICK s \in EN!Maker : v8[m] = s
  BY DEF EN!NamesInv, EN!Shapes
<1>2. s.label \in v2 /\ s.read \in 1 .. N
  BY <1>1 DEF EN!Resolved, EN!NamesInv, EN!MakerStands, EN!Versions
<1> DEFINE r == [s EXCEPT !.step = "review", !.reviewed = s.read]
<1>3. r \in EN!Maker /\ r.step = "review" /\ r.label = s.label /\ r.reviewed = s.read
  BY <1>2 DEF EN!Maker
<1>4. EN!NoMaker \in EN!Maker /\ EN!NoMaker.step = "idle"
  BY DEF EN!NoMaker, EN!Maker
<1>5. v9' = v9 /\ (EN!Goes(m, r) \/ EN!Goes(m, EN!NoMaker))
  BY <1>1 DEF EN!Resolved
<1> HIDE DEF r
<1>6. CASE EN!Goes(m, r)
  BY <1>2, <1>3, <1>5, <1>6, AcceptedAre, MakerStep DEF EN!Versions
<1>7. CASE EN!Goes(m, EN!NoMaker)
  BY <1>4, <1>5, <1>7, AcceptedAre, MakerStep
<1> QED BY <1>5, <1>6, <1>7

\* The selection is validated: the name is resolved again.
LEMMA AskKeeps ==
  ASSUME N \in Nat, EN!NamesInv, NEW m \in Z, EN!Ask(m)
  PROVE  EN!NamesInv'
<1>1. PICK s \in EN!Maker : v8[m] = s
  BY DEF EN!NamesInv, EN!Shapes
<1>2. s.label \in v2 /\ s.reviewed \in EN!Versions
  BY <1>1 DEF EN!Ask, EN!NamesInv, EN!MakerStands
<1>3. PICK x \in EN!Series : EN!Release(s.label) = x
  BY <1>2, SeriesAre DEF EN!NamesInv
<1>4. v5[s.label] \in 0 .. N /\ x.through \in 0 .. N
  BY <1>2, NamesRest DEF EN!Series
<1> DEFINE r == [s EXCEPT !.step = "validate", !.read = v5[s.label], !.begun = x.through]
<1>5. /\ r \in EN!Maker /\ r.step = "validate" /\ r.label = s.label /\ r.reviewed = s.reviewed
      /\ r.begun = x.through
  BY <1>4 DEF EN!Maker
<1>6. EN!Goes(m, r) /\ v9' = v9
  BY <1>1, <1>3 DEF EN!Ask
<1> HIDE DEF r
<1>7. r.begun <= EN!Release(r.label).through
  BY <1>3, <1>4, <1>5
<1> QED BY <1>2, <1>5, <1>6, <1>7, AcceptedAre, MakerStep

\* A Maker accepts it.
LEMMA AcceptKeeps ==
  ASSUME N \in Nat, EN!NamesInv, NEW m \in Z, EN!Accept(m)
  PROVE  EN!NamesInv'
<1>1. PICK s \in EN!Maker : v8[m] = s
  BY DEF EN!NamesInv, EN!Shapes
<1>2. s.label \in v2 /\ s.label \in Z /\ s.reviewed \in EN!Versions /\ s.begun <= EN!Release(s.label).through
  BY <1>1, NamesRest DEF EN!Accept, EN!NamesInv, EN!MakerStands
<1>3. PICK x \in EN!Series : EN!Release(s.label) = x
  BY <1>2, SeriesAre DEF EN!NamesInv
<1>4. EN!NoMaker \in EN!Maker /\ EN!NoMaker.step = "idle"
  BY DEF EN!NoMaker, EN!Maker
<1>5. EN!Goes(m, EN!NoMaker)
  BY DEF EN!Accept
<1> DEFINE a == [label |-> s.label, version |-> s.reviewed, begun |-> s.begun]
<1>6. CASE v9' = v9
  BY <1>4, <1>5, <1>6, AcceptedAre, MakerStep
<1>7. CASE EN!Validated(m) /\ v9' = v9 \cup {a}
  <2>1. /\ a \in [label : Z, version : EN!Versions, begun : 0 .. N]
        /\ a.label = s.label /\ a.version = s.reviewed /\ a.begun = s.begun
    BY <1>2 DEF EN!Maker
  <2>2. <<s.label, s.reviewed>> \in v4 /\ s.reviewed > x.through
    BY <1>1, <1>3, <1>7 DEF EN!Validated, EN!Approved, EN!Published
  <2>3. s.reviewed \in Nat /\ s.begun \in Nat /\ x.through \in Nat
    BY <1>2 DEF EN!Versions, EN!Maker, EN!Series
  <2>4. a.version > a.begun
    BY <1>2, <1>3, <2>1, <2>2, <2>3
  <2> HIDE DEF a
  <2> QED BY <1>4, <1>5, <1>7, <2>1, <2>2, <2>4, AcceptedAre, MakerStep
<1> QED BY <1>1, <1>6, <1>7 DEF EN!Accept

\* Every step of the names keeps their invariant.
LEMMA NamesKeep ==
  ASSUME N \in Nat, None \notin X, EN!NamesInv, [EN!Next]_(EN!vars)
  PROVE  EN!NamesInv'
<1>1. CASE UNCHANGED EN!vars
  <2>1. UNCHANGED <<v1, v2, v3, v4, v5, v6, v7, v8, v9>>
    BY <1>1 DEF EN!vars
  <2>2. EN!Shapes' /\ EN!SeriesStand'
    BY <2>1 DEF EN!NamesInv, EN!Shapes, EN!SeriesStand
  <2> QED BY <2>1, <2>2, WriterGoesOn, MakerGoesOn, NamesStay DEF EN!NamesInv
<1>2. CASE EN!Next
  BY <1>2, ClaimKeeps, PublishReleaseKeeps, DelegateKeeps, SignKeeps, SaveManifestKeeps, RecordKeeps,
     SetTextKeeps, ResolveKeeps, ResolvedKeeps, AskKeeps, AcceptKeeps DEF EN!Next
<1> QED BY <1>1, <1>2

\* At the start no name is claimed.
LEMMA NamesBegin ==
  ASSUME N \in Nat, EN!Init
  PROVE  EN!NamesInv
<1>1. EN!NoWriter \in EN!Writer /\ EN!NoWriter.step = "idle"
  BY DEF EN!NoWriter, EN!Writer
<1>2. EN!NoMaker \in EN!Maker /\ EN!NoMaker.step = "idle"
  BY DEF EN!NoMaker, EN!Maker
<1>3. [latest |-> 0, withdrawn |-> FALSE, through |-> 0] \in EN!Series
  BY DEF EN!Series
<1>4. EN!Shapes /\ EN!SeriesStand
  BY <1>1, <1>2, <1>3 DEF EN!Init, EN!Shapes, EN!SeriesStand
<1>5. EN!NameStandsForSigned
  BY DEF EN!Init, EN!NameStandsForSigned
<1> QED BY <1>1, <1>2, <1>4, <1>5 DEF EN!Init, EN!NamesInv, EN!WriterStands, EN!MakerStands

\* The invariant implies the types and that a name stands for what was signed.
LEMMA NamesHold == EN!NamesInv => EN!TypeOK /\ EN!NameStandsForSigned
BY DEF EN!NamesInv, EN!Shapes, EN!TypeOK

-----------------------------------------------------------------------------
(* The drafts (DR).                                                        *)

DR == INSTANCE StrategyDrafts WITH
     Pairs <- X, Texts <- Y, Bound <- N, MaxRevision <- N + 2, Unresolved <- z1,
     pinned <- v1, draft <- v2, revision <- v3, history <- v4, agent <- v5, decided <- v6

\* A patch gives amounts and prices in units of the pair the draft then has.
LEMMA PatchMeans ==
  ASSUME DR!Apart, NEW d \in DR!Content, DR!Means(d), NEW pair \in X \cup {z1},
         NEW p \in DR!Patches(pair), DR!Allowed(d, p), NEW unit \in DR!Units,
         unit \in X => unit = IF p.pair = None THEN d.pair ELSE p.pair
  PROVE  DR!Patched(d, p, unit) \in DR!Content /\ DR!Means(DR!Patched(d, p, unit))
<1> DEFINE q == DR!Patched(d, p, unit)
<1>1. /\ p.pair \in X \cup {None} /\ p.amount \in {None, pair} /\ p.cap \in 0 .. N
      /\ p.curve \in DR!Curves \cup {None} /\ p.need \in Y \cup {None}
  BY DEF DR!Patches, DR!Apart
<1>2. /\ d.pair \in X \cup {None} /\ d.amount \in DR!Units \cup {None} /\ d.cap \in 0 .. N
      /\ d.curve \in DR!Curves \cup {None} /\ d.unit \in DR!Units \cup {None}
      /\ d.need \in Y \cup {None} /\ d.accepted \in BOOLEAN
  BY DEF DR!Content
<1>3. /\ q.pair = (IF p.pair = None THEN d.pair ELSE p.pair)
      /\ q.amount = (IF p.amount = None THEN d.amount ELSE unit)
      /\ q.cap = (IF p.cap = 0 THEN d.cap ELSE p.cap)
      /\ q.curve = (IF p.curve = None THEN d.curve ELSE p.curve)
      /\ q.unit = (IF p.curve = None THEN d.unit ELSE IF p.curve = "xyc" THEN None ELSE unit)
      /\ q.need = (IF p.need = None THEN d.need ELSE p.need)
      /\ q.accepted = (d.accepted /\ p.need \in {None, d.need})
  BY DEF DR!Patched, DR!Accepted
<1>4. q \in DR!Content
  <2>1. (d.accepted /\ p.need \in {None, d.need}) \in BOOLEAN
    OBVIOUS
  <2> QED BY <1>1, <1>2, <2>1 DEF DR!Patched, DR!Accepted, DR!Content
<1>5. q.pair = d.pair \/ d.pair = None \/ ~DR!PairIsHeld(d)
  BY <1>3 DEF DR!Allowed
<1>6. d.amount \in X => d.amount = q.pair
  BY <1>3, <1>5 DEF DR!Means, DR!PairIsHeld, DR!HasAmounts, DR!Apart
<1>7. d.unit \in X => d.unit = q.pair
  BY <1>3, <1>5 DEF DR!Means, DR!PairIsHeld, DR!Apart
<1> HIDE DEF q
<1>8. q.amount \in X => q.amount = q.pair
  BY <1>3, <1>6
<1>9. q.unit \in X => q.unit = q.pair
  BY <1>3, <1>7 DEF DR!Apart
<1>10. ~DR!Priced(q) => q.unit = None
  BY <1>1, <1>3 DEF DR!Means, DR!Priced, DR!Curves
<1>11. q.accepted => q.need \in v6
  BY <1>3 DEF DR!Means
<1> QED BY <1>4, <1>8, <1>9, <1>10, <1>11 DEF DR!Means, q

\* A new revision that means what was said keeps the draft so.
LEMMA PersistKeeps ==
  ASSUME N \in Nat, DR!DraftInv, NEW d \in DR!Content, NEW byAgent \in BOOLEAN,
         DR!Persist(d, byAgent), v1' = v1, v6 \subseteq v6', v6' \subseteq Y, DR!Means(d)'
  PROVE  DR!DraftInv'
<1> DEFINE draft == v2  revision == v3  history == v4  agent == v5
<1>1. /\ draft' = d /\ revision' = revision + 1 /\ history' = Append(history, d)
      /\ revision < N + 2 /\ DR!WithinTemplate(d)
  BY DEF DR!Persist
<1>2. history \in Seq(DR!Content) /\ Len(history) = revision /\ revision \in 1 .. N + 2
  BY DEF DR!DraftInv
<1>3. revision' \in 1 .. N + 2 /\ revision' = revision + 1
  BY <1>1, <1>2
<1>4. history' \in Seq(DR!Content) /\ Len(history') = revision' /\ history'[revision'] = d
  BY <1>1, <1>2
<1>5. ASSUME NEW r \in 1 .. revision' PROVE DR!Means(history[r])'
  <2>1. CASE r = revision'
    BY <1>4, <2>1 DEF DR!Means, DR!Priced
  <2>2. CASE r # revision'
    <3>1. history'[r] = history[r] /\ r \in 1 .. revision
      BY <1>1, <1>2, <1>3, <2>2
    <3>2. DR!Means(history[r])
      BY <3>1 DEF DR!DraftInv
    <3> QED BY <3>1, <3>2 DEF DR!Means, DR!Priced
  <2> QED BY <2>1, <2>2
<1>6. /\ agent' \in [busy : BOOLEAN, pair : X \cup {None}, expected : Nat, turn : BOOLEAN]
      /\ ~(agent'.busy /\ agent'.turn)
  <2>1. CASE byAgent
    BY <2>1 DEF DR!Persist, DR!NoCall
  <2>2. CASE ~byAgent
    <3>1. PICK a \in [busy : BOOLEAN, pair : X \cup {None}, expected : Nat, turn : BOOLEAN] : agent = a
      BY DEF DR!DraftInv
    <3>2. agent' = [a EXCEPT !.turn = FALSE]
      BY <2>2, <3>1 DEF DR!Persist, DR!Superseded
    <3> QED BY <3>2
  <2> QED BY <2>1, <2>2
<1>7. DR!WithinTemplate(draft)'
  BY <1>1 DEF DR!WithinTemplate
<1> QED BY <1>1, <1>3, <1>4, <1>5, <1>6, <1>7 DEF DR!DraftInv

\* A draft means as much when more has been said.
LEMMA MeansMore ==
  ASSUME NEW d, DR!Means(d), v6 \subseteq v6'
  PROVE  DR!Means(d)'
BY DEF DR!Means, DR!Priced

\* The owner edits the draft.
LEMMA OwnerPatches ==
  ASSUME N \in Nat, DR!Apart, DR!DraftInv, DR!PatchByOwner
  PROVE  DR!DraftInv'
<1> DEFINE draft == v2
<1>0. PICK d \in DR!Content : draft = d
  BY DEF DR!DraftInv
<1> DEFINE known == IF d.pair = None THEN z1 ELSE d.pair
<1>1. PICK pair \in X \cup {known} : \E p \in DR!Patches(pair) :
        /\ DR!Allowed(d, p)
        /\ DR!Persist(DR!Patched(d, p, IF p.pair = None THEN known ELSE p.pair), FALSE)
  BY <1>0 DEF DR!PatchByOwner
<1>2. PICK p \in DR!Patches(pair) :
        /\ DR!Allowed(d, p)
        /\ DR!Persist(DR!Patched(d, p, IF p.pair = None THEN known ELSE p.pair), FALSE)
  BY <1>1
<1> DEFINE unit == IF p.pair = None THEN known ELSE p.pair
<1>3. d.pair \in X \cup {None} /\ known \in X \cup {z1}
  BY DEF DR!Content
<1>4. p.pair \in {None} \cup X
  BY <1>1, <1>3 DEF DR!Patches, DR!Apart
<1>5. unit \in DR!Units /\ (unit \in X => unit = IF p.pair = None THEN d.pair ELSE p.pair)
  BY <1>3, <1>4 DEF DR!Units, DR!Apart
<1>6. DR!Means(d)
  BY <1>0 DEF DR!DraftInv
<1>7. pair \in X \cup {z1}
  BY <1>1, <1>3
<1> HIDE DEF unit, known
<1>8. DR!Patched(d, p, unit) \in DR!Content /\ DR!Means(DR!Patched(d, p, unit))
  BY <1>2, <1>5, <1>6, <1>7, PatchMeans
<1>9. PICK q : q = DR!Patched(d, p, unit)
  OBVIOUS
<1>10. q \in DR!Content /\ DR!Means(q) /\ DR!Persist(q, FALSE)
  BY <1>2, <1>8, <1>9 DEF unit
<1>11. UNCHANGED <<v1, v6>> /\ v6 \subseteq Y
  BY DEF DR!PatchByOwner, DR!DraftInv
<1>12. DR!Means(q)'
  BY <1>10, <1>11, MeansMore
<1> QED BY <1>10, <1>11, <1>12, PersistKeeps

\* An agent edits the draft it read.
LEMMA AgentPatchKeeps ==
  ASSUME N \in Nat, DR!Apart, DR!DraftInv, DR!AgentPatches
  PROVE  DR!DraftInv'
<1> DEFINE draft == v2  agent == v5
<1>0. PICK d \in DR!Content : draft = d
  BY DEF DR!DraftInv
<1>1. agent.pair = d.pair /\ d.pair \in X \cup {None}
  BY <1>0 DEF DR!AgentPatches, DR!DraftInv, DR!Content
<1>2. PICK pair \in X : \E p \in DR!Patches(pair) :
        /\ p.pair = None => d.pair = pair
        /\ DR!Allowed(d, p) /\ DR!Persist(DR!Patched(d, p, pair), TRUE)
  BY <1>0, <1>1 DEF DR!AgentPatches
<1>3. PICK p \in DR!Patches(pair) :
        /\ p.pair = None => d.pair = pair
        /\ DR!Allowed(d, p) /\ DR!Persist(DR!Patched(d, p, pair), TRUE)
  BY <1>2
<1>4. p.pair \in {None, pair}
  BY DEF DR!Patches
<1>5. pair \in DR!Units /\ (pair \in X => pair = IF p.pair = None THEN d.pair ELSE p.pair)
  BY <1>3, <1>4 DEF DR!Units
<1>6. DR!Means(d)
  BY <1>0 DEF DR!DraftInv
<1>7. DR!Patched(d, p, pair) \in DR!Content /\ DR!Means(DR!Patched(d, p, pair))
  BY <1>3, <1>5, <1>6, PatchMeans
<1>8. PICK q : q = DR!Patched(d, p, pair)
  OBVIOUS
<1>9. q \in DR!Content /\ DR!Means(q) /\ DR!Persist(q, TRUE)
  BY <1>3, <1>7, <1>8
<1>10. UNCHANGED <<v1, v6>> /\ v6 \subseteq Y
  BY DEF DR!AgentPatches, DR!DraftInv
<1>11. DR!Means(q)'
  BY <1>9, <1>10, MeansMore
<1> QED BY <1>9, <1>10, <1>11, PersistKeeps

\* The owner or an agent restores a revision.
LEMMA RestoreKeeps ==
  ASSUME N \in Nat, DR!DraftInv, NEW r \in 1 .. N + 2, DR!Restore(r) \/ DR!AgentRestores(r)
  PROVE  DR!DraftInv'
<1> DEFINE revision == v3  history == v4
<1>1. /\ r < revision /\ UNCHANGED <<v1, v6>> /\ v6 \subseteq Y
      /\ DR!Persist(history[r], FALSE) \/ DR!Persist(history[r], TRUE)
  BY DEF DR!Restore, DR!AgentRestores, DR!DraftInv
<1>2. r \in 1 .. revision /\ history \in Seq(DR!Content) /\ Len(history) = revision
  BY <1>1 DEF DR!DraftInv
<1>3. PICK d \in DR!Content : history[r] = d
  BY <1>2
<1>4. DR!Means(d)
  BY <1>2, <1>3 DEF DR!DraftInv
<1>5. DR!Means(d)'
  BY <1>1, <1>4, MeansMore
<1> QED BY <1>1, <1>3, <1>5, PersistKeeps

\* The owner acknowledges a requirement.
LEMMA AcknowledgeKeeps ==
  ASSUME N \in Nat, DR!DraftInv, DR!Acknowledge
  PROVE  DR!DraftInv'
<1> DEFINE draft == v2  revision == v3  history == v4
<1>1. PICK d \in DR!Content : draft = d
  BY DEF DR!DraftInv
<1> DEFINE q == [d EXCEPT !.accepted = TRUE]
<1>2. /\ q \in DR!Content /\ q.pair = d.pair /\ q.amount = d.amount /\ q.unit = d.unit
      /\ q.curve = d.curve /\ q.need = d.need
  BY DEF DR!Content
<1>3. d.need \in Y /\ v6' = v6 \cup {d.need} /\ v6' \subseteq Y /\ DR!Persist(q, FALSE) /\ v1' = v1
  BY <1>1 DEF DR!Acknowledge, DR!Content, DR!DraftInv
<1> HIDE DEF q
<1>4. DR!Means(d)
  BY <1>1 DEF DR!DraftInv
<1>5. DR!Means(q)'
  BY <1>2, <1>3, <1>4 DEF DR!Means, DR!Priced
<1> QED BY <1>2, <1>3, <1>5, PersistKeeps

\* An agent reads the draft, or is refused.
LEMMA AgentLooks ==
  ASSUME DR!DraftInv, DR!AgentReads \/ DR!AgentIsRefused
  PROVE  DR!DraftInv'
<1>1. UNCHANGED <<v1, v2, v3, v4, v6>>
  BY DEF DR!AgentReads, DR!AgentIsRefused
<1>2. /\ v5' \in [busy : BOOLEAN, pair : X \cup {None}, expected : Nat, turn : BOOLEAN]
      /\ v5'.busy /\ v5'.turn => v5'.pair = v2.pair
  <2>1. CASE DR!AgentReads
    <3>1. v2.pair \in X \cup {None} /\ v3 \in Nat
      BY DEF DR!DraftInv, DR!Content
    <3> QED BY <2>1, <3>1 DEF DR!AgentReads
  <2>2. CASE DR!AgentIsRefused
    BY <2>2 DEF DR!AgentIsRefused, DR!NoCall
  <2> QED BY <2>1, <2>2
<1>3. \A r \in 1 .. v3 : DR!Means(v4[r])'
  BY <1>1, MeansMore DEF DR!DraftInv
<1> QED BY <1>1, <1>2, <1>3 DEF DR!DraftInv, DR!WithinTemplate, DR!Means, DR!Priced

\* Every step of the drafts keeps their invariant.
LEMMA DraftsKeep ==
  ASSUME N \in Nat, DR!Apart, DR!DraftInv, [DR!Next]_(DR!vars)
  PROVE  DR!DraftInv'
<1>1. CASE UNCHANGED DR!vars
  BY <1>1 DEF DR!vars, DR!DraftInv, DR!WithinTemplate, DR!Means, DR!Priced
<1>2. CASE DR!Next
  BY <1>2, OwnerPatches, AgentPatchKeeps, RestoreKeeps, AcknowledgeKeeps, AgentLooks DEF DR!Next
<1> QED BY <1>1, <1>2

\* At the start the draft is empty.
LEMMA DraftsBegin ==
  ASSUME DR!Apart, DR!Init
  PROVE  DR!DraftInv
<1>1. v1 \in X \cup {None}
  BY DEF DR!Init
<1>2. DR!Empty \in DR!Content
  BY DEF DR!Empty, DR!Content, DR!Apart
<1>3. ASSUME v1 = None PROVE v2 \in DR!Content /\ DR!WithinTemplate(v2) /\ DR!Means(v2)
  <2>1. v2 = DR!Empty
    BY <1>3 DEF DR!Init
  <2>2. DR!WithinTemplate(v2) /\ DR!Means(v2)
    BY <1>3, <2>1 DEF DR!WithinTemplate, DR!Means, DR!Priced, DR!Empty, DR!Apart
  <2> QED BY <1>2, <2>1, <2>2
<1>4. ASSUME v1 # None PROVE v2 \in DR!Content /\ DR!WithinTemplate(v2) /\ DR!Means(v2)
  <2>1. v2 = [DR!Empty EXCEPT !.pair = v1, !.cap = N, !.curve = "fixed", !.unit = v1]
    BY <1>4 DEF DR!Init, DR!Resolved
  <2>2. ASSUME NEW e \in DR!Content, NEW d, d = [e EXCEPT !.pair = v1, !.cap = N, !.curve = "fixed", !.unit = v1]
        PROVE  /\ d \in DR!Content /\ d.pair = v1 /\ d.cap = N /\ d.curve = "fixed" /\ d.unit = v1
               /\ d.amount = e.amount /\ d.accepted = e.accepted
    <3>1. v1 \in X /\ N \in 0 .. N
      BY <1>1, <1>4 DEF DR!Apart
    <3> QED BY <2>2, <3>1 DEF DR!Content, DR!Curves, DR!Units
  <2>3. /\ v2 \in DR!Content /\ v2.pair = v1 /\ v2.cap = N /\ v2.curve = "fixed" /\ v2.unit = v1
        /\ v2.amount = None /\ v2.accepted = FALSE
    <3>1. DR!Empty.amount = None /\ DR!Empty.accepted = FALSE
      BY DEF DR!Empty
    <3> QED BY <1>2, <2>1, <2>2, <3>1
  <2>4. DR!WithinTemplate(v2) /\ DR!Means(v2)
    BY <2>3 DEF DR!WithinTemplate, DR!Means, DR!Priced, DR!Apart
  <2> QED BY <2>3, <2>4
<1>5. v2 \in DR!Content /\ DR!WithinTemplate(v2) /\ DR!Means(v2)
  BY <1>3, <1>4
<1>6. v4 \in Seq(DR!Content) /\ Len(v4) = 1 /\ v4[1] = v2 /\ v3 = 1
  BY <1>5 DEF DR!Init
<1>7. \A r \in 1 .. v3 : DR!Means(v4[r])
  BY <1>5, <1>6
<1>8. 1 \in 1 .. N + 2 /\ 0 \in Nat
  BY DEF DR!Apart
<1> QED BY <1>1, <1>5, <1>6, <1>7, <1>8 DEF DR!Init, DR!DraftInv, DR!NoCall

\* The invariant implies the types and that a draft means what was said.
LEMMA DraftsHold ==
  ASSUME DR!DraftInv
  PROVE  DR!TypeOK /\ DR!DraftMeansWhatWasSaid
<1>1. v4 \in [1 .. v3 -> DR!Content]
  BY DEF DR!DraftInv
<1>2. DR!Means(v2)
  BY DEF DR!DraftInv
<1> QED BY <1>1, <1>2 DEF DR!DraftInv, DR!TypeOK, DR!DraftMeansWhatWasSaid, DR!Means

-----------------------------------------------------------------------------
(* The templates (TM): v1 the Provider's draft, v2 the revisions reviewed,  *)
(* v3 the profile, v4 the intents, v5 the versions, v6 those withdrawn, v7  *)
(* the requests under way, v8 the versions drafts were made from.           *)

TM == INSTANCE Templates WITH
     Intents <- X, Instances <- Y, MaxRevision <- N, MaxProfile <- N,
     revision <- v1, reviewed <- v2, profile <- v3, intents <- v4, versions <- v5,
     withdrawn <- v6, calls <- v7, pins <- v8, monitored <- v9

\* Counting in the module of the templates is counting.
LEMMA SeriesCounts == \A S : TM!Cardinality(S) = Cardinality(S)
BY DEF Cardinality, TM!Cardinality

\* As long as an intent is not signed there is a number left for it.
LEMMA NumberIsLeft ==
  ASSUME IsFiniteSet(X), TM!SeriesInv, NEW i \in X, v4[i] = None
  PROVE  Len(v5) + 1 \in 1..Cardinality(X)
<1> DEFINE versions == v5
<1>1. versions \in Seq(X) /\ Len(versions) \in Nat /\ DOMAIN versions = 1..Len(versions)
  BY DEF TM!SeriesInv, TM!Rows
<1>2. \A v \in 1..Len(versions) : versions[v] \in X \ {i} /\ v4[versions[v]].version = v
  BY <1>1 DEF TM!SeriesInv, TM!Published
<1>3. versions \in Injection(1..Len(versions), X \ {i})
  <2>1. versions \in [1..Len(versions) -> X \ {i}]
    BY <1>1, <1>2
  <2>2. \A v, w \in 1..Len(versions) : versions[v] = versions[w] => v = w
    BY <1>2
  <2> QED BY <2>1, <2>2 DEF Injection, IsInjective
<1>4. IsFiniteSet(X \ {i}) /\ Cardinality(X \ {i}) = Cardinality(X) - 1 /\ Cardinality(X) \in Nat
  BY FS_RemoveElement, FS_CardinalityType
<1>5. Cardinality(1..Len(versions)) <= Cardinality(X \ {i})
  BY <1>3, <1>4, FS_Injection
<1>6. Cardinality(1..Len(versions)) = Len(versions)
  BY <1>1, FS_Interval
<1> QED BY <1>1, <1>4, <1>5, <1>6

\* A Provider prepares a version of a template.
LEMMA PrepareVersionKeeps ==
  ASSUME IsFiniteSet(X), TM!NoSigned, TM!SeriesInv, NEW i \in X, TM!PrepareVersion(i)
  PROVE  TM!SeriesInv'
<1>1. PICK r : r = [version |-> Len(v5) + 1, revision |-> v1, profile |-> v3, open |-> TRUE]
  OBVIOUS
<1>2. /\ v4[i] = None /\ v1 \in v2 /\ v4' = [v4 EXCEPT ![i] = r]
      /\ UNCHANGED <<v1, v2, v3, v5, v6, v7, v8, v9>>
  BY <1>1 DEF TM!PrepareVersion
<1>3. Len(v5) + 1 \in Nat \ {0} /\ Len(v5) + 1 <= Cardinality(X)
  BY <1>2, NumberIsLeft
<1>4. r \in TM!SignedRow /\ r.revision = v1 /\ r.version = Len(v5) + 1 /\ r # None
  <2>1. v1 \in 1..N /\ v3 \in 1..N
    BY DEF TM!SeriesInv, TM!Rows
  <2>2. r \in TM!SignedRow /\ r.revision = v1 /\ r.version = Len(v5) + 1
    BY <1>1, <1>3, <2>1 DEF TM!SignedRow
  <2> QED BY <2>2 DEF TM!NoSigned
<1>5. \A j \in X : v4'[j] = IF j = i THEN r ELSE v4[j]
  BY <1>2 DEF TM!SeriesInv, TM!Rows
<1>6. TM!Rows'
  BY <1>2, <1>4 DEF TM!SeriesInv, TM!Rows
<1>7. TM!Published'
  <2>1. \A v \in DOMAIN v5 : v5[v] \in X /\ v5[v] # i
    BY <1>2 DEF TM!SeriesInv, TM!Rows, TM!Published
  <2> QED BY <1>2, <1>5, <2>1 DEF TM!SeriesInv, TM!Published
<1>8. TM!Reviewed'
  BY <1>2, <1>3, <1>4, <1>5, SeriesCounts DEF TM!SeriesInv, TM!Reviewed
<1>9. TM!Taken'
  BY <1>2 DEF TM!SeriesInv, TM!Taken
<1> QED BY <1>6, <1>7, <1>8, <1>9 DEF TM!SeriesInv

\* A prepared version expires.
LEMMA ExpireKeeps ==
  ASSUME TM!NoSigned, TM!SeriesInv, NEW i \in X, TM!Expire(i)
  PROVE  TM!SeriesInv'
<1>1. PICK r \in TM!SignedRow : r = v4[i]
  BY DEF TM!Expire, TM!SeriesInv, TM!Rows
<1>2. PICK t : t = [r EXCEPT !.open = FALSE]
  OBVIOUS
<1>3. t \in TM!SignedRow /\ t.version = r.version /\ t.revision = r.revision
  BY <1>1, <1>2 DEF TM!SignedRow
<1>4. v4' = [v4 EXCEPT ![i] = t] /\ UNCHANGED <<v1, v2, v3, v5, v6, v7, v8, v9>>
  BY <1>1, <1>2 DEF TM!Expire, TM!SeriesInv, TM!Rows
<1>5. \A j \in X : v4'[j] = IF j = i THEN t ELSE v4[j]
  BY <1>4 DEF TM!SeriesInv, TM!Rows
<1>6. TM!Rows'
  BY <1>3, <1>4 DEF TM!SeriesInv, TM!Rows
<1>7. \A v \in DOMAIN v5 : v5[v] \in X
  BY DEF TM!SeriesInv, TM!Rows
<1>8. TM!Published'
  BY <1>1, <1>3, <1>4, <1>5, <1>7 DEF TM!SeriesInv, TM!Published, TM!NoSigned
<1>9. TM!Reviewed'
  BY <1>1, <1>3, <1>4, <1>5 DEF TM!SeriesInv, TM!Reviewed, TM!NoSigned
<1>10. TM!Taken'
  BY <1>4 DEF TM!SeriesInv, TM!Taken
<1> QED BY <1>6, <1>8, <1>9, <1>10 DEF TM!SeriesInv

\* The versions are those there were, and with a publication one more.
LEMMA Appended ==
  ASSUME TM!SeriesInv, NEW i \in X, v5' = Append(v5, i)
  PROVE  /\ v5' \in Seq(X) /\ DOMAIN v5' = DOMAIN v5 \cup {Len(v5) + 1}
         /\ v5'[Len(v5) + 1] = i /\ \A v \in DOMAIN v5 : v5'[v] = v5[v]
<1>1. v5 \in Seq(X)
  BY DEF TM!SeriesInv, TM!Rows
<1> QED BY <1>1

\* A signed version is published.
LEMMA PublishTemplateKeeps ==
  ASSUME TM!SeriesInv, NEW i \in X, TM!Publish(i)
  PROVE  TM!SeriesInv'
<1>1. /\ v4[i] # None /\ v4[i].version = Len(v5) + 1 /\ v5' = Append(v5, i)
      /\ UNCHANGED <<v1, v2, v3, v4, v6, v7, v8, v9>>
  BY DEF TM!Publish, TM!MyTurn
<1>2. /\ v5' \in Seq(X) /\ DOMAIN v5' = DOMAIN v5 \cup {Len(v5) + 1}
      /\ v5'[Len(v5) + 1] = i /\ \A v \in DOMAIN v5 : v5'[v] = v5[v]
  BY <1>1, Appended
<1>3. TM!Rows'
  BY <1>1, <1>2 DEF TM!SeriesInv, TM!Rows
<1>4. TM!Published'
  BY <1>1, <1>2 DEF TM!SeriesInv, TM!Published
<1>5. TM!Reviewed' /\ TM!Taken'
  BY <1>1, <1>2 DEF TM!SeriesInv, TM!Reviewed, TM!Taken
<1> QED BY <1>3, <1>4, <1>5 DEF TM!SeriesInv

\* The steps that do not touch the catalog.
LEMMA SeriesGoesOn ==
  ASSUME TM!SeriesInv, UNCHANGED <<v4, v5>>, TM!Rows', v2 \subseteq v2', TM!Taken'
  PROVE  TM!SeriesInv'
BY DEF TM!SeriesInv, TM!Published, TM!Reviewed

\* Every step of a series keeps its invariant.
LEMMA SeriesKeep ==
  ASSUME N \in Nat, IsFiniteSet(X), TM!NoSigned, TM!SeriesInv, [TM!Next]_(TM!vars)
  PROVE  TM!SeriesInv'
<1> USE DEF TM!SeriesInv
<1>1. CASE TM!Edit
  BY <1>1, SeriesGoesOn DEF TM!Edit, TM!Rows, TM!Taken
<1>2. CASE TM!Review
  BY <1>2, SeriesGoesOn DEF TM!Review, TM!Rows, TM!Taken
<1>3. CASE TM!Deploy
  BY <1>3, SeriesGoesOn DEF TM!Deploy, TM!Rows, TM!Taken
<1>4. ASSUME NEW i \in X, TM!PrepareVersion(i) \/ TM!Expire(i) \/ TM!Publish(i) PROVE TM!SeriesInv'
  BY <1>4, PrepareVersionKeeps, ExpireKeeps, PublishTemplateKeeps
<1>5. ASSUME NEW v \in DOMAIN v5, TM!Withdraw(v) PROVE TM!SeriesInv'
  <2>1. TM!Rows'
    BY <1>5 DEF TM!Withdraw, TM!Rows
  <2> QED BY <1>5, <2>1, SeriesGoesOn DEF TM!Withdraw, TM!Taken
<1>6. ASSUME NEW v \in DOMAIN v5, NEW n \in Y, TM!ReadPrice(n, v) PROVE TM!SeriesInv'
  <2>1. v \in Nat
    BY DEF TM!Rows
  <2>2. TM!Rows' /\ TM!Taken'
    BY <1>6, <2>1 DEF TM!ReadPrice, TM!Rows, TM!Taken
  <2> QED BY <1>6, <2>2, SeriesGoesOn DEF TM!ReadPrice
<1>7. ASSUME NEW n \in Y, TM!Instantiate(n) PROVE TM!SeriesInv'
  <2>1. TM!Rows' /\ TM!Taken'
    BY <1>7 DEF TM!Instantiate, TM!Rows, TM!Taken
  <2> QED BY <1>7, <2>1, SeriesGoesOn DEF TM!Instantiate
<1>8. ASSUME NEW n \in Y, TM!Abandon(n) PROVE TM!SeriesInv'
  <2>1. TM!Rows' /\ TM!Taken'
    BY <1>8 DEF TM!Abandon, TM!Rows, TM!Taken
  <2> QED BY <1>8, <2>1, SeriesGoesOn DEF TM!Abandon
<1>9. ASSUME NEW n \in Y, TM!Enable(n) PROVE TM!SeriesInv'
  <2>1. TM!Rows' /\ TM!Taken'
    BY <1>9 DEF TM!Enable, TM!Rows, TM!Taken
  <2> QED BY <1>9, <2>1, SeriesGoesOn DEF TM!Enable
<1>10. CASE UNCHANGED TM!vars
  BY <1>10 DEF TM!vars, TM!Rows, TM!Published, TM!Reviewed, TM!Taken
<1> QED BY <1>1, <1>2, <1>3, <1>4, <1>5, <1>6, <1>7, <1>8, <1>9, <1>10 DEF TM!Next

\* At the start no template is published.
LEMMA SeriesBegin == N \in Nat \ {0} /\ TM!Init => TM!SeriesInv
BY DEF TM!Init, TM!SeriesInv, TM!Rows, TM!Published, TM!Reviewed, TM!Taken

\* The invariant implies the types.
LEMMA SeriesHold ==
  ASSUME IsFiniteSet(X), TM!SeriesInv PROVE TM!TypeOK
<1>1. \A i \in X : v4[i] = None \/ v4[i] \in
        [version : 1 .. TM!Cardinality(X), revision : 1 .. N, profile : 1 .. N, open : BOOLEAN]
  BY SeriesCounts, FS_CardinalityType DEF TM!SeriesInv, TM!Rows, TM!Reviewed, TM!SignedRow
<1> QED BY <1>1 DEF TM!SeriesInv, TM!Rows, TM!Taken, TM!TypeOK

\* What a Maker reads in the catalog is what the Provider signed, and stays so.
LEMMA SeriesIsSigned ==
  ASSUME TM!SeriesInv, [TM!Next]_(TM!vars)
  PROVE  TM!CatalogIsSigned
<1>1. \A v \in DOMAIN v5 : v4[v5[v]] # None /\ v4[v5[v]].version = v /\ v4[v5[v]].revision \in v2
  BY DEF TM!SeriesInv, TM!Published, TM!Reviewed, TM!Rows
<1>2. ASSUME NEW i \in X, TM!Publish(i) PROVE TM!CatalogIsSigned
  <2>1. /\ v4[i] # None /\ v4[i].version = Len(v5) + 1 /\ v5' = Append(v5, i) /\ v8' = v8
    BY <1>2 DEF TM!Publish, TM!MyTurn
  <2>2. /\ v5' \in Seq(X) /\ DOMAIN v5' = DOMAIN v5 \cup {Len(v5) + 1}
        /\ v5'[Len(v5) + 1] = i /\ \A v \in DOMAIN v5 : v5'[v] = v5[v]
    BY <2>1, Appended
  <2>3. v4[i].revision \in v2
    BY <2>1 DEF TM!SeriesInv, TM!Reviewed
  <2> QED BY <1>1, <2>1, <2>2, <2>3 DEF TM!CatalogIsSigned
<1>3. ASSUME NEW n \in Y, TM!Instantiate(n) PROVE TM!CatalogIsSigned
  <2>1. PICK c : c = v7[n]
    OBVIOUS
  <2>2. /\ c \in DOMAIN v5 \ v6 /\ v4[v5[c]].profile = v3 /\ v8' = [v8 EXCEPT ![n] = c] /\ v5' = v5
    BY <1>3, <2>1 DEF TM!Instantiate, TM!StillAvailable, TM!Available
  <2>3. \A m \in Y : v8'[m] = IF m = n THEN c ELSE v8[m]
    BY <2>2 DEF TM!SeriesInv, TM!Rows
  <2> QED BY <1>1, <2>2, <2>3 DEF TM!CatalogIsSigned
<1>4. CASE UNCHANGED <<v5, v8>>
  BY <1>1, <1>4 DEF TM!CatalogIsSigned
<1> QED
  BY <1>2, <1>3, <1>4 DEF TM!Next, TM!vars, TM!Edit, TM!Review, TM!Deploy, TM!PrepareVersion, TM!Expire,
     TM!Withdraw, TM!ReadPrice, TM!Abandon, TM!Enable

-----------------------------------------------------------------------------
(* The first guard (G1): v2 the clock, v3 the reports in force, v4 those    *)
(* accepted.                                                                *)

G1 == INSTANCE AquaGuardV1 WITH
     Strategies <- X, Workflows <- W, Workflow <- z1, Reports <- Older, Pair <- 0,
     Most <- 2, Post <- 3, Start <- 2, MaxLifetime <- 2, MaxTime <- N + 1, MaxSwaps <- 1,
     simulationMode <- v1, now <- v2, stored <- v3, seen <- v4, balance <- v5, swaps <- v6

\* A new report is the newest: no log of its strategy has its nonce or a later one.
LEMMA ReportRenews ==
  ASSUME G1!Assigned, G1!Known, G1!NewestInForce, NEW r \in Older, NEW w \in W, G1!OnReport(r, w)
  PROVE  \A a \in v4 : a[1].strategy = r.strategy => a[1].nonce < r.nonce
<1> SUFFICES ASSUME NEW a \in v4, a[1].strategy = r.strategy
             PROVE  a[1].nonce < r.nonce
  OBVIOUS
<1>1. PICK q \in v3[r.strategy] : a[1].nonce <= q.nonce
  BY DEF G1!NewestInForce
<1>2. q.nonce < r.nonce
  BY DEF G1!OnReport, G1!Newer
<1>3. a[1] \in Older /\ q \in Older
  BY DEF G1!Known, G1!Assigned
<1> QED BY <1>1, <1>2, <1>3 DEF G1!Assigned

\* Only an accepted report changes what is in force.
LEMMA InForceKeeps ==
  ASSUME G1!Assigned, G1!Known, G1!NewestInForce, [G1!Next]_(G1!vars)
  PROVE  G1!Known' /\ G1!NewestInForce'
<1>1. CASE \E r \in Older, w \in W : G1!OnReport(r, w)
  <2>1. PICK r \in Older, w \in W : G1!OnReport(r, w)
    BY <1>1
  <2>2. \A a \in v4 : a[1].strategy = r.strategy => a[1].nonce < r.nonce
    BY <2>1, ReportRenews
  <2>3. r.strategy \in X /\ r.nonce \in Nat
    BY DEF G1!Assigned
  <2>4. /\ v4' = v4 \union {<<r, w>>} /\ v1' = v1
        /\ DOMAIN v3' = X
        /\ \A s \in X : v3'[s] = IF s = r.strategy THEN {r} ELSE v3[s]
    BY <2>1 DEF G1!OnReport, G1!Known
  <2>5. G1!Known'
    BY <2>4 DEF G1!Known
  <2>6. \A a \in v4' : a \in v4 \/ (a[1] = r /\ a[2] = w)
    BY <2>4
  <2>7. \A a \in v4 : a[1] \in Older
    BY DEF G1!Known
  <2>8. \A a, b \in v4' : a[1].strategy = b[1].strategy /\ a[1].nonce = b[1].nonce => a[1] = b[1]
    <3> SUFFICES ASSUME NEW a \in v4', NEW b \in v4',
                        a[1].strategy = b[1].strategy, a[1].nonce = b[1].nonce
                 PROVE  a[1] = b[1]
      OBVIOUS
    <3>1. CASE a \in v4 /\ b \in v4
      BY <3>1 DEF G1!NewestInForce
    <3>2. CASE a \in v4 /\ b[1] = r
      BY <3>2, <2>2, <2>3
    <3>3. CASE a[1] = r /\ b \in v4
      BY <3>3, <2>2, <2>3
    <3> QED BY <3>1, <3>2, <3>3, <2>6
  <2>9. \A a \in v4' : \E q \in v3'[a[1].strategy] : a[1].nonce <= q.nonce
    <3> SUFFICES ASSUME NEW a \in v4'
                 PROVE  \E q \in v3'[a[1].strategy] : a[1].nonce <= q.nonce
      OBVIOUS
    <3>1. CASE a[1].strategy = r.strategy
      <4>1. a[1].nonce <= r.nonce /\ a[1].nonce \in Nat
        BY <3>1, <2>2, <2>3, <2>6, <2>7 DEF G1!Assigned
      <4> QED BY <4>1, <3>1, <2>3, <2>4
    <3>2. CASE a[1].strategy # r.strategy
      <4>1. a \in v4 /\ a[1].strategy \in X
        BY <3>2, <2>6, <2>7 DEF G1!Assigned
      <4> QED BY <4>1, <3>2, <2>4 DEF G1!NewestInForce
    <3> QED BY <3>1, <3>2
  <2>10. ~v1' => \A a \in v4' : a[2] = z1
    BY <2>1, <2>4, <2>6 DEF G1!NewestInForce, G1!OnReport, G1!Authentic
  <2> QED BY <2>5, <2>8, <2>9, <2>10 DEF G1!NewestInForce
<1>2. CASE UNCHANGED <<v1, v3, v4>>
  BY <1>2 DEF G1!Known, G1!NewestInForce
<1> QED BY <1>1, <1>2 DEF G1!Next, G1!Swap, G1!Tick, G1!vars

\* A report replaces the one it renews.
LEMMA SingleKeeps ==
  ASSUME N + 1 \in Nat, G1!Assigned, G1!Known, G1!Single, [G1!Next]_(G1!vars)
  PROVE  G1!Single'
<1>1. ASSUME NEW r \in Older, NEW w \in W, G1!OnReport(r, w) PROVE G1!Single'
  <2>1. r.strategy \in X
    BY DEF G1!Assigned
  <2>2. v2' = v2 /\ \A s \in X : v3'[s] = IF s = r.strategy THEN {r} ELSE v3[s]
    BY <1>1, <2>1 DEF G1!OnReport, G1!Known
  <2> QED BY <2>2 DEF G1!Single
<1>2. CASE G1!Tick
  BY <1>2 DEF G1!Tick, G1!Single
<1>3. CASE UNCHANGED <<v2, v3>>
  BY <1>3 DEF G1!Single
<1> QED BY <1>1, <1>2, <1>3 DEF G1!Next, G1!Swap, G1!vars

\* One report at most is in force for a strategy.
LEMMA FirstGuardHolds ==
  ASSUME G1!InForceInv, N + 1 \in Nat
  PROVE  G1!TypeOK /\ G1!NewestInForce
<1> SUFFICES ASSUME NEW s \in X PROVE Cardinality(v3[s]) <= 1
  BY DEF G1!InForceInv, G1!Single, G1!TypeOK, Cardinality, G1!Cardinality
<1>1. CASE v3[s] = {}
  BY <1>1, FS_EmptySet
<1>2. CASE v3[s] # {}
  <2>1. PICK r \in v3[s] : TRUE
    BY <1>2
  <2>2. v3[s] = {r}
    BY DEF G1!InForceInv, G1!Single
  <2>3. Cardinality({r}) = 1
    BY FS_Singleton
  <2> QED BY <2>2, <2>3
<1> QED BY <1>1, <1>2

\* Every step of the first guard keeps its invariant.
LEMMA FirstGuardKeeps ==
  ASSUME N + 1 \in Nat, G1!Assigned, G1!InForceInv, [G1!Next]_(G1!vars)
  PROVE  G1!InForceInv'
  BY InForceKeeps, SingleKeeps DEF G1!InForceInv

\* At the start nothing is in force.
LEMMA FirstGuardBegins == N + 1 \in Nat /\ G1!Init => G1!InForceInv
  BY DEF G1!Init, G1!InForceInv, G1!Known, G1!Single, G1!NewestInForce
=============================================================================
