------------------------ MODULE DesktopWrites_proofs ------------------------
(***************************************************************************)
(* Proofs about DesktopWrites for every set of calls, every batch size and *)
(* every bound: its inductive invariant IInv, the safety properties that   *)
(* follow from it, and the refinement of AtomicStore.                      *)
(*                                                                         *)
(* One lemma per part of IInv.  The parts about the queue are proved from  *)
(* QueueCases, which reduces a step to what it does to the queue.          *)
(***************************************************************************)
EXTENDS DesktopWrites, TLAPS

LEMMA TypeStep ==
  TypeOK /\ [Next]_vars => TypeOK'
PROOF
<1> SUFFICES ASSUME TypeOK, [Next]_vars PROVE TypeOK'
  OBVIOUS
<1> USE CallAssumption, BoundAssumption DEF TypeOK, JsStates, NativeStates, Alive, pageVars, historyVars, nativeVars, dbVars, updVars, boundVars
<1>1. ASSUME NEW c \in Calls, Call(c) PROVE TypeOK'
  <2>1. js' \in [Calls -> JsStates]
    BY <1>1 DEF Call
  <2>2. tail' \in Calls \cup {NoCall}
    BY <1>1 DEF Call
  <2>3. prev' \in [Calls -> Calls \cup {NoCall}]
    <3>1. prev' = prev \/ prev' = [prev EXCEPT ![c] = tail]
      BY <1>1 DEF Call
    <3> QED
      BY <3>1
  <2>4. issued' \in Nat /\ ticket' \in [Calls -> Nat]
    <3>1. CASE c \in Direct
      BY <1>1, <3>1 DEF Call
    <3>2. CASE c \notin Direct
      <4>1. issued' = issued + 1 /\ ticket' = [ticket EXCEPT ![c] = issued + 1]
        BY <1>1, <3>2 DEF Call, Queued
      <4>2. issued + 1 \in Nat
        OBVIOUS
      <4> QED
        BY <4>1, <4>2
    <3> QED
      BY <3>1, <3>2
  <2>5. UNCHANGED <<released, attempt, nativeVars, dbVars, preparing, updVars, proc, boundVars>>
    BY <1>1 DEF Call
  <2> QED
    BY <2>1, <2>2, <2>3, <2>4, <2>5
<1>2. ASSUME NEW c \in Calls, Invoke(c) PROVE TypeOK'
  BY <1>2 DEF Invoke
<1>3. ASSUME NEW c \in Calls, InvokeNothing(c) PROVE TypeOK'
  BY <1>3 DEF InvokeNothing, Settle, Previous
<1>4. ASSUME NEW c \in Calls, WorkFails(c) PROVE TypeOK'
  BY <1>4 DEF WorkFails, Settle, Previous
<1>5. ASSUME NEW c \in Calls, Retry(c) PROVE TypeOK'
  <2>1. attempt' \in [Calls -> Nat]
    <3>1. attempt[c] \in Nat
      OBVIOUS
    <3> HIDE CallAssumption, BoundAssumption DEF TypeOK
    <3>2. attempt[c] + 1 \in Nat
      BY <3>1
    <3> USE DEF TypeOK
    <3> QED
      BY <1>5, <3>2 DEF Retry
  <2>2. native' \in [Calls -> NativeStates]
    BY <1>5 DEF Retry
  <2> QED
    BY <1>5, <2>1, <2>2 DEF Retry
<1>6. ASSUME NEW c \in Calls, Answer(c) PROVE TypeOK'
  BY <1>6 DEF Answer, Settle
<1>7. ASSUME NEW c \in Calls, CheckFlag(c) PROVE TypeOK'
  BY <1>7 DEF CheckFlag
<1>8. ASSUME NEW c \in Calls, CountIn(c) PROVE TypeOK'
  BY <1>8 DEF CountIn
<1>9. ASSUME NEW c \in Calls, Recheck(c) PROVE TypeOK'
  BY <1>9 DEF Recheck
<1>10. ASSUME NEW c \in Calls, NotBegun(c) PROVE TypeOK'
  BY <1>10 DEF NotBegun, Return
<1>11. ASSUME NEW c \in Calls, BeginImmediate(c) PROVE TypeOK'
  BY <1>11 DEF BeginImmediate
<1>12. ASSUME NEW c \in Calls, Statement(c) PROVE TypeOK'
  <2>1. done' \in [Calls -> Nat]
    <3>1. done[c] \in Nat
      OBVIOUS
    <3> HIDE CallAssumption, BoundAssumption DEF TypeOK
    <3>2. done[c] + 1 \in Nat
      BY <3>1
    <3> USE DEF TypeOK
    <3> QED
      BY <1>12, <3>2 DEF Statement
  <2> QED
    BY <1>12, <2>1 DEF Statement
<1>13. ASSUME NEW c \in Calls, RollBack(c) PROVE TypeOK'
  BY <1>13 DEF RollBack, Return
<1>14. ASSUME NEW c \in Calls, Commit(c) PROVE TypeOK'
  <2>1. commits' \in Seq(Calls)
    BY <1>14 DEF Commit
  <2>2. rows' \in [Calls -> Nat]
    BY <1>14 DEF Commit
  <2>3. done' \in [Calls -> Nat]
    BY <1>14 DEF Commit
  <2>4. native' \in [Calls -> NativeStates] /\ active' \subseteq Calls
    BY <1>14 DEF Commit, Return
  <2> QED
    BY <1>14, <2>1, <2>2, <2>3, <2>4 DEF Commit
<1>15. ASSUME ClaimUpdate PROVE TypeOK'
  BY <1>15 DEF ClaimUpdate
<1>16. ASSUME LookAtOperations PROVE TypeOK'
  BY <1>16 DEF LookAtOperations, Disappoint
<1>17. ASSUME PreparationFails PROVE TypeOK'
  BY <1>17 DEF PreparationFails, Disappoint
<1>18. ASSUME PreparationSucceeds PROVE TypeOK'
  BY <1>18 DEF PreparationSucceeds
<1>19. ASSUME CancelUpdate PROVE TypeOK'
  BY <1>19 DEF CancelUpdate
<1>20. ASSUME Reload PROVE TypeOK'
  BY <1>20 DEF Reload, LosePage
<1>21. ASSUME BeginShutdown PROVE TypeOK'
  BY <1>21 DEF BeginShutdown
<1>22. ASSUME Stop PROVE TypeOK'
  <2>1. js' \in [Calls -> JsStates]
    BY <1>22 DEF Stop, LosePage
  <2>2. native' \in [Calls -> NativeStates]
    BY <1>22 DEF Stop
  <2>3. done' \in [Calls -> Nat]
    BY <1>22 DEF Stop
  <2>4. stops' \in Nat /\ active' \subseteq Calls
    BY <1>22 DEF Stop
  <2> QED
    BY <1>22, <2>1, <2>2, <2>3, <2>4 DEF Stop, LosePage
<1>23. ASSUME Start PROVE TypeOK'
  BY <1>23 DEF Start
<1>24. CASE UNCHANGED vars
  BY <1>24 DEF vars
<1> QED
  BY <1>1, <1>2, <1>3, <1>4, <1>5, <1>6, <1>7, <1>8, <1>9, <1>10, <1>11, <1>12, <1>13, <1>14, <1>15, <1>16, <1>17, <1>18, <1>19, <1>20, <1>21, <1>22, <1>23, <1>24
  DEF Next, PageStep, NativeStep, UpdateStep

LEMMA GuardStep ==
  TypeOK /\ StoredInv /\ GuardInv /\ [Next]_vars => GuardInv'
PROOF
<1> SUFFICES ASSUME TypeOK, StoredInv, GuardInv, [Next]_vars PROVE GuardInv'
  OBVIOUS
<1> USE CallAssumption, BoundAssumption DEF TypeOK, JsStates, NativeStates, Alive, GuardInv, pageVars, historyVars, nativeVars, dbVars, updVars, boundVars
<1>1. ASSUME NEW c \in Calls, Call(c) PROVE GuardInv'
  BY <1>1 DEF Call
<1>2. ASSUME NEW c \in Calls, Invoke(c) PROVE GuardInv'
  <2>1. \A x \in Calls : native'[x] = IF x = c THEN "entering" ELSE native[x]
    BY <1>2 DEF Invoke
  <2>2. writer # c
    BY <1>2 DEF Invoke, StoredInv, StoredAt
  <2> QED
    BY <1>2, <2>1, <2>2 DEF Invoke
<1>3. ASSUME NEW c \in Calls, InvokeNothing(c) PROVE GuardInv'
  BY <1>3 DEF InvokeNothing, Settle, Previous
<1>4. ASSUME NEW c \in Calls, WorkFails(c) PROVE GuardInv'
  BY <1>4 DEF WorkFails, Settle, Previous
<1>5. ASSUME NEW c \in Calls, Retry(c) PROVE GuardInv'
  BY <1>5 DEF Retry
<1>6. ASSUME NEW c \in Calls, Answer(c) PROVE GuardInv'
  BY <1>6 DEF Answer, Settle
<1>7. ASSUME NEW c \in Calls, CheckFlag(c) PROVE GuardInv'
  BY <1>7 DEF CheckFlag
<1>8. ASSUME NEW c \in Calls, CountIn(c) PROVE GuardInv'
  BY <1>8 DEF CountIn
<1>9. ASSUME NEW c \in Calls, Recheck(c) PROVE GuardInv'
  <2>1. native[c] = "counted" /\ native'[c] \in {"refused", "admitted"} /\ UNCHANGED writer
    BY <1>9 DEF Recheck
  <2>2. \A x \in Calls : x # c => native'[x] = native[x]
    BY <1>9 DEF Recheck
  <2>3. active' = active \/ (native'[c] = "refused" /\ active' = active \ {c})
    BY <1>9 DEF Recheck
  <2> QED
    BY <2>1, <2>2, <2>3
<1>10. ASSUME NEW c \in Calls, NotBegun(c) PROVE GuardInv'
  BY <1>10 DEF NotBegun, Return
<1>11. ASSUME NEW c \in Calls, BeginImmediate(c) PROVE GuardInv'
  BY <1>11 DEF BeginImmediate
<1>12. ASSUME NEW c \in Calls, Statement(c) PROVE GuardInv'
  BY <1>12 DEF Statement
<1>13. ASSUME NEW c \in Calls, RollBack(c) PROVE GuardInv'
  BY <1>13 DEF RollBack, Return
<1>14. ASSUME NEW c \in Calls, Commit(c) PROVE GuardInv'
  BY <1>14 DEF Commit, Return
<1>15. ASSUME ClaimUpdate PROVE GuardInv'
  BY <1>15 DEF ClaimUpdate
<1>16. ASSUME LookAtOperations PROVE GuardInv'
  BY <1>16 DEF LookAtOperations, Disappoint
<1>17. ASSUME PreparationFails PROVE GuardInv'
  BY <1>17 DEF PreparationFails, Disappoint
<1>18. ASSUME PreparationSucceeds PROVE GuardInv'
  BY <1>18 DEF PreparationSucceeds
<1>19. ASSUME CancelUpdate PROVE GuardInv'
  BY <1>19 DEF CancelUpdate
<1>20. ASSUME Reload PROVE GuardInv'
  BY <1>20 DEF Reload, LosePage
<1>21. ASSUME BeginShutdown PROVE GuardInv'
  BY <1>21 DEF BeginShutdown
<1>22. ASSUME Stop PROVE GuardInv'
  BY <1>22 DEF Stop, LosePage
<1>23. ASSUME Start PROVE GuardInv'
  BY <1>23 DEF Start
<1>24. CASE UNCHANGED vars
  BY <1>24 DEF vars
<1> QED
  BY <1>1, <1>2, <1>3, <1>4, <1>5, <1>6, <1>7, <1>8, <1>9, <1>10, <1>11, <1>12, <1>13, <1>14, <1>15, <1>16, <1>17, <1>18, <1>19, <1>20, <1>21, <1>22, <1>23, <1>24
  DEF Next, PageStep, NativeStep, UpdateStep

LEMMA UpdateInvStep ==
  TypeOK /\ GuardInv /\ UpdateInv /\ [Next]_vars => UpdateInv'
PROOF
<1> SUFFICES ASSUME TypeOK, GuardInv, UpdateInv, [Next]_vars PROVE UpdateInv'
  OBVIOUS
<1> USE CallAssumption, BoundAssumption DEF TypeOK, JsStates, NativeStates, Alive, GuardInv, UpdateInv, PreparedQuiet, pageVars, historyVars, nativeVars, dbVars, updVars, boundVars
<1>1. ASSUME NEW c \in Calls, Call(c) PROVE UpdateInv'
  BY <1>1 DEF Call
<1>2. ASSUME NEW c \in Calls, Invoke(c) PROVE UpdateInv'
  BY <1>2 DEF Invoke
<1>3. ASSUME NEW c \in Calls, InvokeNothing(c) PROVE UpdateInv'
  BY <1>3 DEF InvokeNothing, Settle, Previous
<1>4. ASSUME NEW c \in Calls, WorkFails(c) PROVE UpdateInv'
  BY <1>4 DEF WorkFails, Settle, Previous
<1>5. ASSUME NEW c \in Calls, Retry(c) PROVE UpdateInv'
  BY <1>5 DEF Retry
<1>6. ASSUME NEW c \in Calls, Answer(c) PROVE UpdateInv'
  BY <1>6 DEF Answer, Settle
<1>7. ASSUME NEW c \in Calls, CheckFlag(c) PROVE UpdateInv'
  BY <1>7 DEF CheckFlag
<1>8. ASSUME NEW c \in Calls, CountIn(c) PROVE UpdateInv'
  BY <1>8 DEF CountIn
<1>9. ASSUME NEW c \in Calls, Recheck(c) PROVE UpdateInv'
  BY <1>9 DEF Recheck
<1>10. ASSUME NEW c \in Calls, NotBegun(c) PROVE UpdateInv'
  BY <1>10 DEF NotBegun, Return
<1>11. ASSUME NEW c \in Calls, BeginImmediate(c) PROVE UpdateInv'
  BY <1>11 DEF BeginImmediate
<1>12. ASSUME NEW c \in Calls, Statement(c) PROVE UpdateInv'
  BY <1>12 DEF Statement
<1>13. ASSUME NEW c \in Calls, RollBack(c) PROVE UpdateInv'
  BY <1>13 DEF RollBack, Return
<1>14. ASSUME NEW c \in Calls, Commit(c) PROVE UpdateInv'
  BY <1>14 DEF Commit, Return
<1>15. ASSUME ClaimUpdate PROVE UpdateInv'
  BY <1>15 DEF ClaimUpdate
<1>16. ASSUME LookAtOperations PROVE UpdateInv'
  BY <1>16 DEF LookAtOperations, Disappoint
<1>17. ASSUME PreparationFails PROVE UpdateInv'
  BY <1>17 DEF PreparationFails, Disappoint
<1>18. ASSUME PreparationSucceeds PROVE UpdateInv'
  BY <1>18 DEF PreparationSucceeds
<1>19. ASSUME CancelUpdate PROVE UpdateInv'
  BY <1>19 DEF CancelUpdate
<1>20. ASSUME Reload PROVE UpdateInv'
  BY <1>20 DEF Reload, LosePage
<1>21. ASSUME BeginShutdown PROVE UpdateInv'
  BY <1>21 DEF BeginShutdown
<1>22. ASSUME Stop PROVE UpdateInv'
  BY <1>22 DEF Stop, LosePage
<1>23. ASSUME Start PROVE UpdateInv'
  BY <1>23 DEF Start
<1>24. CASE UNCHANGED vars
  BY <1>24 DEF vars
<1> QED
  BY <1>1, <1>2, <1>3, <1>4, <1>5, <1>6, <1>7, <1>8, <1>9, <1>10, <1>11, <1>12, <1>13, <1>14, <1>15, <1>16, <1>17, <1>18, <1>19, <1>20, <1>21, <1>22, <1>23, <1>24
  DEF Next, PageStep, NativeStep, UpdateStep

LEMMA StoredStep ==
  TypeOK /\ GuardInv /\ StoredInv /\ [Next]_vars => StoredInv'
PROOF
<1> SUFFICES ASSUME TypeOK, GuardInv, StoredInv, [Next]_vars, NEW d \in Calls
             PROVE  StoredAt(d)'
  BY DEF StoredInv
<1> StoredAt(d)
  BY DEF StoredInv
<1> USE CallAssumption, BoundAssumption DEF TypeOK, JsStates, NativeStates, Alive, GuardInv, StoredAt, Settled, pageVars, historyVars, nativeVars, dbVars, updVars, boundVars
<1>1. ASSUME NEW c \in Calls, Call(c) PROVE StoredAt(d)'
  BY <1>1 DEF Call
<1>2. ASSUME NEW c \in Calls, Invoke(c) PROVE StoredAt(d)'
  BY <1>2 DEF Invoke
<1>3. ASSUME NEW c \in Calls, InvokeNothing(c) PROVE StoredAt(d)'
  BY <1>3 DEF InvokeNothing, Settle, Previous
<1>4. ASSUME NEW c \in Calls, WorkFails(c) PROVE StoredAt(d)'
  BY <1>4 DEF WorkFails, Settle, Previous
<1>5. ASSUME NEW c \in Calls, Retry(c) PROVE StoredAt(d)'
  BY <1>5 DEF Retry
<1>6. ASSUME NEW c \in Calls, Answer(c) PROVE StoredAt(d)'
  BY <1>6 DEF Answer, Settle
<1>7. ASSUME NEW c \in Calls, CheckFlag(c) PROVE StoredAt(d)'
  BY <1>7 DEF CheckFlag
<1>8. ASSUME NEW c \in Calls, CountIn(c) PROVE StoredAt(d)'
  BY <1>8 DEF CountIn
<1>9. ASSUME NEW c \in Calls, Recheck(c) PROVE StoredAt(d)'
  BY <1>9 DEF Recheck
<1>10. ASSUME NEW c \in Calls, NotBegun(c) PROVE StoredAt(d)'
  BY <1>10 DEF NotBegun, Return
<1>11. ASSUME NEW c \in Calls, BeginImmediate(c) PROVE StoredAt(d)'
  BY <1>11 DEF BeginImmediate
<1>12. ASSUME NEW c \in Calls, Statement(c) PROVE StoredAt(d)'
  BY <1>12 DEF Statement
<1>13. ASSUME NEW c \in Calls, RollBack(c) PROVE StoredAt(d)'
  BY <1>13 DEF RollBack, Return
<1>14. ASSUME NEW c \in Calls, Commit(c) PROVE StoredAt(d)'
  BY <1>14 DEF Commit, Return
<1>15. ASSUME ClaimUpdate PROVE StoredAt(d)'
  BY <1>15 DEF ClaimUpdate
<1>16. ASSUME LookAtOperations PROVE StoredAt(d)'
  BY <1>16 DEF LookAtOperations, Disappoint
<1>17. ASSUME PreparationFails PROVE StoredAt(d)'
  BY <1>17 DEF PreparationFails, Disappoint
<1>18. ASSUME PreparationSucceeds PROVE StoredAt(d)'
  BY <1>18 DEF PreparationSucceeds
<1>19. ASSUME CancelUpdate PROVE StoredAt(d)'
  BY <1>19 DEF CancelUpdate
<1>20. ASSUME Reload PROVE StoredAt(d)'
  BY <1>20 DEF Reload, LosePage
<1>21. ASSUME BeginShutdown PROVE StoredAt(d)'
  BY <1>21 DEF BeginShutdown
<1>22. ASSUME Stop PROVE StoredAt(d)'
  BY <1>22 DEF Stop, LosePage
<1>23. ASSUME Start PROVE StoredAt(d)'
  BY <1>23 DEF Start
<1>24. CASE UNCHANGED vars
  BY <1>24 DEF vars
<1> QED
  BY <1>1, <1>2, <1>3, <1>4, <1>5, <1>6, <1>7, <1>8, <1>9, <1>10, <1>11, <1>12, <1>13, <1>14, <1>15, <1>16, <1>17, <1>18, <1>19, <1>20, <1>21, <1>22, <1>23, <1>24
  DEF Next, PageStep, NativeStep, UpdateStep

(* What appending a call to the log does, stated over its domain.          *)
LEMMA AppendFacts ==
  ASSUME NEW s \in Seq(Calls), NEW x \in Calls
  PROVE  /\ DOMAIN Append(s, x) = DOMAIN s \cup {Len(s) + 1}
         /\ Len(s) \in Nat /\ DOMAIN s \subseteq Nat
         /\ Len(s) + 1 \notin DOMAIN s
         /\ \A i \in DOMAIN s : Append(s, x)[i] = s[i] /\ i < Len(s) + 1
         /\ Append(s, x)[Len(s) + 1] = x
PROOF
<1>1. DOMAIN s = 1..Len(s) /\ Len(s) \in Nat
  OBVIOUS
<1>2. DOMAIN Append(s, x) = 1..(Len(s) + 1)
  OBVIOUS
<1>3. 1..(Len(s) + 1) = 1..Len(s) \cup {Len(s) + 1}
  BY <1>1
<1> QED
  BY <1>1, <1>2, <1>3

LEMMA LogStep ==
  TypeOK /\ StoredInv /\ LogInv /\ [Next]_vars => LogInv'
PROOF
<1> SUFFICES ASSUME TypeOK, StoredInv, LogInv, [Next]_vars PROVE LogInv'
  OBVIOUS
<1> USE CallAssumption, BoundAssumption DEF TypeOK, JsStates, NativeStates, Alive, LogInv, pageVars, historyVars, nativeVars, dbVars, updVars, boundVars
<1>1. ASSUME NEW c \in Calls, Call(c) PROVE LogInv'
  BY <1>1 DEF Call
<1>2. ASSUME NEW c \in Calls, Invoke(c) PROVE LogInv'
  BY <1>2 DEF Invoke
<1>3. ASSUME NEW c \in Calls, InvokeNothing(c) PROVE LogInv'
  BY <1>3 DEF InvokeNothing, Settle, Previous
<1>4. ASSUME NEW c \in Calls, WorkFails(c) PROVE LogInv'
  BY <1>4 DEF WorkFails, Settle, Previous
<1>5. ASSUME NEW c \in Calls, Retry(c) PROVE LogInv'
  BY <1>5 DEF Retry
<1>6. ASSUME NEW c \in Calls, Answer(c) PROVE LogInv'
  BY <1>6 DEF Answer, Settle
<1>7. ASSUME NEW c \in Calls, CheckFlag(c) PROVE LogInv'
  BY <1>7 DEF CheckFlag
<1>8. ASSUME NEW c \in Calls, CountIn(c) PROVE LogInv'
  BY <1>8 DEF CountIn
<1>9. ASSUME NEW c \in Calls, Recheck(c) PROVE LogInv'
  BY <1>9 DEF Recheck
<1>10. ASSUME NEW c \in Calls, NotBegun(c) PROVE LogInv'
  BY <1>10 DEF NotBegun, Return
<1>11. ASSUME NEW c \in Calls, BeginImmediate(c) PROVE LogInv'
  BY <1>11 DEF BeginImmediate
<1>12. ASSUME NEW c \in Calls, Statement(c) PROVE LogInv'
  BY <1>12 DEF Statement
<1>13. ASSUME NEW c \in Calls, RollBack(c) PROVE LogInv'
  BY <1>13 DEF RollBack, Return
<1>14. ASSUME NEW c \in Calls, Commit(c) PROVE LogInv'
  <2>1. /\ DOMAIN commits' = DOMAIN commits \cup {Len(commits) + 1}
        /\ Len(commits) \in Nat /\ DOMAIN commits \subseteq Nat
        /\ Len(commits) + 1 \notin DOMAIN commits
        /\ \A i \in DOMAIN commits : commits'[i] = commits[i] /\ i < Len(commits) + 1
        /\ commits'[Len(commits) + 1] = c
    BY <1>14, AppendFacts DEF Commit
  <2>2. rows'[c] # 0 /\ \A d \in Calls \ {c} : rows'[d] = rows[d]
    BY <1>14 DEF Commit, StoredInv, StoredAt
  <2>3. \A d \in Calls \ {c} :
          (\E i \in DOMAIN commits' : commits'[i] = d) <=> (\E i \in DOMAIN commits : commits[i] = d)
    BY <2>1
  <2> QED
    BY <2>1, <2>2, <2>3
<1>15. ASSUME ClaimUpdate PROVE LogInv'
  BY <1>15 DEF ClaimUpdate
<1>16. ASSUME LookAtOperations PROVE LogInv'
  BY <1>16 DEF LookAtOperations, Disappoint
<1>17. ASSUME PreparationFails PROVE LogInv'
  BY <1>17 DEF PreparationFails, Disappoint
<1>18. ASSUME PreparationSucceeds PROVE LogInv'
  BY <1>18 DEF PreparationSucceeds
<1>19. ASSUME CancelUpdate PROVE LogInv'
  BY <1>19 DEF CancelUpdate
<1>20. ASSUME Reload PROVE LogInv'
  BY <1>20 DEF Reload, LosePage
<1>21. ASSUME BeginShutdown PROVE LogInv'
  BY <1>21 DEF BeginShutdown
<1>22. ASSUME Stop PROVE LogInv'
  BY <1>22 DEF Stop, LosePage
<1>23. ASSUME Start PROVE LogInv'
  BY <1>23 DEF Start
<1>24. CASE UNCHANGED vars
  BY <1>24 DEF vars
<1> QED
  BY <1>1, <1>2, <1>3, <1>4, <1>5, <1>6, <1>7, <1>8, <1>9, <1>10, <1>11, <1>12, <1>13, <1>14, <1>15, <1>16, <1>17, <1>18, <1>19, <1>20, <1>21, <1>22, <1>23, <1>24
  DEF Next, PageStep, NativeStep, UpdateStep

(* The call whose turn it is has no unsettled call before it.              *)
LEMMA HeadFirst ==
  ASSUME TypeOK, QueueInv, NEW c \in Pending, Previous(c),
         NEW d \in Pending, ticket[d] < ticket[c]
  PROVE  FALSE
PROOF
<1>1. c \in Calls \ Direct /\ d \in Calls \ Direct /\ NoCall \notin Calls
  BY CallAssumption DEF Pending
<1>2. prev[c] # NoCall
  <2>1. ticket[d] < ticket[c] /\ d \in Pending
    OBVIOUS
  <2> QED
    BY <1>1, <2>1 DEF QueueInv, ChainInv
<1>3. prev[c] \in Calls \ Direct /\ prev[c] \in released
  BY <1>1, <1>2 DEF QueueInv, ChainInv, Previous
<1>4. prev[c] \notin Pending
  BY <1>3 DEF QueueInv, ReleaseInv, Pending, Settled
<1>5. ticket[c] = ticket[prev[c]] + 1
  BY <1>2 DEF QueueInv, ChainInv
<1>6. ticket[c] \in Nat /\ ticket[d] \in Nat /\ ticket[prev[c]] \in Nat
  BY <1>1, <1>3 DEF TypeOK
<1>7. CASE ticket[d] < ticket[prev[c]]
  BY <1>1, <1>3, <1>4, <1>7 DEF QueueInv, ChainInv
<1>8. CASE ticket[d] = ticket[prev[c]]
  <2>1. js[d] # "idle"
    BY DEF Pending
  <2>2. ticket[d] # 0
    BY <1>1, <2>1 DEF QueueInv, TicketInv
  <2>3. d = prev[c]
    BY <1>1, <1>3, <1>8, <2>2 DEF QueueInv, TicketInv
  <2> QED
    BY <1>4, <2>3
<1> QED
  BY <1>5, <1>6, <1>7, <1>8

(* Two queued calls are never at the native side together.                 *)
LEMMA OneInvoking ==
  ASSUME TypeOK, QueueInv, NEW c \in Pending, NEW d \in Pending,
         js[c] = "invoking", js[d] = "invoking"
  PROVE  c = d
PROOF
<1>1. c \in Calls \ Direct /\ d \in Calls \ Direct
  BY DEF Pending
<1>2. ticket[c] \in Nat /\ ticket[d] \in Nat
  BY <1>1 DEF TypeOK
<1>3. ~(ticket[c] < ticket[d]) /\ ~(ticket[d] < ticket[c])
  BY HeadFirst DEF QueueInv, ChainInv
<1>4. ticket[c] = ticket[d] /\ ticket[c] # 0
  BY <1>1, <1>2, <1>3 DEF QueueInv, TicketInv, Pending
<1> QED
  BY <1>1, <1>4 DEF QueueInv, TicketInv

-----------------------------------------------------------------------------
(* What a step can do to the queue: a call joins it, is handed to the      *)
(* native command, leaves it, or every call is lost.                       *)
Leaves(c) ==
  /\ (js[c] = "waiting" /\ Previous(c)) \/ js[c] = "invoking"
  /\ \E result \in Settled : Settle(c, result)
  /\ UNCHANGED <<tail, prev, historyVars>>

Joins(c) ==
  /\ js[c] = "idle" /\ js' = [js EXCEPT ![c] = "waiting"]
  /\ IF c \in Direct
     THEN UNCHANGED <<tail, prev, historyVars>>
     ELSE tail' = c /\ prev' = [prev EXCEPT ![c] = tail] /\ Queued(c)
  /\ UNCHANGED released

Starts(c) ==
  /\ js[c] = "waiting" /\ Previous(c) /\ js' = [js EXCEPT ![c] = "invoking"]
  /\ UNCHANGED <<tail, prev, released, historyVars>>

AllLost == LosePage /\ UNCHANGED <<prev, released, historyVars>>

queueVars == <<js, tail, prev, released, historyVars>>

LEMMA QueueCases ==
  [Next]_vars => \/ \E c \in Calls : Joins(c) \/ Starts(c) \/ Leaves(c)
                 \/ AllLost
                 \/ UNCHANGED queueVars
PROOF
<1> SUFFICES ASSUME [Next]_vars
             PROVE  \/ \E c \in Calls : Joins(c) \/ Starts(c) \/ Leaves(c)
                    \/ AllLost
                    \/ UNCHANGED queueVars
  OBVIOUS
<1> USE DEF queueVars, pageVars, historyVars
<1>1. ASSUME NEW c \in Calls, Call(c) PROVE Joins(c)
  BY <1>1 DEF Call, Joins
<1>2. ASSUME NEW c \in Calls, PageStep(c) PROVE Starts(c) \/ Leaves(c) \/ UNCHANGED queueVars
  <2>1. CASE Invoke(c)
    BY <2>1 DEF Invoke, Starts
  <2>2. CASE InvokeNothing(c)
    BY <2>2 DEF InvokeNothing, Leaves, Settled
  <2>3. CASE WorkFails(c)
    BY <2>3 DEF WorkFails, Leaves, Settled
  <2>4. CASE Retry(c)
    BY <2>4 DEF Retry
  <2>5. CASE Answer(c)
    BY <2>5 DEF Answer, Leaves, Settled
  <2> QED
    BY <1>2, <2>1, <2>2, <2>3, <2>4, <2>5 DEF PageStep
<1>3. ASSUME NEW c \in Calls, NativeStep(c) PROVE UNCHANGED queueVars
  BY <1>3 DEF NativeStep, CheckFlag, CountIn, Recheck, NotBegun, BeginImmediate,
              Statement, RollBack, Commit
<1>4. CASE ClaimUpdate \/ UpdateStep \/ CancelUpdate \/ BeginShutdown \/ Start
  BY <1>4 DEF UpdateStep, ClaimUpdate, LookAtOperations, PreparationFails,
              PreparationSucceeds, CancelUpdate, BeginShutdown, Start
<1>5. CASE Reload \/ Stop
  BY <1>5 DEF Reload, Stop, AllLost
<1>6. CASE UNCHANGED vars
  BY <1>6 DEF vars
<1> QED
  BY <1>1, <1>2, <1>3, <1>4, <1>5, <1>6 DEF Next

LEMMA TicketStep == TypeOK /\ TicketInv /\ [Next]_vars => TicketInv'
PROOF
<1> SUFFICES ASSUME TypeOK, TicketInv, [Next]_vars PROVE TicketInv'
  OBVIOUS
<1> USE CallAssumption DEF historyVars
<1>0. issued \in Nat /\ \A d \in Calls : ticket[d] \in Nat /\ ticket[d] <= issued
  BY DEF TypeOK, TicketInv
<1>1. ASSUME NEW c \in Calls, Joins(c) PROVE TicketInv'
  <2>1. CASE c \in Direct
    BY <1>1, <2>1 DEF Joins, TicketInv, TypeOK
  <2>2. CASE c \notin Direct
    <3>1. \A d \in Calls : d # c => ticket'[d] = ticket[d] /\ js'[d] = js[d]
      BY <1>1, <2>2 DEF Joins, Queued, TypeOK
    <3>2. ticket'[c] = issued + 1 /\ issued' = issued + 1 /\ js'[c] = "waiting"
      BY <1>1, <2>2 DEF Joins, Queued, TypeOK
    <3>4. \A d \in Calls : ticket'[d] <= issued'
      BY <1>0, <3>1, <3>2 DEF TicketInv
    <3>5. \A d \in Calls \ Direct : ticket'[d] = 0 <=> js'[d] = "idle"
      BY <1>0, <3>1, <3>2 DEF TicketInv
    <3>6. \A d, e \in Calls \ Direct : ticket'[d] = ticket'[e] /\ ticket'[d] # 0 => d = e
      BY <1>0, <3>1, <3>2 DEF TicketInv
    <3> QED
      BY <3>4, <3>5, <3>6 DEF TicketInv
  <2> QED
    BY <2>1, <2>2
<1>2. ASSUME NEW c \in Calls, Starts(c) PROVE TicketInv'
  BY <1>2 DEF Starts, TicketInv, TypeOK
<1>3. ASSUME NEW c \in Calls, Leaves(c) PROVE TicketInv'
  BY <1>3 DEF Leaves, Settle, Settled, TicketInv, TypeOK
<1>4. CASE AllLost
  BY <1>4 DEF AllLost, LosePage, TicketInv, TypeOK
<1>5. CASE UNCHANGED queueVars
  BY <1>5 DEF queueVars, TicketInv
<1> QED
  BY <1>1, <1>2, <1>3, <1>4, <1>5, QueueCases

LEMMA ReleaseStep == TypeOK /\ ReleaseInv /\ [Next]_vars => ReleaseInv'
PROOF
<1> SUFFICES ASSUME TypeOK, ReleaseInv, [Next]_vars PROVE ReleaseInv'
  OBVIOUS
<1> USE CallAssumption DEF TypeOK, ReleaseInv, JsStates, Settled
<1>1. ASSUME NEW c \in Calls, Joins(c) PROVE ReleaseInv'
  BY <1>1 DEF Joins
<1>2. ASSUME NEW c \in Calls, Starts(c) PROVE ReleaseInv'
  BY <1>2 DEF Starts
<1>3. ASSUME NEW c \in Calls, Leaves(c) PROVE ReleaseInv'
  BY <1>3 DEF Leaves, Settle
<1>4. CASE AllLost
  BY <1>4 DEF AllLost, LosePage
<1>5. CASE UNCHANGED queueVars
  BY <1>5 DEF queueVars
<1> QED
  BY <1>1, <1>2, <1>3, <1>4, <1>5, QueueCases

LEMMA TailStep ==
  TypeOK /\ TypeOK' /\ TicketInv /\ TailInv /\ [Next]_vars => TailInv'
PROOF
<1> SUFFICES ASSUME TypeOK, TypeOK', TicketInv, TailInv, [Next]_vars PROVE TailInv'
  OBVIOUS
<1> USE CallAssumption DEF TypeOK, TailInv, JsStates, historyVars
<1>1. ASSUME NEW c \in Calls, Joins(c) PROVE TailInv'
  <2>1. CASE c \in Direct
    BY <1>1, <2>1 DEF Joins, Pending
  <2>2. CASE c \notin Direct
    BY <1>1, <2>2 DEF Joins, Queued
  <2> QED
    BY <2>1, <2>2
<1>2. ASSUME NEW c \in Calls, Starts(c) PROVE TailInv'
  BY <1>2 DEF Starts, Pending
<1>3. ASSUME NEW c \in Calls, Leaves(c) PROVE TailInv'
  BY <1>3 DEF Leaves, Settle, Pending, Settled
<1>4. CASE AllLost
  BY <1>4 DEF AllLost, LosePage, Pending
<1>5. CASE UNCHANGED queueVars
  BY <1>5 DEF queueVars, Pending
<1> QED
  BY <1>1, <1>2, <1>3, <1>4, <1>5, QueueCases

LEMMA ChainStep == TypeOK /\ QueueInv /\ [Next]_vars => ChainInv'
PROOF
<1> SUFFICES ASSUME TypeOK, QueueInv, [Next]_vars PROVE ChainInv'
  OBVIOUS
<1> USE CallAssumption DEF historyVars
<1>1. ASSUME NEW c \in Calls, Joins(c) PROVE ChainInv'
  <2>1. CASE c \in Direct
    <3>1. Pending' = Pending /\ \A d \in Pending : js'[d] = js[d]
      BY <1>1, <2>1 DEF Joins, Pending, TypeOK
    <3> QED
      BY <1>1, <2>1, <3>1 DEF Joins, QueueInv, ChainInv, Previous
  <2>2. CASE c \notin Direct
    <3>1. Pending' = Pending \cup {c} /\ c \notin Pending /\ Pending \subseteq Calls \ Direct
      BY <1>1, <2>2 DEF Joins, Pending, TypeOK
    <3>2. \A d \in Calls : d # c => /\ js'[d] = js[d] /\ prev'[d] = prev[d]
                                    /\ ticket'[d] = ticket[d]
      BY <1>1, <2>2 DEF Joins, Queued, TypeOK
    <3>3. /\ js'[c] = "waiting" /\ prev'[c] = tail /\ released' = released
          /\ ticket[c] = 0 /\ ticket'[c] = issued + 1 /\ c \in Calls \ Direct
      BY <1>1, <2>2 DEF Joins, Queued, TypeOK, QueueInv, TicketInv
    <3>4. tail # NoCall => tail \in Calls \ Direct /\ tail # c /\ ticket[tail] = issued
      BY <1>1 DEF Joins, QueueInv, TailInv
    <3>5. tail = NoCall => Pending = {}
      BY DEF QueueInv, TailInv
    <3>6. \A d \in Pending : prev[d] # c
      <4> SUFFICES ASSUME NEW d \in Pending, prev[d] = c PROVE FALSE
        OBVIOUS
      <4>1. ticket[c] # 0
        BY <3>1, NoCall \notin Calls DEF QueueInv, ChainInv
      <4> QED
        BY <3>3, <4>1
    <3>7. \A d \in Pending' : js'[d] = "invoking" => Previous(d)'
      BY <3>1, <3>2, <3>3 DEF Previous, QueueInv, ChainInv
    <3>8. \A d \in Pending' : prev'[d] # NoCall =>
            /\ prev'[d] \in Calls \ Direct
            /\ ticket'[prev'[d]] # 0 /\ ticket'[d] = ticket'[prev'[d]] + 1
      BY <1>1, <3>1, <3>2, <3>3, <3>4, <3>6 DEF QueueInv, ChainInv, TailInv, TicketInv, Joins
    <3>9. \A d \in Calls : ticket[d] <= issued /\ ticket[d] \in Nat /\ issued \in Nat
      BY DEF QueueInv, TicketInv, TypeOK
    <3>10. ASSUME NEW d \in Pending', NEW e \in Calls \ Direct, ticket'[d] < ticket'[e]
           PROVE  e \in Pending' /\ prev'[e] # NoCall
      <4>1. d # c
        BY <3>2, <3>3, <3>9, <3>10
      <4>2. CASE e = c
        BY <3>1, <3>3, <3>5, <4>1, <4>2
      <4>3. CASE e # c
        BY <3>1, <3>2, <3>10, <4>1, <4>3 DEF QueueInv, ChainInv
      <4> QED
        BY <4>2, <4>3
    <3> QED
      BY <3>7, <3>8, <3>10 DEF ChainInv
  <2> QED
    BY <2>1, <2>2
<1>2. ASSUME NEW c \in Calls, Starts(c) PROVE ChainInv'
  <2>1. Pending' = Pending
    BY <1>2 DEF Starts, Pending, TypeOK
  <2>2. \A d \in Calls : d # c => js'[d] = js[d]
    BY <1>2 DEF Starts, TypeOK
  <2>3. Previous(c) /\ UNCHANGED <<prev, released, ticket>>
    BY <1>2 DEF Starts
  <2>4. \A d \in Pending' : js'[d] = "invoking" => Previous(d)'
    BY <2>1, <2>2, <2>3 DEF Previous, QueueInv, ChainInv, Pending
  <2> QED
    BY <2>1, <2>3, <2>4 DEF QueueInv, ChainInv
<1>3. ASSUME NEW c \in Calls, Leaves(c) PROVE ChainInv'
  <2>1. Pending' = Pending \ {c} /\ Pending \subseteq Calls \ Direct
    BY <1>3 DEF Leaves, Settle, Pending, Settled, TypeOK
  <2>2. \A d \in Calls : d # c => js'[d] = js[d]
    BY <1>3 DEF Leaves, Settle, TypeOK
  <2>3. released \subseteq released' /\ UNCHANGED <<prev, ticket>>
    BY <1>3 DEF Leaves, Settle
  <2>4. c \in Pending => Previous(c)
    BY <1>3 DEF Leaves, QueueInv, ChainInv
  <2>5. \A d \in Pending : c \in Pending => ~(ticket[d] < ticket[c])
    BY <2>4, HeadFirst
  <2>6. \A d \in Pending' : js'[d] = "invoking" => Previous(d)'
    BY <2>1, <2>2, <2>3 DEF Previous, QueueInv, ChainInv
  <2>7. ASSUME NEW d \in Pending', NEW e \in Calls \ Direct, ticket'[d] < ticket'[e]
        PROVE  e \in Pending' /\ prev'[e] # NoCall
    <3>1. d \in Pending /\ ticket[d] < ticket[e]
      BY <2>1, <2>3, <2>7
    <3>2. e \in Pending /\ prev[e] # NoCall
      BY <2>1, <3>1 DEF QueueInv, ChainInv
    <3>3. e # c
      BY <2>5, <3>1, <3>2
    <3> QED
      BY <2>1, <2>3, <3>2, <3>3
  <2> QED
    BY <2>1, <2>3, <2>6, <2>7 DEF QueueInv, ChainInv
<1>4. CASE AllLost
  <2>1. Pending' = {}
    BY <1>4 DEF AllLost, LosePage, Pending
  <2> QED
    BY <2>1 DEF ChainInv
<1>5. CASE UNCHANGED queueVars
  BY <1>5 DEF queueVars, QueueInv, ChainInv, Pending, Previous
<1> QED
  BY <1>1, <1>2, <1>3, <1>4, <1>5, QueueCases

(* What a step can do to the log: nothing, or a commit of an open call.    *)
LEMMA CommitCases ==
  [Next]_vars => UNCHANGED commits \/ \E c \in Calls : Commit(c)
PROOF
<1> SUFFICES ASSUME [Next]_vars PROVE UNCHANGED commits \/ \E c \in Calls : Commit(c)
  OBVIOUS
<1> USE DEF dbVars
<1>1. ASSUME NEW c \in Calls, Call(c) \/ PageStep(c) PROVE UNCHANGED commits
  BY <1>1 DEF Call, PageStep, Invoke, InvokeNothing, WorkFails, Retry, Answer
<1>2. ASSUME NEW c \in Calls, NativeStep(c) PROVE UNCHANGED commits \/ Commit(c)
  BY <1>2 DEF NativeStep, CheckFlag, CountIn, Recheck, NotBegun, BeginImmediate,
              Statement, RollBack
<1>3. CASE ClaimUpdate \/ UpdateStep \/ CancelUpdate \/ BeginShutdown \/ Start
  BY <1>3 DEF UpdateStep, ClaimUpdate, LookAtOperations, PreparationFails,
              PreparationSucceeds, CancelUpdate, BeginShutdown, Start
<1>4. CASE Reload \/ Stop
  BY <1>4 DEF Reload, Stop
<1>5. CASE UNCHANGED vars
  BY <1>5 DEF vars
<1> QED
  BY <1>1, <1>2, <1>3, <1>4, <1>5 DEF Next

(* A call that is in the log or at the native side keeps its ticket, and a *)
(* lost call stays lost.                                                   *)
LEMMA TicketsKept ==
  ASSUME TypeOK, [Next]_vars, NEW x \in Calls
  PROVE  /\ js[x] # "idle" => ticket'[x] = ticket[x]
         /\ js'[x] # "lost" => js[x] # "lost"
PROOF
<1> USE DEF TypeOK, historyVars
<1>1. ASSUME NEW c \in Calls, Joins(c) PROVE (js[x] # "idle" => ticket'[x] = ticket[x]) /\ (js'[x] # "lost" => js[x] # "lost")
  BY <1>1 DEF Joins, Queued
<1>2. ASSUME NEW c \in Calls, Starts(c) \/ Leaves(c) PROVE (js[x] # "idle" => ticket'[x] = ticket[x]) /\ (js'[x] # "lost" => js[x] # "lost")
  BY <1>2 DEF Starts, Leaves, Settle
<1>3. CASE AllLost
  BY <1>3 DEF AllLost, LosePage
<1>4. CASE UNCHANGED queueVars
  BY <1>4 DEF queueVars
<1> QED
  BY <1>1, <1>2, <1>3, <1>4, QueueCases

LEMMA OrderStep ==
  TypeOK /\ GuardInv /\ StoredInv /\ LogInv /\ QueueInv /\ CommitOrder /\ [Next]_vars
    => CommitOrder'
PROOF
<1> SUFFICES ASSUME TypeOK, GuardInv, StoredInv, LogInv, QueueInv, CommitOrder, [Next]_vars
             PROVE  CommitOrder'
  OBVIOUS
<1>1. \A i \in DOMAIN commits : commits[i] \in Calls /\ rows[commits[i]] # 0
  BY DEF LogInv, TypeOK
<1>2. \A i \in DOMAIN commits : js[commits[i]] \notin {"idle", "waiting"}
  BY <1>1 DEF StoredInv, StoredAt
<1>3. \A i \in DOMAIN commits :
        /\ ticket'[commits[i]] = ticket[commits[i]]
        /\ js'[commits[i]] # "lost" => js[commits[i]] # "lost"
  BY <1>1, <1>2, TicketsKept
<1>4. CASE UNCHANGED commits
  BY <1>3, <1>4 DEF CommitOrder
<1>5. ASSUME NEW c \in Calls, Commit(c) PROVE CommitOrder'
  <2>1. /\ DOMAIN commits' = DOMAIN commits \cup {Len(commits) + 1}
        /\ Len(commits) \in Nat /\ DOMAIN commits \subseteq Nat
        /\ Len(commits) + 1 \notin DOMAIN commits
        /\ \A i \in DOMAIN commits : commits'[i] = commits[i] /\ i < Len(commits) + 1
        /\ commits'[Len(commits) + 1] = c
    BY <1>5, AppendFacts DEF Commit, TypeOK
  <2>2. UNCHANGED <<js, ticket>> /\ native[c] = "open" /\ rows[c] = 0
    BY <1>5 DEF Commit, pageVars, historyVars, StoredInv, StoredAt
  <2>3. ASSUME NEW i \in DOMAIN commits, commits[i] \notin Direct, c \notin Direct,
               js[commits[i]] # "lost", js[c] # "lost"
        PROVE  ticket[commits[i]] < ticket[c]
    <3> DEFINE b == commits[i]
    <3>1. c \in Pending /\ js[c] = "invoking"
      BY <2>2, <2>3 DEF StoredInv, StoredAt, Pending
    <3>2. b \in Calls \ Direct /\ b # c /\ js[b] \notin {"idle", "waiting", "lost"}
      BY <1>1, <1>2, <2>2, <2>3
    <3>3. b \in Pending => js[b] = "invoking"
      BY <3>2 DEF Pending
    <3>4. b \notin Pending
      BY <3>1, <3>2, <3>3, OneInvoking
    <3>5. ~(ticket[c] < ticket[b])
      BY <3>1, <3>2, <3>4 DEF QueueInv, ChainInv, Pending
    <3>6. ticket[c] # ticket[b]
      BY <3>1, <3>2 DEF QueueInv, TicketInv, Pending
    <3>7. ticket[c] \in Nat /\ ticket[b] \in Nat
      BY <3>2 DEF TypeOK
    <3> QED
      BY <3>5, <3>6, <3>7
  <2>4. ASSUME NEW i \in DOMAIN commits', NEW j \in DOMAIN commits', i < j,
               {commits'[i], commits'[j]} \cap Direct = {},
               "lost" \notin {js'[commits'[i]], js'[commits'[j]]}
        PROVE  ticket'[commits'[i]] < ticket'[commits'[j]]
    <3>1. i \in DOMAIN commits
      BY <2>1, <2>4
    <3>2. CASE j \in DOMAIN commits
      BY <2>1, <2>2, <2>4, <3>1, <3>2 DEF CommitOrder
    <3>3. CASE j = Len(commits) + 1
      BY <2>1, <2>2, <2>3, <2>4, <3>1, <3>3
    <3> QED
      BY <2>1, <3>2, <3>3
  <2> QED
    BY <2>4 DEF CommitOrder
<1> QED
  BY <1>4, <1>5, CommitCases

-----------------------------------------------------------------------------
LEMMA InitInv == Init => IInv
PROOF
<1> SUFFICES ASSUME Init PROVE IInv
  OBVIOUS
<1> USE CallAssumption DEF Init
<1>1. TypeOK
  <2>1. commits \in Seq(Calls)
    OBVIOUS
  <2>2. js \in [Calls -> JsStates] /\ native \in [Calls -> NativeStates]
    BY DEF JsStates, NativeStates
  <2>3. prev \in [Calls -> Calls \cup {NoCall}]
    OBVIOUS
  <2>4. attempt \in [Calls -> Nat] /\ ticket \in [Calls -> Nat]
    OBVIOUS
  <2>5. done \in [Calls -> Nat] /\ rows \in [Calls -> Nat]
    OBVIOUS
  <2> QED
    BY <2>1, <2>2, <2>3, <2>4, <2>5 DEF TypeOK
<1>2. GuardInv /\ UpdateInv
  BY DEF GuardInv, UpdateInv, PreparedQuiet
<1>3. StoredInv /\ LogInv
  BY DEF StoredInv, StoredAt, LogInv
<1>4. QueueInv /\ CommitOrder
  BY DEF QueueInv, TicketInv, ReleaseInv, TailInv, ChainInv, CommitOrder, Pending, Settled
<1> QED
  BY <1>1, <1>2, <1>3, <1>4 DEF IInv

(* IInv is inductive.                                                      *)
THEOREM Inductive == Spec => []IInv
PROOF
<1>1. IInv /\ [Next]_vars => IInv'
  <2> SUFFICES ASSUME IInv, [Next]_vars PROVE IInv'
    OBVIOUS
  <2> USE DEF IInv
  <2>1. TypeOK'
    BY TypeStep
  <2>2. GuardInv' /\ UpdateInv'
    BY GuardStep, UpdateInvStep
  <2>3. StoredInv' /\ LogInv'
    BY StoredStep, LogStep
  <2>4. QueueInv'
    BY <2>1, TicketStep, ReleaseStep, TailStep, ChainStep DEF QueueInv
  <2>5. CommitOrder'
    BY OrderStep
  <2> QED
    BY <2>1, <2>2, <2>3, <2>4, <2>5
<1> QED
  BY InitInv, <1>1, PTL DEF Spec

(* Type correctness of the write path.                                     *)
THEOREM TypeCorrect == Spec => []TypeOK
PROOF
<1>1. IInv => TypeOK
  BY DEF IInv
<1> QED
  BY Inductive, <1>1, PTL

(* However many calls, statements, retries, reloads and crashes there are, *)
(* a batch is committed whole and once: the claim of                       *)
(* execute_transaction_at_path that a failure rolls everything back, kept  *)
(* under withTemporaryLockRetry.                                           *)
THEOREM WholeOnceAlways == Spec => []WholeOnce
PROOF
<1>1. IInv => WholeOnce
  BY DEF IInv, StoredInv, StoredAt, WholeOnce
<1> QED
  BY Inductive, <1>1, PTL

(* The result of transaction() and execute() is the truth about SQLite.    *)
THEOREM AnswersAlwaysHonest == Spec => []AnswersHonest
PROOF
<1>1. IInv => AnswersHonest
  BY DEF IInv, StoredInv, StoredAt, AnswersHonest
<1> QED
  BY Inductive, <1>1, PTL

(* The promise chain of transactionTail admits one queued batch at a time, *)
(* in the order of the calls.                                              *)
THEOREM QueueIsSerial == Spec => []SerialQueue
PROOF
<1>1. IInv => SerialQueue
  BY OneInvoking DEF IInv, SerialQueue
<1> QED
  BY Inductive, <1>1, PTL

(* No write is past the guard while an update is checked or installed.     *)
THEOREM UpdatePreparationIsQuiet == Spec => []PreparedQuiet
PROOF
<1>1. IInv => PreparedQuiet
  BY DEF IInv, UpdateInv
<1> QED
  BY Inductive, <1>1, PTL

(* A shutdown or an update that finds no active operation finds no         *)
(* transaction open, however many calls, retries, reloads and crashes      *)
(* there are; and at most one is ever open.                                *)
THEOREM OneCountedWriter == Spec => []WriterCounted
PROOF
<1>1. IInv => WriterCounted
  <2> SUFFICES ASSUME TypeOK, GuardInv PROVE WriterCounted
    BY DEF IInv
  <2>1. \A c \in Calls : native[c] = "open" => writer = c
    BY DEF GuardInv
  <2>2. ASSUME active = {} PROVE writer = NoCall
    <3>1. \A c \in Calls : native[c] # "open"
      BY <2>2 DEF GuardInv
    <3>2. \A c \in Calls : writer # c
      BY <3>1 DEF GuardInv
    <3> QED
      BY <3>2 DEF TypeOK
  <2>3. ASSUME active = {} PROVE \A c \in Calls : native[c] # "admitted"
    BY <2>3 DEF GuardInv
  <2> QED
    BY <2>1, <2>2, <2>3 DEF WriterCounted
<1> QED
  BY Inductive, <1>1, PTL

-----------------------------------------------------------------------------
(* The refinement of AtomicStore.                                          *)

LEMMA StoreStep ==
  IInv /\ IInv' /\ [Next]_vars => [Store!StoreNext]_(Store!storeVars)
PROOF
<1> SUFFICES ASSUME IInv, IInv', [Next]_vars PROVE [Store!StoreNext]_(Store!storeVars)
  OBVIOUS
<1> USE CallAssumption DEF historyVars
<1>0. /\ TypeOK /\ StoredInv /\ LogInv
      /\ \A c \in Calls : c \in Store!Applied <=> rows[c] # 0
  BY DEF IInv, LogInv, Store!Applied
<1>1. ASSUME NEW c \in Calls, Call(c) PROVE Store!Submit(c)
  BY <1>0, <1>1 DEF Call, Store!Submit, OutcomeOf, TypeOK, dbVars, JsStates
<1>2. ASSUME NEW c \in Calls, Invoke(c) PROVE UNCHANGED Store!storeVars
  BY <1>0, <1>2 DEF Invoke, Store!storeVars, OutcomeOf, TypeOK, dbVars
<1>3. ASSUME NEW c \in Calls, InvokeNothing(c) PROVE Store!Confirm(c)
  BY <1>0, <1>3 DEF InvokeNothing, Settle, Store!Confirm, OutcomeOf, TypeOK, dbVars
<1>4. ASSUME NEW c \in Calls, WorkFails(c) PROVE Store!Reject(c)
  <2>1. c \notin Store!Applied
    BY <1>0, <1>4 DEF WorkFails, StoredInv, StoredAt
  <2> QED
    BY <1>0, <1>4, <2>1 DEF WorkFails, Settle, Store!Reject, OutcomeOf, TypeOK, dbVars
<1>5. ASSUME NEW c \in Calls, Answer(c) PROVE Store!Confirm(c) \/ Store!Reject(c)
  <2>1. CASE native[c] = "done" /\ Settle(c, "ok")
    <3>1. c \in Store!Applied
      BY <1>0, <2>1 DEF StoredInv, StoredAt
    <3> QED
      BY <1>0, <1>5, <2>1, <3>1 DEF Answer, Settle, Store!Confirm, OutcomeOf, TypeOK, dbVars
  <2>2. CASE native[c] \in {"error", "refused"} /\ Settle(c, "failed")
    <3>1. c \notin Store!Applied
      BY <1>0, <2>2 DEF StoredInv, StoredAt
    <3> QED
      BY <1>0, <1>5, <2>2, <3>1 DEF Answer, Settle, Store!Reject, OutcomeOf, TypeOK, dbVars
  <2> QED
    BY <1>5, <2>1, <2>2 DEF Answer
<1>6. ASSUME NEW c \in Calls, Commit(c) PROVE Store!Apply(c)
  <2>1. c \notin Store!Applied /\ js[c] \in {"invoking", "lost"}
    BY <1>0, <1>6 DEF Commit, StoredInv, StoredAt, IInv, AnswersHonest
  <2> QED
    BY <1>0, <1>6, <2>1 DEF Commit, Store!Apply, OutcomeOf, pageVars, TypeOK
<1>7. ASSUME NEW c \in Calls, NativeStep(c), ~Commit(c) PROVE UNCHANGED Store!storeVars
  BY <1>7 DEF NativeStep, CheckFlag, CountIn, Recheck, NotBegun, BeginImmediate,
              Statement, RollBack, Store!storeVars, pageVars, dbVars
<1>8. ASSUME NEW c \in Calls, Retry(c) PROVE UNCHANGED Store!storeVars
  BY <1>8 DEF Retry, Store!storeVars, dbVars
<1>9. CASE ClaimUpdate \/ UpdateStep \/ CancelUpdate \/ BeginShutdown \/ Start
  BY <1>9 DEF UpdateStep, ClaimUpdate, LookAtOperations, PreparationFails,
              PreparationSucceeds, CancelUpdate, BeginShutdown, Start,
              Store!storeVars, pageVars, dbVars
<1>10. CASE Reload \/ Stop
  <2>1. \A c \in Calls : OutcomeOf(js'[c]) =
          IF OutcomeOf(js[c]) = "pending" THEN "abandoned" ELSE OutcomeOf(js[c])
    <3>1. LosePage
      BY <1>10 DEF Reload, Stop
    <3>2. \A c \in Calls : js[c] \in JsStates
      BY <1>0 DEF TypeOK
    <3> QED
      BY <3>1, <3>2 DEF LosePage, OutcomeOf, JsStates
  <2>2. UNCHANGED commits
    BY <1>10 DEF Reload, Stop, dbVars
  <2>3. Store!Abandon
    BY <2>1, <2>2 DEF Store!Abandon
  <2> QED
    BY <2>3 DEF Store!StoreNext
<1>11. CASE UNCHANGED vars
  BY <1>11 DEF vars, Store!storeVars, pageVars, dbVars
<1> QED
  BY <1>1, <1>2, <1>3, <1>4, <1>5, <1>6, <1>7, <1>8, <1>9, <1>10, <1>11
  DEF Next, PageStep, Store!StoreNext

(* The detailed write path implements the atomic store.                    *)
THEOREM ImplementsAtomicStore == Spec => StoreSpec
PROOF
<1>1. Init => Store!StoreInit
  BY DEF Init, Store!StoreInit, OutcomeOf
<1>2. IInv /\ IInv' /\ [Next]_vars => [Store!StoreNext]_(Store!storeVars)
  BY StoreStep
<1> QED
  BY Inductive, <1>1, <1>2, PTL DEF Spec, StoreSpec, Store!StoreSpec
=============================================================================
