-------------------------- MODULE AdmissionProofs ---------------------------
(***************************************************************************)
(* Proofs about Admission for every finite set of requests and every       *)
(* positive Limit and Tokens.                                              *)
(***************************************************************************)
EXTENDS Admission, FiniteSetTheorems, TLAPS

(* How the four views of one request, the ticket, the task, the future and *)
(* the thread, constrain each other.  The stated invariants follow from it *)
(* but are not inductive without it: that a cancelled ticket never runs,   *)
(* say, needs that only a task that has unwound leaves one behind.         *)
Linked(r) ==
  /\ ticket[r] = "none" <=> task[r] \in {"idle", "rejected"}
  /\ ticket[r] = "cancelled" => task[r] = "cancelled"
  /\ ticket[r] = "waiting" => task[r] \in {"queueing", "awaiting", "cancelling"}
  /\ ticket[r] = "done" => thread[r] \in {"reporting", "over"}
                           /\ result[r] \in {"value", "error"}
  /\ task[r] \in {"idle", "rejected", "queueing"} => thread[r] = "none"
  /\ task[r] = "queueing" => ticket[r] = "waiting"
  /\ task[r] = "awaiting" => future[r] \in {"pending", "value", "error"}
  /\ task[r] \in {"returned", "raised"} => ticket[r] = "done" /\ thread[r] = "over"
  /\ task[r] = "returned" => future[r] = "value"
  /\ task[r] \in {"cancelling", "cancelled"} /\ r \notin pierced => thread[r] = "none"
  /\ future[r] = "none" <=> thread[r] = "none"
  /\ future[r] = "pending" => task[r] = "awaiting" /\ thread[r] # "over"
  /\ future[r] \in {"value", "error"} =>
       thread[r] = "over" /\ ticket[r] = "done" /\ future[r] = result[r]
  /\ thread[r] = "none" => ticket[r] \notin {"running", "done"}
  /\ thread[r] \in {"queued", "claimed"} => ticket[r] \in {"waiting", "cancelled"}
  /\ thread[r] \in {"started", "working", "leaving"} => ticket[r] = "running"
  /\ thread[r] = "leaving" => result[r] \in {"value", "error"}
  /\ thread[r] = "reporting" => ticket[r] \in {"done", "cancelled"}
  /\ ticket[r] = "running" => thread[r] \in {"started", "working", "leaving"}

(* The types as far as they are inductive by themselves; the bounds of the *)
(* counters follow from what they count.                                   *)
Typed ==
  /\ active \in Int
  /\ ticket \in [Requests -> TicketStates]
  /\ task \in [Requests -> TaskStates]
  /\ future \in [Requests -> FutureStates]
  /\ thread \in [Requests -> ThreadStates]
  /\ result \in [Requests -> ResultKinds]
  /\ tokens \subseteq Requests \union Probes
  /\ probe \in [Probes -> ProbeStates]
  /\ scoped \subseteq Requests /\ pierced \subseteq Requests
  /\ rejected \in Int /\ started \in Int /\ recorded \in Int /\ inProgress \in Int

BegunSet    == {r \in Requests : Begun(r)}
ReturnedSet == {r \in Requests : task[r] = "returned"}
RejectedSet == {r \in Requests : task[r] = "rejected"}
InFlight    == {r \in Requests : task[r] \notin Ended \union {"idle"}}

(* Each counter counts its set.                                            *)
Counted ==
  /\ active = Cardinality(Seats)
  /\ started = Cardinality(BegunSet)
  /\ recorded = Cardinality(ReturnedSet)
  /\ rejected = Cardinality(RejectedSet)
  /\ inProgress = Cardinality(InFlight)

IInv == /\ Typed
        /\ \A r \in Requests : Linked(r)
        /\ Counted
        /\ active <= Limit

-----------------------------------------------------------------------------
USE AdmissionAssumption

(* One step, split into the actions: what every proof below starts from.   *)
LEMMA NextCases ==
  ASSUME Next
  PROVE  \/ \E r \in Requests :
              \/ Arrive(r) \/ Dispatch(r) \/ TaskCancel(r) \/ ScopeCancel(r)
              \/ Unwind(r) \/ ReturnValue(r) \/ RaiseError(r) \/ Claim(r)
              \/ StartWork(r) \/ OnStart(r) \/ WorkEnds(r) \/ FinishWork(r)
              \/ Report(r)
         \/ \E p \in Probes : ProbeArrive(p) \/ ProbeDispatch(p) \/ ProbeAnswer(p)
  BY DEF Next, Loop, Worker

(* Every action keeps the types.                                           *)
LEMMA TypedStep ==
  ASSUME Typed, [Next]_vars
  PROVE  Typed'
<1> USE DEF Typed, TicketStates, TaskStates, FutureStates, ThreadStates,
            ResultKinds, ProbeStates, limiterVars, metricVars
<1>1. ASSUME NEW r \in Requests, Arrive(r) PROVE Typed'
  BY <1>1 DEF Arrive, TryAcquire
<1>2. ASSUME NEW r \in Requests, Dispatch(r) PROVE Typed'
  BY <1>2 DEF Dispatch
<1>3. ASSUME NEW r \in Requests, TaskCancel(r) PROVE Typed'
  BY <1>3 DEF TaskCancel
<1>4. ASSUME NEW r \in Requests, ScopeCancel(r) PROVE Typed'
  BY <1>4 DEF ScopeCancel
<1>5. ASSUME NEW r \in Requests, Unwind(r) PROVE Typed'
  BY <1>5 DEF Unwind, Abandon
<1>6. ASSUME NEW r \in Requests, ReturnValue(r) PROVE Typed'
  BY <1>6 DEF ReturnValue
<1>7. ASSUME NEW r \in Requests, RaiseError(r) PROVE Typed'
  BY <1>7 DEF RaiseError, Abandon
<1>8. ASSUME NEW r \in Requests, Claim(r) PROVE Typed'
  BY <1>8 DEF Claim
<1>9. ASSUME NEW r \in Requests, StartWork(r) PROVE Typed'
  BY <1>9 DEF StartWork, Start
<1>10. ASSUME NEW r \in Requests, OnStart(r) PROVE Typed'
  BY <1>10 DEF OnStart
<1>11. ASSUME NEW r \in Requests, WorkEnds(r) PROVE Typed'
  BY <1>11 DEF WorkEnds
<1>12. ASSUME NEW r \in Requests, FinishWork(r) PROVE Typed'
  BY <1>12 DEF FinishWork, Finish
<1>13. ASSUME NEW r \in Requests, Report(r) PROVE Typed'
  BY <1>13 DEF Report
<1>14. ASSUME NEW p \in Probes, ProbeArrive(p) PROVE Typed'
  BY <1>14 DEF ProbeArrive
<1>15. ASSUME NEW p \in Probes, ProbeDispatch(p) PROVE Typed'
  BY <1>15 DEF ProbeDispatch
<1>16. ASSUME NEW p \in Probes, ProbeAnswer(p) PROVE Typed'
  BY <1>16 DEF ProbeAnswer
<1>17. CASE UNCHANGED vars
  BY <1>17 DEF vars
<1> QED
  BY <1>1, <1>2, <1>3, <1>4, <1>5, <1>6, <1>7, <1>8, <1>9, <1>10, <1>11, <1>12, <1>13, <1>14, <1>15, <1>16, <1>17, NextCases

(* Every action keeps the four views of every request consistent.          *)
LEMMA LinkedStep ==
  ASSUME Typed, \A r \in Requests : Linked(r), [Next]_vars
  PROVE  \A r \in Requests : Linked(r)'
<1> TAKE s \in Requests
<1> USE DEF Typed, Linked, TicketStates, TaskStates, FutureStates,
            ThreadStates, ResultKinds, limiterVars, metricVars
<1>1. ASSUME NEW r \in Requests, Arrive(r) PROVE Linked(s)'
  BY <1>1 DEF Arrive, TryAcquire
<1>2. ASSUME NEW r \in Requests, Dispatch(r) PROVE Linked(s)'
  BY <1>2 DEF Dispatch
<1>3. ASSUME NEW r \in Requests, TaskCancel(r) PROVE Linked(s)'
  BY <1>3 DEF TaskCancel
<1>4. ASSUME NEW r \in Requests, ScopeCancel(r) PROVE Linked(s)'
  BY <1>4 DEF ScopeCancel
<1>5. ASSUME NEW r \in Requests, Unwind(r) PROVE Linked(s)'
  BY <1>5 DEF Unwind, Abandon
<1>6. ASSUME NEW r \in Requests, ReturnValue(r) PROVE Linked(s)'
  BY <1>6 DEF ReturnValue
<1>7. ASSUME NEW r \in Requests, RaiseError(r) PROVE Linked(s)'
  BY <1>7 DEF RaiseError, Abandon
<1>8. ASSUME NEW r \in Requests, Claim(r) PROVE Linked(s)'
  BY <1>8 DEF Claim
<1>9. ASSUME NEW r \in Requests, StartWork(r) PROVE Linked(s)'
  BY <1>9 DEF StartWork, Start
<1>10. ASSUME NEW r \in Requests, OnStart(r) PROVE Linked(s)'
  BY <1>10 DEF OnStart
<1>11. ASSUME NEW r \in Requests, WorkEnds(r) PROVE Linked(s)'
  BY <1>11 DEF WorkEnds
<1>12. ASSUME NEW r \in Requests, FinishWork(r) PROVE Linked(s)'
  BY <1>12 DEF FinishWork, Finish
<1>13. ASSUME NEW r \in Requests, Report(r) PROVE Linked(s)'
  BY <1>13 DEF Report
<1>14. ASSUME NEW p \in Probes, ProbeArrive(p) PROVE Linked(s)'
  BY <1>14 DEF ProbeArrive
<1>15. ASSUME NEW p \in Probes, ProbeDispatch(p) PROVE Linked(s)'
  BY <1>15 DEF ProbeDispatch
<1>16. ASSUME NEW p \in Probes, ProbeAnswer(p) PROVE Linked(s)'
  BY <1>16 DEF ProbeAnswer
<1>17. CASE UNCHANGED vars
  BY <1>17 DEF vars
<1> QED
  BY <1>1, <1>2, <1>3, <1>4, <1>5, <1>6, <1>7, <1>8, <1>9, <1>10, <1>11, <1>12, <1>13, <1>14, <1>15, <1>16, <1>17, NextCases

(* Adding an element to, or taking one from, a set of requests.            *)
LEMMA CountAdd ==
  ASSUME NEW S \in SUBSET Requests, NEW r \in Requests, r \notin S
  PROVE  Cardinality(S \union {r}) = Cardinality(S) + 1
  BY FS_Subset, FS_AddElement

LEMMA CountRemove ==
  ASSUME NEW S \in SUBSET Requests, NEW r \in S
  PROVE  Cardinality(S \ {r}) = Cardinality(S) - 1
  BY FS_Subset, FS_RemoveElement

LEMMA CountNat ==
  ASSUME NEW S \in SUBSET Requests
  PROVE  /\ Cardinality(S) \in Nat
         /\ S # {} => Cardinality(S) > 0
  BY FS_Subset, FS_CardinalityType, FS_EmptySet

(* A step that leaves the counted sets and the counters alone.             *)
LEMMA QuietStep ==
  ASSUME Counted, active <= Limit,
         Seats' = Seats, BegunSet' = BegunSet, ReturnedSet' = ReturnedSet,
         RejectedSet' = RejectedSet, InFlight' = InFlight,
         UNCHANGED <<active, metricVars>>
  PROVE  (Counted /\ active <= Limit)'
  BY DEF Counted, metricVars

(* Every action moves each counter exactly as it moves the counted set.    *)
LEMMA CountedStep ==
  ASSUME Typed, \A r \in Requests : Linked(r), Counted, active <= Limit, [Next]_vars
  PROVE  (Counted /\ active <= Limit)'
<1> DEFINE Goal == (Counted /\ active <= Limit)'
<1> USE DEF HoldsSeat, Begun, Ended, limiterVars, metricVars
<1>0. /\ Seats \in SUBSET Requests /\ BegunSet \in SUBSET Requests
      /\ ReturnedSet \in SUBSET Requests /\ RejectedSet \in SUBSET Requests
      /\ InFlight \in SUBSET Requests
  BY DEF Seats, BegunSet, ReturnedSet, RejectedSet, InFlight
<1>1. ASSUME NEW r \in Requests, Arrive(r) PROVE Goal
  <2>1. CASE active < Limit
    <3>1. /\ Seats' = Seats \union {r} /\ r \notin Seats
          /\ InFlight' = InFlight \union {r} /\ r \notin InFlight
          /\ BegunSet' = BegunSet /\ ReturnedSet' = ReturnedSet
          /\ RejectedSet' = RejectedSet
      BY <1>1, <2>1 DEF Arrive, TryAcquire, Typed, Linked, Seats, BegunSet,
                        ReturnedSet, RejectedSet, InFlight
    <3>2. /\ active' = active + 1 /\ inProgress' = inProgress + 1
          /\ UNCHANGED <<rejected, started, recorded>>
      BY <1>1, <2>1 DEF Arrive, TryAcquire, Typed
    <3> QED
      BY <1>0, <2>1, <3>1, <3>2, CountAdd DEF Counted, Typed
  <2>2. CASE ~(active < Limit)
    <3>1. /\ RejectedSet' = RejectedSet \union {r} /\ r \notin RejectedSet
          /\ Seats' = Seats /\ InFlight' = InFlight
          /\ BegunSet' = BegunSet /\ ReturnedSet' = ReturnedSet
      BY <1>1, <2>2 DEF Arrive, TryAcquire, Typed, Linked, Seats, BegunSet,
                        ReturnedSet, RejectedSet, InFlight
    <3>2. /\ rejected' = rejected + 1
          /\ UNCHANGED <<active, inProgress, started, recorded>>
      BY <1>1, <2>2 DEF Arrive, TryAcquire, Typed, Linked
    <3> QED
      BY <1>0, <3>1, <3>2, CountAdd DEF Counted
  <2> QED
    BY <2>1, <2>2
<1>2. ASSUME NEW r \in Requests, Unwind(r) PROVE Goal
  <2>1. /\ InFlight' = InFlight \ {r} /\ r \in InFlight
        /\ BegunSet' = BegunSet /\ ReturnedSet' = ReturnedSet
        /\ RejectedSet' = RejectedSet
    BY <1>2 DEF Unwind, Abandon, Typed, Linked, BegunSet, ReturnedSet,
                RejectedSet, InFlight
  <2>2. /\ inProgress' = inProgress - 1
        /\ UNCHANGED <<rejected, started, recorded>>
    BY <1>2 DEF Unwind
  <2>3. CASE ticket[r] = "waiting"
    <3>1. Seats' = Seats \ {r} /\ r \in Seats /\ active' = active - 1
      BY <1>2, <2>3 DEF Unwind, Abandon, Typed, Seats
    <3> QED
      BY <1>0, <2>1, <2>2, <3>1, CountRemove DEF Counted, Typed
  <2>4. CASE ticket[r] # "waiting"
    <3>1. Seats' = Seats /\ active' = active
      BY <1>2, <2>4 DEF Unwind, Abandon, Typed, Seats
    <3> QED
      BY <1>0, <2>1, <2>2, <3>1, CountRemove DEF Counted
  <2> QED
    BY <2>3, <2>4
<1>3. ASSUME NEW r \in Requests, ReturnValue(r) PROVE Goal
  <2>1. /\ ReturnedSet' = ReturnedSet \union {r} /\ r \notin ReturnedSet
        /\ InFlight' = InFlight \ {r} /\ r \in InFlight
        /\ Seats' = Seats /\ BegunSet' = BegunSet /\ RejectedSet' = RejectedSet
    BY <1>3 DEF ReturnValue, Typed, Seats, BegunSet, ReturnedSet, RejectedSet,
                InFlight
  <2>2. /\ recorded' = recorded + 1 /\ inProgress' = inProgress - 1
        /\ UNCHANGED <<active, rejected, started>>
    BY <1>3 DEF ReturnValue
  <2> QED
    BY <1>0, <2>1, <2>2, CountAdd, CountRemove DEF Counted
<1>4. ASSUME NEW r \in Requests, RaiseError(r) PROVE Goal
  <2>1. /\ InFlight' = InFlight \ {r} /\ r \in InFlight
        /\ Seats' = Seats /\ BegunSet' = BegunSet
        /\ ReturnedSet' = ReturnedSet /\ RejectedSet' = RejectedSet
    BY <1>4 DEF RaiseError, Abandon, Typed, Linked, Seats, BegunSet,
                ReturnedSet, RejectedSet, InFlight
  <2>2. /\ inProgress' = inProgress - 1
        /\ UNCHANGED <<active, rejected, started, recorded>>
    BY <1>4 DEF RaiseError, Abandon, Linked
  <2> QED
    BY <1>0, <2>1, <2>2, CountRemove DEF Counted
<1>5. ASSUME NEW r \in Requests, OnStart(r) PROVE Goal
  <2>1. /\ BegunSet' = BegunSet \union {r} /\ r \notin BegunSet
        /\ Seats' = Seats /\ InFlight' = InFlight
        /\ ReturnedSet' = ReturnedSet /\ RejectedSet' = RejectedSet
    BY <1>5 DEF OnStart, Typed, Linked, Seats, BegunSet, ReturnedSet,
                RejectedSet, InFlight
  <2>2. started' = started + 1 /\ UNCHANGED <<active, rejected, recorded, inProgress>>
    BY <1>5 DEF OnStart
  <2> QED
    BY <1>0, <2>1, <2>2, CountAdd DEF Counted
<1>6. ASSUME NEW r \in Requests, FinishWork(r) PROVE Goal
  <2>1. /\ Seats' = Seats \ {r} /\ r \in Seats
        /\ BegunSet' = BegunSet /\ InFlight' = InFlight
        /\ ReturnedSet' = ReturnedSet /\ RejectedSet' = RejectedSet
    BY <1>6 DEF FinishWork, Finish, Typed, Seats, BegunSet, ReturnedSet,
                RejectedSet, InFlight
  <2>2. active' = active - 1 /\ UNCHANGED metricVars
    BY <1>6 DEF FinishWork, Finish
  <2> QED
    BY <1>0, <2>1, <2>2, CountRemove DEF Counted, Typed
<1>7. ASSUME NEW r \in Requests, Dispatch(r) PROVE Goal
  BY <1>7, QuietStep DEF Dispatch, Typed, Linked, Seats, BegunSet, ReturnedSet,
                           RejectedSet, InFlight
<1>8. ASSUME NEW r \in Requests, TaskCancel(r) PROVE Goal
  BY <1>8, QuietStep DEF TaskCancel, Typed, Linked, Seats, BegunSet, ReturnedSet,
                           RejectedSet, InFlight
<1>9. ASSUME NEW r \in Requests, ScopeCancel(r) PROVE Goal
  BY <1>9, QuietStep DEF ScopeCancel, Typed, Linked, Seats, BegunSet, ReturnedSet,
                           RejectedSet, InFlight
<1>10. ASSUME NEW r \in Requests, Claim(r) PROVE Goal
  BY <1>10, QuietStep DEF Claim, Typed, Linked, Seats, BegunSet, ReturnedSet,
                           RejectedSet, InFlight
<1>11. ASSUME NEW r \in Requests, StartWork(r) PROVE Goal
  BY <1>11, QuietStep DEF StartWork, Start, Typed, Linked, Seats, BegunSet, ReturnedSet,
                           RejectedSet, InFlight
<1>12. ASSUME NEW r \in Requests, WorkEnds(r) PROVE Goal
  BY <1>12, QuietStep DEF WorkEnds, Typed, Linked, Seats, BegunSet, ReturnedSet,
                           RejectedSet, InFlight
<1>13. ASSUME NEW r \in Requests, Report(r) PROVE Goal
  BY <1>13, QuietStep DEF Report, Typed, Linked, Seats, BegunSet, ReturnedSet,
                           RejectedSet, InFlight
<1>14. ASSUME NEW p \in Probes, ProbeArrive(p) PROVE Goal
  BY <1>14, QuietStep DEF ProbeArrive, Typed, Linked, Seats, BegunSet, ReturnedSet,
                           RejectedSet, InFlight
<1>15. ASSUME NEW p \in Probes, ProbeDispatch(p) PROVE Goal
  BY <1>15, QuietStep DEF ProbeDispatch, Typed, Linked, Seats, BegunSet, ReturnedSet,
                           RejectedSet, InFlight
<1>16. ASSUME NEW p \in Probes, ProbeAnswer(p) PROVE Goal
  BY <1>16, QuietStep DEF ProbeAnswer, Typed, Linked, Seats, BegunSet, ReturnedSet,
                           RejectedSet, InFlight
<1>17. CASE UNCHANGED vars
  BY <1>17, QuietStep DEF vars, Seats, BegunSet, ReturnedSet, RejectedSet, InFlight
<1> QED
  BY <1>1, <1>2, <1>3, <1>4, <1>5, <1>6, <1>7, <1>8, <1>9, <1>10, <1>11, <1>12, <1>13, <1>14, <1>15, <1>16, <1>17, NextCases

(* The inductive invariant holds initially and after every step.           *)
THEOREM Inductive == Spec => []IInv
<1>1. Init => IInv
  <2> SUFFICES ASSUME Init PROVE IInv
    OBVIOUS
  <2>1. Typed
    BY DEF Init, Typed, TicketStates, TaskStates, FutureStates, ThreadStates,
           ResultKinds, ProbeStates
  <2>2. \A r \in Requests : Linked(r)
    BY DEF Init, Linked
  <2>3. /\ Seats = {} /\ BegunSet = {} /\ ReturnedSet = {}
        /\ RejectedSet = {} /\ InFlight = {}
    BY DEF Init, Seats, HoldsSeat, BegunSet, Begun, ReturnedSet, RejectedSet,
           InFlight, Ended
  <2>4. Counted /\ active <= Limit
    BY <2>3, FS_EmptySet DEF Init, Counted
  <2> QED
    BY <2>1, <2>2, <2>4 DEF IInv
<1>2. IInv /\ [Next]_vars => IInv'
  BY TypedStep, LinkedStep, CountedStep DEF IInv
<1> QED
  BY <1>1, <1>2, PTL DEF Spec

-----------------------------------------------------------------------------
(* Every variable keeps its type, the counters within their bounds.        *)
THEOREM TypeCorrect == Spec => []TypeOK
<1>1. IInv => TypeOK
  <2> SUFFICES ASSUME IInv PROVE TypeOK
    OBVIOUS
  <2>1. /\ Cardinality(Seats) \in Nat /\ Cardinality(BegunSet) \in Nat
        /\ Cardinality(ReturnedSet) \in Nat /\ Cardinality(RejectedSet) \in Nat
        /\ Cardinality(InFlight) \in Nat
    BY CountNat DEF Seats, BegunSet, ReturnedSet, RejectedSet, InFlight
  <2> QED
    BY <2>1 DEF IInv, Typed, Counted, TypeOK
<1> QED
  BY <1>1, Inductive, PTL

(* The counter of RecommendationLimiter is the number of tickets that hold *)
(* a seat and stays within the limit, for every number of requests.        *)
THEOREM SeatsAccounted == Spec => []SeatAccounting
<1>1. IInv => SeatAccounting
  BY DEF IInv, Counted, SeatAccounting
<1> QED
  BY <1>1, Inductive, PTL

(* Recommendation work runs only between start() and finish() of a seat.   *)
THEOREM WorkInSeat == Spec => []NoWorkOutsideASeat
<1>1. IInv => NoWorkOutsideASeat
  BY DEF IInv, Linked, NoWorkOutsideASeat
<1> QED
  BY <1>1, Inductive, PTL

(* None of the asserts of admission.py can fail.                           *)
THEOREM NoAssertionFails == Spec => []AssertionsHold
<1>1. IInv => AssertionsHold
  <2> SUFFICES ASSUME IInv, NEW r \in Requests
               PROVE  /\ thread[r] = "claimed" => ticket[r] \in {"waiting", "cancelled"}
                      /\ thread[r] = "leaving" => ticket[r] = "running" /\ active > 0
                      /\ task[r] = "cancelling" \/ (task[r] = "awaiting" /\ future[r] = "error")
                           => ticket[r] # "cancelled"
                      /\ task[r] = "cancelling" /\ ticket[r] = "waiting" => active > 0
    BY DEF AssertionsHold
  <2>1. HoldsSeat(r) => active > 0
    <3>1. HoldsSeat(r) => Seats # {}
      BY DEF Seats
    <3> QED
      BY <3>1, CountNat DEF IInv, Counted, Seats
  <2> QED
    BY <2>1 DEF IInv, Linked, HoldsSeat
<1> QED
  BY <1>1, Inductive, PTL

(* run_admitted returns normally only the value of work that was done.     *)
THEOREM ReturnsWork == Spec => []ReturnedWorkWasDone
<1>1. IInv => ReturnedWorkWasDone
  BY DEF IInv, Linked, ReturnedWorkWasDone
<1> QED
  BY <1>1, Inductive, PTL

(* A handler that ended without a piercing Task.cancel() left no thread.   *)
THEOREM ScopesWait == Spec => []OnlyPiercingLeavesWorkBehind
<1>1. IInv => OnlyPiercingLeavesWorkBehind
  BY DEF IInv, Typed, Linked, OnlyPiercingLeavesWorkBehind, Ended, TaskStates
<1> QED
  BY <1>1, Inductive, PTL

(* The metrics agree with what happened to the requests, at every instant. *)
THEOREM MetricsAddUp == Spec => []MetricsReconcile
<1>1. IInv => MetricsReconcile
  <2> SUFFICES ASSUME IInv PROVE MetricsReconcile
    OBVIOUS
  <2>1. ReturnedSet \in SUBSET BegunSet /\ BegunSet \in SUBSET Requests
    BY DEF IInv, Linked, ReturnedSet, BegunSet, Begun
  <2>2. Cardinality(ReturnedSet) <= Cardinality(BegunSet)
    BY <2>1, FS_Subset
  <2> QED
    BY <2>2 DEF IInv, Counted, MetricsReconcile, ReturnedSet, BegunSet,
                RejectedSet, InFlight
<1> QED
  BY <1>1, Inductive, PTL

(* A ticket only moves along its life cycle, and the counter moves with    *)
(* the seats: a seat is returned exactly once.                             *)
THEOREM LifecycleKept == Spec => TicketLifecycle
<1> DEFINE Move ==
      /\ \A r \in Requests : ticket'[r] # ticket[r] =>
           <<ticket[r], ticket'[r]>> \in
              {<<"none", "waiting">>, <<"waiting", "running">>,
               <<"running", "done">>, <<"waiting", "cancelled">>}
      /\ active' - active = Cardinality(Seats') - Cardinality(Seats)
<1>1. ASSUME IInv, IInv', [Next]_vars PROVE [Move]_vars
  <2>1. active' - active = Cardinality(Seats') - Cardinality(Seats)
    BY <1>1 DEF IInv, Counted
  <2> SUFFICES ASSUME Next, NEW s \in Requests, ticket'[s] # ticket[s]
               PROVE  <<ticket[s], ticket'[s]>> \in
                        {<<"none", "waiting">>, <<"waiting", "running">>,
                         <<"running", "done">>, <<"waiting", "cancelled">>}
    BY <1>1, <2>1
  <2> USE <1>1 DEF IInv, Typed, limiterVars
  <2>1a. ASSUME NEW r \in Requests, Arrive(r)
         PROVE  ticket[s] = "none" /\ ticket'[s] = "waiting"
    BY <2>1a DEF Arrive, TryAcquire, Linked
  <2>2. ASSUME NEW r \in Requests, Unwind(r) \/ RaiseError(r)
        PROVE  ticket[s] = "waiting" /\ ticket'[s] = "cancelled"
    BY <2>2 DEF Unwind, RaiseError, Abandon
  <2>3. ASSUME NEW r \in Requests, StartWork(r)
        PROVE  ticket[s] = "waiting" /\ ticket'[s] = "running"
    BY <2>3 DEF StartWork, Start
  <2>4. ASSUME NEW r \in Requests, FinishWork(r)
        PROVE  ticket[s] = "running" /\ ticket'[s] = "done"
    BY <2>4 DEF FinishWork, Finish
  <2>5. ASSUME NEW r \in Requests,
               Dispatch(r) \/ TaskCancel(r) \/ ScopeCancel(r) \/ ReturnValue(r)
               \/ Claim(r) \/ OnStart(r) \/ WorkEnds(r) \/ Report(r)
        PROVE  FALSE
    BY <2>5 DEF Dispatch, TaskCancel, ScopeCancel, ReturnValue, Claim, OnStart,
                WorkEnds, Report
  <2>6. ASSUME NEW p \in Probes,
               ProbeArrive(p) \/ ProbeDispatch(p) \/ ProbeAnswer(p)
        PROVE  FALSE
    BY <2>6 DEF ProbeArrive, ProbeDispatch, ProbeAnswer
  <2> QED
    BY <2>1a, <2>2, <2>3, <2>4, <2>5, <2>6, NextCases
<1>2. IInv /\ IInv' /\ [Next]_vars => [Move]_vars
  BY <1>1
<1> QED
  BY <1>2, Inductive, PTL DEF Spec, TicketLifecycle

-----------------------------------------------------------------------------
(* The threads and tasks implement the abstract pool of seats: every step  *)
(* is one of the pool's steps or leaves the pool as it is.  The mapped     *)
(* variables, by the names the pool has for them:                          *)
Busy == {r \in Requests : thread[r] = "working"}
Seen == {r \in Requests : task[r] # "idle"}

THEOREM Refinement == Spec => ImplementsSeatPool
<1> USE DEF Pool!poolVars, Pool!Next, HoldsSeat, Begun, limiterVars, metricVars
<1> DEFINE Quiet == /\ Seats' = Seats /\ Busy' = Busy
                    /\ BegunSet' = BegunSet /\ Seen' = Seen
           Step  == [Pool!Next]_(Pool!poolVars)
<1>0. ASSUME NEW S PROVE Pool!Cardinality(S) = Cardinality(S)
  BY DEF Pool!Cardinality, Cardinality, Pool!IsFiniteSet, IsFiniteSet
<1>1. Init => Pool!Init
  BY DEF Init, Pool!Init, Seats
<1>2. ASSUME IInv, [Next]_vars PROVE Step
  <2> USE <1>2 DEF IInv, Typed
  <2>0. ASSUME Quiet PROVE Step
    BY <2>0 DEF Busy, BegunSet, Seen
  <2>1. ASSUME NEW r \in Requests, Arrive(r) PROVE Step
    <3>1. /\ r \notin Seen /\ Seen' = Seen \union {r}
          /\ Busy' = Busy /\ BegunSet' = BegunSet
      BY <2>1 DEF Arrive, TryAcquire, Linked, Seen, Busy, BegunSet
    <3>2. CASE active < Limit
      <4>1. Cardinality(Seats) < Limit /\ Seats' = Seats \union {r}
        BY <2>1, <3>2 DEF Arrive, TryAcquire, Counted, Seats
      <4>2. Pool!Admit(r)
        BY <1>0, <3>1, <4>1 DEF Pool!Admit, Seen, Busy, BegunSet
      <4> QED
        BY <4>2
    <3>3. CASE ~(active < Limit)
      <4>1. Cardinality(Seats) = Limit /\ Seats' = Seats
        BY <2>1, <3>3 DEF Arrive, TryAcquire, Counted, Seats
      <4>2. Pool!Refuse(r)
        BY <1>0, <3>1, <4>1 DEF Pool!Refuse, Seen, Busy, BegunSet
      <4> QED
        BY <4>2
    <3> QED
      BY <3>2, <3>3
  <2>2. ASSUME NEW r \in Requests, Unwind(r) PROVE Step
    <3>1. Seen' = Seen /\ Busy' = Busy /\ BegunSet' = BegunSet
      BY <2>2 DEF Unwind, Abandon, Seen, Busy, BegunSet
    <3>2. CASE ticket[r] = "waiting"
      <4>1. r \in Seats \ Busy /\ Seats' = Seats \ {r}
        BY <2>2, <3>2 DEF Unwind, Abandon, Linked, Seats, Busy
      <4>2. Pool!Return(r)
        BY <3>1, <4>1 DEF Pool!Return, Seen, Busy, BegunSet
      <4> QED
        BY <4>2
    <3>3. CASE ticket[r] # "waiting"
      <4>1. Seats' = Seats
        BY <2>2, <3>3 DEF Unwind, Abandon, Seats
      <4> QED
        BY <3>1, <4>1, <2>0
    <3> QED
      BY <3>2, <3>3
  <2>3. ASSUME NEW r \in Requests, OnStart(r) PROVE Step
    <3>1. /\ r \in Seats \ BegunSet
          /\ Busy' = Busy \union {r} /\ BegunSet' = BegunSet \union {r}
          /\ Seats' = Seats /\ Seen' = Seen
      BY <2>3 DEF OnStart, Linked, Seats, Busy, BegunSet, Seen
    <3>2. Pool!BeginWork(r)
      BY <3>1 DEF Pool!BeginWork, Seen, Busy, BegunSet
    <3> QED
      BY <3>2
  <2>4. ASSUME NEW r \in Requests, WorkEnds(r) PROVE Step
    <3>1. /\ r \in Busy /\ Busy' = Busy \ {r}
          /\ Seats' = Seats /\ BegunSet' = BegunSet /\ Seen' = Seen
      BY <2>4 DEF WorkEnds, Seats, Busy, BegunSet, Seen
    <3>2. Pool!EndWork(r)
      BY <3>1 DEF Pool!EndWork, Seen, Busy, BegunSet
    <3> QED
      BY <3>2
  <2>5. ASSUME NEW r \in Requests, FinishWork(r) PROVE Step
    <3>1. /\ r \in Seats \ Busy /\ Seats' = Seats \ {r}
          /\ Busy' = Busy /\ BegunSet' = BegunSet /\ Seen' = Seen
      BY <2>5 DEF FinishWork, Finish, Seats, Busy, BegunSet, Seen
    <3>2. Pool!Return(r)
      BY <3>1 DEF Pool!Return, Seen, Busy, BegunSet
    <3> QED
      BY <3>2
  <2>6. ASSUME NEW r \in Requests,
               Dispatch(r) \/ TaskCancel(r) \/ ScopeCancel(r) \/ ReturnValue(r)
        PROVE  Step
    <3>1. Quiet
      BY <2>6 DEF Dispatch, TaskCancel, ScopeCancel, ReturnValue, Linked,
                  Seats, Busy, BegunSet, Seen
    <3> QED
      BY <3>1, <2>0
  <2>7. ASSUME NEW r \in Requests,
               RaiseError(r) \/ Claim(r) \/ StartWork(r) \/ Report(r)
        PROVE  Step
    <3>1. Quiet
      BY <2>7 DEF RaiseError, Abandon, Claim, StartWork, Start, Report, Linked,
                  Seats, Busy, BegunSet, Seen
    <3> QED
      BY <3>1, <2>0
  <2>8. ASSUME NEW p \in Probes,
               ProbeArrive(p) \/ ProbeDispatch(p) \/ ProbeAnswer(p)
        PROVE  Step
    <3>1. Quiet
      BY <2>8 DEF ProbeArrive, ProbeDispatch, ProbeAnswer, Seats, Busy,
                  BegunSet, Seen
    <3> QED
      BY <3>1, <2>0
  <2>9. CASE UNCHANGED vars
    <3>1. Quiet
      BY <2>9 DEF vars, Seats, Busy, BegunSet, Seen
    <3> QED
      BY <3>1, <2>0
  <2> QED
    BY <2>1, <2>2, <2>3, <2>4, <2>5, <2>6, <2>7, <2>8, <2>9, NextCases
<1>3. IInv /\ [Next]_vars => [Pool!Next]_(Pool!poolVars)
  BY <1>2
<1> QED
  BY <1>1, <1>3, Inductive, PTL DEF Spec, ImplementsSeatPool, Pool!Spec
=============================================================================
