----------------------------- MODULE Admission ------------------------------
(***************************************************************************)
(* Admission control of POST /recommend.  The handler (an asyncio task)    *)
(* takes a seat from RecommendationLimiter, hands the recommendation to a  *)
(* worker thread through anyio.to_thread.run_sync and awaits its future.   *)
(* The seat's Ticket is moved under one lock by the task (try_acquire,     *)
(* abandon) and by the thread (start, finish), so each of those is one     *)
(* step here; everything between them interleaves.                         *)
(*                                                                         *)
(* Task.cancel() ends the awaiting side while the thread goes on; the      *)
(* cancellation of an anyio scope is held back while the thread runs.      *)
(* GET /health is a plain function and so takes a token of the same anyio  *)
(* thread limiter.                                                         *)
(***************************************************************************)
EXTENDS Integers, FiniteSets

CONSTANTS Requests,  \* the POST /recommend requests
          Probes,    \* clients that call GET /health again and again
          Limit,     \* max_concurrent_recommendations
          Tokens     \* total_tokens of anyio's default thread limiter

ASSUME AdmissionAssumption ==
  /\ IsFiniteSet(Requests)
  /\ IsFiniteSet(Probes)
  /\ Requests \intersect Probes = {}
  /\ Limit \in Nat \ {0}
  /\ Tokens \in Nat \ {0}

VARIABLES
  active,      \* RecommendationLimiter._active
  ticket,      \* Ticket._state of each request, "none" before there is one
  task,        \* where the handler of each request stands
  future,      \* the asyncio future the handler awaits
  thread,      \* where the worker thread running work() stands
  result,      \* what work() ended with, before the loop is told
  tokens,      \* holders of the anyio thread limiter's tokens
  probe,       \* where each /health call stands
  scoped,      \* requests whose anyio scope was cancelled
  pierced,     \* requests whose task was cancelled while awaiting the thread
  rejected, started, recorded, inProgress   \* the Prometheus metrics

limiterVars == <<active, ticket>>
metricVars  == <<rejected, started, recorded, inProgress>>
vars == <<limiterVars, task, future, thread, result, tokens, probe,
          scoped, pierced, metricVars>>

TicketStates == {"none", "waiting", "running", "done", "cancelled"}
TaskStates   == {"idle", "queueing", "awaiting", "cancelling",
                 "rejected", "returned", "raised", "cancelled"}
FutureStates == {"none", "pending", "value", "error", "cancelled"}
ThreadStates == {"none", "queued", "claimed", "started", "working",
                 "leaving", "reporting", "over"}
ResultKinds  == {"none", "value", "error"}
ProbeStates  == {"idle", "waiting", "running"}
Ended        == {"rejected", "returned", "raised", "cancelled"}

HoldsSeat(r) == ticket[r] \in {"waiting", "running"}
Seats        == {r \in Requests : HoldsSeat(r)}
Begun(r)     == ticket[r] = "done" \/ thread[r] \in {"working", "leaving"}

Init ==
  /\ active = 0
  /\ ticket = [r \in Requests |-> "none"]
  /\ task = [r \in Requests |-> "idle"]
  /\ future = [r \in Requests |-> "none"]
  /\ thread = [r \in Requests |-> "none"]
  /\ result = [r \in Requests |-> "none"]
  /\ tokens = {}
  /\ probe = [p \in Probes |-> "idle"]
  /\ scoped = {}
  /\ pierced = {}
  /\ rejected = 0 /\ started = 0 /\ recorded = 0 /\ inProgress = 0

-----------------------------------------------------------------------------
(* The ticket: RecommendationLimiter and Ticket.  The guard that stands    *)
(* for an assert of the code comes first; AssertionsHold says that it      *)
(* never fails.                                                            *)

(* Mutant: the limit compared with <=.                                     *)
TryAcquireOffByOne(r) ==
  \/ /\ active <= Limit
     /\ active' = active + 1
     /\ ticket' = [ticket EXCEPT ![r] = "waiting"]
  \/ /\ active > Limit
     /\ UNCHANGED limiterVars

TryAcquire(r) ==
  \/ /\ active < Limit
     /\ active' = active + 1
     /\ ticket' = [ticket EXCEPT ![r] = "waiting"]
  \/ /\ active >= Limit
     /\ UNCHANGED limiterVars

(* Mutant: start() does not look for a cancelled ticket.                   *)
StartUnchecked(r) ==
  /\ ticket' = [ticket EXCEPT ![r] = "running"]
  /\ UNCHANGED active

Start(r) ==
  /\ ticket[r] \in {"waiting", "cancelled"}
  /\ ticket' = [ticket EXCEPT ![r] = IF @ = "waiting" THEN "running" ELSE @]
  /\ UNCHANGED active

Finish(r) ==
  /\ ticket[r] = "running"
  /\ active > 0
  /\ ticket' = [ticket EXCEPT ![r] = "done"]
  /\ active' = active - 1

(* Mutant: abandon() gives the seat back whatever the ticket's state.      *)
AbandonAlways(r) ==
  /\ ticket' = [ticket EXCEPT ![r] = "cancelled"]
  /\ active' = active - 1

(* Mutant: the state check of abandon() lets a running ticket through too. *)
AbandonRunning(r) ==
  \/ /\ ticket[r] \in {"waiting", "running"}
     /\ ticket' = [ticket EXCEPT ![r] = IF @ = "waiting" THEN "cancelled" ELSE @]
     /\ active' = active - 1
  \/ /\ ticket[r] \notin {"waiting", "running"}
     /\ UNCHANGED limiterVars

Abandon(r) ==
  /\ ticket[r] # "cancelled"
  /\ \/ /\ ticket[r] = "waiting"
        /\ active > 0
        /\ ticket' = [ticket EXCEPT ![r] = "cancelled"]
        /\ active' = active - 1
     \/ /\ ticket[r] # "waiting"
        /\ UNCHANGED limiterVars

-----------------------------------------------------------------------------
(* The handler, on the event loop.                                         *)

(* A request arrives: the middleware counts it, the handler takes a seat   *)
(* or answers 503 at once, which also ends the request.                    *)
Arrive(r) ==
  /\ task[r] = "idle"
  /\ TryAcquire(r)
  /\ \/ /\ ticket'[r] = "waiting"
        /\ task' = [task EXCEPT ![r] = "queueing"]
        /\ inProgress' = inProgress + 1
        /\ UNCHANGED rejected
     \/ /\ ticket'[r] = "none"
        /\ task' = [task EXCEPT ![r] = "rejected"]
        /\ rejected' = rejected + 1
        /\ UNCHANGED inProgress
  /\ UNCHANGED <<future, thread, result, tokens, probe, scoped, pierced,
                 started, recorded>>

(* run_sync gets a thread token and puts work() on a worker's queue.       *)
Dispatch(r) ==
  /\ task[r] = "queueing"
  /\ Cardinality(tokens) < Tokens
  /\ tokens' = tokens \union {r}
  /\ task' = [task EXCEPT ![r] = "awaiting"]
  /\ future' = [future EXCEPT ![r] = "pending"]
  /\ thread' = [thread EXCEPT ![r] = "queued"]
  /\ UNCHANGED <<limiterVars, result, probe, scoped, pierced, metricVars>>

(* asyncio's Task.cancel().  A pending future is cancelled on the spot;    *)
(* the coroutine sees CancelledError at its next turn of the loop.         *)
TaskCancel(r) ==
  /\ task[r] \in {"queueing", "awaiting"}
  /\ task' = [task EXCEPT ![r] = "cancelling"]
  /\ future' = [future EXCEPT ![r] = IF @ = "pending" THEN "cancelled" ELSE @]
  /\ pierced' = IF task[r] = "awaiting" THEN pierced \union {r} ELSE pierced
  /\ UNCHANGED <<limiterVars, thread, result, tokens, probe, scoped,
                 metricVars>>

(* Mutant: the ticket is abandoned when the cancellation is requested, not *)
(* when it reaches run_admitted.                                           *)
ScopeCancelAbandons(r) ==
  /\ task[r] = "awaiting"
  /\ r \notin scoped
  /\ scoped' = scoped \union {r}
  /\ Abandon(r)
  /\ UNCHANGED <<task, future, thread, result, tokens, probe, pierced,
                 metricVars>>

(* Cancellation of a surrounding anyio scope: held back by the shield once *)
(* the work is handed to a thread.                                         *)
ScopeCancel(r) ==
  /\ task[r] \in {"queueing", "awaiting"}
  /\ r \notin scoped
  /\ scoped' = scoped \union {r}
  /\ task' = [task EXCEPT ![r] = IF @ = "queueing" THEN "cancelling" ELSE @]
  /\ UNCHANGED <<limiterVars, future, thread, result, tokens, probe,
                 pierced, metricVars>>

(* Mutant: except Exception, which CancelledError passes by.               *)
UnwindUncaught(r) ==
  /\ task[r] = "cancelling"
  /\ tokens' = tokens \ {r}
  /\ task' = [task EXCEPT ![r] = "cancelled"]
  /\ inProgress' = inProgress - 1
  /\ UNCHANGED <<limiterVars, future, thread, result, probe, scoped, pierced,
                 rejected, started, recorded>>

(* CancelledError reaches run_admitted: the token is given back while the  *)
(* exception unwinds run_sync, then the ticket is abandoned.               *)
Unwind(r) ==
  /\ task[r] = "cancelling"
  /\ tokens' = tokens \ {r}
  /\ Abandon(r)
  /\ task' = [task EXCEPT ![r] = "cancelled"]
  /\ inProgress' = inProgress - 1
  /\ UNCHANGED <<future, thread, result, probe, scoped, pierced,
                 rejected, started, recorded>>

(* run_sync returns: the handler records the outcome and answers.          *)
ReturnValue(r) ==
  /\ task[r] = "awaiting" /\ future[r] = "value"
  /\ tokens' = tokens \ {r}
  /\ task' = [task EXCEPT ![r] = "returned"]
  /\ recorded' = recorded + 1
  /\ inProgress' = inProgress - 1
  /\ UNCHANGED <<limiterVars, future, thread, result, probe, scoped, pierced,
                 rejected, started>>

(* Mutant: the outcome is recorded in a finally clause.                    *)
RaiseErrorRecords(r) ==
  /\ task[r] = "awaiting" /\ future[r] = "error"
  /\ tokens' = tokens \ {r}
  /\ Abandon(r)
  /\ task' = [task EXCEPT ![r] = "raised"]
  /\ recorded' = recorded + 1
  /\ inProgress' = inProgress - 1
  /\ UNCHANGED <<future, thread, result, probe, scoped, pierced, rejected,
                 started>>

(* work() raised: the except clause abandons the ticket and re-raises.     *)
RaiseError(r) ==
  /\ task[r] = "awaiting" /\ future[r] = "error"
  /\ tokens' = tokens \ {r}
  /\ Abandon(r)
  /\ task' = [task EXCEPT ![r] = "raised"]
  /\ inProgress' = inProgress - 1
  /\ UNCHANGED <<future, thread, result, probe, scoped, pierced,
                 rejected, started, recorded>>

-----------------------------------------------------------------------------
(* The worker thread.                                                      *)

(* The worker takes the item and looks whether its future is still wanted. *)
Claim(r) ==
  /\ thread[r] = "queued"
  /\ thread' = [thread EXCEPT ![r] = IF future[r] = "cancelled"
                                     THEN "over" ELSE "claimed"]
  /\ UNCHANGED <<limiterVars, task, future, result, tokens, probe, scoped,
                 pierced, metricVars>>

(* work() begins: without the ticket it returns None and runs nothing.     *)
StartWork(r) ==
  /\ thread[r] = "claimed"
  /\ Start(r)
  /\ thread' = [thread EXCEPT ![r] = IF ticket'[r] = "running"
                                     THEN "started" ELSE "reporting"]
  /\ UNCHANGED <<task, future, result, tokens, probe, scoped, pierced,
                 metricVars>>

OnStart(r) ==
  /\ thread[r] = "started"
  /\ started' = started + 1
  /\ thread' = [thread EXCEPT ![r] = "working"]
  /\ UNCHANGED <<limiterVars, task, future, result, tokens, probe, scoped,
                 pierced, rejected, recorded, inProgress>>

(* recommend_for_question returns a response or raises.                    *)
WorkEnds(r) ==
  /\ thread[r] = "working"
  /\ \E k \in {"value", "error"} : result' = [result EXCEPT ![r] = k]
  /\ thread' = [thread EXCEPT ![r] = "leaving"]
  /\ UNCHANGED <<limiterVars, task, future, tokens, probe, scoped, pierced,
                 metricVars>>

(* The finally clause of work().                                           *)
FinishWork(r) ==
  /\ thread[r] = "leaving"
  /\ Finish(r)
  /\ thread' = [thread EXCEPT ![r] = "reporting"]
  /\ UNCHANGED <<task, future, result, tokens, probe, scoped, pierced,
                 metricVars>>

(* The loop runs the worker's report: a cancelled future takes no result.  *)
(* A work() that ran nothing would report None as a value.                 *)
Report(r) ==
  /\ thread[r] = "reporting"
  /\ thread' = [thread EXCEPT ![r] = "over"]
  /\ future' = [future EXCEPT ![r] =
                  IF @ = "cancelled" THEN @
                  ELSE IF result[r] = "error" THEN "error" ELSE "value"]
  /\ UNCHANGED <<limiterVars, task, result, tokens, probe, scoped, pierced,
                 metricVars>>

-----------------------------------------------------------------------------
(* GET /health, a synchronous handler on the same thread limiter.          *)

ProbeArrive(p) ==
  /\ probe[p] = "idle"
  /\ probe' = [probe EXCEPT ![p] = "waiting"]
  /\ UNCHANGED <<limiterVars, task, future, thread, result, tokens, scoped,
                 pierced, metricVars>>

ProbeDispatch(p) ==
  /\ probe[p] = "waiting"
  /\ Cardinality(tokens) < Tokens
  /\ tokens' = tokens \union {p}
  /\ probe' = [probe EXCEPT ![p] = "running"]
  /\ UNCHANGED <<limiterVars, task, future, thread, result, scoped, pierced,
                 metricVars>>

ProbeAnswer(p) ==
  /\ probe[p] = "running"
  /\ tokens' = tokens \ {p}
  /\ probe' = [probe EXCEPT ![p] = "idle"]
  /\ UNCHANGED <<limiterVars, task, future, thread, result, scoped, pierced,
                 metricVars>>

-----------------------------------------------------------------------------
Loop(r)   == Unwind(r) \/ ReturnValue(r) \/ RaiseError(r) \/ Report(r)
Worker(r) == Claim(r) \/ StartWork(r) \/ OnStart(r) \/ FinishWork(r)

Next ==
  \/ \E r \in Requests : \/ Arrive(r) \/ Dispatch(r)
                         \/ TaskCancel(r) \/ ScopeCancel(r)
                         \/ Loop(r) \/ Worker(r) \/ WorkEnds(r)
  \/ \E p \in Probes : ProbeArrive(p) \/ ProbeDispatch(p) \/ ProbeAnswer(p)

Spec == Init /\ [][Next]_vars

(* The event loop and the worker threads keep running.  Tokens are handed  *)
(* out first come first served, hence strong fairness for a waiter.  No    *)
(* fairness for WorkEnds: a recommendation may hang on a remote service.   *)
FairSpec ==
  /\ Spec
  /\ \A r \in Requests : /\ WF_vars(Loop(r)) /\ WF_vars(Worker(r))
                         /\ SF_vars(Dispatch(r))
  /\ \A p \in Probes : SF_vars(ProbeDispatch(p)) /\ WF_vars(ProbeAnswer(p))

-----------------------------------------------------------------------------
(* Every variable keeps its type.                                          *)
TypeOK ==
  /\ active \in 0..Limit
  /\ ticket \in [Requests -> TicketStates]
  /\ task \in [Requests -> TaskStates]
  /\ future \in [Requests -> FutureStates]
  /\ thread \in [Requests -> ThreadStates]
  /\ result \in [Requests -> ResultKinds]
  /\ tokens \subseteq Requests \union Probes
  /\ probe \in [Probes -> ProbeStates]
  /\ scoped \subseteq Requests /\ pierced \subseteq Requests
  /\ rejected \in Nat /\ started \in Nat /\ recorded \in Nat /\ inProgress \in Nat

(* The counter behind the limit is the number of tickets that are waiting  *)
(* or running, whoever moved them, and it never passes the limit.          *)
SeatAccounting == active = Cardinality(Seats) /\ active <= Limit

(* No recommendation runs outside a seat: from start() to finish() the     *)
(* ticket is running, although the handler may be long gone.               *)
NoWorkOutsideASeat ==
  \A r \in Requests :
    thread[r] \in {"started", "working", "leaving"} => ticket[r] = "running"

(* None of the four asserts of admission.py can fail, in any interleaving  *)
(* of the thread and a cancelled handler.                                  *)
AssertionsHold ==
  \A r \in Requests :
    /\ thread[r] = "claimed" => ticket[r] \in {"waiting", "cancelled"}
    /\ thread[r] = "leaving" => ticket[r] = "running" /\ active > 0
    /\ task[r] = "cancelling" \/ (task[r] = "awaiting" /\ future[r] = "error")
         => ticket[r] # "cancelled"
    /\ task[r] = "cancelling" /\ ticket[r] = "waiting" => active > 0

(* run_admitted returns normally only when the work began and finished: it *)
(* never hands the handler the None of a work() that ran nothing.          *)
ReturnedWorkWasDone ==
  \A r \in Requests :
    future[r] = "value" /\ task[r] \in {"awaiting", "returned"}
      => ticket[r] = "done" /\ result[r] = "value"

(* Only Task.cancel() can end the handler while its thread still works:    *)
(* the cancellation of a scope waits for the thread.                       *)
OnlyPiercingLeavesWorkBehind ==
  \A r \in Requests :
    task[r] \in Ended /\ r \notin pierced => thread[r] \in {"none", "over"}

(* The metrics add up at every instant: started counts the work that began *)
(* (an outcome is recorded for some of it, never for more), and every      *)
(* request is rejected, in progress or over.                               *)
MetricsReconcile ==
  /\ started = Cardinality({r \in Requests : Begun(r)})
  /\ recorded = Cardinality({r \in Requests : task[r] = "returned"})
  /\ recorded <= started
  /\ rejected = Cardinality({r \in Requests : task[r] = "rejected"})
  /\ inProgress = Cardinality({r \in Requests : task[r] \notin Ended \union {"idle"}})

(* A ticket moves waiting to running to done or waiting to cancelled, one  *)
(* ticket a step; the counter goes down by one exactly when a ticket       *)
(* leaves its seat: returned once, never twice.                            *)
TicketLifecycle ==
  [][/\ \A r \in Requests : ticket'[r] # ticket[r] =>
          <<ticket[r], ticket'[r]>> \in
             {<<"none", "waiting">>, <<"waiting", "running">>,
              <<"running", "done">>, <<"waiting", "cancelled">>}
     /\ active' - active = Cardinality(Seats') - Cardinality(Seats)]_vars

(* Whatever is cancelled when, in the end a request holds a seat only      *)
(* while its recommendation is really running: no seat leaks.              *)
SeatsReturn ==
  \A r \in Requests : <>[](HoldsSeat(r) => thread[r] = "working")

(* As long as the limit is below the number of threads, /health is served  *)
(* even if every admitted recommendation hangs for ever.                   *)
HealthServed ==
  \A p \in Probes : probe[p] = "waiting" ~> probe[p] = "running"

(* The abstract pool of seats that this component implements.              *)
Pool == INSTANCE SeatPool WITH
          seats <- Seats,
          busy  <- {r \in Requests : thread[r] = "working"},
          begun <- {r \in Requests : Begun(r)},
          seen  <- {r \in Requests : task[r] # "idle"}

(* Every behaviour of the threads and tasks is one of the abstract pool.   *)
ImplementsSeatPool == Pool!Spec
=============================================================================
