---------------------------- MODULE FetcherService ----------------------------
(***************************************************************************)
(* GTMSessionFetcherService: so many fetchers of a host run, the others    *)
(* wait in line, and one that stops lets the next one in.                  *)
(*                                                                         *)
(* Three threads call it: the queue of FIRStorage, which begins and stops  *)
(* fetchers, the delegate queue of the session, which hears of the end of  *)
(* a request and retries it, and the main queue, which authorizes, decides *)
(* on retries and hands out answers.  What the service does under its lock *)
(* is one step; the host of a fetcher is set and cleared outside the lock, *)
(* so that the steps of two threads about one fetcher interleave.          *)
(*                                                                         *)
(* The network is external.  Priorities are never set in this program, so  *)
(* that the line is first in, first out, and nobody is signed in, so that  *)
(* every start authorizes anew and authorization does not fail.            *)
(***************************************************************************)
EXTENDS Integers, Sequences, SequencesExt

CONSTANTS
  Fetchers,      \* all of one host
  MaxRunning,    \* maxRunningFetchersPerHost
  MaxFailures,   \* bound: so many requests fail
  MaxStops       \* bound: so many fetchers are stopped by their owner

ASSUME MaxRunningAssumption == MaxRunning \in Nat \ {0}
ASSUME BoundsAssumption == MaxFailures \in Nat /\ MaxStops \in Nat

VARIABLES
  running,    \* _runningFetchersByHost of the host
  delayed,    \* _delayedFetchersByHost of the host
  host,       \* the fetchers whose serviceHost is set
  work,       \* what each fetcher is at
  stopped,    \* _userStoppedFetching, and the callbacks are released
  answer,     \* the block of each completion handler: none, queued or given
  todo,       \* what each thread has left to do of the call it is in
  failures, stops

serviceVars ==
  <<running, delayed, host, work, stopped, answer, todo, failures, stops>>

lists == <<running, delayed>>
counters == <<failures, stops>>

Threads == {"storage", "delegate", "main"}

Works == {"new", "begun", "authorizing", "working", "deciding", "timer",
          "retry", "over"}

Ops == {"admit", "host", "start", "check", "leave", "clear", "decide"}

ServiceTypeOK ==
  /\ running \in Seq(Fetchers) /\ Len(running) <= MaxRunning
  /\ delayed \in Seq(Fetchers)
  /\ host \subseteq Fetchers /\ stopped \subseteq Fetchers
  /\ work \in [Fetchers -> Works]
  /\ answer \in [Fetchers -> {"none", "queued", "given"}]
  /\ todo \in [Threads -> Seq(Ops \X Fetchers)]
  /\ failures \in 0..MaxFailures /\ stops \in 0..MaxStops

Init ==
  /\ running = <<>> /\ delayed = <<>>
  /\ host = {} /\ stopped = {}
  /\ work = [f \in Fetchers |-> "new"]
  /\ answer = [f \in Fetchers |-> "none"]
  /\ todo = [t \in Threads |-> <<>>]
  /\ failures = 0 /\ stops = 0

-----------------------------------------------------------------------------
\* The steps a thread is in the middle of.

Doing(t, op, f) == todo[t] # <<>> /\ Head(todo[t]) = <<op, f>>

Then(t, steps) == todo' = [todo EXCEPT ![t] = steps \o Tail(@)]

\* removeObject.  A list holds a fetcher once (ListedOnce).
Without(list, f) ==
  IF Contains(list, f) THEN RemoveAt(list, CHOOSE i \in DOMAIN list : list[i] = f)
                       ELSE list

\* As many of the line as there are slots that n fetchers leave free.
Promoted(line, n) ==
  SubSeq(line, 1, IF Len(line) < MaxRunning - n THEN Len(line) ELSE MaxRunning - n)

StillDelayed(line, n) == SubSeq(line, Len(Promoted(line, n)) + 1, Len(line))

\* Mutant: one fetcher more than there are slots.
AdmitOneMore(t, f) ==
  /\ Doing(t, "admit", f)
  /\ IF Contains(running, f)
     THEN Then(t, <<<<"start", f>>>>) /\ UNCHANGED lists
     ELSE IF Len(running) <= MaxRunning
     THEN /\ running' = Append(running, f)
          /\ Then(t, <<<<"host", f>>, <<"start", f>>>>)
          /\ UNCHANGED delayed
     ELSE /\ delayed' = Append(delayed, f)
          /\ Then(t, <<<<"host", f>>>>)
          /\ UNCHANGED running
  /\ UNCHANGED <<host, work, stopped, answer, counters>>

\* Mutant: it is not looked up whether the fetcher is running already.
AdmitUnseen(t, f) ==
  /\ Doing(t, "admit", f)
  /\ IF Len(running) < MaxRunning
     THEN /\ running' = Append(running, f)
          /\ Then(t, <<<<"host", f>>, <<"start", f>>>>)
          /\ UNCHANGED delayed
     ELSE /\ delayed' = Append(delayed, f)
          /\ Then(t, <<<<"host", f>>>>)
          /\ UNCHANGED running
  /\ UNCHANGED <<host, work, stopped, answer, counters>>

\* fetcherShouldBeginFetching, and the fetcher goes on if it may.
Admit(t, f) ==
  /\ Doing(t, "admit", f)
  /\ IF Contains(running, f)
     THEN Then(t, <<<<"start", f>>>>) /\ UNCHANGED lists
     ELSE IF Len(running) < MaxRunning
     THEN /\ running' = Append(running, f)
          /\ Then(t, <<<<"host", f>>, <<"start", f>>>>)
          /\ UNCHANGED delayed
     ELSE /\ delayed' = Append(delayed, f)
          /\ Then(t, <<<<"host", f>>>>)
          /\ UNCHANGED running
  /\ UNCHANGED <<host, work, stopped, answer, counters>>

SetHost(t, f) ==
  /\ Doing(t, "host", f)
  /\ host' = host \cup {f}
  /\ Then(t, <<>>)
  /\ UNCHANGED <<lists, work, stopped, answer, counters>>

\* The authorizer is gone once a fetcher was stopped, the fetcher is not.
Start(t, f) ==
  /\ Doing(t, "start", f)
  /\ work' = [work EXCEPT ![f] = IF f \in stopped THEN "working"
                                                  ELSE "authorizing"]
  /\ Then(t, <<>>)
  /\ UNCHANGED <<lists, host, stopped, answer, counters>>

\* fetcherDidStop.  A fetcher without a host "has been stopped previously".
Check(t, f) ==
  /\ Doing(t, "check", f)
  /\ IF f \in host THEN Then(t, <<<<"leave", f>>>>) ELSE Then(t, <<>>)
  /\ UNCHANGED <<lists, host, work, stopped, answer, counters>>

\* Mutant: nobody is let in.
LeaveQuietly(t, f) ==
  /\ Doing(t, "leave", f)
  /\ running' = Without(running, f)
  /\ delayed' = Without(delayed, f)
  /\ Then(t, <<<<"clear", f>>>>)
  /\ UNCHANGED <<host, work, stopped, answer, counters>>

\* Mutant: the free slots are counted before the fetcher has left.
LeaveAfterCounting(t, f) ==
  /\ Doing(t, "leave", f)
  /\ LET stay == Without(running, f)
         line == Without(delayed, f)
         next == Promoted(line, Len(running))
     IN /\ running' = stay \o next
        /\ delayed' = StillDelayed(line, Len(running))
        /\ Then(t, [i \in DOMAIN next |-> <<"start", next[i]>>]
                     \o <<<<"clear", f>>>>)
  /\ UNCHANGED <<host, work, stopped, answer, counters>>

\* ... and while it holds the lock the service lets others in.
Leave(t, f) ==
  /\ Doing(t, "leave", f)
  /\ LET stay == Without(running, f)
         line == Without(delayed, f)
         next == Promoted(line, Len(stay))
     IN /\ running' = stay \o next
        /\ delayed' = StillDelayed(line, Len(stay))
        /\ Then(t, [i \in DOMAIN next |-> <<"start", next[i]>>]
                     \o <<<<"clear", f>>>>)
  /\ UNCHANGED <<host, work, stopped, answer, counters>>

\* After the lock, and after the others were started.
ClearHost(t, f) ==
  /\ Doing(t, "clear", f)
  /\ host' = host \ {f}
  /\ Then(t, <<>>)
  /\ UNCHANGED <<lists, work, stopped, answer, counters>>

-----------------------------------------------------------------------------
\* What a thread does next when it is done.

Enter(t, steps) == todo[t] = <<>> /\ todo' = [todo EXCEPT ![t] = steps]

Idle(t) == todo[t] = <<>> /\ UNCHANGED todo

Become(f, what) == work' = [work EXCEPT ![f] = what]

\* The end of the fetch: the answer is on its way if it is still wanted.
Finish(f) ==
  /\ Become(f, "over")
  /\ answer' = IF f \in stopped THEN answer ELSE [answer EXCEPT ![f] = "queued"]

\* On the queue of FIRStorage.

Begin(f) ==
  /\ work[f] = "new"
  /\ Enter("storage", <<<<"admit", f>>>>)
  /\ Become(f, "begun")
  /\ UNCHANGED <<lists, host, stopped, answer, counters>>

\* stopFetching ends a request and a retry timer.  Authorization, a start
\* that is coming and a retry that is queued go on.
StopFetching(f) ==
  /\ work[f] # "new" /\ f \notin stopped
  /\ stops < MaxStops
  /\ Enter("storage", <<<<"check", f>>>>)
  /\ stopped' = stopped \cup {f}
  /\ stops' = stops + 1
  /\ IF work[f] \in {"working", "timer"} THEN Become(f, "over")
                                         ELSE UNCHANGED work
  /\ UNCHANGED <<lists, host, answer, failures>>

\* On the delegate queue.

Succeed(f) ==
  /\ work[f] = "working"
  /\ Enter("delegate", <<<<"check", f>>>>)
  /\ Finish(f)
  /\ UNCHANGED <<lists, host, stopped, counters>>

\* The retry block decides on the main queue.  Without it, because the fetcher
\* was stopped or has retried long enough, the decision is made here.
Fail(f) ==
  /\ work[f] = "working"
  /\ failures < MaxFailures
  /\ failures' = failures + 1
  /\ \/ /\ f \notin stopped
        /\ Idle("delegate")
        /\ Become(f, "deciding")
        /\ UNCHANGED answer
     \/ /\ f \in stopped
        /\ Idle("delegate")
        /\ Become(f, "timer")
        /\ UNCHANGED answer
     \/ /\ Enter("delegate", <<<<"check", f>>>>)
        /\ Finish(f)
  /\ UNCHANGED <<lists, host, stopped, stops>>

\* Mutant: the fetcher is begun anew and then stopped.
RetryThenStop(f) ==
  /\ work[f] = "retry"
  /\ Enter("delegate", <<<<"admit", f>>, <<"check", f>>>>)
  /\ Become(f, "begun")
  /\ UNCHANGED <<lists, host, stopped, answer, counters>>

\* retryFetch stops the fetcher and begins it anew, stopped or not.
RetryFetch(f) ==
  /\ work[f] = "retry"
  /\ Enter("delegate", <<<<"check", f>>, <<"admit", f>>>>)
  /\ Become(f, "begun")
  /\ UNCHANGED <<lists, host, stopped, answer, counters>>

\* On the main queue.

Authorized(f) ==
  /\ work[f] = "authorizing"
  /\ Idle("main")
  /\ Become(f, "working")
  /\ UNCHANGED <<lists, host, stopped, answer, counters>>

\* The retry block is dropped when the fetcher was stopped meanwhile.
AskRetryBlock(f) ==
  /\ work[f] = "deciding"
  /\ IF f \in stopped
     THEN Idle("main") /\ Become(f, "over")
     ELSE Enter("main", <<<<"decide", f>>>>) /\ UNCHANGED work
  /\ UNCHANGED <<lists, host, stopped, answer, counters>>

Decide(f) ==
  /\ Doing("main", "decide", f)
  /\ \/ Become(f, "timer") /\ Then("main", <<>>) /\ UNCHANGED answer
     \/ Finish(f) /\ Then("main", <<<<"check", f>>>>)
  /\ UNCHANGED <<lists, host, stopped, counters>>

RetryTimerFired(f) ==
  /\ work[f] = "timer"
  /\ Idle("main")
  /\ Become(f, "retry")
  /\ UNCHANGED <<lists, host, stopped, answer, counters>>

\* The task that owns the fetcher goes with its answer, and stops it again.
Deliver(f) ==
  /\ answer[f] = "queued"
  /\ IF f \in stopped
     THEN /\ Idle("main")
          /\ answer' = [answer EXCEPT ![f] = "none"]
          /\ UNCHANGED stopped
     ELSE /\ Enter("main", <<<<"check", f>>>>)
          /\ answer' = [answer EXCEPT ![f] = "given"]
          /\ stopped' = stopped \cup {f}
  /\ UNCHANGED <<lists, host, work, counters>>

-----------------------------------------------------------------------------
Run(t, f) ==
  \/ Admit(t, f) \/ SetHost(t, f) \/ Start(t, f)
  \/ Check(t, f) \/ Leave(t, f) \/ ClearHost(t, f)

Main(f) ==
  Authorized(f) \/ AskRetryBlock(f) \/ Decide(f) \/ RetryTimerFired(f) \/ Deliver(f)

Progress == \E f \in Fetchers :
  \/ \E t \in Threads : Run(t, f)
  \/ Main(f) \/ Succeed(f) \/ RetryFetch(f)

Next ==
  \/ Progress
  \/ \E f \in Fetchers : Begin(f) \/ StopFetching(f) \/ Fail(f)

Spec == Init /\ [][Next]_serviceVars

\* Threads and queues go on, timers fire and requests come to an end.
FairSpec == Spec /\ WF_serviceVars(Progress)

-----------------------------------------------------------------------------
(***************************************************************************)
(* No fetcher is listed twice, whichever threads begin, stop and retry it: *)
(* a fetcher that is retried has left its slot, or is found in it          *)
(* (fetcherShouldBeginFetching, GTMSessionFetcherService.m:344-352).       *)
(***************************************************************************)
ListedOnce == IsInjective(running \o delayed)

(***************************************************************************)
(* Nobody waits while there is a free slot, whatever left it               *)
(* (fetcherDidStop, GTMSessionFetcherService.m:473-520).                   *)
(***************************************************************************)
SlotsAreUsed == delayed # <<>> => Len(running) = MaxRunning

(***************************************************************************)
(* A fetcher that is at work and was not stopped holds a slot, so that     *)
(* the limit of ServiceTypeOK is one of requests: "10 simultaneous         *)
(* fetchers targeting each host" (GTMSessionFetcherService.h:44).          *)
(***************************************************************************)
AtWorkHoldsSlot ==
  \A f \in Fetchers \ stopped :
    work[f] \in {"authorizing", "working", "deciding", "timer"}
      => Contains(running, f)

\* A slot that nobody will give back: the fetcher is over, and no thread has
\* or gets anything to do for it.
Lost(f) ==
  /\ Contains(running, f)
  /\ work[f] = "over" /\ answer[f] # "queued"
  /\ \A t \in Threads : \A i \in DOMAIN todo[t] : todo[t][i][2] # f

(***************************************************************************)
(* A fetcher that was begun gets its answer unless it is stopped, also     *)
(* when it has to wait in line and when its request fails, as long as no   *)
(* slot is lost: those before it come to an end and let it in.             *)
(***************************************************************************)
FetchersEnd ==
  \A f \in Fetchers :
    work[f] = "begun" ~> \/ answer[f] = "given" \/ f \in stopped
                         \/ \E g \in Fetchers : Lost(g)

(***************************************************************************)
(* A fetcher whose host was removed, which is how the service knows that   *)
(* it "has been stopped previously" (GTMSessionFetcherService.m:461), and  *)
(* that no thread is busy with, "is no longer in the running or the        *)
(* delayed array" (GTMSessionFetcherService.m:527): no stop and no retry   *)
(* that overlap leave it in a slot.                                        *)
(***************************************************************************)
WithoutHostNotListed ==
  \A f \in Fetchers \ host :
    Contains(running \o delayed, f)
      => \E t \in Threads : \E i \in DOMAIN todo[t] : todo[t][i][2] = f
=============================================================================
