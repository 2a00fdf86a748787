------------------------------ MODULE UploadTask ------------------------------
(***************************************************************************)
(* One upload through the vendored Firebase Storage SDK, from the call in  *)
(* CanvasDrawVC.FBUploadManager to its completion block:                   *)
(*   FIRStorageReference.putData, FIRStorageUploadTask,                    *)
(*   FIRStorageObservableTask and the callbacks of GTMSessionFetcher.      *)
(*                                                                         *)
(* Two threads share the task: the main thread, which runs the app and, in *)
(* order, the blocks of the main queue; and the serial queue of            *)
(* FIRStorage.  Handlers are added and copied under a lock, the state is   *)
(* read and written without one.  The app only observes; cancel, pause and *)
(* resume are there for any client.                                        *)
(***************************************************************************)
EXTENDS Naturals, Sequences

CONSTANTS Ops,           \* what a client may call on the task later
          MaxOps,        \* bound: so many of these calls
          MaxProgress    \* bound: so many progress events

ASSUME OpsAssumption    == Ops \subseteq {"cancel", "pause", "resume"}
ASSUME BoundsAssumption == MaxOps \in Nat /\ MaxProgress \in Nat

VARIABLES
  main,        \* where the main thread is, and the answer it is handling
  mainQ,       \* the blocks of the main queue
  storageQ,    \* the blocks of the storage queue
  storagePc,   \* where the storage queue is inside its first block
  state,       \* FIRStorageTask.state
  observers,   \* the handlers that are registered
  fetcher,     \* the phase of the GTMSessionUploadFetcher
  listening,   \* the task's fetcherCompletion is not nil
  completed,   \* putData's flag
  reported,    \* history: the calls of the app's completion block
  stored,      \* the bucket holds the object
  ops,         \* calls of the client so far
  events     \* progress events so far

\* The fetcher is known by its contract alone, which UploadFetcher implements.
Fetcher == INSTANCE FetcherContract WITH phase <- fetcher

taskVars == <<main, mainQ, storageQ, storagePc, state, observers, fetcher,
              listening, completed, reported, stored, ops, events>>

States == {"unknown", "queueing", "running", "progress", "resuming", "paused",
           "success", "failed", "cancelled"}

\* The handlers: putData adds the first two, the app the others.
Handlers == {"put success", "put failure", "app progress", "app failure"}

StatusOf == [h \in Handlers |->
               IF h = "put success" THEN "success"
               ELSE IF h = "app progress" THEN "progress"
               ELSE "failure"]

MainSteps == {"put data",
              "add progress", "check progress", "add failure", "check failure",
              "idle",
              "progress fire", "progress end",
              "answer state", "answer fire", "answer end"}

Handler(h)  == [kind |-> "handler",  handler |-> h]
Wrapped(h)  == [kind |-> "wrapped",  handler |-> h]
Answer(ok)  == [kind |-> "answer",   ok |-> ok]
Progress    == [kind |-> "progress"]

Blocks == {Handler(h) : h \in Handlers}
            \cup {Wrapped(h) : h \in {"put success", "put failure"}}
            \cup {Answer(ok) : ok \in BOOLEAN}
            \cup {Progress}

TaskTypeOK ==
  /\ main \in [step : MainSteps, ok : BOOLEAN]
  /\ mainQ \in Seq(Blocks)
  /\ storageQ \in Seq({"enqueue"} \cup Ops)
  /\ storagePc \in {"start", "begin", "fire", "end"}
  /\ state \in States
  /\ observers \subseteq Handlers
  /\ fetcher \in Fetcher!Phases
  /\ listening \in BOOLEAN
  /\ completed \in BOOLEAN
  /\ reported \in Seq({"success", "failure"})
  /\ stored \in BOOLEAN
  /\ ops \in 0..MaxOps
  /\ events \in 0..MaxProgress

TaskInit ==
  /\ main = [step |-> "put data", ok |-> FALSE]
  /\ mainQ = <<>>
  /\ storageQ = <<>>
  /\ storagePc = "start"
  /\ state = "unknown"
  /\ observers = {}
  /\ fetcher = "none"
  /\ listening = FALSE
  /\ completed = FALSE
  /\ reported = <<>>
  /\ stored = FALSE
  /\ ops = 0
  /\ events = 0

-----------------------------------------------------------------------------
\* fireHandlers copies the handlers of a status under the lock and dispatches
\* each to the main queue; the order of a dictionary is anyone's guess.

Orders(hs) ==
  {o \in UNION {[1..n -> hs] : n \in 0..2} :
     /\ \A h \in hs : \E i \in DOMAIN o : o[i] = h
     /\ \A i, j \in DOMAIN o : o[i] = o[j] => i = j}

\* The main queues there may be once the handlers of status follow q.
Fires(q, status) ==
  {q \o [i \in DOMAIN o |-> Handler(o[i])] :
     o \in Orders({h \in observers : StatusOf[h] = status})}

At(step) == main.step = step
Goto(step) == main' = [main EXCEPT !.step = step]

-----------------------------------------------------------------------------
\* The app's turn: FBUploadManager.

\* No one else has the task yet, so its first observers see no one.
PutData ==
  /\ At("put data")
  /\ observers' = {"put success", "put failure"}
  /\ storageQ' = <<"enqueue">>
  /\ Goto("add progress")
  /\ UNCHANGED <<mainQ, storagePc, state, fetcher, listening, completed,
                 reported, stored, ops, events>>

\* observe: add the handler under the lock ...
AddObserver(step, h, next) ==
  /\ At(step)
  /\ observers' = observers \cup {h}
  /\ Goto(next)
  /\ UNCHANGED <<mainQ, storageQ, storagePc, state, fetcher, listening,
                 completed, reported, stored, ops, events>>

\* ... then look at the state, and if it calls for it fire every handler of
\* the status, not only the one just added.
FireIfIn(step, states, status, next) ==
  /\ At(step)
  /\ IF state \in states THEN mainQ' \in Fires(mainQ, status)
                        ELSE UNCHANGED mainQ
  /\ Goto(next)
  /\ UNCHANGED <<storageQ, storagePc, state, observers, fetcher, listening,
                 completed, reported, stored, ops, events>>

ObserveProgress ==
  \/ AddObserver("add progress", "app progress", "check progress")
  \/ FireIfIn("check progress", {"running", "progress"}, "progress",
              "add failure")

ObserveFailure ==
  \/ AddObserver("add failure", "app failure", "check failure")
  \/ FireIfIn("check failure", {"failed"}, "failure", "idle")

\* A later turn of a client: cancel, pause and resume only dispatch a block.
ClientCalls(op) ==
  /\ At("idle")
  /\ ops < MaxOps
  /\ ops' = ops + 1
  /\ storageQ' = Append(storageQ, op)
  /\ UNCHANGED <<main, mainQ, storagePc, state, observers, fetcher, listening,
                 completed, reported, stored, events>>

-----------------------------------------------------------------------------
\* The main queue, one block at a time once the app's turn is over.

NextBlock(kind) ==
  /\ At("idle")
  /\ mainQ # <<>>
  /\ Head(mainQ).kind = kind

\* putData's handlers dispatch once more, to the same queue; the app's print.
RunHandler ==
  /\ NextBlock("handler")
  /\ LET h == Head(mainQ).handler IN
     mainQ' = IF h \in {"put success", "put failure"}
              THEN Append(Tail(mainQ), Wrapped(h))
              ELSE Tail(mainQ)
  /\ UNCHANGED <<main, storageQ, storagePc, state, observers, fetcher,
                 listening, completed, reported, stored, ops, events>>

\* Mutant: the flag that the completion was called is not looked at.
RunWrappedAgain ==
  /\ NextBlock("wrapped")
  /\ mainQ' = Tail(mainQ)
  /\ completed' = TRUE
  /\ reported' = Append(reported, StatusOf[Head(mainQ).handler])
  /\ UNCHANGED <<main, storageQ, storagePc, state, observers, fetcher,
                 listening, stored, ops, events>>

\* Mutant: the wrong name is passed on.
RunWrappedRaw ==
  /\ NextBlock("wrapped")
  /\ mainQ' = Tail(mainQ)
  /\ completed' = TRUE
  /\ reported' = IF completed THEN reported
                 ELSE Append(reported, Head(mainQ).handler)
  /\ UNCHANGED <<main, storageQ, storagePc, state, observers, fetcher,
                 listening, stored, ops, events>>

\* The block that calls the app's completion, if it was not called before.
RunWrapped ==
  /\ NextBlock("wrapped")
  /\ mainQ' = Tail(mainQ)
  /\ completed' = TRUE
  /\ reported' = IF completed THEN reported
                 ELSE Append(reported, StatusOf[Head(mainQ).handler])
  /\ UNCHANGED <<main, storageQ, storagePc, state, observers, fetcher,
                 listening, stored, ops, events>>

\* Callbacks of the fetcher are dropped if it was stopped meanwhile.
DropCallback ==
  /\ NextBlock("progress") \/ NextBlock("answer")
  /\ fetcher = "stopped"
  /\ mainQ' = Tail(mainQ)
  /\ UNCHANGED <<main, storageQ, storagePc, state, observers, fetcher,
                 listening, completed, reported, stored, ops, events>>

RunProgress ==
  /\ NextBlock("progress")
  /\ fetcher # "stopped"
  /\ mainQ' = Tail(mainQ)
  /\ state' = "progress"
  /\ Goto("progress fire")
  /\ UNCHANGED <<storageQ, storagePc, observers, fetcher, listening, completed,
                 reported, stored, ops, events>>

RunProgressFire ==
  /\ At("progress fire")
  /\ mainQ' \in Fires(mainQ, "progress")
  /\ Goto("progress end")
  /\ UNCHANGED <<storageQ, storagePc, state, observers, fetcher, listening,
                 completed, reported, stored, ops, events>>

RunProgressEnd ==
  /\ At("progress end")
  /\ state' = "running"
  /\ Goto("idle")
  /\ UNCHANGED <<mainQ, storageQ, storagePc, observers, fetcher, listening,
                 completed, reported, stored, ops, events>>

\* fetcherCompletion: a last progress event, then the state, ...
RunAnswer ==
  /\ NextBlock("answer")
  /\ fetcher # "stopped"
  /\ listening
  /\ mainQ' \in Fires(Tail(mainQ), "progress")
  /\ main' = [step |-> "answer state", ok |-> Head(mainQ).ok]
  /\ UNCHANGED <<storageQ, storagePc, state, observers, fetcher, listening,
                 completed, reported, stored, ops, events>>

\* Mutant: the observers go before the handlers of the outcome are fired.
RunAnswerStateForgets ==
  /\ At("answer state")
  /\ state' = IF main.ok THEN "success" ELSE "failed"
  /\ observers' = {}
  /\ Goto("answer fire")
  /\ UNCHANGED <<mainQ, storageQ, storagePc, fetcher, listening, completed,
                 reported, stored, ops, events>>

RunAnswerState ==
  /\ At("answer state")
  /\ state' = IF main.ok THEN "success" ELSE "failed"
  /\ Goto("answer fire")
  /\ UNCHANGED <<mainQ, storageQ, storagePc, observers, fetcher, listening,
                 completed, reported, stored, ops, events>>

\* ... and finishTaskWithStatus: the handlers of the outcome, ...
RunAnswerFire ==
  /\ At("answer fire")
  /\ mainQ' \in Fires(mainQ, IF main.ok THEN "success" ELSE "failure")
  /\ Goto("answer end")
  /\ UNCHANGED <<storageQ, storagePc, state, observers, fetcher, listening,
                 completed, reported, stored, ops, events>>

\* ... and then no handler is left.
RunAnswerEnd ==
  /\ At("answer end")
  /\ observers' = {}
  /\ listening' = FALSE
  /\ Goto("idle")
  /\ UNCHANGED <<mainQ, storageQ, storagePc, state, fetcher, completed,
                 reported, stored, ops, events>>

-----------------------------------------------------------------------------
\* The storage queue.  A block writes the state, turns to the fetcher, then
\* fires the handlers, while the main thread goes on.

\* No one ever registers for "pause" or "resume": firing those does nothing.
StorageBlock(op, step, next) ==
  /\ storageQ # <<>>
  /\ Head(storageQ) = op
  /\ storagePc = step
  /\ storagePc' = next
  /\ storageQ' = IF next = "start" THEN Tail(storageQ) ELSE storageQ
  /\ UNCHANGED <<main, observers, completed, reported, stored, ops, events>>

Enqueue ==
  \/ /\ StorageBlock("enqueue", "start", "begin")
     /\ state' = "queueing"
     /\ UNCHANGED <<mainQ, fetcher, listening>>
  \/ /\ StorageBlock("enqueue", "begin", "start")
     /\ state' = "running"
     /\ Fetcher!Begin
     /\ listening' = TRUE
     /\ UNCHANGED mainQ

\* Mutant: cancel leaves it to the fetcher to tell the app.
CancelSilently ==
  \/ /\ StorageBlock("cancel", "start", "begin")
     /\ state' = "cancelled"
     /\ UNCHANGED <<mainQ, fetcher, listening>>
  \/ /\ StorageBlock("cancel", "begin", "start")
     /\ Fetcher!Stop
     /\ UNCHANGED <<mainQ, state, listening>>

Cancel ==
  \/ /\ StorageBlock("cancel", "start", "begin")
     /\ state' = "cancelled"
     /\ UNCHANGED <<mainQ, fetcher, listening>>
  \/ /\ StorageBlock("cancel", "begin", "fire")
     /\ Fetcher!Stop
     /\ UNCHANGED <<mainQ, state, listening>>
  \/ /\ StorageBlock("cancel", "fire", "start")
     /\ mainQ' \in Fires(mainQ, "failure")
     /\ UNCHANGED <<state, fetcher, listening>>

Pause ==
  \/ /\ StorageBlock("pause", "start", "begin")
     /\ state' = "paused"
     /\ UNCHANGED <<mainQ, fetcher, listening>>
  \/ /\ StorageBlock("pause", "begin", "start")
     /\ Fetcher!Pause \/ (fetcher # "fetching" /\ UNCHANGED fetcher)
     /\ UNCHANGED <<mainQ, state, listening>>

Resume ==
  \/ /\ StorageBlock("resume", "start", "begin")
     /\ state' = "resuming"
     /\ UNCHANGED <<mainQ, fetcher, listening>>
  \/ /\ StorageBlock("resume", "begin", "end")
     /\ Fetcher!Resume \/ (fetcher # "paused" /\ UNCHANGED fetcher)
     /\ UNCHANGED <<mainQ, state, listening>>
  \/ /\ StorageBlock("resume", "end", "start")
     /\ state' = "running"
     /\ UNCHANGED <<mainQ, fetcher, listening>>

-----------------------------------------------------------------------------
\* The fetcher and the server.  The callback queue of the fetcher is the main
\* queue.

ServerStores ==
  /\ Fetcher!Store
  /\ UNCHANGED <<main, mainQ, storageQ, storagePc, state, observers, listening,
                 completed, reported, ops, events>>

\* What is under way goes on while paused.
FetcherProgress ==
  /\ fetcher \in {"fetching", "paused"}
  /\ events < MaxProgress
  /\ events' = events + 1
  /\ mainQ' = Append(mainQ, Progress)
  /\ UNCHANGED <<main, storageQ, storagePc, state, observers, fetcher,
                 listening, completed, reported, stored, ops>>

FetcherAnswers(ok) ==
  /\ Fetcher!Answer(ok)
  /\ mainQ' = Append(mainQ, Answer(ok))
  /\ UNCHANGED <<main, storageQ, storagePc, state, observers, listening,
                 completed, reported, ops, events>>

-----------------------------------------------------------------------------
MainNext ==
  \/ PutData \/ ObserveProgress \/ ObserveFailure
  \/ RunHandler \/ RunWrapped \/ DropCallback
  \/ RunProgress \/ RunProgressFire \/ RunProgressEnd
  \/ RunAnswer \/ RunAnswerState \/ RunAnswerFire \/ RunAnswerEnd

StorageNext == Enqueue \/ Cancel \/ Pause \/ Resume

Answers == \E ok \in BOOLEAN : FetcherAnswers(ok)

TaskNext ==
  \/ MainNext
  \/ StorageNext
  \/ \E op \in Ops : ClientCalls(op)
  \/ ServerStores \/ FetcherProgress \/ Answers

TaskSpec == TaskInit /\ [][TaskNext]_taskVars

\* Both queues are served, and a fetch that goes on gets an answer, which it
\* does when faults come to an end (UploadFetcher!UploadEnds).
FairTaskSpec ==
  /\ TaskSpec
  /\ WF_taskVars(MainNext)
  /\ WF_taskVars(StorageNext)
  /\ WF_taskVars(fetcher = "fetching" /\ Answers)

-----------------------------------------------------------------------------
(***************************************************************************)
(* The completion block is called at most once, whatever the client calls  *)
(* and however the handlers overtake one another, and with no error only   *)
(* if the object is stored (FIRStorageReference.m:176-199).                *)
(***************************************************************************)
Contract == INSTANCE UploadContract
KeepsContract == Contract!Spec

(***************************************************************************)
(* An upload that is not left paused for ever is reported to the app: no   *)
(* race of a stop, an answer and the removal of the observers loses the    *)
(* completion block.                                                       *)
(***************************************************************************)
ReportsOutcome == <>[](fetcher # "paused") => <>(reported # <<>>)

(***************************************************************************)
(* When the task has given up its observers, the app has been told the     *)
(* outcome, or a block that will tell it is already on the main queue: the *)
(* removal of the observers never overtakes the firing of the outcome.     *)
(***************************************************************************)
TellsOutcome(b) ==
  b \in Blocks /\ b.kind \in {"handler", "wrapped"}
               /\ b.handler \in {"put success", "put failure"}

OutcomeOnItsWay ==
  At("idle") /\ observers = {} =>
    reported # <<>> \/ \E i \in DOMAIN mainQ : TellsOutcome(mainQ[i])
=============================================================================
