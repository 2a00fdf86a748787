--------------------------- MODULE UploadTaskProofs ---------------------------
(***************************************************************************)
(* Proofs about UploadTask, for any calls of the client and any bounds.    *)
(***************************************************************************)
EXTENDS UploadTask, SequenceTheorems, TLAPS

(***************************************************************************)
(* Dispatching handlers adds to the queue handlers of that status only.    *)
(***************************************************************************)
LEMMA FiresProperties ==
  ASSUME NEW q \in Seq(Blocks), NEW status, observers \subseteq Handlers,
         NEW r \in Fires(q, status)
  PROVE  /\ r \in Seq(Blocks)
         /\ \A i \in 1..Len(r) :
              \/ \E j \in 1..Len(q) : r[i] = q[j]
              \/ \E h \in Handlers : StatusOf[h] = status /\ r[i] = Handler(h)
<1> DEFINE hs == {h \in observers : StatusOf[h] = status}
<1>1. PICK o \in Orders(hs) : r = q \o [i \in DOMAIN o |-> Handler(o[i])]
  BY DEF Fires
<1>2. PICK n \in 0..2 : o \in [1..n -> hs]
  BY DEF Orders
<1> DEFINE t == [i \in DOMAIN o |-> Handler(o[i])]
<1>3. \A i \in 1..n : /\ o[i] \in Handlers
                      /\ StatusOf[o[i]] = status
                      /\ Handler(o[i]) \in Blocks
  BY <1>2 DEF Blocks
<1>4. /\ t \in [1..n -> Blocks]
      /\ \A i \in 1..n : t[i] = Handler(o[i])
  BY <1>2, <1>3
<1>5. /\ t \in Seq(Blocks)
      /\ Len(t) = n
  <2>1. n \in Nat
    BY <1>2
  <2>2. t \in Seq(Blocks)
    BY <1>4, <2>1, SeqDef
  <2>3. QED
    BY <1>4, <2>1, <2>2, LenProperties
<1> HIDE DEF t
<1>6. /\ r \in Seq(Blocks)
      /\ Len(r) = Len(q) + Len(t)
      /\ \A i \in 1..Len(q) + Len(t) :
           r[i] = IF i <= Len(q) THEN q[i] ELSE t[i - Len(q)]
  BY <1>1, <1>5, ConcatProperties DEF t
<1>7. Len(q) \in Nat
  BY LenProperties
<1>8. ASSUME NEW i \in 1..Len(r), ~ i <= Len(q)
      PROVE  \E h \in Handlers : StatusOf[h] = status /\ r[i] = Handler(h)
  <2>1. i - Len(q) \in 1..n
    BY <1>5, <1>6, <1>7, <1>8
  <2>2. r[i] = Handler(o[i - Len(q)])
    BY <1>4, <1>6, <1>8, <2>1 DEF t
  <2>3. QED
    BY <1>3, <2>1, <2>2
<1>9. ASSUME NEW i \in 1..Len(r), i <= Len(q)
      PROVE  \E j \in 1..Len(q) : r[i] = q[j]
  BY <1>6, <1>7, <1>9
<1>10. QED
  BY <1>6, <1>8, <1>9

-----------------------------------------------------------------------------
(***************************************************************************)
(* What the actions that serve the main queue do to it, by kind of block.  *)
(***************************************************************************)
LEMMA HeadBlock ==
  ASSUME mainQ \in Seq(Blocks), mainQ # <<>>
  PROVE  /\ Head(mainQ) \in Blocks
         /\ Head(mainQ) = mainQ[1]
         /\ 1 \in 1..Len(mainQ)
         /\ Tail(mainQ) \in Seq(Blocks)
         /\ Len(Tail(mainQ)) = Len(mainQ) - 1
         /\ \A i \in 1..Len(Tail(mainQ)) :
              /\ i + 1 \in 1..Len(mainQ)
              /\ Tail(mainQ)[i] = mainQ[i + 1]
<1>1. Len(mainQ) \in Nat \ {0}
  BY EmptySeq
<1>2. /\ Head(mainQ) \in Blocks
      /\ Tail(mainQ) \in Seq(Blocks)
      /\ Len(Tail(mainQ)) = Len(mainQ) - 1
      /\ \A i \in 1..Len(Tail(mainQ)) : Tail(mainQ)[i] = mainQ[i + 1]
  BY HeadTailProperties
<1>3. Head(mainQ) = mainQ[1]
  BY SMT
<1>4. QED
  BY <1>1, <1>2, <1>3

(***************************************************************************)
(* A block of each kind is what its kind says.                             *)
(***************************************************************************)
LEMMA BlockKinds ==
  ASSUME NEW b \in Blocks
  PROVE  /\ b.kind = "handler" =>
              b.handler \in Handlers /\ b = Handler(b.handler)
         /\ b.kind = "wrapped" =>
              /\ b.handler \in {"put success", "put failure"}
              /\ b = Wrapped(b.handler)
         /\ b.kind = "answer" => b.ok \in BOOLEAN /\ b = Answer(b.ok)
<1>1. CASE b \in {Handler(h) : h \in Handlers}
  <2>1. PICK h \in Handlers : b = Handler(h)
    BY <1>1
  <2>2. b.kind = "handler" /\ b.handler = h
    BY <2>1 DEF Handler
  <2>3. QED
    BY <2>1, <2>2
<1>2. CASE b \in {Wrapped(h) : h \in {"put success", "put failure"}}
  <2>1. PICK h \in {"put success", "put failure"} : b = Wrapped(h)
    BY <1>2
  <2>2. b.kind = "wrapped" /\ b.handler = h
    BY <2>1 DEF Wrapped
  <2>3. QED
    BY <2>1, <2>2
<1>3. CASE b \in {Answer(ok) : ok \in BOOLEAN}
  <2>1. PICK ok \in BOOLEAN : b = Answer(ok)
    BY <1>3
  <2>2. b.kind = "answer" /\ b.ok = ok
    BY <2>1 DEF Answer
  <2>3. QED
    BY <2>1, <2>2
<1>4. CASE b = Progress
  BY <1>4 DEF Progress
<1>5. QED
  BY <1>1, <1>2, <1>3, <1>4 DEF Blocks

(***************************************************************************)
(* Every step keeps the state in its types.                                *)
(***************************************************************************)
LEMMA TaskTypeStep == TaskTypeOK /\ [TaskNext]_taskVars => TaskTypeOK'
<1> SUFFICES ASSUME TaskTypeOK, [TaskNext]_taskVars
             PROVE  TaskTypeOK'
  OBVIOUS
<1> DEFINE MainType == [step : MainSteps, ok : BOOLEAN]
<1> USE DEF TaskTypeOK
<1>a. \A step \in MainSteps : [main EXCEPT !.step = step] \in MainType
  OBVIOUS
<1>b. \A ok \in BOOLEAN : [step |-> "answer state", ok |-> ok] \in MainType
  BY DEF MainSteps
<1> HIDE DEF TaskTypeOK
<1>1. CASE PutData
  <2>1. storageQ' \in Seq({"enqueue"} \cup Ops)
    <3>1. "enqueue" \in {"enqueue"} \cup Ops
      OBVIOUS
    <3>2. <<"enqueue">> = Append(<<>>, "enqueue")
      BY SMT
    <3>3. <<"enqueue">> \in Seq({"enqueue"} \cup Ops)
      BY <3>1, <3>2, EmptySeq, AppendProperties
    <3>4. QED
      BY <1>1, <3>3 DEF PutData
  <2>2. main' \in MainType
    BY <1>1, <1>a DEF PutData, Goto, MainSteps
  <2>3. observers' \subseteq Handlers
    BY <1>1 DEF PutData, Handlers
  <2>4. UNCHANGED <<mainQ, storagePc, state, fetcher, listening, completed,
                    reported, stored, ops, events>>
    BY <1>1 DEF PutData
  <2>5. QED
    BY <2>1, <2>2, <2>3, <2>4 DEF TaskTypeOK
<1>2. ASSUME NEW step, NEW h \in Handlers, NEW next \in MainSteps,
             AddObserver(step, h, next)
      PROVE  TaskTypeOK'
  <2>1. main' \in MainType
    BY <1>2, <1>a DEF AddObserver, Goto
  <2>2. observers' \subseteq Handlers
    BY <1>2 DEF AddObserver, TaskTypeOK
  <2>3. UNCHANGED <<mainQ, storageQ, storagePc, state, fetcher, listening,
                    completed, reported, stored, ops, events>>
    BY <1>2 DEF AddObserver
  <2>4. QED
    BY <2>1, <2>2, <2>3 DEF TaskTypeOK
<1>3. ASSUME NEW step, NEW states, NEW status, NEW next \in MainSteps,
             FireIfIn(step, states, status, next)
      PROVE  TaskTypeOK'
  <2>1. main' \in MainType
    BY <1>3, <1>a DEF FireIfIn, Goto
  <2>2. mainQ' \in Seq(Blocks)
    BY <1>3, FiresProperties DEF FireIfIn, TaskTypeOK
  <2>3. UNCHANGED <<storageQ, storagePc, state, observers, fetcher, listening,
                    completed, reported, stored, ops, events>>
    BY <1>3 DEF FireIfIn
  <2>4. QED
    BY <2>1, <2>2, <2>3 DEF TaskTypeOK
<1>4. CASE ObserveProgress \/ ObserveFailure
  BY <1>2, <1>3, <1>4 DEF ObserveProgress, ObserveFailure, Handlers, MainSteps
<1>5. CASE RunHandler
  <2>1. mainQ # <<>>
    BY <1>5 DEF RunHandler, NextBlock
  <2>2. Tail(mainQ) \in Seq(Blocks)
    BY <2>1, HeadBlock DEF TaskTypeOK
  <2>3. \A h \in {"put success", "put failure"} :
          Append(Tail(mainQ), Wrapped(h)) \in Seq(Blocks)
    <3>1. \A h \in {"put success", "put failure"} : Wrapped(h) \in Blocks
      BY DEF Blocks
    <3>2. QED
      BY <2>2, <3>1, AppendProperties
  <2>4. mainQ' \in Seq(Blocks)
    BY <1>5, <2>2, <2>3 DEF RunHandler
  <2>5. UNCHANGED <<main, storageQ, storagePc, state, observers, fetcher,
                    listening, completed, reported, stored, ops, events>>
    BY <1>5 DEF RunHandler
  <2>6. QED
    BY <2>4, <2>5 DEF TaskTypeOK
<1>6. CASE RunWrapped
  <2>1. mainQ # <<>> /\ Head(mainQ).kind = "wrapped"
    BY <1>6 DEF RunWrapped, NextBlock
  <2>2. /\ Tail(mainQ) \in Seq(Blocks)
        /\ Head(mainQ).handler \in {"put success", "put failure"}
    BY <2>1, HeadBlock, BlockKinds DEF TaskTypeOK
  <2>3. StatusOf[Head(mainQ).handler] \in {"success", "failure"}
    BY <2>2 DEF StatusOf, Handlers
  <2>4. reported' \in Seq({"success", "failure"})
    BY <1>6, <2>3, AppendProperties DEF RunWrapped, TaskTypeOK
  <2>5. mainQ' \in Seq(Blocks)
    BY <1>6, <2>2 DEF RunWrapped
  <2>6. completed' \in BOOLEAN
    BY <1>6 DEF RunWrapped
  <2>7. UNCHANGED <<main, storageQ, storagePc, state, observers, fetcher,
                    listening, stored, ops, events>>
    BY <1>6 DEF RunWrapped
  <2>8. QED
    BY <2>4, <2>5, <2>6, <2>7 DEF TaskTypeOK
<1>7. CASE DropCallback
  <2>1. mainQ' \in Seq(Blocks)
    BY <1>7, HeadBlock DEF DropCallback, NextBlock, TaskTypeOK
  <2>2. UNCHANGED <<main, storageQ, storagePc, state, observers, fetcher,
                    listening, completed, reported, stored, ops, events>>
    BY <1>7 DEF DropCallback
  <2>3. QED
    BY <2>1, <2>2 DEF TaskTypeOK
<1>8. CASE RunProgress
  <2>1. mainQ' \in Seq(Blocks)
    BY <1>8, HeadBlock DEF RunProgress, NextBlock, TaskTypeOK
  <2>2. main' \in MainType /\ state' \in States
    BY <1>8, <1>a DEF RunProgress, Goto, MainSteps, States
  <2>3. UNCHANGED <<storageQ, storagePc, observers, fetcher, listening,
                    completed, reported, stored, ops, events>>
    BY <1>8 DEF RunProgress
  <2>4. QED
    BY <2>1, <2>2, <2>3 DEF TaskTypeOK
<1>9. CASE RunProgressFire \/ RunAnswerFire
  <2>1. mainQ' \in Seq(Blocks)
    BY <1>9, FiresProperties DEF RunProgressFire, RunAnswerFire, TaskTypeOK
  <2>2. main' \in MainType
    BY <1>9, <1>a DEF RunProgressFire, RunAnswerFire, Goto, MainSteps
  <2>3. UNCHANGED <<storageQ, storagePc, state, observers, fetcher, listening,
                    completed, reported, stored, ops, events>>
    BY <1>9 DEF RunProgressFire, RunAnswerFire
  <2>4. QED
    BY <2>1, <2>2, <2>3 DEF TaskTypeOK
<1>10. CASE RunProgressEnd \/ RunAnswerState
  <2>1. main' \in MainType
    BY <1>10, <1>a DEF RunProgressEnd, RunAnswerState, Goto, MainSteps
  <2>2. state' \in States
    BY <1>10 DEF RunProgressEnd, RunAnswerState, States
  <2>3. UNCHANGED <<mainQ, storageQ, storagePc, observers, fetcher, listening,
                    completed, reported, stored, ops, events>>
    BY <1>10 DEF RunProgressEnd, RunAnswerState
  <2>4. QED
    BY <2>1, <2>2, <2>3 DEF TaskTypeOK
<1>11. CASE RunAnswer
  <2>1. mainQ # <<>> /\ Head(mainQ).kind = "answer"
    BY <1>11 DEF RunAnswer, NextBlock
  <2>2. Tail(mainQ) \in Seq(Blocks) /\ Head(mainQ).ok \in BOOLEAN
    BY <2>1, HeadBlock, BlockKinds DEF TaskTypeOK
  <2>3. mainQ' \in Seq(Blocks)
    BY <1>11, <2>2, FiresProperties DEF RunAnswer, TaskTypeOK
  <2>4. main' \in MainType
    BY <1>11, <1>b, <2>2 DEF RunAnswer
  <2>5. UNCHANGED <<storageQ, storagePc, state, observers, fetcher, listening,
                    completed, reported, stored, ops, events>>
    BY <1>11 DEF RunAnswer
  <2>6. QED
    BY <2>3, <2>4, <2>5 DEF TaskTypeOK
<1>12. CASE RunAnswerEnd
  <2>1. main' \in MainType
    BY <1>12, <1>a DEF RunAnswerEnd, Goto, MainSteps
  <2>2. observers' \subseteq Handlers /\ listening' \in BOOLEAN
    BY <1>12 DEF RunAnswerEnd
  <2>3. UNCHANGED <<mainQ, storageQ, storagePc, state, fetcher, completed,
                    reported, stored, ops, events>>
    BY <1>12 DEF RunAnswerEnd
  <2>4. QED
    BY <2>1, <2>2, <2>3 DEF TaskTypeOK
<1>13. ASSUME NEW op, NEW step, NEW next \in {"start", "begin", "fire", "end"},
              StorageBlock(op, step, next),
              mainQ' \in Seq(Blocks),
              state' \in States,
              fetcher' \in Fetcher!Phases,
              listening' \in BOOLEAN
       PROVE  TaskTypeOK'
  <2>1. storageQ' \in Seq({"enqueue"} \cup Ops)
    BY <1>13, HeadTailProperties DEF StorageBlock, TaskTypeOK
  <2>2. storagePc' \in {"start", "begin", "fire", "end"}
    BY <1>13 DEF StorageBlock
  <2>3. UNCHANGED <<main, observers, completed, reported, stored, ops, events>>
    BY <1>13 DEF StorageBlock
  <2>4. QED
    BY <1>13, <2>1, <2>2, <2>3 DEF TaskTypeOK
<1>14. CASE Enqueue
  <2>1. /\ mainQ' \in Seq(Blocks)
        /\ state' \in States
        /\ fetcher' \in Fetcher!Phases
    BY <1>14 DEF Enqueue, States, TaskTypeOK, Fetcher!Begin, Fetcher!Phases
  <2>2. listening' \in BOOLEAN
    BY <1>14 DEF Enqueue, TaskTypeOK
  <2>3. QED
    BY <1>13, <1>14, <2>1, <2>2 DEF Enqueue
<1>15. CASE Cancel
  <2>1. mainQ' \in Seq(Blocks)
    BY <1>15, FiresProperties DEF Cancel, TaskTypeOK
  <2>2. /\ state' \in States
        /\ fetcher' \in Fetcher!Phases
    BY <1>15 DEF Cancel, States, TaskTypeOK, Fetcher!Stop, Fetcher!Phases
  <2>3. listening' \in BOOLEAN
    BY <1>15 DEF Cancel, TaskTypeOK
  <2>4. QED
    BY <1>13, <1>15, <2>1, <2>2, <2>3 DEF Cancel
<1>16. CASE Pause \/ Resume
  <2>1. /\ mainQ' \in Seq(Blocks)
        /\ state' \in States
        /\ fetcher' \in Fetcher!Phases
    BY <1>16 DEF Pause, Resume, States, TaskTypeOK, Fetcher!Pause,
                 Fetcher!Resume, Fetcher!Phases
  <2>2. listening' \in BOOLEAN
    BY <1>16 DEF Pause, Resume, TaskTypeOK
  <2>3. QED
    BY <1>13, <1>16, <2>1, <2>2 DEF Pause, Resume
<1>17. ASSUME NEW op \in Ops, ClientCalls(op)
       PROVE  TaskTypeOK'
  <2>1. storageQ' \in Seq({"enqueue"} \cup Ops)
    BY <1>17, AppendProperties DEF ClientCalls, TaskTypeOK
  <2>2. ops' \in 0..MaxOps
    BY <1>17, BoundsAssumption DEF ClientCalls, TaskTypeOK
  <2>3. UNCHANGED <<main, mainQ, storagePc, state, observers, fetcher,
                    listening, completed, reported, stored, events>>
    BY <1>17 DEF ClientCalls
  <2>4. QED
    BY <2>1, <2>2, <2>3 DEF TaskTypeOK
<1>18. CASE ServerStores
  <2>1. stored' \in BOOLEAN
    BY <1>18 DEF ServerStores, Fetcher!Store
  <2>2. UNCHANGED <<main, mainQ, storageQ, storagePc, state, observers,
                    fetcher, listening, completed, reported, ops, events>>
    BY <1>18 DEF ServerStores, Fetcher!Store
  <2>3. QED
    BY <2>1, <2>2 DEF TaskTypeOK
<1>19. CASE FetcherProgress
  <2>1. Progress \in Blocks
    BY DEF Blocks
  <2>2. mainQ' \in Seq(Blocks)
    BY <1>19, <2>1, AppendProperties DEF FetcherProgress, TaskTypeOK
  <2>3. events' \in 0..MaxProgress
    BY <1>19, BoundsAssumption DEF FetcherProgress, TaskTypeOK
  <2>4. UNCHANGED <<main, storageQ, storagePc, state, observers, fetcher,
                    listening, completed, reported, stored, ops>>
    BY <1>19 DEF FetcherProgress
  <2>5. QED
    BY <2>2, <2>3, <2>4 DEF TaskTypeOK
<1>20. ASSUME NEW ok \in BOOLEAN, FetcherAnswers(ok)
       PROVE  TaskTypeOK'
  <2>1. Answer(ok) \in Blocks
    BY DEF Blocks
  <2>2. mainQ' \in Seq(Blocks)
    BY <1>20, <2>1, AppendProperties DEF FetcherAnswers, TaskTypeOK
  <2>3. fetcher' \in Fetcher!Phases
    BY <1>20 DEF FetcherAnswers, Fetcher!Answer, Fetcher!Phases
  <2>4. UNCHANGED <<main, storageQ, storagePc, state, observers, listening,
                    completed, reported, stored, ops, events>>
    BY <1>20 DEF FetcherAnswers, Fetcher!Answer
  <2>5. QED
    BY <2>2, <2>3, <2>4 DEF TaskTypeOK
<1>21. CASE UNCHANGED taskVars
  BY <1>21 DEF taskVars, TaskTypeOK
<1>22. QED
  BY <1>1, <1>4, <1>5, <1>6, <1>7, <1>8, <1>9, <1>10, <1>11, <1>12, <1>14,
     <1>15, <1>16, <1>17, <1>18, <1>19, <1>20, <1>21
     DEF TaskNext, MainNext, StorageNext, Answers

(***************************************************************************)
(* Type correctness of the upload task.                                    *)
(***************************************************************************)
THEOREM TaskTypeCorrect == TaskSpec => []TaskTypeOK
<1>1. ASSUME TaskInit
      PROVE  TaskTypeOK
  <2>1. main \in [step : MainSteps, ok : BOOLEAN]
    BY <1>1 DEF TaskInit, MainSteps
  <2>2. ops \in 0..MaxOps /\ events \in 0..MaxProgress
    <3>1. ops = 0 /\ events = 0
      BY <1>1 DEF TaskInit
    <3>2. QED
      BY <3>1, BoundsAssumption
  <2>3. /\ listening \in BOOLEAN
        /\ completed \in BOOLEAN
        /\ stored \in BOOLEAN
    BY <1>1 DEF TaskInit
  <2>4. /\ mainQ \in Seq(Blocks)
        /\ storageQ \in Seq({"enqueue"} \cup Ops)
        /\ reported \in Seq({"success", "failure"})
    BY <1>1, EmptySeq DEF TaskInit
  <2>5. /\ storagePc = "start"
        /\ state \in States
        /\ observers = {}
        /\ fetcher = "none"
    BY <1>1 DEF TaskInit, States
  <2>6. QED
    BY <2>1, <2>2, <2>3, <2>4, <2>5 DEF TaskTypeOK, Fetcher!Phases
<1>2. QED
  BY <1>1, TaskTypeStep, PTL DEF TaskSpec

-----------------------------------------------------------------------------
(***************************************************************************)
(* The inductive invariant: a block that will report success, or lead to   *)
(* that, is on the main queue only if the object is stored; and the flag   *)
(* says whether the completion block was called.                           *)
(***************************************************************************)
Vouched(b) ==
  b \in {Handler("put success"), Wrapped("put success"), Answer(TRUE)} => stored

AllVouched(q) == \A i \in 1..Len(q) : Vouched(q[i])

SafeInv ==
  /\ AllVouched(mainQ)
  /\ main.ok => stored
  /\ completed <=> reported # <<>>

(***************************************************************************)
(* Serving a block leaves the vouched ones, and adding a vouched block     *)
(* keeps them all vouched.                                                 *)
(***************************************************************************)
LEMMA ServeVouched ==
  ASSUME mainQ \in Seq(Blocks), mainQ # <<>>, AllVouched(mainQ)
  PROVE  Vouched(Head(mainQ)) /\ AllVouched(Tail(mainQ))
<1>1. /\ Head(mainQ) = mainQ[1]
      /\ 1 \in 1..Len(mainQ)
      /\ \A i \in 1..Len(Tail(mainQ)) :
           /\ i + 1 \in 1..Len(mainQ)
           /\ Tail(mainQ)[i] = mainQ[i + 1]
  BY HeadBlock
<1>2. QED
  BY <1>1 DEF AllVouched

LEMMA AppendVouched ==
  ASSUME NEW q \in Seq(Blocks), AllVouched(q), NEW b \in Blocks, Vouched(b)
  PROVE  AllVouched(Append(q, b))
<1>1. /\ Len(q) \in Nat
      /\ Len(Append(q, b)) = Len(q) + 1
      /\ \A i \in 1..Len(q) : Append(q, b)[i] = q[i]
      /\ Append(q, b)[Len(q) + 1] = b
  BY AppendProperties, LenProperties
<1>2. \A i \in 1..Len(q) + 1 : i \in 1..Len(q) \/ i = Len(q) + 1
  BY <1>1
<1>3. QED
  BY <1>1, <1>2 DEF AllVouched

(***************************************************************************)
(* Handlers of an outcome other than success need no voucher; those of     *)
(* success need the object to be stored.                                   *)
(***************************************************************************)
LEMMA FiresVouched ==
  ASSUME NEW q \in Seq(Blocks), observers \subseteq Handlers, AllVouched(q),
         NEW status, status = "success" => stored,
         NEW r \in Fires(q, status)
  PROVE  AllVouched(r)
<1>1. SUFFICES ASSUME NEW i \in 1..Len(r)
               PROVE  Vouched(r[i])
  BY DEF AllVouched
<1>2. CASE \E j \in 1..Len(q) : r[i] = q[j]
  BY <1>2 DEF AllVouched
<1>3. CASE \E h \in Handlers : StatusOf[h] = status /\ r[i] = Handler(h)
  <2>1. PICK h \in Handlers : StatusOf[h] = status /\ r[i] = Handler(h)
    BY <1>3
  <2>2. /\ r[i].kind = "handler"
        /\ r[i].handler = h
    BY <2>1 DEF Handler
  <2>3. /\ Handler("put success").handler = "put success"
        /\ Wrapped("put success").kind = "wrapped"
        /\ Answer(TRUE).kind = "answer"
    BY DEF Handler, Wrapped, Answer
  <2>4. r[i] = Handler("put success") => status = "success"
    BY <2>1, <2>2, <2>3 DEF StatusOf
  <2>5. r[i] # Wrapped("put success") /\ r[i] # Answer(TRUE)
    BY <2>2, <2>3
  <2>6. QED
    BY <2>4, <2>5 DEF Vouched
<1>4. QED
  BY <1>2, <1>3, FiresProperties

(***************************************************************************)
(* The block that calls the completion reports success only of an object   *)
(* that is stored.                                                         *)
(***************************************************************************)
LEMMA WrappedReports ==
  ASSUME TaskTypeOK, SafeInv, RunWrapped
  PROVE  /\ StatusOf[Head(mainQ).handler] \in {"success", "failure"}
         /\ StatusOf[Head(mainQ).handler] = "success" => stored
<1>1. mainQ # <<>> /\ Head(mainQ).kind = "wrapped"
  BY DEF RunWrapped, NextBlock
<1>2. Vouched(Head(mainQ))
  BY <1>1, ServeVouched DEF TaskTypeOK, SafeInv
<1>3. /\ Head(mainQ).handler \in {"put success", "put failure"}
      /\ Head(mainQ) = Wrapped(Head(mainQ).handler)
  BY <1>1, HeadBlock, BlockKinds DEF TaskTypeOK
<1>4. CASE Head(mainQ).handler = "put success"
  BY <1>2, <1>3, <1>4 DEF Vouched, StatusOf, Handlers
<1>5. CASE Head(mainQ).handler = "put failure"
  BY <1>5 DEF StatusOf, Handlers
<1>6. QED
  BY <1>3, <1>4, <1>5

(***************************************************************************)
(* The invariant is inductive.                                             *)
(***************************************************************************)
LEMMA SafeStep ==
  ASSUME TaskTypeOK, SafeInv, [TaskNext]_taskVars
  PROVE  SafeInv'
<1> DEFINE FlagSame == UNCHANGED <<stored, completed, reported>>
<1>q. mainQ \in Seq(Blocks) /\ observers \subseteq Handlers /\ AllVouched(mainQ)
  BY DEF TaskTypeOK, SafeInv
<1>f. ASSUME FlagSame, AllVouched(mainQ'), main'.ok => stored
      PROVE  SafeInv'
  <2>1. AllVouched(mainQ)'
    BY <1>f DEF AllVouched, Vouched
  <2>2. (completed <=> reported # <<>>)'
    BY <1>f DEF SafeInv
  <2>3. QED
    BY <1>f, <2>1, <2>2 DEF SafeInv
<1>m. ASSUME NEW step, Goto(step)
      PROVE  main'.ok => stored
  BY <1>m DEF Goto, SafeInv, TaskTypeOK
<1>u. ASSUME UNCHANGED main
      PROVE  main'.ok => stored
  BY <1>u DEF SafeInv
<1>1. CASE PutData
  BY <1>1, <1>f, <1>m, <1>q DEF PutData
<1>2. ASSUME NEW step, NEW h, NEW next, AddObserver(step, h, next)
      PROVE  SafeInv'
  BY <1>2, <1>f, <1>m, <1>q DEF AddObserver
<1>3. ASSUME NEW step, NEW states, NEW status, NEW next, status # "success",
             FireIfIn(step, states, status, next)
      PROVE  SafeInv'
  <2>1. AllVouched(mainQ')
    BY <1>3, <1>q, FiresVouched DEF FireIfIn
  <2>2. FlagSame /\ Goto(next)
    BY <1>3 DEF FireIfIn
  <2>3. QED
    BY <1>f, <1>m, <2>1, <2>2
<1>4. CASE ObserveProgress \/ ObserveFailure
  BY <1>2, <1>3, <1>4 DEF ObserveProgress, ObserveFailure
<1>5. CASE RunHandler
  <2>1. mainQ # <<>> /\ Head(mainQ).kind = "handler"
    BY <1>5 DEF RunHandler, NextBlock
  <2>2. Vouched(Head(mainQ)) /\ AllVouched(Tail(mainQ))
    BY <1>q, <2>1, ServeVouched
  <2>3. Tail(mainQ) \in Seq(Blocks) /\ Head(mainQ) = Handler(Head(mainQ).handler)
    BY <1>q, <2>1, HeadBlock, BlockKinds
  <2>4. ASSUME NEW h \in {"put success", "put failure"}, Head(mainQ).handler = h
        PROVE  AllVouched(Append(Tail(mainQ), Wrapped(h)))
    <3>1. Wrapped(h) \in Blocks
      BY DEF Blocks
    <3>2. Wrapped(h).kind = "wrapped" /\ Wrapped(h).handler = h
      BY DEF Wrapped
    <3>3. /\ Handler("put success").kind = "handler"
          /\ Answer(TRUE).kind = "answer"
          /\ Wrapped("put success").handler = "put success"
      BY DEF Handler, Wrapped, Answer
    <3>4. Wrapped(h) = Wrapped("put success") => stored
      BY <2>2, <2>3, <2>4, <3>2, <3>3 DEF Vouched
    <3>5. Vouched(Wrapped(h))
      BY <3>2, <3>3, <3>4 DEF Vouched
    <3>6. QED
      BY <2>2, <2>3, <3>1, <3>5, AppendVouched
  <2>5. AllVouched(mainQ')
    BY <1>5, <2>2, <2>4 DEF RunHandler
  <2>6. FlagSame /\ UNCHANGED main
    BY <1>5 DEF RunHandler
  <2>7. QED
    BY <1>f, <1>u, <2>5, <2>6
<1>6. CASE RunWrapped
  <2>1. mainQ # <<>>
    BY <1>6 DEF RunWrapped, NextBlock
  <2>2. UNCHANGED <<main, stored>> /\ mainQ' = Tail(mainQ)
    BY <1>6 DEF RunWrapped
  <2>3. AllVouched(mainQ)'
    BY <1>q, <2>1, <2>2, ServeVouched DEF AllVouched, Vouched
  <2>4. reported' # <<>>
    <3>1. StatusOf[Head(mainQ).handler] \in {"success", "failure"}
      BY <1>6, WrappedReports
    <3>2. Append(reported, StatusOf[Head(mainQ).handler]) # <<>>
      BY <3>1, AppendProperties DEF TaskTypeOK
    <3>3. QED
      BY <1>6, <3>2 DEF RunWrapped, SafeInv
  <2>5. completed' = TRUE
    BY <1>6 DEF RunWrapped
  <2>6. (main.ok => stored)'
    BY <2>2 DEF SafeInv
  <2>7. QED
    BY <2>3, <2>4, <2>5, <2>6 DEF SafeInv
<1>7. CASE DropCallback
  <2>1. mainQ # <<>>
    BY <1>7 DEF DropCallback, NextBlock
  <2>2. mainQ' = Tail(mainQ) /\ FlagSame /\ UNCHANGED main
    BY <1>7 DEF DropCallback
  <2>3. QED
    BY <1>f, <1>q, <1>u, <2>1, <2>2, ServeVouched
<1>8. CASE RunProgress
  <2>1. mainQ # <<>>
    BY <1>8 DEF RunProgress, NextBlock
  <2>2. mainQ' = Tail(mainQ) /\ FlagSame /\ Goto("progress fire")
    BY <1>8 DEF RunProgress
  <2>3. QED
    BY <1>f, <1>m, <1>q, <2>1, <2>2, ServeVouched
<1>9. CASE RunProgressFire
  <2>1. AllVouched(mainQ')
    BY <1>9, <1>q, FiresVouched DEF RunProgressFire
  <2>2. FlagSame /\ Goto("progress end")
    BY <1>9 DEF RunProgressFire
  <2>3. QED
    BY <1>f, <1>m, <2>1, <2>2
<1>10. CASE RunProgressEnd \/ RunAnswerState \/ RunAnswerEnd
  <2>1. /\ FlagSame
        /\ UNCHANGED mainQ
        /\ Goto("idle") \/ Goto("answer fire")
    BY <1>10 DEF RunProgressEnd, RunAnswerState, RunAnswerEnd
  <2>2. QED
    BY <1>f, <1>m, <1>q, <2>1
<1>11. CASE RunAnswer
  <2>1. mainQ # <<>> /\ Head(mainQ).kind = "answer"
    BY <1>11 DEF RunAnswer, NextBlock
  <2>2. Vouched(Head(mainQ)) /\ AllVouched(Tail(mainQ))
    BY <1>q, <2>1, ServeVouched
  <2>3. /\ Tail(mainQ) \in Seq(Blocks)
        /\ Head(mainQ).ok \in BOOLEAN
        /\ Head(mainQ) = Answer(Head(mainQ).ok)
    BY <1>q, <2>1, HeadBlock, BlockKinds
  <2>4. AllVouched(mainQ')
    BY <1>11, <1>q, <2>2, <2>3, FiresVouched DEF RunAnswer
  <2>5. main'.ok = Head(mainQ).ok
    BY <1>11 DEF RunAnswer
  <2>6. main'.ok => stored
    BY <2>2, <2>3, <2>5 DEF Vouched
  <2>7. FlagSame
    BY <1>11 DEF RunAnswer
  <2>8. QED
    BY <1>f, <2>4, <2>6, <2>7
<1>12. CASE RunAnswerFire
  <2>1. AllVouched(mainQ')
    BY <1>12, <1>q, FiresVouched DEF RunAnswerFire, SafeInv
  <2>2. FlagSame /\ Goto("answer end")
    BY <1>12 DEF RunAnswerFire
  <2>3. QED
    BY <1>f, <1>m, <2>1, <2>2
<1>13. CASE StorageNext
  <2>1. FlagSame /\ UNCHANGED main
    BY <1>13 DEF StorageNext, Enqueue, Cancel, Pause, Resume, StorageBlock
  <2>2. UNCHANGED mainQ \/ mainQ' \in Fires(mainQ, "failure")
    BY <1>13 DEF StorageNext, Enqueue, Cancel, Pause, Resume
  <2>3. AllVouched(mainQ')
    BY <1>q, <2>2, FiresVouched
  <2>4. QED
    BY <1>f, <1>u, <2>1, <2>3
<1>14. ASSUME NEW op \in Ops, ClientCalls(op)
       PROVE  SafeInv'
  BY <1>14, <1>f, <1>q, <1>u DEF ClientCalls
<1>15. CASE ServerStores
  <2>1. stored' /\ UNCHANGED <<completed, reported>>
    BY <1>15 DEF ServerStores, Fetcher!Store
  <2>2. QED
    BY <2>1 DEF SafeInv, AllVouched, Vouched
<1>16. CASE FetcherProgress
  <2>1. Progress \in Blocks
    BY DEF Blocks
  <2>2. Progress.kind = "progress"
    BY DEF Progress
  <2>3. /\ Handler("put success").kind = "handler"
        /\ Wrapped("put success").kind = "wrapped"
        /\ Answer(TRUE).kind = "answer"
    BY DEF Handler, Wrapped, Answer
  <2>4. Vouched(Progress)
    BY <2>2, <2>3 DEF Vouched
  <2>5. AllVouched(mainQ')
    BY <1>16, <1>q, <2>1, <2>4, AppendVouched DEF FetcherProgress
  <2>6. FlagSame /\ UNCHANGED main
    BY <1>16 DEF FetcherProgress
  <2>7. QED
    BY <1>f, <1>u, <2>5, <2>6
<1>17. ASSUME NEW ok \in BOOLEAN, FetcherAnswers(ok)
       PROVE  SafeInv'
  <2>1. Answer(ok) \in Blocks
    BY DEF Blocks
  <2>2. Answer(ok).kind = "answer" /\ Answer(ok).ok = ok
    BY DEF Answer
  <2>3. /\ Handler("put success").kind = "handler"
        /\ Wrapped("put success").kind = "wrapped"
        /\ Answer(TRUE).ok = TRUE
    BY DEF Handler, Wrapped, Answer
  <2>4. ok => stored
    BY <1>17 DEF FetcherAnswers, Fetcher!Answer
  <2>5. Vouched(Answer(ok))
    BY <2>2, <2>3, <2>4 DEF Vouched
  <2>6. AllVouched(mainQ')
    BY <1>17, <1>q, <2>1, <2>5, AppendVouched DEF FetcherAnswers
  <2>7. FlagSame /\ UNCHANGED main
    BY <1>17 DEF FetcherAnswers, Fetcher!Answer
  <2>8. QED
    BY <1>f, <1>u, <2>6, <2>7
<1>18. CASE UNCHANGED taskVars
  BY <1>18, <1>f, <1>q, <1>u DEF taskVars
<1>19. QED
  BY <1>1, <1>4, <1>5, <1>6, <1>7, <1>8, <1>9, <1>10, <1>11, <1>12, <1>13,
     <1>14, <1>15, <1>16, <1>17, <1>18
     DEF TaskNext, MainNext, Answers

(***************************************************************************)
(* Only the server's step stores the object and only the guarded block     *)
(* reports, once.                                                          *)
(***************************************************************************)
LEMMA ContractStep ==
  ASSUME TaskTypeOK, SafeInv, [TaskNext]_taskVars
  PROVE  [Contract!Next]_<<stored, reported>>
<1>1. CASE RunWrapped
  <2> DEFINE outcome == StatusOf[Head(mainQ).handler]
  <2>1. UNCHANGED stored
    BY <1>1 DEF RunWrapped
  <2>2. CASE completed
    BY <1>1, <2>1, <2>2 DEF RunWrapped
  <2>3. CASE ~completed
    <3>1. reported = <<>>
      BY <2>3 DEF SafeInv
    <3>2. outcome \in {"success", "failure"} /\ (outcome = "success" => stored)
      BY <1>1, WrappedReports
    <3>3. reported' = Append(reported, outcome)
      BY <1>1, <2>3 DEF RunWrapped
    <3>4. reported' = <<outcome>>
      BY <3>1, <3>3
    <3>5. Contract!Report(outcome)
      BY <2>1, <3>1, <3>2, <3>4 DEF Contract!Report
    <3>6. QED
      BY <3>2, <3>5 DEF Contract!Next
  <2>4. QED
    BY <2>2, <2>3
<1>2. CASE ServerStores
  <2>1. stored' = TRUE /\ UNCHANGED reported
    BY <1>2 DEF ServerStores, Fetcher!Store
  <2>2. QED
    BY <2>1 DEF Contract!Next, Contract!Store
<1>3. QED
  <2>1. \/ RunWrapped \/ ServerStores
        \/ UNCHANGED <<stored, reported>>
    BY DEF TaskNext, MainNext, PutData, ObserveProgress, ObserveFailure,
           AddObserver, FireIfIn, RunHandler, DropCallback, RunProgress,
           RunProgressFire, RunProgressEnd, RunAnswer, RunAnswerState,
           RunAnswerFire, RunAnswerEnd, StorageNext, Enqueue, Cancel, Pause,
           Resume, StorageBlock, ClientCalls, FetcherProgress, Answers,
           FetcherAnswers, Fetcher!Answer, taskVars
  <2>2. QED
    BY <1>1, <1>2, <2>1

(***************************************************************************)
(* The upload task keeps its contract with the caller of putData, whatever *)
(* the client calls and however the two queues interleave: the completion  *)
(* block is called at most once, with success only for a stored object.    *)
(***************************************************************************)
THEOREM TaskKeepsContract == TaskSpec => KeepsContract
<1>1. ASSUME TaskInit
      PROVE  SafeInv /\ Contract!Init
  <2>1. mainQ = <<>> /\ main.ok = FALSE
    BY <1>1 DEF TaskInit
  <2>2. completed = FALSE /\ reported = <<>> /\ stored = FALSE
    BY <1>1 DEF TaskInit
  <2>3. AllVouched(mainQ)
    BY <2>1, EmptySeq DEF AllVouched
  <2>4. QED
    BY <2>1, <2>2, <2>3 DEF SafeInv, Contract!Init
<1>2. TaskTypeOK /\ SafeInv /\ [TaskNext]_taskVars => SafeInv'
  BY SafeStep
<1>3. TaskTypeOK /\ SafeInv /\ [TaskNext]_taskVars
        => [Contract!Next]_<<stored, reported>>
  BY ContractStep
<1>4. QED
  BY <1>1, <1>2, <1>3, TaskTypeCorrect, PTL
     DEF TaskSpec, KeepsContract, Contract!Spec
-----------------------------------------------------------------------------
(***************************************************************************)
(* Once putData has registered its handlers, they stay registered until    *)
(* the app has been told the outcome or a block that will tell it is on    *)
(* the main queue; and such a block is not lost.                           *)
(***************************************************************************)
PutHandlers == {"put success", "put failure"}

Telling(q) == \E i \in 1..Len(q) : TellsOutcome(q[i])

Told == reported # <<>> \/ Telling(mainQ)

ToldInv ==
  /\ At("put data") \/ PutHandlers \subseteq observers \/ Told
  /\ At("answer end") => Told

LEMMA PutHandlersTell ==
  \A h \in PutHandlers : /\ TellsOutcome(Handler(h)) /\ TellsOutcome(Wrapped(h))
                         /\ Handler(h) \in Blocks /\ Wrapped(h) \in Blocks
BY DEF PutHandlers, TellsOutcome, Handler, Wrapped, Blocks, Handlers

(***************************************************************************)
(* What is dispatched follows what is on the queue, and a handler that is  *)
(* registered for the status is among it.                                  *)
(***************************************************************************)
LEMMA FiresKeeps ==
  ASSUME NEW q \in Seq(Blocks), NEW status, observers \subseteq Handlers,
         NEW r \in Fires(q, status)
  PROVE  /\ r \in Seq(Blocks)
         /\ \A i \in 1..Len(q) : i \in 1..Len(r) /\ r[i] = q[i]
         /\ \A h \in observers :
              StatusOf[h] = status => \E i \in 1..Len(r) : r[i] = Handler(h)
<1> DEFINE hs == {h \in observers : StatusOf[h] = status}
<1>1. PICK o \in Orders(hs) : r = q \o [i \in DOMAIN o |-> Handler(o[i])]
  BY DEF Fires
<1>2. PICK n \in 0..2 : o \in [1..n -> hs]
  BY <1>1 DEF Orders
<1>h. \A h \in hs : \E i \in 1..n : o[i] = h
  BY <1>1, <1>2 DEF Orders
<1> DEFINE t == [i \in DOMAIN o |-> Handler(o[i])]
<1>3. /\ t \in [1..n -> Blocks]
      /\ \A i \in 1..n : t[i] = Handler(o[i])
  BY <1>2 DEF Blocks
<1>4. n \in Nat
  BY <1>2
<1>5. t \in Seq(Blocks) /\ Len(t) = n
  BY <1>3, <1>4, SeqDef, LenProperties
<1>6. r = q \o t
  BY <1>1
<1> HIDE DEF t, hs
<1>7. /\ r \in Seq(Blocks)
      /\ Len(r) = Len(q) + n
      /\ \A i \in 1..Len(q) + n :
           r[i] = IF i <= Len(q) THEN q[i] ELSE t[i - Len(q)]
  BY <1>5, <1>6, ConcatProperties
<1>8. Len(q) \in Nat
  BY LenProperties
<1>9. \A i \in 1..Len(q) : i \in 1..Len(r) /\ r[i] = q[i]
  BY <1>4, <1>7, <1>8
<1>10. ASSUME NEW h \in observers, StatusOf[h] = status
       PROVE  \E i \in 1..Len(r) : r[i] = Handler(h)
  <2>1. PICK i \in 1..n : o[i] = h
    BY <1>10, <1>h DEF hs
  <2>2. Len(q) + i \in 1..Len(r) /\ r[Len(q) + i] = t[i]
    <3>1. /\ Len(q) + i \in 1..Len(q) + n /\ ~(Len(q) + i <= Len(q))
          /\ (Len(q) + i) - Len(q) = i
      BY <1>4, <1>8
    <3>2. QED
      BY <1>7, <3>1
  <2>3. QED
    BY <1>3, <2>1, <2>2
<1>11. QED
  BY <1>7, <1>9, <1>10

LEMMA FiresTelling ==
  ASSUME NEW q \in Seq(Blocks), NEW status, observers \subseteq Handlers,
         NEW r \in Fires(q, status),
         \/ Telling(q)
         \/ status \in {"success", "failure"} /\ PutHandlers \subseteq observers
  PROVE  Telling(r)
<1>1. CASE Telling(q)
  BY <1>1, FiresKeeps DEF Telling
<1>2. CASE status \in {"success", "failure"} /\ PutHandlers \subseteq observers
  <2>1. PICK h \in PutHandlers : StatusOf[h] = status
    BY <1>2 DEF PutHandlers, StatusOf, Handlers
  <2>2. \E i \in 1..Len(r) : r[i] = Handler(h)
    BY <1>2, <2>1, FiresKeeps
  <2>3. QED
    BY <2>2, PutHandlersTell DEF Telling
<1>3. QED
  BY <1>1, <1>2

(***************************************************************************)
(* A block at the end takes nothing away; the one that is served takes     *)
(* away itself only.                                                       *)
(***************************************************************************)
LEMMA AppendTelling ==
  ASSUME NEW q \in Seq(Blocks), NEW b \in Blocks
  PROVE  Telling(q) \/ TellsOutcome(b) => Telling(Append(q, b))
<1>1. /\ Len(q) \in Nat
      /\ Len(Append(q, b)) = Len(q) + 1
      /\ \A i \in 1..Len(q) : Append(q, b)[i] = q[i]
      /\ Append(q, b)[Len(q) + 1] = b
  BY AppendProperties, LenProperties
<1>2. Len(q) + 1 \in 1..Len(q) + 1 /\ \A i \in 1..Len(q) : i \in 1..Len(q) + 1
  BY <1>1
<1>3. QED
  BY <1>1, <1>2 DEF Telling

LEMMA TailTelling ==
  ASSUME mainQ \in Seq(Blocks), mainQ # <<>>, Telling(mainQ)
  PROVE  TellsOutcome(Head(mainQ)) \/ Telling(Tail(mainQ))
<1>1. PICK i \in 1..Len(mainQ) : TellsOutcome(mainQ[i])
  BY DEF Telling
<1>2. /\ Head(mainQ) = mainQ[1]
      /\ Len(Tail(mainQ)) = Len(mainQ) - 1
      /\ \A k \in 1..Len(Tail(mainQ)) : Tail(mainQ)[k] = mainQ[k + 1]
      /\ Len(mainQ) \in Nat
  BY HeadBlock, LenProperties
<1>3. CASE i = 1
  BY <1>1, <1>2, <1>3
<1>4. CASE i # 1
  <2>1. i - 1 \in 1..Len(Tail(mainQ)) /\ (i - 1) + 1 = i
    BY <1>2, <1>4
  <2>2. Tail(mainQ)[i - 1] = mainQ[i]
    BY <1>2, <2>1
  <2>3. QED
    BY <1>1, <2>1, <2>2 DEF Telling
<1>5. QED
  BY <1>3, <1>4

(***************************************************************************)
(* Every step keeps what will tell the app.                                *)
(***************************************************************************)
LEMMA ToldStep ==
  ASSUME TaskTypeOK, SafeInv, ToldInv, [TaskNext]_taskVars
  PROVE  ToldInv'
<1>q. /\ mainQ \in Seq(Blocks) /\ observers \subseteq Handlers
      /\ main \in [step : MainSteps, ok : BOOLEAN]
  BY DEF TaskTypeOK
<1>g. ASSUME NEW step, Goto(step)
      PROVE  main'.step = step
  BY <1>g, <1>q DEF Goto
<1>u. ASSUME UNCHANGED <<main, observers>>, Told => Told'
      PROVE  ToldInv'
  BY <1>u DEF ToldInv, At
<1>m. ASSUME main'.step # "answer end", ~At("put data"),
             observers \subseteq observers', Told => Told'
      PROVE  ToldInv'
  BY <1>m DEF ToldInv, At
<1>s. UNCHANGED <<mainQ, reported>> => (Told => Told')
  BY DEF Told, Telling
<1>f. ASSUME NEW status, mainQ' \in Fires(mainQ, status), UNCHANGED reported
      PROVE  Told => Told'
  BY <1>f, <1>q, FiresTelling DEF Told
<1>1. CASE PutData
  BY <1>1, <1>g DEF PutData, ToldInv, At, PutHandlers
<1>2. ASSUME NEW step \in {"add progress", "add failure"}, NEW h,
             NEW next \in MainSteps \ {"answer end", "put data"},
             AddObserver(step, h, next)
      PROVE  ToldInv'
  BY <1>2, <1>g, <1>m, <1>s DEF AddObserver, At
<1>3. ASSUME NEW step \in {"check progress", "check failure"}, NEW states, NEW status,
             NEW next \in MainSteps \ {"answer end", "put data"},
             FireIfIn(step, states, status, next)
      PROVE  ToldInv'
  <2>1. Told => Told'
    BY <1>3, <1>f, <1>s DEF FireIfIn
  <2>2. QED
    BY <1>3, <1>g, <1>m, <2>1 DEF FireIfIn, At
<1>4. CASE ObserveProgress \/ ObserveFailure
  <2>1. {"check progress", "add failure", "check failure", "idle"}
          \subseteq MainSteps \ {"answer end", "put data"}
    BY DEF MainSteps
  <2>2. QED
    BY <1>2, <1>3, <1>4, <2>1 DEF ObserveProgress, ObserveFailure
<1>5. CASE RunHandler
  <2>1. /\ mainQ # <<>> /\ Head(mainQ).kind = "handler"
        /\ UNCHANGED <<main, observers, reported>>
    BY <1>5 DEF RunHandler, NextBlock
  <2>2. /\ Head(mainQ) \in Blocks /\ Tail(mainQ) \in Seq(Blocks)
    BY <1>q, <2>1, HeadBlock
  <2>3. Told => Told'
    <3>1. CASE Head(mainQ).handler \in PutHandlers
      <4>1. mainQ' = Append(Tail(mainQ), Wrapped(Head(mainQ).handler))
        BY <1>5, <3>1 DEF RunHandler, PutHandlers
      <4>2. Telling(mainQ')
        BY <2>2, <3>1, <4>1, AppendTelling, PutHandlersTell
      <4>3. QED
        BY <4>2 DEF Told
    <3>2. CASE Head(mainQ).handler \notin PutHandlers
      <4>1. mainQ' = Tail(mainQ) /\ ~TellsOutcome(Head(mainQ))
        BY <1>5, <3>2 DEF RunHandler, PutHandlers, TellsOutcome
      <4>2. QED
        BY <1>q, <2>1, <4>1, TailTelling DEF Told
    <3>3. QED
      BY <3>1, <3>2
  <2>4. QED
    BY <1>u, <2>1, <2>3
<1>6. CASE RunWrapped
  <2>1. reported' # <<>>
    <3>1. CASE completed
      BY <1>6, <3>1 DEF RunWrapped, SafeInv
    <3>2. CASE ~completed
      <4>1. reported' = Append(reported, StatusOf[Head(mainQ).handler])
        BY <1>6, <3>2 DEF RunWrapped
      <4>2. StatusOf[Head(mainQ).handler] \in {"success", "failure"}
        BY <1>6, WrappedReports
      <4>3. reported \in Seq({"success", "failure"})
        BY DEF TaskTypeOK
      <4>4. QED
        BY <4>1, <4>2, <4>3, AppendProperties
    <3>3. QED
      BY <3>1, <3>2
  <2>2. QED
    BY <1>6, <1>u, <2>1 DEF RunWrapped, Told
<1>d. ASSUME mainQ # <<>>, Head(mainQ).kind \in {"progress", "answer"},
             Telling(mainQ)
      PROVE  Telling(Tail(mainQ))
  BY <1>d, <1>q, TailTelling DEF TellsOutcome
<1>7. CASE DropCallback
  <2>1. /\ mainQ # <<>> /\ Head(mainQ).kind \in {"progress", "answer"}
        /\ mainQ' = Tail(mainQ) /\ UNCHANGED <<main, observers, reported>>
    BY <1>7 DEF DropCallback, NextBlock
  <2>2. QED
    BY <1>d, <1>u, <2>1 DEF Told
<1>8. CASE RunProgress
  <2>1. /\ mainQ # <<>> /\ Head(mainQ).kind \in {"progress", "answer"}
        /\ mainQ' = Tail(mainQ) /\ UNCHANGED <<observers, reported>>
        /\ At("idle") /\ Goto("progress fire")
    BY <1>8 DEF RunProgress, NextBlock
  <2>2. QED
    BY <1>d, <1>g, <1>m, <2>1 DEF Told, At
<1>9. CASE RunProgressFire
  BY <1>9, <1>f, <1>g, <1>m DEF RunProgressFire, At
<1>10. CASE RunProgressEnd
  BY <1>10, <1>g, <1>m, <1>s DEF RunProgressEnd, At
<1>11. CASE RunAnswer
  <2>1. /\ mainQ # <<>> /\ Head(mainQ).kind \in {"progress", "answer"}
        /\ mainQ' \in Fires(Tail(mainQ), "progress")
        /\ UNCHANGED <<observers, reported>>
        /\ At("idle") /\ main'.step = "answer state"
    BY <1>11 DEF RunAnswer, NextBlock
  <2>2. Tail(mainQ) \in Seq(Blocks)
    BY <1>q, <2>1, HeadBlock
  <2>3. Told => Told'
    BY <1>d, <1>q, <2>1, <2>2, FiresTelling DEF Told
  <2>4. QED
    BY <1>m, <2>1, <2>3 DEF At
<1>12. CASE RunAnswerState
  BY <1>12, <1>g, <1>m, <1>s DEF RunAnswerState, At
<1>13. CASE RunAnswerFire
  <2>1. PICK status \in {"success", "failure"} : mainQ' \in Fires(mainQ, status)
    BY <1>13 DEF RunAnswerFire
  <2>2. At("answer fire") /\ UNCHANGED <<observers, reported>>
    BY <1>13 DEF RunAnswerFire
  <2>3. PutHandlers \subseteq observers \/ Told
    BY <2>2 DEF ToldInv, At
  <2>4. Told'
    BY <1>q, <2>1, <2>2, <2>3, FiresTelling DEF Told
  <2>5. QED
    BY <2>4 DEF ToldInv
<1>14. CASE RunAnswerEnd
  <2>1. Told
    BY <1>14 DEF RunAnswerEnd, ToldInv
  <2>2. Told'
    BY <1>14, <1>s, <2>1 DEF RunAnswerEnd
  <2>3. QED
    BY <2>2 DEF ToldInv
<1>15. CASE StorageNext
  <2>1. UNCHANGED <<main, observers, reported>>
    BY <1>15 DEF StorageNext, Enqueue, Cancel, Pause, Resume, StorageBlock
  <2>2. UNCHANGED mainQ \/ mainQ' \in Fires(mainQ, "failure")
    BY <1>15 DEF StorageNext, Enqueue, Cancel, Pause, Resume
  <2>3. QED
    BY <1>f, <1>s, <1>u, <2>1, <2>2
<1>16. ASSUME NEW op \in Ops, ClientCalls(op)
       PROVE  ToldInv'
  BY <1>16, <1>s, <1>u DEF ClientCalls
<1>17. CASE ServerStores
  BY <1>17, <1>s, <1>u DEF ServerStores, Fetcher!Store
<1>18. ASSUME NEW b \in Blocks, mainQ' = Append(mainQ, b),
              UNCHANGED <<main, observers, reported>>
       PROVE  ToldInv'
  BY <1>18, <1>q, <1>u, AppendTelling DEF Told
<1>19. CASE FetcherProgress
  BY <1>18, <1>19 DEF FetcherProgress, Blocks
<1>20. ASSUME NEW ok \in BOOLEAN, FetcherAnswers(ok)
       PROVE  ToldInv'
  BY <1>18, <1>20 DEF FetcherAnswers, Blocks
<1>21. CASE UNCHANGED taskVars
  BY <1>21, <1>s, <1>u DEF taskVars
<1>22. QED
  BY <1>1, <1>4, <1>5, <1>6, <1>7, <1>8, <1>9, <1>10, <1>11, <1>12, <1>13, <1>14,
     <1>15, <1>16, <1>17, <1>19, <1>20, <1>21 DEF TaskNext, MainNext, Answers

(***************************************************************************)
(* The observers are never given up before the outcome was told or a block *)
(* that tells it is on the main queue, for any calls of a client.          *)
(***************************************************************************)
THEOREM OutcomeNeverLost == TaskSpec => []OutcomeOnItsWay
<1>1. ASSUME TaskInit
      PROVE  SafeInv /\ ToldInv
  <2>1. mainQ = <<>> /\ main.ok = FALSE /\ main.step = "put data"
    BY <1>1 DEF TaskInit
  <2>2. completed = FALSE /\ reported = <<>> /\ stored = FALSE
    BY <1>1 DEF TaskInit
  <2>3. AllVouched(mainQ)
    <3>1. mainQ = <<>>
      BY <2>1
    <3>2. QED
      BY <3>1, EmptySeq DEF AllVouched
  <2>4. ToldInv
    BY <2>1 DEF ToldInv, At
  <2>5. QED
    BY <2>1, <2>2, <2>3, <2>4 DEF SafeInv
<1>2. TaskTypeOK /\ ToldInv => OutcomeOnItsWay
  <2>1. ASSUME TaskTypeOK, Telling(mainQ)
        PROVE  \E i \in DOMAIN mainQ : TellsOutcome(mainQ[i])
    BY <2>1, LenProperties DEF Telling, TaskTypeOK
  <2>2. QED
    BY <2>1 DEF ToldInv, Told, OutcomeOnItsWay, At, PutHandlers
<1>3. QED
  BY <1>1, <1>2, TaskTypeCorrect, SafeStep, ToldStep, PTL DEF TaskSpec
=============================================================================
