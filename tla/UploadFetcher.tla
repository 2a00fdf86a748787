---------------------------- MODULE UploadFetcher ----------------------------
(***************************************************************************)
(* The resumable upload of GTMSessionUploadFetcher: an initial request     *)
(* that opens a session on the server, then chunks, each at the offset the *)
(* one before it ended, and after a lost chunk a query of the size the     *)
(* server has received.                                                    *)
(*                                                                         *)
(* Callbacks of the requests run on the main queue, in order; pause,       *)
(* resume and stop come from the queue of FIRStorage, between any two of   *)
(* them.  A chunk is made in one block of the main queue and sent in the   *)
(* next.  The server and the network are external.                         *)
(***************************************************************************)
EXTENDS Integers, Sequences, FiniteSets

CONSTANTS
  Length,        \* the length of the data
  ChunkSize,     \* the largest chunk the fetcher makes
  Granularity,   \* what the server asks chunks to be a multiple of, or 0
  Slack,         \* a last chunk may be this much longer
  Ops,           \* what the owner may call: pause, resume, stop
  KeepsAll,      \* a server may hold all data and not yet be final
  MaxOps,        \* bound: so many of these calls
  MaxFaults      \* bound: so many requests are lost or refused

ASSUME LengthAssumption ==
  /\ Length \in Nat /\ ChunkSize \in Nat \ {0}
  /\ Granularity \in Nat /\ Slack \in Nat /\ KeepsAll \in BOOLEAN
ASSUME FaultsAssumption ==
  Ops \subseteq {"pause", "resume", "stop"} /\ MaxOps \in Nat /\ MaxFaults \in Nat

VARIABLES
  location,      \* uploadLocationURL is known
  isPaused,
  userStopped,   \* userStoppedFetching: the base class was stopped
  outcome,       \* what the completion handler was given
  currentOffset,
  shouldInitiateOffsetQuery,
  chunkFetcher,  \* the request pause and stop can reach, or NoRequest
  mainQ,         \* the blocks of the main queue
  storagePc,     \* the call of the owner under way, and what is left of it
  net,           \* the requests under way
  session,       \* of the server: none, active, final or cancelled
  content,       \* what the server has, as positions of the data
  ops, faults,   \* calls of the owner, and faults, so far
  fatal          \* history: more than chunks was lost

fetcherVars == <<location, isPaused, userStopped, outcome, currentOffset,
                 shouldInitiateOffsetQuery, chunkFetcher, mainQ, storagePc, net,
                 session, content, ops, faults, fatal>>

-----------------------------------------------------------------------------
\* Requests.  "to": there was a URL to send it to; "heard": its callback is
\* still wanted, as it is even when the upload has been answered or stopped
\* before the request was made: its callback queue is the main queue then.

NoRequest == 0

Released == outcome # "none" \/ userStopped

Ids(rs, q) == {r.id : r \in rs} \cup {q[i].req.id : i \in DOMAIN q}

FreeId == CHOOSE n \in 1..(Cardinality(net) + Len(mainQ) + 2) :
            n \notin Ids(net, mainQ) \cup {chunkFetcher}

Request(kind) ==
  [id |-> FreeId, kind |-> kind, to |-> location, heard |-> TRUE,
   from |-> 0, at |-> 0, len |-> 0, last |-> FALSE]

\* What the server is told starts at the
\* granularity below; the data does not.
RoundDown(n) == IF Granularity > 0 THEN n - (n % Granularity) ELSE n

FullChunk == IF 0 < Granularity /\ ChunkSize < Granularity
             THEN Granularity ELSE RoundDown(ChunkSize)

\* Mutant: the data is taken from where the last chunk was.
ChunkOfCurrent(offset) ==
  LET at   == RoundDown(offset)
      rest == Length - at
      last == FullChunk >= rest \/ rest - Slack < FullChunk
  IN [Request("chunk") EXCEPT !.from = currentOffset, !.at = at, !.last = last,
                              !.len = IF last THEN rest ELSE FullChunk]

\* The chunk that begins at offset: the last one takes what is left.
Chunk(offset) ==
  LET at   == RoundDown(offset)
      rest == Length - at
      last == FullChunk >= rest \/ rest - Slack < FullChunk
  IN [Request("chunk") EXCEPT !.from = offset, !.at = at, !.last = last,
                              !.len = IF last THEN rest ELSE FullChunk]

\* The part of the data that goes with it does not exist.
OutOfRange(r) == r.len < 0 \/ r.from + r.len > Length

Data(r) == [i \in 1..r.len |-> r.from + i]

\* Blocks of the main queue.
NoResult == [is |-> "none", session |-> "none", size |-> 0]
Block(step, r, result) == [step |-> step, req |-> r, result |-> result]

\* destroyChunkFetcher: its callbacks do nothing, the server may get it yet.
Hush(r) == IF r.id = chunkFetcher THEN [r EXCEPT !.heard = FALSE] ELSE r

Hushed(rs) == {Hush(r) : r \in rs}

HushedBlocks(q) == [i \in DOMAIN q |-> [q[i] EXCEPT !.req = Hush(@)]]

Kinds == {"initial", "chunk", "query", "cancel"}

Requests == [id : Nat \ {0}, kind : Kinds, to : BOOLEAN, heard : BOOLEAN,
             from : Nat, at : Nat, len : Int, last : BOOLEAN]

Sessions == {"none", "active", "final", "cancelled"}

Results ==
  [is : {"none", "ok", "bad offset", "refused", "lost", "no url"},
   session : Sessions, size : Nat]

FetcherTypeOK ==
  /\ location \in BOOLEAN /\ isPaused \in BOOLEAN /\ userStopped \in BOOLEAN
  /\ outcome \in {"none", "succeeded", "failed"}
  /\ currentOffset \in Nat
  /\ shouldInitiateOffsetQuery \in BOOLEAN
  /\ chunkFetcher \in Nat
  /\ mainQ \in Seq([step : {"begin", "retry", "done"}, req : Requests,
                    result : Results])
  /\ storagePc \in {"new", "idle", "pause", "resume", "stop chunk", "stop base"}
  /\ net \subseteq Requests
  /\ session \in Sessions
  /\ content \in Seq(1..Length)
  /\ ops \in 0..MaxOps /\ faults \in 0..MaxFaults /\ fatal \in BOOLEAN

Init ==
  /\ location = FALSE /\ isPaused = FALSE /\ userStopped = FALSE
  /\ outcome = "none"
  /\ currentOffset = 0 /\ shouldInitiateOffsetQuery = FALSE
  /\ chunkFetcher = NoRequest
  /\ mainQ = <<>> /\ storagePc = "new" /\ net = {}
  /\ session = "none" /\ content = <<>>
  /\ ops = 0 /\ faults = 0 /\ fatal = FALSE

-----------------------------------------------------------------------------
\* The network and the server: external.

Accepted(r) == r.kind = "chunk" /\ session = "active" /\ r.at = Len(content)

\* What a request does when it arrives.
Session(r) ==
  CASE r.kind = "initial"                        -> "active"
    [] r.kind = "cancel" /\ session = "active"   -> "cancelled"
    [] Accepted(r) /\ r.last                     -> "final"
    [] OTHER                                     -> session

Content(r) == IF Accepted(r) THEN content \o Data(r) ELSE content

\* A session that was cancelled may answer so, or with an error.
Replies(r) ==
  IF r.kind # "chunk" \/ Accepted(r) THEN {"ok"}
  ELSE IF session = "active" THEN {"bad offset"}
  ELSE IF session = "cancelled" THEN {"ok", "refused"} ELSE {"refused"}

\* What the server may keep of a chunk that breaks off.
Parts(r) == {k \in 1..(r.len - 1) : RoundDown(r.at + k) = r.at + k}
              \cup (IF KeepsAll THEN {r.len} ELSE {})

serverVars == <<session, content>>
clientVars == <<location, isPaused, userStopped, outcome, currentOffset,
                shouldInitiateOffsetQuery, chunkFetcher, storagePc, ops>>

\* The end of a request.  The retry block sees a failure of a chunk or of a
\* query first; the initial request has been retried by the base class.
Ends(r, result) ==
  /\ net' = net \ {r}
  /\ mainQ' =
       IF r.heard /\ ~(r.kind = "initial" /\ Released)
       THEN Append(mainQ,
                   Block(IF result \in {"ok", "no url"} \/ r.kind = "initial"
                         THEN "done" ELSE "retry",
                         r, [is |-> result, session |-> session',
                             size |-> Len(content')]))
       ELSE mainQ
  /\ UNCHANGED clientVars

\* A request that is no longer heard may get lost freely: it was cancelled.
Fault(r) ==
  IF r.heard
  THEN /\ faults < MaxFaults
       /\ faults' = faults + 1
       /\ fatal' = (fatal \/ r.kind # "chunk")
  ELSE UNCHANGED <<faults, fatal>>

Serve(r) ==
  /\ r.to
  /\ session' = Session(r) /\ content' = Content(r)
  /\ \E result \in Replies(r) : Ends(r, result)
  /\ UNCHANGED <<faults, fatal>>

\* No location: the request fails before it is sent.
NotSent(r) ==
  /\ ~r.to
  /\ UNCHANGED <<serverVars, faults, fatal>>
  /\ Ends(r, "no url")

\* The request, the answer or a part of the data is lost.
Lose(r) ==
  /\ r.to
  /\ \/ UNCHANGED serverVars
     \/ session' = Session(r) /\ content' = Content(r)
     \/ /\ Accepted(r)
        /\ \E k \in Parts(r) : content' = content \o SubSeq(Data(r), 1, k)
        /\ UNCHANGED session
  /\ Fault(r)
  /\ Ends(r, "lost")

\* An answer no retry helps against: 403, 404, 500, or no session is opened.
Refuse(r) ==
  /\ r.to /\ r.heard /\ faults < MaxFaults
  /\ faults' = faults + 1 /\ fatal' = TRUE
  /\ UNCHANGED serverVars
  /\ Ends(r, "refused") \/ (r.kind = "initial" /\ Ends(r, "ok"))

-----------------------------------------------------------------------------
\* The main queue.

Rest == Tail(mainQ)

RunBlock(step, kinds) ==
  /\ mainQ # <<>> /\ Head(mainQ).req.heard
  /\ Head(mainQ).step = step /\ Head(mainQ).req.kind \in kinds
  /\ UNCHANGED <<isPaused, userStopped, storagePc, serverVars, ops, faults,
                 fatal>>

\* The callback of a fetcher that was destroyed finds that there is nobody to
\* call.
RunDropped ==
  /\ mainQ # <<>> /\ ~Head(mainQ).req.heard
  /\ mainQ' = Rest
  /\ UNCHANGED <<clientVars, serverVars, net, faults, fatal>>

\* destroyChunkFetcher.  Here q is what is left of the main queue.
DestroyChunk(q, more, sent) ==
  /\ chunkFetcher' = NoRequest
  /\ mainQ' = HushedBlocks(q) \o more
  /\ net' = Hushed(net) \cup sent

\* uploadNextChunk: the chunk is made now, and begun in a block of its own.
NextChunk(offset) == <<Block("begin", Chunk(offset), NoResult)>>

\* Mutant: the handler is not released.
FinishAgain(result, invalidate) ==
  /\ outcome' = IF userStopped THEN outcome ELSE result
  /\ location' = (location /\ ~invalidate)

\* invokeFinalCallback: once, the handler is released with it.
Finish(result, invalidate) ==
  /\ outcome' = IF Released THEN outcome ELSE result
  /\ location' = (location /\ ~invalidate)

\* There is a location, and the status is neither final nor cancelled.
Opened(result) == result.is = "ok" /\ result.session = "active"

\* The initial request is over.  Only here is isPaused looked at.
RunInitial ==
  /\ RunBlock("done", {"initial"})
  /\ IF userStopped
     THEN mainQ' = Rest /\ UNCHANGED <<outcome, location>>
     ELSE IF Opened(Head(mainQ).result)
     THEN /\ location' = TRUE
          /\ mainQ' = IF isPaused THEN Rest
                      ELSE Rest \o <<Block("begin",
                                           [Chunk(0) EXCEPT !.to = TRUE],
                                           NoResult)>>
          /\ UNCHANGED outcome
     ELSE mainQ' = Rest /\ Finish("failed", TRUE)
  /\ UNCHANGED <<currentOffset, shouldInitiateOffsetQuery, chunkFetcher, net>>

\* beginChunkFetcher, whatever happened since the chunk was made.
RunBegin ==
  /\ RunBlock("begin", {"chunk"})
  /\ LET r == Head(mainQ).req IN
     IF OutOfRange(r)
     THEN /\ Finish("failed", TRUE)
          /\ UNCHANGED <<currentOffset, chunkFetcher, net>>
     ELSE /\ currentOffset' = r.from
          /\ chunkFetcher' = r.id
          /\ net' = net \cup {r}
          /\ UNCHANGED <<outcome, location>>
  /\ mainQ' = Rest
  /\ UNCHANGED shouldInitiateOffsetQuery

\* Mutant: a lost chunk is taken off the offset.
RunRetryRollsBack ==
  /\ RunBlock("retry", {"chunk", "query"})
  /\ LET b == Head(mainQ) IN
     /\ IF b.result.is = "lost"
        THEN /\ shouldInitiateOffsetQuery' = (b.req.kind = "chunk")
             /\ currentOffset' = currentOffset - b.req.len
        ELSE UNCHANGED <<shouldInitiateOffsetQuery, currentOffset>>
     /\ mainQ' = Append(Rest, [b EXCEPT !.step = "done"])
  /\ UNCHANGED <<location, outcome, chunkFetcher, net>>

\* The retry block of uploadFetcherWithProperties: the fetcher itself is never
\* retried, a failed chunk is followed by a query.
RunRetry ==
  /\ RunBlock("retry", {"chunk", "query"})
  /\ LET b == Head(mainQ) IN
     /\ IF b.result.is = "lost"
        THEN /\ shouldInitiateOffsetQuery' = (b.req.kind = "chunk")
             /\ currentOffset' = 0
        ELSE UNCHANGED <<shouldInitiateOffsetQuery, currentOffset>>
     /\ mainQ' = Append(Rest, [b EXCEPT !.step = "done"])
  /\ UNCHANGED <<location, outcome, chunkFetcher, net>>

\* Mutant: only a bad offset is worth a query.
FailedForGood(r, why) ==
  IF why = "bad offset" /\ r.len > 0
  THEN /\ shouldInitiateOffsetQuery' = FALSE
       /\ DestroyChunk(Rest, <<>>, {Request("query")})
       /\ UNCHANGED <<outcome, location, currentOffset>>
  ELSE /\ Finish("failed", FALSE)
       /\ DestroyChunk(Rest, <<>>, {})
       /\ UNCHANGED <<shouldInitiateOffsetQuery, currentOffset>>

\* Mutant: every failure is followed by a query, that of a query too.
FailedAsksAgain(r, why) ==
  /\ shouldInitiateOffsetQuery' = FALSE
  /\ DestroyChunk(Rest, <<>>, {Request("query")})
  /\ UNCHANGED <<outcome, location, currentOffset>>

\* chunkFetcher:finishedWithData:error: with an error.
Failed(r, why) ==
  IF shouldInitiateOffsetQuery \/ (why = "bad offset" /\ r.len > 0)
  THEN /\ shouldInitiateOffsetQuery' = FALSE
       /\ DestroyChunk(Rest, <<>>, {Request("query")})
       /\ UNCHANGED <<outcome, location, currentOffset>>
  ELSE /\ Finish("failed", FALSE)
       /\ DestroyChunk(Rest, <<>>, {})
       /\ UNCHANGED <<shouldInitiateOffsetQuery, currentOffset>>

\* ... and without: len bytes more are there, unless the server gave up.
Succeeded(len, status) ==
  /\ IF status \in {"final", "cancelled"}
     THEN /\ Finish(IF status = "final" THEN "succeeded" ELSE "failed", TRUE)
          /\ DestroyChunk(Rest, <<>>, {})
          /\ UNCHANGED currentOffset
     ELSE /\ currentOffset' = currentOffset + len
          /\ DestroyChunk(Rest, NextChunk(currentOffset + len), {})
          /\ UNCHANGED <<outcome, location>>
  /\ UNCHANGED shouldInitiateOffsetQuery

RunChunkDone ==
  /\ RunBlock("done", {"chunk"})
  /\ LET b == Head(mainQ) IN
     IF b.result.is = "ok" THEN Succeeded(b.req.len, b.result.session)
                           ELSE Failed(b.req, b.result.is)

RunQueryDone ==
  /\ RunBlock("done", {"query"})
  /\ LET b == Head(mainQ) IN
     IF b.result.is # "ok" \/ b.result.session = "cancelled"
     THEN Failed(b.req, "query")
     ELSE IF b.result.session = "final" \/ b.result.size >= Length
     THEN Succeeded(0, b.result.session)
     ELSE /\ mainQ' = Rest \o NextChunk(b.result.size)
          /\ UNCHANGED <<location, outcome, currentOffset,
                         shouldInitiateOffsetQuery, chunkFetcher, net>>

-----------------------------------------------------------------------------
\* The owner, on the queue of FIRStorage.

BeginFetch ==
  /\ storagePc = "new"
  /\ storagePc' = "idle"
  /\ net' = {[Request("initial") EXCEPT !.to = TRUE]}
  /\ UNCHANGED <<location, isPaused, userStopped, outcome, currentOffset,
                 shouldInitiateOffsetQuery, chunkFetcher, mainQ, serverVars,
                 ops, faults, fatal>>

Call(op, next) ==
  /\ op \in Ops
  /\ storagePc = "idle" /\ ops < MaxOps
  /\ ops' = ops + 1
  /\ storagePc' = next
  /\ UNCHANGED <<outcome, currentOffset, shouldInitiateOffsetQuery,
                 userStopped, location, serverVars, faults, fatal>>

Continue(step, next) ==
  /\ storagePc = step
  /\ storagePc' = next
  /\ UNCHANGED <<outcome, currentOffset, shouldInitiateOffsetQuery, isPaused,
                 serverVars, ops, faults, fatal>>

\* Pausing stops the chunk that is under way.
PauseFetching ==
  \/ /\ Call("pause", "pause")
     /\ isPaused' = TRUE
     /\ UNCHANGED <<chunkFetcher, mainQ, net>>
  \/ /\ Continue("pause", "idle")
     /\ DestroyChunk(mainQ, <<>>, {})
     /\ UNCHANGED <<userStopped, location>>

\* Mutant: resuming counts on the chunk going on.
ResumeOnly ==
  /\ Call("resume", "idle")
  /\ isPaused' = FALSE
  /\ UNCHANGED <<chunkFetcher, mainQ, net>>

\* Resuming asks the server how far the upload got.
ResumeFetching ==
  \/ /\ Call("resume", IF isPaused THEN "resume" ELSE "idle")
     /\ isPaused' = FALSE
     /\ UNCHANGED <<chunkFetcher, mainQ, net>>
  \/ /\ Continue("resume", "idle")
     /\ net' = net \cup {Request("query")}
     /\ UNCHANGED <<userStopped, location, chunkFetcher, mainQ>>

\* Stopping tells a server that waits for more, then drops the callbacks.
StopFetching ==
  \/ /\ Call("stop", "stop chunk")
     /\ DestroyChunk(mainQ, <<>>, {})
     /\ UNCHANGED isPaused
  \/ /\ Continue("stop chunk", "stop base")
     /\ net' = IF location
               THEN net \cup {[Request("cancel") EXCEPT !.heard = FALSE]}
               ELSE net
     /\ location' = FALSE
     /\ UNCHANGED <<userStopped, chunkFetcher, mainQ>>
  \/ /\ Continue("stop base", "idle")
     /\ userStopped' = TRUE
     /\ net' = {IF r.kind = "initial" THEN [r EXCEPT !.heard = FALSE] ELSE r :
                  r \in net}
     /\ UNCHANGED <<location, chunkFetcher, mainQ>>

-----------------------------------------------------------------------------
MainNext ==
  \/ RunInitial \/ RunBegin \/ RunRetry \/ RunChunkDone \/ RunQueryDone
  \/ RunDropped

StorageNext == BeginFetch \/ PauseFetching \/ ResumeFetching \/ StopFetching

Answered == \E r \in net : Serve(r) \/ NotSent(r)

Next ==
  \/ MainNext \/ StorageNext \/ Answered
  \/ \E r \in net : Lose(r) \/ Refuse(r)

Spec == Init /\ [][Next]_fetcherVars

\* The main queue runs, and so does a call of the owner once it has begun;
\* a request is answered unless it gets lost, and faults come to an end.
FairSpec ==
  /\ Spec
  /\ WF_fetcherVars(MainNext)
  /\ WF_fetcherVars(StorageNext /\ ops' = ops)
  /\ WF_fetcherVars(Answered)

-----------------------------------------------------------------------------
(***************************************************************************)
(* The owner gets one answer at most, none after it stopped the upload,    *)
(* and a good one only if the server holds the whole data, position by     *)
(* position (invokeFinalCallback, GTMSessionUploadFetcher.m:1041-1079).    *)
(***************************************************************************)
Whole == session = "final" /\ content = [i \in 1..Length |-> i]

Phase ==
  IF storagePc = "new" THEN "none"
  ELSE IF userStopped THEN "stopped"
  ELSE IF outcome # "none" THEN outcome
  ELSE IF isPaused THEN "paused" ELSE "fetching"

Contract == INSTANCE FetcherContract WITH phase <- Phase, stored <- Whole
KeepsFetcherContract == Contract!Spec

(***************************************************************************)
(* However chunks are lost, cut short, repeated after a query or overtaken *)
(* by those of a second stream, what the server has is a beginning of the  *)
(* data, and all of it once the upload is final: data is never taken from  *)
(* another offset than the one the server was told.                        *)
(***************************************************************************)
ContentIsPrefix ==
  /\ content = [i \in 1..Len(content) |-> i]
  /\ Len(content) <= Length
  /\ session = "final" => Len(content) = Length

(***************************************************************************)
(* Losing chunks alone never fails an upload: a query and the rest of the  *)
(* data follow (the retry block, GTMSessionUploadFetcher.m:1407-1428).     *)
(***************************************************************************)
LostChunksAreForgiven == outcome = "failed" => fatal \/ ops > 0

(***************************************************************************)
(* When a query finds that the server has received everything, "we're      *)
(* done" (GTMSessionUploadFetcher.m:1156): the upload gets its answer.     *)
(***************************************************************************)
AllReceived ==
  \E i \in DOMAIN mainQ : /\ mainQ[i].step = "done"
                          /\ mainQ[i].req.kind = "query"
                          /\ mainQ[i].result.is = "ok"
                          /\ mainQ[i].result.size >= Length
AllReceivedIsDone == AllReceived ~> Released

(***************************************************************************)
(* An upload that is not left paused is answered, or was stopped: no       *)
(* order of pause, resume and the blocks of a chunk leaves it with nothing *)
(* under way.                                                              *)
(***************************************************************************)
UploadEnds == <>[](~isPaused) => <>(Released)

(***************************************************************************)
(* In the end nothing is under way any more, also when an upload that was  *)
(* answered or stopped goes on with a chunk that was made before: no stream *)
(* of requests feeds itself.                                               *)
(***************************************************************************)
FallsQuiet == <>[](net = {} /\ mainQ = <<>>)
=============================================================================
