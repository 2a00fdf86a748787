-------------------------- MODULE UploadFetcherProofs --------------------------
(***************************************************************************)
(* Proofs about UploadFetcher, for any length of the data, any sizes of    *)
(* chunks, any server that keeps to the protocol, and any number of faults *)
(* and of calls of the owner.                                              *)
(***************************************************************************)
EXTENDS UploadFetcher, SequenceTheorems, FiniteSetTheorems, TLAPS

-----------------------------------------------------------------------------
(***************************************************************************)
(* Offsets that the server asks for.                                       *)
(***************************************************************************)
Aligned(n) == RoundDown(n) = n

LEMMA MultipleIsAligned ==
  ASSUME NEW g \in Nat \ {0}, NEW q \in Int
  PROVE  (g * q) % g = 0
OBVIOUS

LEMMA DivisionOfNat ==
  ASSUME NEW g \in Nat \ {0}, NEW n \in Nat
  PROVE  /\ n % g \in 0..g - 1 /\ n % g <= n
         /\ n = g * (n \div g) + (n % g)
         /\ n \div g \in Nat
OBVIOUS

LEMMA RoundDownProperties ==
  ASSUME NEW n \in Nat
  PROVE  /\ RoundDown(n) \in Nat /\ RoundDown(n) <= n
         /\ Aligned(RoundDown(n))
         /\ Granularity > 0 /\ n >= Granularity => RoundDown(n) > 0
<1>1. Granularity \in Nat
  BY LengthAssumption
<1>2. CASE Granularity = 0
  BY <1>2 DEF RoundDown, Aligned
<1>3. CASE Granularity # 0
  <2>1. /\ n % Granularity \in 0..Granularity - 1 /\ n % Granularity <= n
        /\ n = Granularity * (n \div Granularity) + (n % Granularity)
        /\ n \div Granularity \in Nat
    BY <1>1, <1>3, DivisionOfNat
  <2>2. RoundDown(n) = n - (n % Granularity)
    BY <1>1, <1>3 DEF RoundDown
  <2>3. RoundDown(n) = Granularity * (n \div Granularity)
    BY <1>1, <2>1, <2>2
  <2>4. RoundDown(n) % Granularity = 0
    <3> DEFINE q == n \div Granularity
    <3>1. q \in Int
      BY <2>1
    <3> HIDE DEF q
    <3>2. (Granularity * q) % Granularity = 0
      BY <1>1, <1>3, <3>1, MultipleIsAligned
    <3>3. QED
      BY <2>3, <3>2 DEF q
  <2>5. RoundDown(n) \in Nat /\ RoundDown(n) <= n
    BY <1>1, <2>1, <2>2
  <2>6. Aligned(RoundDown(n))
    BY <1>1, <2>4, <2>5 DEF Aligned, RoundDown
  <2>7. QED
    BY <1>1, <2>1, <2>2, <2>5, <2>6
<1>4. QED
  BY <1>2, <1>3

LEMMA AlignedSum ==
  ASSUME NEW a \in Nat, NEW b \in Nat, Aligned(a), Aligned(b)
  PROVE  Aligned(a + b)
<1>1. Granularity \in Nat
  BY LengthAssumption
<1>2. CASE Granularity = 0
  BY <1>2 DEF RoundDown, Aligned
<1>3. CASE Granularity # 0
  <2>1. /\ a % Granularity = 0 /\ b % Granularity = 0
    BY <1>1, <1>3, DivisionOfNat DEF Aligned, RoundDown
  <2>2. /\ a = Granularity * (a \div Granularity) /\ a \div Granularity \in Nat
        /\ b = Granularity * (b \div Granularity) /\ b \div Granularity \in Nat
    <3>1. /\ a = Granularity * (a \div Granularity) + (a % Granularity)
          /\ a \div Granularity \in Nat
      BY <1>1, <1>3, DivisionOfNat
    <3>2. /\ b = Granularity * (b \div Granularity) + (b % Granularity)
          /\ b \div Granularity \in Nat
      BY <1>1, <1>3, DivisionOfNat
    <3> DEFINE p == Granularity * (a \div Granularity)
               q == Granularity * (b \div Granularity)
    <3>3. p \in Int /\ q \in Int
      BY <1>1, <3>1, <3>2
    <3>4. a = p + 0 /\ b = q + 0
      BY <2>1, <3>1, <3>2
    <3> HIDE DEF p, q
    <3>5. a = p /\ b = q
      BY <3>3, <3>4
    <3>6. QED
      BY <3>1, <3>2, <3>5 DEF p, q
  <2>3. a + b = Granularity * ((a \div Granularity) + (b \div Granularity))
    BY <1>1, <2>2
  <2>4. (a + b) % Granularity = 0
    <3> DEFINE q == (a \div Granularity) + (b \div Granularity)
    <3>1. q \in Int
      BY <2>2
    <3> HIDE DEF q
    <3>2. (Granularity * q) % Granularity = 0
      BY <1>1, <1>3, <3>1, MultipleIsAligned
    <3>3. QED
      BY <2>3, <3>2 DEF q
  <2>5. QED
    BY <1>1, <2>4 DEF Aligned, RoundDown
<1>4. QED
  BY <1>2, <1>3

LEMMA ZeroIsAligned == Aligned(0)
<1>1. 0 \in Nat
  OBVIOUS
<1>2. RoundDown(0) \in Nat /\ RoundDown(0) <= 0
  BY <1>1, RoundDownProperties
<1>3. QED
  BY <1>2 DEF Aligned

LEMMA FullChunkProperties == FullChunk \in Nat \ {0} /\ Aligned(FullChunk)
<1>1. Granularity \in Nat /\ ChunkSize \in Nat \ {0}
  BY LengthAssumption
<1>2. CASE 0 < Granularity /\ ChunkSize < Granularity
  <2>1. FullChunk = Granularity
    BY <1>2 DEF FullChunk
  <2>2. Granularity % Granularity = 0
    <3>1. (Granularity * 1) % Granularity = 0
      BY <1>1, <1>2, MultipleIsAligned
    <3>2. QED
      BY <1>1, <3>1
  <2>3. QED
    BY <1>1, <1>2, <2>1, <2>2 DEF Aligned, RoundDown
<1>3. CASE ~(0 < Granularity /\ ChunkSize < Granularity)
  <2>1. FullChunk = RoundDown(ChunkSize)
    BY <1>3 DEF FullChunk
  <2>2. /\ RoundDown(ChunkSize) \in Nat /\ Aligned(RoundDown(ChunkSize))
        /\ Granularity > 0 /\ ChunkSize >= Granularity => RoundDown(ChunkSize) > 0
    BY <1>1, RoundDownProperties
  <2>3. Granularity = 0 => RoundDown(ChunkSize) = ChunkSize
    BY <1>1 DEF RoundDown
  <2>4. QED
    BY <1>1, <1>3, <2>1, <2>2, <2>3
<1>4. QED
  BY <1>2, <1>3

-----------------------------------------------------------------------------
(***************************************************************************)
(* There is always an identity that no request and no block has: fewer are *)
(* taken than the numbers FreeId chooses from.                             *)
(***************************************************************************)
LEMMA IdsAreFew ==
  ASSUME IsFiniteSet(net), NEW S, mainQ \in Seq(S)
  PROVE  /\ IsFiniteSet(Ids(net, mainQ)) /\ Cardinality(net) \in Nat
         /\ Cardinality(Ids(net, mainQ)) <= Cardinality(net) + Len(mainQ)
<1> DEFINE A == {r.id : r \in net}
           B == {mainQ[i].req.id : i \in DOMAIN mainQ}
           f == [r \in net |-> r.id]
           g == [i \in DOMAIN mainQ |-> mainQ[i].req.id]
<1>1. DOMAIN mainQ = 1..Len(mainQ) /\ Len(mainQ) \in Nat
  BY LenProperties
<1>2. IsFiniteSet(DOMAIN mainQ) /\ Cardinality(DOMAIN mainQ) = Len(mainQ)
  BY <1>1, FS_Interval
<1>3. IsFiniteSet(A) /\ Cardinality(A) <= Cardinality(net)
  <2>1. f \in Surjection(net, A)
    BY DEF Surjection
  <2> HIDE DEF f, A
  <2>2. QED
    BY <2>1, FS_Surjection
<1>4. IsFiniteSet(B) /\ Cardinality(B) <= Len(mainQ)
  <2>1. g \in Surjection(DOMAIN mainQ, B)
    BY DEF Surjection
  <2> HIDE DEF g, B
  <2>2. QED
    BY <1>2, <2>1, FS_Surjection
<1>5. Ids(net, mainQ) = A \cup B
  BY DEF Ids
<1> HIDE DEF A, B
<1>6. /\ IsFiniteSet(A \cup B)
      /\ Cardinality(A \cup B) = Cardinality(A) + Cardinality(B) - Cardinality(A \cap B)
  BY <1>3, <1>4, FS_Union
<1>7. /\ Cardinality(A) \in Nat /\ Cardinality(B) \in Nat /\ Cardinality(net) \in Nat
  BY <1>3, <1>4, FS_CardinalityType
<1>8. Cardinality(A \cap B) \in Nat
  <2>1. A \cap B \in SUBSET A
    OBVIOUS
  <2>2. IsFiniteSet(A \cap B)
    BY <1>3, <2>1, FS_Subset
  <2>3. QED
    BY <2>2, FS_CardinalityType
<1>9. QED
  BY <1>1, <1>3, <1>4, <1>5, <1>6, <1>7, <1>8

LEMMA FreeIdIsFree ==
  ASSUME IsFiniteSet(net), NEW S, mainQ \in Seq(S)
  PROVE  /\ FreeId \in Nat \ {0}
         /\ FreeId \notin Ids(net, mainQ) \cup {chunkFetcher}
<1> DEFINE used == Ids(net, mainQ) \cup {chunkFetcher}
           N == Cardinality(net) + Len(mainQ) + 2
<1>1. /\ IsFiniteSet(Ids(net, mainQ)) /\ Cardinality(net) \in Nat
      /\ Cardinality(Ids(net, mainQ)) <= Cardinality(net) + Len(mainQ)
  BY IdsAreFew
<1>2. /\ Cardinality(Ids(net, mainQ)) \in Nat /\ Len(mainQ) \in Nat
  BY <1>1, FS_CardinalityType, LenProperties
<1>3. /\ IsFiniteSet(used)
      /\ Cardinality(used) <= Cardinality(Ids(net, mainQ)) + 1
  BY <1>1, <1>2, FS_AddElement
<1>4. Cardinality(used) \in Nat
  BY <1>3, FS_CardinalityType
<1>5. N \in Nat /\ Cardinality(used) < N /\ FreeId = CHOOSE n \in 1..N : n \notin used
  BY <1>1, <1>2, <1>3, <1>4 DEF FreeId
<1> HIDE DEF used, N
<1>6. \E n \in 1..N : n \notin used
  <2> SUFFICES ASSUME \A n \in 1..N : n \in used
               PROVE  FALSE
    OBVIOUS
  <2>1. 1..N \in SUBSET used
    OBVIOUS
  <2>2. Cardinality(1..N) <= Cardinality(used)
    BY <1>3, <2>1, FS_Subset
  <2>3. Cardinality(1..N) = N
    <3>1. Cardinality(1..N) = IF 1 > N THEN 0 ELSE N - 1 + 1
      BY <1>5, FS_Interval
    <3>2. QED
      BY <1>4, <1>5, <3>1
  <2>4. QED
    BY <1>4, <1>5, <2>2, <2>3
<1>7. FreeId \in 1..N /\ FreeId \notin used
  BY <1>5, <1>6
<1>8. QED
  BY <1>5, <1>7 DEF used

-----------------------------------------------------------------------------
(***************************************************************************)
(* The inductive invariant.  Offsets stay aligned, so that a chunk is      *)
(* taken from where the server is told it begins; the last chunk ends with *)
(* the data; and a final answer comes of a last chunk.                     *)
(***************************************************************************)
WellMade(r) ==
  r.kind = "chunk" =>
    /\ Aligned(r.from) /\ r.at = r.from
    /\ r.last => r.at + r.len = Length
    /\ ~r.last => Aligned(r.len) /\ r.len > 0 /\ r.at + r.len <= Length

InRange(r) == r.kind = "chunk" => ~OutOfRange(r)

NetOK == IsFiniteSet(net) /\ \A r \in net : WellMade(r) /\ InRange(r)

BlockOK(b, s) ==
  /\ WellMade(b.req)
  /\ b.step # "begin" => InRange(b.req)
  /\ b.result.is = "ok" /\ b.req.kind = "chunk" =>
       \/ b.result.session = "cancelled"
       \/ b.result.session = "final" <=> b.req.last
  /\ b.result.session = "final" => s = "final"
  /\ Aligned(b.result.size) \/ b.result.size >= Length

BlocksOK == \A i \in DOMAIN mainQ : BlockOK(mainQ[i], session)

ContentOK == ContentIsPrefix /\ (Aligned(Len(content)) \/ Len(content) = Length)

\* There is one initial request, and no session before it arrives.
InitialOnce ==
  \A r \in net : r.kind = "initial" =>
    session = "none" /\ \A s \in net : s.kind = "initial" => s = r

NothingBefore ==
  storagePc = "new" =>
    /\ net = {} /\ mainQ = <<>> /\ session = "none" /\ outcome = "none"
    /\ ~isPaused /\ ~userStopped

UploadInv ==
  /\ FetcherTypeOK
  /\ Aligned(currentOffset)
  /\ NetOK
  /\ BlocksOK
  /\ ContentOK
  /\ InitialOnce
  /\ NothingBefore

-----------------------------------------------------------------------------
(***************************************************************************)
(* Requests and chunks as they are made.                                   *)
(***************************************************************************)
Steps == {"begin", "retry", "done"}

Blocks == [step : Steps, req : Requests, result : Results]

LEMMA MadeRequest ==
  ASSUME FetcherTypeOK, IsFiniteSet(net), NEW kind \in Kinds
  PROVE  Request(kind) \in Requests /\ Request(kind).kind = kind
<1>1. mainQ \in Seq(Blocks) /\ location \in BOOLEAN
  BY DEF FetcherTypeOK, Blocks, Steps
<1>2. FreeId \in Nat \ {0}
  BY <1>1, FreeIdIsFree
<1>3. QED
  BY <1>1, <1>2 DEF Request, Requests

LEMMA MadeChunk ==
  ASSUME FetcherTypeOK, IsFiniteSet(net), NEW offset \in Nat, Aligned(offset)
  PROVE  /\ Chunk(offset) \in Requests /\ Chunk(offset).kind = "chunk"
         /\ Chunk(offset).from = offset
         /\ WellMade(Chunk(offset))
<1> DEFINE rest == Length - offset
           last == FullChunk >= rest \/ rest - Slack < FullChunk
           len == IF last THEN rest ELSE FullChunk
           base == Request("chunk")
<1>1. /\ Length \in Nat /\ Slack \in Nat /\ FullChunk \in Nat \ {0}
      /\ Aligned(FullChunk)
  BY LengthAssumption, FullChunkProperties
<1>2. /\ rest \in Int /\ last \in BOOLEAN /\ len \in Int
      /\ last => offset + len = Length
      /\ ~last => Aligned(len) /\ len > 0 /\ offset + len <= Length
  BY <1>1
<1>3. base \in Requests /\ base.kind = "chunk"
  BY MadeRequest DEF Kinds
<1>4. Chunk(offset) = [base EXCEPT !.from = offset, !.at = offset, !.last = last,
                                  !.len = len]
  BY DEF Chunk, Aligned
<1> HIDE DEF base, last, len
<1>5. QED
  BY <1>2, <1>3, <1>4 DEF Requests, WellMade

\* What destroyChunkFetcher does to a request.
LEMMA HushProperties ==
  ASSUME NEW r \in Requests
  PROVE  /\ Hush(r) \in Requests /\ Hush(r).kind = r.kind
         /\ WellMade(r) => WellMade(Hush(r))
         /\ InRange(r) => InRange(Hush(r))
         /\ Hush(r).last = r.last
BY DEF Hush, Requests, WellMade, InRange, OutOfRange

LEMMA HushedNet ==
  ASSUME net \subseteq Requests, NetOK, InitialOnce,
         NEW sent, sent \subseteq Requests, IsFiniteSet(sent),
         \A r \in sent : r.kind \in {"query", "cancel"},
         net' = Hushed(net) \cup sent, session' = session
  PROVE  net' \subseteq Requests /\ NetOK' /\ InitialOnce'
<1>1. IsFiniteSet(Hushed(net))
  <2> DEFINE f == [r \in net |-> Hush(r)]
  <2>1. f \in Surjection(net, Hushed(net))
    BY DEF Surjection, Hushed
  <2> HIDE DEF f
  <2>2. QED
    BY <2>1, FS_Surjection DEF NetOK
<1>2. IsFiniteSet(net')
  BY <1>1, FS_Union
<1>3. ASSUME NEW s \in net'
      PROVE  /\ s \in Requests /\ WellMade(s) /\ InRange(s)
             /\ s.kind = "initial" => \E r \in net : s = Hush(r) /\ r.kind = "initial"
  <2>1. CASE s \in sent
    BY <2>1 DEF WellMade, InRange
  <2>2. ASSUME NEW r \in net, s = Hush(r)
        PROVE  /\ s \in Requests /\ WellMade(s) /\ InRange(s)
               /\ s.kind = "initial" => r.kind = "initial"
    BY <2>2, HushProperties DEF NetOK
  <2>3. QED
    BY <2>1, <2>2 DEF Hushed
<1>4. NetOK' /\ net' \subseteq Requests
  <2>1. \A s \in net' : WellMade(s) /\ InRange(s)
    BY <1>3
  <2>2. QED
    BY <1>2, <1>3, <2>1 DEF NetOK, WellMade, InRange, OutOfRange
<1>5. InitialOnce'
  BY <1>3 DEF InitialOnce
<1>6. QED
  BY <1>4, <1>5

LEMMA HushedQueue ==
  ASSUME NEW q \in Seq(Blocks), \A i \in DOMAIN q : BlockOK(q[i], session)
  PROVE  /\ HushedBlocks(q) \in Seq(Blocks)
         /\ \A i \in DOMAIN HushedBlocks(q) : BlockOK(HushedBlocks(q)[i], session)
<1>1. DOMAIN q = 1..Len(q) /\ Len(q) \in Nat /\ q \in [1..Len(q) -> Blocks]
  BY LenProperties
<1>2. ASSUME NEW i \in DOMAIN q
      PROVE  /\ [q[i] EXCEPT !.req = Hush(@)] \in Blocks
             /\ BlockOK([q[i] EXCEPT !.req = Hush(@)], session)
  <2>1. q[i] \in Blocks /\ BlockOK(q[i], session)
    BY <1>1
  <2>2. q[i].req \in Requests
    BY <2>1 DEF Blocks
  <2> DEFINE h == Hush(q[i].req)
             b == [q[i] EXCEPT !.req = h]
  <2>3. /\ h \in Requests /\ h.kind = q[i].req.kind /\ h.last = q[i].req.last
        /\ WellMade(q[i].req) => WellMade(h)
        /\ InRange(q[i].req) => InRange(h)
    BY <2>2, HushProperties
  <2> HIDE DEF h
  <2>4. /\ b \in Blocks /\ b.req = h /\ b.step = q[i].step /\ b.result = q[i].result
    BY <2>1, <2>3 DEF Blocks
  <2>5. BlockOK(b, session)
    BY <2>1, <2>3, <2>4 DEF BlockOK
  <2>6. QED
    BY <2>4, <2>5 DEF h
<1>3. HushedBlocks(q) \in [1..Len(q) -> Blocks]
  BY <1>1, <1>2 DEF HushedBlocks
<1>4. HushedBlocks(q) \in Seq(Blocks)
  BY <1>1, <1>3, SeqDef
<1>5. QED
  BY <1>2, <1>4 DEF HushedBlocks

\* Blocks that are put behind others.
LEMMA MoreBlocks ==
  ASSUME NEW s, NEW q \in Seq(Blocks), \A i \in DOMAIN q : BlockOK(q[i], s),
         NEW p \in Seq(Blocks), \A i \in DOMAIN p : BlockOK(p[i], s)
  PROVE  /\ q \o p \in Seq(Blocks)
         /\ \A i \in DOMAIN (q \o p) : BlockOK((q \o p)[i], s)
<1>1. /\ DOMAIN q = 1..Len(q) /\ Len(q) \in Nat
      /\ DOMAIN p = 1..Len(p) /\ Len(p) \in Nat
  BY LenProperties
<1>2. /\ q \o p \in Seq(Blocks) /\ Len(q \o p) = Len(q) + Len(p)
      /\ \A i \in 1..Len(q) + Len(p) :
           (q \o p)[i] = IF i <= Len(q) THEN q[i] ELSE p[i - Len(q)]
  BY ConcatProperties
<1>3. DOMAIN (q \o p) = 1..Len(q) + Len(p)
  BY <1>2, LenProperties
<1>4. ASSUME NEW i \in 1..Len(q) + Len(p)
      PROVE  BlockOK((q \o p)[i], s)
  <2>1. CASE i <= Len(q)
    BY <1>1, <1>2, <2>1
  <2>2. CASE ~(i <= Len(q))
    <3>1. i - Len(q) \in 1..Len(p)
      BY <1>1, <2>2
    <3>2. QED
      BY <1>1, <1>2, <2>2, <3>1
  <2>3. QED
    BY <2>1, <2>2
<1>5. QED
  BY <1>2, <1>3, <1>4

LEMMA FewBlocks ==
  ASSUME NEW s, NEW b \in Blocks, BlockOK(b, s)
  PROVE  /\ <<b>> \in Seq(Blocks) /\ \A i \in DOMAIN <<b>> : BlockOK(<<b>>[i], s)
         /\ <<>> \in Seq(Blocks) /\ \A i \in DOMAIN <<>> : BlockOK(<<>>[i], s)
<1>1. <<b>> \in Seq(Blocks) /\ Len(<<b>>) = 1 /\ <<b>>[1] = b
  OBVIOUS
<1>2. DOMAIN <<b>> = {1} /\ DOMAIN <<>> = {}
  BY <1>1, LenProperties, EmptySeq
<1>3. QED
  BY <1>1, <1>2, EmptySeq

LEMMA NoBlocks ==
  <<>> \in Seq(Blocks) /\ \A i \in DOMAIN <<>> : BlockOK(<<>>[i], session)
<1>1. <<>> \in Seq(Blocks) /\ DOMAIN <<>> = {}
  BY EmptySeq, LenProperties
<1>2. QED
  BY <1>1

\* The next chunk, in its block.
LEMMA BeginBlockOK ==
  ASSUME NEW s, NEW r \in Requests, WellMade(r)
  PROVE  LET q == <<Block("begin", r, NoResult)>>
         IN  q \in Seq(Blocks) /\ \A i \in DOMAIN q : BlockOK(q[i], s)
<1> DEFINE b == Block("begin", r, NoResult)
<1>1. NoResult \in Results
  BY DEF NoResult, Results, Sessions
<1>2. /\ b \in Blocks /\ b.req = r /\ b.step = "begin"
      /\ b.result.is = "none" /\ b.result.session = "none" /\ b.result.size = 0
  BY <1>1 DEF Block, Blocks, Steps, NoResult
<1> HIDE DEF b
<1>3. BlockOK(b, s)
  BY <1>2, ZeroIsAligned DEF BlockOK
<1>4. <<b>> \in Seq(Blocks) /\ \A i \in DOMAIN <<b>> : BlockOK(<<b>>[i], s)
  BY <1>2, <1>3, FewBlocks
<1>5. QED
  BY <1>4 DEF b

LEMMA NextChunkOK ==
  ASSUME FetcherTypeOK, IsFiniteSet(net), NEW offset \in Nat, Aligned(offset)
  PROVE  /\ NextChunk(offset) \in Seq(Blocks)
         /\ \A i \in DOMAIN NextChunk(offset) : BlockOK(NextChunk(offset)[i], session)
<1>1. Chunk(offset) \in Requests /\ WellMade(Chunk(offset))
  BY MadeChunk
<1>2. QED
  BY <1>1, BeginBlockOK DEF NextChunk

\* What is left of the main queue, and the block that runs.
LEMMA RestOK ==
  ASSUME FetcherTypeOK, BlocksOK, mainQ # <<>>
  PROVE  /\ Head(mainQ) \in Blocks /\ BlockOK(Head(mainQ), session)
         /\ Rest \in Seq(Blocks) /\ \A i \in DOMAIN Rest : BlockOK(Rest[i], session)
<1>1. mainQ \in Seq(Blocks)
  BY DEF FetcherTypeOK, Blocks, Steps
<1>2. /\ DOMAIN mainQ = 1..Len(mainQ) /\ Len(mainQ) \in Nat \ {0}
  BY <1>1, LenProperties, EmptySeq
<1>3. /\ Head(mainQ) = mainQ[1] /\ Tail(mainQ) \in Seq(Blocks)
      /\ Len(Tail(mainQ)) = Len(mainQ) - 1
      /\ \A i \in 1..Len(Tail(mainQ)) : Tail(mainQ)[i] = mainQ[i + 1]
  BY <1>1, HeadTailProperties
<1>4. DOMAIN Tail(mainQ) = 1..Len(Tail(mainQ))
  BY <1>3, LenProperties
<1>5. Head(mainQ) \in Blocks /\ BlockOK(Head(mainQ), session)
  <2>1. 1 \in DOMAIN mainQ
    BY <1>2
  <2>2. mainQ[1] \in Blocks
    BY <1>1, <2>1, ElementOfSeq, <1>2
  <2>3. QED
    BY <1>3, <2>1, <2>2 DEF BlocksOK
<1>6. ASSUME NEW i \in 1..Len(Tail(mainQ))
      PROVE  BlockOK(Tail(mainQ)[i], session)
  <2>1. i + 1 \in DOMAIN mainQ
    BY <1>2, <1>3
  <2>2. QED
    BY <1>3, <2>1 DEF BlocksOK
<1>7. QED
  BY <1>3, <1>4, <1>5, <1>6 DEF Rest

\* The queue after a step, by its blocks.
LEMMA QueueIsOK ==
  ASSUME mainQ' \in Seq(Blocks), session' = session,
         \A i \in DOMAIN mainQ' : BlockOK(mainQ'[i], session)
  PROVE  BlocksOK'
BY DEF BlocksOK

\* destroyChunkFetcher, with what is put in the place of the chunk.
LEMMA DestroyKeeps ==
  ASSUME UploadInv, session' = session,
         NEW q \in Seq(Blocks), \A i \in DOMAIN q : BlockOK(q[i], session),
         NEW more \in Seq(Blocks), \A i \in DOMAIN more : BlockOK(more[i], session),
         NEW sent, sent \subseteq Requests, IsFiniteSet(sent),
         \A r \in sent : r.kind \in {"query", "cancel"},
         DestroyChunk(q, more, sent)
  PROVE  /\ chunkFetcher' \in Nat
         /\ mainQ' \in Seq(Blocks) /\ BlocksOK'
         /\ net' \subseteq Requests /\ NetOK' /\ InitialOnce'
<1>1. /\ HushedBlocks(q) \in Seq(Blocks)
      /\ \A i \in DOMAIN HushedBlocks(q) : BlockOK(HushedBlocks(q)[i], session)
  BY HushedQueue
<1>2. /\ HushedBlocks(q) \o more \in Seq(Blocks)
      /\ \A i \in DOMAIN (HushedBlocks(q) \o more) :
           BlockOK((HushedBlocks(q) \o more)[i], session)
  BY <1>1, MoreBlocks
<1>3. mainQ' \in Seq(Blocks) /\ BlocksOK'
  BY <1>2, QueueIsOK DEF DestroyChunk
<1>4. net' \subseteq Requests /\ NetOK' /\ InitialOnce'
  BY HushedNet DEF UploadInv, FetcherTypeOK, DestroyChunk
<1>5. QED
  BY <1>3, <1>4 DEF DestroyChunk, NoRequest

\* A query in the place of what was destroyed, and nothing.
LEMMA QuerySent ==
  ASSUME FetcherTypeOK, NetOK
  PROVE  /\ {Request("query")} \subseteq Requests /\ IsFiniteSet({Request("query")})
         /\ \A r \in {Request("query")} : r.kind \in {"query", "cancel"}
         /\ {} \subseteq Requests /\ IsFiniteSet({})
<1>1. Request("query") \in Requests /\ Request("query").kind = "query"
  BY MadeRequest DEF Kinds, NetOK
<1>2. QED
  BY <1>1, FS_Singleton, FS_EmptySet

-----------------------------------------------------------------------------
(***************************************************************************)
(* The data that goes with a chunk is what follows what the server has.    *)
(***************************************************************************)
LEMMA FunctionIsSeq ==
  ASSUME NEW S, NEW n \in Nat, NEW f \in [1..n -> S]
  PROVE  f \in Seq(S)
BY SeqDef

\* s is the data from position a + 1 on, k positions of it.
PartOfData(s, a, k) ==
  s \in Seq(Int) /\ Len(s) = k /\ \A i \in 1..k : s[i] = a + i

LEMMA PartsJoin ==
  ASSUME NEW n \in Nat, NEW k \in Nat, NEW s, NEW t,
         PartOfData(s, 0, n), PartOfData(t, n, k)
  PROVE  PartOfData(s \o t, 0, n + k)
<1>0. s \in Seq(Int) /\ t \in Seq(Int) /\ Len(s) = n /\ Len(t) = k
  BY DEF PartOfData
<1>1. /\ s \o t \in Seq(Int) /\ Len(s \o t) = n + k
      /\ \A i \in 1..n + k : (s \o t)[i] = IF i <= n THEN s[i] ELSE t[i - n]
  BY <1>0, ConcatProperties
<1>2. ASSUME NEW i \in 1..n + k
      PROVE  (s \o t)[i] = 0 + i
  <2>1. CASE i <= n
    BY <1>1, <2>1 DEF PartOfData
  <2>2. CASE ~(i <= n)
    <3>1. i - n \in 1..k /\ n + (i - n) = i
      BY <2>2
    <3>2. t[i - n] = n + (i - n)
      BY <3>1 DEF PartOfData
    <3>3. (s \o t)[i] = t[i - n]
      BY <1>1, <2>2
    <3>4. QED
      BY <3>1, <3>2, <3>3
  <2>3. QED
    BY <2>1, <2>2
<1>3. QED
  BY <1>1, <1>2 DEF PartOfData

\* A beginning of the data, in the words of ContentIsPrefix.
LEMMA BeginningOfData ==
  ASSUME NEW n \in Nat, n <= Length, NEW s
  PROVE  PartOfData(s, 0, n) <=>
           s \in Seq(1..Length) /\ Len(s) = n /\ s = [i \in 1..Len(s) |-> i]
<1>1. Length \in Nat
  BY LengthAssumption
<1>2. ASSUME PartOfData(s, 0, n)
      PROVE  s \in Seq(1..Length) /\ Len(s) = n /\ s = [i \in 1..Len(s) |-> i]
  <2>1. s \in Seq(Int) /\ Len(s) = n /\ \A i \in 1..n : s[i] = i
    BY <1>2 DEF PartOfData
  <2>2. s \in [1..n -> Int]
    BY <2>1, LenProperties
  <2>3. s = [i \in 1..n |-> i]
    BY <2>1, <2>2
  <2>4. \A i \in 1..n : i \in 1..Length
    BY <1>1
  <2>5. s \in [1..n -> 1..Length]
    BY <2>3, <2>4
  <2>6. s \in Seq(1..Length)
    BY <2>5, FunctionIsSeq
  <2>7. QED
    BY <2>1, <2>3, <2>6
<1>3. ASSUME s \in Seq(1..Length), Len(s) = n, s = [i \in 1..Len(s) |-> i]
      PROVE  PartOfData(s, 0, n)
  <2>1. s \in [1..n -> Int]
    BY <1>3
  <2>2. s \in Seq(Int)
    BY <2>1, FunctionIsSeq
  <2>3. \A i \in 1..n : s[i] = 0 + i
    BY <1>3
  <2>4. QED
    BY <1>3, <2>2, <2>3 DEF PartOfData
<1>4. QED
  BY <1>2, <1>3

LEMMA PrefixGrows ==
  ASSUME FetcherTypeOK, ContentOK,
         NEW r \in Requests, WellMade(r), InRange(r), r.kind = "chunk",
         r.at = Len(content), NEW k \in Nat, k <= r.len,
         NEW part, PartOfData(part, r.from, k)
  PROVE  /\ content \o part \in Seq(1..Length)
         /\ Len(content \o part) = r.at + k
         /\ content \o part = [i \in 1..Len(content \o part) |-> i]
         /\ Len(content \o part) <= Length
<1>1. /\ Length \in Nat /\ r.from \in Nat /\ r.len \in Int /\ r.at = r.from
      /\ r.from + r.len <= Length
  BY LengthAssumption DEF WellMade, InRange, OutOfRange, Requests
<1>2. PICK f \in Nat : f = r.from
  BY <1>1
<1>3. f <= Length /\ Len(content) = f /\ content \in Seq(1..Length)
  BY <1>1, <1>2 DEF ContentOK, ContentIsPrefix, FetcherTypeOK
<1>4. PartOfData(content, 0, f)
  BY <1>3, BeginningOfData DEF ContentOK, ContentIsPrefix
<1>5. PartOfData(content \o part, 0, f + k)
  BY <1>2, <1>4, PartsJoin
<1>6. f + k \in Nat /\ f + k <= Length /\ f + k = r.at + k
  BY <1>1, <1>2
<1>7. QED
  BY <1>5, <1>6, BeginningOfData

\* The data of a chunk, or what the server keeps of it.
LEMMA DataIsPart ==
  ASSUME NEW r \in Requests, r.len >= 0
  PROVE  /\ PartOfData(Data(r), r.from, r.len)
         /\ \A k \in 0..r.len : PartOfData(SubSeq(Data(r), 1, k), r.from, k)
<1>1. r.from \in Nat /\ r.len \in Nat
  BY DEF Requests
<1>2. /\ Data(r) \in [1..r.len -> Int]
      /\ \A i \in 1..r.len : Data(r)[i] = r.from + i
  BY <1>1 DEF Data
<1>3. Data(r) \in Seq(Int)
  BY <1>1, <1>2, FunctionIsSeq
<1>4. Len(Data(r)) = r.len
  BY <1>1, <1>2, <1>3, LenProperties
<1>5. ASSUME NEW k \in 0..r.len
      PROVE  PartOfData(SubSeq(Data(r), 1, k), r.from, k)
  <2>1. PICK d \in Seq(Int) : d = Data(r)
    BY <1>3
  <2>2. k \in Nat /\ k <= Len(d)
    BY <1>1, <1>4, <2>1
  <2>3. /\ SubSeq(d, 1, k) \in Seq(Int) /\ Len(SubSeq(d, 1, k)) = k
        /\ \A i \in 1..k : SubSeq(d, 1, k)[i] = d[i]
    BY <2>2, SubSeqProperties
  <2>4. \A i \in 1..k : d[i] = r.from + i
    BY <1>1, <1>2, <2>1
  <2>5. QED
    BY <2>1, <2>3, <2>4 DEF PartOfData
<1>6. QED
  BY <1>2, <1>3, <1>4, <1>5 DEF PartOfData

\* What the server has after it accepted k positions of a chunk: it ends where
\* the next chunk may begin, or with the data.
LEMMA GrownContent ==
  ASSUME UploadInv, NEW r \in net, Accepted(r), NEW k \in Nat, k <= r.len,
         Aligned(r.at + k) \/ k = r.len,
         NEW part, PartOfData(part, r.from, k),
         content' = content \o part,
         session' = "active" \/ (session' = "final" /\ r.last /\ k = r.len)
  PROVE  content' \in Seq(1..Length) /\ ContentOK'
<1>1. /\ FetcherTypeOK /\ ContentOK /\ r \in Requests /\ WellMade(r) /\ InRange(r)
  BY DEF UploadInv, NetOK, FetcherTypeOK
<1>2. r.kind = "chunk" /\ r.at = Len(content)
  BY DEF Accepted
<1>3. /\ content' \in Seq(1..Length) /\ Len(content') = r.at + k
      /\ content' = [i \in 1..Len(content') |-> i] /\ Len(content') <= Length
  BY <1>1, <1>2, PrefixGrows
<1>4. /\ r.at \in Nat /\ r.len \in Int /\ Aligned(r.at)
      /\ r.last => r.at + r.len = Length
      /\ ~r.last => Aligned(r.len) /\ r.len > 0
  BY <1>1, <1>2 DEF WellMade, Requests
<1>5. Aligned(Len(content')) \/ Len(content') = Length
  <2>1. CASE Aligned(r.at + k)
    BY <1>3, <2>1
  <2>2. CASE k = r.len /\ r.last
    BY <1>3, <1>4, <2>2
  <2>3. CASE k = r.len /\ ~r.last
    <3>1. Aligned(r.at + k)
      BY <1>4, <2>3, AlignedSum
    <3>2. QED
      BY <1>3, <3>1
  <2>4. QED
    BY <2>1, <2>2, <2>3
<1>6. session' = "final" => Len(content') = Length
  BY <1>3, <1>4
<1>7. ContentIsPrefix'
  BY <1>3, <1>6 DEF ContentIsPrefix
<1>8. ContentOK'
  BY <1>5, <1>7 DEF ContentOK, Aligned, RoundDown
<1>9. QED
  BY <1>3, <1>8

LEMMA LengthIsEnough == Length >= Length
BY LengthAssumption

-----------------------------------------------------------------------------
(***************************************************************************)
(* Requests end.                                                           *)
(***************************************************************************)
LEMMA EndsKeeps ==
  ASSUME UploadInv, NEW r \in net, NEW result, Ends(r, result),
         result \in {"ok", "bad offset", "refused", "lost", "no url"},
         content' \in Seq(1..Length), ContentOK', session' \in Sessions,
         session = "final" => session' = "final",
         r.kind # "initial" /\ session = "none" => session' = "none",
         result = "ok" /\ r.kind = "chunk" =>
           session' = "cancelled" \/ (session' = "final" <=> r.last)
  PROVE  /\ mainQ' \in Seq(Blocks) /\ BlocksOK'
         /\ net' \subseteq Requests /\ NetOK' /\ InitialOnce' /\ NothingBefore'
<1>1. /\ FetcherTypeOK /\ NetOK /\ BlocksOK /\ InitialOnce
      /\ r \in Requests /\ WellMade(r) /\ InRange(r) /\ net' = net \ {r}
      /\ mainQ \in Seq(Blocks)
  BY DEF UploadInv, NetOK, FetcherTypeOK, Ends, Blocks, Steps
<1>2. net' \subseteq Requests /\ NetOK'
  <2>1. IsFiniteSet(net')
    BY <1>1, FS_Subset DEF NetOK
  <2>2. QED
    BY <1>1, <2>1 DEF NetOK, FetcherTypeOK, WellMade, InRange, OutOfRange
<1>3. InitialOnce'
  BY <1>1 DEF InitialOnce
<1>4. NothingBefore'
  BY DEF UploadInv, NothingBefore, Ends, clientVars
<1>5. \A i \in DOMAIN mainQ : BlockOK(mainQ[i], session')
  BY <1>1 DEF BlocksOK, BlockOK
<1> DEFINE res == [is |-> result, session |-> session', size |-> Len(content')]
           step == IF result \in {"ok", "no url"} \/ r.kind = "initial"
                   THEN "done" ELSE "retry"
           b == Block(step, r, res)
<1>6. Len(content') \in Nat /\ Length \in Nat
  BY LenProperties, LengthAssumption
<1>7. res \in Results
  BY <1>6 DEF Results
<1>8. b \in Blocks
  BY <1>1, <1>7 DEF Blocks, Block, Steps
<1>9. BlockOK(b, session')
  <2>1. Aligned(Len(content')) \/ Len(content') >= Length
    <3>1. CASE Aligned(Len(content'))
      BY <3>1
    <3>2. CASE Len(content') = Length
      BY <3>2, LengthIsEnough, Zenon
    <3>3. QED
      BY <3>1, <3>2 DEF ContentOK
  <2>2. /\ b.req = r /\ b.result.is = result /\ b.result.session = session'
        /\ b.result.size = Len(content')
    BY DEF Block
  <2> HIDE DEF b
  <2>3. QED
    BY <1>1, <2>1, <2>2 DEF BlockOK
<1>10. mainQ' = mainQ \/ mainQ' = mainQ \o <<b>>
  <2>1. mainQ \o <<b>> = Append(mainQ, b)
    <3> HIDE DEF b
    <3>1. QED
      BY <1>1, <1>8, AppendIsConcat
  <2>2. QED
    BY <2>1 DEF Ends
<1> HIDE DEF b
<1>11. CASE mainQ' = mainQ
  BY <1>1, <1>2, <1>3, <1>4, <1>5, <1>11 DEF BlocksOK
<1>12. CASE mainQ' = mainQ \o <<b>>
  <2>1. <<b>> \in Seq(Blocks) /\ \A i \in DOMAIN <<b>> : BlockOK(<<b>>[i], session')
    BY <1>8, <1>9, FewBlocks
  <2>2. /\ mainQ \o <<b>> \in Seq(Blocks)
        /\ \A i \in DOMAIN (mainQ \o <<b>>) : BlockOK((mainQ \o <<b>>)[i], session')
    BY <1>1, <1>5, <2>1, MoreBlocks
  <2>3. BlocksOK'
    BY <1>12, <2>2 DEF BlocksOK
  <2>4. QED
    BY <1>2, <1>3, <1>4, <1>12, <2>2, <2>3
<1>13. QED
  BY <1>10, <1>11, <1>12

LEMMA EndsKeepsInv ==
  ASSUME UploadInv, NEW r \in net, NEW result, Ends(r, result),
         result \in {"ok", "bad offset", "refused", "lost", "no url"},
         content' \in Seq(1..Length), ContentOK', session' \in Sessions,
         session = "final" => session' = "final",
         r.kind # "initial" /\ session = "none" => session' = "none",
         result = "ok" /\ r.kind = "chunk" =>
           session' = "cancelled" \/ (session' = "final" <=> r.last),
         faults' \in 0..MaxFaults, fatal' \in BOOLEAN
  PROVE  UploadInv'
<1>1. /\ mainQ' \in Seq(Blocks) /\ BlocksOK'
      /\ net' \subseteq Requests /\ NetOK' /\ InitialOnce' /\ NothingBefore'
  BY EndsKeeps
<1>2. FetcherTypeOK /\ Aligned(currentOffset) /\ UNCHANGED clientVars
  BY DEF UploadInv, Ends
<1>3. FetcherTypeOK'
  BY <1>1, <1>2 DEF FetcherTypeOK, clientVars, Blocks, Steps
<1>4. Aligned(currentOffset)'
  BY <1>2 DEF clientVars, Aligned, RoundDown
<1>5. QED
  BY <1>1, <1>3, <1>4 DEF UploadInv

\* The server takes a request.
LEMMA ServerTakes ==
  ASSUME UploadInv, NEW r \in net, session' = Session(r), content' = Content(r)
  PROVE  /\ content' \in Seq(1..Length) /\ ContentOK' /\ session' \in Sessions
         /\ session = "final" => session' = "final"
         /\ r.kind # "initial" /\ session = "none" => session' = "none"
         /\ "ok" \in Replies(r) /\ r.kind = "chunk" =>
              session' = "cancelled" \/ (session' = "final" <=> r.last)
<1>1. /\ r \in Requests /\ WellMade(r) /\ InRange(r) /\ ContentOK
      /\ content \in Seq(1..Length) /\ session \in Sessions
      /\ r.kind = "initial" => session = "none"
  BY DEF UploadInv, NetOK, FetcherTypeOK, InitialOnce
<1>2. CASE Accepted(r)
  <2>1. r.kind = "chunk" /\ session = "active"
    BY <1>2 DEF Accepted
  <2>2. session' = IF r.last THEN "final" ELSE "active"
    BY <1>2, <2>1 DEF Session
  <2>3. content' = content \o Data(r)
    BY <1>2 DEF Content
  <2>4. PICK k \in Nat : k = r.len
    BY <1>1, <2>1 DEF InRange, OutOfRange, Requests
  <2>5. PartOfData(Data(r), r.from, k) /\ k <= r.len
    BY <1>1, <2>4, DataIsPart
  <2>6. content' \in Seq(1..Length) /\ ContentOK'
    BY <1>2, <2>2, <2>3, <2>4, <2>5, GrownContent
  <2>7. QED
    BY <2>1, <2>2, <2>6 DEF Sessions
<1>3. CASE ~Accepted(r)
  <2>1. content' = content
    BY <1>3 DEF Content
  <2>2. /\ r.kind = "initial" => session' = "active"
        /\ r.kind # "initial" =>
             session' = session \/ (session = "active" /\ session' = "cancelled")
    BY <1>3 DEF Session
  <2>3. session' \in Sessions /\ (session' = "final" => session = "final")
    BY <1>1, <2>2 DEF Sessions
  <2>4. ContentOK'
    BY <1>1, <2>1, <2>3 DEF ContentOK, ContentIsPrefix
  <2>5. "ok" \in Replies(r) /\ r.kind = "chunk" => session' = "cancelled"
    BY <1>3 DEF Replies, Session
  <2>6. QED
    BY <1>1, <2>1, <2>2, <2>3, <2>4, <2>5
<1>4. QED
  BY <1>2, <1>3

LEMMA FaultType ==
  ASSUME FetcherTypeOK, NEW r, Fault(r) \/ Refuse(r)
  PROVE  faults' \in 0..MaxFaults /\ fatal' \in BOOLEAN
<1>1. MaxFaults \in Nat /\ faults \in 0..MaxFaults /\ fatal \in BOOLEAN
  BY FaultsAssumption DEF FetcherTypeOK
<1>2. CASE Fault(r) /\ r.heard
  BY <1>1, <1>2 DEF Fault
<1>3. CASE Fault(r) /\ ~r.heard
  BY <1>1, <1>3 DEF Fault
<1>4. CASE Refuse(r)
  BY <1>1, <1>4 DEF Refuse
<1>5. QED
  BY <1>2, <1>3, <1>4

LEMMA ServeKeepsInv ==
  ASSUME UploadInv, NEW r \in net, Serve(r)
  PROVE  UploadInv'
<1>1. PICK reply \in Replies(r) :
        /\ session' = Session(r) /\ content' = Content(r) /\ Ends(r, reply)
        /\ UNCHANGED <<faults, fatal>>
  BY DEF Serve
<1>2. reply \in {"ok", "bad offset", "refused", "lost", "no url"}
  BY DEF Replies
<1>3. faults' \in 0..MaxFaults /\ fatal' \in BOOLEAN
  BY <1>1 DEF UploadInv, FetcherTypeOK
<1>4. /\ content' \in Seq(1..Length) /\ ContentOK' /\ session' \in Sessions
      /\ session = "final" => session' = "final"
      /\ r.kind # "initial" /\ session = "none" => session' = "none"
      /\ reply = "ok" /\ r.kind = "chunk" =>
           session' = "cancelled" \/ (session' = "final" <=> r.last)
  BY <1>1, ServerTakes
<1>5. QED
  BY <1>1, <1>2, <1>3, <1>4, EndsKeepsInv

LEMMA NotServedKeepsInv ==
  ASSUME UploadInv, NEW r \in net, NotSent(r) \/ Refuse(r)
  PROVE  UploadInv'
<1>1. PICK result \in {"ok", "refused", "no url"} :
        Ends(r, result) /\ (result = "ok" => r.kind = "initial")
  BY DEF NotSent, Refuse
<1>2. UNCHANGED <<session, content>>
  BY DEF NotSent, Refuse, serverVars
<1>3. faults' \in 0..MaxFaults /\ fatal' \in BOOLEAN
  BY FaultType DEF UploadInv, FetcherTypeOK, NotSent
<1>4. content' \in Seq(1..Length) /\ ContentOK' /\ session' \in Sessions
  BY <1>2 DEF UploadInv, FetcherTypeOK, ContentOK, ContentIsPrefix
<1>5. QED
  BY <1>1, <1>2, <1>3, <1>4, EndsKeepsInv

LEMMA LoseKeepsInv ==
  ASSUME UploadInv, NEW r \in net, Lose(r)
  PROVE  UploadInv'
<1>1. Ends(r, "lost")
  BY DEF Lose
<1>2. faults' \in 0..MaxFaults /\ fatal' \in BOOLEAN
  BY FaultType DEF UploadInv, Lose
<1>3. /\ content' \in Seq(1..Length) /\ ContentOK' /\ session' \in Sessions
      /\ session = "final" => session' = "final"
      /\ r.kind # "initial" /\ session = "none" => session' = "none"
  <2>1. CASE UNCHANGED serverVars
    BY <2>1 DEF serverVars, UploadInv, FetcherTypeOK, ContentOK, ContentIsPrefix
  <2>2. CASE session' = Session(r) /\ content' = Content(r)
    BY <2>2, ServerTakes
  <2>3. ASSUME Accepted(r), NEW k \in Parts(r),
               content' = content \o SubSeq(Data(r), 1, k), UNCHANGED session
        PROVE  /\ content' \in Seq(1..Length) /\ ContentOK'
               /\ session = "active" /\ session' = "active"
    <3>1. session = "active" /\ session' = "active" /\ r.kind = "chunk"
      BY <2>3 DEF Accepted
    <3>2. /\ r \in Requests /\ r.len \in Nat /\ r.at \in Nat
      <4>1. r \in Requests /\ InRange(r)
        BY DEF UploadInv, NetOK, FetcherTypeOK
      <4>2. QED
        BY <3>1, <4>1 DEF InRange, OutOfRange, Requests
    <3>3. /\ k \in 0..r.len /\ k \in Nat /\ k <= r.len
          /\ Aligned(r.at + k) \/ k = r.len
      <4>1. CASE k \in 1..(r.len - 1) /\ Aligned(r.at + k)
        BY <3>2, <4>1
      <4>2. CASE k = r.len
        BY <3>2, <4>2
      <4>3. QED
        BY <2>3, <4>1, <4>2 DEF Parts, Aligned
    <3>4. PartOfData(SubSeq(Data(r), 1, k), r.from, k)
      BY <3>2, <3>3, DataIsPart
    <3>5. content' \in Seq(1..Length) /\ ContentOK'
      BY <2>3, <3>1, <3>3, <3>4, GrownContent
    <3>6. QED
      BY <3>1, <3>5
  <2>4. QED
    BY <2>1, <2>2, <2>3 DEF Lose, Sessions
<1>4. QED
  BY <1>1, <1>2, <1>3, EndsKeepsInv

-----------------------------------------------------------------------------
(***************************************************************************)
(* The blocks of the main queue.                                           *)
(***************************************************************************)
LEMMA MainStepKeepsInv ==
  ASSUME UploadInv, mainQ # <<>>,
         UNCHANGED <<isPaused, userStopped, storagePc, serverVars, ops, faults,
                     fatal>>,
         mainQ' \in Seq(Blocks), BlocksOK',
         net' \subseteq Requests, NetOK', InitialOnce',
         location' \in BOOLEAN, outcome' \in {"none", "succeeded", "failed"},
         currentOffset' \in Nat, Aligned(currentOffset'),
         shouldInitiateOffsetQuery' \in BOOLEAN, chunkFetcher' \in Nat
  PROVE  UploadInv'
<1>1. FetcherTypeOK /\ ContentOK /\ NothingBefore
  BY DEF UploadInv
<1>2. FetcherTypeOK'
  BY <1>1 DEF FetcherTypeOK, serverVars, Blocks, Steps
<1>3. ContentOK'
  BY <1>1 DEF ContentOK, ContentIsPrefix, serverVars
<1>4. NothingBefore'
  BY <1>1 DEF NothingBefore
<1>5. Aligned(currentOffset)'
  BY DEF Aligned, RoundDown
<1>6. QED
  BY <1>2, <1>3, <1>4, <1>5 DEF UploadInv

LEMMA NetStays ==
  ASSUME UploadInv, UNCHANGED <<net, session>>
  PROVE  net' \subseteq Requests /\ NetOK' /\ InitialOnce'
BY DEF UploadInv, FetcherTypeOK, NetOK, InitialOnce, WellMade, InRange, OutOfRange

LEMMA FinishType ==
  ASSUME FetcherTypeOK, NEW result \in {"succeeded", "failed"},
         NEW invalidate \in BOOLEAN, Finish(result, invalidate)
  PROVE  location' \in BOOLEAN /\ outcome' \in {"none", "succeeded", "failed"}
BY DEF Finish, FetcherTypeOK

\* The block that runs, and the rest of the queue.
LEMMA BlockRuns ==
  ASSUME UploadInv, NEW step, NEW kinds, RunBlock(step, kinds)
  PROVE  /\ mainQ # <<>> /\ session' = session
         /\ UNCHANGED <<isPaused, userStopped, storagePc, serverVars, ops, faults,
                        fatal>>
         /\ Head(mainQ) \in Blocks /\ BlockOK(Head(mainQ), session)
         /\ Head(mainQ).step = step /\ Head(mainQ).req.kind \in kinds
         /\ Rest \in Seq(Blocks)
         /\ \A i \in DOMAIN Rest : BlockOK(Rest[i], session)
BY RestOK DEF RunBlock, UploadInv, serverVars

LEMMA RunInitialKeepsInv ==
  ASSUME UploadInv, RunInitial
  PROVE  UploadInv'
<1> DEFINE first == [Chunk(0) EXCEPT !.to = TRUE]
           more  == <<Block("begin", first, NoResult)>>
<1>1. /\ mainQ # <<>> /\ session' = session
      /\ UNCHANGED <<isPaused, userStopped, storagePc, serverVars, ops, faults,
                     fatal>>
      /\ Rest \in Seq(Blocks) /\ \A i \in DOMAIN Rest : BlockOK(Rest[i], session)
  BY BlockRuns DEF RunInitial
<1>2. FetcherTypeOK /\ NetOK /\ Aligned(currentOffset)
  BY DEF UploadInv
<1>3. first \in Requests /\ WellMade(first)
  <2>1. Chunk(0) \in Requests /\ WellMade(Chunk(0))
    BY <1>2, ZeroIsAligned, MadeChunk DEF NetOK
  <2>2. QED
    BY <2>1 DEF Requests, WellMade
<1>4. more \in Seq(Blocks) /\ \A i \in DOMAIN more : BlockOK(more[i], session)
  <2> HIDE DEF first
  <2>1. QED
    BY <1>3, BeginBlockOK
<1>5. mainQ' = Rest \/ mainQ' = Rest \o more
  BY DEF RunInitial
<1> HIDE DEF more
<1>6. mainQ' \in Seq(Blocks) /\ BlocksOK'
  BY <1>1, <1>4, <1>5, MoreBlocks, QueueIsOK
<1>7. net' \subseteq Requests /\ NetOK' /\ InitialOnce'
  BY <1>1, NetStays DEF RunInitial
<1>8. location' \in BOOLEAN /\ outcome' \in {"none", "succeeded", "failed"}
  BY <1>2, FinishType DEF RunInitial, FetcherTypeOK
<1>9. /\ UNCHANGED <<currentOffset, shouldInitiateOffsetQuery, chunkFetcher>>
      /\ currentOffset \in Nat /\ shouldInitiateOffsetQuery \in BOOLEAN
      /\ chunkFetcher \in Nat
  BY <1>2 DEF RunInitial, FetcherTypeOK
<1>10. QED
  BY <1>1, <1>2, <1>6, <1>7, <1>8, <1>9, MainStepKeepsInv

LEMMA RunBeginKeepsInv ==
  ASSUME UploadInv, RunBegin
  PROVE  UploadInv'
<1> DEFINE r == Head(mainQ).req
<1>1. /\ mainQ # <<>> /\ session' = session
      /\ UNCHANGED <<isPaused, userStopped, storagePc, serverVars, ops, faults,
                     fatal>>
      /\ Head(mainQ) \in Blocks /\ BlockOK(Head(mainQ), session) /\ r.kind = "chunk"
      /\ Rest \in Seq(Blocks) /\ \A i \in DOMAIN Rest : BlockOK(Rest[i], session)
  BY BlockRuns DEF RunBegin
<1>2. FetcherTypeOK /\ NetOK /\ InitialOnce /\ Aligned(currentOffset)
  BY DEF UploadInv
<1>3. r \in Requests /\ WellMade(r)
  BY <1>1 DEF Blocks, BlockOK
<1>4. mainQ' \in Seq(Blocks) /\ BlocksOK'
  BY <1>1, QueueIsOK DEF RunBegin
<1>5. shouldInitiateOffsetQuery' \in BOOLEAN
  BY <1>2 DEF RunBegin, FetcherTypeOK
<1>6. CASE OutOfRange(r)
  <2>1. Finish("failed", TRUE) /\ UNCHANGED <<currentOffset, chunkFetcher, net>>
    BY <1>6 DEF RunBegin
  <2>2. location' \in BOOLEAN /\ outcome' \in {"none", "succeeded", "failed"}
    BY <1>2, <2>1, FinishType
  <2>3. net' \subseteq Requests /\ NetOK' /\ InitialOnce'
    BY <1>1, <2>1, NetStays
  <2>4. currentOffset' \in Nat /\ chunkFetcher' \in Nat /\ Aligned(currentOffset')
    BY <1>2, <2>1 DEF FetcherTypeOK
  <2>5. QED
    BY <1>1, <1>4, <1>5, <2>2, <2>3, <2>4, MainStepKeepsInv
<1>7. CASE ~OutOfRange(r)
  <2>1. /\ currentOffset' = r.from /\ chunkFetcher' = r.id /\ net' = net \cup {r}
        /\ UNCHANGED <<outcome, location>>
    BY <1>7 DEF RunBegin
  <2>2. location' \in BOOLEAN /\ outcome' \in {"none", "succeeded", "failed"}
    BY <1>2, <2>1 DEF FetcherTypeOK
  <2>3. net' \subseteq Requests /\ NetOK' /\ InitialOnce'
    <3>1. IsFiniteSet(net')
      BY <1>2, <2>1, FS_AddElement DEF NetOK
    <3> HIDE DEF r
    <3>2. \A x \in net' : WellMade(x) /\ InRange(x)
      BY <1>2, <1>3, <1>7, <2>1 DEF NetOK, InRange
    <3>3. NetOK'
      BY <3>1, <3>2 DEF NetOK, WellMade, InRange, OutOfRange
    <3>4. InitialOnce'
      BY <1>1, <1>2, <2>1 DEF InitialOnce
    <3>5. QED
      BY <1>2, <1>3, <2>1, <3>3, <3>4 DEF FetcherTypeOK
  <2>4. currentOffset' \in Nat /\ chunkFetcher' \in Nat /\ Aligned(currentOffset')
    BY <1>1, <1>3, <2>1 DEF WellMade, Requests
  <2>5. QED
    BY <1>1, <1>4, <1>5, <2>2, <2>3, <2>4, MainStepKeepsInv
<1>8. QED
  BY <1>6, <1>7

LEMMA RunRetryKeepsInv ==
  ASSUME UploadInv, RunRetry
  PROVE  UploadInv'
<1> DEFINE b == Head(mainQ)
           d == [b EXCEPT !.step = "done"]
<1>1. /\ mainQ # <<>> /\ session' = session
      /\ UNCHANGED <<isPaused, userStopped, storagePc, serverVars, ops, faults,
                     fatal>>
      /\ b \in Blocks /\ BlockOK(b, session) /\ b.step = "retry"
      /\ Rest \in Seq(Blocks) /\ \A i \in DOMAIN Rest : BlockOK(Rest[i], session)
  BY BlockRuns DEF RunRetry
<1>2. FetcherTypeOK /\ Aligned(currentOffset)
  BY DEF UploadInv
<1>3. d \in Blocks /\ BlockOK(d, session)
  <2> HIDE DEF b
  <2>1. /\ d \in Blocks /\ d.req = b.req /\ d.result = b.result
    BY <1>1 DEF Blocks, Steps
  <2> HIDE DEF d
  <2>2. QED
    BY <1>1, <2>1 DEF BlockOK
<1>4. mainQ' \in Seq(Blocks) /\ BlocksOK'
  <2>1. <<d>> \in Seq(Blocks) /\ \A i \in DOMAIN <<d>> : BlockOK(<<d>>[i], session)
    <3> HIDE DEF d
    <3>1. QED
      BY <1>3, FewBlocks
  <2>2. mainQ' = Rest \o <<d>>
    <3>1. mainQ' = Append(Rest, d)
      BY DEF RunRetry
    <3> HIDE DEF d
    <3>2. QED
      BY <1>1, <1>3, <3>1, AppendIsConcat
  <2> HIDE DEF d
  <2>3. QED
    BY <1>1, <2>1, <2>2, MoreBlocks, QueueIsOK
<1>5. /\ currentOffset' \in Nat /\ Aligned(currentOffset')
      /\ shouldInitiateOffsetQuery' \in BOOLEAN
  <2>1. CASE b.result.is = "lost"
    <3>1. currentOffset' = 0 /\ shouldInitiateOffsetQuery' \in BOOLEAN
      BY <2>1 DEF RunRetry
    <3>2. QED
      BY <3>1, ZeroIsAligned
  <2>2. CASE b.result.is # "lost"
    <3>1. UNCHANGED <<shouldInitiateOffsetQuery, currentOffset>>
      BY <2>2 DEF RunRetry
    <3>2. QED
      BY <1>2, <3>1 DEF FetcherTypeOK
  <2>3. QED
    BY <2>1, <2>2
<1>6. net' \subseteq Requests /\ NetOK' /\ InitialOnce'
  BY <1>1, NetStays DEF RunRetry
<1>7. /\ location' \in BOOLEAN /\ outcome' \in {"none", "succeeded", "failed"}
      /\ chunkFetcher' \in Nat
  BY <1>2 DEF RunRetry, FetcherTypeOK
<1>8. QED
  BY <1>1, <1>4, <1>5, <1>6, <1>7, MainStepKeepsInv

\* An error, of a chunk or of a query.
LEMMA FailedKeepsInv ==
  ASSUME UploadInv, NEW step, NEW kinds, RunBlock(step, kinds),
         NEW r, NEW why, Failed(r, why)
  PROVE  UploadInv'
<1> DEFINE query == {Request("query")}
<1>1. /\ mainQ # <<>> /\ session' = session
      /\ UNCHANGED <<isPaused, userStopped, storagePc, serverVars, ops, faults,
                     fatal>>
      /\ Rest \in Seq(Blocks) /\ \A i \in DOMAIN Rest : BlockOK(Rest[i], session)
  BY BlockRuns
<1>2. FetcherTypeOK /\ NetOK /\ Aligned(currentOffset)
  BY DEF UploadInv
<1>3. /\ query \subseteq Requests /\ IsFiniteSet(query)
      /\ \A x \in query : x.kind \in {"query", "cancel"}
      /\ {} \subseteq Requests /\ IsFiniteSet({})
      /\ \A x \in {} : x.kind \in {"query", "cancel"}
  BY <1>2, QuerySent
<1>4. <<>> \in Seq(Blocks) /\ \A i \in DOMAIN <<>> : BlockOK(<<>>[i], session)
  BY NoBlocks
<1>5. PICK sent : /\ DestroyChunk(Rest, <<>>, sent) /\ sent \subseteq Requests
                  /\ IsFiniteSet(sent)
                  /\ \A x \in sent : x.kind \in {"query", "cancel"}
  <2>1. DestroyChunk(Rest, <<>>, query) \/ DestroyChunk(Rest, <<>>, {})
    BY DEF Failed
  <2> HIDE DEF query
  <2>2. QED
    BY <1>3, <2>1
<1>6. /\ chunkFetcher' \in Nat /\ mainQ' \in Seq(Blocks) /\ BlocksOK'
      /\ net' \subseteq Requests /\ NetOK' /\ InitialOnce'
  BY <1>1, <1>4, <1>5, DestroyKeeps
<1>7. /\ location' \in BOOLEAN /\ outcome' \in {"none", "succeeded", "failed"}
      /\ shouldInitiateOffsetQuery' \in BOOLEAN /\ currentOffset' = currentOffset
  BY <1>2, FinishType DEF Failed, FetcherTypeOK
<1>8. currentOffset' \in Nat /\ Aligned(currentOffset')
  BY <1>2, <1>7 DEF FetcherTypeOK
<1>9. QED
  BY <1>1, <1>6, <1>7, <1>8, MainStepKeepsInv

\* An answer: the end of the upload, or the chunk that follows.
LEMMA SucceededKeepsInv ==
  ASSUME UploadInv, NEW step, NEW kinds, RunBlock(step, kinds),
         NEW len \in Nat, NEW status, Succeeded(len, status),
         status \in {"final", "cancelled"} \/ Aligned(len)
  PROVE  UploadInv'
<1>1. /\ mainQ # <<>> /\ session' = session
      /\ UNCHANGED <<isPaused, userStopped, storagePc, serverVars, ops, faults,
                     fatal>>
      /\ Rest \in Seq(Blocks) /\ \A i \in DOMAIN Rest : BlockOK(Rest[i], session)
  BY BlockRuns
<1>2. FetcherTypeOK /\ NetOK /\ Aligned(currentOffset) /\ currentOffset \in Nat
  BY DEF UploadInv, FetcherTypeOK
<1>3. shouldInitiateOffsetQuery' \in BOOLEAN
  BY <1>2 DEF Succeeded, FetcherTypeOK
<1>4. CASE status \in {"final", "cancelled"}
  <2>1. /\ Finish("succeeded", TRUE) \/ Finish("failed", TRUE)
        /\ DestroyChunk(Rest, <<>>, {}) /\ UNCHANGED currentOffset
    BY <1>4 DEF Succeeded
  <2>2. /\ <<>> \in Seq(Blocks) /\ \A i \in DOMAIN <<>> : BlockOK(<<>>[i], session)
        /\ {} \subseteq Requests /\ IsFiniteSet({})
        /\ \A x \in {} : x.kind \in {"query", "cancel"}
    BY NoBlocks, FS_EmptySet
  <2>3. /\ chunkFetcher' \in Nat /\ mainQ' \in Seq(Blocks) /\ BlocksOK'
        /\ net' \subseteq Requests /\ NetOK' /\ InitialOnce'
    BY <1>1, <2>1, <2>2, DestroyKeeps
  <2>4. location' \in BOOLEAN /\ outcome' \in {"none", "succeeded", "failed"}
    BY <1>2, <2>1, FinishType
  <2>5. currentOffset' \in Nat /\ Aligned(currentOffset')
    BY <1>2, <2>1
  <2>6. QED
    BY <1>1, <1>3, <2>3, <2>4, <2>5, MainStepKeepsInv
<1>5. CASE status \notin {"final", "cancelled"}
  <2> DEFINE offset == currentOffset + len
  <2>1. /\ currentOffset' = offset /\ DestroyChunk(Rest, NextChunk(offset), {})
        /\ UNCHANGED <<outcome, location>>
    BY <1>5 DEF Succeeded
  <2>2. offset \in Nat /\ Aligned(offset)
    BY <1>2, <1>5, AlignedSum
  <2> HIDE DEF offset
  <2>3. /\ NextChunk(offset) \in Seq(Blocks)
        /\ \A i \in DOMAIN NextChunk(offset) : BlockOK(NextChunk(offset)[i], session)
        /\ {} \subseteq Requests /\ IsFiniteSet({})
        /\ \A x \in {} : x.kind \in {"query", "cancel"}
    BY <1>2, <2>2, NextChunkOK, FS_EmptySet DEF NetOK
  <2>4. /\ chunkFetcher' \in Nat /\ mainQ' \in Seq(Blocks) /\ BlocksOK'
        /\ net' \subseteq Requests /\ NetOK' /\ InitialOnce'
    BY <1>1, <2>1, <2>3, DestroyKeeps
  <2>5. location' \in BOOLEAN /\ outcome' \in {"none", "succeeded", "failed"}
    BY <1>2, <2>1 DEF FetcherTypeOK
  <2>6. currentOffset' \in Nat /\ Aligned(currentOffset')
    BY <2>1, <2>2
  <2>7. QED
    BY <1>1, <1>3, <2>4, <2>5, <2>6, MainStepKeepsInv
<1>6. QED
  BY <1>4, <1>5

LEMMA RunChunkDoneKeepsInv ==
  ASSUME UploadInv, RunChunkDone
  PROVE  UploadInv'
<1> DEFINE b == Head(mainQ)
<1>1. /\ RunBlock("done", {"chunk"})
      /\ b \in Blocks /\ BlockOK(b, session) /\ b.step = "done" /\ b.req.kind = "chunk"
  BY BlockRuns DEF RunChunkDone
<1>2. CASE b.result.is = "ok"
  <2>1. Succeeded(b.req.len, b.result.session)
    BY <1>2 DEF RunChunkDone
  <2>2. /\ b.req.len \in Nat
        /\ b.result.session \in {"final", "cancelled"} \/ Aligned(b.req.len)
    <3> HIDE DEF b
    <3>1. /\ b.req \in Requests /\ WellMade(b.req) /\ InRange(b.req)
          /\ b.result.session \in {"final", "cancelled"} \/ ~b.req.last
      BY <1>1, <1>2 DEF Blocks, BlockOK
    <3>2. QED
      BY <1>1, <3>1 DEF WellMade, InRange, OutOfRange, Requests
  <2>3. QED
    BY <1>1, <2>1, <2>2, SucceededKeepsInv
<1>3. CASE b.result.is # "ok"
  <2>1. Failed(b.req, b.result.is)
    BY <1>3 DEF RunChunkDone
  <2>2. QED
    BY <1>1, <2>1, FailedKeepsInv
<1>4. QED
  BY <1>2, <1>3

LEMMA RunQueryDoneKeepsInv ==
  ASSUME UploadInv, RunQueryDone
  PROVE  UploadInv'
<1> DEFINE b == Head(mainQ)
<1>1. /\ RunBlock("done", {"query"}) /\ mainQ # <<>> /\ session' = session
      /\ UNCHANGED <<isPaused, userStopped, storagePc, serverVars, ops, faults,
                     fatal>>
      /\ b \in Blocks /\ BlockOK(b, session)
      /\ Rest \in Seq(Blocks) /\ \A i \in DOMAIN Rest : BlockOK(Rest[i], session)
  BY BlockRuns DEF RunQueryDone
<1>2. FetcherTypeOK /\ NetOK /\ Aligned(currentOffset)
  BY DEF UploadInv
<1>3. CASE b.result.is # "ok" \/ b.result.session = "cancelled"
  <2>1. Failed(b.req, "query")
    BY <1>3 DEF RunQueryDone
  <2>2. QED
    BY <1>1, <2>1, FailedKeepsInv
<1>4. CASE /\ ~(b.result.is # "ok" \/ b.result.session = "cancelled")
           /\ b.result.session = "final" \/ b.result.size >= Length
  <2>1. Succeeded(0, b.result.session)
    BY <1>4 DEF RunQueryDone
  <2>2. QED
    BY <1>1, <2>1, ZeroIsAligned, SucceededKeepsInv
<1>5. CASE /\ ~(b.result.is # "ok" \/ b.result.session = "cancelled")
           /\ ~(b.result.session = "final" \/ b.result.size >= Length)
  <2> DEFINE size == b.result.size
  <2>1. /\ mainQ' = Rest \o NextChunk(size)
        /\ UNCHANGED <<location, outcome, currentOffset, shouldInitiateOffsetQuery,
                       chunkFetcher, net>>
    BY <1>5 DEF RunQueryDone
  <2>2. size \in Nat /\ Aligned(size)
    <3> HIDE DEF b
    <3>1. QED
      BY <1>1, <1>5 DEF Blocks, BlockOK, Results
  <2> HIDE DEF size
  <2>3. /\ NextChunk(size) \in Seq(Blocks)
        /\ \A i \in DOMAIN NextChunk(size) : BlockOK(NextChunk(size)[i], session)
    BY <1>2, <2>2, NextChunkOK DEF NetOK
  <2>4. mainQ' \in Seq(Blocks) /\ BlocksOK'
    BY <1>1, <2>1, <2>3, MoreBlocks, QueueIsOK
  <2>5. net' \subseteq Requests /\ NetOK' /\ InitialOnce'
    BY <1>1, <2>1, NetStays
  <2>6. /\ location' \in BOOLEAN /\ outcome' \in {"none", "succeeded", "failed"}
        /\ currentOffset' \in Nat /\ Aligned(currentOffset')
        /\ shouldInitiateOffsetQuery' \in BOOLEAN /\ chunkFetcher' \in Nat
    BY <1>2, <2>1 DEF FetcherTypeOK
  <2>7. QED
    BY <1>1, <2>4, <2>5, <2>6, MainStepKeepsInv
<1>6. QED
  BY <1>3, <1>4, <1>5

LEMMA RunDroppedKeepsInv ==
  ASSUME UploadInv, RunDropped
  PROVE  UploadInv'
<1>1. /\ mainQ # <<>> /\ mainQ' = Rest /\ session' = session
      /\ UNCHANGED <<isPaused, userStopped, storagePc, serverVars, ops, faults,
                     fatal, net>>
      /\ UNCHANGED <<location, outcome, currentOffset, shouldInitiateOffsetQuery,
                     chunkFetcher>>
  BY DEF RunDropped, clientVars, serverVars
<1>2. FetcherTypeOK /\ BlocksOK /\ Aligned(currentOffset)
  BY DEF UploadInv
<1>3. Rest \in Seq(Blocks) /\ \A i \in DOMAIN Rest : BlockOK(Rest[i], session)
  BY <1>1, <1>2, RestOK
<1>4. mainQ' \in Seq(Blocks) /\ BlocksOK'
  BY <1>1, <1>3, QueueIsOK
<1>5. net' \subseteq Requests /\ NetOK' /\ InitialOnce'
  BY <1>1, NetStays
<1>6. /\ location' \in BOOLEAN /\ outcome' \in {"none", "succeeded", "failed"}
      /\ currentOffset' \in Nat /\ Aligned(currentOffset')
      /\ shouldInitiateOffsetQuery' \in BOOLEAN /\ chunkFetcher' \in Nat
  BY <1>1, <1>2 DEF FetcherTypeOK
<1>7. QED
  BY <1>1, <1>4, <1>5, <1>6, MainStepKeepsInv

-----------------------------------------------------------------------------
(***************************************************************************)
(* The calls of the owner.                                                 *)
(***************************************************************************)
LEMMA OwnerStepKeepsInv ==
  ASSUME UploadInv,
         UNCHANGED <<outcome, currentOffset, shouldInitiateOffsetQuery, serverVars,
                     faults, fatal>>,
         storagePc' \in {"idle", "pause", "resume", "stop chunk", "stop base"},
         mainQ' \in Seq(Blocks), BlocksOK',
         net' \subseteq Requests, NetOK', InitialOnce',
         location' \in BOOLEAN, isPaused' \in BOOLEAN, userStopped' \in BOOLEAN,
         chunkFetcher' \in Nat, ops' \in 0..MaxOps
  PROVE  UploadInv'
<1>1. FetcherTypeOK /\ ContentOK /\ Aligned(currentOffset)
  BY DEF UploadInv
<1>2. FetcherTypeOK'
  BY <1>1 DEF FetcherTypeOK, serverVars, Blocks, Steps
<1>3. ContentOK'
  BY <1>1 DEF ContentOK, ContentIsPrefix, serverVars
<1>4. NothingBefore'
  BY DEF NothingBefore
<1>5. Aligned(currentOffset)'
  BY <1>1 DEF Aligned, RoundDown
<1>6. QED
  BY <1>2, <1>3, <1>4, <1>5 DEF UploadInv

LEMMA QueueStays ==
  ASSUME UploadInv, UNCHANGED <<mainQ, session>>
  PROVE  mainQ' \in Seq(Blocks) /\ BlocksOK'
BY DEF UploadInv, FetcherTypeOK, BlocksOK, Blocks, Steps

\* The owner begins a call, or goes on with it.
LEMMA CallType ==
  ASSUME FetcherTypeOK, NEW op, NEW next, Call(op, next)
  PROVE  /\ ops' \in 0..MaxOps /\ storagePc' = next
         /\ UNCHANGED <<outcome, currentOffset, shouldInitiateOffsetQuery,
                        serverVars, faults, fatal, session>>
         /\ location' \in BOOLEAN /\ userStopped' \in BOOLEAN
<1>1. MaxOps \in Nat /\ ops \in 0..MaxOps
  BY FaultsAssumption DEF FetcherTypeOK
<1>2. ops' = ops + 1 /\ ops < MaxOps
  BY DEF Call
<1>3. ops' \in 0..MaxOps
  BY <1>1, <1>2
<1>4. QED
  BY <1>3 DEF Call, FetcherTypeOK, serverVars

LEMMA ContinueType ==
  ASSUME FetcherTypeOK, NEW step, NEW next, Continue(step, next)
  PROVE  /\ ops' \in 0..MaxOps /\ storagePc' = next
         /\ UNCHANGED <<outcome, currentOffset, shouldInitiateOffsetQuery,
                        serverVars, faults, fatal, session>>
         /\ isPaused' \in BOOLEAN
BY DEF Continue, FetcherTypeOK, serverVars

\* destroyChunkFetcher on the queue of the owner.
LEMMA DestroyByOwner ==
  ASSUME UploadInv, session' = session, DestroyChunk(mainQ, <<>>, {})
  PROVE  /\ chunkFetcher' \in Nat /\ mainQ' \in Seq(Blocks) /\ BlocksOK'
         /\ net' \subseteq Requests /\ NetOK' /\ InitialOnce'
<1>1. mainQ \in Seq(Blocks) /\ \A i \in DOMAIN mainQ : BlockOK(mainQ[i], session)
  BY DEF UploadInv, FetcherTypeOK, BlocksOK, Blocks, Steps
<1>2. /\ <<>> \in Seq(Blocks) /\ \A i \in DOMAIN <<>> : BlockOK(<<>>[i], session)
      /\ {} \subseteq Requests /\ IsFiniteSet({})
      /\ \A x \in {} : x.kind \in {"query", "cancel"}
  BY NoBlocks, FS_EmptySet
<1>3. QED
  BY <1>1, <1>2, DestroyKeeps

\* A query or the cancellation joins what is under way.
LEMMA OneMoreRequest ==
  ASSUME UploadInv, session' = session, NEW r \in Requests,
         r.kind \in {"query", "cancel"}, net' = net \cup {r}
  PROVE  net' \subseteq Requests /\ NetOK' /\ InitialOnce'
<1>1. net \subseteq Requests /\ NetOK /\ InitialOnce
  BY DEF UploadInv, FetcherTypeOK
<1>2. IsFiniteSet(net')
  BY <1>1, FS_AddElement DEF NetOK
<1>3. \A x \in net' : WellMade(x) /\ InRange(x)
  BY <1>1 DEF NetOK, WellMade, InRange
<1>4. QED
  BY <1>1, <1>2, <1>3 DEF NetOK, InitialOnce, WellMade, InRange, OutOfRange

LEMMA BeginFetchKeepsInv ==
  ASSUME UploadInv, BeginFetch
  PROVE  UploadInv'
<1> DEFINE r == [Request("initial") EXCEPT !.to = TRUE]
<1>1. FetcherTypeOK /\ NetOK /\ NothingBefore /\ storagePc = "new"
  BY DEF UploadInv, BeginFetch
<1>2. /\ session' = session /\ session = "none" /\ storagePc' = "idle"
      /\ UNCHANGED <<location, isPaused, userStopped, outcome, currentOffset,
                     shouldInitiateOffsetQuery, chunkFetcher, mainQ, serverVars,
                     ops, faults, fatal>>
  BY <1>1 DEF BeginFetch, NothingBefore, serverVars
<1>3. r \in Requests /\ r.kind = "initial"
  <2>1. Request("initial") \in Requests /\ Request("initial").kind = "initial"
    BY <1>1, MadeRequest DEF NetOK, Kinds
  <2>2. QED
    BY <2>1 DEF Requests
<1>4. net' = {r}
  BY DEF BeginFetch
<1> HIDE DEF r
<1>5. net' \subseteq Requests /\ NetOK' /\ InitialOnce'
  <2>1. IsFiniteSet({r})
    BY FS_Singleton
  <2>2. QED
    BY <1>2, <1>3, <1>4, <2>1 DEF NetOK, InitialOnce, WellMade, InRange, OutOfRange
<1>6. mainQ' \in Seq(Blocks) /\ BlocksOK'
  BY <1>2, QueueStays
<1>7. /\ location' \in BOOLEAN /\ isPaused' \in BOOLEAN /\ userStopped' \in BOOLEAN
      /\ chunkFetcher' \in Nat /\ ops' \in 0..MaxOps
  BY <1>1, <1>2 DEF FetcherTypeOK
<1>8. QED
  BY <1>2, <1>5, <1>6, <1>7, OwnerStepKeepsInv

LEMMA PauseKeepsInv ==
  ASSUME UploadInv, PauseFetching
  PROVE  UploadInv'
<1>1. FetcherTypeOK
  BY DEF UploadInv
<1>2. CASE /\ Call("pause", "pause") /\ isPaused' = TRUE
           /\ UNCHANGED <<chunkFetcher, mainQ, net>>
  <2>1. /\ ops' \in 0..MaxOps /\ storagePc' = "pause"
        /\ UNCHANGED <<outcome, currentOffset, shouldInitiateOffsetQuery,
                       serverVars, faults, fatal, session>>
        /\ location' \in BOOLEAN /\ userStopped' \in BOOLEAN
    BY <1>1, <1>2, CallType
  <2>2. /\ mainQ' \in Seq(Blocks) /\ BlocksOK'
        /\ net' \subseteq Requests /\ NetOK' /\ InitialOnce'
    BY <1>2, <2>1, QueueStays, NetStays
  <2>3. isPaused' \in BOOLEAN /\ chunkFetcher' \in Nat
    BY <1>1, <1>2 DEF FetcherTypeOK
  <2>4. QED
    BY <2>1, <2>2, <2>3, OwnerStepKeepsInv
<1>3. CASE /\ Continue("pause", "idle") /\ DestroyChunk(mainQ, <<>>, {})
           /\ UNCHANGED <<userStopped, location>>
  <2>1. /\ ops' \in 0..MaxOps /\ storagePc' = "idle"
        /\ UNCHANGED <<outcome, currentOffset, shouldInitiateOffsetQuery,
                       serverVars, faults, fatal, session>>
        /\ isPaused' \in BOOLEAN
    BY <1>1, <1>3, ContinueType
  <2>2. /\ chunkFetcher' \in Nat /\ mainQ' \in Seq(Blocks) /\ BlocksOK'
        /\ net' \subseteq Requests /\ NetOK' /\ InitialOnce'
    BY <1>3, <2>1, DestroyByOwner
  <2>3. location' \in BOOLEAN /\ userStopped' \in BOOLEAN
    BY <1>1, <1>3 DEF FetcherTypeOK
  <2>4. QED
    BY <2>1, <2>2, <2>3, OwnerStepKeepsInv
<1>4. QED
  BY <1>2, <1>3 DEF PauseFetching

LEMMA ResumeKeepsInv ==
  ASSUME UploadInv, ResumeFetching
  PROVE  UploadInv'
<1>1. FetcherTypeOK /\ NetOK
  BY DEF UploadInv
<1>2. CASE /\ Call("resume", IF isPaused THEN "resume" ELSE "idle")
           /\ isPaused' = FALSE /\ UNCHANGED <<chunkFetcher, mainQ, net>>
  <2> DEFINE next == IF isPaused THEN "resume" ELSE "idle"
  <2>1. next \in {"resume", "idle"} /\ Call("resume", next)
    BY <1>2
  <2> HIDE DEF next
  <2>2. /\ ops' \in 0..MaxOps /\ storagePc' = next
        /\ UNCHANGED <<outcome, currentOffset, shouldInitiateOffsetQuery,
                       serverVars, faults, fatal, session>>
        /\ location' \in BOOLEAN /\ userStopped' \in BOOLEAN
    BY <1>1, <2>1, CallType
  <2>3. /\ mainQ' \in Seq(Blocks) /\ BlocksOK'
        /\ net' \subseteq Requests /\ NetOK' /\ InitialOnce'
    BY <1>2, <2>2, QueueStays, NetStays
  <2>4. isPaused' \in BOOLEAN /\ chunkFetcher' \in Nat
    BY <1>1, <1>2 DEF FetcherTypeOK
  <2>5. QED
    BY <2>1, <2>2, <2>3, <2>4, OwnerStepKeepsInv
<1>3. CASE /\ Continue("resume", "idle") /\ net' = net \cup {Request("query")}
           /\ UNCHANGED <<userStopped, location, chunkFetcher, mainQ>>
  <2>1. /\ ops' \in 0..MaxOps /\ storagePc' = "idle"
        /\ UNCHANGED <<outcome, currentOffset, shouldInitiateOffsetQuery,
                       serverVars, faults, fatal, session>>
        /\ isPaused' \in BOOLEAN
    BY <1>1, <1>3, ContinueType
  <2>2. Request("query") \in Requests /\ Request("query").kind = "query"
    BY <1>1, MadeRequest DEF Kinds, NetOK
  <2>3. net' \subseteq Requests /\ NetOK' /\ InitialOnce'
    BY <1>3, <2>1, <2>2, OneMoreRequest
  <2>4. mainQ' \in Seq(Blocks) /\ BlocksOK'
    BY <1>3, <2>1, QueueStays
  <2>5. location' \in BOOLEAN /\ userStopped' \in BOOLEAN /\ chunkFetcher' \in Nat
    BY <1>1, <1>3 DEF FetcherTypeOK
  <2>6. QED
    BY <2>1, <2>3, <2>4, <2>5, OwnerStepKeepsInv
<1>4. QED
  BY <1>2, <1>3 DEF ResumeFetching

LEMMA StopKeepsInv ==
  ASSUME UploadInv, StopFetching
  PROVE  UploadInv'
<1>1. FetcherTypeOK /\ NetOK /\ InitialOnce
  BY DEF UploadInv
<1>2. CASE /\ Call("stop", "stop chunk") /\ DestroyChunk(mainQ, <<>>, {})
           /\ UNCHANGED isPaused
  <2>1. /\ ops' \in 0..MaxOps /\ storagePc' = "stop chunk"
        /\ UNCHANGED <<outcome, currentOffset, shouldInitiateOffsetQuery,
                       serverVars, faults, fatal, session>>
        /\ location' \in BOOLEAN /\ userStopped' \in BOOLEAN
    BY <1>1, <1>2, CallType
  <2>2. /\ chunkFetcher' \in Nat /\ mainQ' \in Seq(Blocks) /\ BlocksOK'
        /\ net' \subseteq Requests /\ NetOK' /\ InitialOnce'
    BY <1>2, <2>1, DestroyByOwner
  <2>3. isPaused' \in BOOLEAN
    BY <1>1, <1>2 DEF FetcherTypeOK
  <2>4. QED
    BY <2>1, <2>2, <2>3, OwnerStepKeepsInv
<1> DEFINE cancel == [Request("cancel") EXCEPT !.heard = FALSE]
           Drop(r) == IF r.kind = "initial" THEN [r EXCEPT !.heard = FALSE] ELSE r
<1>3. CASE /\ Continue("stop chunk", "stop base")
           /\ net' = IF location THEN net \cup {cancel} ELSE net
           /\ location' = FALSE
           /\ UNCHANGED <<userStopped, chunkFetcher, mainQ>>
  <2>1. /\ ops' \in 0..MaxOps /\ storagePc' = "stop base"
        /\ UNCHANGED <<outcome, currentOffset, shouldInitiateOffsetQuery,
                       serverVars, faults, fatal, session>>
        /\ isPaused' \in BOOLEAN
    BY <1>1, <1>3, ContinueType
  <2>2. cancel \in Requests /\ cancel.kind = "cancel"
    <3>1. Request("cancel") \in Requests /\ Request("cancel").kind = "cancel"
      BY <1>1, MadeRequest DEF Kinds, NetOK
    <3>2. QED
      BY <3>1 DEF Requests
  <2>3. net' = net \/ net' = net \cup {cancel}
    BY <1>3
  <2> HIDE DEF cancel
  <2>4. net' \subseteq Requests /\ NetOK' /\ InitialOnce'
    BY <2>1, <2>2, <2>3, OneMoreRequest, NetStays
  <2>5. mainQ' \in Seq(Blocks) /\ BlocksOK'
    BY <1>3, <2>1, QueueStays
  <2>6. location' \in BOOLEAN /\ userStopped' \in BOOLEAN /\ chunkFetcher' \in Nat
    BY <1>1, <1>3 DEF FetcherTypeOK
  <2>7. QED
    BY <2>1, <2>4, <2>5, <2>6, OwnerStepKeepsInv
<1>4. CASE /\ Continue("stop base", "idle") /\ userStopped' = TRUE
           /\ net' = {Drop(r) : r \in net}
           /\ UNCHANGED <<location, chunkFetcher, mainQ>>
  <2>1. /\ ops' \in 0..MaxOps /\ storagePc' = "idle"
        /\ UNCHANGED <<outcome, currentOffset, shouldInitiateOffsetQuery,
                       serverVars, faults, fatal, session>>
        /\ isPaused' \in BOOLEAN
    BY <1>1, <1>4, ContinueType
  <2>2. ASSUME NEW r \in net
        PROVE  /\ Drop(r) \in Requests /\ Drop(r).kind = r.kind
               /\ WellMade(Drop(r)) /\ InRange(Drop(r))
    <3>1. r \in Requests /\ WellMade(r) /\ InRange(r)
      BY <1>1 DEF FetcherTypeOK, NetOK
    <3>2. CASE r.kind = "initial"
      BY <3>1, <3>2 DEF Requests, WellMade, InRange
    <3>3. CASE r.kind # "initial"
      BY <3>1, <3>3
    <3>4. QED
      BY <3>2, <3>3
  <2>3. IsFiniteSet(net')
    <3> DEFINE f == [r \in net |-> Drop(r)]
    <3>1. f \in Surjection(net, net')
      BY <1>4 DEF Surjection
    <3> HIDE DEF f
    <3>2. QED
      BY <1>1, <3>1, FS_Surjection DEF NetOK
  <2> HIDE DEF Drop
  <2>4. \A x \in net' : x \in Requests /\ WellMade(x) /\ InRange(x)
    BY <1>4, <2>2
  <2>5. InitialOnce'
    <3> SUFFICES ASSUME NEW x \in net', x.kind = "initial"
                 PROVE  /\ session' = "none"
                        /\ \A y \in net' : y.kind = "initial" => y = x
      BY DEF InitialOnce
    <3>1. PICK r \in net : x = Drop(r) /\ r.kind = "initial"
      BY <1>4, <2>2
    <3>2. session = "none" /\ \A s \in net : s.kind = "initial" => s = r
      BY <1>1, <3>1 DEF InitialOnce
    <3>3. ASSUME NEW y \in net', y.kind = "initial"
          PROVE  y = x
      <4>1. PICK s \in net : y = Drop(s) /\ s.kind = "initial"
        BY <1>4, <2>2, <3>3
      <4>2. QED
        BY <3>1, <3>2, <4>1
    <3>4. QED
      BY <2>1, <3>2, <3>3
  <2>6. net' \subseteq Requests /\ NetOK'
    BY <2>3, <2>4 DEF NetOK, WellMade, InRange, OutOfRange
  <2>7. mainQ' \in Seq(Blocks) /\ BlocksOK'
    BY <1>4, <2>1, QueueStays
  <2>8. location' \in BOOLEAN /\ userStopped' \in BOOLEAN /\ chunkFetcher' \in Nat
    BY <1>1, <1>4 DEF FetcherTypeOK
  <2>9. QED
    BY <2>1, <2>5, <2>6, <2>7, <2>8, OwnerStepKeepsInv
<1>5. QED
  BY <1>2, <1>3, <1>4 DEF StopFetching

-----------------------------------------------------------------------------
LEMMA InitHoldsInv == Init => UploadInv
<1> SUFFICES ASSUME Init PROVE UploadInv
  OBVIOUS
<1>1. Length \in Nat /\ MaxOps \in Nat /\ MaxFaults \in Nat
  BY LengthAssumption, FaultsAssumption
<1>2. FetcherTypeOK
  <2>1. mainQ \in Seq(Blocks) /\ content \in Seq(1..Length)
    BY DEF Init
  <2>2. ops \in 0..MaxOps /\ faults \in 0..MaxFaults
    BY <1>1 DEF Init
  <2>3. QED
    BY <2>1, <2>2 DEF FetcherTypeOK, Init, NoRequest, Sessions, Blocks, Steps
<1>3. Aligned(currentOffset)
  BY ZeroIsAligned DEF Init
<1>4. NetOK /\ InitialOnce
  BY FS_EmptySet DEF Init, NetOK, InitialOnce
<1>5. BlocksOK
  BY NoBlocks DEF BlocksOK, Init
<1>6. ContentOK
  <2>1. content = <<>> /\ Len(content) = 0 /\ session = "none"
    BY DEF Init
  <2>2. <<>> = [i \in 1..0 |-> i]
    OBVIOUS
  <2>3. QED
    BY <1>1, <2>1, <2>2, ZeroIsAligned DEF ContentOK, ContentIsPrefix
<1>7. NothingBefore
  BY DEF Init, NothingBefore
<1>8. QED
  BY <1>2, <1>3, <1>4, <1>5, <1>6, <1>7 DEF UploadInv

LEMMA NextKeepsInv == UploadInv /\ [Next]_fetcherVars => UploadInv'
<1> SUFFICES ASSUME UploadInv, [Next]_fetcherVars PROVE UploadInv'
  OBVIOUS
<1>1. CASE MainNext
  BY <1>1, RunInitialKeepsInv, RunBeginKeepsInv, RunRetryKeepsInv,
     RunChunkDoneKeepsInv, RunQueryDoneKeepsInv, RunDroppedKeepsInv DEF MainNext
<1>2. CASE StorageNext
  BY <1>2, BeginFetchKeepsInv, PauseKeepsInv, ResumeKeepsInv, StopKeepsInv
  DEF StorageNext
<1>3. CASE Answered
  BY <1>3, ServeKeepsInv, NotServedKeepsInv DEF Answered
<1>4. ASSUME NEW r \in net, Lose(r) \/ Refuse(r) PROVE UploadInv'
  BY <1>4, LoseKeepsInv, NotServedKeepsInv
<1>5. CASE UNCHANGED fetcherVars
  BY <1>5 DEF fetcherVars, UploadInv, FetcherTypeOK, NetOK, BlocksOK, ContentOK,
     ContentIsPrefix, InitialOnce, NothingBefore, Aligned, RoundDown, WellMade,
     InRange, OutOfRange
<1>6. QED
  BY <1>1, <1>2, <1>3, <1>4, <1>5 DEF Next

(***************************************************************************)
(* The inductive invariant holds, whatever is lost, repeated, paused,      *)
(* resumed or stopped.                                                     *)
(***************************************************************************)
THEOREM UploadInvariant == Spec => []UploadInv
<1>1. Init => UploadInv
  BY InitHoldsInv
<1>2. UploadInv /\ [Next]_fetcherVars => UploadInv'
  BY NextKeepsInv
<1>3. QED
  BY <1>1, <1>2, PTL DEF Spec

(***************************************************************************)
(* Every variable has its type: in particular no offset and no identity of *)
(* a request is ever out of its range.                                     *)
(***************************************************************************)
THEOREM UploadTypeCorrect == Spec => []FetcherTypeOK
<1>1. UploadInv => FetcherTypeOK
  BY DEF UploadInv
<1>2. QED
  BY <1>1, UploadInvariant, PTL

(***************************************************************************)
(* What the server has is a beginning of the data, and all of it when the  *)
(* upload is final, whatever chunks were lost, cut short, asked for again  *)
(* or sent by two streams at once.                                         *)
(***************************************************************************)
THEOREM ServerHoldsPrefix == Spec => []ContentIsPrefix
<1>1. UploadInv => ContentIsPrefix
  BY DEF UploadInv, ContentOK
<1>2. QED
  BY <1>1, UploadInvariant, PTL

-----------------------------------------------------------------------------
(***************************************************************************)
(* The fetcher keeps its contract.  The owner's calls are its Begin,       *)
(* Pause, Resume and Stop, the end of the upload is its Answer, the chunk  *)
(* that completes the data its Store; everything else is a stutter.        *)
(***************************************************************************)
LEMMA FinalIsWhole == ASSUME UploadInv, session = "final" PROVE Whole
BY DEF UploadInv, ContentOK, ContentIsPrefix, Whole

LEMMA PhaseStays ==
  ASSUME UNCHANGED <<outcome, isPaused, userStopped, storagePc>>
  PROVE  Phase' = Phase
BY DEF Phase

LEMMA WholeStays ==
  ASSUME UNCHANGED <<session, content>>
  PROVE  Whole' = Whole
BY DEF Whole

\* The upload is given an answer at most when it has none and was not stopped.
LEMMA AnswerStep ==
  ASSUME UploadInv, storagePc # "new",
         UNCHANGED <<isPaused, userStopped, storagePc, session, content>>,
         NEW result \in {"succeeded", "failed"},
         outcome' = outcome \/ (~Released /\ outcome' = result),
         result = "succeeded" => session = "final"
  PROVE  [Contract!Next]_<<Phase, Whole>>
<1>1. Whole' = Whole
  BY WholeStays
<1>2. CASE outcome' = outcome
  BY <1>1, <1>2, PhaseStays
<1>3. CASE ~Released /\ outcome' = result
  <2>1. Phase \in {"fetching", "paused"} /\ Phase' = result
    BY <1>3 DEF Phase, Released
  <2>2. (result = "succeeded") => Whole
    BY FinalIsWhole
  <2> DEFINE ok == result = "succeeded"
  <2>3. ok \in BOOLEAN /\ (ok => Whole) /\ Phase' = IF ok THEN "succeeded" ELSE "failed"
    BY <2>1, <2>2
  <2> HIDE DEF ok
  <2>4. Contract!Answer(ok)
    BY <1>1, <2>1, <2>3 DEF Contract!Answer
  <2>5. QED
    BY <2>3, <2>4 DEF Contract!Next
<1>4. QED
  BY <1>2, <1>3

LEMMA MainStepKeepsContract ==
  ASSUME UploadInv, MainNext
  PROVE  [Contract!Next]_<<Phase, Whole>>
<1>1. mainQ # <<>> /\ UNCHANGED <<isPaused, userStopped, storagePc, session, content>>
  BY DEF MainNext, RunInitial, RunBegin, RunRetry, RunChunkDone, RunQueryDone,
     RunDropped, RunBlock, serverVars, clientVars
<1>2. storagePc # "new"
  BY <1>1 DEF UploadInv, NothingBefore
<1>3. ASSUME outcome' = outcome \/ (~Released /\ outcome' = "failed")
      PROVE  [Contract!Next]_<<Phase, Whole>>
  BY <1>1, <1>2, <1>3, AnswerStep
<1>4. ASSUME outcome' = outcome \/ (~Released /\ outcome' = "succeeded"),
             session = "final"
      PROVE  [Contract!Next]_<<Phase, Whole>>
  BY <1>1, <1>2, <1>4, AnswerStep
<1>5. CASE RunInitial \/ RunBegin \/ RunRetry \/ RunDropped
  BY <1>3, <1>5 DEF RunInitial, RunBegin, RunRetry, RunDropped, Finish, clientVars
<1>6. ASSUME NEW r, NEW why, Failed(r, why)
      PROVE  [Contract!Next]_<<Phase, Whole>>
  BY <1>3, <1>6 DEF Failed, Finish
<1>7. ASSUME NEW len, NEW status, Succeeded(len, status),
             status = "final" => session = "final"
      PROVE  [Contract!Next]_<<Phase, Whole>>
  BY <1>3, <1>4, <1>7 DEF Succeeded, Finish
<1>8. ASSUME NEW step, NEW kinds, RunBlock(step, kinds)
      PROVE  Head(mainQ).result.session = "final" => session = "final"
  BY <1>8, BlockRuns DEF BlockOK
<1>9. CASE RunChunkDone
  BY <1>6, <1>7, <1>8, <1>9 DEF RunChunkDone
<1>10. CASE RunQueryDone
  BY <1>3, <1>6, <1>7, <1>8, <1>10 DEF RunQueryDone
<1>11. QED
  BY <1>5, <1>9, <1>10 DEF MainNext

LEMMA OwnerStepKeepsContract ==
  ASSUME UploadInv, StorageNext
  PROVE  [Contract!Next]_<<Phase, Whole>>
<1>1. /\ storagePc = "new" => ~isPaused /\ ~userStopped /\ outcome = "none"
      /\ isPaused \in BOOLEAN /\ userStopped \in BOOLEAN
      /\ outcome \in {"none", "succeeded", "failed"}
  BY DEF UploadInv, NothingBefore, FetcherTypeOK
<1>2. Whole' = Whole /\ outcome' = outcome
  <2>1. UNCHANGED <<session, content, outcome>>
    BY DEF StorageNext, BeginFetch, PauseFetching, ResumeFetching, StopFetching,
       Call, Continue, serverVars
  <2>2. QED
    BY <2>1, WholeStays
<1>3. CASE BeginFetch
  <2>1. Phase = "none" /\ Phase' = "fetching"
    BY <1>1, <1>3 DEF BeginFetch, Phase
  <2>2. QED
    BY <1>2, <2>1 DEF Contract!Next, Contract!Begin
<1>4. CASE PauseFetching
  <2>1. Phase' = Phase \/ (Phase = "fetching" /\ Phase' = "paused")
    BY <1>1, <1>2, <1>4 DEF PauseFetching, Call, Continue, Phase
  <2>2. QED
    BY <1>2, <2>1 DEF Contract!Next, Contract!Pause
<1>5. CASE ResumeFetching
  <2>1. Phase' = Phase \/ (Phase = "paused" /\ Phase' = "fetching")
    BY <1>1, <1>2, <1>5 DEF ResumeFetching, Call, Continue, Phase
  <2>2. QED
    BY <1>2, <2>1 DEF Contract!Next, Contract!Resume
<1>6. CASE StopFetching
  <2>1. Phase' = Phase \/ (Phase # "none" /\ Phase' = "stopped")
    <3>1. CASE userStopped' = userStopped
      <4>1. storagePc # "new" /\ storagePc' # "new" /\ isPaused' = isPaused
        BY <1>6, <3>1 DEF StopFetching, Call, Continue
      <4>2. QED
        BY <1>2, <3>1, <4>1 DEF Phase
    <3>2. CASE userStopped' # userStopped
      <4>1. /\ storagePc # "new" /\ storagePc' = "idle" /\ userStopped' = TRUE
        BY <1>6, <3>2 DEF StopFetching, Call, Continue
      <4>2. Phase' = "stopped" /\ Phase # "none"
        BY <1>1, <4>1 DEF Phase
      <4>3. QED
        BY <4>2
    <3>3. QED
      BY <3>1, <3>2
  <2>2. QED
    BY <1>2, <2>1 DEF Contract!Next, Contract!Stop
<1>7. QED
  BY <1>3, <1>4, <1>5, <1>6 DEF StorageNext

LEMMA RequestEndKeepsContract ==
  ASSUME UploadInv, UploadInv', NEW r \in net,
         Serve(r) \/ NotSent(r) \/ Lose(r) \/ Refuse(r)
  PROVE  [Contract!Next]_<<Phase, Whole>>
<1>1. UNCHANGED <<outcome, isPaused, userStopped, storagePc>>
  BY DEF Serve, NotSent, Lose, Refuse, Ends, clientVars
<1>2. Phase' = Phase /\ Phase # "none"
  <2>1. storagePc # "new" /\ outcome \in {"none", "succeeded", "failed"}
    BY DEF UploadInv, NothingBefore, FetcherTypeOK
  <2>2. QED
    BY <1>1, <2>1, PhaseStays DEF Phase
<1>3. Whole => Whole'
  <2> SUFFICES ASSUME Whole PROVE Whole'
    OBVIOUS
  <2>1. session = "final" /\ ~Accepted(r) /\ r.kind # "initial"
    BY DEF Whole, Accepted, UploadInv, InitialOnce
  <2>2. Session(r) = session /\ Content(r) = content
    BY <2>1 DEF Session, Content
  <2>3. UNCHANGED <<session, content>>
    BY <2>1, <2>2 DEF Serve, NotSent, Lose, Refuse, serverVars
  <2>4. QED
    BY <2>3, WholeStays
<1>4. Whole \in BOOLEAN /\ Whole' \in BOOLEAN
  BY DEF Whole
<1>5. Whole' = Whole \/ Whole' = TRUE
  BY <1>3, <1>4
<1>6. QED
  BY <1>2, <1>5 DEF Contract!Next, Contract!Store

LEMMA ContractStep ==
  UploadInv /\ UploadInv' /\ [Next]_fetcherVars => [Contract!Next]_<<Phase, Whole>>
<1> SUFFICES ASSUME UploadInv, UploadInv', [Next]_fetcherVars
             PROVE  [Contract!Next]_<<Phase, Whole>>
  OBVIOUS
<1>1. CASE MainNext
  BY <1>1, MainStepKeepsContract
<1>2. CASE StorageNext
  BY <1>2, OwnerStepKeepsContract
<1>3. ASSUME NEW r \in net, Serve(r) \/ NotSent(r) \/ Lose(r) \/ Refuse(r)
      PROVE  [Contract!Next]_<<Phase, Whole>>
  BY <1>3, RequestEndKeepsContract
<1>4. CASE UNCHANGED fetcherVars
  BY <1>4, PhaseStays, WholeStays DEF fetcherVars
<1>5. QED
  BY <1>1, <1>2, <1>3, <1>4 DEF Next, Answered

(***************************************************************************)
(* The upload fetcher implements its contract: the owner gets one answer   *)
(* at most, none after it stopped the upload, and a good one only if the   *)
(* server holds the whole data, position by position.                      *)
(***************************************************************************)
THEOREM FetcherKeepsContract == Spec => KeepsFetcherContract
<1>1. Init => Contract!Init
  <2> SUFFICES ASSUME Init PROVE Contract!Init
    OBVIOUS
  <2>1. Phase = "none" /\ Whole = FALSE
    BY DEF Init, Phase, Whole
  <2>2. QED
    BY <2>1 DEF Contract!Init
<1>2. UploadInv /\ UploadInv' /\ [Next]_fetcherVars => [Contract!Next]_<<Phase, Whole>>
  BY ContractStep
<1>3. QED
  BY <1>1, <1>2, UploadInvariant, PTL DEF Spec, KeepsFetcherContract, Contract!Spec

-----------------------------------------------------------------------------
(***************************************************************************)
(* As long as the owner does not interfere and nothing but chunks gets     *)
(* lost, one stream of requests and blocks goes on: there is one request   *)
(* or one block at a time, and a chunk that fails always finds a reason to *)
(* ask how far the upload got.                                             *)
(***************************************************************************)
Undisturbed == ops = 0 /\ ~fatal

Within(n) == n < Length \/ n = 0

ChunkWithin(r) ==
  /\ r.kind = "chunk" /\ Within(r.from)
  /\ ~r.last => r.from + r.len < Length

RequestStage(r) ==
  /\ r.heard /\ r.to
  /\ \/ r.kind = "initial"
     \/ /\ ChunkWithin(r) /\ location /\ session = "active"
        /\ currentOffset = r.from
     \/ /\ r.kind = "query" /\ location /\ session \in {"active", "final"}
        /\ Within(currentOffset)

FailedChunk(b) ==
  \/ b.result.is = "lost" /\ (b.step = "done" => shouldInitiateOffsetQuery)
  \/ b.result.is = "bad offset" /\ b.req.len > 0

BlockStage(b) ==
  /\ b.req.heard
  /\ \/ /\ b.step = "done" /\ b.req.kind = "initial"
        /\ b.result.is = "ok" /\ b.result.session = "active" /\ session = "active"
     \/ /\ b.step = "begin" /\ ChunkWithin(b.req) /\ b.req.to
        /\ ~OutOfRange(b.req) /\ location /\ session = "active"
     \/ /\ b.step \in {"retry", "done"} /\ b.req.kind = "chunk" /\ FailedChunk(b)
        /\ location /\ session \in {"active", "final"} /\ Within(currentOffset)
     \/ /\ b.step = "done" /\ ChunkWithin(b.req) /\ b.result.is = "ok"
        /\ location /\ b.result.session = session
        /\ session \in {"active", "final"} /\ currentOffset = b.req.from
     \/ /\ b.step = "done" /\ b.req.kind = "query" /\ b.result.is = "ok"
        /\ location /\ b.result.session = session
        /\ session \in {"active", "final"} /\ Within(currentOffset)

NothingUnderWay ==
  /\ outcome \in {"none", "succeeded"} /\ net = {} /\ mainQ = <<>>
  /\ outcome = "none" => storagePc = "new"

OneRequest ==
  outcome = "none" /\ mainQ = <<>> /\ \E r : net = {r} /\ RequestStage(r)

OneBlock ==
  outcome = "none" /\ net = {} /\ \E b : mainQ = <<b>> /\ BlockStage(b)

OneStream ==
  Undisturbed =>
    /\ ~isPaused /\ ~userStopped /\ storagePc \in {"new", "idle"}
    /\ NothingUnderWay \/ OneRequest \/ OneBlock

-----------------------------------------------------------------------------
LEMMA ChunkIsWithin ==
  ASSUME FetcherTypeOK, IsFiniteSet(net), NEW offset \in Nat, Aligned(offset),
         Within(offset)
  PROVE  /\ Chunk(offset) \in Requests /\ ChunkWithin(Chunk(offset))
         /\ ~OutOfRange(Chunk(offset))
         /\ Chunk(offset).heard /\ Chunk(offset).to = location
<1> DEFINE rest == Length - offset
           last == FullChunk >= rest \/ rest - Slack < FullChunk
           len == IF last THEN rest ELSE FullChunk
           base == Request("chunk")
<1>1. Length \in Nat /\ Slack \in Nat /\ FullChunk \in Nat \ {0}
  BY LengthAssumption, FullChunkProperties
<1>2. /\ rest \in Nat /\ last \in BOOLEAN /\ len \in Nat
      /\ last => offset + len = Length
      /\ ~last => offset + len < Length
  BY <1>1 DEF Within
<1>3. base \in Requests /\ base.kind = "chunk" /\ base.heard /\ base.to = location
  BY MadeRequest DEF Kinds, Request
<1>4. Chunk(offset) = [base EXCEPT !.from = offset, !.at = offset, !.last = last,
                                  !.len = len]
  BY DEF Chunk, Aligned
<1> HIDE DEF base, last, len, rest
<1>5. Chunk(offset) \in Requests
  BY MadeChunk
<1>6. /\ Chunk(offset).kind = base.kind
      /\ Chunk(offset).from = offset /\ Chunk(offset).len = len
      /\ Chunk(offset).last = last
      /\ Chunk(offset).heard = base.heard /\ Chunk(offset).to = base.to
  BY <1>3, <1>4, Zenon DEF Requests
<1>7. ChunkWithin(Chunk(offset))
  BY <1>2, <1>3, <1>6 DEF ChunkWithin
<1>8. ~OutOfRange(Chunk(offset))
  BY <1>1, <1>2, <1>6 DEF OutOfRange
<1>9. QED
  BY <1>3, <1>5, <1>6, <1>7, <1>8

\* A block that is alone.
LEMMA BlockAlone ==
  ASSUME FetcherTypeOK, mainQ # <<>>, NothingUnderWay \/ OneRequest \/ OneBlock
  PROVE  /\ outcome = "none" /\ net = {} /\ Rest = <<>>
         /\ BlockStage(Head(mainQ))
<1>1. PICK b : mainQ = <<b>> /\ BlockStage(b)
  BY DEF NothingUnderWay, OneRequest, OneBlock
<1>2. Head(mainQ) = b /\ Rest = <<>>
  BY <1>1 DEF Rest
<1>3. QED
  BY <1>1, <1>2 DEF NothingUnderWay, OneRequest, OneBlock

LEMMA DestroyAlone ==
  ASSUME net = {}, NEW q, q = <<>>, NEW sent, NEW S, NEW more \in Seq(S),
         DestroyChunk(q, more, sent)
  PROVE  mainQ' = more /\ net' = sent
<1>1. HushedBlocks(<<>>) = <<>>
  BY DEF HushedBlocks
<1>2. <<>> \o more = more
  OBVIOUS
<1>3. Hushed({}) = {}
  BY DEF Hushed
<1>4. QED
  BY <1>1, <1>2, <1>3 DEF DestroyChunk

\* How a stream goes on.
LEMMA GoesOnWithBlock ==
  ASSUME ~isPaused, ~userStopped, storagePc \in {"new", "idle"},
         UNCHANGED <<isPaused, userStopped, storagePc>>,
         outcome' = "none", net' = {}, NEW b, mainQ' = <<b>>, BlockStage(b)'
  PROVE  OneStream'
BY DEF OneStream, OneBlock

LEMMA GoesOnWithRequest ==
  ASSUME ~isPaused, ~userStopped, storagePc \in {"new", "idle"},
         UNCHANGED <<isPaused, userStopped, storagePc>>,
         outcome' = "none", mainQ' = <<>>, NEW r, net' = {r}, RequestStage(r)'
  PROVE  OneStream'
BY DEF OneStream, OneRequest

\* The next chunk follows.
LEMMA GoesOnWithChunk ==
  ASSUME ~isPaused, ~userStopped, storagePc \in {"new", "idle"},
         UNCHANGED <<isPaused, userStopped, storagePc>>,
         outcome' = "none", net' = {}, location' = TRUE, session' = "active",
         NEW c \in Requests, ChunkWithin(c), ~OutOfRange(c), c.heard, c.to,
         mainQ' = <<Block("begin", c, NoResult)>>
  PROVE  OneStream'
<1>1. PICK b : b = Block("begin", c, NoResult)
  OBVIOUS
<1>2. b.step = "begin" /\ b.req = c
  BY <1>1 DEF Block
<1>3. ChunkWithin(b.req)' /\ ~OutOfRange(b.req)'
  BY <1>2 DEF ChunkWithin, Within, OutOfRange
<1>4. BlockStage(b)'
  BY <1>2, <1>3 DEF BlockStage
<1>5. QED
  BY <1>1, <1>4, GoesOnWithBlock

\* A chunk or a query that failed is followed by a query.
LEMMA FailedIsAskedAgain ==
  ASSUME UploadInv, ~isPaused, ~userStopped, storagePc \in {"new", "idle"},
         UNCHANGED <<isPaused, userStopped, storagePc, session>>,
         outcome = "none", net = {}, Rest = <<>>,
         location, session \in {"active", "final"}, Within(currentOffset),
         NEW r, NEW why, Failed(r, why),
         shouldInitiateOffsetQuery \/ (why = "bad offset" /\ r.len > 0)
  PROVE  OneStream'
<1>1. FetcherTypeOK /\ NetOK
  BY DEF UploadInv
<1>2. PICK q : q = Request("query")
  OBVIOUS
<1>3. q.kind = "query" /\ q.heard /\ q.to = location
  BY <1>2 DEF Request
<1>4. DestroyChunk(Rest, <<>>, {q}) /\ UNCHANGED <<outcome, location, currentOffset>>
  BY <1>2 DEF Failed
<1>5. <<>> \in Seq(Blocks)
  BY NoBlocks
<1>6. mainQ' = <<>> /\ net' = {q}
  BY <1>4, <1>5, DestroyAlone
<1>7. RequestStage(q)'
  BY <1>3, <1>4 DEF RequestStage, Within
<1>8. QED
  BY <1>4, <1>6, <1>7, GoesOnWithRequest

\* One that succeeded, by the next chunk or by the end.
LEMMA SucceededGoesOn ==
  ASSUME UploadInv, ~isPaused, ~userStopped, storagePc \in {"new", "idle"},
         UNCHANGED <<isPaused, userStopped, storagePc, session>>,
         outcome = "none", net = {}, Rest = <<>>,
         location, session \in {"active", "final"},
         NEW len \in Nat, Succeeded(len, session),
         session = "active" => Aligned(len) /\ Within(currentOffset + len)
  PROVE  OneStream'
<1>1. FetcherTypeOK /\ NetOK /\ Aligned(currentOffset) /\ currentOffset \in Nat
  BY DEF UploadInv, FetcherTypeOK
<1>2. CASE session = "final"
  <2>1. Finish("succeeded", TRUE) /\ DestroyChunk(Rest, <<>>, {})
    BY <1>2 DEF Succeeded
  <2>2. outcome' = "succeeded"
    BY <2>1 DEF Finish, Released
  <2>3. <<>> \in Seq(Blocks)
    BY NoBlocks
  <2>4. mainQ' = <<>> /\ net' = {}
    BY <2>1, <2>3, DestroyAlone
  <2>5. QED
    BY <2>2, <2>4 DEF OneStream, NothingUnderWay
<1>3. CASE session = "active"
  <2>1. PICK offset \in Nat : offset = currentOffset + len
    BY <1>1
  <2>2. Aligned(offset) /\ Within(offset)
    BY <1>1, <1>3, <2>1, AlignedSum
  <2>3. DestroyChunk(Rest, NextChunk(offset), {}) /\ UNCHANGED <<outcome, location>>
    BY <1>3, <2>1 DEF Succeeded
  <2>4. PICK c : c = Chunk(offset)
    OBVIOUS
  <2>5. /\ c \in Requests /\ ChunkWithin(c) /\ ~OutOfRange(c) /\ c.heard
        /\ c.to = location
    BY <1>1, <2>2, <2>4, ChunkIsWithin DEF NetOK
  <2>6. NextChunk(offset) = <<Block("begin", c, NoResult)>>
    BY <2>4 DEF NextChunk
  <2>7. NextChunk(offset) \in Seq(Blocks)
    BY <1>1, <2>2, NextChunkOK DEF NetOK
  <2>8. mainQ' = <<Block("begin", c, NoResult)>> /\ net' = {}
    BY <2>3, <2>6, <2>7, DestroyAlone
  <2>9. QED
    BY <1>1, <1>3, <2>3, <2>5, <2>8, GoesOnWithChunk DEF FetcherTypeOK
<1>4. QED
  BY <1>2, <1>3

LEMMA MainKeepsStream ==
  ASSUME UploadInv, OneStream, Undisturbed, MainNext
  PROVE  OneStream'
<1>1. /\ FetcherTypeOK /\ NetOK /\ BlocksOK /\ mainQ # <<>>
      /\ UNCHANGED <<isPaused, userStopped, storagePc, session, content>>
  BY DEF UploadInv, MainNext, RunInitial, RunBegin, RunRetry, RunChunkDone,
     RunQueryDone, RunDropped, RunBlock, serverVars, clientVars
<1>2. /\ ~isPaused /\ ~userStopped /\ storagePc \in {"new", "idle"}
      /\ NothingUnderWay \/ OneRequest \/ OneBlock
  BY DEF OneStream
<1>3. PICK b : b = Head(mainQ)
  OBVIOUS
<1>4. /\ outcome = "none" /\ net = {} /\ Rest = <<>> /\ BlockStage(b)
  BY <1>1, <1>2, <1>3, BlockAlone
<1>5. b \in Blocks /\ b.req \in Requests /\ BlockOK(b, session)
  BY <1>1, <1>3, RestOK DEF Blocks
<1>6. CASE RunInitial
  <2>1. b.result.is = "ok" /\ b.result.session = "active" /\ session = "active"
    <3>1. b.req.kind = "initial"
      BY <1>3, <1>6 DEF RunInitial, RunBlock
    <3>2. QED
      BY <1>4, <3>1 DEF BlockStage, ChunkWithin
  <2>2. PICK c : c = [Chunk(0) EXCEPT !.to = TRUE]
    OBVIOUS
  <2>3. c \in Requests /\ ChunkWithin(c) /\ ~OutOfRange(c) /\ c.heard /\ c.to
    <3>1. /\ Chunk(0) \in Requests /\ ChunkWithin(Chunk(0)) /\ ~OutOfRange(Chunk(0))
          /\ Chunk(0).heard
      BY <1>1, ZeroIsAligned, ChunkIsWithin DEF NetOK, Within
    <3>2. QED
      BY <2>2, <3>1 DEF Requests, ChunkWithin, OutOfRange
  <2>4. /\ location' = TRUE /\ mainQ' = Rest \o <<Block("begin", c, NoResult)>>
        /\ UNCHANGED <<outcome, net>>
    BY <1>2, <1>3, <1>4, <1>6, <2>1, <2>2 DEF RunInitial, Opened
  <2>5. mainQ' = <<Block("begin", c, NoResult)>>
    BY <1>4, <2>4
  <2>6. QED
    BY <1>1, <1>2, <1>4, <2>1, <2>3, <2>4, <2>5, GoesOnWithChunk
<1>7. CASE RunBegin
  <2>1. /\ ChunkWithin(b.req) /\ b.req.to /\ b.req.heard /\ ~OutOfRange(b.req)
        /\ location /\ session = "active"
    BY <1>3, <1>4, <1>7 DEF RunBegin, RunBlock, BlockStage
  <2>2. /\ currentOffset' = b.req.from /\ net' = net \cup {b.req} /\ mainQ' = Rest
        /\ UNCHANGED <<outcome, location>>
    BY <1>3, <1>7, <2>1 DEF RunBegin
  <2>3. RequestStage(b.req)'
    BY <1>1, <2>1, <2>2 DEF RequestStage, ChunkWithin, Within
  <2>4. QED
    BY <1>1, <1>2, <1>4, <2>2, <2>3, GoesOnWithRequest
<1>8. CASE RunRetry
  <2>1. /\ b.step = "retry" /\ b.req.kind = "chunk" /\ FailedChunk(b) /\ b.req.heard
        /\ location /\ session \in {"active", "final"} /\ Within(currentOffset)
    BY <1>3, <1>4, <1>8 DEF RunRetry, RunBlock, BlockStage
  <2>2. PICK d : d = [b EXCEPT !.step = "done"]
    OBVIOUS
  <2>3. d.step = "done" /\ d.req = b.req /\ d.result = b.result
    BY <1>5, <2>2 DEF Blocks
  <2>4. mainQ' = <<d>>
    BY <1>3, <1>4, <1>8, <2>2 DEF RunRetry
  <2>5. UNCHANGED <<location, outcome, net>>
    BY <1>8 DEF RunRetry
  <2>6. FailedChunk(d)' /\ Within(currentOffset)'
    <3>1. CASE b.result.is = "lost"
      BY <1>3, <1>8, <2>1, <2>3, <3>1 DEF RunRetry, FailedChunk, Within
    <3>2. CASE b.result.is # "lost"
      BY <1>3, <1>8, <2>1, <2>3, <3>2 DEF RunRetry, FailedChunk, Within
    <3>3. QED
      BY <3>1, <3>2
  <2>7. BlockStage(d)'
    BY <1>1, <2>1, <2>3, <2>5, <2>6 DEF BlockStage
  <2>8. QED
    BY <1>1, <1>2, <1>4, <2>4, <2>5, <2>7, GoesOnWithBlock
<1>9. CASE RunChunkDone
  <2>1. b.step = "done" /\ b.req.kind = "chunk"
    BY <1>3, <1>9 DEF RunChunkDone, RunBlock
  <2>2. location /\ session \in {"active", "final"}
    BY <1>4, <2>1 DEF BlockStage
  <2>3. CASE b.result.is = "ok"
    <3>1. /\ ChunkWithin(b.req) /\ b.result.session = session
          /\ currentOffset = b.req.from
      BY <1>4, <2>1, <2>3 DEF BlockStage, FailedChunk
    <3>2. Succeeded(b.req.len, session)
      BY <1>3, <1>9, <2>3, <3>1 DEF RunChunkDone
    <3>3. PICK len \in Nat : len = b.req.len
      BY <1>5, <2>1 DEF BlockOK, InRange, OutOfRange, Requests
    <3>4. session = "active" => Aligned(len) /\ Within(currentOffset + len)
      <4>1. (session = "active") => ~b.req.last
        BY <1>5, <2>1, <2>3, <3>1 DEF BlockOK
      <4>2. QED
        BY <1>5, <3>1, <3>3, <4>1 DEF BlockOK, WellMade, ChunkWithin, Within
    <3>5. QED
      BY <1>1, <1>2, <1>4, <2>2, <3>2, <3>3, <3>4, SucceededGoesOn
  <2>4. CASE b.result.is # "ok"
    <3>1. FailedChunk(b) /\ Within(currentOffset)
      BY <1>4, <2>1, <2>4 DEF BlockStage
    <3>2. Failed(b.req, b.result.is)
      BY <1>3, <1>9, <2>4 DEF RunChunkDone
    <3>3. shouldInitiateOffsetQuery \/ (b.result.is = "bad offset" /\ b.req.len > 0)
      BY <2>1, <3>1 DEF FailedChunk
    <3>4. QED
      BY <1>1, <1>2, <1>4, <2>2, <3>1, <3>2, <3>3, FailedIsAskedAgain
  <2>5. QED
    BY <2>3, <2>4
<1>10. CASE RunQueryDone
  <2>1. b.step = "done" /\ b.req.kind = "query"
    BY <1>3, <1>10 DEF RunQueryDone, RunBlock
  <2>2. /\ b.result.is = "ok" /\ location /\ b.result.session = session
        /\ session \in {"active", "final"} /\ Within(currentOffset)
    BY <1>4, <2>1 DEF BlockStage, ChunkWithin
  <2>3. CASE session = "final" \/ b.result.size >= Length
    <3>1. Succeeded(0, session)
      BY <1>3, <1>10, <2>2, <2>3 DEF RunQueryDone
    <3>2. currentOffset + 0 = currentOffset
      <4>1. currentOffset \in Nat
        BY <1>1 DEF FetcherTypeOK
      <4>2. QED
        BY <4>1
    <3>3. Aligned(0) /\ Within(currentOffset + 0)
      BY <2>2, <3>2, ZeroIsAligned
    <3>4. QED
      BY <1>1, <1>2, <1>4, <2>2, <3>1, <3>3, SucceededGoesOn
  <2>4. CASE ~(session = "final" \/ b.result.size >= Length)
    <3>1. PICK size \in Nat : size = b.result.size
      BY <1>5 DEF Blocks, Results
    <3>2. /\ mainQ' = Rest \o NextChunk(size)
          /\ UNCHANGED <<location, outcome, net>>
      BY <1>3, <1>10, <2>2, <2>4, <3>1 DEF RunQueryDone
    <3>3. Aligned(size) /\ Within(size)
      BY <1>5, <2>4, <3>1, LengthAssumption DEF BlockOK, Within
    <3>4. PICK c : c = Chunk(size)
      OBVIOUS
    <3>5. /\ c \in Requests /\ ChunkWithin(c) /\ ~OutOfRange(c) /\ c.heard
          /\ c.to = location
      BY <1>1, <3>3, <3>4, ChunkIsWithin DEF NetOK
    <3>6. mainQ' = <<Block("begin", c, NoResult)>>
      BY <1>4, <3>2, <3>4 DEF NextChunk
    <3>7. QED
      BY <1>1, <1>2, <1>4, <2>2, <2>4, <3>2, <3>5, <3>6, GoesOnWithChunk
      DEF FetcherTypeOK
  <2>5. QED
    BY <2>3, <2>4
<1>11. ~RunDropped
  BY <1>3, <1>4 DEF RunDropped, BlockStage
<1>12. QED
  BY <1>6, <1>7, <1>8, <1>9, <1>10, <1>11 DEF MainNext

\* A chunk that the server does not take has something in it.
LEMMA BadOffsetIsNotEmpty ==
  ASSUME UploadInv, NEW r \in net, ChunkWithin(r), session = "active", ~Accepted(r)
  PROVE  r.len > 0
<1>1. /\ r \in Requests /\ WellMade(r) /\ InRange(r) /\ r.kind = "chunk"
      /\ content \in Seq(1..Length) /\ Len(content) <= Length
  BY DEF UploadInv, NetOK, FetcherTypeOK, ContentOK, ContentIsPrefix, ChunkWithin
<1>2. /\ Length \in Nat /\ r.len \in Nat /\ r.from \in Nat /\ r.at = r.from
      /\ r.last => r.from + r.len = Length
      /\ ~r.last => r.len > 0
  BY <1>1, LengthAssumption DEF WellMade, InRange, OutOfRange, Requests
<1>3. r.at # Len(content)
  BY <1>1 DEF Accepted
<1>4. PICK n \in Nat : n = Len(content)
  BY <1>1, LenProperties
<1>5. CASE r.len = 0
  <2>1. r.from = Length
    BY <1>2, <1>5
  <2>2. r.from = 0
    BY <1>2, <2>1 DEF ChunkWithin, Within
  <2>3. QED
    BY <1>1, <1>2, <1>3, <1>4, <2>1, <2>2
<1>6. QED
  BY <1>2, <1>5

\* The one request ends, and its block is the one block.
LEMMA RequestKeepsStream ==
  ASSUME UploadInv, OneStream, Undisturbed, NEW r \in net,
         Serve(r) \/ NotSent(r) \/ Lose(r) \/ Refuse(r), ~fatal'
  PROVE  OneStream'
<1>1. /\ ~isPaused /\ ~userStopped /\ storagePc \in {"new", "idle"}
      /\ outcome = "none" /\ mainQ = <<>> /\ net = {r} /\ RequestStage(r)
  BY DEF OneStream, NothingUnderWay, OneRequest, OneBlock
<1>2. r.heard /\ r.to /\ ~Released
  BY <1>1 DEF RequestStage, Released
<1>3. UNCHANGED <<location, isPaused, userStopped, storagePc, outcome, currentOffset>>
  BY DEF Serve, NotSent, Lose, Refuse, Ends, clientVars
<1>4. ASSUME NEW result, Ends(r, result)
      PROVE  \E b : /\ mainQ' = <<b>> /\ net' = {} /\ b.req = r
                    /\ b.result.is = result /\ b.result.session = session'
                    /\ IF result \in {"ok", "no url"} \/ r.kind = "initial"
                       THEN b.step = "done" ELSE b.step = "retry"
  <2> DEFINE step == IF result \in {"ok", "no url"} \/ r.kind = "initial"
                     THEN "done" ELSE "retry"
             b == Block(step, r, [is |-> result, session |-> session',
                                  size |-> Len(content')])
  <2>1. /\ b.req = r /\ b.result.is = result /\ b.result.session = session'
        /\ IF result \in {"ok", "no url"} \/ r.kind = "initial"
           THEN b.step = "done" ELSE b.step = "retry"
    BY DEF Block
  <2>2. mainQ' = Append(<<>>, b) /\ net' = {}
    BY <1>1, <1>2, <1>4 DEF Ends
  <2> HIDE DEF b
  <2>3. mainQ' = <<b>>
    BY <2>2
  <2>4. QED
    BY <2>1, <2>2, <2>3
<1>5. CASE Serve(r)
  <2>1. PICK reply \in Replies(r) : session' = Session(r) /\ Ends(r, reply)
    BY <1>5 DEF Serve
  <2>2. CASE r.kind # "chunk" \/ Accepted(r)
    <3>1. Ends(r, "ok")
      BY <2>1, <2>2 DEF Replies
    <3>2. PICK b : /\ mainQ' = <<b>> /\ net' = {} /\ b.step = "done" /\ b.req = r
                   /\ b.result.is = "ok" /\ b.result.session = session'
      BY <1>4, <3>1
    <3>3. CASE r.kind = "initial"
      <4>1. session' = "active"
        BY <2>1, <3>3 DEF Session, Accepted
      <4>2. BlockStage(b)'
        BY <1>2, <3>2, <3>3, <4>1 DEF BlockStage
      <4>3. QED
        BY <1>1, <1>3, <3>2, <4>2, GoesOnWithBlock
    <3>4. CASE r.kind = "chunk"
      <4>1. /\ ChunkWithin(r) /\ location /\ session = "active"
            /\ currentOffset = r.from
        BY <1>1, <3>4 DEF RequestStage
      <4>2. session' \in {"active", "final"}
        BY <2>1, <3>4, <4>1 DEF Session
      <4>3. BlockStage(b)'
        BY <1>2, <1>3, <3>2, <4>1, <4>2 DEF BlockStage, ChunkWithin, Within
      <4>4. QED
        BY <1>1, <1>3, <3>2, <4>3, GoesOnWithBlock
    <3>5. CASE r.kind \notin {"initial", "chunk"}
      <4>1. /\ r.kind = "query" /\ location /\ session \in {"active", "final"}
            /\ Within(currentOffset)
        BY <1>1, <3>5 DEF RequestStage, ChunkWithin
      <4>2. session' = session
        BY <2>1, <4>1 DEF Session, Accepted
      <4>3. BlockStage(b)'
        BY <1>2, <1>3, <3>2, <4>1, <4>2 DEF BlockStage, Within
      <4>4. QED
        BY <1>1, <1>3, <3>2, <4>3, GoesOnWithBlock
    <3>6. QED
      BY <3>3, <3>4, <3>5
  <2>3. CASE r.kind = "chunk" /\ ~Accepted(r)
    <3>1. /\ ChunkWithin(r) /\ location /\ session = "active"
          /\ currentOffset = r.from
      BY <1>1, <2>3 DEF RequestStage
    <3>2. Ends(r, "bad offset") /\ session' = "active"
      BY <2>1, <2>3, <3>1 DEF Replies, Session
    <3>3. PICK b : /\ mainQ' = <<b>> /\ net' = {} /\ b.step = "retry" /\ b.req = r
                   /\ b.result.is = "bad offset"
      <4>1. PICK why : why = "bad offset"
        OBVIOUS
      <4>2. Ends(r, why) /\ ~(why \in {"ok", "no url"} \/ r.kind = "initial")
        BY <2>3, <3>2, <4>1
      <4>3. QED
        BY <1>4, <4>1, <4>2
    <3>4. r.len > 0
      BY <2>3, <3>1, BadOffsetIsNotEmpty
    <3>5. BlockStage(b)'
      BY <1>2, <1>3, <2>3, <3>1, <3>2, <3>3, <3>4
      DEF BlockStage, FailedChunk, ChunkWithin, Within
    <3>6. QED
      BY <1>1, <1>3, <3>3, <3>5, GoesOnWithBlock
  <2>4. QED
    BY <2>2, <2>3
<1>6. ~NotSent(r)
  BY <1>2 DEF NotSent
<1>7. CASE Lose(r)
  <2>1. r.kind = "chunk"
    BY <1>2, <1>7 DEF Lose, Fault
  <2>2. /\ ChunkWithin(r) /\ location /\ session = "active"
        /\ currentOffset = r.from
    BY <1>1, <2>1 DEF RequestStage
  <2>3. Ends(r, "lost")
    BY <1>7 DEF Lose
  <2>4. session' \in {"active", "final"}
    BY <1>7, <2>1, <2>2 DEF Lose, Session, serverVars
  <2>5. PICK b : /\ mainQ' = <<b>> /\ net' = {} /\ b.step = "retry" /\ b.req = r
                 /\ b.result.is = "lost"
    BY <1>4, <2>1, <2>3
  <2>6. BlockStage(b)'
    BY <1>2, <1>3, <2>1, <2>2, <2>4, <2>5
    DEF BlockStage, FailedChunk, ChunkWithin, Within
  <2>7. QED
    BY <1>1, <1>3, <2>5, <2>6, GoesOnWithBlock
<1>8. ~Refuse(r)
  BY DEF Refuse
<1>9. QED
  BY <1>5, <1>6, <1>7, <1>8

LEMMA OwnerKeepsStream ==
  ASSUME UploadInv, OneStream, Undisturbed, StorageNext, ops' = 0
  PROVE  OneStream'
<1>1. /\ FetcherTypeOK /\ NothingBefore /\ ops = 0
      /\ ~isPaused /\ ~userStopped /\ storagePc \in {"new", "idle"}
  BY DEF UploadInv, OneStream, Undisturbed
<1>2. BeginFetch
  <2>1. ASSUME NEW op, NEW next, Call(op, next) PROVE FALSE
    BY <1>1, <2>1 DEF Call
  <2>2. QED
    BY <1>1, <2>1
    DEF StorageNext, PauseFetching, ResumeFetching, StopFetching, Continue
<1>3. PICK r : r = [Request("initial") EXCEPT !.to = TRUE]
  OBVIOUS
<1>4. r.heard /\ r.to /\ r.kind = "initial"
  BY <1>3 DEF Request
<1>5. /\ net' = {r} /\ mainQ' = <<>> /\ outcome' = "none" /\ storagePc' = "idle"
      /\ UNCHANGED <<isPaused, userStopped>>
  BY <1>1, <1>2, <1>3 DEF BeginFetch, NothingBefore
<1>6. RequestStage(r)'
  BY <1>4 DEF RequestStage
<1>7. QED
  BY <1>1, <1>5, <1>6 DEF OneStream, OneRequest

LEMMA OpsAreCounted == ASSUME FetcherTypeOK PROVE ops \in Nat
<1>1. ops \in 0..MaxOps
  BY DEF FetcherTypeOK
<1>2. MaxOps \in Nat
  BY FaultsAssumption
<1>3. QED
  BY <1>1, <1>2

\* What has been disturbed stays so.
LEMMA DisturbedForGood ==
  ASSUME UploadInv, [Next]_fetcherVars, Undisturbed'
  PROVE  Undisturbed /\ ops' = 0 /\ ~fatal'
<1>1. ops \in Nat /\ fatal \in BOOLEAN
  BY OpsAreCounted DEF UploadInv, FetcherTypeOK
<1>2. ops' = 0 /\ ~fatal'
  BY DEF Undisturbed
<1>3. ops' = ops \/ ops' = ops + 1
  BY DEF Next, MainNext, RunInitial, RunBegin, RunRetry, RunChunkDone, RunQueryDone,
     RunDropped, RunBlock, clientVars, StorageNext, BeginFetch, PauseFetching,
     ResumeFetching, StopFetching, Call, Continue, Answered, Serve, NotSent, Lose,
     Refuse, Ends, fetcherVars
<1>4. fatal => fatal'
  BY DEF Next, MainNext, RunInitial, RunBegin, RunRetry, RunChunkDone, RunQueryDone,
     RunDropped, RunBlock, StorageNext, BeginFetch, PauseFetching,
     ResumeFetching, StopFetching, Call, Continue, Answered, Serve, NotSent, Lose,
     Refuse, Fault, fetcherVars
<1>5. QED
  BY <1>1, <1>2, <1>3, <1>4 DEF Undisturbed

LEMMA NextKeepsStream ==
  UploadInv /\ OneStream /\ [Next]_fetcherVars => OneStream'
<1> SUFFICES ASSUME UploadInv, OneStream, [Next]_fetcherVars, Undisturbed'
             PROVE  OneStream'
  BY DEF OneStream
<1>1. Undisturbed /\ ops' = 0 /\ ~fatal'
  BY DisturbedForGood
<1>2. CASE MainNext
  BY <1>1, <1>2, MainKeepsStream
<1>3. CASE StorageNext
  BY <1>1, <1>3, OwnerKeepsStream
<1>4. ASSUME NEW r \in net, Serve(r) \/ NotSent(r) \/ Lose(r) \/ Refuse(r)
      PROVE  OneStream'
  BY <1>1, <1>4, RequestKeepsStream
<1>5. CASE UNCHANGED fetcherVars
  BY <1>5 DEF fetcherVars, OneStream, NothingUnderWay, OneRequest, OneBlock,
     RequestStage, BlockStage, FailedChunk, ChunkWithin, Within, OutOfRange,
     Undisturbed
<1>6. QED
  BY <1>2, <1>3, <1>4, <1>5 DEF Next, Answered

(***************************************************************************)
(* Losing chunks alone, however often and however much of them the server  *)
(* kept, never fails an upload: the retry block and the callback of the    *)
(* chunk always lead to a query, and the query to the rest of the data.    *)
(***************************************************************************)
THEOREM LostChunksNeverFail == Spec => []LostChunksAreForgiven
<1>1. Init => OneStream
  BY DEF Init, OneStream, NothingUnderWay
<1>2. UploadInv /\ OneStream /\ [Next]_fetcherVars => OneStream'
  BY NextKeepsStream
<1>3. UploadInv /\ OneStream => LostChunksAreForgiven
  <2> SUFFICES ASSUME UploadInv, OneStream, outcome = "failed"
               PROVE  fatal \/ ops > 0
    BY DEF LostChunksAreForgiven
  <2>1. ~Undisturbed
    BY DEF OneStream, NothingUnderWay, OneRequest, OneBlock
  <2>2. ops \in Nat
    BY OpsAreCounted DEF UploadInv
  <2>3. QED
    BY <2>1, <2>2 DEF Undisturbed
<1>4. QED
  BY <1>1, <1>2, <1>3, UploadInvariant, PTL DEF Spec
=============================================================================
