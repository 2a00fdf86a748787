------------------------- MODULE FetcherServiceProofs -------------------------
(***************************************************************************)
(* Proofs about FetcherService, for any fetchers, slots and bounds.        *)
(***************************************************************************)
EXTENDS FetcherService, SequenceTheorems, TLAPS

-----------------------------------------------------------------------------
(***************************************************************************)
(* The lists, which hold a fetcher once.                                   *)
(***************************************************************************)
LEMMA ContainsByIndex ==
  ASSUME NEW S, NEW s \in Seq(S), NEW e
  PROVE  /\ Contains(s, e) <=> \E i \in 1..Len(s) : s[i] = e
         /\ Contains(s, e) => e \in S
BY ElementOfSeq DEF Contains

(***************************************************************************)
(* A fetcher that is not in the list is added at its end.                  *)
(***************************************************************************)
LEMMA AppendedList ==
  ASSUME NEW S, NEW s \in Seq(S), IsInjective(s), NEW e \in S, ~Contains(s, e)
  PROVE  /\ Append(s, e) \in Seq(S) /\ Len(Append(s, e)) = Len(s) + 1
         /\ IsInjective(Append(s, e))
         /\ \A x : Contains(Append(s, e), x) <=> Contains(s, x) \/ x = e
<1>1. /\ Append(s, e) \in Seq(S) /\ Len(Append(s, e)) = Len(s) + 1
      /\ \A i \in 1..Len(s) : Append(s, e)[i] = s[i]
      /\ Append(s, e)[Len(s) + 1] = e
  BY AppendProperties
<1>2. /\ Len(s) \in Nat /\ DOMAIN s = 1..Len(s)
      /\ DOMAIN Append(s, e) = 1..Len(s) + 1
  BY <1>1, LenProperties
<1>3. QED
  BY <1>1, <1>2 DEF Contains, IsInjective

(***************************************************************************)
(* What is left of a list behind its first k.                              *)
(***************************************************************************)
LEMMA SuffixProperties ==
  ASSUME NEW S, NEW s \in Seq(S), NEW k \in 0..Len(s)
  PROVE  /\ SubSeq(s, k + 1, Len(s)) \in Seq(S)
         /\ Len(SubSeq(s, k + 1, Len(s))) = Len(s) - k
         /\ \A i \in 1..Len(s) - k : SubSeq(s, k + 1, Len(s))[i] = s[k + i]
<1>0. Len(s) \in Nat
  BY LenProperties
<1>1. /\ k + 1 \in Int /\ Len(s) \in Int
      /\ \A i \in k + 1..Len(s) : s[i] \in S
  BY <1>0, ElementOfSeq
<1>2. /\ SubSeq(s, k + 1, Len(s)) \in Seq(S)
      /\ Len(SubSeq(s, k + 1, Len(s)))
           = IF k + 1 <= Len(s) THEN Len(s) - (k + 1) + 1 ELSE 0
      /\ \A i \in 1..Len(s) - (k + 1) + 1 :
           SubSeq(s, k + 1, Len(s))[i] = s[k + 1 + i - 1]
  BY <1>1, SubSeqProperties
<1>3. ASSUME NEW i \in 1..Len(s) - k
      PROVE  SubSeq(s, k + 1, Len(s))[i] = s[k + i]
  <2>1. i \in 1..Len(s) - (k + 1) + 1 /\ k + 1 + i - 1 = k + i
    BY <1>0
  <2>2. QED
    BY <1>2, <2>1
<1>4. QED
  BY <1>0, <1>2, <1>3

(***************************************************************************)
(* removeObject takes the fetcher out of the list, and it alone.           *)
(***************************************************************************)
LEMMA WithoutProperties ==
  ASSUME NEW S, NEW s \in Seq(S), IsInjective(s), NEW e
  PROVE  /\ Without(s, e) \in Seq(S)
         /\ IsInjective(Without(s, e))
         /\ Len(Without(s, e)) = IF Contains(s, e) THEN Len(s) - 1 ELSE Len(s)
         /\ \A x : Contains(Without(s, e), x) <=> Contains(s, x) /\ x # e
<1>1. CASE ~Contains(s, e)
  BY <1>1 DEF Without
<1>2. CASE Contains(s, e)
  <2> DEFINE k == CHOOSE i \in DOMAIN s : s[i] = e
             r == Without(s, e)
  <2>0. DOMAIN s = 1..Len(s) /\ Len(s) \in Nat
    BY LenProperties
  <2>1. k \in 1..Len(s) /\ s[k] = e
    BY <1>2, <2>0 DEF Contains
  <2> HIDE DEF k
  <2>2. r = SubSeq(s, 1, k - 1) \o SubSeq(s, k + 1, Len(s))
    BY <1>2 DEF Without, RemoveAt, k
  <2>3. /\ SubSeq(s, 1, k - 1) \in Seq(S)
        /\ Len(SubSeq(s, 1, k - 1)) = k - 1
        /\ \A i \in 1..k - 1 : SubSeq(s, 1, k - 1)[i] = s[i]
    <3>1. \A i \in 1..k - 1 : s[i] \in S
      BY <2>0, <2>1, ElementOfSeq
    <3>2. 1 \in Int /\ k - 1 \in Int
      BY <2>0, <2>1
    <3>3. /\ SubSeq(s, 1, k - 1) \in Seq(S)
          /\ Len(SubSeq(s, 1, k - 1)) = IF 1 <= k - 1 THEN k - 1 - 1 + 1 ELSE 0
          /\ \A i \in 1..k - 1 - 1 + 1 : SubSeq(s, 1, k - 1)[i] = s[1 + i - 1]
      BY <3>1, <3>2, SubSeqProperties
    <3>4. QED
      BY <2>0, <2>1, <3>3
  <2>4. /\ SubSeq(s, k + 1, Len(s)) \in Seq(S)
        /\ Len(SubSeq(s, k + 1, Len(s))) = Len(s) - k
        /\ \A i \in 1..Len(s) - k : SubSeq(s, k + 1, Len(s))[i] = s[k + i]
    <3>1. k \in 0..Len(s)
      BY <2>0, <2>1
    <3>2. QED
      BY <3>1, SuffixProperties
  <2>5. /\ r \in Seq(S) /\ Len(r) = Len(s) - 1
        /\ \A i \in 1..Len(s) - 1 : r[i] = IF i < k THEN s[i] ELSE s[i + 1]
    <3>1. /\ r \in Seq(S)
          /\ Len(r) = (k - 1) + (Len(s) - k)
          /\ \A i \in 1..(k - 1) + (Len(s) - k) :
               r[i] = IF i <= k - 1 THEN SubSeq(s, 1, k - 1)[i]
                                    ELSE SubSeq(s, k + 1, Len(s))[i - (k - 1)]
      BY <2>2, <2>3, <2>4, ConcatProperties
    <3> HIDE DEF r
    <3>2. \A i \in 1..Len(s) - 1 : i < k => r[i] = s[i]
      BY <2>0, <2>1, <2>3, <3>1
    <3>3. ASSUME NEW i \in 1..Len(s) - 1, ~(i < k)
          PROVE  r[i] = s[i + 1]
      <4>1. /\ i \in 1..(k - 1) + (Len(s) - k) /\ ~(i <= k - 1)
            /\ i - (k - 1) \in 1..Len(s) - k /\ k + (i - (k - 1)) = i + 1
        BY <2>0, <2>1, <3>3
      <4>2. r[i] = SubSeq(s, k + 1, Len(s))[i - (k - 1)]
        BY <3>1, <4>1
      <4>3. QED
        BY <2>4, <4>1, <4>2
    <3>4. QED
      BY <2>0, <2>1, <3>1, <3>2, <3>3
  <2> HIDE DEF r
  <2>6. DOMAIN r = 1..Len(s) - 1
    BY <2>5, LenProperties
  <2>7. IsInjective(r)
    <3>1. \A i, j \in 1..Len(s) : s[i] = s[j] => i = j
      BY <2>0 DEF IsInjective
    <3>2. \A i, j \in 1..Len(s) - 1 : r[i] = r[j] => i = j
      BY <2>0, <2>1, <2>5, <3>1
    <3>3. QED
      BY <2>6, <3>2 DEF IsInjective
  <2>8. ASSUME NEW x
        PROVE  Contains(r, x) <=> Contains(s, x) /\ x # e
    <3>1. ASSUME Contains(r, x)
          PROVE  Contains(s, x) /\ x # e
      <4>1. PICK i \in 1..Len(s) - 1 : r[i] = x
        BY <2>5, <3>1 DEF Contains
      <4>2. \A j \in 1..Len(s) : s[j] = e => j = k
        BY <2>0, <2>1 DEF IsInjective
      <4>3. CASE i < k
        BY <2>0, <2>1, <2>5, <4>1, <4>2, <4>3 DEF Contains
      <4>4. CASE ~(i < k)
        BY <2>0, <2>1, <2>5, <4>1, <4>2, <4>4 DEF Contains
      <4>5. QED
        BY <4>3, <4>4
    <3>2. ASSUME Contains(s, x), x # e
          PROVE  Contains(r, x)
      <4>1. PICK i \in 1..Len(s) : s[i] = x
        BY <3>2 DEF Contains
      <4>2. i # k
        BY <2>1, <3>2, <4>1
      <4>3. CASE i < k
        <5>1. i \in 1..Len(s) - 1 /\ r[i] = x
          BY <2>0, <2>1, <2>5, <4>1, <4>3
        <5>2. QED
          BY <2>5, <5>1 DEF Contains
      <4>4. CASE i > k
        <5>1. i - 1 \in 1..Len(s) - 1 /\ ~(i - 1 < k) /\ (i - 1) + 1 = i
          BY <2>0, <2>1, <4>1, <4>4
        <5>2. r[i - 1] = x
          BY <2>5, <4>1, <5>1
        <5>3. QED
          BY <2>5, <5>1, <5>2 DEF Contains
      <4>5. QED
        BY <2>0, <2>1, <4>1, <4>2, <4>3, <4>4
    <3>3. QED
      BY <3>1, <3>2
  <2>9. QED
    BY <1>2, <2>5, <2>7, <2>8 DEF r
<1>3. QED
  BY <1>1, <1>2

(***************************************************************************)
(* The first of the line and the rest of it are the line.                  *)
(***************************************************************************)
LEMMA PromotedProperties ==
  ASSUME NEW S, NEW line \in Seq(S), IsInjective(line), NEW n \in 0..MaxRunning
  PROVE  /\ Promoted(line, n) \in Seq(S) /\ IsInjective(Promoted(line, n))
         /\ StillDelayed(line, n) \in Seq(S) /\ IsInjective(StillDelayed(line, n))
         /\ n + Len(Promoted(line, n)) <= MaxRunning
         /\ StillDelayed(line, n) # <<>> => n + Len(Promoted(line, n)) = MaxRunning
         /\ \A x : Contains(line, x) <=>
                     \/ Contains(Promoted(line, n), x)
                     \/ Contains(StillDelayed(line, n), x)
         /\ \A x : ~(Contains(Promoted(line, n), x) /\ Contains(StillDelayed(line, n), x))
<1> DEFINE p == Promoted(line, n)
           d == StillDelayed(line, n)
           m == IF Len(line) < MaxRunning - n THEN Len(line) ELSE MaxRunning - n
<1>0. /\ Len(line) \in Nat /\ DOMAIN line = 1..Len(line)
      /\ MaxRunning \in Nat /\ n \in Nat /\ n <= MaxRunning
  BY LenProperties, MaxRunningAssumption
<1>1. /\ m \in Nat /\ m <= Len(line) /\ m <= MaxRunning - n
      /\ m < Len(line) => n + m = MaxRunning
  BY <1>0
<1> HIDE DEF m
<1>2. \A i \in 1..Len(line) : line[i] \in S
  BY ElementOfSeq
<1>3. p \in Seq(S) /\ Len(p) = m /\ \A i \in 1..m : p[i] = line[i]
  <2>1. p = SubSeq(line, 1, m)
    BY DEF Promoted, m
  <2>2. /\ SubSeq(line, 1, m) \in Seq(S)
        /\ Len(SubSeq(line, 1, m)) = IF 1 <= m THEN m - 1 + 1 ELSE 0
        /\ \A i \in 1..m - 1 + 1 : SubSeq(line, 1, m)[i] = line[1 + i - 1]
    <3>1. 1 \in Int /\ m \in Int /\ \A i \in 1..m : line[i] \in S
      BY <1>0, <1>1, <1>2
    <3>2. QED
      BY <3>1, SubSeqProperties
  <2> HIDE DEF p
  <2>3. QED
    BY <1>1, <2>1, <2>2
<1>4. /\ d \in Seq(S) /\ Len(d) = Len(line) - m
      /\ \A i \in 1..Len(line) - m : d[i] = line[m + i]
  <2>1. d = SubSeq(line, m + 1, Len(line))
    BY <1>3 DEF StillDelayed
  <2>2. m \in 0..Len(line)
    BY <1>0, <1>1
  <2> HIDE DEF d
  <2>3. QED
    BY <2>1, <2>2, SuffixProperties
<1> HIDE DEF p, d
<1>5. \A i, j \in 1..Len(line) : line[i] = line[j] => i = j
  BY <1>0 DEF IsInjective
<1>6. DOMAIN p = 1..m /\ DOMAIN d = 1..Len(line) - m
  BY <1>3, <1>4, LenProperties
<1>7. IsInjective(p) /\ IsInjective(d)
  <2>1. \A i, j \in 1..m : p[i] = p[j] => i = j
    BY <1>0, <1>1, <1>3, <1>5
  <2>2. \A i, j \in 1..Len(line) - m : d[i] = d[j] => i = j
    <3> SUFFICES ASSUME NEW i \in 1..Len(line) - m, NEW j \in 1..Len(line) - m,
                        d[i] = d[j]
                 PROVE  i = j
      OBVIOUS
    <3>1. line[m + i] = line[m + j]
      BY <1>4
    <3>2. m + i \in 1..Len(line) /\ m + j \in 1..Len(line)
      BY <1>0, <1>1
    <3>3. m + i = m + j
      BY <1>5, <3>1, <3>2
    <3>4. QED
      BY <1>1, <3>3
  <2>3. QED
    BY <1>6, <2>1, <2>2 DEF IsInjective
<1>8. d # <<>> => m < Len(line)
  BY <1>0, <1>1, <1>4, EmptySeq
<1>9. ASSUME NEW x
      PROVE  Contains(line, x) <=> Contains(p, x) \/ Contains(d, x)
  <2>1. ASSUME NEW i \in 1..Len(line), line[i] = x
        PROVE  Contains(p, x) \/ Contains(d, x)
    <3>1. CASE i <= m
      BY <1>1, <1>3, <2>1, <3>1 DEF Contains
    <3>2. CASE i > m
      <4>1. i - m \in 1..Len(line) - m /\ m + (i - m) = i
        BY <1>0, <1>1, <3>2
      <4>2. QED
        BY <1>4, <2>1, <4>1 DEF Contains
    <3>3. QED
      BY <1>0, <1>1, <3>1, <3>2
  <2>2. Contains(p, x) => Contains(line, x)
    BY <1>0, <1>1, <1>3 DEF Contains
  <2>3. ASSUME NEW i \in 1..Len(d), d[i] = x
        PROVE  Contains(line, x)
    <3>1. m + i \in 1..Len(line) /\ line[m + i] = x
      BY <1>0, <1>1, <1>4, <2>3
    <3>2. QED
      BY <3>1 DEF Contains
  <2>4. QED
    BY <2>1, <2>2, <2>3 DEF Contains
<1>10. ASSUME NEW x, Contains(p, x), Contains(d, x)
       PROVE  FALSE
  <2>1. PICK i \in 1..m : line[i] = x
    BY <1>3, <1>10 DEF Contains
  <2>2. PICK j \in 1..Len(line) - m : line[m + j] = x
    BY <1>4, <1>10 DEF Contains
  <2>3. i \in 1..Len(line) /\ m + j \in 1..Len(line) /\ i # m + j
    BY <1>0, <1>1
  <2>4. QED
    BY <1>5, <2>1, <2>2, <2>3
<1>11. QED
  BY <1>0, <1>1, <1>3, <1>4, <1>7, <1>8, <1>9, <1>10 DEF p, d

(***************************************************************************)
(* What a list of two parts holds.                                         *)
(***************************************************************************)
LEMMA ConcatContains ==
  ASSUME NEW S, NEW s \in Seq(S), NEW t \in Seq(S)
  PROVE  /\ \A x : Contains(s \o t, x) <=> Contains(s, x) \/ Contains(t, x)
         /\ IsInjective(s \o t) <=>
              /\ IsInjective(s) /\ IsInjective(t)
              /\ \A x : ~(Contains(s, x) /\ Contains(t, x))
<1> DEFINE r == s \o t
<1>1. /\ Len(s) \in Nat /\ Len(t) \in Nat
      /\ DOMAIN s = 1..Len(s) /\ DOMAIN t = 1..Len(t)
  BY LenProperties
<1>2. /\ r \in Seq(S) /\ Len(r) = Len(s) + Len(t)
      /\ \A i \in 1..Len(s) + Len(t) :
           r[i] = IF i <= Len(s) THEN s[i] ELSE t[i - Len(s)]
  BY ConcatProperties
<1> HIDE DEF r
<1>3. DOMAIN r = 1..Len(s) + Len(t)
  BY <1>2, LenProperties
<1>4. \A i \in 1..Len(s) : i \in 1..Len(r) /\ r[i] = s[i]
  BY <1>1, <1>2
<1>5. ASSUME NEW i \in 1..Len(t)
      PROVE  Len(s) + i \in 1..Len(r) /\ r[Len(s) + i] = t[i]
  <2>1. /\ Len(s) + i \in 1..Len(s) + Len(t) /\ ~(Len(s) + i <= Len(s))
        /\ (Len(s) + i) - Len(s) = i
    BY <1>1
  <2>2. QED
    BY <1>2, <2>1
<1>6. ASSUME NEW i \in 1..Len(r)
      PROVE  \/ i \in 1..Len(s) /\ r[i] = s[i]
             \/ i - Len(s) \in 1..Len(t) /\ r[i] = t[i - Len(s)]
  BY <1>1, <1>2
<1>7. \A x : Contains(r, x) <=> Contains(s, x) \/ Contains(t, x)
  BY <1>4, <1>5, <1>6 DEF Contains
<1>8. ASSUME IsInjective(r)
      PROVE  /\ IsInjective(s) /\ IsInjective(t)
             /\ \A x : ~(Contains(s, x) /\ Contains(t, x))
  <2>1. \A i, j \in 1..Len(r) : r[i] = r[j] => i = j
    BY <1>2, <1>3, <1>8 DEF IsInjective
  <2>2. \A i, j \in 1..Len(s) : s[i] = s[j] => i = j
    BY <1>4, <2>1
  <2>3. \A i, j \in 1..Len(t) : t[i] = t[j] => i = j
    <3> SUFFICES ASSUME NEW i \in 1..Len(t), NEW j \in 1..Len(t), t[i] = t[j]
                 PROVE  i = j
      OBVIOUS
    <3>1. Len(s) + i = Len(s) + j
      BY <1>5, <2>1
    <3>2. QED
      BY <1>1, <3>1
  <2>4. ASSUME NEW x, NEW i \in 1..Len(s), NEW j \in 1..Len(t), s[i] = x, t[j] = x
        PROVE  FALSE
    <3>1. i = Len(s) + j
      BY <1>4, <1>5, <2>1, <2>4
    <3>2. QED
      BY <1>1, <3>1
  <2>5. QED
    BY <1>1, <2>2, <2>3, <2>4 DEF IsInjective, Contains
<1>9. ASSUME IsInjective(s), IsInjective(t),
             \A x : ~(Contains(s, x) /\ Contains(t, x))
      PROVE  IsInjective(r)
  <2> SUFFICES ASSUME NEW i \in 1..Len(r), NEW j \in 1..Len(r), r[i] = r[j]
               PROVE  i = j
    BY <1>2, <1>3 DEF IsInjective
  <2>1. CASE i \in 1..Len(s) /\ r[i] = s[i] /\ j \in 1..Len(s) /\ r[j] = s[j]
    BY <1>1, <1>9, <2>1 DEF IsInjective
  <2>2. ASSUME NEW k \in 1..Len(r), NEW l \in 1..Len(r), r[k] = r[l],
               k \in 1..Len(s), r[k] = s[k],
               l - Len(s) \in 1..Len(t), r[l] = t[l - Len(s)]
        PROVE  FALSE
    BY <1>9, <2>2 DEF Contains
  <2>3. CASE /\ i - Len(s) \in 1..Len(t) /\ r[i] = t[i - Len(s)]
             /\ j - Len(s) \in 1..Len(t) /\ r[j] = t[j - Len(s)]
    <3>1. i - Len(s) = j - Len(s)
      BY <1>1, <1>9, <2>3 DEF IsInjective
    <3>2. QED
      BY <1>1, <1>2, <3>1
  <2>4. QED
    BY <1>6, <2>1, <2>2, <2>3
<1>10. QED
  BY <1>7, <1>8, <1>9 DEF r

-----------------------------------------------------------------------------
(***************************************************************************)
(* The inductive invariant.  A fetcher is begun once at a time: there is   *)
(* one step that admits or starts it, or it is in the line, or neither.    *)
(***************************************************************************)
Pending(t, i, op, f) == i \in DOMAIN todo[t] /\ todo[t][i] = <<op, f>>

Comes(t, i, f) == Pending(t, i, "admit", f) \/ Pending(t, i, "start", f)

ComesOnce ==
  \A f \in Fetchers, t \in Threads, u \in Threads, i \in Nat, j \in Nat :
    Comes(t, i, f) /\ Comes(u, j, f) => t = u /\ i = j

ComesWhenBegun ==
  \A f \in Fetchers, t \in Threads, i \in Nat :
    Comes(t, i, f) => work[f] = "begun"

DelayedAreBegun ==
  \A f \in Fetchers :
    Contains(delayed, f) =>
      /\ work[f] = "begun"
      /\ \A t \in Threads, i \in Nat : ~Comes(t, i, f)

ListsAreSets ==
  /\ IsInjective(running) /\ IsInjective(delayed)
  /\ \A f \in Fetchers : ~(Contains(running, f) /\ Contains(delayed, f))

\* Only a fetcher that is stopped or over leaves for good.
LeavesAtTheEnd ==
  \A f \in Fetchers, t \in Threads, i \in Nat :
    Pending(t, i, "check", f) \/ Pending(t, i, "leave", f) =>
      f \in stopped \/ work[f] = "over" \/ Pending(t, i + 1, "admit", f)

StartHoldsSlot ==
  \A f \in Fetchers \ stopped, t \in Threads, i \in Nat :
    Pending(t, i, "start", f) => Contains(running, f)

DecidesAlone ==
  \A f \in Fetchers, t \in Threads, i \in Nat :
    Pending(t, i, "decide", f) =>
      /\ t = "main" /\ work[f] = "deciding"
      /\ \A j \in Nat : \A op, g : Pending(t, j, op, g) => j = i

ServiceInv ==
  /\ ServiceTypeOK
  /\ ListsAreSets
  /\ ComesOnce
  /\ ComesWhenBegun
  /\ DelayedAreBegun
  /\ LeavesAtTheEnd
  /\ StartHoldsSlot
  /\ DecidesAlone
  /\ AtWorkHoldsSlot
  /\ SlotsAreUsed

-----------------------------------------------------------------------------
(***************************************************************************)
(* What is pending after a thread has gone on with its call or begun one.  *)
(***************************************************************************)
LEMMA ThenPending ==
  ASSUME todo \in [Threads -> Seq(Ops \X Fetchers)],
         NEW t \in Threads, todo[t] # <<>>,
         NEW steps \in Seq(Ops \X Fetchers), Then(t, steps)
  PROVE  /\ todo' \in [Threads -> Seq(Ops \X Fetchers)]
         /\ \A u \in Threads \ {t} : todo'[u] = todo[u]
         /\ Len(todo'[t]) = Len(steps) + Len(todo[t]) - 1
         /\ \A i \in 1..Len(todo'[t]) :
              todo'[t][i] = IF i <= Len(steps) THEN steps[i]
                                               ELSE todo[t][i - Len(steps) + 1]
<1>1. todo[t] \in Seq(Ops \X Fetchers)
  OBVIOUS
<1>2. /\ Tail(todo[t]) \in Seq(Ops \X Fetchers)
      /\ Len(Tail(todo[t])) = Len(todo[t]) - 1
      /\ \A i \in 1..Len(Tail(todo[t])) : Tail(todo[t])[i] = todo[t][i + 1]
  BY <1>1, HeadTailProperties
<1>3. /\ steps \o Tail(todo[t]) \in Seq(Ops \X Fetchers)
      /\ Len(steps \o Tail(todo[t])) = Len(steps) + Len(Tail(todo[t]))
      /\ \A i \in 1..Len(steps) + Len(Tail(todo[t])) :
           (steps \o Tail(todo[t]))[i] =
             IF i <= Len(steps) THEN steps[i] ELSE Tail(todo[t])[i - Len(steps)]
  BY <1>2, ConcatProperties
<1>4. todo' = [todo EXCEPT ![t] = steps \o Tail(todo[t])]
  BY DEF Then
<1>5. /\ todo' \in [Threads -> Seq(Ops \X Fetchers)]
      /\ todo'[t] = steps \o Tail(todo[t])
      /\ \A u \in Threads \ {t} : todo'[u] = todo[u]
  BY <1>3, <1>4
<1>6. Len(todo'[t]) = Len(steps) + Len(todo[t]) - 1
  BY <1>1, <1>2, <1>3, <1>5, LenProperties
<1>7. ASSUME NEW i \in 1..Len(todo'[t])
      PROVE  todo'[t][i] = IF i <= Len(steps) THEN steps[i]
                                              ELSE todo[t][i - Len(steps) + 1]
  <2>1. Len(steps) \in Nat /\ Len(todo[t]) \in Nat
    BY <1>1, LenProperties
  <2>2. i \in 1..Len(steps) + Len(Tail(todo[t]))
    BY <1>2, <1>6, <2>1
  <2>3. CASE i <= Len(steps)
    BY <1>3, <1>5, <2>2, <2>3
  <2>4. CASE ~(i <= Len(steps))
    <3>1. i - Len(steps) \in 1..Len(Tail(todo[t]))
      BY <1>2, <2>1, <2>2, <2>4
    <3>2. QED
      BY <1>2, <1>3, <1>5, <2>2, <2>4, <3>1
  <2>5. QED
    BY <2>3, <2>4
<1>8. QED
  BY <1>5, <1>6, <1>7

LEMMA ThenMany ==
  ASSUME todo \in [Threads -> Seq(Ops \X Fetchers)],
         NEW t \in Threads, todo[t] # <<>>,
         NEW steps \in Seq(Ops \X Fetchers), Then(t, steps)
  PROVE  \A i \in Nat : \A op, g :
           Pending(t, i, op, g)' <=>
             \/ i \in 1..Len(steps) /\ steps[i] = <<op, g>>
             \/ i > Len(steps) /\ Pending(t, i - Len(steps) + 1, op, g)
<1>1. todo[t] \in Seq(Ops \X Fetchers)
  OBVIOUS
<1>2. /\ todo' \in [Threads -> Seq(Ops \X Fetchers)]
      /\ Len(todo'[t]) = Len(steps) + Len(todo[t]) - 1
      /\ \A i \in 1..Len(todo'[t]) :
           todo'[t][i] = IF i <= Len(steps) THEN steps[i]
                                            ELSE todo[t][i - Len(steps) + 1]
  BY ThenPending
<1>3. /\ DOMAIN todo[t] = 1..Len(todo[t]) /\ Len(todo[t]) \in Nat \ {0}
      /\ Len(steps) \in Nat
  BY <1>1, LenProperties, EmptySeq
<1>4. DOMAIN todo'[t] = 1..Len(todo'[t])
  <2>1. todo'[t] \in Seq(Ops \X Fetchers)
    BY <1>2
  <2>2. QED
    BY <2>1, LenProperties
<1> SUFFICES ASSUME NEW i \in Nat, NEW op, NEW g
             PROVE  Pending(t, i, op, g)' <=>
                      \/ i \in 1..Len(steps) /\ steps[i] = <<op, g>>
                      \/ i > Len(steps) /\ Pending(t, i - Len(steps) + 1, op, g)
  OBVIOUS
<1>5. Pending(t, i, op, g)' <=> i \in DOMAIN todo'[t] /\ todo'[t][i] = <<op, g>>
  BY DEF Pending
<1>6. CASE i \in 1..Len(steps)
  <2>1. i \in 1..Len(todo'[t]) /\ i <= Len(steps)
    BY <1>2, <1>3, <1>6
  <2>2. i \in DOMAIN todo'[t] /\ todo'[t][i] = steps[i]
    BY <1>2, <1>4, <2>1
  <2>3. QED
    BY <1>3, <1>5, <1>6, <2>2
<1>7. CASE i > Len(steps)
  <2>1. i \in 1..Len(todo'[t]) <=> i - Len(steps) + 1 \in 1..Len(todo[t])
    BY <1>2, <1>3, <1>7
  <2>2. i \in 1..Len(todo'[t]) => todo'[t][i] = todo[t][i - Len(steps) + 1]
    BY <1>2, <1>3, <1>7
  <2>3. QED
    BY <1>3, <1>4, <1>5, <1>7, <2>1, <2>2 DEF Pending
<1>8. CASE i = 0
  <2>1. i \notin DOMAIN todo'[t]
    BY <1>4, <1>8
  <2>2. QED
    BY <1>3, <1>5, <1>8, <2>1
<1>9. QED
  BY <1>3, <1>6, <1>7, <1>8

\* The call goes on, and what is left of it comes one step sooner.
LEMMA ThenNothing ==
  ASSUME todo \in [Threads -> Seq(Ops \X Fetchers)],
         NEW t \in Threads, todo[t] # <<>>, Then(t, <<>>)
  PROVE  /\ todo' \in [Threads -> Seq(Ops \X Fetchers)]
         /\ \A u \in Threads, i \in Nat : \A op, g :
              Pending(u, i, op, g)' <=>
                IF u = t THEN i > 0 /\ Pending(t, i + 1, op, g)
                         ELSE Pending(u, i, op, g)
<1>1. /\ <<>> \in Seq(Ops \X Fetchers) /\ Len(<<>>) = 0
      /\ todo[t] \in Seq(Ops \X Fetchers)
  BY EmptySeq
<1>2. /\ todo' \in [Threads -> Seq(Ops \X Fetchers)]
      /\ \A u \in Threads \ {t} : todo'[u] = todo[u]
      /\ Len(todo'[t]) = Len(todo[t]) - 1
      /\ \A i \in 1..Len(todo'[t]) : todo'[t][i] = todo[t][i + 1]
  <2>1. /\ todo' \in [Threads -> Seq(Ops \X Fetchers)]
        /\ \A u \in Threads \ {t} : todo'[u] = todo[u]
        /\ Len(todo'[t]) = Len(<<>>) + Len(todo[t]) - 1
        /\ \A i \in 1..Len(todo'[t]) :
              todo'[t][i] = IF i <= Len(<<>>) THEN <<>>[i]
                                              ELSE todo[t][i - Len(<<>>) + 1]
    BY <1>1, ThenPending
  <2>2. Len(todo[t]) \in Nat
    BY <1>1, LenProperties
  <2>3. QED
    BY <1>1, <2>1, <2>2
<1>3. /\ DOMAIN todo[t] = 1..Len(todo[t]) /\ Len(todo[t]) \in Nat
      /\ DOMAIN todo'[t] = 1..Len(todo'[t])
  BY <1>1, <1>2, LenProperties
<1>4. QED
  BY <1>2, <1>3 DEF Pending

\* The call goes on with one more step.
LEMMA ThenOne ==
  ASSUME todo \in [Threads -> Seq(Ops \X Fetchers)],
         NEW t \in Threads, todo[t] # <<>>,
         NEW p \in Ops, NEW f \in Fetchers, Then(t, <<<<p, f>>>>)
  PROVE  /\ todo' \in [Threads -> Seq(Ops \X Fetchers)]
         /\ \A u \in Threads, i \in Nat : \A op, g :
              Pending(u, i, op, g)' <=>
                IF u = t THEN \/ i = 1 /\ op = p /\ g = f
                              \/ i > 1 /\ Pending(t, i, op, g)
                         ELSE Pending(u, i, op, g)
<1> DEFINE steps == <<<<p, f>>>>
<1>1. /\ steps \in Seq(Ops \X Fetchers) /\ Len(steps) = 1
      /\ steps[1] = <<p, f>>
      /\ todo[t] \in Seq(Ops \X Fetchers)
  OBVIOUS
<1> HIDE DEF steps
<1>2. /\ todo' \in [Threads -> Seq(Ops \X Fetchers)]
      /\ \A u \in Threads \ {t} : todo'[u] = todo[u]
      /\ Len(todo'[t]) = Len(todo[t])
      /\ \A i \in 1..Len(todo'[t]) :
           todo'[t][i] = IF i <= 1 THEN <<p, f>> ELSE todo[t][i]
  <2>1. /\ todo' \in [Threads -> Seq(Ops \X Fetchers)]
        /\ \A u \in Threads \ {t} : todo'[u] = todo[u]
        /\ Len(todo'[t]) = Len(steps) + Len(todo[t]) - 1
        /\ \A i \in 1..Len(todo'[t]) :
              todo'[t][i] = IF i <= Len(steps) THEN steps[i]
                                              ELSE todo[t][i - Len(steps) + 1]
    BY <1>1, ThenPending DEF steps
  <2>2. Len(todo[t]) \in Nat
    BY <1>1, LenProperties
  <2>3. QED
    BY <1>1, <2>1, <2>2
<1>3. /\ DOMAIN todo[t] = 1..Len(todo[t]) /\ Len(todo[t]) \in Nat \ {0}
      /\ DOMAIN todo'[t] = 1..Len(todo'[t])
  BY <1>1, <1>2, LenProperties, EmptySeq
<1>4. QED
  BY <1>2, <1>3 DEF Pending

\* The call goes on with two more steps.
LEMMA ThenTwo ==
  ASSUME todo \in [Threads -> Seq(Ops \X Fetchers)],
         NEW t \in Threads, todo[t] # <<>>, NEW f \in Fetchers,
         NEW p \in Ops, NEW q \in Ops, Then(t, <<<<p, f>>, <<q, f>>>>)
  PROVE  /\ todo' \in [Threads -> Seq(Ops \X Fetchers)]
         /\ \A u \in Threads, i \in Nat : \A op, g :
              Pending(u, i, op, g)' <=>
                IF u = t THEN \/ i = 1 /\ op = p /\ g = f
                              \/ i = 2 /\ op = q /\ g = f
                              \/ i > 2 /\ Pending(t, i - 1, op, g)
                         ELSE Pending(u, i, op, g)
<1> DEFINE steps == <<<<p, f>>, <<q, f>>>>
<1>1. /\ steps \in Seq(Ops \X Fetchers) /\ Len(steps) = 2
      /\ steps[1] = <<p, f>> /\ steps[2] = <<q, f>>
      /\ todo[t] \in Seq(Ops \X Fetchers)
  OBVIOUS
<1> HIDE DEF steps
<1>2. /\ todo' \in [Threads -> Seq(Ops \X Fetchers)]
      /\ \A u \in Threads \ {t} : todo'[u] = todo[u]
      /\ Len(todo'[t]) = Len(todo[t]) + 1
      /\ \A i \in 1..Len(todo'[t]) :
           todo'[t][i] = IF i = 1 THEN <<p, f>> ELSE
                         IF i = 2 THEN <<q, f>> ELSE todo[t][i - 1]
  <2>1. /\ todo' \in [Threads -> Seq(Ops \X Fetchers)]
        /\ \A u \in Threads \ {t} : todo'[u] = todo[u]
        /\ Len(todo'[t]) = Len(steps) + Len(todo[t]) - 1
        /\ \A i \in 1..Len(todo'[t]) :
              todo'[t][i] = IF i <= Len(steps) THEN steps[i]
                                              ELSE todo[t][i - Len(steps) + 1]
    BY <1>1, ThenPending DEF steps
  <2>2. Len(todo[t]) \in Nat
    BY <1>1, LenProperties
  <2>3. QED
    BY <1>1, <2>1, <2>2
<1>3. /\ DOMAIN todo[t] = 1..Len(todo[t]) /\ Len(todo[t]) \in Nat \ {0}
      /\ DOMAIN todo'[t] = 1..Len(todo'[t])
  BY <1>1, <1>2, LenProperties, EmptySeq
<1>4. QED
  BY <1>2, <1>3 DEF Pending

\* A thread that has nothing to do begins a call.
LEMMA EnterPending ==
  ASSUME todo \in [Threads -> Seq(Ops \X Fetchers)],
         NEW t \in Threads, NEW steps \in Seq(Ops \X Fetchers), Enter(t, steps)
  PROVE  /\ todo' \in [Threads -> Seq(Ops \X Fetchers)]
         /\ \A i, op, g : ~Pending(t, i, op, g)
         /\ \A u \in Threads, i \in Nat : \A op, g :
              Pending(u, i, op, g)' <=>
                IF u = t THEN i \in 1..Len(steps) /\ steps[i] = <<op, g>>
                         ELSE Pending(u, i, op, g)
<1>1. /\ todo' \in [Threads -> Seq(Ops \X Fetchers)] /\ todo'[t] = steps
      /\ \A u \in Threads \ {t} : todo'[u] = todo[u]
  BY DEF Enter
<1>2. DOMAIN steps = 1..Len(steps)
  BY LenProperties
<1>3. DOMAIN todo[t] = {}
  BY EmptySeq, LenProperties DEF Enter
<1>4. QED
  BY <1>1, <1>2, <1>3 DEF Pending

LEMMA EnterOne ==
  ASSUME todo \in [Threads -> Seq(Ops \X Fetchers)],
         NEW t \in Threads, NEW p \in Ops, NEW f \in Fetchers,
         Enter(t, <<<<p, f>>>>)
  PROVE  /\ todo' \in [Threads -> Seq(Ops \X Fetchers)]
         /\ \A i, op, g : ~Pending(t, i, op, g)
         /\ \A u \in Threads, i \in Nat : \A op, g :
              Pending(u, i, op, g)' <=>
                IF u = t THEN i = 1 /\ op = p /\ g = f ELSE Pending(u, i, op, g)
<1> DEFINE steps == <<<<p, f>>>>
<1>1. steps \in Seq(Ops \X Fetchers) /\ Len(steps) = 1 /\ steps[1] = <<p, f>>
  OBVIOUS
<1> HIDE DEF steps
<1>2. /\ todo' \in [Threads -> Seq(Ops \X Fetchers)]
      /\ \A i, op, g : ~Pending(t, i, op, g)
      /\ \A u \in Threads, i \in Nat : \A op, g :
           Pending(u, i, op, g)' <=>
             IF u = t THEN i \in 1..Len(steps) /\ steps[i] = <<op, g>>
                      ELSE Pending(u, i, op, g)
  BY <1>1, EnterPending DEF steps
<1>3. ASSUME NEW i \in Nat, NEW op, NEW g
      PROVE  i \in 1..Len(steps) /\ steps[i] = <<op, g>>
               <=> i = 1 /\ op = p /\ g = f
  <2>1. i \in 1..Len(steps) <=> i = 1
    BY <1>1
  <2>2. <<p, f>> = <<op, g>> <=> op = p /\ g = f
    OBVIOUS
  <2>3. QED
    BY <1>1, <2>1, <2>2
<1>4. ASSUME NEW u \in Threads, NEW i \in Nat, NEW op, NEW g
      PROVE  Pending(u, i, op, g)' <=>
               IF u = t THEN i = 1 /\ op = p /\ g = f ELSE Pending(u, i, op, g)
  <2>1. CASE u = t
    <3>1. Pending(u, i, op, g)' <=> i \in 1..Len(steps) /\ steps[i] = <<op, g>>
      BY <1>2, <2>1
    <3>2. QED
      BY <1>3, <2>1, <3>1
  <2>2. CASE u # t
    BY <1>2, <2>2
  <2>3. QED
    BY <2>1, <2>2
<1>5. QED
  BY <1>2, <1>4

\* The step a thread is at is the first one pending.
LEMMA DoingIsPending ==
  ASSUME todo \in [Threads -> Seq(Ops \X Fetchers)],
         NEW t \in Threads, NEW op, NEW f, Doing(t, op, f)
  PROVE  todo[t] # <<>> /\ Pending(t, 1, op, f)
<1>1. todo[t] \in Seq(Ops \X Fetchers) /\ todo[t] # <<>>
  BY DEF Doing
<1>2. Len(todo[t]) \in Nat \ {0} /\ DOMAIN todo[t] = 1..Len(todo[t])
  BY <1>1, EmptySeq, LenProperties
<1>3. QED
  BY <1>1, <1>2 DEF Doing, Pending

\* Positions are positive, and what is pending is a step about a fetcher.
LEMMA PendingProperties ==
  ASSUME todo \in [Threads -> Seq(Ops \X Fetchers)],
         NEW t \in Threads, NEW i, NEW op, NEW f, Pending(t, i, op, f)
  PROVE  i \in Nat \ {0} /\ op \in Ops /\ f \in Fetchers
<1>1. todo[t] \in Seq(Ops \X Fetchers)
  OBVIOUS
<1>2. i \in 1..Len(todo[t]) /\ Len(todo[t]) \in Nat
  BY <1>1, LenProperties DEF Pending
<1>3. todo[t][i] \in Ops \X Fetchers
  BY <1>1, <1>2, ElementOfSeq
<1>4. QED
  BY <1>2, <1>3 DEF Pending

-----------------------------------------------------------------------------
(***************************************************************************)
(* Every step keeps the invariant.                                         *)
(***************************************************************************)
LEMMA InitServiceInv == Init => ServiceInv
<1> SUFFICES ASSUME Init
             PROVE  ServiceInv
  OBVIOUS
<1>1. ServiceTypeOK
  BY MaxRunningAssumption, BoundsAssumption, EmptySeq
     DEF Init, ServiceTypeOK, Works
<1>2. \A t \in Threads : \A i, op, f : ~Pending(t, i, op, f)
  <2>1. DOMAIN <<>> = {}
    BY EmptySeq, LenProperties
  <2>2. QED
    BY <2>1 DEF Init, Pending
<1>3. ListsAreSets /\ SlotsAreUsed /\ DelayedAreBegun
  BY EmptySeq DEF Init, ListsAreSets, SlotsAreUsed, DelayedAreBegun, Contains,
     IsInjective
<1>4. /\ ComesOnce /\ ComesWhenBegun /\ LeavesAtTheEnd
      /\ StartHoldsSlot /\ DecidesAlone
  BY <1>2 DEF ComesOnce, ComesWhenBegun, LeavesAtTheEnd, StartHoldsSlot,
     DecidesAlone, Comes
<1>5. AtWorkHoldsSlot
  BY DEF Init, AtWorkHoldsSlot
<1>6. QED
  BY <1>1, <1>3, <1>4, <1>5 DEF ServiceInv

\* Who comes after the step came before it, at a place of its own.
LEMMA ComesShifted ==
  ASSUME ComesOnce, NEW t \in Threads, NEW d \in -1..1,
         \A u \in Threads, i \in Nat, g \in Fetchers :
           Comes(u, i, g)' => /\ (IF u = t THEN i + d ELSE i) \in Nat
                              /\ Comes(u, IF u = t THEN i + d ELSE i, g)
  PROVE  ComesOnce'
<1> SUFFICES ASSUME NEW g \in Fetchers, NEW u \in Threads, NEW v \in Threads,
                    NEW i \in Nat, NEW j \in Nat,
                    Comes(u, i, g)', Comes(v, j, g)'
             PROVE  u = v /\ i = j
  BY DEF ComesOnce
<1>1. /\ u = v
      /\ (IF u = t THEN i + d ELSE i) = (IF v = t THEN j + d ELSE j)
  BY DEF ComesOnce
<1>2. QED
  BY <1>1

\* A step that lets nobody begin, and moves no list.
LEMMA QuietStep ==
  ASSUME ServiceInv, UNCHANGED lists, stopped \subseteq stopped',
         NEW t \in Threads, NEW d \in 0..1,
         \A u \in Threads, i \in Nat, op \in {"admit", "start"}, g \in Fetchers :
           Pending(u, i, op, g)' => Pending(u, IF u = t THEN i + d ELSE i, op, g),
         \A g \in Fetchers : work[g] = "begun" => work'[g] = "begun"
  PROVE  /\ ListsAreSets' /\ SlotsAreUsed' /\ ComesOnce' /\ ComesWhenBegun'
         /\ DelayedAreBegun' /\ StartHoldsSlot'
<1>1. ListsAreSets' /\ SlotsAreUsed'
  BY DEF ServiceInv, ListsAreSets, SlotsAreUsed, lists
<1>2. ASSUME NEW u \in Threads, NEW i \in Nat, NEW g \in Fetchers, Comes(u, i, g)'
      PROVE  /\ (IF u = t THEN i + d ELSE i) \in Nat
             /\ Comes(u, IF u = t THEN i + d ELSE i, g)
  BY <1>2 DEF Comes
<1>3. ComesOnce'
  <2>1. d \in -1..1
    OBVIOUS
  <2>2. QED
    BY <1>2, <2>1, ComesShifted DEF ServiceInv
<1>4. ComesWhenBegun'
  BY <1>2 DEF ServiceInv, ComesWhenBegun
<1>5. DelayedAreBegun'
  BY <1>2 DEF ServiceInv, DelayedAreBegun, lists
<1>6. StartHoldsSlot'
  <2> SUFFICES ASSUME NEW g \in Fetchers \ stopped', NEW u \in Threads,
                      NEW i \in Nat, Pending(u, i, "start", g)'
               PROVE  Contains(running, g)
    BY DEF StartHoldsSlot, lists
  <2>1. Pending(u, IF u = t THEN i + d ELSE i, "start", g)
    OBVIOUS
  <2>2. QED
    BY <2>1 DEF ServiceInv, StartHoldsSlot
<1>7. QED
  BY <1>1, <1>3, <1>4, <1>5, <1>6

\* A thread that is at another step has no decision pending.
LEMMA NoDecisionBehind ==
  ASSUME DecidesAlone, todo \in [Threads -> Seq(Ops \X Fetchers)],
         NEW t \in Threads, NEW op, NEW f, Pending(t, 1, op, f), op # "decide"
  PROVE  \A i \in Nat, g \in Fetchers : ~Pending(t, i, "decide", g)
<1> SUFFICES ASSUME NEW i \in Nat, NEW g \in Fetchers, Pending(t, i, "decide", g)
             PROVE  FALSE
  OBVIOUS
<1>1. i = 1
  BY DEF DecidesAlone
<1>2. QED
  BY <1>1 DEF Pending

LEMMA SetHostKeepsInv ==
  ASSUME ServiceInv, NEW t \in Threads, NEW f \in Fetchers, SetHost(t, f)
  PROVE  ServiceInv'
<1>1. todo \in [Threads -> Seq(Ops \X Fetchers)]
  BY DEF ServiceInv, ServiceTypeOK
<1>2. /\ todo' \in [Threads -> Seq(Ops \X Fetchers)]
      /\ \A u \in Threads, i \in Nat : \A op, g :
           Pending(u, i, op, g)' <=>
             IF u = t THEN i > 0 /\ Pending(t, i + 1, op, g)
                      ELSE Pending(u, i, op, g)
  BY <1>1, DoingIsPending, ThenNothing DEF SetHost
<1>3. ServiceTypeOK'
  BY <1>2 DEF ServiceInv, ServiceTypeOK, SetHost, lists, counters
<1>4. /\ ListsAreSets' /\ SlotsAreUsed' /\ ComesOnce' /\ ComesWhenBegun'
      /\ DelayedAreBegun' /\ StartHoldsSlot'
  <2>1. \A u \in Threads, i \in Nat, op \in {"admit", "start"}, g \in Fetchers :
          Pending(u, i, op, g)' => Pending(u, IF u = t THEN i + 1 ELSE i, op, g)
    BY <1>2
  <2>2. UNCHANGED <<lists, work, stopped>>
    BY DEF SetHost
  <2>3. QED
    BY <2>1, <2>2, QuietStep
<1>5. AtWorkHoldsSlot'
  BY DEF ServiceInv, AtWorkHoldsSlot, SetHost, lists
<1>6. LeavesAtTheEnd'
  BY <1>2 DEF ServiceInv, LeavesAtTheEnd, SetHost
<1>7. DecidesAlone'
  BY <1>1, <1>2, DoingIsPending DEF ServiceInv, DecidesAlone, SetHost
<1>8. QED
  BY <1>3, <1>4, <1>5, <1>6, <1>7 DEF ServiceInv

LEMMA StartKeepsInv ==
  ASSUME ServiceInv, NEW t \in Threads, NEW f \in Fetchers, Start(t, f)
  PROVE  ServiceInv'
<1>1. todo \in [Threads -> Seq(Ops \X Fetchers)]
  BY DEF ServiceInv, ServiceTypeOK
<1>2. /\ todo' \in [Threads -> Seq(Ops \X Fetchers)]
      /\ \A u \in Threads, i \in Nat : \A op, g :
           Pending(u, i, op, g)' <=>
             IF u = t THEN i > 0 /\ Pending(t, i + 1, op, g)
                      ELSE Pending(u, i, op, g)
  BY <1>1, DoingIsPending, ThenNothing DEF Start
<1>3. /\ Pending(t, 1, "start", f) /\ work[f] = "begun" /\ f \in Fetchers
      /\ work' = [work EXCEPT ![f] = IF f \in stopped THEN "working"
                                                       ELSE "authorizing"]
      /\ work \in [Fetchers -> Works]
  BY <1>1, DoingIsPending
     DEF Start, ServiceInv, ServiceTypeOK, ComesWhenBegun, Comes
<1>4. ServiceTypeOK'
  BY <1>2, <1>3 DEF ServiceInv, ServiceTypeOK, Start, lists, counters, Works
<1>5. ListsAreSets' /\ SlotsAreUsed'
  BY DEF ServiceInv, ListsAreSets, SlotsAreUsed, Start, lists
<1>6. ASSUME NEW u \in Threads, NEW i \in Nat, NEW g \in Fetchers, Comes(u, i, g)'
      PROVE  /\ (IF u = t THEN i + 1 ELSE i) \in Nat
             /\ Comes(u, IF u = t THEN i + 1 ELSE i, g)
             /\ g # f
  <2>1. /\ (IF u = t THEN i + 1 ELSE i) \in Nat
        /\ Comes(u, IF u = t THEN i + 1 ELSE i, g)
        /\ u = t => i > 0
    BY <1>2, <1>6 DEF Comes
  <2>2. g = f => u = t /\ (IF u = t THEN i + 1 ELSE i) = 1
    BY <1>3, <2>1 DEF ServiceInv, ComesOnce, Comes
  <2>3. QED
    BY <2>1, <2>2
<1>7. ComesOnce'
  BY <1>6, ComesShifted DEF ServiceInv
<1>8. ComesWhenBegun'
  BY <1>3, <1>6 DEF ServiceInv, ComesWhenBegun
<1>9. DelayedAreBegun'
  <2>1. ~Contains(delayed, f)
    BY <1>3 DEF ServiceInv, DelayedAreBegun, Comes
  <2>2. QED
    BY <1>3, <1>6, <2>1 DEF ServiceInv, DelayedAreBegun, Start, lists
<1>10. StartHoldsSlot'
  BY <1>2 DEF ServiceInv, StartHoldsSlot, Start, lists
<1>11. LeavesAtTheEnd'
  <2> SUFFICES ASSUME NEW g \in Fetchers, NEW u \in Threads, NEW i \in Nat,
                      Pending(u, i, "check", g)' \/ Pending(u, i, "leave", g)'
               PROVE  \/ g \in stopped \/ work'[g] = "over"
                      \/ Pending(u, i + 1, "admit", g)'
    BY DEF LeavesAtTheEnd, Start
  <2> DEFINE k == IF u = t THEN i + 1 ELSE i
  <2>1. k \in Nat /\ (Pending(u, k, "check", g) \/ Pending(u, k, "leave", g))
    BY <1>2
  <2>2. \/ g \in stopped \/ work[g] = "over"
        \/ Pending(u, k + 1, "admit", g)
    BY <2>1 DEF ServiceInv, LeavesAtTheEnd
  <2>3. Pending(u, k + 1, "admit", g) => Pending(u, i + 1, "admit", g)'
    BY <1>2
  <2>4. work[g] = "over" => work'[g] = "over"
    BY <1>3
  <2>5. QED
    BY <2>2, <2>3, <2>4
<1>12. DecidesAlone'
  BY <1>1, <1>2, <1>3, DoingIsPending DEF ServiceInv, DecidesAlone, Start
<1>13. AtWorkHoldsSlot'
  BY <1>3 DEF ServiceInv, AtWorkHoldsSlot, StartHoldsSlot, Start, lists
<1>14. QED
  BY <1>4, <1>5, <1>7, <1>8, <1>9, <1>10, <1>11, <1>12, <1>13 DEF ServiceInv

LEMMA ClearHostKeepsInv ==
  ASSUME ServiceInv, NEW t \in Threads, NEW f \in Fetchers, ClearHost(t, f)
  PROVE  ServiceInv'
<1>1. todo \in [Threads -> Seq(Ops \X Fetchers)]
  BY DEF ServiceInv, ServiceTypeOK
<1>2. /\ todo' \in [Threads -> Seq(Ops \X Fetchers)]
      /\ \A u \in Threads, i \in Nat : \A op, g :
           Pending(u, i, op, g)' <=>
             IF u = t THEN i > 0 /\ Pending(t, i + 1, op, g)
                      ELSE Pending(u, i, op, g)
  BY <1>1, DoingIsPending, ThenNothing DEF ClearHost
<1>3. ServiceTypeOK'
  BY <1>2 DEF ServiceInv, ServiceTypeOK, ClearHost, lists, counters
<1>4. /\ ListsAreSets' /\ SlotsAreUsed' /\ ComesOnce' /\ ComesWhenBegun'
      /\ DelayedAreBegun' /\ StartHoldsSlot'
  <2>1. \A u \in Threads, i \in Nat, op \in {"admit", "start"}, g \in Fetchers :
          Pending(u, i, op, g)' => Pending(u, IF u = t THEN i + 1 ELSE i, op, g)
    BY <1>2
  <2>2. UNCHANGED <<lists, work, stopped>>
    BY DEF ClearHost
  <2>3. QED
    BY <2>1, <2>2, QuietStep
<1>5. AtWorkHoldsSlot'
  BY DEF ServiceInv, AtWorkHoldsSlot, ClearHost, lists
<1>6. LeavesAtTheEnd'
  BY <1>2 DEF ServiceInv, LeavesAtTheEnd, ClearHost
<1>7. DecidesAlone'
  BY <1>1, <1>2, DoingIsPending DEF ServiceInv, DecidesAlone, ClearHost
<1>8. QED
  BY <1>3, <1>4, <1>5, <1>6, <1>7 DEF ServiceInv

LEMMA CheckKeepsInv ==
  ASSUME ServiceInv, NEW t \in Threads, NEW f \in Fetchers, Check(t, f)
  PROVE  ServiceInv'
<1>1. todo \in [Threads -> Seq(Ops \X Fetchers)]
  BY DEF ServiceInv, ServiceTypeOK
<1>2. Pending(t, 1, "check", f) /\ todo[t] # <<>>
  BY <1>1, DoingIsPending DEF Check
<1>3. UNCHANGED <<lists, host, work, stopped, answer, counters>>
  BY DEF Check
<1>4. AtWorkHoldsSlot'
  BY <1>3 DEF ServiceInv, AtWorkHoldsSlot, lists
<1>5. CASE f \notin host
  <2>1. /\ todo' \in [Threads -> Seq(Ops \X Fetchers)]
        /\ \A u \in Threads, i \in Nat : \A op, g :
             Pending(u, i, op, g)' <=>
               IF u = t THEN i > 0 /\ Pending(t, i + 1, op, g)
                        ELSE Pending(u, i, op, g)
    BY <1>1, <1>2, <1>5, ThenNothing DEF Check
  <2>2. ServiceTypeOK'
    BY <1>3, <2>1 DEF ServiceInv, ServiceTypeOK, lists, counters
  <2>3. /\ ListsAreSets' /\ SlotsAreUsed' /\ ComesOnce' /\ ComesWhenBegun'
        /\ DelayedAreBegun' /\ StartHoldsSlot'
    <3>1. \A u \in Threads, i \in Nat, op \in {"admit", "start"}, g \in Fetchers :
            Pending(u, i, op, g)' => Pending(u, IF u = t THEN i + 1 ELSE i, op, g)
      BY <2>1
    <3>2. QED
      BY <1>3, <3>1, QuietStep
  <2>4. LeavesAtTheEnd'
    BY <1>3, <2>1 DEF ServiceInv, LeavesAtTheEnd
  <2>5. DecidesAlone'
    BY <1>2, <1>3, <2>1 DEF ServiceInv, DecidesAlone
  <2>6. QED
    BY <1>4, <2>2, <2>3, <2>4, <2>5 DEF ServiceInv
<1>6. CASE f \in host
  <2>1. /\ todo' \in [Threads -> Seq(Ops \X Fetchers)]
        /\ \A u \in Threads, i \in Nat : \A op, g :
             Pending(u, i, op, g)' <=>
               IF u = t THEN \/ i = 1 /\ op = "leave" /\ g = f
                             \/ i > 1 /\ Pending(t, i, op, g)
                        ELSE Pending(u, i, op, g)
    <3>1. "leave" \in Ops
      BY DEF Ops
    <3>2. QED
      BY <1>1, <1>2, <1>6, <3>1, ThenOne DEF Check
  <2>2. ServiceTypeOK'
    BY <1>3, <2>1 DEF ServiceInv, ServiceTypeOK, lists, counters
  <2>3. /\ ListsAreSets' /\ SlotsAreUsed' /\ ComesOnce' /\ ComesWhenBegun'
        /\ DelayedAreBegun' /\ StartHoldsSlot'
    <3>1. \A u \in Threads, i \in Nat, op \in {"admit", "start"}, g \in Fetchers :
            Pending(u, i, op, g)' => Pending(u, IF u = t THEN i + 0 ELSE i, op, g)
      BY <2>1
    <3>2. QED
      BY <1>3, <3>1, QuietStep
  <2>4. LeavesAtTheEnd'
    <3> SUFFICES ASSUME NEW g \in Fetchers, NEW u \in Threads, NEW i \in Nat,
                        Pending(u, i, "check", g)' \/ Pending(u, i, "leave", g)'
                 PROVE  \/ g \in stopped \/ work[g] = "over"
                        \/ Pending(u, i + 1, "admit", g)'
      BY <1>3 DEF LeavesAtTheEnd
    <3>1. Pending(u, i, "check", g) \/ Pending(u, i, "leave", g)
      BY <1>2, <2>1
    <3>2. CASE g \in stopped \/ work[g] = "over"
      BY <3>2
    <3>3. CASE Pending(u, i + 1, "admit", g)
      BY <1>1, <2>1, <3>1, <3>3, PendingProperties
    <3>4. QED
      BY <3>1, <3>2, <3>3 DEF ServiceInv, LeavesAtTheEnd
  <2>5. DecidesAlone'
    <3>1. \A i \in Nat, g \in Fetchers : ~Pending(t, i, "decide", g)
      BY <1>1, <1>2, NoDecisionBehind DEF ServiceInv
    <3>2. QED
      BY <1>3, <2>1, <3>1 DEF ServiceInv, DecidesAlone
  <2>6. QED
    BY <1>4, <2>2, <2>3, <2>4, <2>5 DEF ServiceInv
<1>7. QED
  BY <1>5, <1>6

\* A fetcher that is not begun neither comes nor waits in line.
LEMMA NotBegun ==
  ASSUME ServiceInv, NEW f \in Fetchers, work[f] # "begun"
  PROVE  /\ \A t \in Threads, i \in Nat : ~Comes(t, i, f)
         /\ ~Contains(delayed, f)
BY DEF ServiceInv, ComesWhenBegun, DelayedAreBegun

\* A step that begins a fetcher.
LEMMA BeginningStep ==
  ASSUME ServiceInv, UNCHANGED <<lists, stopped>>,
         NEW t \in Threads, NEW k \in Nat, NEW f \in Fetchers,
         work[f] \in {"new", "retry"}, work' = [work EXCEPT ![f] = "begun"],
         \A u \in Threads, i \in Nat, op \in {"admit", "start"}, g \in Fetchers :
           Pending(u, i, op, g)' => \/ u = t /\ i = k /\ op = "admit" /\ g = f
                                   \/ Pending(u, i, op, g)
  PROVE  /\ ListsAreSets' /\ SlotsAreUsed' /\ ComesOnce' /\ ComesWhenBegun'
         /\ DelayedAreBegun' /\ StartHoldsSlot' /\ AtWorkHoldsSlot'
<1>1. ListsAreSets' /\ SlotsAreUsed'
  BY DEF ServiceInv, ListsAreSets, SlotsAreUsed, lists
<1>2. work \in [Fetchers -> Works]
  BY DEF ServiceInv, ServiceTypeOK
<1>3. ASSUME NEW u \in Threads, NEW i \in Nat, NEW g \in Fetchers, Comes(u, i, g)'
      PROVE  (u = t /\ i = k /\ g = f) \/ Comes(u, i, g)
  BY <1>3 DEF Comes
<1>4. /\ \A u \in Threads, i \in Nat : ~Comes(u, i, f)
      /\ ~Contains(delayed, f)
  BY NotBegun
<1>5. ComesOnce'
  BY <1>3, <1>4 DEF ServiceInv, ComesOnce
<1>6. ComesWhenBegun'
  BY <1>2, <1>3 DEF ServiceInv, ComesWhenBegun
<1>7. DelayedAreBegun'
  BY <1>2, <1>3, <1>4 DEF ServiceInv, DelayedAreBegun, lists
<1>8. StartHoldsSlot'
  <2> SUFFICES ASSUME NEW g \in Fetchers \ stopped, NEW u \in Threads,
                      NEW i \in Nat, Pending(u, i, "start", g)'
               PROVE  Contains(running, g)
    BY DEF StartHoldsSlot, lists
  <2>1. Pending(u, i, "start", g)
    OBVIOUS
  <2>2. QED
    BY <2>1 DEF ServiceInv, StartHoldsSlot
<1>9. AtWorkHoldsSlot'
  BY <1>2 DEF ServiceInv, AtWorkHoldsSlot, lists
<1>10. QED
  BY <1>1, <1>5, <1>6, <1>7, <1>8, <1>9

LEMMA BeginKeepsInv ==
  ASSUME ServiceInv, NEW f \in Fetchers, Begin(f)
  PROVE  ServiceInv'
<1>1. todo \in [Threads -> Seq(Ops \X Fetchers)]
  BY DEF ServiceInv, ServiceTypeOK
<1>2. /\ todo' \in [Threads -> Seq(Ops \X Fetchers)]
      /\ \A u \in Threads, i \in Nat : \A op, g :
           Pending(u, i, op, g)' <=>
             IF u = "storage" THEN i = 1 /\ op = "admit" /\ g = f
                              ELSE Pending(u, i, op, g)
  <2>1. "storage" \in Threads /\ "admit" \in Ops
    BY DEF Threads, Ops
  <2>2. QED
    BY <1>1, <2>1, EnterOne DEF Begin
<1>3. /\ work \in [Fetchers -> Works] /\ work[f] = "new"
      /\ work' = [work EXCEPT ![f] = "begun"]
      /\ UNCHANGED <<lists, host, stopped, answer, counters>>
  BY DEF Begin, Become, ServiceInv, ServiceTypeOK
<1>4. ServiceTypeOK'
  BY <1>2, <1>3 DEF ServiceInv, ServiceTypeOK, lists, counters, Works
<1>5. /\ ListsAreSets' /\ SlotsAreUsed' /\ ComesOnce' /\ ComesWhenBegun'
      /\ DelayedAreBegun' /\ StartHoldsSlot' /\ AtWorkHoldsSlot'
  <2>1. \A u \in Threads, i \in Nat, op \in {"admit", "start"}, g \in Fetchers :
          Pending(u, i, op, g)' =>
            \/ u = "storage" /\ i = 1 /\ op = "admit" /\ g = f
            \/ Pending(u, i, op, g)
    BY <1>2
  <2>2. "storage" \in Threads /\ 1 \in Nat
    BY DEF Threads
  <2>3. QED
    BY <1>3, <2>1, <2>2, BeginningStep
<1>6. LeavesAtTheEnd'
  BY <1>2, <1>3 DEF ServiceInv, LeavesAtTheEnd
<1>7. DecidesAlone'
  BY <1>2, <1>3 DEF ServiceInv, DecidesAlone
<1>8. QED
  BY <1>4, <1>5, <1>6, <1>7 DEF ServiceInv

LEMMA RetryFetchKeepsInv ==
  ASSUME ServiceInv, NEW f \in Fetchers, RetryFetch(f)
  PROVE  ServiceInv'
<1>1. todo \in [Threads -> Seq(Ops \X Fetchers)]
  BY DEF ServiceInv, ServiceTypeOK
<1>2. /\ todo' \in [Threads -> Seq(Ops \X Fetchers)]
      /\ \A u \in Threads, i \in Nat : \A op, g :
           Pending(u, i, op, g)' <=>
             IF u = "delegate" THEN \/ i = 1 /\ op = "check" /\ g = f
                                    \/ i = 2 /\ op = "admit" /\ g = f
                               ELSE Pending(u, i, op, g)
  <2> DEFINE steps == <<<<"check", f>>, <<"admit", f>>>>
  <2>1. "delegate" \in Threads /\ "admit" \in Ops /\ "check" \in Ops
    BY DEF Threads, Ops
  <2>2. /\ steps \in Seq(Ops \X Fetchers) /\ Len(steps) = 2
        /\ steps[1] = <<"check", f>> /\ steps[2] = <<"admit", f>>
    BY <2>1
  <2> HIDE DEF steps
  <2>3. /\ todo' \in [Threads -> Seq(Ops \X Fetchers)]
        /\ \A u \in Threads, i \in Nat : \A op, g :
             Pending(u, i, op, g)' <=>
               IF u = "delegate" THEN i \in 1..Len(steps) /\ steps[i] = <<op, g>>
                                 ELSE Pending(u, i, op, g)
    BY <1>1, <2>1, <2>2, EnterPending DEF RetryFetch, steps
  <2>4. ASSUME NEW i \in Nat, NEW op, NEW g
        PROVE  i \in 1..Len(steps) /\ steps[i] = <<op, g>>
                 <=> \/ i = 1 /\ op = "check" /\ g = f
                     \/ i = 2 /\ op = "admit" /\ g = f
    <3>1. i \in 1..Len(steps) <=> i = 1 \/ i = 2
      BY <2>2
    <3>2. /\ <<"check", f>> = <<op, g>> <=> op = "check" /\ g = f
          /\ <<"admit", f>> = <<op, g>> <=> op = "admit" /\ g = f
      OBVIOUS
    <3>3. QED
      BY <2>2, <3>1, <3>2
  <2>5. ASSUME NEW u \in Threads, NEW i \in Nat, NEW op, NEW g
        PROVE  Pending(u, i, op, g)' <=>
                 IF u = "delegate" THEN \/ i = 1 /\ op = "check" /\ g = f
                                        \/ i = 2 /\ op = "admit" /\ g = f
                                   ELSE Pending(u, i, op, g)
    <3>0. /\ u = "delegate" =>
               (Pending(u, i, op, g)' <=> i \in 1..Len(steps) /\ steps[i] = <<op, g>>)
          /\ u # "delegate" => (Pending(u, i, op, g)' <=> Pending(u, i, op, g))
      BY <2>3
    <3>1. i \in 1..Len(steps) /\ steps[i] = <<op, g>>
            <=> \/ i = 1 /\ op = "check" /\ g = f
                \/ i = 2 /\ op = "admit" /\ g = f
      BY <2>4
    <3>2. QED
      BY <3>0, <3>1
  <2>6. QED
    BY <2>3, <2>5
<1>3. /\ work \in [Fetchers -> Works] /\ work[f] = "retry"
      /\ work' = [work EXCEPT ![f] = "begun"]
      /\ UNCHANGED <<lists, host, stopped, answer, counters>>
  BY DEF RetryFetch, Become, ServiceInv, ServiceTypeOK
<1>4. ServiceTypeOK'
  BY <1>2, <1>3 DEF ServiceInv, ServiceTypeOK, lists, counters, Works
<1>5. /\ ListsAreSets' /\ SlotsAreUsed' /\ ComesOnce' /\ ComesWhenBegun'
      /\ DelayedAreBegun' /\ StartHoldsSlot' /\ AtWorkHoldsSlot'
  <2>1. \A u \in Threads, i \in Nat, op \in {"admit", "start"}, g \in Fetchers :
          Pending(u, i, op, g)' =>
            \/ u = "delegate" /\ i = 2 /\ op = "admit" /\ g = f
            \/ Pending(u, i, op, g)
    BY <1>2
  <2>2. "delegate" \in Threads /\ 2 \in Nat
    BY DEF Threads
  <2>3. QED
    BY <1>3, <2>1, <2>2, BeginningStep
<1>6. LeavesAtTheEnd'
  <2> SUFFICES ASSUME NEW g \in Fetchers, NEW u \in Threads, NEW i \in Nat,
                      Pending(u, i, "check", g)' \/ Pending(u, i, "leave", g)'
               PROVE  \/ g \in stopped \/ work'[g] = "over"
                      \/ Pending(u, i + 1, "admit", g)'
    BY <1>3 DEF LeavesAtTheEnd
  <2>1. CASE u = "delegate"
    BY <1>2, <2>1
  <2>2. CASE u # "delegate"
    <3>1. \/ g \in stopped \/ work[g] = "over"
          \/ Pending(u, i + 1, "admit", g)
      BY <1>2, <2>2 DEF ServiceInv, LeavesAtTheEnd
    <3>2. QED
      BY <1>2, <1>3, <2>2, <3>1
  <2>3. QED
    BY <2>1, <2>2
<1>7. DecidesAlone'
  BY <1>2, <1>3 DEF ServiceInv, DecidesAlone
<1>8. QED
  BY <1>4, <1>5, <1>6, <1>7 DEF ServiceInv

\* A fetcher that is admitted is begun, comes nowhere else, and does not wait.
LEMMA AdmittedProperties ==
  ASSUME ServiceInv, NEW t \in Threads, NEW f \in Fetchers,
         Pending(t, 1, "admit", f)
  PROVE  /\ work[f] = "begun" /\ ~Contains(delayed, f)
         /\ \A u \in Threads, i \in Nat : Comes(u, i, f) => u = t /\ i = 1
BY DEF ServiceInv, ComesWhenBegun, DelayedAreBegun, ComesOnce, Comes

LEMMA AdmitKeepsInv ==
  ASSUME ServiceInv, NEW t \in Threads, NEW f \in Fetchers, Admit(t, f)
  PROVE  ServiceInv'
<1>1. todo \in [Threads -> Seq(Ops \X Fetchers)]
  BY DEF ServiceInv, ServiceTypeOK
<1>2. /\ Pending(t, 1, "admit", f) /\ todo[t] # <<>>
      /\ UNCHANGED <<host, work, stopped, answer, counters>>
      /\ {"start", "host"} \subseteq Ops
  BY <1>1, DoingIsPending DEF Admit, Ops
<1>3. /\ work[f] = "begun" /\ ~Contains(delayed, f)
      /\ \A u \in Threads, i \in Nat : Comes(u, i, f) => u = t /\ i = 1
  BY <1>2, AdmittedProperties
<1>4. \A i \in Nat, g \in Fetchers : ~Pending(t, i, "decide", g)
  BY <1>1, <1>2, NoDecisionBehind DEF ServiceInv
<1>5. /\ running \in Seq(Fetchers) /\ delayed \in Seq(Fetchers)
      /\ Len(running) \in Nat /\ Len(running) <= MaxRunning /\ MaxRunning \in Nat
  BY MaxRunningAssumption, LenProperties DEF ServiceInv, ServiceTypeOK
<1>6. CASE Contains(running, f)
  <2>1. UNCHANGED <<running, delayed>>
    BY <1>6 DEF Admit, lists
  <2>2. /\ todo' \in [Threads -> Seq(Ops \X Fetchers)]
        /\ \A u \in Threads, i \in Nat : \A op, g :
             Pending(u, i, op, g)' <=>
               IF u = t THEN \/ i = 1 /\ op = "start" /\ g = f
                             \/ i > 1 /\ Pending(t, i, op, g)
                        ELSE Pending(u, i, op, g)
    BY <1>1, <1>2, <1>6, ThenOne DEF Admit
  <2>3. ServiceTypeOK'
    BY <1>2, <2>1, <2>2 DEF ServiceInv, ServiceTypeOK, counters
  <2>4. ListsAreSets' /\ SlotsAreUsed' /\ AtWorkHoldsSlot'
    BY <1>2, <2>1 DEF ServiceInv, ListsAreSets, SlotsAreUsed, AtWorkHoldsSlot
  <2>5. ASSUME NEW u \in Threads, NEW i \in Nat, NEW g \in Fetchers, Comes(u, i, g)'
        PROVE  Comes(u, i, g)
    BY <1>2, <2>2, <2>5 DEF Comes
  <2>6. ComesOnce' /\ ComesWhenBegun' /\ DelayedAreBegun'
    BY <1>2, <2>1, <2>5
       DEF ServiceInv, ComesOnce, ComesWhenBegun, DelayedAreBegun
  <2>7. StartHoldsSlot'
    BY <1>2, <1>6, <2>1, <2>2 DEF ServiceInv, StartHoldsSlot
  <2>8. LeavesAtTheEnd'
    <3> SUFFICES ASSUME NEW g \in Fetchers, NEW u \in Threads, NEW i \in Nat,
                        Pending(u, i, "check", g)' \/ Pending(u, i, "leave", g)'
                 PROVE  \/ g \in stopped \/ work[g] = "over"
                        \/ Pending(u, i + 1, "admit", g)'
      BY <1>2 DEF LeavesAtTheEnd
    <3>1. Pending(u, i, "check", g) \/ Pending(u, i, "leave", g)
      BY <2>2
    <3>2. /\ Pending(u, i + 1, "admit", g) => Pending(u, i + 1, "admit", g)'
      BY <1>1, <2>2, <3>1, PendingProperties
    <3>3. QED
      BY <3>1, <3>2 DEF ServiceInv, LeavesAtTheEnd
  <2>9. DecidesAlone'
    BY <1>2, <1>4, <2>2 DEF ServiceInv, DecidesAlone
  <2>10. QED
    BY <2>3, <2>4, <2>6, <2>7, <2>8, <2>9 DEF ServiceInv
<1>7. CASE ~Contains(running, f) /\ Len(running) < MaxRunning
  <2>1. running' = Append(running, f) /\ delayed' = delayed
    BY <1>7 DEF Admit
  <2>2. /\ todo' \in [Threads -> Seq(Ops \X Fetchers)]
        /\ \A u \in Threads, i \in Nat : \A op, g :
             Pending(u, i, op, g)' <=>
               IF u = t THEN \/ i = 1 /\ op = "host" /\ g = f
                             \/ i = 2 /\ op = "start" /\ g = f
                             \/ i > 2 /\ Pending(t, i - 1, op, g)
                        ELSE Pending(u, i, op, g)
    BY <1>1, <1>2, <1>7, ThenTwo DEF Admit
  <2>3. /\ running' \in Seq(Fetchers) /\ Len(running') = Len(running) + 1
        /\ IsInjective(running')
        /\ \A g : Contains(running', g) <=> Contains(running, g) \/ g = f
    BY <1>5, <1>7, <2>1, AppendedList DEF ServiceInv, ListsAreSets
  <2>4. ServiceTypeOK'
    BY <1>2, <1>5, <1>7, <2>1, <2>2, <2>3 DEF ServiceInv, ServiceTypeOK, counters
  <2>5. ListsAreSets' /\ AtWorkHoldsSlot'
    BY <1>2, <1>3, <2>1, <2>3 DEF ServiceInv, ListsAreSets, AtWorkHoldsSlot
  <2>6. SlotsAreUsed'
    BY <1>5, <1>7, <2>1 DEF ServiceInv, SlotsAreUsed
  <2>7. ASSUME NEW u \in Threads, NEW i \in Nat, NEW g \in Fetchers, Comes(u, i, g)'
        PROVE  /\ (IF u = t THEN i + -1 ELSE i) \in Nat
               /\ Comes(u, IF u = t THEN i + -1 ELSE i, g)
    BY <1>2, <2>2, <2>7 DEF Comes
  <2>8. ComesOnce'
    <3>1. -1 \in -1..1
      OBVIOUS
    <3>2. QED
      BY <2>7, <3>1, ComesShifted DEF ServiceInv
  <2>9. ComesWhenBegun' /\ DelayedAreBegun'
    BY <1>2, <2>1, <2>7 DEF ServiceInv, ComesWhenBegun, DelayedAreBegun
  <2>10. StartHoldsSlot'
    BY <1>2, <2>2, <2>3 DEF ServiceInv, StartHoldsSlot
  <2>11. LeavesAtTheEnd'
    <3> SUFFICES ASSUME NEW g \in Fetchers, NEW u \in Threads, NEW i \in Nat,
                        Pending(u, i, "check", g)' \/ Pending(u, i, "leave", g)'
                 PROVE  \/ g \in stopped \/ work[g] = "over"
                        \/ Pending(u, i + 1, "admit", g)'
      BY <1>2 DEF LeavesAtTheEnd
    <3> DEFINE k == IF u = t THEN i - 1 ELSE i
    <3>1. k \in Nat /\ (Pending(u, k, "check", g) \/ Pending(u, k, "leave", g))
      BY <2>2
    <3>2. Pending(u, k + 1, "admit", g) => Pending(u, i + 1, "admit", g)'
      BY <1>1, <2>2, <3>1, PendingProperties
    <3>3. QED
      BY <3>1, <3>2 DEF ServiceInv, LeavesAtTheEnd
  <2>12. DecidesAlone'
    BY <1>2, <1>4, <2>2 DEF ServiceInv, DecidesAlone
  <2>13. QED
    BY <2>4, <2>5, <2>6, <2>8, <2>9, <2>10, <2>11, <2>12 DEF ServiceInv
<1>8. CASE ~Contains(running, f) /\ ~(Len(running) < MaxRunning)
  <2>1. delayed' = Append(delayed, f) /\ running' = running
    BY <1>8 DEF Admit
  <2>2. /\ todo' \in [Threads -> Seq(Ops \X Fetchers)]
        /\ \A u \in Threads, i \in Nat : \A op, g :
             Pending(u, i, op, g)' <=>
               IF u = t THEN \/ i = 1 /\ op = "host" /\ g = f
                             \/ i > 1 /\ Pending(t, i, op, g)
                        ELSE Pending(u, i, op, g)
    BY <1>1, <1>2, <1>8, ThenOne DEF Admit
  <2>3. /\ delayed' \in Seq(Fetchers) /\ IsInjective(delayed')
        /\ \A g : Contains(delayed', g) <=> Contains(delayed, g) \/ g = f
    BY <1>3, <1>5, <2>1, AppendedList DEF ServiceInv, ListsAreSets
  <2>4. ServiceTypeOK'
    BY <1>2, <2>1, <2>2, <2>3 DEF ServiceInv, ServiceTypeOK, counters
  <2>5. ListsAreSets' /\ AtWorkHoldsSlot' /\ SlotsAreUsed'
    BY <1>2, <1>5, <1>8, <2>1, <2>3
       DEF ServiceInv, ListsAreSets, AtWorkHoldsSlot, SlotsAreUsed
  <2>6. ASSUME NEW u \in Threads, NEW i \in Nat, NEW g \in Fetchers, Comes(u, i, g)'
        PROVE  Comes(u, i, g) /\ g # f
    BY <1>3, <2>2, <2>6 DEF Comes
  <2>7. ComesOnce' /\ ComesWhenBegun' /\ DelayedAreBegun'
    BY <1>2, <1>3, <2>3, <2>6
       DEF ServiceInv, ComesOnce, ComesWhenBegun, DelayedAreBegun
  <2>8. StartHoldsSlot'
    BY <1>2, <2>1, <2>2 DEF ServiceInv, StartHoldsSlot
  <2>9. LeavesAtTheEnd'
    <3> SUFFICES ASSUME NEW g \in Fetchers, NEW u \in Threads, NEW i \in Nat,
                        Pending(u, i, "check", g)' \/ Pending(u, i, "leave", g)'
                 PROVE  \/ g \in stopped \/ work[g] = "over"
                        \/ Pending(u, i + 1, "admit", g)'
      BY <1>2 DEF LeavesAtTheEnd
    <3>1. Pending(u, i, "check", g) \/ Pending(u, i, "leave", g)
      BY <2>2
    <3>2. Pending(u, i + 1, "admit", g) => Pending(u, i + 1, "admit", g)'
      BY <1>1, <2>2, <3>1, PendingProperties
    <3>3. QED
      BY <3>1, <3>2 DEF ServiceInv, LeavesAtTheEnd
  <2>10. DecidesAlone'
    BY <1>2, <1>4, <2>2 DEF ServiceInv, DecidesAlone
  <2>11. QED
    BY <2>4, <2>5, <2>7, <2>8, <2>9, <2>10 DEF ServiceInv
<1>9. QED
  BY <1>6, <1>7, <1>8

\* The fetchers of a list are started, and then the host is cleared.
LEMMA StartsProperties ==
  ASSUME NEW next \in Seq(Fetchers), NEW f \in Fetchers, NEW steps,
         steps = [i \in DOMAIN next |-> <<"start", next[i]>>] \o <<<<"clear", f>>>>
  PROVE  /\ steps \in Seq(Ops \X Fetchers) /\ Len(steps) = Len(next) + 1
         /\ \A i \in 1..Len(next) : steps[i] = <<"start", next[i]>>
         /\ steps[Len(next) + 1] = <<"clear", f>>
<1> DEFINE starts == [i \in DOMAIN next |-> <<"start", next[i]>>]
           last == <<<<"clear", f>>>>
<1>1. Len(next) \in Nat /\ DOMAIN next = 1..Len(next)
  BY LenProperties
<1>2. \A i \in 1..Len(next) : <<"start", next[i]>> \in Ops \X Fetchers
  BY ElementOfSeq DEF Ops
<1>3. starts \in [1..Len(next) -> Ops \X Fetchers]
  BY <1>1, <1>2
<1>4. starts \in Seq(Ops \X Fetchers)
  BY <1>1, <1>3, SeqDef
<1>5. DOMAIN starts = 1..Len(starts) /\ Len(starts) \in Nat
  BY <1>4, LenProperties
<1>6. Len(starts) = Len(next)
  BY <1>1, <1>5
<1>7. last \in Seq(Ops \X Fetchers) /\ Len(last) = 1 /\ last[1] = <<"clear", f>>
  BY DEF Ops
<1>8. \A i \in 1..Len(next) : starts[i] = <<"start", next[i]>>
  BY <1>1
<1> HIDE DEF starts, last
<1>9. /\ starts \o last \in Seq(Ops \X Fetchers)
      /\ Len(starts \o last) = Len(starts) + Len(last)
      /\ \A i \in 1..Len(starts) + Len(last) :
           (starts \o last)[i] = IF i <= Len(starts) THEN starts[i]
                                                    ELSE last[i - Len(starts)]
  BY <1>4, <1>7, ConcatProperties
<1>10. steps = starts \o last
  BY DEF starts, last
<1>11. QED
  BY <1>1, <1>6, <1>7, <1>8, <1>9, <1>10

\* What the service lets in while a fetcher leaves.
LEMMA LeaveSteps ==
  ASSUME ServiceInv, NEW t \in Threads, NEW f \in Fetchers, Leave(t, f)
  PROVE  \E next \in Seq(Fetchers) :
           /\ IsInjective(next)
           /\ running' \in Seq(Fetchers) /\ delayed' \in Seq(Fetchers)
           /\ Len(running') <= MaxRunning
           /\ delayed' # <<>> => Len(running') = MaxRunning
           /\ IsInjective(running') /\ IsInjective(delayed')
           /\ \A g : Contains(running', g) <=>
                       \/ Contains(running, g) /\ g # f
                       \/ Contains(next, g)
           /\ \A g : Contains(delayed, g) /\ g # f <=>
                       \/ Contains(next, g)
                       \/ Contains(delayed', g)
           /\ \A g : ~(Contains(next, g) /\ Contains(delayed', g))
           /\ todo' \in [Threads -> Seq(Ops \X Fetchers)]
           /\ \A u \in Threads, i \in Nat : \A op, g :
                Pending(u, i, op, g)' <=>
                  \/ u # t /\ Pending(u, i, op, g)
                  \/ u = t /\ i \in 1..Len(next) /\ op = "start" /\ g = next[i]
                  \/ u = t /\ i = Len(next) + 1 /\ op = "clear" /\ g = f
                  \/ u = t /\ i > Len(next) + 1 /\ Pending(t, i - Len(next), op, g)
<1> DEFINE stay == Without(running, f)
           line == Without(delayed, f)
           next == Promoted(line, Len(stay))
           steps == [i \in DOMAIN next |-> <<"start", next[i]>>] \o <<<<"clear", f>>>>
<1>1. /\ running \in Seq(Fetchers) /\ delayed \in Seq(Fetchers)
      /\ IsInjective(running) /\ IsInjective(delayed)
      /\ Len(running) <= MaxRunning /\ Len(running) \in Nat /\ MaxRunning \in Nat
      /\ \A g \in Fetchers : ~(Contains(running, g) /\ Contains(delayed, g))
      /\ todo \in [Threads -> Seq(Ops \X Fetchers)]
  BY MaxRunningAssumption, LenProperties
     DEF ServiceInv, ServiceTypeOK, ListsAreSets
<1>2. /\ running' = stay \o next /\ delayed' = StillDelayed(line, Len(stay))
      /\ Then(t, steps)
  BY DEF Leave
<1>3. /\ stay \in Seq(Fetchers) /\ IsInjective(stay)
      /\ Len(stay) = IF Contains(running, f) THEN Len(running) - 1 ELSE Len(running)
      /\ \A g : Contains(stay, g) <=> Contains(running, g) /\ g # f
  BY <1>1, WithoutProperties
<1>4. /\ line \in Seq(Fetchers) /\ IsInjective(line)
      /\ \A g : Contains(line, g) <=> Contains(delayed, g) /\ g # f
  BY <1>1, WithoutProperties
<1> HIDE DEF stay, line
<1>5. Len(stay) \in 0..MaxRunning
  <2>1. Len(stay) \in Nat
    BY <1>3, LenProperties
  <2>2. QED
    BY <1>1, <1>3, <2>1
<1>6. /\ next \in Seq(Fetchers) /\ IsInjective(next)
      /\ delayed' \in Seq(Fetchers) /\ IsInjective(delayed')
      /\ Len(stay) + Len(next) <= MaxRunning
      /\ delayed' # <<>> => Len(stay) + Len(next) = MaxRunning
      /\ \A g : Contains(line, g) <=> Contains(next, g) \/ Contains(delayed', g)
      /\ \A g : ~(Contains(next, g) /\ Contains(delayed', g))
  BY <1>2, <1>4, <1>5, PromotedProperties
<1> HIDE DEF next
<1>7. /\ running' \in Seq(Fetchers) /\ Len(running') = Len(stay) + Len(next)
      /\ \A g : Contains(running', g) <=> Contains(stay, g) \/ Contains(next, g)
      /\ IsInjective(running')
  <2>1. /\ stay \o next \in Seq(Fetchers)
        /\ Len(stay \o next) = Len(stay) + Len(next)
    BY <1>3, <1>6, ConcatProperties
  <2>2. \A g : ~(Contains(stay, g) /\ Contains(next, g))
    BY <1>1, <1>3, <1>4, <1>6, ContainsByIndex
  <2>3. QED
    BY <1>2, <1>3, <1>6, <2>1, <2>2, ConcatContains
<1>8. /\ steps \in Seq(Ops \X Fetchers) /\ Len(steps) = Len(next) + 1
      /\ \A i \in 1..Len(next) : steps[i] = <<"start", next[i]>>
      /\ steps[Len(next) + 1] = <<"clear", f>>
  BY <1>6, StartsProperties
<1> HIDE DEF steps
<1>9. todo[t] # <<>>
  BY <1>1, DoingIsPending DEF Leave
<1>10. /\ todo' \in [Threads -> Seq(Ops \X Fetchers)]
       /\ \A u \in Threads \ {t} : todo'[u] = todo[u]
  BY <1>1, <1>2, <1>8, <1>9, ThenPending
<1>11. Len(next) \in Nat
  BY <1>6, LenProperties
<1>12. ASSUME NEW i \in Nat, NEW op, NEW g
       PROVE  Pending(t, i, op, g)' <=>
                \/ i \in 1..Len(next) /\ op = "start" /\ g = next[i]
                \/ i = Len(next) + 1 /\ op = "clear" /\ g = f
                \/ i > Len(next) + 1 /\ Pending(t, i - Len(next), op, g)
  <2>1. Pending(t, i, op, g)' <=>
          \/ i \in 1..Len(steps) /\ steps[i] = <<op, g>>
          \/ i > Len(steps) /\ Pending(t, i - Len(steps) + 1, op, g)
    BY <1>1, <1>2, <1>8, <1>9, ThenMany
  <2>2. CASE i \in 1..Len(next)
    <3>1. i \in 1..Len(steps) /\ ~(i > Len(steps)) /\ steps[i] = <<"start", next[i]>>
      BY <1>8, <1>11, <2>2
    <3>2. QED
      BY <1>11, <2>1, <2>2, <3>1
  <2>3. CASE i = Len(next) + 1
    <3>1. i \in 1..Len(steps) /\ ~(i > Len(steps)) /\ steps[i] = <<"clear", f>>
      BY <1>8, <1>11, <2>3
    <3>2. QED
      BY <1>11, <2>1, <2>3, <3>1
  <2>4. CASE i > Len(next) + 1
    <3>1. i > Len(steps) /\ i - Len(steps) + 1 = i - Len(next)
      BY <1>8, <1>11, <2>4
    <3>2. i \notin 1..Len(steps) /\ i \notin 1..Len(next) /\ i # Len(next) + 1
      BY <1>8, <1>11, <2>4
    <3>3. QED
      BY <2>1, <2>4, <3>1, <3>2
  <2>5. CASE i = 0
    <3>1. /\ i \notin 1..Len(steps) /\ ~(i > Len(steps)) /\ i \notin 1..Len(next)
          /\ i # Len(next) + 1 /\ ~(i > Len(next) + 1)
      BY <1>8, <1>11, <2>5
    <3>2. QED
      BY <2>1, <3>1
  <2>6. QED
    BY <1>11, <2>2, <2>3, <2>4, <2>5
<1>13. \A u \in Threads, i \in Nat : \A op, g :
         u # t => (Pending(u, i, op, g)' <=> Pending(u, i, op, g))
  BY <1>10 DEF Pending
<1>14. \A u \in Threads, i \in Nat : \A op, g :
         Pending(u, i, op, g)' <=>
           \/ u # t /\ Pending(u, i, op, g)
           \/ u = t /\ i \in 1..Len(next) /\ op = "start" /\ g = next[i]
           \/ u = t /\ i = Len(next) + 1 /\ op = "clear" /\ g = f
           \/ u = t /\ i > Len(next) + 1 /\ Pending(t, i - Len(next), op, g)
  BY <1>12, <1>13
<1>15. QED
  BY <1>3, <1>4, <1>6, <1>7, <1>10, <1>14

LEMMA LeaveKeepsInv ==
  ASSUME ServiceInv, NEW t \in Threads, NEW f \in Fetchers, Leave(t, f)
  PROVE  ServiceInv'
<1>1. todo \in [Threads -> Seq(Ops \X Fetchers)]
  BY DEF ServiceInv, ServiceTypeOK
<1>2. /\ Pending(t, 1, "leave", f)
      /\ UNCHANGED <<host, work, stopped, answer, counters>>
  BY <1>1, DoingIsPending DEF Leave
<1>3. PICK next \in Seq(Fetchers) :
        /\ IsInjective(next)
        /\ running' \in Seq(Fetchers) /\ delayed' \in Seq(Fetchers)
        /\ Len(running') <= MaxRunning
        /\ delayed' # <<>> => Len(running') = MaxRunning
        /\ IsInjective(running') /\ IsInjective(delayed')
        /\ \A g : Contains(running', g) <=>
                    \/ Contains(running, g) /\ g # f
                    \/ Contains(next, g)
        /\ \A g : Contains(delayed, g) /\ g # f <=>
                    \/ Contains(next, g)
                    \/ Contains(delayed', g)
        /\ \A g : ~(Contains(next, g) /\ Contains(delayed', g))
        /\ todo' \in [Threads -> Seq(Ops \X Fetchers)]
        /\ \A u \in Threads, i \in Nat : \A op, g :
             Pending(u, i, op, g)' <=>
               \/ u # t /\ Pending(u, i, op, g)
               \/ u = t /\ i \in 1..Len(next) /\ op = "start" /\ g = next[i]
               \/ u = t /\ i = Len(next) + 1 /\ op = "clear" /\ g = f
               \/ u = t /\ i > Len(next) + 1 /\ Pending(t, i - Len(next), op, g)
  BY LeaveSteps
<1>4. /\ Len(next) \in Nat /\ DOMAIN next = 1..Len(next)
      /\ \A i \in 1..Len(next) : next[i] \in Fetchers /\ Contains(next, next[i])
  <2>1. Len(next) \in Nat /\ DOMAIN next = 1..Len(next)
    BY LenProperties
  <2>2. QED
    BY <2>1, ElementOfSeq DEF Contains
<1>5. \A i \in Nat, g \in Fetchers : ~Pending(t, i, "decide", g)
  BY <1>1, <1>2, NoDecisionBehind DEF ServiceInv
\* Those that are let in waited, so that they are begun and come nowhere.
<1>6. ASSUME NEW g \in Fetchers, Contains(next, g)
      PROVE  /\ work[g] = "begun" /\ g # f
             /\ \A u \in Threads, i \in Nat : ~Comes(u, i, g)
  <2>1. Contains(delayed, g) /\ g # f
    BY <1>3, <1>6
  <2>2. QED
    BY <2>1 DEF ServiceInv, DelayedAreBegun
\* Those that come are let in by this step, or came before it.
<1>7. ASSUME NEW u \in Threads, NEW i \in Nat, NEW g \in Fetchers, Comes(u, i, g)'
      PROVE  \/ u = t /\ i \in 1..Len(next) /\ g = next[i] /\ Contains(next, g)
             \/ /\ (IF u = t THEN i - Len(next) ELSE i) \in Nat
                /\ Comes(u, IF u = t THEN i - Len(next) ELSE i, g)
                /\ ~Contains(next, g)
  <2>1. \/ u = t /\ i \in 1..Len(next) /\ g = next[i]
        \/ /\ (IF u = t THEN i - Len(next) ELSE i) \in Nat
           /\ Comes(u, IF u = t THEN i - Len(next) ELSE i, g)
    BY <1>3, <1>4, <1>7 DEF Comes
  <2>2. QED
    BY <1>4, <1>6, <2>1
<1>8. ComesOnce'
  <2> SUFFICES ASSUME NEW g \in Fetchers, NEW u \in Threads, NEW v \in Threads,
                      NEW i \in Nat, NEW j \in Nat,
                      Comes(u, i, g)', Comes(v, j, g)'
               PROVE  u = v /\ i = j
    BY DEF ComesOnce
  <2>1. CASE Contains(next, g)
    <3>1. /\ u = t /\ i \in 1..Len(next) /\ g = next[i]
          /\ v = t /\ j \in 1..Len(next) /\ g = next[j]
      BY <1>7, <2>1
    <3>2. QED
      BY <1>3, <1>4, <3>1 DEF IsInjective
  <2>2. CASE ~Contains(next, g)
    <3>1. /\ (IF u = t THEN i - Len(next) ELSE i) \in Nat
          /\ Comes(u, IF u = t THEN i - Len(next) ELSE i, g)
          /\ (IF v = t THEN j - Len(next) ELSE j) \in Nat
          /\ Comes(v, IF v = t THEN j - Len(next) ELSE j, g)
      BY <1>7, <2>2
    <3>2. /\ u = v
          /\ (IF u = t THEN i - Len(next) ELSE i) = (IF v = t THEN j - Len(next) ELSE j)
      BY <3>1 DEF ServiceInv, ComesOnce
    <3>3. QED
      BY <1>4, <3>2
  <2>3. QED
    BY <2>1, <2>2
<1>9. ComesWhenBegun'
  BY <1>2, <1>6, <1>7 DEF ServiceInv, ComesWhenBegun
<1>10. DelayedAreBegun'
  <2> SUFFICES ASSUME NEW g \in Fetchers, Contains(delayed', g)
               PROVE  /\ work[g] = "begun"
                      /\ \A u \in Threads, i \in Nat : ~Comes(u, i, g)'
    BY <1>2 DEF DelayedAreBegun
  <2>1. Contains(delayed, g) /\ ~Contains(next, g)
    BY <1>3
  <2>2. /\ work[g] = "begun"
        /\ \A u \in Threads, i \in Nat : ~Comes(u, i, g)
    BY <2>1 DEF ServiceInv, DelayedAreBegun
  <2>3. QED
    BY <1>7, <2>1, <2>2
<1>11. ListsAreSets'
  BY <1>3 DEF ServiceInv, ListsAreSets
<1>12. SlotsAreUsed' /\ ServiceTypeOK'
  BY <1>2, <1>3 DEF ServiceInv, ServiceTypeOK, SlotsAreUsed, counters
\* A fetcher that was not stopped leaves when it is over, or to be begun anew.
<1>13. ASSUME f \notin stopped
       PROVE  /\ work[f] \in {"over", "begun"}
              /\ \A u \in Threads, i \in Nat : ~Pending(u, i, "start", f)
  <2>1. work[f] = "over" \/ Pending(t, 1 + 1, "admit", f)
    BY <1>2, <1>13 DEF ServiceInv, LeavesAtTheEnd
  <2>2. CASE work[f] = "over"
    BY <2>2 DEF ServiceInv, ComesWhenBegun, Comes
  <2>3. CASE Pending(t, 2, "admit", f)
    <3>1. work[f] = "begun"
      BY <2>3 DEF ServiceInv, ComesWhenBegun, Comes
    <3>2. ASSUME NEW u \in Threads, NEW i \in Nat, Pending(u, i, "start", f)
          PROVE  FALSE
      <4>1. u = t /\ i = 2
        BY <2>3, <3>2 DEF ServiceInv, ComesOnce, Comes
      <4>2. QED
        BY <2>3, <3>2, <4>1 DEF Pending
    <3>3. QED
      BY <3>1, <3>2
  <2>4. QED
    BY <2>1, <2>2, <2>3
<1>14. AtWorkHoldsSlot'
  BY <1>2, <1>3, <1>13 DEF ServiceInv, AtWorkHoldsSlot
<1>15. StartHoldsSlot'
  <2> SUFFICES ASSUME NEW g \in Fetchers \ stopped, NEW u \in Threads,
                      NEW i \in Nat, Pending(u, i, "start", g)'
               PROVE  Contains(running', g)
    BY <1>2 DEF StartHoldsSlot
  <2>1. CASE Contains(next, g)
    BY <1>3, <2>1
  <2>2. CASE ~Contains(next, g)
    <3> DEFINE k == IF u = t THEN i - Len(next) ELSE i
    <3>1. k \in Nat /\ Pending(u, k, "start", g)
      BY <1>3, <1>4, <2>2
    <3>2. Contains(running, g)
      BY <3>1 DEF ServiceInv, StartHoldsSlot
    <3>3. g # f
      BY <1>13, <3>1
    <3>4. QED
      BY <1>3, <3>2, <3>3
  <2>3. QED
    BY <2>1, <2>2
<1>16. LeavesAtTheEnd'
  <2> SUFFICES ASSUME NEW g \in Fetchers, NEW u \in Threads, NEW i \in Nat,
                      Pending(u, i, "check", g)' \/ Pending(u, i, "leave", g)'
               PROVE  \/ g \in stopped \/ work[g] = "over"
                      \/ Pending(u, i + 1, "admit", g)'
    BY <1>2 DEF LeavesAtTheEnd
  <2> DEFINE k == IF u = t THEN i - Len(next) ELSE i
  <2>1. /\ k \in Nat /\ (Pending(u, k, "check", g) \/ Pending(u, k, "leave", g))
        /\ u = t => i > Len(next) + 1
    BY <1>3, <1>4
  <2>2. \/ g \in stopped \/ work[g] = "over"
        \/ Pending(u, k + 1, "admit", g)
    BY <2>1 DEF ServiceInv, LeavesAtTheEnd
  <2>3. Pending(u, k + 1, "admit", g) => Pending(u, i + 1, "admit", g)'
    <3>1. CASE u = t
      <4>1. i + 1 \in Nat /\ i + 1 > Len(next) + 1 /\ (i + 1) - Len(next) = k + 1
        BY <1>4, <2>1, <3>1
      <4>2. QED
        BY <1>3, <3>1, <4>1
    <3>2. CASE u # t
      BY <1>3, <3>2
    <3>3. QED
      BY <3>1, <3>2
  <2>4. QED
    BY <2>2, <2>3
<1>17. DecidesAlone'
  <2>1. \A u \in Threads, i \in Nat, g \in Fetchers :
          Pending(u, i, "decide", g)' => u # t
    BY <1>3, <1>4, <1>5
  <2>2. QED
    BY <1>2, <1>3, <2>1 DEF ServiceInv, DecidesAlone
<1>18. QED
  BY <1>8, <1>9, <1>10, <1>11, <1>12, <1>14, <1>15, <1>16, <1>17 DEF ServiceInv

AtWork == {"authorizing", "working", "deciding", "timer"}

\* A step of one fetcher that begins nothing: it leaves the threads as they
\* are, or has one of them stop the fetcher, which is then stopped or over.
LEMMA WorkStep ==
  ASSUME ServiceInv, UNCHANGED <<lists, host>>, stopped \subseteq stopped',
         NEW t \in Threads, NEW f \in Fetchers, NEW w \in Works,
         work' = [work EXCEPT ![f] = w],
         \/ UNCHANGED todo
         \/ Enter(t, <<<<"check", f>>>>) /\ (f \in stopped' \/ w = "over"),
         w # work[f] => work[f] \notin {"begun", "over"},
         w # work[f] /\ work[f] = "deciding" => todo["main"] = <<>>,
         w \in AtWork => work[f] \in AtWork,
         stopped' \subseteq Fetchers,
         answer' \in [Fetchers -> {"none", "queued", "given"}],
         failures' \in 0..MaxFailures /\ stops' \in 0..MaxStops
  PROVE  ServiceInv'
<1>1. todo \in [Threads -> Seq(Ops \X Fetchers)]
  BY DEF ServiceInv, ServiceTypeOK
<1>2. work \in [Fetchers -> Works]
  BY DEF ServiceInv, ServiceTypeOK
<1>3. /\ todo' \in [Threads -> Seq(Ops \X Fetchers)]
      /\ \A u \in Threads, i \in Nat : \A op, g : Pending(u, i, op, g)' =>
           \/ u = t /\ i = 1 /\ op = "check" /\ g = f /\ (f \in stopped' \/ w = "over")
           \/ Pending(u, i, op, g)
      /\ \A u \in Threads, i \in Nat : \A op, g : Pending(u, i, op, g) =>
           Pending(u, i, op, g)'
      /\ \A u \in Threads, i \in Nat : \A op, g :
           Pending(u, i, "decide", g)' => (UNCHANGED todo \/ u # t)
  <2>1. CASE UNCHANGED todo
    BY <1>1, <2>1 DEF Pending
  <2>2. CASE Enter(t, <<<<"check", f>>>>) /\ (f \in stopped' \/ w = "over")
    <3>1. "check" \in Ops
      BY DEF Ops
    <3>2. /\ todo' \in [Threads -> Seq(Ops \X Fetchers)]
          /\ \A i, op, g : ~Pending(t, i, op, g)
          /\ \A u \in Threads, i \in Nat : \A op, g :
               Pending(u, i, op, g)' <=>
                 IF u = t THEN i = 1 /\ op = "check" /\ g = f
                          ELSE Pending(u, i, op, g)
      BY <1>1, <2>2, <3>1, EnterOne
    <3>3. QED
      BY <2>2, <3>2
  <2>3. QED
    BY <2>1, <2>2
<1>4. ServiceTypeOK'
  BY <1>2, <1>3 DEF ServiceInv, ServiceTypeOK, lists
<1>5. /\ ListsAreSets' /\ SlotsAreUsed' /\ ComesOnce' /\ ComesWhenBegun'
      /\ DelayedAreBegun' /\ StartHoldsSlot'
  <2>1. \A u \in Threads, i \in Nat, op \in {"admit", "start"}, g \in Fetchers :
          Pending(u, i, op, g)' => Pending(u, IF u = t THEN i + 0 ELSE i, op, g)
    BY <1>3
  <2>2. \A g \in Fetchers : work[g] = "begun" => work'[g] = "begun"
    BY <1>2
  <2>3. QED
    BY <2>1, <2>2, QuietStep
<1>6. LeavesAtTheEnd'
  <2> SUFFICES ASSUME NEW g \in Fetchers, NEW u \in Threads, NEW i \in Nat,
                      Pending(u, i, "check", g)' \/ Pending(u, i, "leave", g)'
               PROVE  \/ g \in stopped' \/ work'[g] = "over"
                      \/ Pending(u, i + 1, "admit", g)'
    BY DEF LeavesAtTheEnd
  <2>1. CASE g = f /\ (f \in stopped' \/ w = "over")
    BY <1>2, <2>1
  <2>2. CASE Pending(u, i, "check", g) \/ Pending(u, i, "leave", g)
    <3>1. \/ g \in stopped \/ work[g] = "over"
          \/ Pending(u, i + 1, "admit", g)
      BY <2>2 DEF ServiceInv, LeavesAtTheEnd
    <3>2. QED
      BY <1>2, <1>3, <3>1
  <2>3. QED
    BY <1>3, <2>1, <2>2
<1>7. DecidesAlone'
  <2> SUFFICES ASSUME NEW g \in Fetchers, NEW u \in Threads, NEW i \in Nat,
                      Pending(u, i, "decide", g)'
               PROVE  /\ u = "main" /\ work'[g] = "deciding"
                      /\ \A j \in Nat : \A op, h : Pending(u, j, op, h)' => j = i
    BY DEF DecidesAlone
  <2>1. Pending(u, i, "decide", g)
    BY <1>3
  <2>2. /\ u = "main" /\ work[g] = "deciding"
        /\ \A j \in Nat : \A op, h : Pending(u, j, op, h) => j = i
    BY <2>1 DEF ServiceInv, DecidesAlone
  <2>3. todo["main"] # <<>>
    <3>1. i \in DOMAIN todo["main"]
      BY <2>1, <2>2 DEF Pending
    <3>2. DOMAIN <<>> = {}
      BY EmptySeq, LenProperties
    <3>3. QED
      BY <3>1, <3>2
  <2>4. work'[g] = "deciding"
    BY <1>2, <2>2, <2>3
  <2>5. \A j \in Nat : \A op, h : Pending(u, j, op, h)' => Pending(u, j, op, h)
    <3>1. CASE UNCHANGED todo
      BY <3>1 DEF Pending
    <3>2. CASE u # t
      BY <1>3, <3>2
    <3>3. QED
      BY <1>3, <3>1, <3>2
  <2>6. QED
    BY <2>2, <2>4, <2>5
<1>8. AtWorkHoldsSlot'
  BY <1>2 DEF ServiceInv, AtWorkHoldsSlot, AtWork, lists
<1>9. QED
  BY <1>4, <1>5, <1>6, <1>7, <1>8 DEF ServiceInv

LEMMA StopFetchingKeepsInv ==
  ASSUME ServiceInv, NEW f \in Fetchers, StopFetching(f)
  PROVE  ServiceInv'
<1> DEFINE w == IF work[f] \in {"working", "timer"} THEN "over" ELSE work[f]
<1>1. /\ work \in [Fetchers -> Works] /\ stopped \subseteq Fetchers
      /\ answer \in [Fetchers -> {"none", "queued", "given"}]
      /\ failures \in 0..MaxFailures /\ stops \in 0..MaxStops /\ MaxStops \in Nat
  BY BoundsAssumption DEF ServiceInv, ServiceTypeOK
<1>2. /\ work' = [work EXCEPT ![f] = w] /\ w \in Works
      /\ w # work[f] => work[f] \in {"working", "timer"}
      /\ w \in AtWork => work[f] \in AtWork
  BY <1>1 DEF StopFetching, Become, Works, AtWork
<1>3. /\ UNCHANGED <<lists, host>> /\ Enter("storage", <<<<"check", f>>>>)
      /\ stopped' = stopped \cup {f} /\ stops' \in 0..MaxStops
      /\ failures' = failures /\ answer' = answer
  BY <1>1 DEF StopFetching
<1>4. "storage" \in Threads
  BY DEF Threads
<1> HIDE DEF w
<1>5. QED
  BY <1>1, <1>2, <1>3, <1>4, WorkStep

\* The answer of a fetcher that is over.
LEMMA FinishProperties ==
  ASSUME ServiceInv, NEW f \in Fetchers, Finish(f)
  PROVE  /\ work' = [work EXCEPT ![f] = "over"] /\ "over" \in Works
         /\ "over" \notin AtWork
         /\ answer' \in [Fetchers -> {"none", "queued", "given"}]
BY DEF ServiceInv, ServiceTypeOK, Finish, Become, Works, AtWork

LEMMA SucceedKeepsInv ==
  ASSUME ServiceInv, NEW f \in Fetchers, Succeed(f)
  PROVE  ServiceInv'
<1>1. /\ work[f] = "working" /\ Enter("delegate", <<<<"check", f>>>>)
      /\ UNCHANGED <<lists, host, stopped, counters>> /\ Finish(f)
  BY DEF Succeed
<1>2. /\ stopped \subseteq Fetchers
      /\ failures' \in 0..MaxFailures /\ stops' \in 0..MaxStops
  BY <1>1 DEF ServiceInv, ServiceTypeOK, counters
<1>3. "delegate" \in Threads
  BY DEF Threads
<1>4. QED
  BY <1>1, <1>2, <1>3, FinishProperties, WorkStep

LEMMA FailKeepsInv ==
  ASSUME ServiceInv, NEW f \in Fetchers, Fail(f)
  PROVE  ServiceInv'
<1>1. /\ work[f] = "working"
      /\ UNCHANGED <<lists, host, stopped>> /\ "delegate" \in Threads
      /\ {"deciding", "timer"} \subseteq Works /\ work[f] \in AtWork
  BY DEF Fail, Threads, Works, AtWork
<1>2. /\ stopped \subseteq Fetchers
      /\ answer \in [Fetchers -> {"none", "queued", "given"}]
      /\ failures' \in 0..MaxFailures /\ stops' \in 0..MaxStops
  BY BoundsAssumption DEF ServiceInv, ServiceTypeOK, Fail
<1>3. CASE Idle("delegate") /\ Become(f, "deciding") /\ UNCHANGED answer
  BY <1>1, <1>2, <1>3, WorkStep DEF Idle, Become
<1>4. CASE Idle("delegate") /\ Become(f, "timer") /\ UNCHANGED answer
  BY <1>1, <1>2, <1>4, WorkStep DEF Idle, Become
<1>5. CASE Enter("delegate", <<<<"check", f>>>>) /\ Finish(f)
  BY <1>1, <1>2, <1>5, FinishProperties, WorkStep
<1>6. QED
  BY <1>3, <1>4, <1>5 DEF Fail

LEMMA AuthorizedKeepsInv ==
  ASSUME ServiceInv, NEW f \in Fetchers, Authorized(f)
  PROVE  ServiceInv'
<1>1. /\ work[f] = "authorizing" /\ UNCHANGED <<lists, host, stopped, answer, counters>>
      /\ UNCHANGED todo /\ work' = [work EXCEPT ![f] = "working"]
      /\ "main" \in Threads /\ "working" \in Works /\ work[f] \in AtWork
  BY DEF Authorized, Idle, Become, Threads, Works, AtWork
<1>2. /\ stopped \subseteq Fetchers
      /\ answer \in [Fetchers -> {"none", "queued", "given"}]
      /\ failures' \in 0..MaxFailures /\ stops' \in 0..MaxStops
  BY <1>1 DEF ServiceInv, ServiceTypeOK, counters
<1>3. QED
  BY <1>1, <1>2, WorkStep

LEMMA RetryTimerFiredKeepsInv ==
  ASSUME ServiceInv, NEW f \in Fetchers, RetryTimerFired(f)
  PROVE  ServiceInv'
<1>1. /\ work[f] = "timer" /\ UNCHANGED <<lists, host, stopped, answer, counters>>
      /\ UNCHANGED todo /\ work' = [work EXCEPT ![f] = "retry"]
      /\ "main" \in Threads /\ "retry" \in Works /\ work[f] \in AtWork
  BY DEF RetryTimerFired, Idle, Become, Threads, Works, AtWork
<1>2. /\ stopped \subseteq Fetchers
      /\ answer \in [Fetchers -> {"none", "queued", "given"}]
      /\ failures' \in 0..MaxFailures /\ stops' \in 0..MaxStops
  BY <1>1 DEF ServiceInv, ServiceTypeOK, counters
<1>3. QED
  BY <1>1, <1>2, WorkStep

LEMMA DeliverKeepsInv ==
  ASSUME ServiceInv, NEW f \in Fetchers, Deliver(f)
  PROVE  ServiceInv'
<1>1. /\ UNCHANGED <<lists, host, work, counters>> /\ "main" \in Threads
      /\ stopped \subseteq stopped' /\ stopped' \subseteq Fetchers
      /\ answer' \in [Fetchers -> {"none", "queued", "given"}]
      /\ \/ UNCHANGED todo
         \/ Enter("main", <<<<"check", f>>>>) /\ f \in stopped'
  BY DEF ServiceInv, ServiceTypeOK, Deliver, Idle, Threads
<1>2. /\ work' = [work EXCEPT ![f] = work[f]] /\ work[f] \in Works
      /\ failures' \in 0..MaxFailures /\ stops' \in 0..MaxStops
  BY <1>1 DEF ServiceInv, ServiceTypeOK, counters
<1>3. QED
  BY <1>1, <1>2, WorkStep

LEMMA AskRetryBlockKeepsInv ==
  ASSUME ServiceInv, NEW f \in Fetchers, AskRetryBlock(f)
  PROVE  ServiceInv'
<1>1. todo \in [Threads -> Seq(Ops \X Fetchers)]
  BY DEF ServiceInv, ServiceTypeOK
<1>2. /\ work[f] = "deciding" /\ UNCHANGED <<lists, host, stopped, answer, counters>>
      /\ "main" \in Threads /\ "decide" \in Ops /\ "over" \in Works
      /\ work[f] \in AtWork
  BY DEF AskRetryBlock, Threads, Ops, Works, AtWork
<1>3. CASE f \in stopped
  <2>1. /\ UNCHANGED todo /\ todo["main"] = <<>>
        /\ work' = [work EXCEPT ![f] = "over"]
    BY <1>3 DEF AskRetryBlock, Idle, Become
  <2>2. /\ stopped \subseteq Fetchers
        /\ answer \in [Fetchers -> {"none", "queued", "given"}]
        /\ failures' \in 0..MaxFailures /\ stops' \in 0..MaxStops
    BY <1>2 DEF ServiceInv, ServiceTypeOK, counters
  <2>3. QED
    BY <1>2, <2>1, <2>2, WorkStep
<1>4. CASE f \notin stopped
  <2>1. Enter("main", <<<<"decide", f>>>>) /\ UNCHANGED work
    BY <1>4 DEF AskRetryBlock
  <2>2. /\ todo' \in [Threads -> Seq(Ops \X Fetchers)]
        /\ \A i, op, g : ~Pending("main", i, op, g)
        /\ \A u \in Threads, i \in Nat : \A op, g :
             Pending(u, i, op, g)' <=>
               IF u = "main" THEN i = 1 /\ op = "decide" /\ g = f
                             ELSE Pending(u, i, op, g)
    BY <1>1, <1>2, <2>1, EnterOne
  <2>3. ServiceTypeOK' /\ AtWorkHoldsSlot'
    BY <1>2, <2>1, <2>2
       DEF ServiceInv, ServiceTypeOK, AtWorkHoldsSlot, lists, counters
  <2>4. /\ ListsAreSets' /\ SlotsAreUsed' /\ ComesOnce' /\ ComesWhenBegun'
        /\ DelayedAreBegun' /\ StartHoldsSlot'
    <3>1. \A u \in Threads, i \in Nat, op \in {"admit", "start"}, g \in Fetchers :
            Pending(u, i, op, g)' => Pending(u, IF u = "main" THEN i + 0 ELSE i, op, g)
      BY <2>2
    <3>2. QED
      BY <1>2, <2>1, <3>1, QuietStep
  <2>5. LeavesAtTheEnd'
    BY <1>2, <2>1, <2>2 DEF ServiceInv, LeavesAtTheEnd
  <2>6. DecidesAlone'
    BY <1>2, <2>1, <2>2 DEF ServiceInv, DecidesAlone
  <2>7. QED
    BY <2>3, <2>4, <2>5, <2>6 DEF ServiceInv
<1>5. QED
  BY <1>3, <1>4

\* Who is asked on the main queue is told there.
LEMMA DecideKeepsInv ==
  ASSUME ServiceInv, NEW f \in Fetchers, Decide(f)
  PROVE  ServiceInv'
<1>1. /\ todo \in [Threads -> Seq(Ops \X Fetchers)] /\ work \in [Fetchers -> Works]
      /\ "main" \in Threads /\ "check" \in Ops
      /\ UNCHANGED <<lists, host, stopped, counters>>
  BY DEF ServiceInv, ServiceTypeOK, Decide, Threads, Ops
<1>2. Pending("main", 1, "decide", f) /\ todo["main"] # <<>>
  BY <1>1, DoingIsPending DEF Decide
<1>3. /\ work[f] = "deciding"
      /\ \A j \in Nat : \A op, g : Pending("main", j, op, g) => j = 1
  BY <1>1, <1>2 DEF ServiceInv, DecidesAlone
<1>4. \E w \in {"timer", "over"} :
        /\ work' = [work EXCEPT ![f] = w]
        /\ answer' \in [Fetchers -> {"none", "queued", "given"}]
        /\ todo' \in [Threads -> Seq(Ops \X Fetchers)]
        /\ \A u \in Threads, i \in Nat : \A op, g : Pending(u, i, op, g)' =>
             \/ u = "main" /\ i = 1 /\ op = "check" /\ g = f /\ w = "over"
             \/ u # "main" /\ Pending(u, i, op, g)
        /\ \A u \in Threads \ {"main"}, i \in Nat : \A op, g :
             Pending(u, i, op, g) => Pending(u, i, op, g)'
  <2>1. CASE Become(f, "timer") /\ Then("main", <<>>) /\ UNCHANGED answer
    <3>1. /\ todo' \in [Threads -> Seq(Ops \X Fetchers)]
          /\ \A u \in Threads, i \in Nat : \A op, g :
               Pending(u, i, op, g)' <=>
                 IF u = "main" THEN i > 0 /\ Pending("main", i + 1, op, g)
                               ELSE Pending(u, i, op, g)
      BY <1>1, <1>2, <2>1, ThenNothing
    <3>2. /\ work' = [work EXCEPT ![f] = "timer"]
          /\ answer' \in [Fetchers -> {"none", "queued", "given"}]
      BY <2>1 DEF ServiceInv, ServiceTypeOK, Become
    <3>3. \A i \in Nat : \A op, g : ~Pending("main", i, op, g)'
      <4>1. \A i \in Nat : i > 0 => i + 1 \in Nat /\ i + 1 # 1
        OBVIOUS
      <4>2. QED
        BY <1>1, <1>3, <3>1, <4>1
    <3>4. QED
      BY <3>1, <3>2, <3>3
  <2>2. CASE Finish(f) /\ Then("main", <<<<"check", f>>>>)
    <3>1. /\ todo' \in [Threads -> Seq(Ops \X Fetchers)]
          /\ \A u \in Threads, i \in Nat : \A op, g :
               Pending(u, i, op, g)' <=>
                 IF u = "main" THEN \/ i = 1 /\ op = "check" /\ g = f
                                    \/ i > 1 /\ Pending("main", i, op, g)
                               ELSE Pending(u, i, op, g)
      BY <1>1, <1>2, <2>2, ThenOne
    <3>2. /\ work' = [work EXCEPT ![f] = "over"]
          /\ answer' \in [Fetchers -> {"none", "queued", "given"}]
      BY <2>2, FinishProperties
    <3>3. \A i \in Nat : \A op, g : Pending("main", i, op, g)' =>
            i = 1 /\ op = "check" /\ g = f
      BY <1>1, <1>3, <3>1
    <3>4. QED
      BY <3>1, <3>2, <3>3
  <2>3. QED
    BY <2>1, <2>2 DEF Decide
<1>5. PICK w \in {"timer", "over"} :
        /\ work' = [work EXCEPT ![f] = w]
        /\ answer' \in [Fetchers -> {"none", "queued", "given"}]
        /\ todo' \in [Threads -> Seq(Ops \X Fetchers)]
        /\ \A u \in Threads, i \in Nat : \A op, g : Pending(u, i, op, g)' =>
             \/ u = "main" /\ i = 1 /\ op = "check" /\ g = f /\ w = "over"
             \/ u # "main" /\ Pending(u, i, op, g)
        /\ \A u \in Threads \ {"main"}, i \in Nat : \A op, g :
             Pending(u, i, op, g) => Pending(u, i, op, g)'
  BY <1>4
<1>6. ServiceTypeOK'
  BY <1>1, <1>5 DEF ServiceInv, ServiceTypeOK, Works, lists, counters
<1>7. /\ ListsAreSets' /\ SlotsAreUsed' /\ ComesOnce' /\ ComesWhenBegun'
      /\ DelayedAreBegun' /\ StartHoldsSlot'
  <2>1. \A u \in Threads, i \in Nat, op \in {"admit", "start"}, g \in Fetchers :
          Pending(u, i, op, g)' => Pending(u, IF u = "main" THEN i + 0 ELSE i, op, g)
    BY <1>5
  <2>2. \A g \in Fetchers : work[g] = "begun" => work'[g] = "begun"
    BY <1>1, <1>3, <1>5
  <2>3. QED
    BY <1>1, <2>1, <2>2, QuietStep
<1>8. LeavesAtTheEnd'
  <2> SUFFICES ASSUME NEW g \in Fetchers, NEW u \in Threads, NEW i \in Nat,
                      Pending(u, i, "check", g)' \/ Pending(u, i, "leave", g)'
               PROVE  \/ g \in stopped \/ work'[g] = "over"
                      \/ Pending(u, i + 1, "admit", g)'
    BY <1>1 DEF LeavesAtTheEnd
  <2>1. CASE u = "main"
    BY <1>1, <1>5, <2>1
  <2>2. CASE u # "main"
    <3>1. \/ g \in stopped \/ work[g] = "over"
          \/ Pending(u, i + 1, "admit", g)
      BY <1>5, <2>2 DEF ServiceInv, LeavesAtTheEnd
    <3>2. work[g] = "over" => work'[g] = "over"
      BY <1>1, <1>3, <1>5
    <3>3. QED
      BY <1>5, <2>2, <3>1, <3>2
  <2>3. QED
    BY <2>1, <2>2
<1>9. DecidesAlone'
  <2>1. \A u \in Threads, i \in Nat, g \in Fetchers : ~Pending(u, i, "decide", g)'
    BY <1>5 DEF ServiceInv, DecidesAlone
  <2>2. QED
    BY <2>1 DEF DecidesAlone
<1>10. AtWorkHoldsSlot'
  <2>1. ASSUME NEW g \in Fetchers \ stopped, work'[g] \in AtWork
        PROVE  work[g] \in AtWork
    BY <1>1, <1>3, <1>5, <2>1 DEF AtWork
  <2>2. QED
    BY <1>1, <2>1 DEF ServiceInv, AtWorkHoldsSlot, AtWork, lists
<1>11. QED
  BY <1>6, <1>7, <1>8, <1>9, <1>10 DEF ServiceInv

LEMMA NextKeepsInv == ServiceInv /\ [Next]_serviceVars => ServiceInv'
<1> SUFFICES ASSUME ServiceInv, [Next]_serviceVars
             PROVE  ServiceInv'
  OBVIOUS
<1>1. ASSUME NEW t \in Threads, NEW f \in Fetchers, Run(t, f)
      PROVE  ServiceInv'
  BY <1>1, AdmitKeepsInv, SetHostKeepsInv, StartKeepsInv, CheckKeepsInv,
     LeaveKeepsInv, ClearHostKeepsInv DEF Run
<1>2. ASSUME NEW f \in Fetchers, Main(f)
      PROVE  ServiceInv'
  BY <1>2, AuthorizedKeepsInv, AskRetryBlockKeepsInv, DecideKeepsInv,
     RetryTimerFiredKeepsInv, DeliverKeepsInv DEF Main
<1>3. CASE Progress
  BY <1>1, <1>2, <1>3, SucceedKeepsInv, RetryFetchKeepsInv DEF Progress
<1>4. ASSUME NEW f \in Fetchers, Begin(f) \/ StopFetching(f) \/ Fail(f)
      PROVE  ServiceInv'
  BY <1>4, BeginKeepsInv, StopFetchingKeepsInv, FailKeepsInv
<1>5. CASE UNCHANGED serviceVars
  <2>1. UNCHANGED <<running, delayed, host, work, stopped, answer, todo, failures, stops>>
    BY <1>5 DEF serviceVars
  <2>2. ServiceTypeOK' /\ ListsAreSets' /\ AtWorkHoldsSlot' /\ SlotsAreUsed'
    BY <2>1 DEF ServiceInv, ServiceTypeOK, ListsAreSets, AtWorkHoldsSlot, SlotsAreUsed
  <2>3. ComesOnce' /\ ComesWhenBegun' /\ DelayedAreBegun'
    BY <2>1 DEF ServiceInv, ComesOnce, ComesWhenBegun, DelayedAreBegun, Comes, Pending
  <2>4. LeavesAtTheEnd' /\ StartHoldsSlot'
    BY <2>1 DEF ServiceInv, LeavesAtTheEnd, StartHoldsSlot, Pending
  <2>5. DecidesAlone'
    BY <2>1 DEF ServiceInv, DecidesAlone, Pending
  <2>6. QED
    BY <2>2, <2>3, <2>4, <2>5 DEF ServiceInv
<1>6. QED
  BY <1>3, <1>4, <1>5 DEF Next

(***************************************************************************)
(* The invariant holds for any number of fetchers and slots, however the   *)
(* three threads interleave.                                               *)
(***************************************************************************)
THEOREM ServiceInvariant == Spec => []ServiceInv
BY InitServiceInv, NextKeepsInv, PTL DEF Spec

-----------------------------------------------------------------------------
(***************************************************************************)
(* The variables of the service keep their types, and no more fetchers     *)
(* than there are slots of the host run.                                   *)
(***************************************************************************)
THEOREM ServiceTypeCorrect == Spec => []ServiceTypeOK
<1>1. ServiceInv => ServiceTypeOK
  BY DEF ServiceInv
<1>2. QED
  BY <1>1, ServiceInvariant, PTL

(***************************************************************************)
(* No fetcher is listed twice, whichever threads begin, stop and retry it. *)
(***************************************************************************)
THEOREM FetchersListedOnce == Spec => []ListedOnce
<1>1. ServiceInv => ListedOnce
  <2> SUFFICES ASSUME ServiceInv
               PROVE  ListedOnce
    OBVIOUS
  <2>1. /\ running \in Seq(Fetchers) /\ delayed \in Seq(Fetchers)
        /\ IsInjective(running) /\ IsInjective(delayed)
        /\ \A g \in Fetchers : ~(Contains(running, g) /\ Contains(delayed, g))
    BY DEF ServiceInv, ServiceTypeOK, ListsAreSets
  <2>2. \A g : ~(Contains(running, g) /\ Contains(delayed, g))
    BY <2>1, ContainsByIndex
  <2>3. QED
    BY <2>1, <2>2, ConcatContains DEF ListedOnce
<1>2. QED
  BY <1>1, ServiceInvariant, PTL

(***************************************************************************)
(* Nobody waits while there is a free slot.                                *)
(***************************************************************************)
THEOREM SlotsAlwaysUsed == Spec => []SlotsAreUsed
<1>1. ServiceInv => SlotsAreUsed
  BY DEF ServiceInv
<1>2. QED
  BY <1>1, ServiceInvariant, PTL

(***************************************************************************)
(* A fetcher that is at work and was not stopped holds a slot, so that     *)
(* there are never more of them at work than there are slots.              *)
(***************************************************************************)
THEOREM WorkersHoldSlots == Spec => []AtWorkHoldsSlot
<1>1. ServiceInv => AtWorkHoldsSlot
  BY DEF ServiceInv
<1>2. QED
  BY <1>1, ServiceInvariant, PTL
=============================================================================
