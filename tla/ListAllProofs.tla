---------------------------- MODULE ListAllProofs ----------------------------
(***************************************************************************)
(* Type correctness of ListAll, and ListingComplete, for any set of names, *)
(* any sizes of the pages and any number of objects added between them.    *)
(***************************************************************************)
EXTENDS ListAll, TLAPS

\* Up to name n, the items hold what there was at the start.
Covers(s, n) == \A m \in atStart : m <= n => m \in Range(s)

\* The items are in the bucket, in order, up to the token, and none up to the
\* token is missing.
GatheredOK ==
  /\ Range(items) \subseteq bucket
  /\ Increasing(items)
  /\ \A i \in DOMAIN items : items[i] <= token
  /\ Covers(items, token)

\* A page on its way continues the items: it begins behind the token; what it
\* leaves out is behind its last name, and there is such a name if it says so.
PageOK ==
  /\ Range(page.items) \subseteq bucket
  /\ Increasing(page.items)
  /\ \A i \in DOMAIN page.items : token < page.items[i]
  /\ \A m \in atStart \ Range(page.items) :
       token < m => /\ page.more
                    /\ \A i \in DOMAIN page.items : page.items[i] < m
  /\ page.more => page.items # <<>>

\* A listing without an error was reported with all its items.
ReportOK ==
  /\ calls # <<>>
  /\ ~calls[1].error =>
       /\ Len(calls) = 1
       /\ atStart \subseteq Range(calls[1].items)
       /\ Range(calls[1].items) \subseteq bucket
       /\ Increasing(calls[1].items)

ListInv ==
  /\ ListTypeOK
  /\ atStart \subseteq bucket
  /\ pc # "done" => GatheredOK /\ calls = <<>>
  /\ pc = "idle" => token = 0
  /\ pc = "answered" /\ ~page.failed => PageOK
  /\ pc = "done" => ReportOK

-----------------------------------------------------------------------------
\* What is in a sequence that two make, and where.
LEMMA RangeOfConcat ==
  ASSUME NEW S, NEW s \in Seq(S), NEW t \in Seq(S)
  PROVE  Range(s \o t) = Range(s) \cup Range(t)
<1>1. \A i \in DOMAIN s : i \in DOMAIN (s \o t) /\ (s \o t)[i] = s[i]
  OBVIOUS
<1>2. \A j \in DOMAIN t : Len(s) + j \in DOMAIN (s \o t) /\ (s \o t)[Len(s) + j] = t[j]
  OBVIOUS
<1>3. \A i \in DOMAIN (s \o t) :
         \/ i \in DOMAIN s /\ (s \o t)[i] = s[i]
         \/ i - Len(s) \in DOMAIN t /\ (s \o t)[i] = t[i - Len(s)]
  OBVIOUS
<1> HIDE DEF Range
<1>4. Range(s) \subseteq Range(s \o t)
  BY <1>1 DEF Range
<1>5. Range(t) \subseteq Range(s \o t)
  BY <1>2 DEF Range
<1>6. Range(s \o t) \subseteq Range(s) \cup Range(t)
  BY <1>3 DEF Range
<1> QED BY <1>4, <1>5, <1>6

\* Names are ranks.
LEMMA NamesAreNumbers ==
  ASSUME NEW s \in Seq(Names)
  PROVE  s \in Seq(Nat)
<1>1. Len(s) \in Nat /\ s \in [1..Len(s) -> Names]
  OBVIOUS
<1>2. s \in [1..Len(s) -> Nat]
  BY <1>1, NamesAssumption
<1> QED BY <1>1, <1>2

\* Increasing numbers followed by increasing greater ones are increasing.
LEMMA IncreasingConcat ==
  ASSUME NEW s \in Seq(Nat), NEW t \in Seq(Nat), NEW n \in Nat,
         Increasing(s), Increasing(t),
         \A i \in DOMAIN s : s[i] <= n,
         \A i \in DOMAIN t : n < t[i]
  PROVE  Increasing(s \o t)
<1> SUFFICES ASSUME NEW i \in DOMAIN (s \o t), NEW j \in DOMAIN (s \o t), i < j
             PROVE  (s \o t)[i] < (s \o t)[j]
  BY DEF Increasing
<1>1. i \in Nat /\ j \in Nat /\ Len(s) \in Nat
  OBVIOUS
<1>2. CASE j <= Len(s)
  <2>1. i \in DOMAIN s /\ j \in DOMAIN s /\ (s \o t)[i] = s[i] /\ (s \o t)[j] = s[j]
    BY <1>1, <1>2
  <2> QED BY <2>1 DEF Increasing
<1>3. CASE i <= Len(s) /\ Len(s) < j
  <2>1. /\ i \in DOMAIN s /\ j - Len(s) \in DOMAIN t
        /\ (s \o t)[i] = s[i] /\ (s \o t)[j] = t[j - Len(s)]
    BY <1>1, <1>3
  <2>2. s[i] \in Nat /\ t[j - Len(s)] \in Nat
    BY <2>1
  <2> QED BY <2>1, <2>2
<1>4. CASE Len(s) < i
  <2>1. /\ i - Len(s) \in DOMAIN t /\ j - Len(s) \in DOMAIN t
        /\ i - Len(s) < j - Len(s)
        /\ (s \o t)[i] = t[i - Len(s)] /\ (s \o t)[j] = t[j - Len(s)]
    BY <1>1, <1>4
  <2> QED BY <2>1 DEF Increasing
<1> QED BY <1>1, <1>2, <1>3, <1>4

\* The last of increasing numbers is the greatest.
LEMMA LastIsGreatest ==
  ASSUME NEW s \in Seq(Nat), s # <<>>, Increasing(s)
  PROVE  /\ Len(s) \in DOMAIN s
         /\ \A i \in DOMAIN s : s[i] <= s[Len(s)]
<1>1. Len(s) \in DOMAIN s
  OBVIOUS
<1>2. ASSUME NEW i \in DOMAIN s PROVE s[i] <= s[Len(s)]
  <2>1. i < Len(s) \/ i = Len(s)
    OBVIOUS
  <2>2. s[i] \in Nat /\ s[Len(s)] \in Nat
    BY <1>1
  <2> QED BY <1>1, <2>1, <2>2 DEF Increasing
<1> QED BY <1>1, <1>2

-----------------------------------------------------------------------------
LEMMA ListInitInv == ListInit => ListInv
<1> SUFFICES ASSUME ListInit PROVE ListInv
  OBVIOUS
<1>1. ListTypeOK
  BY DEF ListInit, ListTypeOK, NoPage
<1>2. GatheredOK
  BY DEF ListInit, GatheredOK, Range, Increasing, Covers
<1> QED BY <1>1, <1>2 DEF ListInit, ListInv

\* The objects are added to and the rest stays.
LEMMA UploadInv ==
  ASSUME ListInv, NEW n \in Names, Upload(n)
  PROVE  ListInv'
<1>1. ListTypeOK'
  BY DEF ListInv, ListTypeOK, Upload
<1>2. bucket \subseteq bucket' /\ UNCHANGED <<pc, token, page, items, calls, atStart>>
  BY DEF Upload
<1>3. GatheredOK => GatheredOK'
  BY <1>2 DEF GatheredOK, Covers, Range, Increasing
<1>4. PageOK => PageOK'
  BY <1>2 DEF PageOK, Range, Increasing
<1>5. ReportOK => ReportOK'
  BY <1>2 DEF ReportOK, Range, Increasing
<1> QED BY <1>1, <1>2, <1>3, <1>4, <1>5 DEF ListInv

\* Nothing is before the first page.
LEMMA StartInv ==
  ASSUME ListInv, StartListAll
  PROVE  ListInv'
<1>1. ListTypeOK'
  BY DEF ListInv, ListTypeOK, StartListAll
<1>2. GatheredOK'
  <2>1. token = 0 /\ GatheredOK /\ bucket \subseteq Names
    BY DEF ListInv, ListTypeOK, StartListAll
  <2>2. UNCHANGED <<bucket, token, items>> /\ atStart' = bucket
    BY DEF StartListAll
  <2>3. Covers(items, token)'
    BY <2>1, <2>2, NamesAssumption DEF Covers
  <2> QED BY <2>1, <2>2, <2>3 DEF GatheredOK, Range, Increasing
<1> QED BY <1>1, <1>2 DEF ListInv, StartListAll

LEMMA ServeInv ==
  ASSUME ListInv, ServePage
  PROVE  ListInv'
<1>1. PICK k \in 0..Cardinality(Unlisted) : \E s \in [1..k -> Unlisted] :
         /\ IsPage(s)
         /\ k = 0 => Unlisted = {}
         /\ page' = [items |-> s, more |-> Unlisted # Range(s), failed |-> FALSE]
  BY DEF ServePage
<1>2. PICK s \in [1..k -> Unlisted] :
         /\ IsPage(s)
         /\ k = 0 => Unlisted = {}
         /\ page' = [items |-> s, more |-> Unlisted # Range(s), failed |-> FALSE]
  BY <1>1
<1>3. k \in Nat
  OBVIOUS
<1>4. /\ pc = "fetching" /\ pc' = "answered"
      /\ UNCHANGED <<bucket, token, items, calls, atStart>>
  BY DEF ServePage
<1>5. /\ Unlisted \subseteq bucket /\ \A n \in Unlisted : token < n
      /\ bucket \subseteq Names /\ token \in Names \cup {0}
  BY DEF Unlisted, ListInv, ListTypeOK
<1>6. s \in Seq(Names) /\ DOMAIN s = 1..k
  BY <1>2, <1>3, <1>5
<1>7. ListTypeOK'
  BY <1>2, <1>4, <1>6 DEF ListInv, ListTypeOK
<1>8. GatheredOK' /\ calls' = <<>> /\ (atStart \subseteq bucket)'
  BY <1>4 DEF ListInv, GatheredOK, Covers, Range, Increasing
<1>9. PageOK'
  <2>1. page'.items = s /\ page'.more = (Unlisted # Range(s)) /\ atStart \subseteq bucket
    BY <1>2 DEF ListInv
  <2>2. Range(s) \subseteq Unlisted
    BY <1>2 DEF Range
  <2>3. Increasing(s) /\ \A n \in Unlisted \ Range(s) : \A i \in DOMAIN s : s[i] < n
    BY <1>2 DEF IsPage
  <2>4. \A m \in atStart \ Range(s) : token < m => m \in Unlisted \ Range(s)
    BY <2>1 DEF Unlisted
  <2>5. Unlisted # Range(s) => s # <<>>
    <3> SUFFICES ASSUME s = <<>> PROVE Unlisted = Range(s)
      OBVIOUS
    <3>1. k = 0
      BY <1>3, <1>6
    <3> QED BY <1>2, <2>2, <3>1
  <2>6. \A i \in DOMAIN s : token < s[i]
    BY <1>2, <1>5
  <2>7. Range(s) \subseteq bucket
    BY <1>5, <2>2
  <2>8. \A m \in atStart \ Range(s) :
          token < m => /\ Unlisted # Range(s)
                       /\ \A i \in DOMAIN s : s[i] < m
    BY <2>3, <2>4
  <2> QED BY <1>4, <2>1, <2>3, <2>5, <2>6, <2>7, <2>8 DEF PageOK, Increasing, Range
<1> QED BY <1>4, <1>7, <1>8, <1>9 DEF ListInv

LEMMA FailInv ==
  ASSUME ListInv, FailPage
  PROVE  ListInv'
<1>1. ListTypeOK'
  BY DEF ListInv, ListTypeOK, FailPage
<1>2. GatheredOK'
  BY DEF ListInv, FailPage, GatheredOK, Covers, Range, Increasing
<1> QED BY <1>1, <1>2 DEF ListInv, FailPage

\* The page is put behind the items; it is the last one or the token goes on.
LEMMA ReceiveInv ==
  ASSUME ListInv, ReceivePage
  PROVE  ListInv'
<1>1. /\ pc = "answered" /\ ~page.failed /\ items' = items \o page.items
      /\ UNCHANGED <<bucket, page, atStart>>
      /\ ListTypeOK /\ GatheredOK /\ PageOK /\ calls = <<>> /\ atStart \subseteq bucket
  BY DEF ListInv, ReceivePage
<1>2. /\ items \in Seq(Names) /\ page.items \in Seq(Names) /\ Names \subseteq Nat
      /\ token \in Nat
  BY <1>1, NamesAssumption DEF ListTypeOK
<1>3. items \in Seq(Nat) /\ page.items \in Seq(Nat)
  BY <1>2, NamesAreNumbers
<1>4. Range(items') = Range(items) \cup Range(page.items)
  BY <1>1, <1>2, RangeOfConcat
<1>5. Increasing(items')
  BY <1>1, <1>2, <1>3, IncreasingConcat DEF GatheredOK, PageOK
<1>6. items' \in Seq(Names)
  BY <1>1, <1>2
<1>7. Range(items') \subseteq bucket
  BY <1>1, <1>4 DEF GatheredOK, PageOK
<1>8. CASE page.more
  <2>1. /\ token' = page.items[Len(page.items)] /\ pc' = "fetching" /\ calls' = calls
    BY <1>8 DEF ReceivePage, NextPage
  <2>2. page.items # <<>> /\ Increasing(page.items)
    BY <1>1, <1>8 DEF PageOK
  <2>3. /\ Len(page.items) \in DOMAIN page.items
        /\ \A i \in DOMAIN page.items : page.items[i] <= token'
    BY <1>3, <2>1, <2>2, LastIsGreatest
  <2>4. token' \in Names /\ token < token'
    BY <1>1, <1>2, <2>1, <2>3 DEF PageOK
  <2>5. \A x \in Range(items) \cup Range(page.items) : x <= token'
    <3>1. \A x \in Range(items) : x \in Names /\ x <= token
      BY <1>1, <1>2 DEF GatheredOK, Range
    <3>2. \A x \in Range(page.items) : x <= token'
      BY <2>3 DEF Range
    <3>3. \A x \in Range(items) : x <= token'
      <4> SUFFICES ASSUME NEW x \in Range(items) PROVE x <= token'
        OBVIOUS
      <4>1. x \in Nat /\ token' \in Nat /\ x <= token
        BY <1>2, <2>4, <3>1
      <4> QED BY <1>2, <2>4, <4>1
    <3> QED BY <3>2, <3>3
  <2>6. \A i \in DOMAIN items' : items'[i] <= token'
    BY <1>4, <2>5 DEF Range
  <2>7. Covers(items, token)'
    <3> SUFFICES ASSUME NEW m \in atStart, m <= token'
                 PROVE  m \in Range(items')
      BY <1>1 DEF Covers
    <3>1. m \in Nat
      BY <1>1, <1>2 DEF ListTypeOK
    <3>2. CASE m <= token
      BY <1>1, <1>4, <3>2 DEF GatheredOK, Covers
    <3>3. CASE token < m
      <4>1. ~ (token' < m)
        BY <1>2, <2>4, <3>1
      <4> QED BY <1>1, <1>4, <2>1, <2>3, <3>3, <4>1 DEF PageOK
    <3> QED BY <1>2, <3>1, <3>2, <3>3
  <2>8. GatheredOK'
    BY <1>1, <1>5, <1>7, <2>6, <2>7 DEF GatheredOK, Increasing, Range
  <2>9. ListTypeOK'
    BY <1>1, <1>6, <2>1, <2>4 DEF ListTypeOK
  <2> QED BY <1>1, <2>1, <2>8, <2>9 DEF ListInv
<1>9. CASE ~page.more
  <2>1. /\ calls' = Append(calls, [items |-> items', error |-> FALSE])
        /\ pc' = "done" /\ token' = token
    BY <1>9 DEF ReceivePage, Finish
  <2>2. calls' \in Seq([items : Seq(Names), error : BOOLEAN])
    BY <1>1, <1>6, <2>1 DEF ListTypeOK
  <2>3. ListTypeOK'
    BY <1>1, <1>6, <2>1, <2>2 DEF ListTypeOK
  <2>4. /\ calls' # <<>> /\ Len(calls') = 1
        /\ calls'[1].items = items' /\ ~calls'[1].error
    BY <1>1, <2>1
  <2>5. atStart \subseteq Range(items')
    <3> SUFFICES ASSUME NEW m \in atStart PROVE m \in Range(items')
      OBVIOUS
    <3>1. m \in Nat
      BY <1>1, <1>2 DEF ListTypeOK
    <3>2. CASE m <= token
      BY <1>1, <1>4, <3>2 DEF GatheredOK, Covers
    <3>3. CASE token < m
      BY <1>1, <1>4, <1>9, <3>3 DEF PageOK
    <3> QED BY <1>2, <3>1, <3>2, <3>3
  <2>6. ReportOK'
    BY <1>1, <1>5, <1>7, <2>4, <2>5 DEF ReportOK, Range, Increasing
  <2> QED BY <1>1, <2>1, <2>3, <2>6 DEF ListInv
<1> QED BY <1>8, <1>9

LEMMA ErrorInv ==
  ASSUME ListInv, ReceiveError
  PROVE  ListInv'
<1>1. /\ pc = "answered" /\ pc' = "done"
      /\ UNCHANGED <<bucket, token, page, items, atStart>>
      /\ calls' = Append(Append(calls, [items |-> <<>>, error |-> TRUE]),
                         [items |-> items, error |-> FALSE])
      /\ ListTypeOK /\ calls = <<>> /\ atStart \subseteq bucket
  BY DEF ListInv, ReceiveError, Finish
<1>2. calls' \in Seq([items : Seq(Names), error : BOOLEAN])
  BY <1>1 DEF ListTypeOK
<1>3. ListTypeOK'
  BY <1>1, <1>2 DEF ListTypeOK
<1>4. ReportOK'
  BY <1>1 DEF ReportOK
<1> QED BY <1>1, <1>3, <1>4 DEF ListInv

LEMMA ListNextInv == ListInv /\ [ListNext]_listVars => ListInv'
<1> SUFFICES ASSUME ListInv, [ListNext]_listVars PROVE ListInv'
  OBVIOUS
<1>1. CASE StartListAll
  BY <1>1, StartInv
<1>2. CASE \E n \in Names : Upload(n)
  BY <1>2, UploadInv
<1>3. CASE ServePage
  BY <1>3, ServeInv
<1>4. CASE FailPage
  BY <1>4, FailInv
<1>5. CASE ReceivePage
  BY <1>5, ReceiveInv
<1>6. CASE ReceiveError
  BY <1>6, ErrorInv
<1>7. CASE UNCHANGED listVars
  BY <1>7 DEF listVars, ListInv, ListTypeOK, GatheredOK, PageOK, ReportOK,
              Covers, Range, Increasing
<1> QED BY <1>1, <1>2, <1>3, <1>4, <1>5, <1>6, <1>7 DEF ListNext

-----------------------------------------------------------------------------
(***************************************************************************)
(* The invariant that the handler of a page (paginatedCompletion) keeps,   *)
(* whatever is uploaded between two pages.                                 *)
(***************************************************************************)
THEOREM ListInvariant == ListSpec => []ListInv
<1> QED BY ListInitInv, ListNextInv, PTL DEF ListSpec

(***************************************************************************)
(* A listing is type correct, for any number of pages.                     *)
(***************************************************************************)
THEOREM ListTypeCorrect == ListSpec => []ListTypeOK
<1>1. ListInv => ListTypeOK
  BY DEF ListInv
<1> QED BY <1>1, ListInvariant, PTL

(***************************************************************************)
(* listAll gives every object there was when it was called, once and in    *)
(* order, unless it reports an error: for any set of names, any pages the  *)
(* server chooses and any uploads meanwhile.                               *)
(***************************************************************************)
THEOREM ListingsComplete == ListSpec => []ListingComplete
<1>1. ListInv => ListingComplete
  BY DEF ListInv, ListingComplete, ReportOK
<1> QED BY <1>1, ListInvariant, PTL
=============================================================================
