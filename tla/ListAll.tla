------------------------------- MODULE ListAll -------------------------------
(***************************************************************************)
(* FIRStorageReference.listAll as the feed uses it: the objects under a    *)
(* reference are asked for page by page, each page with a list task of its *)
(* own, while others go on uploading.                                      *)
(*                                                                         *)
(* A name is its rank in the order of the bucket, from 1 on; the token of  *)
(* a page is the last name the server gave, and 0 before the first page.   *)
(***************************************************************************)
EXTENDS Naturals, Sequences, FiniteSets, Functions

CONSTANT Names

ASSUME NamesAssumption == Names \subseteq Nat \ {0}

VARIABLES
  bucket,    \* the objects there are
  pc,        \* where the listing is
  token,     \* the page token of the task that runs
  page,      \* the answer of the server to it, on its way to the client
  items,     \* the items gathered
  calls,     \* history: the calls of the completion handler
  atStart    \* history: the objects there were when listAll was called

listVars == <<bucket, pc, token, page, items, calls, atStart>>

NoPage == [items |-> <<>>, more |-> FALSE, failed |-> FALSE]

Increasing(s) == \A i, j \in DOMAIN s : i < j => s[i] < s[j]

ListTypeOK ==
  /\ bucket \subseteq Names
  /\ pc \in {"idle", "fetching", "answered", "done"}
  /\ token \in Names \cup {0}
  /\ page \in [items : Seq(Names), more : BOOLEAN, failed : BOOLEAN]
  /\ items \in Seq(Names)
  /\ calls \in Seq([items : Seq(Names), error : BOOLEAN])
  /\ atStart \subseteq Names

ListInit ==
  /\ bucket \in SUBSET Names
  /\ pc = "idle"
  /\ token = 0
  /\ page = NoPage
  /\ items = <<>>
  /\ calls = <<>>
  /\ atStart = {}

-----------------------------------------------------------------------------
StartListAll ==
  /\ pc = "idle"
  /\ pc' = "fetching"
  /\ atStart' = bucket
  /\ UNCHANGED <<bucket, token, page, items, calls>>

\* Someone uploads an object; nothing is ever deleted.
Upload(n) ==
  /\ bucket' = bucket \cup {n}
  /\ UNCHANGED <<pc, token, page, items, calls, atStart>>

\* What is left to list after the last page.
Unlisted == {n \in bucket : n > token}

\* The first names of those left, in order.
IsPage(s) ==
  /\ Increasing(s)
  /\ \A n \in Unlisted \ Range(s) : \A i \in DOMAIN s : s[i] < n

\* The server gives as many as it likes, but some if there are any, and says
\* whether there are more.
ServePage ==
  /\ pc = "fetching"
  /\ \E k \in 0..Cardinality(Unlisted) : \E s \in [1..k -> Unlisted] :
       /\ IsPage(s)
       /\ k = 0 => Unlisted = {}
       /\ page' = [items |-> s, more |-> Unlisted # Range(s), failed |-> FALSE]
  /\ pc' = "answered"
  /\ UNCHANGED <<bucket, token, items, calls, atStart>>

\* No connection, or an error of the server.
FailPage ==
  /\ pc = "fetching"
  /\ page' = [items |-> <<>>, more |-> FALSE, failed |-> TRUE]
  /\ pc' = "answered"
  /\ UNCHANGED <<bucket, token, items, calls, atStart>>

\* paginatedCompletion, on the main queue: after the last page, the result.
Finish(all, callsBefore) ==
  /\ calls' = Append(callsBefore, [items |-> all, error |-> FALSE])
  /\ pc' = "done"
  /\ UNCHANGED token

\* Mutant: the token is the name the next page would begin with.
NextPageInclusive ==
  /\ token' = page.items[Len(page.items)] + 1
  /\ pc' = "fetching"
  /\ UNCHANGED calls

NextPage ==
  /\ token' = page.items[Len(page.items)]
  /\ pc' = "fetching"
  /\ UNCHANGED calls

\* Mutant: the pages before are not kept.
ReceiveLastPage ==
  /\ pc = "answered"
  /\ ~page.failed
  /\ items' = page.items
  /\ IF page.more THEN NextPage ELSE Finish(items', calls)
  /\ UNCHANGED <<bucket, page, atStart>>

ReceivePage ==
  /\ pc = "answered"
  /\ ~page.failed
  /\ items' = items \o page.items
  /\ IF page.more THEN NextPage ELSE Finish(items', calls)
  /\ UNCHANGED <<bucket, page, atStart>>

\* Mutant: an error is waited out.
IgnoreError ==
  /\ pc = "answered"
  /\ page.failed
  /\ pc' = "fetching"
  /\ UNCHANGED <<bucket, token, page, items, calls, atStart>>

\* The error is reported, and the handler goes on to the end: the page it does
\* not have is empty and has no token.
ReceiveError ==
  /\ pc = "answered"
  /\ page.failed
  /\ Finish(items, Append(calls, [items |-> <<>>, error |-> TRUE]))
  /\ UNCHANGED <<bucket, page, items, atStart>>

ListNext ==
  \/ StartListAll
  \/ \E n \in Names : Upload(n)
  \/ ServePage
  \/ FailPage
  \/ ReceivePage
  \/ ReceiveError

ListSpec == ListInit /\ [][ListNext]_listVars

\* A request is answered, at worst with a timeout, and the answer is handled.
FairListSpec ==
  /\ ListSpec
  /\ WF_listVars(ServePage \/ FailPage)
  /\ WF_listVars(ReceivePage \/ ReceiveError)

-----------------------------------------------------------------------------
(***************************************************************************)
(* A listing that reports no error gives every object that was there when  *)
(* it was asked for, none twice, and none that is not there, although the  *)
(* bucket changes from page to page.                                       *)
(***************************************************************************)
ListingComplete ==
  calls # <<>> /\ ~calls[1].error =>
    /\ Len(calls) = 1
    /\ atStart \subseteq Range(calls[1].items)
    /\ Range(calls[1].items) \subseteq bucket
    /\ Increasing(calls[1].items)

(***************************************************************************)
(* The completion handler is called in the end, even if objects are added  *)
(* and pages fail.                                                         *)
(***************************************************************************)
ListingEnds == pc = "fetching" ~> calls # <<>>

(***************************************************************************)
(* "A completion handler that will be invoked with all items and prefixes" *)
(* (FIRStorageReference.h:233): every call that reports no error gives all *)
(* the objects there were.                                                 *)
(***************************************************************************)
NoErrorMeansAll ==
  \A i \in DOMAIN calls :
    ~calls[i].error => atStart \subseteq Range(calls[i].items)
=============================================================================
