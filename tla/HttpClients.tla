---------------------------- MODULE HttpClients ----------------------------
(***************************************************************************)
(* The HTTP clients of pyhostprep: lists read page by page                 *)
(* (httpsessionmgr.APISession.api_get and capella_get, get_cbs_tags of     *)
(* software.py under the decorator of retry.py), while others change the   *)
(* list between two pages; and single requests through a session whose     *)
(* adapter sends them again (httpsessionmgr.py, rest.py).                  *)
(*                                                                         *)
(* A list that was read is a set here: its order does not matter, and an   *)
(* entry that moved back between two pages is in it twice.                 *)
(***************************************************************************)
EXTENDS PagedService

CONSTANTS
    Version,     \* the numbers of a tag, <<>> for a tag that is no release
    Sizes,       \* the sizes of a page a caller can ask for (perPage)
    DefaultSize, \* the size of a page when nobody asks
    RetryCount,  \* of the retry decorator
    Total,       \* of urllib3's Retry, in each kind of session
    MaxCalls,    \* bound: calls
    MaxChanges   \* bound: changes of the list during a call

ASSUME VersionAssumption == Version \in [Entries -> {<<>>} \cup (Nat \X Nat \X Nat)]
ASSUME SizesAssumption == Sizes \subseteq Nat \ {0} /\ DefaultSize \in Sizes
ASSUME BoundsAssumption ==
    /\ RetryCount \in Nat /\ Total \in [{"mgr", "rest"} -> Nat]
    /\ MaxCalls \in Nat /\ MaxChanges \in Nat

\* What each of the two session classes can send.
MgrVerbs  == {"GET", "POST", "PUT", "DELETE", "PATCH"}
RestVerbs == {"GET", "POST", "PUT", "DELETE"}

Readers == {"api_get", "capella_get", "get_cbs_tags"}
Sends   == {[op |-> "mgr", verb |-> v, query |-> FALSE] : v \in MgrVerbs}
             \cup {[op |-> "rest", verb |-> v, query |-> FALSE] : v \in RestVerbs}
Reads   == {[op |-> r, verb |-> "GET", query |-> q] : r \in Readers, q \in BOOLEAN}

\* api_get alone can be given an endpoint with a query: capella_get and
\* get_cbs_tags write their own.
CallType == Sends \cup {c \in Reads : c.query => c.op = "api_get"}
NoCall == [op |-> "none", verb |-> "none", query |-> FALSE]

VARIABLES
    call,    \* the call under way, or the last one
    status,  \* "idle" before the first, then "running", "returned", "raised"
    page,    \* the page asked for next
    size,    \* and its size
    items,   \* what was read
    attempt, \* of the decorator, or of the adapter
    applied, \* how often the service carried out a request of this call
    kept,    \* history: the entries in the list since the attempt began that
             \* no change moved forward
    since,   \* history: the entries in the list at any time since then
    calls, changes

clientVars == <<call, status, page, size, items, attempt, applied, calls>>
vars == <<place, call, status, page, size, items, attempt, applied, kept, since,
          calls, changes>>

Attempts == 1..(1 + RetryCount) \cup 1..(1 + Total["mgr"]) \cup 1..(1 + Total["rest"])

TypeOK ==
    /\ place \in [Entries -> Nat]
    /\ \A e, f \in Listed : place[e] = place[f] => e = f
    /\ call \in CallType \cup {NoCall}
    /\ status \in {"idle", "running", "returned", "raised"}
    /\ page \in Nat \ {0}
    /\ size \in Sizes
    /\ items \subseteq Entries
    /\ attempt \in Attempts
    /\ applied \in Nat
    /\ kept \subseteq Entries /\ since \subseteq Entries
    /\ calls \in 0..MaxCalls
    /\ changes \in 0..MaxChanges

Init ==
    /\ \E S \in SUBSET Entries : place \in ListsOf(S)
    /\ call = NoCall /\ status = "idle"
    /\ page = 1 /\ size = DefaultSize
    /\ items = {}
    /\ attempt = 1 /\ applied = 0
    /\ kept = {} /\ since = {}
    /\ calls = 0 /\ changes = 0

-----------------------------------------------------------------------------
\* An attempt to read the list starts here: from now on kept and since speak
\* of it.
BeginHistory(query) == kept' = Asked(query) /\ since' = Listed

\* Faulty variant: `def api_get(self, endpoint, items=[])`.
NewItems_Shared(c) == items

\* `if items is None: items = []`.
NewItems(c) == {}

Start(c, k) ==
    /\ status # "running"
    /\ calls < MaxCalls
    /\ calls' = calls + 1
    /\ call' = c /\ status' = "running"
    /\ page' = 1
    /\ size' = k
    /\ items' = NewItems(c)
    /\ attempt' = 1 /\ applied' = 0
    /\ BeginHistory(c.query)
    /\ changes' = 0
    /\ UNCHANGED place

\* The query goes out with the first page: the next one is asked for with
\* the path, page and perPage alone.
Query == call.query /\ page = 1

\* Faulty variant: the page size of the service, not that of the reply.
NextSize_Default(k) == DefaultSize

\* perPage of the reply.
NextSize(k) == k

\* One GET and the code up to the next one, or to the end of the call.
ReadPage ==
    /\ status = "running" /\ call \in Reads
    /\ items' = items \cup Page(page, size, Query)
    /\ IF HasNext(page, size, Query)
       THEN page' = page + 1 /\ size' = NextSize(size) /\ UNCHANGED status
       ELSE status' = "returned" /\ UNCHANGED <<page, size>>
    /\ UNCHANGED <<place, call, attempt, applied, kept, since, calls, changes>>

\* Faulty variant: whatever fails is tried again.
Limit_None == attempt

\* retry() stands above get_cbs_tags alone.
Limit == IF call.op = "get_cbs_tags" THEN RetryCount ELSE 0

\* Faulty variant: `while True` in the place of the range.
NextAttempt_Forever(a) == a

NextAttempt(a) == a + 1

\* Faulty variant: the list is a variable of the caller.
Again_KeepItems ==
    page' = 1 /\ UNCHANGED items

\* Another attempt is a new call of the function.
Again ==
    page' = 1 /\ items' = {}

\* A page does not come, or comes with an error that check_status_code or the
\* missing results turn into an exception.
ReadFails ==
    /\ status = "running" /\ call \in Reads
    /\ IF attempt <= Limit
       THEN /\ attempt' = NextAttempt(attempt)
            /\ Again
            /\ BeginHistory(FALSE)
            /\ UNCHANGED status
       ELSE status' = "raised" /\ UNCHANGED <<page, items, attempt, kept, since>>
    /\ UNCHANGED <<place, call, size, applied, calls, changes>>

\* Faulty variant: allowed_methods=None.
SentAgain_Any == {"GET", "POST", "PUT", "DELETE", "PATCH"}

\* What urllib3 sends again although it may have been carried out, unless
\* told otherwise: the sessions give Retry a total and a back-off only.
SentAgain == {"GET", "PUT", "DELETE"}

SendAgain(allowed) ==
    IF allowed /\ attempt <= Total[call.op]
    THEN attempt' = attempt + 1 /\ UNCHANGED status
    ELSE status' = "raised" /\ UNCHANGED attempt

\* A request is carried out and answered, carried out with its answer lost,
\* answered with an error, or there is no connection to send it on.  An error
\* that names a time to come back (503 with Retry-After) is sent again like
\* the last of these, if the verb is in SentAgain, and not carried out before.
Send ==
    /\ status = "running" /\ call \in Sends
    /\ \/ status' = "returned" /\ applied' = applied + 1 /\ UNCHANGED attempt
       \/ SendAgain(call.verb \in SentAgain) /\ applied' = applied + 1
       \/ status' = "raised" /\ UNCHANGED <<attempt, applied>>
       \/ SendAgain(TRUE) /\ UNCHANGED applied
    /\ UNCHANGED <<place, call, page, size, items, kept, since, calls, changes>>

\* Another client changes the list.
Change ==
    /\ status = "running" /\ call \in Reads
    /\ changes < MaxChanges
    /\ changes' = changes + 1
    /\ Changed
    /\ kept' = {e \in kept : place'[e] >= place[e]}
    /\ since' = since \cup {e \in Entries : place'[e] > 0}
    /\ UNCHANGED clientVars

Step == ReadPage \/ ReadFails \/ Send

Next == (\E c \in CallType, k \in Sizes : Start(c, k)) \/ Step \/ Change

Spec == Init /\ [][Next]_vars

\* The process that made a call is scheduled, and every request ends: all
\* have a timeout.
FairSpec == Spec /\ WF_vars(Step)

-----------------------------------------------------------------------------
(* The releases among the tags.                                            *)

IsRelease(e) == Version[e] # <<>> /\ Version[e][3] <= 9

\* The order of numbers below 100 as strings: 1 < 10 < 11 < 2.
Key(n) == IF n < 10 THEN 11 * n ELSE 11 * (n \div 10) + (n % 10) + 1

\* The order of tags as strings, number by number: "." is less than a digit.
Later(v, w) ==
    \/ Key(v[1]) > Key(w[1])
    \/ v[1] = w[1] /\ Key(v[2]) > Key(w[2])
    \/ v[1] = w[1] /\ v[2] = w[2] /\ v[3] > w[3]

Releases(tags) == {e \in tags : IsRelease(e)}
Majors(tags) == {Version[e][1] : e \in Releases(tags)}

\* Faulty variant: the other end of the sorted list.
CurrentMajors_First(tags) ==
    {m \in Majors(tags) : Cardinality({n \in Majors(tags) : Key(n) < Key(m)}) < 2}

\* The last two.
CurrentMajors(tags) ==
    {m \in Majors(tags) : Cardinality({n \in Majors(tags) : Key(n) > Key(m)}) < 2}

\* startswith: 7 also begins 70.
StartsWith(e, m) ==
    Version[e][1] = m \/ (m \in 1..9 /\ Version[e][1] \div 10 = m)

Current(tags) == {e \in Releases(tags) :
                     \E m \in CurrentMajors(tags) : StartsWith(e, m)}

\* cbs_latest: the first of the releases sorted in reverse, an IndexError
\* where there are none.
Latest(tags) == {e \in Current(tags) :
                    \A f \in Current(tags) : ~Later(Version[f], Version[e])}

-----------------------------------------------------------------------------
(* Properties.                                                             *)

Done(ops) == status = "returned" /\ call.op \in ops

\* A list that was read page by page has every entry that was in it from
\* beginning to end and that nobody moved forward, whatever was inserted,
\* removed or renewed between two pages, although the query only goes out with
\* the first one.
NothingMissed == Done(Readers) => kept \subseteq items

\* And it has nothing that was gone before the call, or before the attempt
\* that returned: nothing of earlier calls, nothing of failed attempts.
NothingStale == Done(Readers) => items \subseteq since

\* The newest release of those that stayed in the list is not newer than
\* cbs_latest, as long as no number has two digits.
LatestIsNewest ==
    Done({"get_cbs_tags"}) /\ (\A e \in Releases(items) : Version[e][1] < 10
                                                       /\ Version[e][2] < 10)
      => \A e \in Releases(kept), l \in Latest(items) :
            LET v == Version[e] w == Version[l]
            IN  100 * v[1] + 10 * v[2] + v[3] <= 100 * w[1] + 10 * w[2] + w[3]

\* A POST or PATCH is never carried out twice by one call, whatever replies
\* are lost: a second loadTrustedCAs, a second group.
AtMostOnce == call.verb \in {"POST", "PATCH"} => applied <= 1

\* Every call ends, whatever fails and however often.
CallEnds == status = "running" ~> status # "running"
=============================================================================
