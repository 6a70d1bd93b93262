---------------------------- MODULE PagedService ----------------------------
(***************************************************************************)
(* A web service with a list that is read in pages (external): the tags of *)
(* an image on Docker Hub, a collection of the Capella API.  Pages are cut *)
(* out of the list as it is when each of them is asked for.                *)
(***************************************************************************)
EXTENDS Integers, FiniteSets

CONSTANTS
    Entries,   \* what may be in the list
    Matching   \* the entries that a query asks for

ASSUME EntriesAssumption == IsFiniteSet(Entries) /\ Matching \subseteq Entries

VARIABLE place \* the place of an entry in the list, 0 when it is not there

Listed == {e \in Entries : place[e] > 0}
Length == Cardinality(Listed)

\* The lists that hold the entries of S, without gaps.
ListsOf(S) == {p \in [Entries -> 0..Cardinality(S)] :
                  /\ \A e \in Entries : p[e] > 0 <=> e \in S
                  /\ \A e, f \in S : p[e] = p[f] => e = f}

\* The place of an entry among those a query asks for.
PlaceIn(e, query) ==
    IF query THEN Cardinality({m \in Matching : 0 < place[m] /\ place[m] <= place[e]})
    ELSE place[e]

Asked(query) == IF query THEN Matching \cap Listed ELSE Listed

\* GET ?page=p with k entries to a page.  Behind the last page is an empty one.
Page(p, k, query) == {e \in Asked(query) : /\ PlaceIn(e, query) > (p - 1) * k
                                           /\ PlaceIn(e, query) <= p * k}

\* The reply names a next page.
HasNext(p, k, query) == \E e \in Asked(query) : PlaceIn(e, query) > p * k

-----------------------------------------------------------------------------
(* What other clients of the service do to the list.                       *)

InsertEffect(e, i) ==
    place' = [f \in Entries |-> IF f = e THEN i
                                ELSE IF place[f] >= i THEN place[f] + 1
                                ELSE place[f]]

RemoveEffect(e) ==
    place' = [f \in Entries |-> IF f = e THEN 0
                                ELSE IF place[f] > place[e] THEN place[f] - 1
                                ELSE place[f]]

\* A tag that is pushed again goes to the front.
RenewEffect(e) ==
    place' = [f \in Entries |-> IF f = e THEN 1
                                ELSE IF 0 < place[f] /\ place[f] < place[e]
                                THEN place[f] + 1 ELSE place[f]]

Changed == \E e \in Entries :
              \/ place[e] = 0 /\ \E i \in 1..(Length + 1) : InsertEffect(e, i)
              \/ place[e] > 0 /\ (RemoveEffect(e) \/ RenewEffect(e))
=============================================================================
