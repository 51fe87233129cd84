---------------------------- MODULE CourierProofs ----------------------------
(***************************************************************************)
(* Proofs about the courier, for any sources, faults and bounds.  Every    *)
(* action but the timer and callClient is a Step; each part of the         *)
(* inductive invariant has a lemma that says under which conditions a Step *)
(* preserves it, and each action a lemma that it meets them.               *)
(***************************************************************************)
EXTENDS Courier, FiniteSetTheorems, SequenceTheorems, TLAPS

\* The requests of a queue that hold the promise d.
Holders(d) == {r \in Queue : req[r].defer = d}

\* Requests hold promises that were made, a promise that is pending is held by one
\* request of the queue, any other by none.
Held ==
    /\ \A r \in DOMAIN req : req[r].defer \in DOMAIN promise
    /\ \A d \in DOMAIN promise :
          IF promise[d] = "pending" THEN \E r \in Queue : Holders(d) = {r}
                                    ELSE Holders(d) = {}

\* All requests that an msearch could be asked for are gone: the batch has responded.
Over(b) == b.phase # "started" /\ Fetched(b) \subseteq Aborted

\* Of the batches B, none is empty, no two share a request, and a request of one stops
\* only because it is aborted.  A batch that responds before its msearch was sent stays
\* under way, with nothing left of it, until its parameters are there.
Flying(B) ==
    /\ B \subseteq Batches
    /\ \A b \in B :
          /\ b.reqs # {} /\ b.reqs \subseteq DOMAIN req
          /\ \A r \in b.reqs : req[r].started
          /\ IF Over(b) THEN b.phase = "params" /\ b.reqs \subseteq Stopped
                        ELSE b.reqs \cap Stopped \subseteq Aborted
    /\ \A b, c \in B : b.reqs \cap c.reqs # {} => b = c

\* A request is started because it was sent to the fetch module.
Sent == \A r \in DOMAIN req : req[r].started => req[r].requested

IInv ==
    /\ TypeOK /\ Sent
    /\ Aborted \subseteq Stopped
    /\ Flying(batches)
    /\ Held
    /\ RequestedIsFetched
    /\ LoadingMeansFetching


-----------------------------------------------------------------------------
(* Numbers.                                                                *)

\* A set of requests is finite.
LEMMA RequestsFinite ==
    ASSUME NEW n \in Int, NEW R \in SUBSET (1 .. n)
    PROVE  IsFiniteSet(R) /\ Cardinality(R) \in Nat
<1>1. IsFiniteSet(1 .. n)
  BY FS_Interval
<1> QED
  BY <1>1, FS_Subset, FS_CardinalityType

\* InOrder lists each request of R once, the i-th after i - 1 others.
LEMMA InOrderLists ==
    ASSUME NEW n \in Int, NEW R \in SUBSET (1 .. n)
    PROVE  /\ IsFiniteSet(R) /\ Cardinality(R) \in Nat
           /\ DOMAIN InOrder(R) = 1 .. Cardinality(R)
           /\ \A i \in 1 .. Cardinality(R) : InOrder(R)[i] \in R
           /\ \A i, j \in 1 .. Cardinality(R) : InOrder(R)[i] = InOrder(R)[j] => i = j
           /\ \A r \in R : \E i \in 1 .. Cardinality(R) : InOrder(R)[i] = r
           /\ \A i \in 1 .. Cardinality(R) : Cardinality({q \in R : q < InOrder(R)[i]}) = i - 1
<1> DEFINE Below(r) == {q \in R : q < r}
           c == Cardinality(R)
           rank == [r \in R |-> Cardinality(Below(r))]
<1>1. IsFiniteSet(R) /\ c \in Nat
  BY RequestsFinite
<1>2. \A r \in R : IsFiniteSet(Below(r)) /\ rank[r] \in 0 .. c - 1
  <2> SUFFICES ASSUME NEW r \in R
               PROVE  IsFiniteSet(Below(r)) /\ Cardinality(Below(r)) \in 0 .. c - 1
    OBVIOUS
  <2>1. Below(r) \in SUBSET R /\ Below(r) # R
    OBVIOUS
  <2>2. IsFiniteSet(Below(r)) /\ Cardinality(Below(r)) \in Nat /\ Cardinality(Below(r)) <= c
        /\ Cardinality(Below(r)) # c
    BY <1>1, <2>1, FS_Subset, FS_CardinalityType
  <2> QED
    BY <1>1, <2>2
<1>3. \A r, q \in R : r < q => rank[r] < rank[q]
  <2> SUFFICES ASSUME NEW r \in R, NEW q \in R, r < q
               PROVE  Cardinality(Below(r)) < Cardinality(Below(q))
    OBVIOUS
  <2>1. Below(r) \in SUBSET Below(q) /\ r \in Below(q) \ Below(r)
    <3>1. R \subseteq Int
      OBVIOUS
    <3>2. \A x \in R : x < r => x < q
      BY <3>1
    <3>3. ~(r < r)
      BY <3>1
    <3> QED
      BY <3>2, <3>3
  <2>2. /\ Cardinality(Below(r)) <= Cardinality(Below(q))
        /\ Cardinality(Below(r)) # Cardinality(Below(q))
    BY <1>2, <2>1, FS_Subset
  <2> QED
    BY <1>2, <2>2
<1>4. rank \in Injection(R, 0 .. c - 1)
  <2>1. \A r, q \in R : rank[r] = rank[q] => r = q
    <3> SUFFICES ASSUME NEW r \in R, NEW q \in R, rank[r] = rank[q], r # q PROVE FALSE
      OBVIOUS
    <3>1. r < q \/ q < r
      OBVIOUS
    <3>2. rank[r] \in Int /\ rank[q] \in Int
      BY <1>2
    <3> HIDE DEF rank
    <3> QED
      BY <1>3, <3>1, <3>2
  <2>2. rank \in [R -> 0 .. c - 1]
    BY <1>2
  <2> HIDE DEF rank
  <2> QED
    BY <2>1, <2>2 DEF Injection, IsInjective
<1>5. rank \in Surjection(R, 0 .. c - 1)
  <2>1. IsFiniteSet(0 .. c - 1) /\ Cardinality(0 .. c - 1) = c
    BY <1>1, FS_Interval
  <2> HIDE DEF rank
  <2> QED
    BY <1>4, <2>1, FS_Injection
<1>6. \A i \in 1 .. c : \E r \in R : rank[r] = i - 1
  <2> HIDE DEF rank
  <2>1. \A i \in 1 .. c : i - 1 \in 0 .. c - 1
    BY <1>1
  <2> QED
    BY <1>5, <2>1 DEF Surjection
<1>7. \A i \in 1 .. c : InOrder(R)[i] \in R /\ rank[InOrder(R)[i]] = i - 1
  <2> SUFFICES ASSUME NEW i \in 1 .. c PROVE InOrder(R)[i] \in R /\ rank[InOrder(R)[i]] = i - 1
    OBVIOUS
  <2>1. PICK r \in R : Cardinality(Below(r)) = i - 1
    BY <1>6
  <2>2. InOrder(R)[i] = CHOOSE x \in R : Cardinality(Below(x)) = i - 1
    BY DEF InOrder
  <2>3. InOrder(R)[i] \in R /\ Cardinality(Below(InOrder(R)[i])) = i - 1
    BY <2>1, <2>2
  <2> QED
    BY <2>3
<1>8. DOMAIN InOrder(R) = 1 .. c
  BY DEF InOrder
<1>9. \A r \in R : \E i \in 1 .. c : InOrder(R)[i] = r
  <2> SUFFICES ASSUME NEW r \in R PROVE \E i \in 1 .. c : InOrder(R)[i] = r
    OBVIOUS
  <2>1. rank[r] + 1 \in 1 .. c /\ rank[r] \in Int
    BY <1>1, <1>2
  <2>2. InOrder(R)[rank[r] + 1] \in R /\ rank[InOrder(R)[rank[r] + 1]] = rank[r]
    <3> HIDE DEF rank
    <3> QED
      BY <1>7, <2>1
  <2> HIDE DEF rank
  <2> QED
    BY <1>4, <2>1, <2>2 DEF Injection, IsInjective
<1>10. \A i, j \in 1 .. c : InOrder(R)[i] = InOrder(R)[j] => i = j
  <2> HIDE DEF rank
  <2>1. \A i, j \in 1 .. c : InOrder(R)[i] = InOrder(R)[j] => i - 1 = j - 1
    BY <1>7
  <2> QED
    BY <1>1, <2>1
<1>11. \A i \in 1 .. c : Cardinality({q \in R : q < InOrder(R)[i]}) = i - 1
  BY <1>7
<1> QED
  BY <1>1, <1>7, <1>8, <1>9, <1>10, <1>11

\* Of some requests there is a first one.
LEMMA FirstOfSome ==
    ASSUME NEW n \in Int, NEW R \in SUBSET (1 .. n), R # {}
    PROVE  First(R) \in R /\ \A q \in R : First(R) <= q
<1> DEFINE r == InOrder(R)[1]
           Below == {q \in R : q < r}
<1>1. IsFiniteSet(R) /\ Cardinality(R) \in Nat /\ Cardinality(R) # 0
  BY RequestsFinite, FS_EmptySet
<1>2. 1 \in 1 .. Cardinality(R)
  BY <1>1
<1>3. r \in R /\ Cardinality(Below) = 1 - 1
  <2> HIDE DEF r
  <2>1. InOrder(R)[1] \in R /\ Cardinality({q \in R : q < InOrder(R)[1]}) = 1 - 1
    BY <1>2, InOrderLists
  <2> QED
    BY <2>1 DEF r
<1> HIDE DEF r
<1>4. Below = {}
  <2>1. IsFiniteSet(Below)
    BY <1>1, FS_Subset
  <2> QED
    BY <1>3, <2>1, FS_EmptySet
<1>5. r \in R /\ \A q \in R : r <= q
  BY <1>3, <1>4
<1> QED
  BY <1>5 DEF First

-----------------------------------------------------------------------------
(* Clones.                                                                 *)

\* New are requests made after the first n; each makes a promise of its own or is given
\* that of a request of K, whose promises are all passed on; no two hold the same.
Passes(K, n, New) ==
    /\ New \in Seq(Request)
    /\ \A i \in 1 .. Len(New) :
          /\ ~New[i].started /\ ~New[i].stopped /\ ~New[i].aborted
          /\ New[i].defer = n + i \/ \E r \in K : New[i].defer = req[r].defer
    /\ \A r \in K : \E i \in 1 .. Len(New) : New[i].defer = req[r].defer
    /\ \A i, j \in 1 .. Len(New) : New[i].defer = New[j].defer => i = j

\* Requests of the queue hold different promises.
Distinct(K) == \A r, q \in K : req[r].defer = req[q].defer => r = q

\* No request of New is marked.
Unmarked(New) == \A i \in 1 .. Len(New) : ~New[i].requested

\* What the type invariant says of a request.
LEMMA RequestTypes ==
    ASSUME TypeOK
    PROVE  /\ Len(req) \in Nat /\ Len(req) <= MaxRequests /\ MaxRequests \in Nat
           /\ DOMAIN req = 1 .. Len(req) /\ DOMAIN req \subseteq Requests
           /\ \A r \in DOMAIN req :
                 /\ req[r] \in Request
                 /\ req[r].source \in Sources /\ req[r].defer \in Requests
                 /\ req[r].requested \in BOOLEAN /\ req[r].started \in BOOLEAN
                 /\ req[r].stopped \in BOOLEAN /\ req[r].aborted \in BOOLEAN
<1>1. Len(req) \in Nat /\ DOMAIN req = 1 .. Len(req) /\ Len(req) <= MaxRequests
  BY LenProperties DEF TypeOK
<1>2. MaxRequests \in Nat
  BY CourierAssumption
<1>3. \A r \in DOMAIN req : req[r] \in Request
  BY <1>1, ElementOfSeq DEF TypeOK
<1> QED
  BY <1>1, <1>2, <1>3 DEF Request, Requests

\* There is one clone of each request.
LEMMA ClonesLength ==
    ASSUME TypeOK, NEW R \in SUBSET DOMAIN req, NEW A, NEW n
    PROVE  /\ Cardinality(R) \in Nat /\ Len(Clones(R, A, n)) = Cardinality(R)
           /\ \E S : Clones(R, A, n) \in Seq(S)
<1> DEFINE New == Clones(R, A, n)
           c == Cardinality(R)
<1>1. c \in Nat
  <2>1. Len(req) \in Int /\ R \in SUBSET (1 .. Len(req))
    BY RequestTypes
  <2> QED
    BY <2>1, RequestsFinite
<1>2. DOMAIN New = 1 .. c /\ New \in [1 .. c -> {New[i] : i \in 1 .. c}]
  BY DEF Clones
<1> HIDE DEF New, c
<1>3. Len(New) = c /\ New \in Seq({New[i] : i \in 1 .. c})
  BY <1>1, <1>2
<1> QED
  BY <1>1, <1>3 DEF New, c

\* retry: the clones of R pass on the promises of those that are not in A.
LEMMA ClonesPass ==
    ASSUME TypeOK, Held, NEW R \in SUBSET DOMAIN req, NEW A, NEW n \in Nat,
           n >= Len(req), n + Cardinality(R) <= MaxRequests, Distinct(R \ A)
    PROVE  /\ Passes(R \ A, n, Clones(R, A, n)) /\ Unmarked(Clones(R, A, n))
           /\ Len(Clones(R, A, n)) = Cardinality(R)
<1> DEFINE New == Clones(R, A, n)
           c == Cardinality(R)
           o == InOrder(R)
<1>1. /\ IsFiniteSet(R) /\ c \in Nat
      /\ \A i \in 1 .. c : o[i] \in R
      /\ \A i, j \in 1 .. c : o[i] = o[j] => i = j
      /\ \A r \in R : \E i \in 1 .. c : o[i] = r
  <2>1. Len(req) \in Int /\ R \in SUBSET (1 .. Len(req))
    BY RequestTypes
  <2> QED
    BY <2>1, InOrderLists
<1>2. New = [i \in 1 .. c |->
               NewRequest(req[o[i]].source, IF o[i] \in A THEN n + i ELSE req[o[i]].defer)]
  BY DEF Clones
<1>3. \A i \in 1 .. c : n + i \in Requests /\ n + i > Len(req)
  BY <1>1, RequestTypes DEF Requests
<1>4. \A i \in 1 .. c :
         /\ New[i] \in Request
         /\ ~New[i].started /\ ~New[i].stopped /\ ~New[i].aborted /\ ~New[i].requested
         /\ New[i].defer = IF o[i] \in A THEN n + i ELSE req[o[i]].defer
  BY <1>1, <1>2, <1>3, RequestTypes DEF NewRequest, Request
<1>5. New \in Seq(Request) /\ Len(New) = c
  <2>1. New \in [1 .. c -> Request]
    BY <1>2, <1>4
  <2> HIDE DEF New
  <2> QED
    BY <1>1, <2>1
<1>6. \A r \in DOMAIN req : req[r].defer \in DOMAIN promise /\ req[r].defer <= Len(req)
  BY RequestTypes DEF Held, TypeOK
<1>7. \A i, j \in 1 .. c : New[i].defer = New[j].defer => i = j
  <2> SUFFICES ASSUME NEW i \in 1 .. c, NEW j \in 1 .. c, New[i].defer = New[j].defer
               PROVE  i = j
    OBVIOUS
  <2> HIDE DEF New, o
  <2>1. CASE o[i] \in A /\ o[j] \in A
    BY <1>1, <1>4, <2>1
  <2>2. CASE o[i] \notin A /\ o[j] \notin A
    BY <1>1, <1>4, <2>2 DEF Distinct
  <2>3. CASE o[i] \in A /\ o[j] \notin A
    <3>1. req[o[j]].defer <= Len(req) /\ n + i > Len(req) /\ n + i = req[o[j]].defer
      BY <1>1, <1>3, <1>4, <1>6, <2>3
    <3>2. req[o[j]].defer \in Nat /\ Len(req) \in Nat
      BY <1>1, RequestTypes DEF Requests
    <3> QED
      BY <3>1, <3>2
  <2>4. CASE o[i] \notin A /\ o[j] \in A
    <3>1. req[o[i]].defer <= Len(req) /\ n + j > Len(req) /\ n + j = req[o[i]].defer
      BY <1>1, <1>3, <1>4, <1>6, <2>4
    <3>2. req[o[i]].defer \in Nat /\ Len(req) \in Nat
      BY <1>1, RequestTypes DEF Requests
    <3> QED
      BY <3>1, <3>2
  <2> QED
    BY <2>1, <2>2, <2>3, <2>4
<1> HIDE DEF New, o
<1>8. \A i \in 1 .. c : New[i].defer = n + i \/ \E r \in R \ A : New[i].defer = req[r].defer
  BY <1>1, <1>4
<1>9. \A r \in R \ A : \E i \in 1 .. c : New[i].defer = req[r].defer
  BY <1>1, <1>4
<1>10. Passes(R \ A, n, New) /\ Unmarked(New)
  <2> HIDE DEF c
  <2> QED
    BY <1>4, <1>5, <1>7, <1>8, <1>9 DEF Passes, Unmarked
<1> QED
  BY <1>5, <1>10 DEF New

\* Two groups of clones, one after the other, pass on the promises of both.
LEMMA ConcatPasses ==
    ASSUME TypeOK, Held, NEW K \in SUBSET DOMAIN req, NEW J \in SUBSET DOMAIN req,
           NEW n \in Nat, n >= Len(req), NEW F, NEW G,
           Passes(K, n, F), Passes(J, n + Len(F), G), Unmarked(F), Unmarked(G),
           K \cap J = {}, Distinct(K \cup J)
    PROVE  Passes(K \cup J, n, F \o G) /\ Unmarked(F \o G)
<1> DEFINE New == F \o G
<1>1. /\ New \in Seq(Request) /\ Len(New) = Len(F) + Len(G)
      /\ Len(F) \in Nat /\ Len(G) \in Nat
      /\ \A i \in 1 .. Len(F) + Len(G) : New[i] = IF i <= Len(F) THEN F[i] ELSE G[i - Len(F)]
  BY ConcatProperties, LenProperties DEF Passes
<1>2. \A i \in 1 .. Len(F) : i \in 1 .. Len(New) /\ New[i] = F[i]
  BY <1>1
<1>3. \A j \in 1 .. Len(G) : Len(F) + j \in 1 .. Len(New) /\ New[Len(F) + j] = G[j]
  BY <1>1
<1>4. \A i \in 1 .. Len(New) : \/ i \in 1 .. Len(F)
                               \/ \E j \in 1 .. Len(G) : i = Len(F) + j
  <2> SUFFICES ASSUME NEW i \in 1 .. Len(New), ~(i <= Len(F))
               PROVE  i - Len(F) \in 1 .. Len(G) /\ i = Len(F) + (i - Len(F))
    BY <1>1
  <2> QED
    BY <1>1
<1> HIDE DEF New
<1>5. \A r \in DOMAIN req : req[r].defer <= Len(req) /\ req[r].defer \in Nat
  BY RequestTypes DEF Held, TypeOK, Requests
<1>6. /\ \A i \in 1 .. Len(F) :
           /\ ~F[i].started /\ ~F[i].stopped /\ ~F[i].aborted /\ ~F[i].requested
           /\ F[i].defer = n + i \/ \E r \in K : F[i].defer = req[r].defer
      /\ \A r \in K : \E i \in 1 .. Len(F) : F[i].defer = req[r].defer
      /\ \A i, j \in 1 .. Len(F) : F[i].defer = F[j].defer => i = j
  BY DEF Passes, Unmarked
<1>7. /\ \A j \in 1 .. Len(G) :
           /\ ~G[j].started /\ ~G[j].stopped /\ ~G[j].aborted /\ ~G[j].requested
           /\ G[j].defer = n + Len(F) + j \/ \E r \in J : G[j].defer = req[r].defer
      /\ \A r \in J : \E j \in 1 .. Len(G) : G[j].defer = req[r].defer
      /\ \A i, j \in 1 .. Len(G) : G[i].defer = G[j].defer => i = j
  BY DEF Passes, Unmarked
<1>8. \A i \in 1 .. Len(F), j \in 1 .. Len(G) : F[i].defer # G[j].defer
  <2> SUFFICES ASSUME NEW i \in 1 .. Len(F), NEW j \in 1 .. Len(G), F[i].defer = G[j].defer
               PROVE  FALSE
    OBVIOUS
  <2>1. F[i].defer = n + i \/ \E r \in K : F[i].defer = req[r].defer
    BY <1>6
  <2>2. G[j].defer = n + Len(F) + j \/ \E r \in J : G[j].defer = req[r].defer
    BY <1>7
  <2>3. Len(req) \in Nat /\ i \in Nat /\ j \in Nat /\ i > 0 /\ j > 0 /\ i <= Len(F)
    BY <1>1, RequestTypes
  <2>4. CASE F[i].defer = n + i
    <3>1. n + i # n + Len(F) + j
      BY <1>1, <2>3
    <3>2. \A r \in DOMAIN req : n + i # req[r].defer
      BY <1>1, <1>5, <2>3
    <3> QED
      BY <2>2, <2>4, <3>1, <3>2
  <2>5. CASE \E r \in K : F[i].defer = req[r].defer
    <3>1. PICK r \in K : F[i].defer = req[r].defer
      BY <2>5
    <3>2. n + Len(F) + j # req[r].defer
      BY <1>1, <1>5, <2>3
    <3>3. CASE \E q \in J : G[j].defer = req[q].defer
      BY <3>1, <3>3 DEF Distinct
    <3> QED
      BY <2>2, <3>1, <3>2, <3>3
  <2> QED
    BY <2>1, <2>4, <2>5
<1>9. \A i \in 1 .. Len(New) :
         /\ ~New[i].started /\ ~New[i].stopped /\ ~New[i].aborted /\ ~New[i].requested
         /\ New[i].defer = n + i \/ \E r \in K \cup J : New[i].defer = req[r].defer
  <2> SUFFICES ASSUME NEW i \in 1 .. Len(New)
               PROVE  /\ ~New[i].started /\ ~New[i].stopped /\ ~New[i].aborted /\ ~New[i].requested
                      /\ New[i].defer = n + i \/ \E r \in K \cup J : New[i].defer = req[r].defer
    OBVIOUS
  <2>1. CASE i \in 1 .. Len(F)
    BY <1>2, <1>6, <2>1
  <2>2. ASSUME NEW j \in 1 .. Len(G), i = Len(F) + j
        PROVE  /\ ~New[i].started /\ ~New[i].stopped /\ ~New[i].aborted /\ ~New[i].requested
               /\ New[i].defer = n + i \/ \E r \in K \cup J : New[i].defer = req[r].defer
    <3>1. New[i] = G[j] /\ n + Len(F) + j = n + i
      BY <1>1, <1>3, <2>2
    <3> QED
      BY <1>7, <3>1
  <2> QED
    BY <1>4, <2>1, <2>2
<1>10. \A r \in K \cup J : \E i \in 1 .. Len(New) : New[i].defer = req[r].defer
  <2>1. \A r \in K : \E i \in 1 .. Len(New) : New[i].defer = req[r].defer
    BY <1>2, <1>6
  <2>2. \A r \in J : \E i \in 1 .. Len(New) : New[i].defer = req[r].defer
    BY <1>3, <1>7
  <2> QED
    BY <2>1, <2>2
<1>11. \A i, j \in 1 .. Len(New) : New[i].defer = New[j].defer => i = j
  <2> SUFFICES ASSUME NEW i \in 1 .. Len(New), NEW j \in 1 .. Len(New),
                      New[i].defer = New[j].defer
               PROVE  i = j
    OBVIOUS
  <2>1. CASE i \in 1 .. Len(F) /\ j \in 1 .. Len(F)
    BY <1>2, <1>6, <2>1
  <2>2. CASE i \in 1 .. Len(F) /\ \E m \in 1 .. Len(G) : j = Len(F) + m
    BY <1>2, <1>3, <1>8, <2>2
  <2>3. CASE (\E m \in 1 .. Len(G) : i = Len(F) + m) /\ j \in 1 .. Len(F)
    <3>1. PICK k \in 1 .. Len(G) : i = Len(F) + k
      BY <2>3
    <3>2. New[i] = G[k] /\ New[j] = F[j] /\ F[j].defer # G[k].defer
      BY <1>2, <1>3, <1>8, <2>3, <3>1
    <3> QED
      BY <3>2
  <2>4. CASE /\ \E m \in 1 .. Len(G) : i = Len(F) + m
             /\ \E m \in 1 .. Len(G) : j = Len(F) + m
    <3>1. PICK k \in 1 .. Len(G) : i = Len(F) + k
      BY <2>4
    <3>2. PICK m \in 1 .. Len(G) : j = Len(F) + m
      BY <2>4
    <3>3. New[i] = G[k] /\ New[j] = G[m]
      BY <1>3, <3>1, <3>2
    <3>4. k = m
      BY <1>7, <3>3
    <3> QED
      BY <3>1, <3>2, <3>4
  <2> QED
    BY <1>4, <2>1, <2>2, <2>3, <2>4
<1> QED
  BY <1>1, <1>9, <1>10, <1>11 DEF Passes, Unmarked, New

-----------------------------------------------------------------------------
(* A step of the courier.                                                  *)

\* The requests that stop.
Stop(R, Done, B) == R \cup Done \cup Orphans(B, R \cup Done)

\* The failed requests whose promise a clone takes over.
Again(R, dropped) == IF dropped THEN {} ELSE {r \in R : req[r].source \notin Rejecting}

\* What the actions have in common: requests are aborted or complete once, those that
\* complete belong to a batch that responds, and the promises of failed ones are passed on.
Legal(R, dropped, Done, B, New) ==
    /\ R \subseteq Queue /\ Done \subseteq Queue /\ R \cap Done = {}
    /\ Flying(B)
    /\ \A b \in B : b.reqs \cap Done # {} => b.phase = "msearch" /\ Given(b, R \cup Done)
    /\ Passes(Again(R, dropped), Len(req), New)

\* The requests after a step: those before it, with new flags, and the new ones.
LEMMA StepRequests ==
    ASSUME TypeOK, NEW R, NEW dropped, NEW Done, NEW Marked, NEW B,
           NEW New \in Seq(Request), Step(R, dropped, Done, Marked, B, New)
    PROVE  /\ req' \in Seq(Request) /\ DOMAIN req' = 1 .. Len(req')
           /\ Len(New) \in Nat /\ Len(req') = Len(req) + Len(New) /\ Len(req') <= MaxRequests
           /\ \A r \in DOMAIN req :
                 /\ r \in DOMAIN req'
                 /\ req'[r].source = req[r].source /\ req'[r].defer = req[r].defer
                 /\ req'[r].started = req[r].started
                 /\ req'[r].stopped <=> req[r].stopped \/ r \in Stop(R, Done, B)
                 /\ req'[r].aborted <=> req[r].aborted \/ r \in R
                 /\ req'[r].requested <=> req[r].requested \/ r \in Marked
           /\ \A i \in 1 .. Len(New) :
                 /\ Len(req) + i \in DOMAIN req' /\ Len(req) + i \notin DOMAIN req
                 /\ req'[Len(req) + i] = New[i]
           /\ \A r \in DOMAIN req' : \/ r \in DOMAIN req
                                     \/ \E i \in 1 .. Len(New) : r = Len(req) + i
<1> DEFINE stop == Stop(R, Done, B)
           old == [r \in DOMAIN req |->
                     [req[r] EXCEPT !.stopped = @ \/ r \in stop, !.aborted = @ \/ r \in R,
                                    !.requested = @ \/ r \in Marked]]
<1>1. req' = old \o New /\ Len(req) + Len(New) <= MaxRequests
  BY DEF Step, Stop
<1>2. Len(req) \in Nat /\ DOMAIN req = 1 .. Len(req) /\ Len(New) \in Nat
  BY RequestTypes, LenProperties
<1>3. \A r \in DOMAIN req :
        /\ old[r] \in Request
        /\ old[r].source = req[r].source /\ old[r].defer = req[r].defer
        /\ old[r].started = req[r].started
        /\ old[r].stopped <=> req[r].stopped \/ r \in stop
        /\ old[r].aborted <=> req[r].aborted \/ r \in R
        /\ old[r].requested <=> req[r].requested \/ r \in Marked
  <2> HIDE DEF stop
  <2> QED
    BY RequestTypes DEF Request
<1>4. old \in Seq(Request) /\ Len(old) = Len(req)
  <2>1. old \in [1 .. Len(req) -> Request]
    <3> HIDE DEF stop
    <3>1. \A r \in 1 .. Len(req) : old[r] \in Request
      BY <1>2, <1>3
    <3> QED
      BY <1>2, <3>1
  <2> HIDE DEF old
  <2> QED
    BY <1>2, <2>1
<1> HIDE DEF old
<1>5. /\ req' \in Seq(Request) /\ Len(req') = Len(req) + Len(New)
      /\ \A i \in 1 .. Len(req) + Len(New) :
            req'[i] = IF i <= Len(req) THEN old[i] ELSE New[i - Len(req)]
  <2>1. /\ old \o New \in Seq(Request) /\ Len(old \o New) = Len(old) + Len(New)
        /\ \A i \in 1 .. Len(old) + Len(New) :
              (old \o New)[i] = IF i <= Len(old) THEN old[i] ELSE New[i - Len(old)]
    BY <1>4, ConcatProperties
  <2> QED
    BY <1>1, <1>4, <2>1
<1>6. DOMAIN req' = 1 .. Len(req')
  BY <1>5, LenProperties
<1>7. \A r \in DOMAIN req : r \in DOMAIN req' /\ req'[r] = old[r]
  BY <1>2, <1>5, <1>6
<1>8. \A i \in 1 .. Len(New) : /\ Len(req) + i \in DOMAIN req' /\ Len(req) + i \notin DOMAIN req
                               /\ req'[Len(req) + i] = New[i]
  BY <1>2, <1>5, <1>6
<1>9. \A r \in DOMAIN req' : \/ r \in DOMAIN req
                             \/ \E i \in 1 .. Len(New) : r = Len(req) + i
  <2> SUFFICES ASSUME NEW r \in DOMAIN req', r \notin DOMAIN req
               PROVE  r - Len(req) \in 1 .. Len(New) /\ r = Len(req) + (r - Len(req))
    OBVIOUS
  <2> QED
    BY <1>2, <1>5, <1>6
<1>10. Len(req') <= MaxRequests
  BY <1>1, <1>5
<1> QED
  BY <1>2, <1>3, <1>5, <1>6, <1>7, <1>8, <1>9, <1>10

\* The requests of the batches were made.
LEMMA StopMade ==
    ASSUME NEW R, NEW Done, NEW B, R \subseteq Queue, Done \subseteq Queue, Flying(B)
    PROVE  /\ Stop(R, Done, B) \subseteq DOMAIN req
           /\ Stop(R, Done, B) \subseteq Queue
<1>1. \A b \in B : Holes(b) \subseteq DOMAIN req
  BY DEF Flying, Holes
<1>2. Orphans(B, R \cup Done) \subseteq DOMAIN req \ Stopped
  BY <1>1 DEF Orphans
<1> QED
  BY <1>2 DEF Stop, Queue

\* What has stopped, what is aborted and the queue after a step.
LEMMA StepSets ==
    ASSUME TypeOK, NEW R, NEW dropped, NEW Done, NEW Marked, NEW B, NEW New,
           Legal(R, dropped, Done, B, New), Step(R, dropped, Done, Marked, B, New)
    PROVE  /\ Stopped' = Stopped \cup Stop(R, Done, B)
           /\ Aborted' = Aborted \cup R
           /\ \A r \in DOMAIN req : r \in Queue' <=> r \in Queue \ Stop(R, Done, B)
           /\ \A i \in 1 .. Len(New) : Len(req) + i \in Queue'
<1> DEFINE stop == Stop(R, Done, B)
<1>1. New \in Seq(Request)
  BY DEF Legal, Passes
<1>2. \A i \in 1 .. Len(New) : ~New[i].stopped /\ ~New[i].aborted
  BY DEF Legal, Passes
<1>3. stop \subseteq DOMAIN req /\ R \subseteq DOMAIN req
  BY StopMade DEF Legal, Queue
<1>4. /\ \A r \in DOMAIN req :
             /\ r \in DOMAIN req'
             /\ req'[r].stopped <=> req[r].stopped \/ r \in stop
             /\ req'[r].aborted <=> req[r].aborted \/ r \in R
      /\ \A i \in 1 .. Len(New) :
             /\ Len(req) + i \in DOMAIN req' /\ Len(req) + i \notin DOMAIN req
             /\ req'[Len(req) + i] = New[i]
      /\ \A r \in DOMAIN req' : r \in DOMAIN req \/ \E i \in 1 .. Len(New) : r = Len(req) + i
  BY <1>1, StepRequests
<1> HIDE DEF stop
<1>5. \A r \in DOMAIN req' : r \notin DOMAIN req => ~req'[r].stopped /\ ~req'[r].aborted
  BY <1>2, <1>4
<1>6. Stopped' = Stopped \cup stop
  <2>1. Stopped' \subseteq Stopped \cup stop
    BY <1>4, <1>5 DEF Stopped
  <2>2. Stopped \cup stop \subseteq Stopped'
    BY <1>3, <1>4 DEF Stopped
  <2> QED
    BY <2>1, <2>2
<1>7. Aborted' = Aborted \cup R
  <2>1. Aborted' \subseteq Aborted \cup R
    BY <1>4, <1>5 DEF Aborted
  <2>2. Aborted \cup R \subseteq Aborted'
    BY <1>3, <1>4 DEF Aborted
  <2> QED
    BY <2>1, <2>2
<1>8. \A r \in DOMAIN req : r \in Queue' <=> r \in Queue \ stop
  BY <1>4, <1>6 DEF Queue
<1>9. \A i \in 1 .. Len(New) : Len(req) + i \in Queue'
  BY <1>2, <1>4 DEF Queue, Stopped
<1> QED
  BY <1>6, <1>7, <1>8, <1>9 DEF stop

\* The source of a request does not change, so neither do the requests a batch asks for.
LEMMA FetchedStays ==
    ASSUME NEW b, b.reqs \subseteq DOMAIN req,
           \A r \in DOMAIN req : req'[r].source = req[r].source
    PROVE  Fetched(b)' = Fetched(b)
BY DEF Fetched

\* The batches under way stay disjoint, and what stops in them is aborted until they
\* respond; a batch that responds takes its duplicates along.
LEMMA StepFlying ==
    ASSUME TypeOK, Aborted \subseteq Stopped, NEW R, NEW dropped, NEW Done, NEW Marked, NEW B,
           NEW New, Legal(R, dropped, Done, B, New), Step(R, dropped, Done, Marked, B, New)
    PROVE  Flying(batches)' /\ (Aborted \subseteq Stopped)'
<1> DEFINE stop == Stop(R, Done, B)
           bogus == Orphans(B, R \cup Done)
<1>1. New \in Seq(Request)
  BY DEF Legal, Passes
<1>2. \A r \in DOMAIN req : /\ r \in DOMAIN req' /\ req'[r].source = req[r].source
                            /\ req'[r].started = req[r].started
  BY <1>1, StepRequests
<1>3. Stopped' = Stopped \cup stop /\ Aborted' = Aborted \cup R
  BY StepSets
<1>4. batches' = {b \in B : ~(b.phase = "msearch" /\ Given(b, R \cup Done))}
  BY DEF Step
<1>5. stop = R \cup Done \cup bogus
  BY DEF Stop
<1>6. Flying(B)
  BY DEF Legal
<1>7. \A b \in B : b.reqs \cap Done # {} => b.phase = "msearch" /\ Given(b, R \cup Done)
  BY DEF Legal
<1>8. R \subseteq DOMAIN req /\ Done \subseteq DOMAIN req
  BY DEF Legal, Queue
<1> HIDE DEF stop
<1>9. ASSUME NEW b \in B, \E r \in b.reqs : r \in bogus
      PROVE  Given(b, R \cup Done)
  <2>1. PICK r \in b.reqs : r \in bogus
    BY <1>9
  <2>2. PICK c \in B : Given(c, R \cup Done) /\ r \in Holes(c)
    BY <2>1 DEF Orphans
  <2>3. b = c
    BY <1>6, <2>1, <2>2 DEF Flying, Holes
  <2> QED
    BY <2>2, <2>3
<1>10. ASSUME NEW b \in batches'
       PROVE  /\ b \in Batches /\ b.reqs # {} /\ b.reqs \subseteq DOMAIN req'
              /\ \A r \in b.reqs : req'[r].started
              /\ IF Over(b)' THEN b.phase = "params" /\ b.reqs \subseteq Stopped'
                             ELSE b.reqs \cap Stopped' \subseteq Aborted'
  <2>1. b \in B /\ ~(b.phase = "msearch" /\ Given(b, R \cup Done))
    BY <1>4, <1>10
  <2>2. /\ b \in Batches /\ b.reqs # {} /\ b.reqs \subseteq DOMAIN req
        /\ \A r \in b.reqs : req[r].started
    BY <1>6, <2>1 DEF Flying
  <2>3. /\ Over(b) => b.phase = "params" /\ b.reqs \subseteq Stopped
        /\ ~Over(b) => b.reqs \cap Stopped \subseteq Aborted
    BY <1>6, <2>1 DEF Flying
  <2>4. b.reqs \cap Done = {}
    BY <1>7, <2>1
  <2>5. Fetched(b)' = Fetched(b) /\ Fetched(b) \subseteq b.reqs
    <3>1. Fetched(b)' = Fetched(b)
      BY <1>2, <2>2, FetchedStays
    <3> QED
      BY <3>1 DEF Fetched
  <2>6. Over(b)' <=> b.phase # "started" /\ Fetched(b) \subseteq Aborted \cup R
    BY <1>3, <2>5 DEF Over
  <2>7. Over(b)' <=> Given(b, R \cup Done)
    BY <2>4, <2>5, <2>6 DEF Given
  <2>8. CASE Over(b)'
    <3>1. b.phase = "params"
      BY <2>1, <2>2, <2>6, <2>7, <2>8 DEF Batches
    <3>2. Fetched(b) \subseteq Stopped'
      BY <1>3, <1>5, <2>6, <2>8
    <3>3. Holes(b) \subseteq Stopped'
      <4>1. Holes(b) \ (Stopped \cup (R \cup Done)) \subseteq bogus
        BY <2>1, <2>7, <2>8 DEF Orphans
      <4> QED
        BY <1>3, <1>5, <4>1
    <3> QED
      BY <1>2, <2>2, <2>8, <3>1, <3>2, <3>3 DEF Holes
  <2>9. CASE ~Over(b)'
    <3>1. ~Over(b)
      BY <2>6, <2>9 DEF Over
    <3>2. b.reqs \cap bogus = {}
      BY <1>9, <2>1, <2>7, <2>9
    <3>3. b.reqs \cap Stopped' \subseteq Aborted'
      BY <1>3, <1>5, <2>3, <2>4, <3>1, <3>2
    <3> QED
      BY <1>2, <2>2, <2>9, <3>3
  <2> QED
    BY <2>8, <2>9
<1>11. \A b, c \in batches' : b.reqs \cap c.reqs # {} => b = c
  BY <1>4, <1>6 DEF Flying
<1>12. (Aborted \subseteq Stopped)'
  BY <1>3, <1>5
<1> QED
  BY <1>10, <1>11, <1>12 DEF Flying

\* A promise stays as it is if the requests of S that stop do not hold it; one held by
\* a single request of the queue stays when that stops and is one of K, and only then.
Settles(S, K) ==
    \A d \in DOMAIN promise :
        /\ (\A r \in S : req[r].defer # d) => promise'[d] = promise[d]
        /\ \A r \in S : (\A q \in Queue : req[q].defer = d <=> q = r) =>
              /\ r \in K => promise'[d] = promise[d]
              /\ r \notin K => promise'[d] # "pending"

\* The promises after a step.
LEMMA StepPromises ==
    ASSUME TypeOK, Held, NEW R, NEW dropped \in BOOLEAN, NEW Done, NEW Marked, NEW B, NEW New,
           Legal(R, dropped, Done, B, New), Step(R, dropped, Done, Marked, B, New)
    PROVE  /\ DOMAIN promise' = {r \in DOMAIN req' : req'[r].defer = r}
           /\ DOMAIN promise = {r \in DOMAIN req : req[r].defer = r}
           /\ DOMAIN promise \subseteq DOMAIN promise'
           /\ \A d \in DOMAIN promise' : promise'[d] \in Promised
           /\ Settles(Stop(R, Done, B), Again(R, dropped))
           /\ \A d \in DOMAIN promise' : d \notin DOMAIN promise => promise'[d] = "pending"
<1> DEFINE stop == Stop(R, Done, B)
           bogus == Orphans(B, R \cup Done)
           Holder(Q, d) == \E r \in Q : req[r].defer = d
           Lost == {r \in R : req[r].source \in Rejecting}
           State(d) ==
             IF Holder(Done, d) THEN "resolved"
             ELSE IF Holder(bogus, d) THEN "bogus"
             ELSE IF dropped /\ Holder(R, d) THEN "dropped"
             ELSE IF Holder(Lost, d) THEN "rejected"
             ELSE promise[d]
<1>1. promise' = [d \in {r \in DOMAIN req' : req'[r].defer = r} |->
                    IF d \in DOMAIN promise THEN State(d) ELSE "pending"]
  BY DEF Step
<1>2. DOMAIN promise' = {r \in DOMAIN req' : req'[r].defer = r}
  BY <1>1
<1>3. DOMAIN promise = {r \in DOMAIN req : req[r].defer = r}
  BY DEF TypeOK
<1>4. New \in Seq(Request)
  BY DEF Legal, Passes
<1>5. \A r \in DOMAIN req : r \in DOMAIN req' /\ req'[r].defer = req[r].defer
  BY <1>4, StepRequests
<1>6. DOMAIN promise \subseteq DOMAIN promise'
  BY <1>2, <1>3, <1>5
<1>7. \A d \in DOMAIN promise' : d \notin DOMAIN promise => promise'[d] = "pending"
  BY <1>1
<1>8. \A d \in DOMAIN promise : promise'[d] = State(d)
  BY <1>1, <1>2, <1>6
<1>9. stop = R \cup Done \cup bogus
  BY DEF Stop
<1>10. R \subseteq Queue /\ stop \subseteq Queue /\ Done \cap R = {} /\ bogus \cap R = {}
  <2>1. bogus \cap R = {}
    BY DEF Orphans
  <2> QED
    BY <2>1, StopMade DEF Legal
<1>11. \A d \in DOMAIN promise' : promise'[d] \in Promised
  <2>1. \A d \in DOMAIN promise : promise[d] \in Promised
    BY DEF TypeOK
  <2>2. \A d \in DOMAIN promise : State(d) \in Promised
    BY <2>1 DEF Promised
  <2> HIDE DEF State
  <2> QED
    BY <1>7, <1>8, <2>2 DEF Promised
<1>12. ASSUME NEW d \in DOMAIN promise, \A r \in stop : req[r].defer # d
       PROVE  promise'[d] = promise[d]
  <2>1. ~Holder(Done, d) /\ ~Holder(bogus, d) /\ ~Holder(R, d) /\ ~Holder(Lost, d)
    BY <1>9, <1>12
  <2> QED
    BY <1>8, <2>1
<1>13. ASSUME NEW d \in DOMAIN promise, NEW r \in stop,
              \A q \in Queue : req[q].defer = d <=> q = r
       PROVE  /\ r \in Again(R, dropped) => promise'[d] = promise[d]
              /\ r \notin Again(R, dropped) => promise'[d] # "pending"
  <2>1. \A Q \in SUBSET Queue : Holder(Q, d) <=> r \in Q
    <3>1. \A q \in Queue : req[q].defer = d <=> q = r
      BY <1>13
    <3>2. r \in Queue
      BY <1>10
    <3> QED
      BY <3>1, <3>2
  <2>2. /\ Holder(Done, d) <=> r \in Done
        /\ Holder(bogus, d) <=> r \in bogus
        /\ Holder(R, d) <=> r \in R
        /\ Holder(Lost, d) <=> r \in Lost
    <3>1. Done \subseteq Queue /\ bogus \subseteq Queue /\ R \subseteq Queue /\ Lost \subseteq Queue
      BY <1>9, <1>10
    <3> HIDE DEF Holder, Lost, bogus
    <3> QED
      BY <2>1, <3>1
  <2>3. State(d) = IF r \in Done THEN "resolved" ELSE IF r \in bogus THEN "bogus"
                   ELSE IF dropped /\ r \in R THEN "dropped"
                   ELSE IF r \in Lost THEN "rejected" ELSE promise[d]
    <3> HIDE DEF Holder, Lost, bogus
    <3> QED
      BY <2>2
  <2>4. promise'[d] = State(d)
    BY <1>8
  <2> HIDE DEF State, stop, Holder
  <2>5. CASE r \in Again(R, dropped)
    BY <1>10, <2>3, <2>4, <2>5 DEF Again
  <2>6. CASE r \notin Again(R, dropped)
    BY <1>9, <2>3, <2>4, <2>6 DEF Again
  <2> QED
    BY <2>5, <2>6
<1>14. Settles(stop, Again(R, dropped))
  BY <1>12, <1>13 DEF Settles
<1> QED
  BY <1>2, <1>3, <1>6, <1>7, <1>11, <1>14

\* No consumer is forgotten or answered twice: the promise of a request that stops is
\* settled, dropped or passed on to one clone.
LEMMA StepHeld ==
    ASSUME TypeOK, Held, NEW R, NEW dropped \in BOOLEAN, NEW Done, NEW Marked, NEW B, NEW New,
           Legal(R, dropped, Done, B, New), Step(R, dropped, Done, Marked, B, New)
    PROVE  Held'
<1> DEFINE stop == Stop(R, Done, B)
           n == Len(req)
           K == Again(R, dropped)
<1>1. New \in Seq(Request)
  BY DEF Legal, Passes
<1>2. /\ \A i \in 1 .. Len(New) : New[i].defer = n + i \/ \E r \in K : New[i].defer = req[r].defer
      /\ \A r \in K : \E i \in 1 .. Len(New) : New[i].defer = req[r].defer
      /\ \A i, j \in 1 .. Len(New) : New[i].defer = New[j].defer => i = j
  BY DEF Legal, Passes
<1>3. K \subseteq R /\ R \subseteq stop /\ stop \subseteq Queue /\ Queue \subseteq DOMAIN req
  BY StopMade DEF Again, Legal, Stop, Queue
<1>4. /\ \A r \in DOMAIN req : r \in DOMAIN req' /\ req'[r].defer = req[r].defer
      /\ \A i \in 1 .. Len(New) :
            n + i \in DOMAIN req' /\ n + i \notin DOMAIN req /\ req'[n + i] = New[i]
      /\ \A r \in DOMAIN req' : r \in DOMAIN req \/ \E i \in 1 .. Len(New) : r = n + i
  BY <1>1, StepRequests
<1>5. /\ \A r \in DOMAIN req : r \in Queue' <=> r \in Queue \ stop
      /\ \A i \in 1 .. Len(New) : n + i \in Queue'
  BY StepSets
<1>6. /\ DOMAIN promise' = {r \in DOMAIN req' : req'[r].defer = r}
      /\ DOMAIN promise = {r \in DOMAIN req : req[r].defer = r}
      /\ DOMAIN promise \subseteq DOMAIN promise'
      /\ Settles(stop, K)
      /\ \A d \in DOMAIN promise' : d \notin DOMAIN promise => promise'[d] = "pending"
  BY StepPromises
<1> HIDE DEF stop, K
<1>7. \A r \in DOMAIN req' : req'[r].defer \in DOMAIN promise'
  <2>1. \A r \in DOMAIN req : req[r].defer \in DOMAIN promise
    BY DEF Held
  <2>2. \A r \in DOMAIN req : req'[r].defer \in DOMAIN promise'
    BY <1>4, <1>6, <2>1
  <2>3. \A i \in 1 .. Len(New) : req'[n + i].defer \in DOMAIN promise'
    <3> SUFFICES ASSUME NEW i \in 1 .. Len(New) PROVE New[i].defer \in DOMAIN promise'
      BY <1>4
    <3>1. CASE New[i].defer = n + i
      BY <1>4, <1>6, <3>1
    <3>2. CASE \E r \in K : New[i].defer = req[r].defer
      BY <1>3, <1>6, <2>1, <3>2
    <3> QED
      BY <1>2, <3>1, <3>2
  <2> QED
    BY <1>4, <2>2, <2>3
<1>8. \A d : \A r : r \in Holders(d)' <=> \/ r \in Queue \ stop /\ req[r].defer = d
                                          \/ \E i \in 1 .. Len(New) : r = n + i /\ New[i].defer = d
  <2> SUFFICES ASSUME NEW d, NEW r
               PROVE  r \in Holders(d)' <=> \/ r \in Queue \ stop /\ req[r].defer = d
                                            \/ \E i \in 1 .. Len(New) : r = n + i /\ New[i].defer = d
    OBVIOUS
  <2>1. r \in Holders(d)' <=> r \in Queue' /\ req'[r].defer = d
    BY DEF Holders
  <2>2. r \in Queue' => r \in DOMAIN req'
    BY DEF Queue
  <2>3. CASE r \in DOMAIN req
    BY <1>3, <1>4, <1>5, <2>1, <2>2, <2>3
  <2>4. CASE r \notin DOMAIN req
    BY <1>3, <1>4, <1>5, <2>1, <2>2, <2>4
  <2> QED
    BY <2>3, <2>4
<1>9. ASSUME NEW d \in DOMAIN promise, NEW i \in 1 .. Len(New), New[i].defer = d
      PROVE  \E r \in K : req[r].defer = d
  BY <1>2, <1>4, <1>6, <1>9
<1>10. ASSUME NEW d \in DOMAIN promise'
       PROVE  IF promise'[d] = "pending" THEN \E r \in Queue' : Holders(d)' = {r}
                                         ELSE Holders(d)' = {}
  <2>1. CASE d \in DOMAIN promise /\ promise[d] # "pending"
    <3>1. \A r \in Queue : req[r].defer # d
      BY <2>1 DEF Held, Holders
    <3>2. promise'[d] = promise[d]
      BY <1>3, <1>6, <2>1, <3>1 DEF Settles
    <3>3. \A r : r \notin Holders(d)'
      BY <1>3, <1>8, <1>9, <2>1, <3>1
    <3> QED
      BY <2>1, <3>2, <3>3
  <2>2. CASE d \in DOMAIN promise /\ promise[d] = "pending"
    <3>1. PICK r \in Queue : Holders(d) = {r}
      BY <2>2 DEF Held
    <3>2. \A q \in Queue : req[q].defer = d <=> q = r
      BY <3>1 DEF Holders
    <3>3. CASE r \notin stop
      <4>1. promise'[d] = "pending"
        BY <1>3, <1>6, <2>2, <3>2, <3>3 DEF Settles
      <4>2. \A q : q \in Holders(d)' <=> q = r
        BY <1>3, <1>8, <1>9, <2>2, <3>2, <3>3
      <4>3. r \in Queue'
        BY <1>3, <1>5, <3>3
      <4> QED
        BY <4>1, <4>2, <4>3
    <3>4. CASE r \in K
      <4>1. promise'[d] = "pending"
        BY <1>3, <1>6, <2>2, <3>2, <3>4 DEF Settles
      <4>2. PICK i \in 1 .. Len(New) : New[i].defer = d
        BY <1>2, <3>2, <3>4
      <4>3. r \in stop
        BY <1>3, <3>4
      <4>4. \A j \in 1 .. Len(New) : New[j].defer = d <=> j = i
        BY <1>2, <4>2
      <4>5. \A q \in Queue \ stop : req[q].defer # d
        BY <3>2, <4>3
      <4>6. \A q : q \in Holders(d)' <=> q = n + i
        BY <1>8, <4>4, <4>5
      <4> QED
        BY <1>5, <4>1, <4>6
    <3>5. CASE r \in stop \ K
      <4>1. promise'[d] # "pending"
        BY <1>6, <2>2, <3>2, <3>5 DEF Settles
      <4>2. \A q \in K : req[q].defer # d
        BY <1>3, <3>2, <3>5
      <4>3. \A q : q \notin Holders(d)'
        BY <1>8, <1>9, <2>2, <3>2, <3>5, <4>2
      <4> QED
        BY <4>1, <4>3
    <3> QED
      BY <3>3, <3>4, <3>5
  <2>3. CASE d \notin DOMAIN promise
    <3>1. promise'[d] = "pending" /\ d \in DOMAIN req' /\ req'[d].defer = d
      BY <1>6, <1>10, <2>3
    <3>2. d \notin DOMAIN req
      BY <1>4, <1>6, <2>3, <3>1
    <3>3. PICK i \in 1 .. Len(New) : d = n + i /\ New[i].defer = d
      <4>1. PICK i \in 1 .. Len(New) : d = n + i
        BY <1>4, <3>1, <3>2
      <4>2. req'[n + i] = New[i]
        BY <1>4
      <4> QED
        BY <3>1, <4>1, <4>2
    <3>4. \A q \in DOMAIN req : req[q].defer # d
      BY <2>3 DEF Held
    <3>5. \A q : q \in Holders(d)' <=> q = d
      BY <1>2, <1>3, <1>8, <3>3, <3>4
    <3> QED
      BY <1>5, <3>1, <3>3, <3>5
  <2> QED
    BY <2>1, <2>2, <2>3
<1> QED
  BY <1>7, <1>10 DEF Held

\* Sets of requests are finite.
LEMMA MadeFinite ==
    ASSUME TypeOK, NEW S, S \subseteq DOMAIN req
    PROVE  IsFiniteSet(S) /\ Cardinality(S) \in Nat
<1>1. Len(req) \in Int /\ S \in SUBSET (1 .. Len(req))
  BY RequestTypes
<1> QED
  BY <1>1, RequestsFinite

\* The count of a source stays below the number of its requests that are started: it
\* loses what stops, started or not.
LEMMA StepCounts ==
    ASSUME TypeOK, LoadingMeansFetching, NEW R, NEW dropped, NEW Done, NEW Marked, NEW B,
           NEW New, Legal(R, dropped, Done, B, New), Step(R, dropped, Done, Marked, B, New)
    PROVE  /\ LoadingMeansFetching'
           /\ activeFetchCount' \in [Sources -> Int \cup {NaN}]
<1> DEFINE stop == Stop(R, Done, B)
           gone(s) == Of(s) \cap (stop \ Stopped)
<1>1. New \in Seq(Request)
  BY DEF Legal, Passes
<1>2. \A i \in 1 .. Len(New) : ~New[i].started
  BY DEF Legal, Passes
<1>3. /\ \A r \in DOMAIN req : /\ r \in DOMAIN req' /\ req'[r].source = req[r].source
                               /\ req'[r].started = req[r].started
      /\ \A i \in 1 .. Len(New) : Len(req) + i \notin DOMAIN req /\ req'[Len(req) + i] = New[i]
      /\ \A r \in DOMAIN req' : r \in DOMAIN req \/ \E i \in 1 .. Len(New) : r = Len(req) + i
  BY <1>1, StepRequests
<1>4. \A r \in DOMAIN req : r \in Queue' <=> r \in Queue \ stop
  BY StepSets
<1>5. stop \subseteq Queue
  BY StopMade DEF Legal
<1>6. activeFetchCount' = [s \in Sources |-> IF activeFetchCount[s] = NaN THEN NaN
                                             ELSE activeFetchCount[s] - Cardinality(gone(s))]
  BY DEF Step, CountWithout, Stop
<1> HIDE DEF stop
<1>7. ASSUME NEW s \in Sources
      PROVE  /\ activeFetchCount'[s] \in Int \cup {NaN}
             /\ \/ activeFetchCount'[s] = NaN
                \/ activeFetchCount'[s] <= Cardinality(Active(s)')
  <2>1. activeFetchCount[s] \in Int \cup {NaN}
    BY DEF TypeOK
  <2>2. /\ Active(s) \subseteq DOMAIN req /\ gone(s) \subseteq DOMAIN req
        /\ Active(s) \ gone(s) \subseteq DOMAIN req /\ Active(s) \cap gone(s) \subseteq DOMAIN req
    BY DEF Active, Of
  <2>3. /\ IsFiniteSet(Active(s)) /\ Cardinality(Active(s)) \in Nat
        /\ IsFiniteSet(gone(s)) /\ Cardinality(gone(s)) \in Nat
        /\ Cardinality(Active(s) \cap gone(s)) \in Nat
    BY <2>2, MadeFinite
  <2>4. Active(s)' = Active(s) \ gone(s)
    <3> DEFINE On(r) == r \in DOMAIN req /\ req[r].source = s /\ r \in Queue /\ req[r].started
    <3>1. \A r : r \in Active(s) <=> On(r)
      BY DEF Active, Of
    <3>2. \A r : r \in Active(s)' <=> /\ r \in DOMAIN req' /\ req'[r].source = s
                                      /\ r \in Queue' /\ req'[r].started
      BY DEF Active, Of
    <3>3. \A r \in DOMAIN req' : r \notin DOMAIN req => ~req'[r].started
      BY <1>2, <1>3
    <3>4. \A r : r \in Active(s)' <=> On(r) /\ r \notin stop
      BY <1>3, <1>4, <3>2, <3>3
    <3>5. \A r : On(r) => (r \in gone(s) <=> r \in stop)
      BY DEF Of, Queue
    <3> HIDE DEF On
    <3> QED
      BY <3>1, <3>4, <3>5
  <2>5. Cardinality(Active(s)') = Cardinality(Active(s)) - Cardinality(Active(s) \cap gone(s))
    BY <2>3, <2>4, FS_Difference
  <2>6. Cardinality(Active(s) \cap gone(s)) <= Cardinality(gone(s))
    BY <2>3, FS_Intersection
  <2>7. \/ activeFetchCount[s] = NaN
        \/ activeFetchCount[s] <= Cardinality(Active(s))
    BY DEF LoadingMeansFetching
  <2>8. activeFetchCount'[s] = IF activeFetchCount[s] = NaN THEN NaN
                               ELSE activeFetchCount[s] - Cardinality(gone(s))
    BY <1>6
  <2>9. CASE activeFetchCount[s] = NaN
    BY <2>8, <2>9
  <2>10. CASE activeFetchCount[s] # NaN
    <3> DEFINE c == activeFetchCount[s]
               g == Cardinality(gone(s))
               a == Cardinality(Active(s))
               d == Cardinality(Active(s) \cap gone(s))
    <3>1. c \in Int /\ g \in Int /\ a \in Int /\ d \in Int /\ c <= a /\ d <= g
      BY <2>1, <2>3, <2>6, <2>7, <2>10
    <3>2. activeFetchCount'[s] = c - g /\ Cardinality(Active(s)') = a - d
      BY <2>5, <2>8, <2>10
    <3> HIDE DEF c, g, a, d
    <3>3. c - g <= a - d /\ c - g \in Int
      BY <3>1
    <3> QED
      BY <3>2, <3>3
  <2> QED
    BY <2>9, <2>10
<1> QED
  BY <1>6, <1>7 DEF LoadingMeansFetching

\* What a step preserves whichever action it belongs to.
LEMMA StepTypes ==
    ASSUME IInv, NEW R, NEW dropped \in BOOLEAN, NEW Done, NEW Marked, NEW B, NEW New,
           Legal(R, dropped, Done, B, New), Step(R, dropped, Done, Marked, B, New),
           singleCall' \subseteq Sources,
           debounced' \in BOOLEAN, fatal' \in BOOLEAN, closed' \in BOOLEAN
    PROVE  /\ TypeOK' /\ Sent' /\ (Aborted \subseteq Stopped)' /\ Flying(batches)' /\ Held'
           /\ LoadingMeansFetching'
<1> USE DEF IInv
<1>1. New \in Seq(Request)
  BY DEF Legal, Passes
<1>2. req' \in Seq(Request) /\ Len(req') <= MaxRequests
  BY <1>1, StepRequests
<1>3. /\ DOMAIN promise' = {r \in DOMAIN req' : req'[r].defer = r}
      /\ \A d \in DOMAIN promise' : promise'[d] \in Promised
  BY StepPromises
<1>4. LoadingMeansFetching' /\ activeFetchCount' \in [Sources -> Int \cup {NaN}]
  BY StepCounts
<1>5. Flying(batches)' /\ (Aborted \subseteq Stopped)'
  BY StepFlying
<1>6. Held'
  BY StepHeld
<1>7. batches' \in SUBSET Batches
  BY <1>5 DEF Flying
<1>8. Sent'
  <2>1. \A r \in DOMAIN req : /\ req'[r].started = req[r].started
                              /\ req'[r].requested <=> req[r].requested \/ r \in Marked
    BY <1>1, StepRequests
  <2>2. \A i \in 1 .. Len(New) : ~req'[Len(req) + i].started
    <3>1. \A i \in 1 .. Len(New) : ~New[i].started
      BY DEF Legal, Passes
    <3>2. \A i \in 1 .. Len(New) : req'[Len(req) + i] = New[i]
      BY <1>1, StepRequests
    <3> QED
      BY <3>1, <3>2
  <2>3. \A r \in DOMAIN req' : r \in DOMAIN req \/ \E i \in 1 .. Len(New) : r = Len(req) + i
    BY <1>1, StepRequests
  <2> QED
    BY <2>1, <2>2, <2>3 DEF Sent
<1> QED
  BY <1>2, <1>3, <1>4, <1>5, <1>6, <1>7, <1>8 DEF TypeOK

\* What was sent to the fetch module stays on its way: the batches that end, or are not
\* in B, leave no request behind unless the error was fatal.
LEMMA StepRequested ==
    ASSUME IInv, NEW R, NEW dropped \in BOOLEAN, NEW Done, NEW Marked, NEW B, NEW New,
           Legal(R, dropped, Done, B, New), Step(R, dropped, Done, Marked, B, New),
           fatal => fatal', debounced => debounced',
           debounced' \/ (Marked = {} /\ Unmarked(New)),
           fatal' \/ \A b \in batches : \A r \in b.reqs \cap Queue :
                        r \in Stop(R, Done, B) \/ \E c \in B : r \in c.reqs
    PROVE  RequestedIsFetched'
<1> DEFINE stop == Stop(R, Done, B)
<1>1. New \in Seq(Request)
  BY DEF Legal, Passes
<1>2. \A i \in 1 .. Len(New) : ~New[i].started
  BY DEF Legal, Passes
<1>3. /\ \A r \in DOMAIN req : /\ req'[r].started = req[r].started
                               /\ req'[r].requested <=> req[r].requested \/ r \in Marked
      /\ \A i \in 1 .. Len(New) : req'[Len(req) + i] = New[i]
      /\ \A r \in DOMAIN req' : r \in DOMAIN req \/ \E i \in 1 .. Len(New) : r = Len(req) + i
  BY <1>1, StepRequests DEF IInv
<1>4. /\ \A r \in DOMAIN req : r \in Queue' <=> r \in Queue \ stop
      /\ Stopped' = Stopped \cup stop
  BY StepSets DEF IInv
<1> SUFFICES ASSUME ~fatal', NEW r \in Queue', req'[r].requested
             PROVE  IF req'[r].started THEN \E b \in batches' : r \in b.reqs ELSE debounced'
  BY DEF RequestedIsFetched
<1>5. ~fatal /\ r \in DOMAIN req' /\ r \notin Stopped'
  BY DEF Queue
<1>6. ASSUME NEW i \in 1 .. Len(New), r = Len(req) + i
      PROVE  ~req'[r].started /\ debounced'
  <2>1. req'[r] = New[i]
    BY <1>3, <1>6
  <2> QED
    BY <1>2, <2>1 DEF Unmarked
<1>7. CASE r \in DOMAIN req /\ ~req[r].started
  <2>1. req[r].requested \/ r \in Marked
    BY <1>3, <1>7
  <2>2. req[r].requested => debounced
    BY <1>4, <1>5, <1>7 DEF IInv, RequestedIsFetched
  <2> QED
    BY <1>3, <1>7, <2>1, <2>2
<1>8. CASE r \in DOMAIN req /\ req[r].started
  <2>1. r \in Queue \ stop
    BY <1>4, <1>8
  <2>2. PICK b \in batches : r \in b.reqs
    BY <1>5, <1>8, <2>1 DEF IInv, Sent, RequestedIsFetched
  <2>3. PICK c \in B : r \in c.reqs
    BY <2>1, <2>2
  <2>4. ~(c.phase = "msearch" /\ Given(c, R \cup Done))
    <3> SUFFICES ASSUME Given(c, R \cup Done) PROVE r \in Stopped'
      BY <1>5
    <3>1. Aborted \subseteq Stopped
      BY DEF IInv
    <3>2. stop = R \cup Done \cup Orphans(B, R \cup Done)
      BY DEF Stop
    <3>3. Fetched(c) \subseteq Stopped'
      BY <1>4, <3>1, <3>2 DEF Given
    <3>4. Holes(c) \ (Stopped \cup (R \cup Done)) \subseteq Orphans(B, R \cup Done)
      BY DEF Orphans
    <3>5. Holes(c) \subseteq Stopped'
      BY <1>4, <3>2, <3>4
    <3> QED
      BY <2>3, <3>3, <3>5 DEF Holes
  <2>5. c \in batches'
    BY <2>4 DEF Step
  <2> QED
    BY <1>3, <1>8, <2>3, <2>5
<1> QED
  BY <1>3, <1>5, <1>6, <1>7, <1>8

\* The step of an action whose other variables are in order keeps the invariant.
LEMMA StepInvariant ==
    ASSUME IInv, NEW R, NEW dropped \in BOOLEAN, NEW Done, NEW Marked, NEW B, NEW New,
           Legal(R, dropped, Done, B, New), Step(R, dropped, Done, Marked, B, New),
           singleCall' \subseteq Sources,
           debounced' \in BOOLEAN, fatal' \in BOOLEAN, closed' \in BOOLEAN,
           fatal => fatal', debounced => debounced',
           debounced' \/ (Marked = {} /\ Unmarked(New)),
           fatal' \/ \A b \in batches : \A r \in b.reqs \cap Queue :
                        r \in Stop(R, Done, B) \/ \E c \in B : r \in c.reqs
    PROVE  IInv'
<1>1. RequestedIsFetched'
  BY StepRequested
<1> QED
  BY <1>1, StepTypes DEF IInv

-----------------------------------------------------------------------------
(* The actions.                                                            *)

\* What does not touch the requests.
LEMMA OthersInvariant ==
    ASSUME IInv, UNCHANGED <<req, promise, activeFetchCount, debounced, batches>>,
           singleCall' \subseteq Sources, fatal' \in BOOLEAN, closed' \in BOOLEAN,
           fatal => fatal'
    PROVE  IInv'
<1>1. Stopped' = Stopped /\ Aborted' = Aborted /\ Queue' = Queue
  BY DEF Stopped, Aborted, Queue
<1>2. TypeOK'
  BY DEF IInv, TypeOK
<1>3. Sent' /\ (Aborted \subseteq Stopped)'
  BY <1>1 DEF IInv, Sent
<1>4. Flying(batches)'
  <2>1. \A b : Over(b)' <=> Over(b)
    BY <1>1 DEF Over, Fetched
  <2> QED
    BY <1>1, <2>1 DEF IInv, Flying
<1>5. Held'
  BY <1>1 DEF IInv, Held, Holders
<1>6. RequestedIsFetched'
  BY <1>1 DEF IInv, RequestedIsFetched
<1>7. LoadingMeansFetching'
  <2>1. \A s : Active(s)' = Active(s)
    BY <1>1 DEF Active, Of
  <2> QED
    BY <2>1 DEF IInv, LoadingMeansFetching
<1> QED
  BY <1>2, <1>3, <1>4, <1>5, <1>6, <1>7 DEF IInv

\* No request made, or one for a consumer.
LEMMA NoneMade == \A n : Passes({}, n, <<>>) /\ Unmarked(<<>>)
BY DEF Passes, Unmarked

LEMMA OneMade ==
    ASSUME TypeOK, NEW s \in Sources, Len(req) + 1 <= MaxRequests
    PROVE  /\ Passes({}, Len(req), <<NewRequest(s, Len(req) + 1)>>)
           /\ Unmarked(<<NewRequest(s, Len(req) + 1)>>)
           /\ Passes({}, Len(req),
                     <<[NewRequest(s, Len(req) + 1) EXCEPT !.requested = TRUE]>>)
<1> DEFINE fresh == NewRequest(s, Len(req) + 1)
           marked == [fresh EXCEPT !.requested = TRUE]
<1>1. Len(req) + 1 \in Requests
  BY RequestTypes DEF Requests
<1>2. /\ fresh \in Request /\ ~fresh.requested
      /\ ~fresh.started /\ ~fresh.stopped /\ ~fresh.aborted /\ fresh.defer = Len(req) + 1
      /\ marked \in Request
      /\ ~marked.started /\ ~marked.stopped /\ ~marked.aborted /\ marked.defer = Len(req) + 1
  BY <1>1 DEF NewRequest, Request
<1>3. ASSUME NEW q \in Request, ~q.started, ~q.stopped, ~q.aborted, q.defer = Len(req) + 1
      PROVE  Passes({}, Len(req), <<q>>)
  BY <1>3 DEF Passes
<1> HIDE DEF fresh, marked
<1>4. Passes({}, Len(req), <<fresh>>) /\ Unmarked(<<fresh>>) /\ Passes({}, Len(req), <<marked>>)
  BY <1>2, <1>3 DEF Unmarked
<1> QED
  BY <1>4 DEF fresh, marked

\* An action of a consumer, or of the application: requests of the queue are dropped,
\* others marked, and at most one is made.
LEMMA QuietInvariant ==
    ASSUME IInv, NEW R \in SUBSET Queue, NEW dropped \in BOOLEAN, dropped \/ R = {},
           NEW Marked, NEW New, Passes({}, Len(req), New),
           Step(R, dropped, {}, Marked, batches, New),
           singleCall' \subseteq Sources,
           debounced' \in BOOLEAN, fatal' \in BOOLEAN, closed' \in BOOLEAN,
           fatal => fatal', debounced => debounced',
           debounced' \/ (Marked = {} /\ Unmarked(New))
    PROVE  IInv'
<1>1. Legal(R, dropped, {}, batches, New)
  <2>1. Again(R, dropped) = {}
    BY DEF Again
  <2> QED
    BY <2>1 DEF Legal, IInv
<1> QED
  BY <1>1, StepInvariant

LEMMA OnResultsInvariant ==
    ASSUME IInv, NEW s \in Sources, OnResults(s) PROVE IInv'
<1> DEFINE New == <<NewRequest(s, Len(req) + 1)>>
<1>1. Step({}, FALSE, {}, {}, batches, New)
  BY DEF OnResults
<1>2. Len(req) + 1 <= MaxRequests
  <2>1. Len(req) + Len(New) <= MaxRequests
    BY <1>1 DEF Step
  <2> QED
    BY <2>1
<1>3. Passes({}, Len(req), New) /\ Unmarked(New)
  BY <1>2, OneMade DEF IInv
<1>4. /\ singleCall' \subseteq Sources
      /\ debounced' \in BOOLEAN /\ fatal' \in BOOLEAN /\ closed' \in BOOLEAN
      /\ fatal' = fatal /\ debounced' = debounced
  BY DEF OnResults, IInv, TypeOK
<1> HIDE DEF New
<1> QED
  BY <1>1, <1>3, <1>4, QuietInvariant

LEMMA FetchInvariant ==
    ASSUME IInv, NEW s \in Sources, Fetch(s) PROVE IInv'
<1> DEFINE New == <<[NewRequest(s, Len(req) + 1) EXCEPT !.requested = TRUE]>>
           own == Startable(Of(s))
<1>1. /\ singleCall' \subseteq Sources
      /\ debounced' = TRUE /\ fatal' \in BOOLEAN /\ closed' \in BOOLEAN /\ fatal' = fatal
  BY DEF Fetch, IInv, TypeOK
<1>2. CASE Step({}, FALSE, {}, {First(own)}, batches, <<>>)
  BY <1>1, <1>2, NoneMade, QuietInvariant
<1>3. CASE Step({}, FALSE, {}, {}, batches, New)
  <2>1. Len(req) + 1 <= MaxRequests
    <3>1. Len(req) + Len(New) <= MaxRequests
      BY <1>3 DEF Step
    <3> QED
      BY <3>1
  <2>2. Passes({}, Len(req), New)
    BY <2>1, OneMade DEF IInv
  <2> HIDE DEF New
  <2> QED
    BY <1>1, <1>3, <2>2, QuietInvariant
<1> QED
  BY <1>2, <1>3 DEF Fetch

LEMMA FetchTheseInvariant ==
    ASSUME IInv, NEW R, FetchThese(R) PROVE IInv'
<1>1. /\ singleCall' \subseteq Sources
      /\ debounced' = TRUE /\ fatal' \in BOOLEAN /\ closed' \in BOOLEAN /\ fatal' = fatal
  BY DEF FetchThese, IInv, TypeOK
<1>2. Step({}, FALSE, {}, R, batches, <<>>)
  BY DEF FetchThese
<1> QED
  BY <1>1, <1>2, NoneMade, QuietInvariant

LEMMA CancelQueuedInvariant ==
    ASSUME IInv, NEW s \in Sources, CancelQueued(s) PROVE IInv'
<1>1. /\ singleCall' \subseteq Sources /\ debounced' \in BOOLEAN
      /\ fatal' \in BOOLEAN /\ closed' \in BOOLEAN /\ fatal' = fatal /\ debounced' = debounced
  BY DEF CancelQueued, IInv, TypeOK
<1>2. Step(Of(s) \cap Queue, TRUE, {}, {}, batches, <<>>)
  BY DEF CancelQueued
<1>3. Of(s) \cap Queue \in SUBSET Queue
  OBVIOUS
<1> QED
  BY <1>1, <1>2, <1>3, NoneMade, QuietInvariant

LEMMA SetSingleCallInvariant ==
    ASSUME IInv, NEW s \in Sources, SetSingleCall(s) PROVE IInv'
<1>1. /\ UNCHANGED <<req, promise, activeFetchCount, debounced, batches>>
      /\ fatal' = fatal /\ fatal' \in BOOLEAN /\ closed' \in BOOLEAN
      /\ singleCall' \subseteq Sources
  BY DEF SetSingleCall, IInv, TypeOK
<1> QED
  BY <1>1, OthersInvariant

\* The search strategy aborts requests of the queue only.
LEMMA FilteredQueued == ASSUME TypeOK PROVE Filtered \subseteq Queue
<1> SUFFICES ASSUME NEW r \in Duplicated PROVE First(Of(req[r].source) \cap Queue) \in Queue
  BY DEF Filtered
<1> DEFINE Q == Of(req[r].source) \cap Queue
<1>1. r \in Queue /\ r \in DOMAIN req
  BY DEF Duplicated, Queue
<1>2. Q \in SUBSET (1 .. Len(req)) /\ Len(req) \in Int /\ r \in Q
  BY <1>1, RequestTypes DEF Of
<1>3. First(Q) \in Q
  <2> HIDE DEF Q
  <2> QED
    BY <1>2, FirstOfSome
<1> QED
  BY <1>3

LEMMA FetchQueuedInvariant == ASSUME IInv, FetchQueued PROVE IInv'
<1> DEFINE requests == Startable(Queue \ Filtered)
           flagged == {r \in requests : req[r].source \in singleCall}
           alone == Filtered \cup (flagged \ {Last(flagged)})
<1>1. Filtered \in SUBSET Queue /\ alone \in SUBSET Queue
  BY FilteredQueued DEF IInv, Startable
<1>2. /\ fatal' = fatal /\ fatal' \in BOOLEAN /\ closed' \in BOOLEAN
      /\ singleCall \subseteq Sources /\ debounced \in BOOLEAN
  BY DEF FetchQueued, IInv, TypeOK
<1>3. \/ Step(Filtered, TRUE, {}, {}, batches, <<>>) /\ UNCHANGED <<debounced, singleCall>>
      \/ /\ \/ Step(Filtered, TRUE, {}, requests, batches, <<>>)
            \/ Step(alone, TRUE, {}, {Last(flagged)}, batches, <<>>)
         /\ singleCall' = singleCall \ {req[r].source : r \in flagged}
         /\ debounced' = TRUE
  BY DEF FetchQueued
<1> HIDE DEF requests, flagged, alone
<1>4. CASE Step(Filtered, TRUE, {}, {}, batches, <<>>) /\ UNCHANGED <<debounced, singleCall>>
  BY <1>1, <1>2, <1>4, NoneMade, QuietInvariant
<1>5. ASSUME singleCall' = singleCall \ {req[r].source : r \in flagged}, debounced' = TRUE,
             Step(Filtered, TRUE, {}, requests, batches, <<>>)
      PROVE  IInv'
  <2>1. singleCall' \subseteq Sources
    BY <1>2, <1>5
  <2> QED
    BY <1>1, <1>2, <1>5, <2>1, NoneMade, QuietInvariant
<1>6. ASSUME singleCall' = singleCall \ {req[r].source : r \in flagged}, debounced' = TRUE,
             Step(alone, TRUE, {}, {Last(flagged)}, batches, <<>>)
      PROVE  IInv'
  <2>1. singleCall' \subseteq Sources
    BY <1>2, <1>6
  <2> QED
    BY <1>1, <1>2, <1>6, <2>1, NoneMade, QuietInvariant
<1> QED
  BY <1>3, <1>4, <1>5, <1>6

LEMMA CloseInvariant == ASSUME IInv, Close PROVE IInv'
<1>1. /\ singleCall' \subseteq Sources /\ debounced' \in BOOLEAN /\ debounced' = debounced
      /\ fatal' = TRUE /\ closed' = TRUE
  BY DEF Close, IInv, TypeOK
<1>2. Step(Queue \ Skipped, TRUE, {}, {}, batches, <<>>)
  BY DEF Close
<1>3. Queue \ Skipped \in SUBSET Queue
  OBVIOUS
<1> QED
  BY <1>1, <1>2, <1>3, NoneMade, QuietInvariant

\* A batch that is not empty asks for something.
LEMMA FetchedSome ==
    ASSUME TypeOK, NEW b, b.reqs \subseteq DOMAIN req, b.reqs # {}
    PROVE  \E r \in b.reqs : r \in Fetched(b)
<1> DEFINE K == b.reqs
<1>1. Len(req) \in Int /\ K \in SUBSET (1 .. Len(req)) /\ K # {}
  BY RequestTypes
<1>2. First(K) \in K /\ \A q \in K : First(K) <= q
  <2> HIDE DEF K
  <2> QED
    BY <1>1, FirstOfSome
<1> QED
  BY <1>2 DEF Fetched

\* callClient: what is left of a batch that was started has a request to ask for.
LEMMA CallClientInvariant ==
    ASSUME IInv, NEW b \in batches, CallClient(b) PROVE IInv'
<1> DEFINE live == b.reqs \ Aborted
           asked == [reqs |-> live, phase |-> "params"]
<1>1. /\ UNCHANGED <<req, promise, activeFetchCount, debounced, singleCall, fatal, closed>>
      /\ b.phase = "started"
      /\ batches' = (batches \ {b}) \cup (IF live = {} THEN {} ELSE {asked})
  BY DEF CallClient
<1>2. Stopped' = Stopped /\ Aborted' = Aborted /\ Queue' = Queue
  BY <1>1 DEF Stopped, Aborted, Queue
<1>3. /\ b.reqs \subseteq DOMAIN req /\ b.reqs \cap Stopped \subseteq Aborted
      /\ \A r \in b.reqs : req[r].started
      /\ b \in Batches
  BY <1>1 DEF IInv, Flying, Over
<1>4. asked.reqs = live /\ asked.phase = "params" /\ live \subseteq b.reqs
  OBVIOUS
<1>5. live # {} => ~(Fetched(asked) \subseteq Aborted)
  <2> SUFFICES ASSUME live # {} PROVE \E r \in Fetched(asked) : r \notin Aborted
    OBVIOUS
  <2>1. TypeOK /\ asked.reqs = live /\ live \subseteq DOMAIN req
    BY <1>3 DEF IInv
  <2>2. \E r \in asked.reqs : r \in Fetched(asked)
    <3> HIDE DEF asked, live
    <3> QED
      BY <2>1, FetchedSome
  <2> QED
    BY <2>2
<1>6. Flying(batches)'
  <2>1. \A c : Over(c)' <=> Over(c)
    BY <1>1, <1>2 DEF Over, Fetched
  <2>2. ASSUME NEW c \in batches, c # b
        PROVE  /\ c \in Batches /\ c.reqs # {} /\ c.reqs \subseteq DOMAIN req
               /\ \A r \in c.reqs : req[r].started
               /\ IF Over(c) THEN c.phase = "params" /\ c.reqs \subseteq Stopped
                             ELSE c.reqs \cap Stopped \subseteq Aborted
               /\ c.reqs \cap b.reqs = {}
    BY <2>2 DEF IInv, Flying
  <2>3. ASSUME live # {}
        PROVE  /\ asked \in Batches /\ asked.reqs # {} /\ asked.reqs \subseteq DOMAIN req
               /\ \A r \in asked.reqs : req[r].started
               /\ ~Over(asked) /\ asked.reqs \cap Stopped \subseteq Aborted
    <3>1. asked \in Batches
      BY <1>3 DEF Batches
    <3> HIDE DEF asked, live
    <3> QED
      BY <1>3, <1>4, <1>5, <2>3, <3>1 DEF Over
  <2>4. \A c, d \in batches : c.reqs \cap d.reqs # {} => c = d
    BY DEF IInv, Flying
  <2>5. \A c \in batches' : (c \in batches /\ c # b) \/ (live # {} /\ c = asked)
    <3> HIDE DEF asked, live
    <3>1. CASE live = {}
      BY <1>1, <3>1
    <3>2. CASE live # {}
      <4>1. batches' = (batches \ {b}) \cup {asked}
        BY <1>1, <3>2
      <4> QED
        BY <3>2, <4>1
    <3> QED
      BY <3>1, <3>2
  <2> HIDE DEF asked, live
  <2>6. \A c \in batches' :
          /\ c \in Batches /\ c.reqs # {} /\ c.reqs \subseteq DOMAIN req
          /\ \A r \in c.reqs : req[r].started
          /\ IF Over(c) THEN c.phase = "params" /\ c.reqs \subseteq Stopped
                        ELSE c.reqs \cap Stopped \subseteq Aborted
    BY <2>2, <2>3, <2>5
  <2>7. \A c, d \in batches' : c.reqs \cap d.reqs # {} => c = d
    <3> SUFFICES ASSUME NEW c \in batches', NEW d \in batches', NEW r,
                        r \in c.reqs, r \in d.reqs
                 PROVE  c = d
      OBVIOUS
    <3>1. CASE c \in batches /\ d \in batches
      BY <2>4, <3>1
    <3>2. CASE c \in batches /\ c # b /\ d = asked
      BY <1>4, <2>2, <3>2
    <3>3. CASE d \in batches /\ d # b /\ c = asked
      BY <1>4, <2>2, <3>3
    <3> QED
      BY <2>5, <3>1, <3>2, <3>3
  <2> QED
    BY <1>1, <1>2, <2>1, <2>6, <2>7 DEF Flying
<1>7. TypeOK'
  <2>1. batches' \in SUBSET Batches
    BY <1>6 DEF Flying
  <2> QED
    BY <1>1, <2>1 DEF IInv, TypeOK
<1>8. Sent' /\ (Aborted \subseteq Stopped)' /\ Held' /\ LoadingMeansFetching'
  BY <1>1, <1>2 DEF IInv, Sent, Held, Holders, LoadingMeansFetching, Active, Of
<1>9. RequestedIsFetched'
  <2> SUFFICES ASSUME ~fatal, NEW r \in Queue, req[r].requested, req[r].started
               PROVE  \E c \in batches' : r \in c.reqs
    BY <1>1, <1>2 DEF IInv, RequestedIsFetched
  <2>1. PICK c \in batches : r \in c.reqs
    BY DEF IInv, RequestedIsFetched
  <2>2. CASE c = b
    <3>1. r \in live
      BY <2>1, <2>2 DEF Queue, IInv
    <3>2. asked \in batches'
      <4> HIDE DEF asked, live
      <4> QED
        BY <1>1, <3>1
    <3> QED
      BY <1>4, <3>1, <3>2
  <2>3. CASE c # b
    BY <1>1, <2>1, <2>3
  <2> QED
    BY <2>2, <2>3
<1> QED
  BY <1>6, <1>7, <1>8, <1>9 DEF IInv

\* The timer: the pending requests are in no batch yet, so that they make one that
\* shares none, and the count of a source grows by those of its requests.
LEMMA DebouncedFetchTheseInvariant == ASSUME IInv, DebouncedFetchThese PROVE IInv'
<1> DEFINE next == [reqs |-> Pending, phase |-> "started"]
           also(r) == [req[r] EXCEPT !.started = @ \/ r \in Pending]
<1>1. /\ UNCHANGED <<promise, singleCall, fatal, closed>> /\ ~fatal /\ debounced' = FALSE
      /\ req' = [r \in DOMAIN req |-> also(r)]
      /\ activeFetchCount' = CountWith(Pending)
      /\ batches' = batches \cup (IF Pending = {} THEN {} ELSE {next})
  BY DEF DebouncedFetchThese
<1>2. \A r \in DOMAIN req :
         /\ also(r) \in Request
         /\ also(r).source = req[r].source /\ also(r).defer = req[r].defer
         /\ also(r).requested = req[r].requested /\ also(r).stopped = req[r].stopped
         /\ also(r).aborted = req[r].aborted
         /\ also(r).started <=> req[r].started \/ r \in Pending
  BY RequestTypes DEF IInv, Request
<1> HIDE DEF also
<1>3. /\ DOMAIN req' = DOMAIN req
      /\ \A r \in DOMAIN req :
           /\ req'[r].source = req[r].source /\ req'[r].defer = req[r].defer
           /\ req'[r].requested = req[r].requested /\ req'[r].stopped = req[r].stopped
           /\ req'[r].aborted = req[r].aborted
           /\ req'[r].started <=> req[r].started \/ r \in Pending
  BY <1>1, <1>2
<1>4. req' \in Seq(Request) /\ Len(req') = Len(req)
  <2>1. DOMAIN req = 1 .. Len(req) /\ Len(req) \in Nat
    BY RequestTypes DEF IInv
  <2>2. req' \in [1 .. Len(req) -> Request]
    BY <1>1, <1>2, <2>1
  <2> QED
    BY <2>1, <2>2
<1>5. Stopped' = Stopped /\ Aborted' = Aborted /\ Queue' = Queue /\ \A s : Of(s)' = Of(s)
  <2>1. Stopped' = Stopped /\ Aborted' = Aborted /\ \A s : Of(s)' = Of(s)
    BY <1>3 DEF Stopped, Aborted, Of
  <2> QED
    BY <1>3, <2>1 DEF Queue
<1>6. /\ Pending \subseteq Queue /\ Queue \subseteq DOMAIN req
      /\ \A r \in Pending : req[r].requested /\ ~req[r].started
      /\ \A r \in Queue : req[r].requested /\ ~req[r].started => r \in Pending
  BY DEF Pending, Queue
<1>7. next.reqs = Pending /\ next.phase = "started"
  OBVIOUS
<1>8. \A c \in batches' : c \in batches \/ (Pending # {} /\ c = next)
  <2> HIDE DEF next
  <2>1. CASE Pending = {}
    BY <1>1, <2>1
  <2>2. CASE Pending # {}
    <3>1. batches' = batches \cup {next}
      BY <1>1, <2>2
    <3> QED
      BY <2>2, <3>1
  <2> QED
    BY <2>1, <2>2
<1>9. batches \subseteq batches' /\ (Pending # {} => next \in batches')
  <2> HIDE DEF next
  <2> QED
    BY <1>1
<1>10. Flying(batches)'
  <2>1. \A c : c.reqs \subseteq DOMAIN req => (Over(c)' <=> Over(c))
    <3> SUFFICES ASSUME NEW c, c.reqs \subseteq DOMAIN req PROVE Over(c)' <=> Over(c)
      OBVIOUS
    <3>1. Fetched(c)' = Fetched(c)
      BY <1>3, FetchedStays
    <3> QED
      BY <1>5, <3>1 DEF Over
  <2>2. ASSUME NEW c \in batches
        PROVE  /\ c \in Batches /\ c.reqs # {} /\ c.reqs \subseteq DOMAIN req
               /\ \A r \in c.reqs : req[r].started
               /\ IF Over(c) THEN c.phase = "params" /\ c.reqs \subseteq Stopped
                             ELSE c.reqs \cap Stopped \subseteq Aborted
    BY DEF IInv, Flying
  <2>3. Pending # {} => next \in Batches
    <3>1. Pending \subseteq Requests
      BY <1>6, RequestTypes DEF IInv
    <3> QED
      BY <3>1 DEF Batches
  <2>4. \A c, d \in batches : c.reqs \cap d.reqs # {} => c = d
    BY DEF IInv, Flying
  <2>5. ~Over(next) /\ next.reqs \cap Stopped \subseteq Aborted
    BY <1>6 DEF Over, Queue
  <2> HIDE DEF next
  <2>6. ASSUME NEW c \in batches'
        PROVE  /\ c \in Batches /\ c.reqs # {} /\ c.reqs \subseteq DOMAIN req'
               /\ \A r \in c.reqs : req'[r].started
               /\ IF Over(c)' THEN c.phase = "params" /\ c.reqs \subseteq Stopped'
                              ELSE c.reqs \cap Stopped' \subseteq Aborted'
    <3>1. CASE c \in batches
      BY <1>3, <1>5, <2>1, <2>2, <3>1
    <3>2. CASE Pending # {} /\ c = next
      <4>1. c.reqs \subseteq DOMAIN req
        BY <1>6, <1>7, <3>2
      <4>2. ~Over(c)'
        BY <2>1, <2>5, <3>2, <4>1
      <4> QED
        BY <1>3, <1>5, <1>7, <2>3, <2>5, <3>2, <4>1, <4>2
    <3> QED
      BY <1>8, <3>1, <3>2
  <2>7. \A c, d \in batches' : c.reqs \cap d.reqs # {} => c = d
    <3> SUFFICES ASSUME NEW c \in batches', NEW d \in batches', NEW r,
                        r \in c.reqs, r \in d.reqs
                 PROVE  c = d
      OBVIOUS
    <3> QED
      BY <1>6, <1>7, <1>8, <2>2, <2>4
  <2> QED
    BY <2>6, <2>7 DEF Flying
<1>11. Sent'
  BY <1>3, <1>6 DEF IInv, Sent
<1>12. Held'
  <2>1. \A d : Holders(d)' = Holders(d)
    BY <1>3, <1>5, <1>6 DEF Holders
  <2> QED
    BY <1>1, <1>3, <1>5, <2>1 DEF IInv, Held
<1>13. RequestedIsFetched'
  <2> SUFFICES ASSUME NEW r \in Queue, req'[r].requested
               PROVE  IF req'[r].started THEN \E c \in batches' : r \in c.reqs ELSE debounced'
    BY <1>5 DEF RequestedIsFetched
  <2>1. CASE req[r].started
    <3>1. \E c \in batches : r \in c.reqs
      BY <1>1, <1>3, <1>6, <2>1 DEF IInv, RequestedIsFetched
    <3> QED
      BY <1>3, <1>6, <1>9, <2>1, <3>1
  <2>2. CASE ~req[r].started
    <3>1. r \in Pending
      BY <1>3, <1>6, <2>2
    <3> HIDE DEF next
    <3> QED
      BY <1>3, <1>6, <1>7, <1>9, <3>1
  <2> QED
    BY <2>1, <2>2
<1>14. ASSUME NEW s \in Sources
       PROVE  /\ activeFetchCount'[s] \in Int \cup {NaN}
              /\ \/ activeFetchCount'[s] = NaN
                 \/ activeFetchCount'[s] <= Cardinality(Active(s)')
  <2> DEFINE more == Of(s) \cap Pending
             c == activeFetchCount[s]
             n == Cardinality(more)
             a == Cardinality(Active(s))
  <2>1. activeFetchCount'[s] = IF c # NaN THEN c + n ELSE IF n = 0 THEN NaN ELSE n
    BY <1>1 DEF CountWith
  <2>2. Active(s) \subseteq DOMAIN req /\ more \subseteq DOMAIN req
    BY DEF Active, Of
  <2>3. IsFiniteSet(Active(s)) /\ a \in Nat /\ IsFiniteSet(more) /\ n \in Nat
    BY <2>2, MadeFinite DEF IInv
  <2>4. Active(s)' = Active(s) \cup more
    BY <1>3, <1>5, <1>6 DEF Active
  <2>5. Active(s) \cap more = {}
    BY <1>6 DEF Active
  <2> HIDE DEF more
  <2>6. Cardinality(Active(s)') = a + n
    <3>1. Cardinality(Active(s) \cap more) = 0
      BY <2>5, FS_EmptySet
    <3>2. Cardinality(Active(s) \cup more) = a + n - Cardinality(Active(s) \cap more)
      BY <2>3, FS_Union
    <3> QED
      BY <2>3, <2>4, <3>1, <3>2
  <2>7. c \in Int \cup {NaN} /\ (c = NaN \/ c <= a)
    BY DEF IInv, TypeOK, LoadingMeansFetching
  <2> HIDE DEF c, n, a
  <2>8. c # NaN => c + n \in Int /\ c + n <= a + n
    BY <2>3, <2>7
  <2>9. n \in Int /\ n <= a + n
    BY <2>3
  <2>10. activeFetchCount'[s] = NaN \/ activeFetchCount'[s] = n
          \/ (c # NaN /\ activeFetchCount'[s] = c + n)
    BY <2>1
  <2> QED
    BY <2>6, <2>8, <2>9, <2>10
<1>15. LoadingMeansFetching' /\ activeFetchCount' \in [Sources -> Int \cup {NaN}]
  <2>1. DOMAIN activeFetchCount' = Sources /\ activeFetchCount' = [s \in Sources |-> activeFetchCount'[s]]
    BY <1>1 DEF CountWith
  <2> QED
    BY <1>14, <2>1 DEF LoadingMeansFetching
<1>16. TypeOK'
  <2>1. /\ singleCall' \subseteq Sources /\ debounced' \in BOOLEAN
        /\ fatal' \in BOOLEAN /\ closed' \in BOOLEAN
        /\ Len(req') <= MaxRequests
    BY <1>1, <1>4 DEF IInv, TypeOK
  <2>2. /\ DOMAIN promise' = {r \in DOMAIN req' : req'[r].defer = r}
        /\ \A d \in DOMAIN promise' : promise'[d] \in Promised
    BY <1>1, <1>3 DEF IInv, TypeOK
  <2>3. batches' \in SUBSET Batches
    BY <1>10 DEF Flying
  <2> QED
    BY <1>4, <1>15, <2>1, <2>2, <2>3 DEF TypeOK
<1>17. (Aborted \subseteq Stopped)'
  BY <1>5 DEF IInv
<1> QED
  BY <1>10, <1>11, <1>12, <1>13, <1>15, <1>16, <1>17 DEF IInv

-----------------------------------------------------------------------------
(* The actions of a batch.                                                 *)

\* Requests of the queue hold different promises.
LEMMA QueueDistinct == ASSUME Held, NEW K \in SUBSET Queue PROVE Distinct(K)
<1> SUFFICES ASSUME NEW r \in K, NEW q \in K, req[r].defer = req[q].defer PROVE r = q
  BY DEF Distinct
<1> DEFINE d == req[r].defer
<1>1. d \in DOMAIN promise
  BY DEF Held, Queue
<1>2. r \in Holders(d) /\ q \in Holders(d)
  BY DEF Holders
<1>3. \E x \in Queue : Holders(d) = {x}
  BY <1>1, <1>2 DEF Held
<1> QED
  BY <1>2, <1>3

\* Of the requests that are retried, those that were not aborted are those that fail
\* without rejecting.
LEMMA RetriedFails ==
    ASSUME TypeOK, NEW L \in SUBSET DOMAIN req, NEW A
    PROVE  /\ Retried(L, A) \in SUBSET DOMAIN req
           /\ Failed(L, A) \subseteq L /\ Failed(L, A) \cap A = {}
           /\ Retried(L, A) \ A = {r \in Failed(L, A) : req[r].source \notin Rejecting}
           /\ L \cap A = {} => Failed(L, A) = L
<1>1. \A r \in L : r \in Int
  BY RequestTypes
<1>2. \A r \in L : \A q \in L : (r <= q /\ r # q) <=> r < q
  BY <1>1
<1>3. \A r \in L : ~(r < r)
  BY <1>1
<1> QED
  BY <1>2, <1>3 DEF Retried, Failed

\* A batch that was not answered yet: those of its requests that have not stopped are
\* those that were not aborted.
LEMMA UnderWay ==
    ASSUME IInv, NEW b \in batches, ~Over(b)
    PROVE  /\ b \in Batches /\ b.reqs \subseteq DOMAIN req
           /\ \A r \in b.reqs : r \in Queue <=> r \notin Aborted
<1>1. b \in Batches /\ b.reqs \subseteq DOMAIN req /\ b.reqs \cap Stopped \subseteq Aborted
  BY DEF IInv, Flying
<1> QED
  BY <1>1 DEF Queue, IInv

\* A batch that has responded has no request of the queue.
LEMMA NothingLeft ==
    ASSUME IInv, NEW b \in batches, Over(b)
    PROVE  b.phase = "params" /\ b.reqs \cap Queue = {} /\ b.reqs \subseteq DOMAIN req
BY DEF IInv, Flying, Queue

\* Some of the batches under way are under way.
LEMMA FewerFly == ASSUME NEW B, Flying(B), NEW C \in SUBSET B PROVE Flying(C)
BY DEF Flying

\* What the clones of a retry pass on.
LEMMA RetryPasses ==
    ASSUME IInv, NEW L \in SUBSET DOMAIN req, NEW A, NEW n \in Nat, n >= Len(req),
           n + Len(Clones(Retried(L, A), A, n)) <= MaxRequests, L \subseteq Queue \cup A
    PROVE  /\ Passes(Retried(L, A) \ A, n, Clones(Retried(L, A), A, n))
           /\ Unmarked(Clones(Retried(L, A), A, n))
           /\ Retried(L, A) \ A = {r \in Failed(L, A) : req[r].source \notin Rejecting}
           /\ Failed(L, A) \in SUBSET Queue
<1> DEFINE T == Retried(L, A)
<1>1. TypeOK /\ Held
  BY DEF IInv
<1>2. T \in SUBSET DOMAIN req /\ T \ A = {r \in Failed(L, A) : req[r].source \notin Rejecting}
  BY <1>1, RetriedFails
<1>3. Failed(L, A) \in SUBSET Queue
  <2>1. Failed(L, A) \subseteq L /\ Failed(L, A) \cap A = {}
    BY <1>1, RetriedFails
  <2> QED
    BY <2>1
<1> HIDE DEF T
<1>4. Distinct(T \ A)
  BY <1>1, <1>2, <1>3, QueueDistinct
<1>5. n + Cardinality(T) <= MaxRequests
  BY <1>1, <1>2, ClonesLength DEF T
<1>6. Passes(T \ A, n, Clones(T, A, n)) /\ Unmarked(Clones(T, A, n))
  BY <1>1, <1>2, <1>4, <1>5, ClonesPass
<1> QED
  BY <1>2, <1>3, <1>6 DEF T

LEMMA ParamsReadyInvariant ==
    ASSUME IInv, NEW b \in batches, NEW bad, ParamsReady(b, bad)
    PROVE  IInv'
<1> DEFINE n == Len(req)
           first == Clones(Retried(bad, Aborted), Aborted, n)
           others == batches \ {b}
           sent == [b EXCEPT !.phase = "msearch"]
           one == Failed(bad, Aborted)
           A == Aborted \cup one
           two == Failed(b.reqs, A)
           second == Clones(Retried(b.reqs, A), A, n + Len(first))
<1>1. /\ b.phase = "params" /\ bad \subseteq Fetched(b) /\ ~fatal
      /\ bad # {} => "params" \in Faults
      /\ UNCHANGED <<debounced, singleCall, closed>>
  BY DEF ParamsReady
<1>2. \/ /\ Given(b, {}) /\ fatal' = fatal
         /\ Step({}, FALSE, {}, {}, others, first)
      \/ /\ ~Given(b, {}) /\ bad \cap Aborted = {} /\ fatal' = fatal
         /\ Step(bad, FALSE, {}, {}, others \cup {sent}, first)
      \/ /\ ~Given(b, {}) /\ fatal' = TRUE
         /\ Step(one \cup two, FALSE, {}, {}, others, first \o second)
  BY DEF ParamsReady
<1>3. /\ TypeOK /\ Held /\ Flying(batches)
      /\ n \in Nat /\ n >= Len(req) /\ MaxRequests \in Nat
  BY RequestTypes DEF IInv
<1>4. /\ singleCall' \subseteq Sources /\ debounced' \in BOOLEAN /\ closed' \in BOOLEAN
      /\ fatal \in BOOLEAN
  BY <1>1 DEF IInv, TypeOK
<1>5. Given(b, {}) <=> Over(b)
  BY <1>1 DEF Given, Over
<1>6. bad \subseteq b.reqs /\ b.reqs \subseteq DOMAIN req
  BY <1>1 DEF Fetched, IInv, Flying
<1>7. Retried(bad, Aborted) \in SUBSET DOMAIN req /\ Len(first) \in Nat
  <2>1. Retried(bad, Aborted) \in SUBSET DOMAIN req
    BY <1>3, <1>6, RetriedFails
  <2> QED
    BY <1>3, <2>1, ClonesLength
<1>8. Flying(others)
  BY <1>3, FewerFly
<1>9. bad \subseteq Queue \cup Aborted /\ (~Over(b) => b.reqs \subseteq Queue \cup Aborted)
  <2>1. CASE Over(b)
    BY <1>1, <2>1 DEF Over
  <2>2. CASE ~Over(b)
    BY <1>6, <2>2, UnderWay
  <2> QED
    BY <2>1, <2>2
<1>10. ASSUME n + Len(first) <= MaxRequests
       PROVE  /\ Passes(Retried(bad, Aborted) \ Aborted, n, first) /\ Unmarked(first)
              /\ Retried(bad, Aborted) \ Aborted = {r \in one : req[r].source \notin Rejecting}
              /\ one \in SUBSET Queue
  <2>1. bad \in SUBSET DOMAIN req
    BY <1>6
  <2> QED
    BY <1>3, <1>9, <1>10, <2>1, RetryPasses
<1>11. CASE Given(b, {}) /\ fatal' = fatal /\ Step({}, FALSE, {}, {}, others, first)
  <2>1. n + Len(first) <= MaxRequests
    BY <1>11 DEF Step
  <2>2. Retried(bad, Aborted) \ Aborted = {}
    <3>1. bad \subseteq Aborted
      BY <1>1, <1>11 DEF Given
    <3> QED
      BY <3>1 DEF Retried
  <2> HIDE DEF first, others
  <2>3. Passes({}, n, first) /\ Unmarked(first)
    BY <1>10, <2>1, <2>2
  <2> DEFINE none == {}
  <2>4. Legal(none, FALSE, none, others, first)
    BY <1>8, <2>3 DEF Legal, Again
  <2>5. \A c \in batches : \A r \in c.reqs \cap Queue :
           r \in Stop(none, none, others) \/ \E d \in others : r \in d.reqs
    <3>1. b.reqs \cap Queue = {}
      BY <1>5, <1>11, NothingLeft
    <3> QED
      BY <3>1 DEF others
  <2>6. Step(none, FALSE, none, none, others, first)
    BY <1>11
  <2>7. (fatal => fatal') /\ (debounced => debounced') /\ fatal' \in BOOLEAN
    BY <1>1, <1>4, <1>11
  <2>8. debounced' \/ (none = {} /\ Unmarked(first))
    BY <2>3
  <2>9. RequestedIsFetched'
    <3> HIDE DEF none
    <3> QED
      BY <2>4, <2>5, <2>6, <2>7, <2>8, StepRequested
  <2>10. /\ TypeOK' /\ Sent' /\ (Aborted \subseteq Stopped)' /\ Flying(batches)' /\ Held'
         /\ LoadingMeansFetching'
    <3> HIDE DEF none
    <3> QED
      BY <1>4, <2>4, <2>6, <2>7, StepTypes
  <2> QED
    BY <2>9, <2>10 DEF IInv
<1>12. CASE /\ ~Given(b, {}) /\ bad \cap Aborted = {} /\ fatal' = fatal
            /\ Step(bad, FALSE, {}, {}, others \cup {sent}, first)
  <2>1. n + Len(first) <= MaxRequests
    BY <1>12 DEF Step
  <2>2. one = bad
    BY <1>3, <1>6, <1>12, RetriedFails
  <2>3. Passes(Again(bad, FALSE), n, first) /\ Unmarked(first) /\ bad \subseteq Queue
    <3> HIDE DEF first, one
    <3> QED
      BY <1>10, <2>1, <2>2 DEF Again
  <2>4. ~Over(b)
    BY <1>5, <1>12
  <2>5. /\ b \in Batches /\ b.reqs # {}
        /\ \A r \in b.reqs : req[r].started
        /\ b.reqs \cap Stopped \subseteq Aborted
        /\ \A c \in batches : c.reqs \cap b.reqs # {} => c = b
    BY <1>3, <2>4 DEF Flying
  <2>6. sent.reqs = b.reqs /\ sent.phase = "msearch" /\ sent \in Batches
    BY <2>5 DEF Batches
  <2>7. ~Over(sent)
    BY <1>1, <2>4, <2>6 DEF Over, Fetched
  <2> HIDE DEF sent, first
  <2>8. Flying(others \cup {sent})
    <3>1. \A c \in others : c \in batches /\ c.reqs \cap sent.reqs = {}
      BY <2>5, <2>6
    <3> HIDE DEF others
    <3> QED
      BY <1>6, <1>8, <2>5, <2>6, <2>7, <3>1 DEF Flying
  <2>9. Legal(bad, FALSE, {}, others \cup {sent}, first)
    BY <2>3, <2>8 DEF Legal
  <2>10. \A c \in batches : \A r \in c.reqs \cap Queue : \E d \in others \cup {sent} : r \in d.reqs
    BY <2>6
  <2> HIDE DEF others
  <2> QED
    BY <1>1, <1>4, <1>12, <2>3, <2>9, <2>10, StepInvariant
<1>13. CASE /\ ~Given(b, {}) /\ fatal' = TRUE
            /\ Step(one \cup two, FALSE, {}, {}, others, first \o second)
  <2>1. ~Over(b)
    BY <1>5, <1>13
  <2>2. A \subseteq DOMAIN req /\ b.reqs \in SUBSET DOMAIN req /\ b.reqs \subseteq Queue \cup A
    <3>1. one \subseteq bad
      BY <1>3, <1>6, RetriedFails
    <3> HIDE DEF one
    <3> QED
      BY <1>6, <1>9, <2>1, <3>1 DEF Aborted
  <2>3. Retried(b.reqs, A) \in SUBSET DOMAIN req
    <3> HIDE DEF A
    <3> QED
      BY <2>2 DEF Retried
  <2>4. Len(second) \in Nat /\ Len(first \o second) = Len(first) + Len(second)
    <3>1. Len(second) \in Nat
      BY <1>3, <2>3, ClonesLength
    <3>2. /\ first \in Seq({first[i] : i \in 1 .. Len(first)})
          /\ second \in Seq({second[i] : i \in 1 .. Len(second)})
      <4>1. PICK S1 : first \in Seq(S1)
        BY <1>3, <1>7, ClonesLength
      <4>2. PICK S2 : second \in Seq(S2)
        BY <1>3, <2>3, ClonesLength
      <4> HIDE DEF first, second
      <4> QED
        BY <4>1, <4>2
    <3> HIDE DEF first, second
    <3> DEFINE S == {first[i] : i \in 1 .. Len(first)} \cup {second[i] : i \in 1 .. Len(second)}
    <3>3. first \in Seq(S) /\ second \in Seq(S)
      BY <3>2
    <3> HIDE DEF S
    <3> QED
      BY <3>1, <3>3, ConcatProperties
  <2>5. n + Len(first) <= MaxRequests /\ n + Len(first) + Len(second) <= MaxRequests
    <3>1. n + Len(first \o second) <= MaxRequests
      BY <1>13 DEF Step
    <3> HIDE DEF first, second
    <3> QED
      BY <1>3, <1>7, <2>4, <3>1
  <2> DEFINE K == Retried(bad, Aborted) \ Aborted
             J == Retried(b.reqs, A) \ A
  <2>6. /\ Passes(K, n, first) /\ Unmarked(first)
        /\ K = {r \in one : req[r].source \notin Rejecting}
        /\ one \in SUBSET Queue
    <3> HIDE DEF first, one
    <3> QED
      BY <1>10, <2>5
  <2>7. /\ Passes(J, n + Len(first), second) /\ Unmarked(second)
        /\ J = {r \in two : req[r].source \notin Rejecting}
        /\ two \in SUBSET Queue
    <3>1. n + Len(first) \in Nat /\ n + Len(first) >= Len(req)
      BY <1>3, <1>7
    <3> HIDE DEF first, A
    <3> QED
      BY <2>2, <2>5, <3>1, RetryPasses
  <2>8. one \in SUBSET A
    OBVIOUS
  <2> HIDE DEF first, second, one, two
  <2>9. K \cap J = {} /\ K \cup J \in SUBSET Queue
    BY <2>6, <2>7, <2>8
  <2>10. K \in SUBSET DOMAIN req /\ J \in SUBSET DOMAIN req
    BY <2>9 DEF Queue
  <2>11. Again(one \cup two, FALSE) = K \cup J
    <3> HIDE DEF K, J
    <3> QED
      BY <2>6, <2>7 DEF Again
  <2> HIDE DEF K, J, A
  <2>12. Distinct(K \cup J)
    BY <1>3, <2>9, QueueDistinct
  <2>13. Passes(K \cup J, n, first \o second) /\ Unmarked(first \o second)
    BY <1>3, <2>6, <2>7, <2>9, <2>10, <2>12, ConcatPasses
  <2>14. Legal(one \cup two, FALSE, {}, others, first \o second)
    BY <1>8, <2>6, <2>7, <2>11, <2>13 DEF Legal
  <2> QED
    BY <1>1, <1>4, <1>13, <2>13, <2>14, StepInvariant
<1> QED
  BY <1>2, <1>11, <1>12, <1>13

\* The msearch is rejected: no request of the batch is left, or the error is fatal.
LEMMA MsearchRejectedInvariant ==
    ASSUME IInv, NEW b \in batches, MsearchRejected(b)
    PROVE  IInv'
<1> DEFINE R == Failed(b.reqs, Aborted)
           New == Clones(Retried(b.reqs, Aborted), Aborted, Len(req))
           others == batches \ {b}
<1>1. /\ b.phase = "msearch" /\ Step(R, FALSE, {}, {}, others, New)
      /\ fatal' = (b.reqs \cap Aborted # {}) /\ ~fatal
      /\ UNCHANGED <<debounced, singleCall, closed>>
  BY DEF MsearchRejected
<1>2. TypeOK /\ Flying(batches) /\ Len(req) \in Nat /\ Len(req) >= Len(req)
  BY RequestTypes DEF IInv
<1>3. ~Over(b)
  BY <1>1, NothingLeft
<1>4. b.reqs \in SUBSET DOMAIN req /\ b.reqs \subseteq Queue \cup Aborted
  BY <1>3, UnderWay
<1>5. Len(req) + Len(New) <= MaxRequests
  BY <1>1 DEF Step
<1>6. /\ Passes(Retried(b.reqs, Aborted) \ Aborted, Len(req), New) /\ Unmarked(New)
      /\ Retried(b.reqs, Aborted) \ Aborted = {r \in R : req[r].source \notin Rejecting}
      /\ R \in SUBSET Queue
  BY <1>2, <1>4, <1>5, RetryPasses
<1>7. b.reqs \cap Aborted = {} => R = b.reqs
  BY <1>2, <1>4, RetriedFails
<1> HIDE DEF R, New
<1>8. Legal(R, FALSE, {}, others, New)
  <2>1. Flying(others)
    BY <1>2, FewerFly
  <2> QED
    BY <1>6, <2>1 DEF Legal, Again
<1>9. fatal' \/ \A c \in batches : \A r \in c.reqs \cap Queue :
                  r \in Stop(R, {}, others) \/ \E d \in others : r \in d.reqs
  BY <1>1, <1>7 DEF Stop
<1>10. /\ singleCall' \subseteq Sources /\ debounced' \in BOOLEAN /\ closed' \in BOOLEAN
       /\ fatal' \in BOOLEAN
  BY <1>1 DEF IInv, TypeOK
<1>11. (fatal => fatal') /\ (debounced => debounced')
  BY <1>1
<1>12. Step(R, FALSE, {}, {}, others, New)
  BY <1>1
<1> HIDE DEF others
<1> QED
  BY <1>6, <1>8, <1>9, <1>10, <1>11, <1>12, StepInvariant

\* The msearch answers: the batch has nothing left, its duplicates complete with it.
LEMMA RespondInvariant ==
    ASSUME IInv, NEW b \in batches, NEW errors, Respond(b, errors)
    PROVE  IInv'
<1> DEFINE Done == Live(b) \ errors
           New == Clones(Retried(errors, Aborted), Aborted, Len(req))
<1>1. /\ b.phase = "msearch" /\ Step(errors, FALSE, Done, {}, batches, New)
      /\ errors \subseteq Live(b) /\ ~fatal
      /\ UNCHANGED <<debounced, singleCall, fatal, closed>>
  BY DEF Respond
<1>2. TypeOK /\ Flying(batches) /\ Len(req) \in Nat /\ Len(req) >= Len(req)
  BY RequestTypes DEF IInv
<1>3. ~Over(b)
  BY <1>1, NothingLeft
<1>4. /\ b.reqs \in SUBSET DOMAIN req
      /\ \A r \in b.reqs : r \in Queue <=> r \notin Aborted
  BY <1>3, UnderWay
<1>5. Live(b) \subseteq b.reqs /\ Live(b) \subseteq Queue /\ Live(b) \cap Aborted = {}
  BY <1>4 DEF Live, Fetched
<1>6. errors \in SUBSET DOMAIN req /\ errors \subseteq Queue \cup Aborted /\ errors \cap Aborted = {}
  BY <1>1, <1>4, <1>5
<1>7. Len(req) + Len(New) <= MaxRequests
  BY <1>1 DEF Step
<1>8. /\ Passes(Retried(errors, Aborted) \ Aborted, Len(req), New) /\ Unmarked(New)
      /\ Retried(errors, Aborted) \ Aborted = {r \in Failed(errors, Aborted) :
                                                 req[r].source \notin Rejecting}
  BY <1>2, <1>6, <1>7, RetryPasses
<1>9. Failed(errors, Aborted) = errors
  BY <1>2, <1>6, RetriedFails
<1>10. ASSUME NEW c \in batches, c.reqs \cap Done # {}
       PROVE  c.phase = "msearch" /\ Given(c, errors \cup Done)
  <2>1. c = b
    BY <1>2, <1>5, <1>10 DEF Flying
  <2>2. Fetched(b) \subseteq Aborted \cup (errors \cup Done)
    BY DEF Live
  <2> QED
    BY <1>1, <2>1, <2>2 DEF Given
<1>11. errors \subseteq Queue /\ Done \subseteq Queue /\ errors \cap Done = {}
  BY <1>1, <1>5
<1> HIDE DEF New, Done
<1>12. Legal(errors, FALSE, Done, batches, New)
  BY <1>2, <1>8, <1>9, <1>10, <1>11 DEF Legal, Again
<1>13. /\ singleCall' \subseteq Sources /\ debounced' \in BOOLEAN /\ closed' \in BOOLEAN
       /\ fatal' \in BOOLEAN
  BY <1>1 DEF IInv, TypeOK
<1> QED
  BY <1>1, <1>8, <1>12, <1>13, StepInvariant

-----------------------------------------------------------------------------
(* The courier.                                                            *)

LEMMA InitInvariant == Init => IInv
<1> SUFFICES ASSUME Init PROVE IInv
  OBVIOUS
<1>1. /\ req = <<>> /\ promise = <<>> /\ DOMAIN req = {} /\ DOMAIN promise = {} /\ Len(req) = 0
      /\ req \in Seq(Request)
      /\ activeFetchCount = [s \in Sources |-> NaN] /\ batches = {} /\ singleCall = {}
      /\ debounced = FALSE /\ fatal = FALSE /\ closed = FALSE
  BY DEF Init
<1>2. 0 <= MaxRequests
  BY CourierAssumption
<1>3. TypeOK
  BY <1>1, <1>2 DEF TypeOK
<1>4. Sent /\ Aborted \subseteq Stopped /\ Flying(batches) /\ Held /\ RequestedIsFetched
  BY <1>1 DEF Sent, Aborted, Flying, Held, RequestedIsFetched, Queue
<1>5. LoadingMeansFetching
  BY <1>1 DEF LoadingMeansFetching
<1> QED
  BY <1>3, <1>4, <1>5 DEF IInv

LEMMA NextInvariant == IInv /\ [Next]_vars => IInv'
<1> SUFFICES ASSUME IInv, [Next]_vars PROVE IInv'
  OBVIOUS
<1>1. CASE Consume
  BY <1>1, OnResultsInvariant, FetchInvariant, FetchTheseInvariant, CancelQueuedInvariant,
     SetSingleCallInvariant DEF Consume, FetchQueuedOf
<1>2. CASE SearchLoop
  BY <1>2, FetchTheseInvariant DEF SearchLoop
<1>3. CASE FetchQueued
  BY <1>3, FetchQueuedInvariant
<1>4. CASE DebouncedFetchThese
  BY <1>4, DebouncedFetchTheseInvariant
<1>5. CASE AdvanceFetches
  BY <1>5, CallClientInvariant, ParamsReadyInvariant, RespondInvariant,
     MsearchRejectedInvariant DEF AdvanceFetches, AdvanceBatch
<1>6. CASE Close
  BY <1>6, CloseInvariant
<1>7. CASE UNCHANGED vars
  <2>1. /\ UNCHANGED <<req, promise, activeFetchCount, debounced, batches>>
        /\ fatal' = fatal /\ fatal' \in BOOLEAN /\ closed' \in BOOLEAN
        /\ singleCall' \subseteq Sources
    BY <1>7 DEF vars, IInv, TypeOK
  <2> QED
    BY <2>1, OthersInvariant
<1> QED
  BY <1>1, <1>2, <1>3, <1>4, <1>5, <1>6, <1>7 DEF Next, Advance

\* What the invariant says of a promise, in the words of the property.
LEMMA HeldOnce == Held => OneRequestPerPromise
<1> SUFFICES ASSUME Held, NEW d \in DOMAIN promise
             PROVE  Cardinality(Holders(d)) = IF promise[d] = "pending" THEN 1 ELSE 0
  BY DEF OneRequestPerPromise, Holders
<1>1. CASE promise[d] = "pending"
  <2>1. PICK r \in Queue : Holders(d) = {r}
    BY <1>1 DEF Held
  <2> QED
    BY <1>1, <2>1, FS_Singleton
<1>2. CASE promise[d] # "pending"
  <2>1. Holders(d) = {}
    BY <1>2 DEF Held
  <2> QED
    BY <1>2, <2>1, FS_EmptySet
<1> QED
  BY <1>1, <1>2

\* Whatever is fetched, aborted and retried, the invariant holds.
LEMMA InvariantHolds == Spec => []IInv
BY InitInvariant, NextInvariant, PTL DEF Spec

\* The variables stay in their types, whatever the sources, faults and bounds: the
\* requests, promises and batches of src/ui/public/courier/fetch.
THEOREM TypeCorrect == Spec => []TypeOK
<1>1. IInv => TypeOK
  BY DEF IInv
<1> QED
  BY <1>1, InvariantHolds, PTL

\* activeFetchCount, which visualize.html shows as the spinner, never exceeds the
\* number of requests of the source that are started and have not stopped.
THEOREM LoadingHolds == Spec => []LoadingMeansFetching
<1>1. IInv => LoadingMeansFetching
  BY DEF IInv
<1> QED
  BY <1>1, InvariantHolds, PTL

\* The promise of a consumer is held by exactly one request of the queue while it is
\* pending, and by none after: retry passes it on, and nothing answers it twice.
THEOREM OnePromiseHolds == Spec => []OneRequestPerPromise
<1>1. IInv => OneRequestPerPromise
  BY HeldOnce DEF IInv
<1> QED
  BY <1>1, InvariantHolds, PTL

\* A request that was sent to the fetch module is started by the timer, or is in a
\* batch, until it stops.
THEOREM FetchedHolds == Spec => []RequestedIsFetched
<1>1. IInv => RequestedIsFetched
  BY DEF IInv
<1> QED
  BY <1>1, InvariantHolds, PTL

-----------------------------------------------------------------------------
(* No error of a fetch is fatal.                                           *)

\* Only failures abort requests, and only the parameters or only the msearch may fail.
Undisturbed ==
    /\ Destroyed = {} /\ Multichart = {}
    /\ "params" \notin Faults \/ "msearch" \notin Faults

\* What keeps the fetch from failing a request that is aborted already: either nothing
\* goes wrong before the msearch is answered, or nothing else aborts requests.
Routable ==
    \/ "params" \notin Faults /\ "msearch" \notin Faults
    \/ Undisturbed

\* A batch with an aborted request has sent its msearch without the parameters of that.
Intact ==
    \A b \in batches : b.reqs \cap Aborted # {} => b.phase = "msearch" /\ "params" \in Faults

Routed ==
    /\ ErrorsRouted
    /\ Undisturbed => singleCall = {} /\ (fatal \/ Intact)

\* A step keeps the batches intact if it aborts requests of those only that have sent
\* their msearch, or that respond.
LEMMA StepIntact ==
    ASSUME IInv, NEW R, NEW dropped, NEW Done, NEW Marked, NEW B, NEW New \in Seq(Request),
           Step(R, dropped, Done, Marked, B, New), \A b \in B : b.reqs \subseteq DOMAIN req,
           \A b \in B : \/ b.phase = "msearch" /\ Given(b, R \cup Done)
                        \/ b.reqs \cap (Aborted \cup R) # {} =>
                              b.phase = "msearch" /\ "params" \in Faults
    PROVE  Intact'
<1> SUFFICES ASSUME NEW b \in batches', NEW r \in b.reqs, r \in Aborted'
             PROVE  b.phase = "msearch" /\ "params" \in Faults
  BY DEF Intact
<1>1. b \in B /\ ~(b.phase = "msearch" /\ Given(b, R \cup Done))
  BY DEF Step
<1>2. r \in DOMAIN req
  BY <1>1
<1>3. r \in Aborted \cup R
  <2>1. req'[r].aborted <=> req[r].aborted \/ r \in R
    BY <1>2, StepRequests DEF IInv
  <2> QED
    BY <1>2, <2>1 DEF Aborted
<1> QED
  BY <1>1, <1>3

\* An action of a consumer aborts nothing.
LEMMA QuietIntact ==
    ASSUME IInv, Intact, NEW dropped, NEW Marked, NEW New, Passes({}, Len(req), New),
           Step({}, dropped, {}, Marked, batches, New)
    PROVE  Intact'
<1> DEFINE none == {}
<1>1. /\ New \in Seq(Request) /\ Aborted \cup none = Aborted
      /\ \A b \in batches : b.reqs \subseteq DOMAIN req
  BY DEF Passes, IInv, Flying
<1>2. Step(none, dropped, none, Marked, batches, New)
  OBVIOUS
<1>3. \A b \in batches : b.reqs \cap (Aborted \cup none) # {} =>
                            b.phase = "msearch" /\ "params" \in Faults
  BY <1>1 DEF Intact
<1> HIDE DEF none
<1> QED
  BY <1>1, <1>2, <1>3, StepIntact

\* Without a multichart the search strategy aborts nothing.
LEMMA NothingFiltered ==
    ASSUME Multichart = {} PROVE Filtered = {}
BY DEF Filtered, Duplicated

\* Nothing is cancelled or filtered out, so that the requests asked for stay in the queue.
LEMMA ConsumeIntact ==
    ASSUME IInv, Undisturbed, Intact, singleCall = {}, Consume \/ SearchLoop \/ FetchQueued
    PROVE  Intact' /\ singleCall' = {}
<1>1. TypeOK /\ \A n : Passes({}, n, <<>>)
  BY NoneMade DEF IInv
<1>2. ASSUME NEW s \in Sources, OnResults(s) PROVE Intact' /\ singleCall' = {}
  <2> DEFINE New == <<NewRequest(s, Len(req) + 1)>>
  <2>1. Step({}, FALSE, {}, {}, batches, New) /\ singleCall' = singleCall
    BY <1>2 DEF OnResults
  <2>2. Len(req) + 1 <= MaxRequests
    <3>1. Len(req) + Len(New) <= MaxRequests
      BY <2>1 DEF Step
    <3> QED
      BY <3>1
  <2>3. Passes({}, Len(req), New)
    BY <1>1, <2>2, OneMade
  <2> HIDE DEF New
  <2> QED
    BY <2>1, <2>3, QuietIntact
<1>3. ASSUME NEW s \in Sources, Fetch(s) PROVE Intact' /\ singleCall' = {}
  <2> DEFINE New == <<[NewRequest(s, Len(req) + 1) EXCEPT !.requested = TRUE]>>
             one == First(Startable(Of(s)))
  <2>1. /\ singleCall' = singleCall
        /\ \/ Step({}, FALSE, {}, {one}, batches, <<>>)
           \/ Step({}, FALSE, {}, {}, batches, New)
    BY <1>3 DEF Fetch
  <2>2. CASE Step({}, FALSE, {}, {one}, batches, <<>>)
    <3> HIDE DEF one
    <3> QED
      BY <1>1, <2>1, <2>2, QuietIntact
  <2>3. CASE Step({}, FALSE, {}, {}, batches, New)
    <3>1. Len(req) + 1 <= MaxRequests
      <4>1. Len(req) + Len(New) <= MaxRequests
        BY <2>3 DEF Step
      <4> QED
        BY <4>1
    <3>2. Passes({}, Len(req), New)
      BY <1>1, <3>1, OneMade
    <3> HIDE DEF New
    <3> QED
      BY <2>1, <2>3, <3>2, QuietIntact
  <2> QED
    BY <2>1, <2>2, <2>3
<1>4. ASSUME NEW R, FetchThese(R) PROVE Intact' /\ singleCall' = {}
  <2>1. Step({}, FALSE, {}, R, batches, <<>>) /\ singleCall' = singleCall
    BY <1>4 DEF FetchThese
  <2> QED
    BY <1>1, <2>1, QuietIntact
<1>5. ASSUME NEW s \in Sources PROVE ~CancelQueued(s) /\ ~SetSingleCall(s)
  BY DEF Undisturbed, CancelQueued, SetSingleCall
<1>6. CASE FetchQueued
  <2> DEFINE requests == Startable(Queue \ Filtered)
             flagged == {r \in requests : req[r].source \in singleCall}
  <2>1. Filtered = {} /\ Thrown = {} /\ flagged = {}
    BY NothingFiltered DEF Undisturbed, Thrown, Duplicated
  <2>2. Step({}, TRUE, {}, requests, batches, <<>>) /\ singleCall' = singleCall
    BY <1>6, <2>1 DEF FetchQueued
  <2> HIDE DEF requests
  <2> QED
    BY <1>1, <2>2, QuietIntact
<1> QED
  BY <1>2, <1>3, <1>4, <1>5, <1>6 DEF Consume, FetchQueuedOf, SearchLoop

\* The timer starts requests of the queue, callClient leaves the aborted ones out.
LEMMA StartIntact ==
    ASSUME IInv, Intact, DebouncedFetchThese \/ \E b \in batches : CallClient(b)
    PROVE  Intact'
<1>1. CASE DebouncedFetchThese
  <2> DEFINE next == [reqs |-> Pending, phase |-> "started"]
  <2>1. /\ req' = [r \in DOMAIN req |-> [req[r] EXCEPT !.started = @ \/ r \in Pending]]
        /\ batches' = batches \cup (IF Pending = {} THEN {} ELSE {next})
    BY <1>1 DEF DebouncedFetchThese
  <2>2. Aborted' = Aborted
    BY <2>1, RequestTypes DEF IInv, Request, Aborted
  <2>3. next.reqs \cap Aborted = {}
    BY DEF Pending, Queue, IInv
  <2>4. \A c \in batches' : c \in batches \/ c = next
    <3> HIDE DEF next
    <3> QED
      BY <2>1
  <2> HIDE DEF next
  <2> QED
    BY <2>2, <2>3, <2>4 DEF Intact
<1>2. ASSUME NEW b \in batches, CallClient(b) PROVE Intact'
  <2> DEFINE asked == [reqs |-> b.reqs \ Aborted, phase |-> "params"]
  <2>1. req' = req /\ batches' = (batches \ {b}) \cup (IF b.reqs \ Aborted = {} THEN {} ELSE {asked})
    BY <1>2 DEF CallClient
  <2>2. asked.reqs \cap Aborted = {}
    OBVIOUS
  <2>3. \A c \in batches' : c \in batches \/ c = asked
    <3> HIDE DEF asked
    <3> QED
      BY <2>1
  <2> HIDE DEF asked
  <2>4. Aborted' = Aborted
    BY <2>1 DEF Aborted
  <2> QED
    BY <2>2, <2>3, <2>4 DEF Intact
<1> QED
  BY <1>1, <1>2

\* The requests whose parameters fail are left behind by the batch that sends its msearch.
LEMMA ParamsReadyRouted ==
    ASSUME IInv, Routable, Routed, NEW b \in batches, NEW bad, ParamsReady(b, bad)
    PROVE  Routed'
<1> DEFINE first == Clones(Retried(bad, Aborted), Aborted, Len(req))
           others == batches \ {b}
           sent == [b EXCEPT !.phase = "msearch"]
           none == {}
<1>1. /\ b.phase = "params" /\ bad \subseteq Fetched(b) /\ ~fatal
      /\ bad # {} => "params" \in Faults
      /\ singleCall' = singleCall /\ closed' = closed
  BY DEF ParamsReady
<1>2. /\ TypeOK /\ Flying(batches) /\ Len(req) \in Nat /\ Len(req) >= Len(req)
      /\ b \in Batches /\ bad \subseteq b.reqs /\ b.reqs \subseteq DOMAIN req
  BY <1>1, RequestTypes DEF IInv, Flying, Fetched
<1>3. bad \in SUBSET DOMAIN req /\ bad \subseteq Queue \cup Aborted
  <2>1. CASE Over(b)
    BY <1>1, <1>2, <2>1 DEF Over
  <2>2. CASE ~Over(b)
    BY <1>2, <2>2, UnderWay
  <2> QED
    BY <2>1, <2>2
<1>4. bad \cap Aborted = {}
  BY <1>1, <1>2 DEF Routable, Routed, Intact
<1>5. \/ fatal' = fatal /\ Step(none, FALSE, none, none, others, first)
      \/ fatal' = fatal /\ Step(bad, FALSE, none, none, others \cup {sent}, first)
  BY <1>4 DEF ParamsReady
<1>6. first \in Seq(Request)
  <2>1. Len(req) + Len(first) <= MaxRequests
    BY <1>5 DEF Step
  <2>2. Passes(Retried(bad, Aborted) \ Aborted, Len(req), first)
    BY <1>2, <1>3, <2>1, RetryPasses
  <2> QED
    BY <2>2 DEF Passes
<1>7. sent.reqs = b.reqs /\ sent.phase = "msearch"
  BY <1>2 DEF Batches
<1> HIDE DEF first, sent
<1>8. ASSUME Undisturbed PROVE Intact'
  <2>1. Intact /\ \A c \in others : c.reqs \subseteq DOMAIN req
    BY <1>1, <1>2, <1>8 DEF Routed, Flying
  <2>2. b.reqs \cap Aborted = {} /\ \A c \in others : c.reqs \cap b.reqs = {}
    BY <1>1, <1>2, <2>1 DEF Intact, Flying
  <2>3. CASE Step(none, FALSE, none, none, others, first)
    <3>1. Aborted \cup none = Aborted
      OBVIOUS
    <3>2. \A c \in others : c.reqs \cap (Aborted \cup none) # {} =>
                               c.phase = "msearch" /\ "params" \in Faults
      BY <2>1, <3>1 DEF Intact
    <3> HIDE DEF none, others
    <3> QED
      BY <1>6, <2>1, <2>3, <3>2, StepIntact
  <2>4. CASE Step(bad, FALSE, none, none, others \cup {sent}, first)
    <3>1. \A c \in others \cup {sent} : c.reqs \cap (Aborted \cup bad) # {} =>
                                           c.phase = "msearch" /\ "params" \in Faults
      BY <1>1, <1>2, <1>7, <2>1, <2>2 DEF Intact
    <3>2. \A c \in others \cup {sent} : c.reqs \subseteq DOMAIN req
      BY <1>2, <1>7 DEF Flying
    <3> HIDE DEF none, others
    <3> QED
      BY <1>6, <2>4, <3>1, <3>2, StepIntact
  <2> QED
    BY <1>5, <2>3, <2>4
<1>9. ErrorsRouted'
  BY <1>1, <1>5 DEF ErrorsRouted
<1> QED
  BY <1>1, <1>8, <1>9 DEF Routed, Undisturbed

\* The msearch is rejected: the parameters of every request were there.
LEMMA MsearchRejectedRouted ==
    ASSUME IInv, Routable, Routed, NEW b \in batches, MsearchRejected(b)
    PROVE  Routed'
<1> DEFINE R == Failed(b.reqs, Aborted)
           New == Clones(Retried(b.reqs, Aborted), Aborted, Len(req))
           others == batches \ {b}
           none == {}
<1>1. /\ b.phase = "msearch" /\ Step(R, FALSE, none, none, others, New)
      /\ fatal' = (b.reqs \cap Aborted # {}) /\ ~fatal /\ "msearch" \in Faults
      /\ singleCall' = singleCall
  BY DEF MsearchRejected
<1>2. Undisturbed /\ "params" \notin Faults /\ Intact /\ singleCall = {}
  BY <1>1 DEF Routable, Routed, Undisturbed
<1>3. ~fatal'
  BY <1>1, <1>2 DEF Intact
<1>4. TypeOK /\ Flying(batches) /\ Len(req) \in Nat /\ Len(req) >= Len(req)
  BY RequestTypes DEF IInv
<1>5. b.reqs \in SUBSET DOMAIN req /\ b.reqs \subseteq Queue \cup Aborted
  <2>1. ~Over(b)
    BY <1>1, NothingLeft
  <2> QED
    BY <2>1, UnderWay
<1>6. New \in Seq(Request)
  <2>1. Len(req) + Len(New) <= MaxRequests
    BY <1>1 DEF Step
  <2>2. Passes(Retried(b.reqs, Aborted) \ Aborted, Len(req), New)
    BY <1>4, <1>5, <2>1, RetryPasses
  <2> QED
    BY <2>2 DEF Passes
<1>7. R \subseteq b.reqs
  BY DEF Failed
<1>8. \A c \in others : c.reqs \subseteq DOMAIN req /\ c.reqs \cap (Aborted \cup R) = {}
  BY <1>2, <1>4, <1>7 DEF Intact, Flying
<1> HIDE DEF R, New, none, others
<1>9. Intact'
  BY <1>1, <1>6, <1>8, StepIntact
<1> QED
  BY <1>1, <1>2, <1>3, <1>9 DEF Routed, ErrorsRouted

\* The msearch answers: a batch with failed responses is gone with its answer.
LEMMA RespondRouted ==
    ASSUME IInv, Routed, NEW b \in batches, NEW errors, Respond(b, errors)
    PROVE  Routed'
<1> DEFINE Done == Live(b) \ errors
           New == Clones(Retried(errors, Aborted), Aborted, Len(req))
           none == {}
<1>1. /\ b.phase = "msearch" /\ Step(errors, FALSE, Done, none, batches, New)
      /\ errors \subseteq Live(b) /\ ~fatal
      /\ UNCHANGED <<singleCall, fatal, closed>>
  BY DEF Respond
<1>2. /\ TypeOK /\ Flying(batches) /\ Len(req) \in Nat /\ Len(req) >= Len(req)
      /\ Live(b) \subseteq b.reqs
  BY RequestTypes DEF IInv, Live, Fetched
<1>3. errors \in SUBSET DOMAIN req /\ errors \subseteq Queue \cup Aborted
  <2>1. ~Over(b)
    BY <1>1, NothingLeft
  <2> QED
    BY <1>1, <1>2, <2>1, UnderWay
<1>4. New \in Seq(Request)
  <2>1. Len(req) + Len(New) <= MaxRequests
    BY <1>1 DEF Step
  <2>2. Passes(Retried(errors, Aborted) \ Aborted, Len(req), New)
    BY <1>2, <1>3, <2>1, RetryPasses
  <2> QED
    BY <2>2 DEF Passes
<1>5. Given(b, errors \cup Done)
  BY <1>1 DEF Given, Live
<1>6. \A c \in batches : c = b \/ c.reqs \cap errors = {}
  BY <1>1, <1>2 DEF Flying
<1>7. \A c \in batches : c.reqs \subseteq DOMAIN req
  BY <1>2 DEF Flying
<1> HIDE DEF Done, New, none
<1>8. ASSUME Intact PROVE Intact'
  <2>1. \A c \in batches : \/ c.phase = "msearch" /\ Given(c, errors \cup Done)
                           \/ c.reqs \cap (Aborted \cup errors) # {} =>
                                 c.phase = "msearch" /\ "params" \in Faults
    BY <1>1, <1>5, <1>6, <1>8 DEF Intact
  <2> QED
    BY <1>1, <1>4, <1>7, <2>1, StepIntact
<1> QED
  BY <1>1, <1>8 DEF Routed, ErrorsRouted, Undisturbed

LEMMA NextRouted == Routable /\ IInv /\ Routed /\ [Next]_vars => Routed'
<1> SUFFICES ASSUME Routable, IInv, Routed, [Next]_vars PROVE Routed'
  OBVIOUS
<1>1. CASE Consume \/ SearchLoop \/ FetchQueued
  <2>1. fatal' = fatal /\ closed' = closed /\ ~fatal
    <3>1. Consume => fatal' = fatal /\ closed' = closed /\ ~fatal
      BY DEF Consume, OnResults, MayAsk, Fetch, FetchQueuedOf, FetchThese, CancelQueued,
             SetSingleCall
    <3>2. SearchLoop => fatal' = fatal /\ closed' = closed /\ ~fatal
      BY DEF SearchLoop, FetchThese
    <3>3. FetchQueued => fatal' = fatal /\ closed' = closed /\ ~fatal
      BY DEF FetchQueued
    <3> QED
      BY <1>1, <3>1, <3>2, <3>3
  <2>2. Undisturbed => Intact' /\ singleCall' = {}
    BY <1>1, <2>1, ConsumeIntact DEF Routed
  <2> QED
    BY <2>1, <2>2 DEF Routed, ErrorsRouted, Undisturbed
<1>2. CASE DebouncedFetchThese \/ \E b \in batches : CallClient(b)
  <2>1. UNCHANGED <<singleCall, fatal, closed>>
    BY <1>2 DEF DebouncedFetchThese, CallClient
  <2>2. Intact => Intact'
    BY <1>2, StartIntact
  <2> QED
    BY <2>1, <2>2 DEF Routed, ErrorsRouted, Undisturbed
<1>3. CASE Close
  <2>1. fatal' = TRUE /\ closed' = TRUE /\ singleCall' = singleCall
    BY <1>3 DEF Close
  <2> QED
    BY <2>1 DEF Routed, ErrorsRouted, Undisturbed
<1>4. CASE UNCHANGED vars
  BY <1>4 DEF vars, Routed, ErrorsRouted, Undisturbed, Intact, Aborted
<1> QED
  BY <1>1, <1>2, <1>3, <1>4, ParamsReadyRouted, MsearchRejectedRouted, RespondRouted
     DEF Next, Advance, AdvanceFetches, AdvanceBatch

\* No error of a fetch is fatal to the application, as courier.js has it ("individual
\* errors are routed to their respective requests"), if no request can fail that was
\* aborted before: the msearch is not rejected and the parameters are always there, or
\* nothing cancels a request, there is no multichart, and only one of the two goes wrong.
THEOREM ErrorsAreRouted ==
    ASSUME Routable
    PROVE  Spec => []ErrorsRouted
<1>1. Init => Routed
  BY DEF Init, Routed, ErrorsRouted, Intact
<1>2. IInv /\ Routed /\ [Next]_vars => Routed'
  BY NextRouted
<1>3. Routed => ErrorsRouted
  BY DEF Routed
<1> QED
  BY <1>1, <1>2, <1>3, InvariantHolds, PTL DEF Spec
=============================================================================
