--------------------------- MODULE KibiMetaProofs ---------------------------
(***************************************************************************)
(* Proofs about the count service.  The inductive invariant adds to the    *)
(* counter of msearch requests what makes it exact: batches in flight are  *)
(* not empty, hold only objects that are in flight, and share none.        *)
(***************************************************************************)
EXTENDS KibiMeta, FiniteSetTheorems, WellFoundedInduction, TLAPS

\* Batches bs over places p: not empty, in flight, and disjoint.
Flying(bs, p) ==
    /\ bs \subseteq Batches /\ IsFiniteSet(bs)
    /\ \A b \in bs : b.items # {} /\ \A r \in b.items : p[r].at = "sent"
    /\ \A b, c \in bs : b # c => b.items \cap c.items = {}

Of(s, bs) == {b \in bs : b.strategy = s}

Counted(progress, s, bs) ==
    progress = Cardinality(Of(s, bs)) /\ progress <= ParallelRequests[s]

IInv ==
    /\ TypeOK
    /\ \A r \in Requests : r > asked => place[r].at = "unasked"
    /\ Flying(batches, place)
    /\ \A s \in Strategies : Counted(requestInProgress[s], s, batches)

PlaceType == [Requests -> [at : At, array : 0 .. MaxFlushes, stamp : Nat]]

-----------------------------------------------------------------------------
(* Operators of the model.                                                 *)

\* A non-empty set of naturals has a least element.
LEMMA NatMin ==
    ASSUME NEW T \in SUBSET Nat, T # {}
    PROVE  \E x \in T : \A y \in T : x <= y
<1> DEFINE Below(x) == 0 .. x - 1
           D == {Below(x) : x \in T}
           R == StrictSubsetOrdering(Nat)
<1>1. D \subseteq FiniteSubsetsOf(Nat) /\ D # {}
    <2>1. \A x \in T : x - 1 \in Int /\ Below(x) \in SUBSET Nat
        OBVIOUS
    <2>2. \A x \in T : IsFiniteSet(Below(x))
        BY <2>1, FS_Interval
    <2> QED BY <2>1, <2>2 DEF FiniteSubsetsOf
<1>2. IsWellFoundedOn(R, FiniteSubsetsOf(Nat))
    BY FS_StrictSubsetOrderingWellFounded
<1>3. PICK d \in D : \A e \in D : ~(<<e, d>> \in R)
    <2> HIDE DEF D, R
    <2> QED BY <1>1, <1>2, WFMin
<1>4. PICK x \in T : d = Below(x)
    OBVIOUS
<1>5. ASSUME NEW y \in T, ~(x <= y) PROVE FALSE
    <2>1. y < x /\ x \in Nat /\ y \in Nat
        BY <1>5
    <2>2. Below(y) \subseteq Below(x) /\ Below(y) # Below(x) /\ Below(x) \subseteq Nat
        BY <2>1
    <2>3. <<Below(y), Below(x)>> \in R
        BY <2>2 DEF StrictSubsetOrdering
    <2> QED BY <1>3, <1>4, <2>3
<1> QED BY <1>5

\* A set of requests is finite.
LEMMA RequestsFinite ==
    ASSUME NEW q \in SUBSET Requests
    PROVE  IsFiniteSet(q) /\ Cardinality(q) \in Nat
<1>1. IsFiniteSet(Requests)
    BY FS_Interval, WorkloadAssumption DEF Requests
<1> QED BY <1>1, FS_Subset, FS_CardinalityType

\* The rank of an object in a queue, and its batch, are naturals.
LEMMA ChunkType ==
    ASSUME NEW it, NEW p, NEW s \in Strategies, NEW q \in SUBSET Requests, NEW r
    PROVE  Chunk(it, p, s, q, r) \in Nat
<1>1. Rank(it, p, q, r) \in Nat
    BY RequestsFinite DEF Rank
<1>2. BatchSize[s] \in Nat \ {0}
    BY StrategyAssumption
<1>3. \A a \in Nat, b \in Nat \ {0} : a \div b \in Nat
    OBVIOUS
<1> QED BY <1>1, <1>2, <1>3 DEF Chunk

\* _processSingleQueue stops short of the end of the queue only if it sends something.
LEMMA TakenSendsOrEmpties ==
    ASSUME NEW it, NEW p, NEW s \in Strategies, NEW q \in SUBSET Requests, NEW hits,
           \A r \in Taken(it, p, s, q, hits) : it[r].query \in hits
    PROVE  Taken(it, p, s, q, hits) = q
<1> DEFINE U == {u \in q : it[u].query \notin hits}
           C == {Chunk(it, p, s, q, u) : u \in U}
<1>1. CASE U = {}
    BY <1>1 DEF Taken
<1>2. CASE U # {}
    <2>1. C \in SUBSET Nat /\ C # {}
        BY <1>2, ChunkType
    <2>2. PICK x \in C : \A y \in C : x <= y
        BY <2>1, NatMin
    <2>3. PICK r \in U : x = Chunk(it, p, s, q, r)
        BY <2>2
    <2>4. r \in Taken(it, p, s, q, hits)
        BY <2>2, <2>3 DEF Taken
    <2> QED BY <2>3, <2>4
<1> QED BY <1>1, <1>2

-----------------------------------------------------------------------------
(* _processSingleQueue, called by a step that has brought the places to p,  *)
(* the msearch requests in flight to bs and their number to progress.       *)

\* _processSingleQueue keeps the batches disjoint and the counter exact.
LEMMA ProcessInvariant ==
    ASSUME TypeOK, NEW call \in BOOLEAN, NEW s \in Strategies, NEW p \in PlaceType,
           NEW progress \in Nat, NEW bs,
           item' \in [Requests -> Definitions],
           Flying(bs, p), Counted(progress, s, bs),
           \A t \in Strategies \ {s} : Counted(requestInProgress[t], t, bs),
           ProcessSingleQueue(call, s, p, progress, bs)
    PROVE  /\ place' \in PlaceType
           /\ \A r \in Requests : p[r].at # "queued" => place'[r] = p[r]
           /\ sentCounter' \in [Requests -> Nat] /\ sent' \in [Ids -> Nat]
           /\ requestInProgress' \in [Strategies -> Nat]
           /\ Flying(batches', place')
           /\ \A t \in Strategies : Counted(requestInProgress'[t], t, batches')
<1> DEFINE q == Queue(item', p, s, generation)
           ready == IF call /\ MayStart(s, progress) THEN Taken(item', p, s, q, cache') ELSE {}
           toProcess == {r \in ready : item'[r].query \notin cache'}
           new == [strategy |-> s, array |-> generation, items |-> toProcess]
<1>1. ready \in SUBSET q /\ q \in SUBSET Requests /\ \A r \in q : p[r].at = "queued"
    BY DEF Taken, Queue
<1>2. place' = [r \in Requests |->
          IF r \in toProcess THEN [p[r] EXCEPT !.at = "sent"]
          ELSE IF r \in ready THEN [p[r] EXCEPT !.at = "answered"] ELSE p[r]]
    BY DEF ProcessSingleQueue
<1>3. place' \in PlaceType
    BY <1>2 DEF PlaceType, At
<1>4. \A r \in Requests : p[r].at # "queued" => place'[r] = p[r]
    BY <1>1, <1>2
<1>5. sentCounter' \in [Requests -> Nat] /\ sent' \in [Ids -> Nat]
    <2> DEFINE sameId(r) == {a \in toProcess : item'[a].id = item'[r].id /\ ~Before(item', p, r, a)}
               ofId(i) == {r \in toProcess : item'[r].id = i}
    <2>1. \A r : Cardinality(sameId(r)) \in Nat
        BY <1>1, RequestsFinite
    <2>2. \A i : Cardinality(ofId(i)) \in Nat
        BY <1>1, RequestsFinite
    <2>3. sentCounter' = [r \in Requests |->
              IF r \in toProcess THEN sent[item'[r].id] + Cardinality(sameId(r))
              ELSE sentCounter[r]]
        BY DEF ProcessSingleQueue
    <2>4. sent' = [i \in Ids |-> sent[i] + Cardinality(ofId(i))]
        BY DEF ProcessSingleQueue
    <2>5. \A r \in Requests : sent[item'[r].id] \in Nat
        BY DEF TypeOK, Definitions
    <2> HIDE DEF sameId, ofId, toProcess
    <2> QED BY <2>1, <2>2, <2>3, <2>4, <2>5 DEF TypeOK
<1>6. CASE toProcess = {}
    <2>1. batches' = bs /\ requestInProgress' = [requestInProgress EXCEPT ![s] = progress]
        BY <1>6 DEF ProcessSingleQueue
    <2>2. Flying(batches', place')
        BY <2>1, <1>1, <1>4 DEF Flying, Batches
    <2>3. requestInProgress' \in [Strategies -> Nat]
        BY <2>1 DEF TypeOK
    <2>4. \A t \in Strategies : Counted(requestInProgress'[t], t, batches')
        BY <2>1 DEF TypeOK
    <2> QED BY <1>3, <1>4, <1>5, <2>2, <2>3, <2>4
<1>7. CASE toProcess # {}
    <2>1. /\ batches' = bs \cup {new}
          /\ requestInProgress' = [requestInProgress EXCEPT ![s] = progress + 1]
        BY <1>7 DEF ProcessSingleQueue
    <2>2. progress < ParallelRequests[s]
        BY <1>7 DEF MayStart
    <2>3. new \in Batches
        BY <1>1 DEF Batches, TypeOK
    <2>4. \A b \in bs : b.items \cap toProcess = {} /\ b.items \subseteq Requests
        BY <1>1 DEF Flying, Batches
    <2>5. new \notin bs
        BY <1>7, <2>4
    <2>6. \A r \in toProcess : place'[r].at = "sent"
        BY <1>1, <1>2 DEF PlaceType
    <2>7. IsFiniteSet(batches')
        BY <2>1, FS_AddElement DEF Flying
    <2>8. \A b \in bs : b.items # {} /\ \A r \in b.items : place'[r].at = "sent"
        BY <2>4, <1>4 DEF Flying
    <2>9. Flying(batches', place')
        <3>1. \A b \in batches' : b.items # {} /\ \A r \in b.items : place'[r].at = "sent"
            BY <1>7, <2>1, <2>6, <2>8
        <3>2. \A b, c \in batches' : b # c => b.items \cap c.items = {}
            <4>1. new.items = toProcess
                OBVIOUS
            <4> HIDE DEF new, toProcess
            <4> QED BY <2>1, <2>4, <4>1 DEF Flying
        <3>3. batches' \subseteq Batches
            BY <2>1, <2>3 DEF Flying
        <3> QED BY <3>1, <3>2, <3>3, <2>7 DEF Flying
    <2>10. \A t \in Strategies : Counted(requestInProgress'[t], t, batches')
        <3>1. IsFiniteSet(Of(s, bs))
            BY FS_Subset DEF Of, Flying
        <3>2. Of(s, batches') = Of(s, bs) \cup {new}
            BY <2>1 DEF Of
        <3>3. Cardinality(Of(s, batches')) = progress + 1
            <4> HIDE DEF new
            <4>1. new \notin Of(s, bs)
                BY <2>5 DEF Of
            <4> QED BY <3>1, <3>2, <4>1, FS_AddElement DEF Counted
        <3>4. \A t \in Strategies \ {s} : Of(t, batches') = Of(t, bs)
            BY <2>1 DEF Of
        <3>5. requestInProgress'[s] = progress + 1
              /\ \A t \in Strategies \ {s} : requestInProgress'[t] = requestInProgress[t]
            BY <2>1 DEF TypeOK
        <3>6. Counted(requestInProgress'[s], s, batches')
            BY <3>3, <3>5, <2>2, StrategyAssumption DEF Counted
        <3>7. \A t \in Strategies \ {s} : Counted(requestInProgress'[t], t, batches')
            BY <3>4, <3>5 DEF Counted
        <3> QED BY <3>6, <3>7
    <2>11. requestInProgress' \in [Strategies -> Nat]
        BY <2>1 DEF TypeOK
    <2> QED BY <1>3, <1>4, <1>5, <2>9, <2>10, <2>11
<1> QED BY <1>6, <1>7

\* Settling b: without b, and with places p that differ from place on b's objects only,
\* the batches left in flight are counted by the decremented counter.
LEMMA SettleInvariant ==
    ASSUME IInv, NEW b \in batches, NEW p \in PlaceType,
           \A r \in Requests \ b.items : p[r] = place[r]
    PROVE  /\ b.strategy \in Strategies /\ b.items \subseteq Requests
           /\ b.array \in 0 .. MaxFlushes
           /\ \A r \in b.items : place[r].at = "sent" /\ r <= asked
           /\ Decrement(b) \in Nat
           /\ Flying(batches \ {b}, p)
           /\ Counted(Decrement(b), b.strategy, batches \ {b})
           /\ \A t \in Strategies \ {b.strategy} :
                 Counted(requestInProgress[t], t, batches \ {b})
<1> DEFINE s == b.strategy
           bs == batches \ {b}
<1>1. b \in Batches /\ s \in Strategies /\ b.items \subseteq Requests /\ b.array \in 0 .. MaxFlushes
    BY DEF IInv, Flying, Batches
<1>2. \A r \in b.items : place[r].at = "sent" /\ r <= asked
    BY <1>1 DEF IInv, Flying, TypeOK, Requests
<1>3. IsFiniteSet(Of(s, batches)) /\ b \in Of(s, batches)
    BY FS_Subset DEF Of, Flying, IInv
<1>4. Of(s, bs) = Of(s, batches) \ {b}
    BY DEF Of
<1>5. /\ Cardinality(Of(s, bs)) = Cardinality(Of(s, batches)) - 1
      /\ IsFiniteSet(Of(s, bs))
    BY <1>3, <1>4, FS_RemoveElement
<1>6. Cardinality(Of(s, bs)) \in Nat
    BY <1>5, FS_CardinalityType
<1>7. Cardinality(Of(s, batches)) = requestInProgress[s]
      /\ requestInProgress[s] <= ParallelRequests[s] /\ ParallelRequests[s] \in Nat
      /\ requestInProgress[s] \in Nat
    BY <1>1, StrategyAssumption DEF IInv, Counted, TypeOK
<1>8. Decrement(b) \in Nat /\ Counted(Decrement(b), s, bs)
    BY <1>5, <1>6, <1>7 DEF Decrement, Counted
<1>9. Flying(bs, p)
    <2>1. IsFiniteSet(bs)
        BY FS_RemoveElement DEF IInv, Flying
    <2>2. \A c \in bs : c.items \cap b.items = {} /\ c.items \subseteq Requests
        BY DEF IInv, Flying, Batches
    <2>3. \A c \in bs : c.items # {} /\ \A r \in c.items : p[r].at = "sent"
        BY <2>2 DEF IInv, Flying
    <2> QED BY <2>1, <2>3 DEF IInv, Flying
<1>10. \A t \in Strategies \ {s} : Counted(requestInProgress[t], t, bs)
    <2>1. \A t \in Strategies \ {s} : Of(t, bs) = Of(t, batches)
        BY DEF Of
    <2> QED BY <2>1 DEF IInv, Counted
<1> QED BY <1>1, <1>2, <1>8, <1>9, <1>10

-----------------------------------------------------------------------------
(* The inductive invariant.                                                *)

\* There is a definition to start with.
LEMMA DefinitionsNotEmpty == (CHOOSE d \in Definitions : TRUE) \in Definitions
<1>1. PICK i \in Ids, u \in Queries : TRUE
    BY WorkloadAssumption
<1>2. [id |-> i, query |-> u, kind |-> "button"] \in Definitions
    BY DEF Definitions
<1> QED BY <1>2

\* The invariant holds when the service is made.
LEMMA InitInvariant == Init => IInv
<1> SUFFICES ASSUME Init PROVE IInv
    OBVIOUS
<1>1. TypeOK
    BY DefinitionsNotEmpty, WorkloadAssumption DEF Init, TypeOK, Requests, At
<1>2. Flying(batches, place)
    BY FS_EmptySet DEF Init, Flying
<1>3. \A s \in Strategies : Counted(requestInProgress[s], s, batches)
    BY FS_EmptySet, StrategyAssumption DEF Init, Counted, Of
<1>4. \A r \in Requests : r > asked => place[r].at = "unasked"
    BY DEF Init
<1> QED BY <1>1, <1>2, <1>3, <1>4 DEF IInv

\* New objects are pushed on the queue of their strategy, and no other object moves.
LEMMA PushInvariant ==
    ASSUME IInv, NEW kind \in {"dashboard", "button"}, NEW n \in 0 .. MaxCall,
           NEW defs \in Calls(n), AddToQueue(kind, n, defs)
    PROVE  /\ item' \in [Requests -> Definitions]
           /\ asked' \in 0 .. MaxAsked /\ pushes' \in Nat /\ asked <= asked'
           /\ Pushed(n) \in PlaceType
           /\ \A r \in Requests : r > asked' => Pushed(n)[r].at = "unasked"
           /\ \A r \in Requests : place[r].at # "unasked" => Pushed(n)[r] = place[r]
           /\ Flying(batches, Pushed(n))
           /\ \A b \in batches : \A r \in b.items : item'[r] = item[r]
<1>1. n \in Nat /\ asked \in Nat /\ MaxAsked \in Nat /\ pushes \in Nat
    BY WorkloadAssumption DEF IInv, TypeOK
<1>2. asked' \in 0 .. MaxAsked /\ pushes' \in Nat /\ asked <= asked' /\ asked' = asked + n
    BY <1>1 DEF AddToQueue
<1>3. item' \in [Requests -> Definitions]
    <2>1. \A r \in asked + 1 .. asked + n : r - asked \in 1 .. n
        BY <1>1
    <2>2. \A k \in 1 .. n : defs[k].id \in Ids /\ defs[k].query \in Queries
        BY DEF Calls
    <2> QED BY <2>1, <2>2 DEF AddToQueue, IInv, TypeOK, Definitions
<1>4. Pushed(n) \in PlaceType
    <2>1. \A r \in asked + 1 .. asked + n : pushes + r - asked \in Nat
        BY <1>1
    <2>2. generation \in 0 .. MaxFlushes /\ place \in PlaceType
        BY DEF IInv, TypeOK, PlaceType
    <2> QED BY <2>1, <2>2 DEF Pushed, PlaceType, At
<1>5. \A r \in Requests : r > asked' => Pushed(n)[r].at = "unasked"
    BY <1>1, <1>2 DEF Pushed, IInv, Requests
<1>6. \A r \in Requests : place[r].at # "unasked" => Pushed(n)[r] = place[r]
    BY <1>1 DEF Pushed, IInv, Requests
<1>7. Flying(batches, Pushed(n))
    BY <1>6 DEF IInv, Flying, Batches
<1>8. \A b \in batches : \A r \in b.items : item'[r] = item[r]
    <2>1. \A b \in batches : \A r \in b.items : r \in Requests /\ place[r].at = "sent"
        BY DEF IInv, Flying, Batches
    <2>2. \A r \in Requests : place[r].at = "sent" => r <= asked
        BY <1>1 DEF IInv, Requests
    <2> QED BY <1>1, <2>1, <2>2 DEF AddToQueue
<1> QED BY <1>2, <1>3, <1>4, <1>5, <1>6, <1>7, <1>8

\* getMetaForDashboards and getMetaForRelationalButtons keep it.
LEMMA GetMetaInvariant ==
    ASSUME IInv, NEW kind \in {"dashboard", "button"}, NEW s \in Strategies, GetMeta(kind, s)
    PROVE  IInv'
<1>1. PICK n \in 0 .. MaxCall : \E defs \in Calls(n) :
          /\ AddToQueue(kind, n, defs)
          /\ UNCHANGED <<generation, retried, called, cache, thrown>>
          /\ ProcessSingleQueue(TRUE, s, Pushed(n), requestInProgress[s], batches)
    BY DEF GetMeta
<1>2. PICK defs \in Calls(n) : AddToQueue(kind, n, defs)
    BY <1>1
<1>3. /\ item' \in [Requests -> Definitions]
      /\ asked' \in 0 .. MaxAsked /\ pushes' \in Nat
      /\ Pushed(n) \in PlaceType
      /\ \A r \in Requests : r > asked' => Pushed(n)[r].at = "unasked"
      /\ Flying(batches, Pushed(n))
    BY <1>2, PushInvariant
<1>4. /\ TypeOK /\ requestInProgress[s] \in Nat
      /\ Counted(requestInProgress[s], s, batches)
      /\ \A t \in Strategies \ {s} : Counted(requestInProgress[t], t, batches)
    BY DEF IInv, TypeOK
<1>5. /\ place' \in PlaceType
      /\ \A r \in Requests : Pushed(n)[r].at # "queued" => place'[r] = Pushed(n)[r]
      /\ sentCounter' \in [Requests -> Nat] /\ sent' \in [Ids -> Nat]
      /\ requestInProgress' \in [Strategies -> Nat]
      /\ Flying(batches', place')
      /\ \A t \in Strategies : Counted(requestInProgress'[t], t, batches')
    BY <1>1, <1>3, <1>4, ProcessInvariant
<1>6. TypeOK'
    BY <1>1, <1>3, <1>4, <1>5 DEF TypeOK, PlaceType, Flying
<1>7. \A r \in Requests : r > asked' => place'[r].at = "unasked"
    BY <1>3, <1>5
<1> QED BY <1>5, <1>6, <1>7 DEF IInv

\* The two ways of settling b: p and the counters are typed, and the step ends with
\* _processSingleQueue.
LEMMA SettleStepInvariant ==
    ASSUME IInv, NEW b \in batches, NEW call \in BOOLEAN, NEW p \in PlaceType,
           \A r \in Requests \ b.items : p[r] = place[r],
           UNCHANGED <<asked, item, generation, thrown>>,
           pushes' \in Nat, retried' \in [Requests -> Nat], called' \in [Ids -> Nat],
           cache' \in SUBSET Queries,
           ProcessSingleQueue(call, b.strategy, p, Decrement(b), batches \ {b})
    PROVE  IInv'
<1> DEFINE s == b.strategy
<1>1. /\ s \in Strategies /\ b.items \subseteq Requests
      /\ \A r \in b.items : place[r].at = "sent" /\ r <= asked
      /\ Decrement(b) \in Nat
      /\ Flying(batches \ {b}, p)
      /\ Counted(Decrement(b), s, batches \ {b})
      /\ \A t \in Strategies \ {s} : Counted(requestInProgress[t], t, batches \ {b})
    BY SettleInvariant
<1>2. TypeOK /\ item' \in [Requests -> Definitions]
    BY DEF IInv, TypeOK
<1>3. /\ place' \in PlaceType
      /\ \A r \in Requests : p[r].at # "queued" => place'[r] = p[r]
      /\ sentCounter' \in [Requests -> Nat] /\ sent' \in [Ids -> Nat]
      /\ requestInProgress' \in [Strategies -> Nat]
      /\ Flying(batches', place')
      /\ \A t \in Strategies : Counted(requestInProgress'[t], t, batches')
    <2> HIDE DEF s
    <2> QED BY <1>1, <1>2, ProcessInvariant DEF s
<1>4. TypeOK'
    BY <1>2, <1>3 DEF TypeOK, PlaceType, Flying
<1>5. \A r \in Requests : r > asked' => place'[r].at = "unasked"
    <2>1. \A r \in Requests : r > asked => r \notin b.items
        BY <1>1 DEF IInv, TypeOK, Requests
    <2> QED BY <1>3, <2>1 DEF IInv
<1> QED BY <1>3, <1>4, <1>5 DEF IInv

\* The answer to an msearch keeps it.
LEMMA RespondInvariant ==
    ASSUME IInv, NEW b \in batches, NEW errors \in SUBSET b.items, Responded(b, errors)
    PROVE  IInv'
<1> DEFINE p == [r \in Requests |->
                    IF r \notin b.items THEN place[r]
                    ELSE IF Outdated(b, r) THEN [place[r] EXCEPT !.at = "outdated"]
                    ELSE [place[r] EXCEPT !.at = "answered"]]
           ofId(i) == {r \in b.items : item[r].id = i}
<1>1. p \in PlaceType /\ \A r \in Requests \ b.items : p[r] = place[r]
    BY DEF IInv, TypeOK, PlaceType, At
<1>2. Woken(b, p) \in BOOLEAN
    BY DEF Woken
<1>3. b.items \subseteq Requests
    BY DEF IInv, Flying, Batches
<1>4. called' \in [Ids -> Nat]
    <2>1. \A i : Cardinality(ofId(i)) \in Nat
        BY <1>3, RequestsFinite
    <2>2. called' = [i \in Ids |-> called[i] + Cardinality(ofId(i))]
        BY DEF Responded
    <2> HIDE DEF ofId
    <2> QED BY <2>1, <2>2 DEF IInv, TypeOK
<1>5. cache' \in SUBSET Queries
    BY <1>3 DEF Responded, IInv, TypeOK, Definitions
<1>6. /\ UNCHANGED <<asked, item, generation, thrown>>
      /\ pushes' \in Nat /\ retried' \in [Requests -> Nat]
      /\ ProcessSingleQueue(Woken(b, p), b.strategy, p, Decrement(b), batches \ {b})
    BY DEF Responded, IInv, TypeOK
<1> HIDE DEF p
<1> QED BY <1>1, <1>2, <1>4, <1>5, <1>6, SettleStepInvariant

\* The rejection of an msearch keeps it.
LEMMA FailInvariant ==
    ASSUME IInv, NEW b \in batches, Fail(b)
    PROVE  IInv'
<1> DEFINE again == Again(b)
           nth(r) == Rank(item, place, again, r) + 1
           p == [r \in Requests |->
                    IF r \in again
                    THEN [at |-> "queued", array |-> b.array, stamp |-> pushes + nth(r)]
                    ELSE IF r \in b.items THEN [place[r] EXCEPT !.at = "failed"]
                    ELSE place[r]]
<1>1. /\ b.items \subseteq Requests /\ b.array \in 0 .. MaxFlushes
      /\ again \in SUBSET b.items /\ again \in SUBSET Requests
    BY DEF IInv, Flying, Batches, Again
<1>2. \A r : nth(r) \in Nat
    BY <1>1, RequestsFinite DEF Rank
<1>3. p \in PlaceType /\ \A r \in Requests \ b.items : p[r] = place[r]
    <2>1. \A r \in Requests : pushes + nth(r) \in Nat
        BY <1>2 DEF IInv, TypeOK
    <2> HIDE DEF nth, again
    <2> QED BY <1>1, <2>1 DEF IInv, TypeOK, PlaceType, At
<1>4. Woken(b, p) \in BOOLEAN
    BY DEF Woken
<1>5. Cardinality(again) \in Nat
    BY <1>1, RequestsFinite
<1>6. /\ UNCHANGED <<asked, item, generation, thrown>>
      /\ pushes' \in Nat /\ retried' \in [Requests -> Nat] /\ called' \in [Ids -> Nat]
      /\ cache' \in SUBSET Queries
      /\ ProcessSingleQueue(Woken(b, p), b.strategy, p, Decrement(b), batches \ {b})
    BY <1>5 DEF Fail, IInv, TypeOK
<1> HIDE DEF p
<1> QED BY <1>3, <1>4, <1>6, SettleStepInvariant

\* A refused call, the flushes and the cache keep it.
LEMMA OtherInvariant ==
    ASSUME IInv,
           \/ \E kind \in {"dashboard", "button"} : GetMetaThrows(kind)
           \/ FlushQueues \/ FlushRelationalButtonsFromQueue \/ Expire
    PROVE  IInv'
<1>1. CASE \E kind \in {"dashboard", "button"} : GetMetaThrows(kind)
    <2>1. PICK kind \in {"dashboard", "button"}, n \in 0 .. MaxCall :
              \E defs \in Calls(n) : AddToQueue(kind, n, defs) /\ place' = Pushed(n)
        BY <1>1 DEF GetMetaThrows
    <2>2. PICK defs \in Calls(n) : AddToQueue(kind, n, defs) /\ place' = Pushed(n)
        BY <2>1
    <2>3. /\ item' \in [Requests -> Definitions]
          /\ asked' \in 0 .. MaxAsked /\ pushes' \in Nat
          /\ place' \in PlaceType
          /\ \A r \in Requests : r > asked' => place'[r].at = "unasked"
          /\ Flying(batches, place')
        BY <2>2, PushInvariant
    <2>4. /\ UNCHANGED <<generation, retried, sentCounter, sent, called, cache,
                         requestInProgress, batches>>
          /\ thrown' \in 0 .. MaxThrown
        BY <1>1, WorkloadAssumption DEF GetMetaThrows, IInv, TypeOK
    <2> QED BY <2>3, <2>4 DEF IInv, TypeOK, PlaceType
<1>2. CASE FlushQueues
    <2>1. generation' \in 0 .. MaxFlushes
        BY <1>2, WorkloadAssumption DEF FlushQueues, IInv, TypeOK
    <2> QED BY <1>2, <2>1 DEF FlushQueues, IInv, TypeOK
<1>3. CASE FlushRelationalButtonsFromQueue
    <2>1. place' = [r \in Requests |->
              IF r \in ButtonsInQueue THEN [place[r] EXCEPT !.at = "flushed"] ELSE place[r]]
        BY <1>3 DEF FlushRelationalButtonsFromQueue
    <2>2. place' \in PlaceType
        BY <2>1 DEF IInv, TypeOK, PlaceType, At
    <2>3. \A r \in Requests : place[r].at # "queued" => place'[r] = place[r]
        BY <2>1 DEF ButtonsInQueue
    <2>4. Flying(batches, place')
        BY <2>3 DEF IInv, Flying, Batches
    <2>5. \A r \in Requests : r > asked => place'[r].at = "unasked"
        BY <2>3 DEF IInv
    <2> QED BY <1>3, <2>2, <2>4, <2>5 DEF FlushRelationalButtonsFromQueue, IInv, TypeOK, PlaceType
<1>4. CASE Expire
    BY <1>4 DEF Expire, IInv, TypeOK
<1> QED BY <1>1, <1>2, <1>3, <1>4

\* Every step of the service keeps it.
LEMMA NextInvariant == IInv /\ [Next]_vars => IInv'
<1> SUFFICES ASSUME IInv, [Next]_vars PROVE IInv'
    OBVIOUS
<1>1. CASE GetMetaForDashboards
    BY <1>1, GetMetaInvariant DEF GetMetaForDashboards, Strategies
<1>2. CASE GetMetaForRelationalButtons
    BY <1>2, GetMetaInvariant DEF GetMetaForRelationalButtons, Strategies
<1>3. CASE \E b \in batches : Respond(b)
    BY <1>3, RespondInvariant DEF Respond
<1>4. CASE \E b \in batches : Fail(b)
    BY <1>4, FailInvariant
<1>5. CASE \/ \E kind \in {"dashboard", "button"} : GetMetaThrows(kind)
           \/ FlushQueues \/ FlushRelationalButtonsFromQueue \/ Expire
    BY <1>5, OtherInvariant
<1>6. CASE UNCHANGED vars
    BY <1>6 DEF vars, IInv, TypeOK
<1> QED BY <1>1, <1>2, <1>3, <1>4, <1>5, <1>6 DEF Next

\* The inductive invariant holds of every behaviour of the service.
THEOREM Invariance == Spec => []IInv
<1> QED BY InitInvariant, NextInvariant, PTL DEF Spec

\* The variables of the service keep their types: in particular the counter of msearch
\* requests in flight is never negative.
THEOREM TypeCorrect == Spec => []TypeOK
<1>1. IInv => TypeOK
    BY DEF IInv
<1> QED BY <1>1, Invariance, PTL

\* The counter of msearch requests in flight is exact, and within parallelRequests, for
\* every workload, strategy, failure, retry and flush.
THEOREM InProgressExact == Spec => []InProgressCounted
<1>1. IInv => InProgressCounted
    BY DEF IInv, Counted, Of, InProgressCounted
<1> QED BY <1>1, Invariance, PTL

-----------------------------------------------------------------------------
(* No lost wake-up while nothing was flushed and no call was refused.      *)

AwakeInv ==
    /\ IInv
    /\ \A b \in batches : /\ b.array <= generation
                          /\ \A r \in b.items : StrategyOf(item[r]) = b.strategy
    /\ QueueAwake

\* _processSingleQueue, called or not, wakes its own queue, and leaves the others and the
\* old msearch requests alone.
Wakes(call, s, p, progress, bs) ==
    /\ \A b \in batches' :
          b \in bs \/ /\ b.array = generation
                      /\ \A r \in b.items : StrategyOf(item'[r]) = b.strategy
    /\ \A t \in Strategies \ {s} : requestInProgress'[t] = requestInProgress[t]
    /\ \A t \in Strategies \ {s} : \A g :
          Queue(item', place', t, g) \subseteq Queue(item', p, t, g)
    /\ ~call => place' = p
    /\ call /\ Queue(item', place', s, generation) # {} => requestInProgress'[s] > 0

\* _processSingleQueue leaves no queue with objects and without an msearch.
LEMMA ProcessWakes ==
    ASSUME TypeOK, NEW call \in BOOLEAN, NEW s \in Strategies, NEW p \in PlaceType,
           NEW progress \in Nat, NEW bs,
           ProcessSingleQueue(call, s, p, progress, bs)
    PROVE  Wakes(call, s, p, progress, bs)
<1> DEFINE q == Queue(item', p, s, generation)
           ready == IF call /\ MayStart(s, progress) THEN Taken(item', p, s, q, cache') ELSE {}
           toProcess == {r \in ready : item'[r].query \notin cache'}
           new == [strategy |-> s, array |-> generation, items |-> toProcess]
<1>1. place' = [r \in Requests |->
          IF r \in toProcess THEN [p[r] EXCEPT !.at = "sent"]
          ELSE IF r \in ready THEN [p[r] EXCEPT !.at = "answered"] ELSE p[r]]
    BY DEF ProcessSingleQueue
<1>2. batches' = bs \/ batches' = bs \cup {new}
    BY DEF ProcessSingleQueue
<1>3. requestInProgress' = [requestInProgress EXCEPT
          ![s] = IF toProcess = {} THEN progress ELSE progress + 1]
    BY DEF ProcessSingleQueue
<1>4. \A r \in Requests : place'[r] = p[r] \/ place'[r].at \in {"sent", "answered"}
    BY <1>1 DEF PlaceType
<1>5. \A t \in Strategies : \A g : Queue(item', place', t, g) \subseteq Queue(item', p, t, g)
    BY <1>4 DEF Queue
<1>6. ~call => place' = p /\ toProcess = {}
    BY <1>1 DEF PlaceType
<1>7. ASSUME call, Queue(item', place', s, generation) # {}, toProcess = {}
      PROVE  progress > 0
    <2>1. ParallelRequests[s] \in Nat \ {0}
        BY StrategyAssumption
    <2>2. CASE MayStart(s, progress)
        <3>1. ready = Taken(item', p, s, q, cache') /\ q \in SUBSET Requests
            BY <1>7, <2>2 DEF Queue
        <3>2. \A r \in Taken(item', p, s, q, cache') : item'[r].query \in cache'
            BY <1>7, <3>1
        <3>3. ready = q
            BY <3>1, <3>2, TakenSendsOrEmpties
        <3>4. PICK r \in Requests : r \in Queue(item', place', s, generation)
            BY <1>7 DEF Queue
        <3>5. r \in q
            BY <3>4, <1>5
        <3>6. place'[r].at = "answered"
            BY <3>3, <3>5, <1>7, <1>1 DEF PlaceType
        <3> QED BY <3>4, <3>6 DEF Queue
    <2>3. CASE ~MayStart(s, progress)
        BY <2>1, <2>3 DEF MayStart
    <2> QED BY <2>2, <2>3
<1>8. requestInProgress'[s] = IF toProcess = {} THEN progress ELSE progress + 1
    BY <1>3 DEF TypeOK
<1>9. \A t \in Strategies \ {s} : requestInProgress'[t] = requestInProgress[t]
    BY <1>3 DEF TypeOK
<1>10. \A b \in batches' :
          b \in bs \/ /\ b.array = generation
                      /\ \A r \in b.items : StrategyOf(item'[r]) = b.strategy
    <2>1. \A r \in toProcess : StrategyOf(item'[r]) = s
        BY DEF Taken, Queue
    <2> QED BY <1>2, <2>1
<1> HIDE DEF toProcess, ready
<1> QED BY <1>5, <1>6, <1>7, <1>8, <1>9, <1>10 DEF Wakes

\* A call leaves no queue asleep.
LEMMA GetMetaAwake ==
    ASSUME AwakeInv, NEW kind \in {"dashboard", "button"}, NEW s \in Strategies,
           \A d \in Definitions : d.kind = kind => StrategyOf(d) = s,
           GetMeta(kind, s)
    PROVE  AwakeInv'
<1>1. PICK n \in 0 .. MaxCall : \E defs \in Calls(n) :
          /\ AddToQueue(kind, n, defs)
          /\ UNCHANGED <<generation, retried, called, cache, thrown>>
          /\ ProcessSingleQueue(TRUE, s, Pushed(n), requestInProgress[s], batches)
    BY DEF GetMeta
<1>2. PICK defs \in Calls(n) : AddToQueue(kind, n, defs)
    BY <1>1
<1>3. IInv' /\ Pushed(n) \in PlaceType /\ item' \in [Requests -> Definitions]
    BY <1>2, PushInvariant, GetMetaInvariant DEF AwakeInv
<1>4. TypeOK /\ requestInProgress[s] \in Nat
    BY DEF AwakeInv, IInv, TypeOK
<1>5. Wakes(TRUE, s, Pushed(n), requestInProgress[s], batches)
    <2>1. ProcessSingleQueue(TRUE, s, Pushed(n), requestInProgress[s], batches)
        BY <1>1
    <2> QED BY <1>3, <1>4, <2>1, ProcessWakes
<1>6. \A b \in batches' : /\ b.array <= generation'
                          /\ \A r \in b.items : StrategyOf(item'[r]) = b.strategy
    <2>1. \A b \in batches : \A r \in b.items : item'[r] = item[r]
        BY <1>2, PushInvariant DEF AwakeInv
    <2> QED BY <1>1, <1>4, <1>5, <2>1 DEF AwakeInv, TypeOK, Wakes
<1>7. \A t \in Strategies \ {s} : \A g : Queue(item', Pushed(n), t, g) \subseteq Queue(item, place, t, g)
    <2>1. ASSUME NEW r \in asked + 1 .. asked + n, r \in Requests PROVE StrategyOf(item'[r]) = s
        <3>1. item'[r].kind = kind /\ item'[r] \in Definitions
            BY <1>2, <1>3, <2>1 DEF AddToQueue
        <3> QED BY <3>1
    <2>2. \A r \in Requests : r \notin asked + 1 .. asked + n =>
              item'[r] = item[r] /\ Pushed(n)[r] = place[r]
        BY <1>2 DEF AddToQueue, Pushed
    <2> QED BY <2>1, <2>2 DEF Queue
<1>8. QueueAwake'
    <2>1. \A t \in Strategies \ {s} :
              /\ requestInProgress'[t] = requestInProgress[t]
              /\ Queue(item', place', t, generation) \subseteq Queue(item, place, t, generation)
        BY <1>5, <1>7 DEF Wakes
    <2>2. Queue(item', place', s, generation) # {} => requestInProgress'[s] > 0
        BY <1>5 DEF Wakes
    <2>3. generation' = generation /\ thrown' = thrown
        BY <1>1
    <2> QED BY <2>1, <2>2, <2>3 DEF AwakeInv, QueueAwake
<1> QED BY <1>3, <1>6, <1>8 DEF AwakeInv

\* A settled msearch looks at the array of its closure, which is the array of
\* this.queues as long as nothing was flushed.
LEMMA SettleAwake ==
    ASSUME AwakeInv, IInv', NEW b \in batches, NEW p \in PlaceType,
           \A r \in Requests \ b.items : p[r] = place[r],
           UNCHANGED <<item, generation, thrown>>,
           ProcessSingleQueue(Woken(b, p), b.strategy, p, Decrement(b), batches \ {b})
    PROVE  AwakeInv'
<1> DEFINE s == b.strategy
<1>1. s \in Strategies /\ Decrement(b) \in Nat /\ Woken(b, p) \in BOOLEAN
    BY SettleInvariant DEF AwakeInv, Woken
<1>2. TypeOK
    BY DEF AwakeInv, IInv
<1>3. Wakes(Woken(b, p), s, p, Decrement(b), batches \ {b})
    <2> HIDE DEF s
    <2> QED BY <1>1, <1>2, ProcessWakes DEF s
<1>4. \A c \in batches' : /\ c.array <= generation'
                          /\ \A r \in c.items : StrategyOf(item'[r]) = c.strategy
    BY <1>2, <1>3 DEF AwakeInv, TypeOK, Wakes
<1>5. \A t \in Strategies \ {s} : \A g : Queue(item', p, t, g) \subseteq Queue(item, place, t, g)
    BY DEF Queue, AwakeInv
<1>6. ASSUME generation = 0, ~Woken(b, p) PROVE Queue(item', place', s, generation) = {}
    <2>1. b.array = 0
        BY <1>6 DEF AwakeInv, IInv, Flying, Batches
    <2> QED BY <1>3, <1>6, <2>1 DEF Woken, Wakes
<1>7. QueueAwake'
    <2>1. \A t \in Strategies \ {s} :
              /\ requestInProgress'[t] = requestInProgress[t]
              /\ Queue(item', place', t, generation) \subseteq Queue(item, place, t, generation)
        BY <1>3, <1>5 DEF Wakes
    <2>2. generation = 0 /\ Queue(item', place', s, generation) # {} => requestInProgress'[s] > 0
        BY <1>1, <1>3, <1>6 DEF Wakes
    <2> HIDE DEF s
    <2> QED BY <2>1, <2>2 DEF AwakeInv, QueueAwake
<1> QED BY <1>4, <1>7 DEF AwakeInv

\* No step leaves a queue asleep, while nothing was flushed or refused.
LEMMA AwakeStep == AwakeInv /\ [Next]_vars => AwakeInv'
<1> SUFFICES ASSUME AwakeInv, [Next]_vars PROVE AwakeInv'
    OBVIOUS
<1>0. IInv /\ IInv'
    BY NextInvariant DEF AwakeInv
<1>1. CASE GetMetaForDashboards
    BY <1>1, GetMetaAwake DEF GetMetaForDashboards, Strategies, StrategyOf
<1>2. CASE GetMetaForRelationalButtons
    BY <1>2, GetMetaAwake DEF GetMetaForRelationalButtons, Strategies, StrategyOf
<1>3. ASSUME NEW b \in batches, NEW errors \in SUBSET b.items, Responded(b, errors)
      PROVE  AwakeInv'
    <2> DEFINE p == [r \in Requests |->
                        IF r \notin b.items THEN place[r]
                        ELSE IF Outdated(b, r) THEN [place[r] EXCEPT !.at = "outdated"]
                        ELSE [place[r] EXCEPT !.at = "answered"]]
    <2>1. p \in PlaceType /\ \A r \in Requests \ b.items : p[r] = place[r]
        BY <1>0 DEF IInv, TypeOK, PlaceType, At
    <2>2. /\ UNCHANGED <<item, generation, thrown>>
          /\ ProcessSingleQueue(Woken(b, p), b.strategy, p, Decrement(b), batches \ {b})
        BY <1>3 DEF Responded
    <2> HIDE DEF p
    <2> QED BY <1>0, <2>1, <2>2, SettleAwake
<1>4. ASSUME NEW b \in batches, Fail(b)
      PROVE  AwakeInv'
    <2> DEFINE again == Again(b)
               nth(r) == Rank(item, place, again, r) + 1
               p == [r \in Requests |->
                        IF r \in again
                        THEN [at |-> "queued", array |-> b.array, stamp |-> pushes + nth(r)]
                        ELSE IF r \in b.items THEN [place[r] EXCEPT !.at = "failed"]
                        ELSE place[r]]
    <2>1. b.array \in 0 .. MaxFlushes /\ again \in SUBSET b.items /\ again \in SUBSET Requests
        BY <1>0 DEF IInv, Flying, Batches, Again
    <2>2. \A r \in Requests : pushes + nth(r) \in Nat
        BY <1>0, <2>1, RequestsFinite DEF Rank, IInv, TypeOK
    <2>3. p \in PlaceType /\ \A r \in Requests \ b.items : p[r] = place[r]
        <3> HIDE DEF nth, again
        <3> QED BY <1>0, <2>1, <2>2 DEF IInv, TypeOK, PlaceType, At
    <2>4. /\ UNCHANGED <<item, generation, thrown>>
          /\ ProcessSingleQueue(Woken(b, p), b.strategy, p, Decrement(b), batches \ {b})
        BY <1>4 DEF Fail
    <2> HIDE DEF p
    <2> QED BY <1>0, <2>3, <2>4, SettleAwake
<1>5. CASE \E kind \in {"dashboard", "button"} : GetMetaThrows(kind)
    <2>1. /\ thrown' = thrown + 1 /\ thrown \in Nat /\ generation' = generation /\ batches' = batches
          /\ generation \in Nat
        BY <1>0, <1>5 DEF GetMetaThrows, IInv, TypeOK
    <2>2. PICK kind \in {"dashboard", "button"}, n \in 0 .. MaxCall :
              \E defs \in Calls(n) : AddToQueue(kind, n, defs)
        BY <1>5 DEF GetMetaThrows
    <2>3. \A b \in batches : \A r \in b.items : item'[r] = item[r]
        BY <1>0, <2>2, PushInvariant
    <2> QED BY <1>0, <2>1, <2>3 DEF AwakeInv, QueueAwake
<1>6. CASE FlushQueues
    <2>1. generation' = generation + 1 /\ generation \in Nat /\ batches' = batches
          /\ item' = item /\ \A b \in batches : b.array \in Nat
        BY <1>0, <1>6 DEF FlushQueues, IInv, TypeOK, Flying, Batches
    <2> QED BY <1>0, <2>1 DEF AwakeInv, QueueAwake
<1>7. CASE FlushRelationalButtonsFromQueue
    <2>1. \A r \in Requests : place'[r] = place[r] \/ place'[r].at = "flushed"
        BY <1>0, <1>7 DEF FlushRelationalButtonsFromQueue, IInv, TypeOK
    <2>2. UNCHANGED <<item, generation, batches, requestInProgress, thrown>>
        BY <1>7 DEF FlushRelationalButtonsFromQueue
    <2>3. \A s \in Strategies : Queue(item', place', s, generation') \subseteq Queue(item, place, s, generation)
        BY <2>1, <2>2 DEF Queue
    <2> QED BY <1>0, <2>2, <2>3 DEF AwakeInv, QueueAwake
<1>8. CASE Expire
    BY <1>0, <1>8 DEF Expire, AwakeInv, QueueAwake
<1>9. CASE UNCHANGED vars
    BY <1>0, <1>9 DEF vars, AwakeInv, QueueAwake
<1> QED BY <1>1, <1>2, <1>3, <1>4, <1>5, <1>6, <1>7, <1>8, <1>9 DEF Next, Respond

\* No queue is asleep when the service is made.
LEMMA AwakeInit == Init => AwakeInv
<1> SUFFICES ASSUME Init PROVE AwakeInv
    OBVIOUS
<1>1. \A s \in Strategies : Queue(item, place, s, generation) = {}
    BY DEF Init, Queue
<1> QED BY <1>1, InitInvariant DEF AwakeInv, QueueAwake, Init

\* As long as no flush has replaced the arrays and no call was refused, an object waits
\* only while an msearch of its strategy is in flight: the return of _processSingleQueue
\* at the parallel limit loses no wake-up.
THEOREM NoLostWakeUp == Spec => []QueueAwake
<1>1. AwakeInv => QueueAwake
    BY DEF AwakeInv
<1> QED BY <1>1, AwakeInit, AwakeStep, PTL DEF Spec

-----------------------------------------------------------------------------
(* The service keeps its promise: every step is a step of MetaPromise, or a *)
(* step that its callers do not see.                                       *)

WaitingIn(p) == {r \in Requests : p[r].at \in {"queued", "sent"}}
SettledIn(p) == {r \in Requests : p[r].at \in Settled}
AbandonedIn(p) == {r \in Requests : p[r].at = "flushed"}

\* Places move from p to q by settling the waiting requests of done.
Moves(p, q, done) ==
    /\ done \subseteq WaitingIn(p)
    /\ WaitingIn(q) = WaitingIn(p) \ done
    /\ SettledIn(q) = SettledIn(p) \cup done
    /\ AbandonedIn(q) = AbandonedIn(p)

\* _processSingleQueue settles what it answers from the cache.
LEMMA ProcessMoves ==
    ASSUME NEW call, NEW s, NEW p \in PlaceType, NEW progress, NEW bs,
           ProcessSingleQueue(call, s, p, progress, bs)
    PROVE  \E done \in SUBSET Requests : Moves(p, place', done)
<1> DEFINE q == Queue(item', p, s, generation)
           ready == IF call /\ MayStart(s, progress) THEN Taken(item', p, s, q, cache') ELSE {}
           toProcess == {r \in ready : item'[r].query \notin cache'}
           done == ready \ toProcess
<1>1. place' = [r \in Requests |->
          IF r \in toProcess THEN [p[r] EXCEPT !.at = "sent"]
          ELSE IF r \in ready THEN [p[r] EXCEPT !.at = "answered"] ELSE p[r]]
    BY DEF ProcessSingleQueue
<1>2. ready \in SUBSET Requests /\ \A r \in ready : p[r].at = "queued"
    BY DEF Taken, Queue
<1>3. toProcess \subseteq ready /\ done \subseteq ready /\ toProcess \cap done = {}
    OBVIOUS
<1>4. /\ \A r \in toProcess : place'[r].at = "sent"
      /\ \A r \in done : place'[r].at = "answered"
      /\ \A r \in Requests \ ready : place'[r] = p[r]
    BY <1>1, <1>2 DEF PlaceType
<1>5. ready = toProcess \cup done
    OBVIOUS
<1> HIDE DEF ready, toProcess, done
<1>6. Moves(p, place', done)
    BY <1>2, <1>3, <1>4, <1>5 DEF Moves, WaitingIn, SettledIn, AbandonedIn, Settled, Executed
<1> QED BY <1>2, <1>3, <1>6

\* A settled msearch moves its objects, and some of the queue, to settled requests.
LEMMA SettlePromise ==
    ASSUME IInv, NEW b \in batches, NEW call, NEW p \in PlaceType,
           \A r \in Requests \ b.items : p[r] = place[r],
           \A r \in b.items : p[r].at \in {"queued"} \cup Settled,
           asked' = asked,
           ProcessSingleQueue(call, b.strategy, p, Decrement(b), batches \ {b})
    PROVE  Promise!Next
<1> DEFINE first == {r \in b.items : p[r].at \in Settled}
<1>1. b.items \subseteq Requests /\ \A r \in b.items : place[r].at = "sent"
    BY SettleInvariant, WorkloadAssumption DEF IInv, Flying, Batches
<1>2. Moves(place, p, first)
    BY <1>1 DEF Moves, WaitingIn, SettledIn, AbandonedIn, Settled, Executed
<1>3. PICK second \in SUBSET Requests : Moves(p, place', second)
    BY ProcessMoves
<1>4. Moves(place, place', first \cup second) /\ first \cup second \in SUBSET Requests
    BY <1>1, <1>2, <1>3 DEF Moves
<1> HIDE DEF first
<1>5. Promise!SettleSome(first \cup second)
    BY <1>4 DEF Promise!SettleSome, Moves, WaitingIn, SettledIn, AbandonedIn
<1> QED BY <1>4, <1>5 DEF Promise!Next, Requests

\* A call adds its requests to those that wait.
LEMMA GetMetaPromise ==
    ASSUME IInv, NEW kind \in {"dashboard", "button"}, NEW n \in 0 .. MaxCall,
           NEW defs \in Calls(n), AddToQueue(kind, n, defs),
           NEW done \in SUBSET Requests, Moves(Pushed(n), place', done)
    PROVE  Promise!Next
<1>1. /\ asked' = asked + n /\ n \in Nat /\ asked + n <= MaxAsked
      /\ asked \in Nat /\ MaxAsked \in Nat
    BY WorkloadAssumption DEF AddToQueue, IInv, TypeOK
<1>2. asked + 1 .. asked + n \subseteq Requests /\ n \in 0 .. MaxAsked
    BY <1>1 DEF Requests
<1>3. /\ \A r \in asked + 1 .. asked + n : Pushed(n)[r].at = "queued" /\ place[r].at = "unasked"
      /\ \A r \in Requests \ (asked + 1 .. asked + n) : Pushed(n)[r] = place[r]
    BY <1>1, <1>2 DEF Pushed, IInv
<1>4. /\ WaitingIn(Pushed(n)) = WaitingIn(place) \cup (asked + 1 .. asked + n)
      /\ SettledIn(Pushed(n)) = SettledIn(place)
      /\ AbandonedIn(Pushed(n)) = AbandonedIn(place)
    BY <1>2, <1>3 DEF WaitingIn, SettledIn, AbandonedIn, Settled, Executed
<1>5. Promise!Ask(n, done)
    BY <1>1, <1>4 DEF Promise!Ask, Moves, WaitingIn, SettledIn, AbandonedIn
<1> QED BY <1>2, <1>5 DEF Promise!Next, Requests

\* Every step of the service is a step of MetaPromise, or changes nothing of it.
LEMMA StepKeepsPromise ==
    ASSUME IInv, IInv', [Next]_vars
    PROVE  [Promise!Next]_(Promise!pvars)
<1>1. ASSUME NEW kind \in {"dashboard", "button"}, NEW s \in Strategies, GetMeta(kind, s)
      PROVE  Promise!Next
    <2>1. PICK n \in 0 .. MaxCall : \E defs \in Calls(n) :
              /\ AddToQueue(kind, n, defs)
              /\ ProcessSingleQueue(TRUE, s, Pushed(n), requestInProgress[s], batches)
        BY <1>1 DEF GetMeta
    <2>2. PICK defs \in Calls(n) : AddToQueue(kind, n, defs)
        BY <2>1
    <2>3. Pushed(n) \in PlaceType
        BY <2>2, PushInvariant
    <2>4. PICK done \in SUBSET Requests : Moves(Pushed(n), place', done)
        BY <2>1, <2>3, ProcessMoves
    <2> QED BY <2>2, <2>4, GetMetaPromise
<1>2. ASSUME NEW kind \in {"dashboard", "button"}, GetMetaThrows(kind)
      PROVE  Promise!Next
    <2>1. PICK n \in 0 .. MaxCall : \E defs \in Calls(n) :
              AddToQueue(kind, n, defs) /\ place' = Pushed(n)
        BY <1>2 DEF GetMetaThrows
    <2>2. PICK defs \in Calls(n) : AddToQueue(kind, n, defs) /\ place' = Pushed(n)
        BY <2>1
    <2>3. Moves(Pushed(n), place', {})
        BY <2>2 DEF Moves
    <2> QED BY <2>2, <2>3, GetMetaPromise
<1>3. ASSUME NEW b \in batches, NEW errors \in SUBSET b.items, Responded(b, errors)
      PROVE  Promise!Next
    <2> DEFINE p == [r \in Requests |->
                        IF r \notin b.items THEN place[r]
                        ELSE IF Outdated(b, r) THEN [place[r] EXCEPT !.at = "outdated"]
                        ELSE [place[r] EXCEPT !.at = "answered"]]
    <2>1. b.items \subseteq Requests /\ place \in PlaceType
        BY DEF IInv, Flying, Batches, TypeOK, PlaceType
    <2>2. p \in PlaceType /\ \A r \in Requests \ b.items : p[r] = place[r]
        BY <2>1 DEF PlaceType, At
    <2>3. \A r \in b.items : p[r].at \in {"queued"} \cup Settled
        BY <2>1 DEF PlaceType, Settled, Executed
    <2>4. /\ asked' = asked
          /\ ProcessSingleQueue(Woken(b, p), b.strategy, p, Decrement(b), batches \ {b})
        BY <1>3 DEF Responded
    <2> HIDE DEF p
    <2> QED BY <2>2, <2>3, <2>4, SettlePromise
<1>4. ASSUME NEW b \in batches, Fail(b)
      PROVE  Promise!Next
    <2> DEFINE again == Again(b)
               nth(r) == Rank(item, place, again, r) + 1
               p == [r \in Requests |->
                        IF r \in again
                        THEN [at |-> "queued", array |-> b.array, stamp |-> pushes + nth(r)]
                        ELSE IF r \in b.items THEN [place[r] EXCEPT !.at = "failed"]
                        ELSE place[r]]
    <2>1. /\ b.items \subseteq Requests /\ b.array \in 0 .. MaxFlushes
          /\ again \in SUBSET b.items /\ again \in SUBSET Requests /\ place \in PlaceType
        BY DEF IInv, Flying, Batches, Again, TypeOK, PlaceType
    <2>2. \A r \in Requests : pushes + nth(r) \in Nat
        BY <2>1, RequestsFinite DEF Rank, IInv, TypeOK
    <2>3. p \in PlaceType /\ \A r \in Requests \ b.items : p[r] = place[r]
        <3> HIDE DEF nth, again
        <3> QED BY <2>1, <2>2 DEF PlaceType, At
    <2>4. \A r \in b.items : p[r].at \in {"queued"} \cup Settled
        <3> HIDE DEF nth, again
        <3> QED BY <2>1 DEF PlaceType, Settled, Executed
    <2>5. /\ asked' = asked
          /\ ProcessSingleQueue(Woken(b, p), b.strategy, p, Decrement(b), batches \ {b})
        BY <1>4 DEF Fail
    <2> HIDE DEF p
    <2> QED BY <2>3, <2>4, <2>5, SettlePromise
<1>5. ASSUME FlushRelationalButtonsFromQueue
      PROVE  Promise!Next
    <2>1. PICK gone \in SUBSET Requests : gone = ButtonsInQueue
        BY DEF ButtonsInQueue
    <2>2. /\ \A r \in gone : place[r].at = "queued" /\ place'[r].at = "flushed"
          /\ \A r \in Requests \ gone : place'[r] = place[r]
          /\ asked' = asked
        BY <1>5, <2>1 DEF FlushRelationalButtonsFromQueue, ButtonsInQueue, IInv, TypeOK
    <2>3. Promise!Abandon(gone)
        BY <2>2 DEF Promise!Abandon, Settled, Executed
    <2> QED BY <2>3 DEF Promise!Next, Requests
<1>6. ASSUME FlushQueues \/ Expire \/ UNCHANGED vars
      PROVE  UNCHANGED Promise!pvars
    BY <1>6 DEF FlushQueues, Expire, vars, Promise!pvars
<1> QED BY <1>1, <1>2, <1>3, <1>4, <1>5, <1>6
        DEF Next, GetMetaForDashboards, GetMetaForRelationalButtons, Strategies, Respond

\* The service begins as MetaPromise does.
LEMMA InitKeepsPromise == Init => Promise!Init
    BY DEF Init, Promise!Init, Settled, Executed

\* The service implements MetaPromise: a request waits, is settled or abandoned at most
\* once, and never comes back.
THEOREM PromiseRefined == Spec => PromiseKept
<1>1. IInv /\ IInv' /\ [Next]_vars => [Promise!Next]_(Promise!pvars)
    BY StepKeepsPromise
<1> QED BY <1>1, InitKeepsPromise, Invariance, PTL DEF Spec, PromiseKept, Promise!Spec


-----------------------------------------------------------------------------
(* Retries.                                                                *)

\* The retries n of the objects agree with their places p, under definitions it; the
\* batches bs hold objects of their own strategy only.
Retries(s) == RetryOnError[s]
Budget(it, p, n) == \A r \in Requests :
    /\ p[r].at = "unasked" => n[r] = 0
    /\ p[r].at \in {"queued", "sent"} => n[r] <= Retries(StrategyOf(it[r]))
    /\ p[r].at = "failed" => n[r] = Retries(StrategyOf(it[r])) + 1
Kindred(it, bs) == \A b \in bs : \A r \in b.items : StrategyOf(it[r]) = b.strategy

RetryInv == IInv /\ Budget(item, place, retried) /\ Kindred(item, batches)

\* The strategy of a definition is a strategy.
LEMMA StrategyOfType == \A def : StrategyOf(def) \in Strategies /\ Retries(StrategyOf(def)) \in Nat
BY StrategyAssumption DEF StrategyOf, Strategies, Retries

\* _processSingleQueue sends what waits in the queue of its strategy.
LEMMA ProcessRetries ==
    ASSUME NEW call, NEW s, NEW p \in PlaceType, NEW progress, NEW bs, NEW n,
           ProcessSingleQueue(call, s, p, progress, bs),
           Budget(item', p, n), Kindred(item', bs)
    PROVE  Budget(item', place', n) /\ Kindred(item', batches')
<1> DEFINE q == Queue(item', p, s, generation)
           ready == IF call /\ MayStart(s, progress) THEN Taken(item', p, s, q, cache') ELSE {}
           toProcess == {r \in ready : item'[r].query \notin cache'}
<1>1. place' = [r \in Requests |->
          IF r \in toProcess THEN [p[r] EXCEPT !.at = "sent"]
          ELSE IF r \in ready THEN [p[r] EXCEPT !.at = "answered"] ELSE p[r]]
    BY DEF ProcessSingleQueue
<1>2. /\ ready \in SUBSET Requests
      /\ \A r \in ready : p[r].at = "queued" /\ StrategyOf(item'[r]) = s
    BY DEF Taken, Queue
<1>3. /\ \A r \in toProcess : place'[r].at = "sent" /\ p[r].at = "queued"
      /\ \A r \in ready \ toProcess : place'[r].at = "answered"
      /\ \A r \in Requests \ ready : place'[r] = p[r]
    BY <1>1, <1>2 DEF PlaceType
<1>4. toProcess \subseteq ready
    OBVIOUS
<1>5. batches' \subseteq bs \cup {[strategy |-> s, array |-> generation, items |-> toProcess]}
    BY DEF ProcessSingleQueue
<1> HIDE DEF ready, toProcess
<1>6. Budget(item', place', n)
    BY <1>2, <1>3, <1>4 DEF Budget
<1>7. Kindred(item', batches')
    BY <1>2, <1>4, <1>5 DEF Kindred
<1> QED BY <1>6, <1>7

\* A new object has not been retried.
LEMMA PushRetries ==
    ASSUME RetryInv, NEW kind \in {"dashboard", "button"}, NEW n \in 0 .. MaxCall,
           NEW defs \in Calls(n), AddToQueue(kind, n, defs)
    PROVE  Budget(item', Pushed(n), retried) /\ Kindred(item', batches)
<1>1. /\ IInv /\ asked \in Nat /\ n \in Nat
      /\ \A b \in batches : \A r \in b.items : item'[r] = item[r]
    BY PushInvariant, WorkloadAssumption DEF RetryInv, IInv, TypeOK
<1>2. Kindred(item', batches)
    BY <1>1 DEF Kindred, RetryInv
<1>3. ASSUME NEW r \in Requests, r \in asked + 1 .. asked + n
      PROVE  Pushed(n)[r].at = "queued" /\ retried[r] = 0
    <2>1. r > asked
        BY <1>1, <1>3
    <2> QED BY <1>3, <2>1 DEF Pushed, RetryInv, IInv, Budget
<1>4. ASSUME NEW r \in Requests, r \notin asked + 1 .. asked + n
      PROVE  Pushed(n)[r] = place[r] /\ item'[r] = item[r]
    BY <1>4 DEF Pushed, AddToQueue
<1>5. Budget(item', Pushed(n), retried)
    <2> SUFFICES ASSUME NEW r \in Requests
        PROVE /\ Pushed(n)[r].at = "unasked" => retried[r] = 0
              /\ Pushed(n)[r].at \in {"queued", "sent"} => retried[r] <= Retries(StrategyOf(item'[r]))
              /\ Pushed(n)[r].at = "failed" => retried[r] = Retries(StrategyOf(item'[r])) + 1
        BY DEF Budget
    <2>1. CASE r \in asked + 1 .. asked + n
        BY <2>1, <1>3, StrategyOfType
    <2>2. CASE r \notin asked + 1 .. asked + n
        BY <2>2, <1>4 DEF RetryInv, Budget
    <2> QED BY <2>1, <2>2
<1> QED BY <1>2, <1>5

\* Settling b leaves batches of their own strategy.
LEMMA SettleRetries ==
    ASSUME RetryInv, NEW b \in batches
    PROVE  /\ b.items \subseteq Requests /\ b.strategy \in Strategies
           /\ Kindred(item, batches \ {b})
           /\ \A r \in b.items :
                 /\ place[r].at = "sent" /\ StrategyOf(item[r]) = b.strategy
                 /\ retried[r] <= Retries(b.strategy)
<1>1. b \in Batches /\ \A r \in b.items : place[r].at = "sent"
    BY DEF RetryInv, IInv, Flying
<1>2. b.items \subseteq Requests /\ b.strategy \in Strategies
    BY <1>1 DEF Batches
<1> QED BY <1>1, <1>2 DEF RetryInv, Kindred, Budget

\* An answer uses up no retry.
LEMMA RespondRetries ==
    ASSUME RetryInv, NEW b \in batches, NEW errors \in SUBSET b.items, Responded(b, errors)
    PROVE  Budget(item', place', retried') /\ Kindred(item', batches')
<1> DEFINE p == [r \in Requests |->
                    IF r \notin b.items THEN place[r]
                    ELSE IF Outdated(b, r) THEN [place[r] EXCEPT !.at = "outdated"]
                    ELSE [place[r] EXCEPT !.at = "answered"]]
<1>1. /\ p \in PlaceType
      /\ \A r \in Requests \ b.items : p[r] = place[r]
      /\ \A r \in Requests : r \in b.items => p[r].at \in {"outdated", "answered"}
    BY DEF RetryInv, IInv, TypeOK, PlaceType, At
<1>2. /\ item' = item /\ retried' = retried
      /\ ProcessSingleQueue(Woken(b, p), b.strategy, p, Decrement(b), batches \ {b})
    BY DEF Responded
<1> HIDE DEF p
<1>3. Budget(item', p, retried')
    BY <1>1, <1>2 DEF RetryInv, Budget
<1>4. Kindred(item', batches \ {b})
    BY <1>2, SettleRetries
<1> QED BY <1>1, <1>2, <1>3, <1>4, ProcessRetries

\* A rejection uses up one retry of each object, and fails those that have none left.
LEMMA FailRetries ==
    ASSUME RetryInv, NEW b \in batches, Fail(b)
    PROVE  Budget(item', place', retried') /\ Kindred(item', batches')
<1> DEFINE again == Again(b)
           nth(r) == Rank(item, place, again, r) + 1
           p == [r \in Requests |->
                    IF r \in again
                    THEN [at |-> "queued", array |-> b.array, stamp |-> pushes + nth(r)]
                    ELSE IF r \in b.items THEN [place[r] EXCEPT !.at = "failed"]
                    ELSE place[r]]
<1>1. /\ b.items \subseteq Requests /\ b.array \in 0 .. MaxFlushes
      /\ again \in SUBSET b.items /\ again \in SUBSET Requests
    BY DEF RetryInv, IInv, Flying, Batches, Again
<1>2. p \in PlaceType
    <2>1. \A r : nth(r) \in Nat
        BY <1>1, RequestsFinite DEF Rank
    <2>2. \A r \in Requests : pushes + nth(r) \in Nat
        BY <2>1 DEF RetryInv, IInv, TypeOK
    <2> HIDE DEF nth, again
    <2> QED BY <1>1, <2>2 DEF RetryInv, IInv, TypeOK, PlaceType, At
<1>3. /\ \A r \in again : p[r].at = "queued"
      /\ \A r \in b.items \ again : p[r].at = "failed"
      /\ \A r \in Requests \ b.items : p[r] = place[r]
    <2> HIDE DEF nth, again
    <2> QED BY <1>1 DEF RetryInv, IInv, TypeOK
<1>4. /\ item' = item
      /\ retried' = [r \in Requests |-> IF r \in b.items THEN retried[r] + 1 ELSE retried[r]]
      /\ ProcessSingleQueue(Woken(b, p), b.strategy, p, Decrement(b), batches \ {b})
    BY DEF Fail
<1>5. /\ Retries(b.strategy) \in Nat /\ \A r \in Requests : retried[r] \in Nat
      /\ \A r \in b.items : /\ StrategyOf(item[r]) = b.strategy
                            /\ retried[r] <= Retries(b.strategy)
    BY SettleRetries, StrategyAssumption DEF Retries, RetryInv, IInv, TypeOK
<1>6. \A r \in b.items : r \in again <=> retried[r] + 1 <= Retries(b.strategy)
    BY DEF Again, Retries
<1> HIDE DEF p, again
<1>7. Budget(item', p, retried')
    <2> SUFFICES ASSUME NEW r \in Requests
        PROVE /\ p[r].at = "unasked" => retried'[r] = 0
              /\ p[r].at \in {"queued", "sent"} => retried'[r] <= Retries(StrategyOf(item[r]))
              /\ p[r].at = "failed" => retried'[r] = Retries(StrategyOf(item[r])) + 1
        BY <1>4 DEF Budget
    <2>1. CASE r \in again
        BY <1>1, <1>3, <1>4, <1>5, <1>6, <2>1
    <2>2. CASE r \in b.items \ again
        BY <1>3, <1>4, <1>5, <1>6, <2>2
    <2>3. CASE r \notin b.items
        BY <1>3, <1>4, <2>3 DEF RetryInv, Budget
    <2> QED BY <2>1, <2>2, <2>3
<1>8. Kindred(item', batches \ {b})
    BY <1>4, SettleRetries
<1> QED BY <1>2, <1>4, <1>7, <1>8, ProcessRetries

\* Every step keeps the budget of retries.
LEMMA RetryStep == RetryInv /\ [Next]_vars => RetryInv'
<1> SUFFICES ASSUME RetryInv, [Next]_vars PROVE RetryInv'
    OBVIOUS
<1>1. IInv'
    BY NextInvariant DEF RetryInv
<1>2. ASSUME NEW kind \in {"dashboard", "button"}, NEW s, GetMeta(kind, s)
      PROVE  Budget(item', place', retried') /\ Kindred(item', batches')
    <2>1. PICK n \in 0 .. MaxCall :
              /\ \E defs \in Calls(n) : AddToQueue(kind, n, defs)
              /\ UNCHANGED retried
              /\ ProcessSingleQueue(TRUE, s, Pushed(n), requestInProgress[s], batches)
        BY <1>2 DEF GetMeta
    <2>2. Budget(item', Pushed(n), retried) /\ Kindred(item', batches) /\ Pushed(n) \in PlaceType
        BY <2>1, PushRetries, PushInvariant DEF RetryInv
    <2> QED BY <2>1, <2>2, ProcessRetries
<1>3. CASE \E kind \in {"dashboard", "button"} : GetMetaThrows(kind)
    <2>1. PICK kind \in {"dashboard", "button"}, n \in 0 .. MaxCall :
              \E defs \in Calls(n) : AddToQueue(kind, n, defs) /\ place' = Pushed(n)
        BY <1>3 DEF GetMetaThrows
    <2>2. UNCHANGED <<retried, batches>>
        BY <1>3 DEF GetMetaThrows
    <2> QED BY <1>1, <2>1, <2>2, PushRetries DEF RetryInv
<1>4. CASE \E b \in batches : Respond(b)
    BY <1>1, <1>4, RespondRetries DEF Respond, RetryInv
<1>5. CASE \E b \in batches : Fail(b)
    BY <1>1, <1>5, FailRetries DEF RetryInv
<1>6. CASE FlushRelationalButtonsFromQueue
    <2>1. /\ \A r \in ButtonsInQueue : place'[r].at = "flushed"
          /\ \A r \in Requests \ ButtonsInQueue : place'[r] = place[r]
          /\ UNCHANGED <<item, retried, batches>>
        BY <1>6 DEF FlushRelationalButtonsFromQueue, RetryInv, IInv, TypeOK, ButtonsInQueue
    <2> QED BY <1>1, <2>1 DEF RetryInv, Budget, Kindred
<1>7. CASE FlushQueues \/ Expire \/ UNCHANGED vars
    BY <1>1, <1>7 DEF FlushQueues, Expire, vars, RetryInv, Budget, Kindred
<1>8. CASE GetMetaForDashboards \/ GetMetaForRelationalButtons
    BY <1>1, <1>2, <1>8 DEF GetMetaForDashboards, GetMetaForRelationalButtons, RetryInv
<1> QED BY <1>3, <1>4, <1>5, <1>6, <1>7, <1>8 DEF Next

\* The budget holds when the service is made.
LEMMA RetryInit == Init => RetryInv
<1> SUFFICES ASSUME Init PROVE RetryInv
    OBVIOUS
<1>1. Budget(item, place, retried) /\ Kindred(item, batches)
    BY DEF Init, Budget, Kindred
<1> QED BY <1>1, InitInvariant DEF RetryInv

\* An error of msearch reaches the caller only when the retries of the strategy of the
\* object are used up, through batches that mix fresh and retried objects.
THEOREM RetriesUsedUp == Spec => []FailedAfterRetries
<1>1. RetryInv => FailedAfterRetries
    BY DEF RetryInv, Budget, Retries, FailedAfterRetries
<1> QED BY <1>1, RetryInit, RetryStep, PTL DEF Spec


-----------------------------------------------------------------------------
(* The counters by which an answer is judged to be outdated.               *)

\* Over places p and pushes n: two objects that were pushed have different stamps.
Stamped(p, n) ==
    /\ \A r \in Requests : p[r].at # "unasked" => p[r].stamp <= n
    /\ \A r, q \in Requests :
          p[r].at # "unasked" /\ p[q].at # "unasked" /\ p[r].stamp = p[q].stamp => r = q

\* The counters sc of the objects of an id are at most the counter snt of the id, and
\* those that were given differ.
Numbers(it, sc, snt) ==
    /\ \A r \in Requests : sc[r] <= snt[it[r].id]
    /\ \A r, q \in Requests : sc[r] > 0 /\ it[r].id = it[q].id /\ sc[r] = sc[q] => r = q

\* An object in flight has a counter.
InFlightNumbered(p, sc) == \A r \in Requests : p[r].at = "sent" => sc[r] > 0

\* The objects of id i that were sent and whose answer has come, and the callbacks cd
\* counted for i: no more than these.
Over(it, p, sc, i) ==
    {r \in Requests : it[r].id = i /\ p[r].at \in {"answered", "outdated"} /\ sc[r] > 0}
CallbacksBounded(it, p, sc, cd) == \A i \in Ids : cd[i] <= Cardinality(Over(it, p, sc, i))

\* OutdatedOnlyForLaterSent, over any definitions, places and counters.
Later(it, p, sc) == \A r \in Requests : p[r].at = "outdated" =>
    \E a \in Requests : it[a].id = it[r].id /\ p[a].at = "answered" /\ sc[a] > sc[r]

Counts(it, p, sc, snt, cd, n) ==
    /\ Stamped(p, n) /\ Numbers(it, sc, snt) /\ InFlightNumbered(p, sc)
    /\ CallbacksBounded(it, p, sc, cd) /\ Later(it, p, sc)

CountInv ==
    /\ IInv
    /\ \A r \in Requests : r > asked => sentCounter[r] = 0
    /\ Counts(item, place, sentCounter, sent, called, pushes)

\* The order of a sorted queue is a strict order, total between objects whose stamps differ.
LEMMA BeforeOrder ==
    ASSUME NEW it \in [Requests -> Definitions], NEW p \in PlaceType,
           NEW a \in Requests, NEW b \in Requests
    PROVE  /\ ~Before(it, p, a, a)
           /\ Before(it, p, a, b) => ~Before(it, p, b, a)
           /\ p[a].stamp # p[b].stamp => Before(it, p, a, b) \/ Before(it, p, b, a)
           /\ \A c \in Requests :
                 Before(it, p, a, b) /\ Before(it, p, b, c) => Before(it, p, a, c)
<1> DEFINE x(r) == Index[it[r].query]
           t(r) == p[r].stamp
<1>1. \A r \in Requests : x(r) \in Nat /\ t(r) \in Nat
    BY WorkloadAssumption DEF Definitions, PlaceType
<1>2. \A r, q : Before(it, p, r, q) <=> x(r) < x(q) \/ (x(r) = x(q) /\ t(r) < t(q))
    BY DEF Before
<1>3. (t(a) # t(b)) = (p[a].stamp # p[b].stamp)
    OBVIOUS
<1> HIDE DEF x, t
<1> QED BY <1>1, <1>2, <1>3

\* What is before an object of a queue is a part of what is before, or at, a later object.
LEMMA RankLess ==
    ASSUME NEW it \in [Requests -> Definitions], NEW p \in PlaceType,
           NEW S \in SUBSET Requests, NEW a \in S, NEW b \in S, Before(it, p, a, b)
    PROVE  Rank(it, p, S, a) < Rank(it, p, S, b)
<1> DEFINE A == {c \in S : Before(it, p, c, a)}
           B == {c \in S : Before(it, p, c, b)}
<1>1. A \in SUBSET B /\ a \in B /\ a \notin A /\ B \in SUBSET Requests
    BY BeforeOrder
<1>2. IsFiniteSet(B) /\ Cardinality(B) \in Nat /\ Cardinality(A) \in Nat
    <2>1. A \in SUBSET Requests
        BY <1>1
    <2> HIDE DEF A, B
    <2> QED BY <1>1, <2>1, RequestsFinite
<1>3. Cardinality(A) < Cardinality(B)
    <2> HIDE DEF A, B
    <2>1. Cardinality(A) <= Cardinality(B) /\ (Cardinality(B) = Cardinality(A) => A = B)
        BY <1>1, <1>2, FS_Subset
    <2> QED BY <1>1, <1>2, <2>1
<1> QED BY <1>3 DEF Rank

\* The rank of an object of a queue is less than the length of the queue.
LEMMA RankBound ==
    ASSUME NEW it \in [Requests -> Definitions], NEW p \in PlaceType,
           NEW S \in SUBSET Requests, NEW a \in S
    PROVE  /\ Rank(it, p, S, a) \in Nat /\ Cardinality(S) \in Nat
           /\ Rank(it, p, S, a) < Cardinality(S)
<1> DEFINE A == {c \in S : Before(it, p, c, a)}
<1>1. A \in SUBSET S /\ A \in SUBSET Requests /\ a \notin A
    BY BeforeOrder
<1> HIDE DEF A
<1>2. IsFiniteSet(S) /\ Cardinality(S) \in Nat /\ Cardinality(A) \in Nat
    BY <1>1, RequestsFinite
<1>3. Cardinality(A) <= Cardinality(S) /\ (Cardinality(S) = Cardinality(A) => A = S)
    BY <1>1, <1>2, FS_Subset
<1>4. Cardinality(A) < Cardinality(S)
    BY <1>1, <1>2, <1>3
<1> QED BY <1>2, <1>4 DEF Rank, A

\* Answers that are over stay over.
LEMMA OverGrows ==
    ASSUME NEW it, NEW p, NEW sc, NEW q, NEW sd, NEW cd \in [Ids -> Nat],
           CallbacksBounded(it, p, sc, cd),
           \A i \in Ids : Over(it, p, sc, i) \subseteq Over(it, q, sd, i)
    PROVE  CallbacksBounded(it, q, sd, cd)
<1> SUFFICES ASSUME NEW i \in Ids PROVE cd[i] <= Cardinality(Over(it, q, sd, i))
    BY DEF CallbacksBounded
<1>1. Over(it, p, sc, i) \in SUBSET Requests /\ Over(it, q, sd, i) \in SUBSET Requests
    BY DEF Over
<1>2. Over(it, p, sc, i) \in SUBSET Over(it, q, sd, i)
    OBVIOUS
<1>3. IsFiniteSet(Over(it, q, sd, i)) /\ Cardinality(Over(it, q, sd, i)) \in Nat
      /\ Cardinality(Over(it, p, sc, i)) \in Nat
    BY <1>1, RequestsFinite
<1>4. Cardinality(Over(it, p, sc, i)) <= Cardinality(Over(it, q, sd, i))
    BY <1>2, <1>3, FS_Subset
<1>5. cd[i] \in Nat /\ cd[i] <= Cardinality(Over(it, p, sc, i))
    BY DEF CallbacksBounded
<1> QED BY <1>3, <1>4, <1>5

\* _processSingleQueue gives the objects it sends the next counters of their ids, in the
\* order of the queue.
LEMMA ProcessNumbers ==
    ASSUME TypeOK, NEW call, NEW s, NEW p \in PlaceType, NEW progress, NEW bs, NEW n,
           item' \in [Requests -> Definitions],
           Stamped(p, n), Numbers(item', sentCounter, sent),
           ProcessSingleQueue(call, s, p, progress, bs)
    PROVE  /\ Numbers(item', sentCounter', sent')
           /\ \A r \in Requests :
                 \/ place'[r] = p[r] /\ sentCounter'[r] = sentCounter[r]
                 \/ /\ p[r].at = "queued" /\ place'[r].stamp = p[r].stamp
                    /\ \/ place'[r].at = "sent" /\ sentCounter'[r] > 0
                       \/ place'[r].at = "answered" /\ sentCounter'[r] = sentCounter[r]
<1> DEFINE q == Queue(item', p, s, generation)
           ready == IF call /\ MayStart(s, progress) THEN Taken(item', p, s, q, cache') ELSE {}
           T == {r \in ready : item'[r].query \notin cache'}
           sameId(r) == {a \in T : item'[a].id = item'[r].id /\ ~Before(item', p, r, a)}
           ofId(i) == {r \in T : item'[r].id = i}
           id(r) == item'[r].id
<1>1. ready \in SUBSET Requests /\ T \in SUBSET ready /\ \A r \in ready : p[r].at = "queued"
    BY DEF Taken, Queue
<1>2. place' = [r \in Requests |->
          IF r \in T THEN [p[r] EXCEPT !.at = "sent"]
          ELSE IF r \in ready THEN [p[r] EXCEPT !.at = "answered"] ELSE p[r]]
    BY DEF ProcessSingleQueue
<1>3. sentCounter' = [r \in Requests |->
          IF r \in T THEN sent[id(r)] + Cardinality(sameId(r)) ELSE sentCounter[r]]
    BY DEF ProcessSingleQueue
<1>4. sent' = [i \in Ids |-> sent[i] + Cardinality(ofId(i))]
    BY DEF ProcessSingleQueue
<1>5. \A r \in Requests : id(r) \in Ids
    BY DEF Definitions
<1>6. /\ \A i \in Ids : sent[i] \in Nat
      /\ \A r \in Requests : sentCounter[r] \in Nat /\ sentCounter[r] <= sent[id(r)]
      /\ \A r, u \in Requests :
            sentCounter[r] > 0 /\ id(r) = id(u) /\ sentCounter[r] = sentCounter[u] => r = u
    BY DEF TypeOK, Numbers
<1>7. \A r : sameId(r) \in SUBSET Requests /\ IsFiniteSet(sameId(r))
             /\ Cardinality(sameId(r)) \in Nat
    <2>1. \A r : sameId(r) \in SUBSET Requests
        BY <1>1
    <2> HIDE DEF sameId
    <2> QED BY <2>1, RequestsFinite
<1>8. \A i : IsFiniteSet(ofId(i)) /\ Cardinality(ofId(i)) \in Nat
    <2>1. \A i : ofId(i) \in SUBSET Requests
        BY <1>1
    <2> HIDE DEF ofId
    <2> QED BY <2>1, RequestsFinite
<1>9. ASSUME NEW r \in T
      PROVE  0 < Cardinality(sameId(r)) /\ Cardinality(sameId(r)) <= Cardinality(ofId(id(r)))
    <2>1. r \in Requests /\ ~Before(item', p, r, r)
        BY <1>1, BeforeOrder
    <2>2. r \in sameId(r) /\ sameId(r) \in SUBSET ofId(id(r))
        BY <2>1
    <2> HIDE DEF sameId, ofId, T, id
    <2>3. Cardinality(sameId(r)) <= Cardinality(ofId(id(r)))
        BY <2>2, <1>8, FS_Subset
    <2>4. Cardinality(sameId(r)) # 0
        BY <2>2, <1>7, FS_EmptySet
    <2> QED BY <2>3, <2>4, <1>7
<1>10. ASSUME NEW r \in T, NEW u \in T, id(r) = id(u), Before(item', p, r, u)
       PROVE  Cardinality(sameId(r)) < Cardinality(sameId(u))
    <2>1. r \in Requests /\ u \in Requests /\ T \in SUBSET Requests
        BY <1>1
    <2>2. u \in sameId(u) /\ u \notin sameId(r)
        BY <2>1, <1>10, BeforeOrder
    <2>3. ASSUME NEW a \in sameId(r) PROVE a \in sameId(u)
        <3>1. a \in T /\ a \in Requests /\ id(a) = id(r) /\ ~Before(item', p, r, a)
            BY <2>1
        <3>2. a = r \/ Before(item', p, a, r)
            <4>1. p[a].at = "queued" /\ p[r].at = "queued"
                BY <1>1, <3>1
            <4>2. p[a].stamp = p[r].stamp => a = r
                BY <2>1, <3>1, <4>1 DEF Stamped
            <4> QED BY <2>1, <3>1, <4>2, BeforeOrder
        <3>3. Before(item', p, a, u)
            BY <1>10, <2>1, <3>1, <3>2, BeforeOrder
        <3>4. ~Before(item', p, u, a)
            BY <2>1, <3>1, <3>3, BeforeOrder
        <3> QED BY <3>1, <3>4, <1>10
    <2>4. sameId(r) \in SUBSET sameId(u) /\ sameId(r) # sameId(u)
        BY <2>2, <2>3
    <2> HIDE DEF sameId
    <2>5. Cardinality(sameId(r)) <= Cardinality(sameId(u))
          /\ Cardinality(sameId(u)) # Cardinality(sameId(r))
        BY <2>4, <1>7, FS_Subset
    <2> QED BY <2>5, <1>7
<1>11. \A r \in T : r \in Requests /\ p[r].at = "queued"
    BY <1>1
<1>12. \A r, u \in T : r # u /\ id(r) = id(u)
                         => Cardinality(sameId(r)) # Cardinality(sameId(u))
    <2> SUFFICES ASSUME NEW r \in T, NEW u \in T, r # u, id(r) = id(u)
                 PROVE  Cardinality(sameId(r)) # Cardinality(sameId(u))
        OBVIOUS
    <2>1. p[r].stamp # p[u].stamp
        BY <1>11 DEF Stamped
    <2>2. Before(item', p, r, u) \/ Before(item', p, u, r)
        BY <2>1, <1>11, BeforeOrder
    <2>3. Cardinality(sameId(r)) < Cardinality(sameId(u))
          \/ Cardinality(sameId(u)) < Cardinality(sameId(r))
        BY <2>2, <1>10
    <2> HIDE DEF sameId
    <2> QED BY <2>3, <1>7
<1>13. \A r \in T : sentCounter'[r] = sent[id(r)] + Cardinality(sameId(r))
    BY <1>3, <1>11
<1>14. \A r \in Requests : r \notin T => sentCounter'[r] = sentCounter[r]
    BY <1>3
<1>15. \A r \in Requests : sent'[id(r)] = sent[id(r)] + Cardinality(ofId(id(r)))
    BY <1>4, <1>5
<1>16. /\ \A r \in T : place'[r].at = "sent" /\ place'[r].stamp = p[r].stamp
       /\ \A r \in ready \ T : place'[r].at = "answered" /\ place'[r].stamp = p[r].stamp
       /\ \A r \in Requests \ ready : place'[r] = p[r]
    BY <1>1, <1>2 DEF PlaceType
<1> DEFINE rank(r) == Cardinality(sameId(r))
           size(i) == Cardinality(ofId(i))
<1>17. /\ \A r : rank(r) \in Nat
       /\ \A i : size(i) \in Nat
       /\ \A r \in T : 0 < rank(r) /\ rank(r) <= size(id(r))
       /\ \A r, u \in T : r # u /\ id(r) = id(u) => rank(r) # rank(u)
       /\ \A r \in T : sentCounter'[r] = sent[id(r)] + rank(r)
       /\ \A r \in Requests : sent'[id(r)] = sent[id(r)] + size(id(r))
    BY <1>7, <1>8, <1>9, <1>12, <1>13, <1>15
<1> HIDE DEF rank, size, sameId, ofId, T, ready, q
<1>18. Numbers(item', sentCounter', sent')
    <2>1. ASSUME NEW r \in Requests PROVE sentCounter'[r] <= sent'[id(r)]
        BY <1>5, <1>6, <1>14, <1>17
    <2>2. ASSUME NEW r \in Requests, NEW u \in Requests, sentCounter'[r] > 0, id(r) = id(u),
                 sentCounter'[r] = sentCounter'[u]
          PROVE  r = u
        <3>1. CASE r \in T /\ u \in T
            BY <2>2, <3>1, <1>5, <1>6, <1>17
        <3>2. CASE r \in T /\ u \notin T
            BY <2>2, <3>2, <1>5, <1>6, <1>14, <1>17
        <3>3. CASE r \notin T /\ u \in T
            BY <2>2, <3>3, <1>5, <1>6, <1>14, <1>17
        <3>4. CASE r \notin T /\ u \notin T
            BY <2>2, <3>4, <1>6, <1>14
        <3> QED BY <3>1, <3>2, <3>3, <3>4
    <2> QED BY <2>1, <2>2 DEF Numbers
<1>19. ASSUME NEW r \in Requests
       PROVE  \/ place'[r] = p[r] /\ sentCounter'[r] = sentCounter[r]
              \/ /\ p[r].at = "queued" /\ place'[r].stamp = p[r].stamp
                 /\ \/ place'[r].at = "sent" /\ sentCounter'[r] > 0
                    \/ place'[r].at = "answered" /\ sentCounter'[r] = sentCounter[r]
    <2>1. CASE r \notin ready
        BY <2>1, <1>1, <1>14, <1>16
    <2>2. CASE r \in ready \ T
        BY <2>2, <1>1, <1>14, <1>16
    <2>3. CASE r \in T
        <3>1. sentCounter'[r] > 0
            BY <2>3, <1>5, <1>6, <1>17
        <3> QED BY <2>3, <3>1, <1>11, <1>16
    <2> QED BY <2>1, <2>2, <2>3
<1> QED BY <1>18, <1>19

\* _processSingleQueue keeps the counts of the step that calls it.
LEMMA ProcessCounts ==
    ASSUME TypeOK, NEW call, NEW s, NEW p \in PlaceType, NEW progress, NEW bs, NEW n,
           NEW cd \in [Ids -> Nat],
           item' \in [Requests -> Definitions],
           Counts(item', p, sentCounter, sent, cd, n),
           ProcessSingleQueue(call, s, p, progress, bs)
    PROVE  /\ Counts(item', place', sentCounter', sent', cd, n)
           /\ \A r \in Requests : p[r].at # "queued" => sentCounter'[r] = sentCounter[r]
<1>1. /\ Stamped(p, n) /\ Numbers(item', sentCounter, sent) /\ InFlightNumbered(p, sentCounter)
      /\ CallbacksBounded(item', p, sentCounter, cd) /\ Later(item', p, sentCounter)
    BY DEF Counts
<1>2. Numbers(item', sentCounter', sent')
    BY <1>1, ProcessNumbers
<1>3. \A r \in Requests :
          \/ place'[r] = p[r] /\ sentCounter'[r] = sentCounter[r]
          \/ /\ p[r].at = "queued" /\ place'[r].stamp = p[r].stamp
             /\ \/ place'[r].at = "sent" /\ sentCounter'[r] > 0
                \/ place'[r].at = "answered" /\ sentCounter'[r] = sentCounter[r]
    BY <1>1, ProcessNumbers
<1>4. Stamped(place', n)
    <2>1. \A r \in Requests : /\ place'[r].stamp = p[r].stamp
                              /\ place'[r].at # "unasked" => p[r].at # "unasked"
        BY <1>3
    <2> QED BY <1>1, <2>1 DEF Stamped
<1>5. InFlightNumbered(place', sentCounter')
    BY <1>1, <1>3 DEF InFlightNumbered
<1>6. CallbacksBounded(item', place', sentCounter', cd)
    <2>1. \A i \in Ids : Over(item', p, sentCounter, i) \subseteq Over(item', place', sentCounter', i)
        BY <1>3 DEF Over
    <2> QED BY <1>1, <2>1, OverGrows
<1>7. Later(item', place', sentCounter')
    <2> SUFFICES ASSUME NEW r \in Requests, place'[r].at = "outdated"
        PROVE  \E a \in Requests : /\ item'[a].id = item'[r].id /\ place'[a].at = "answered"
                                   /\ sentCounter'[a] > sentCounter'[r]
        BY DEF Later
    <2>1. p[r].at = "outdated" /\ sentCounter'[r] = sentCounter[r]
        BY <1>3
    <2>2. PICK a \in Requests : /\ item'[a].id = item'[r].id /\ p[a].at = "answered"
                                /\ sentCounter[a] > sentCounter[r]
        BY <1>1, <2>1 DEF Later
    <2>3. place'[a].at = "answered" /\ sentCounter'[a] = sentCounter[a]
        BY <1>3, <2>2
    <2> QED BY <2>1, <2>2, <2>3
<1> QED BY <1>2, <1>3, <1>4, <1>5, <1>6, <1>7 DEF Counts

\* New objects have no counter, and are pushed with new stamps.
LEMMA PushCounts ==
    ASSUME CountInv, NEW kind \in {"dashboard", "button"}, NEW n \in 0 .. MaxCall,
           NEW defs \in Calls(n), AddToQueue(kind, n, defs)
    PROVE  Counts(item', Pushed(n), sentCounter, sent, called, pushes')
<1>1. /\ item' \in [Requests -> Definitions]
      /\ n \in Nat /\ asked \in Nat /\ pushes \in Nat /\ pushes' = pushes + n
      /\ called \in [Ids -> Nat] /\ place \in PlaceType
      /\ \A r \in Requests : r \in Nat /\ sentCounter[r] \in Nat
      /\ \A i \in Ids : sent[i] \in Nat
    <2>1. IInv
        BY DEF CountInv
    <2>2. item' \in [Requests -> Definitions]
        BY <2>1, PushInvariant
    <2>3. /\ n \in Nat /\ asked \in Nat /\ pushes \in Nat /\ pushes' = pushes + n
          /\ \A r \in Requests : r \in Nat
        BY <2>1, WorkloadAssumption DEF IInv, TypeOK, AddToQueue, Requests
    <2>4. /\ called \in [Ids -> Nat] /\ place \in PlaceType
          /\ \A r \in Requests : sentCounter[r] \in Nat
          /\ \A i \in Ids : sent[i] \in Nat
        BY <2>1 DEF IInv, TypeOK, PlaceType
    <2> QED BY <2>2, <2>3, <2>4
<1>2. /\ Stamped(place, pushes) /\ Numbers(item, sentCounter, sent)
      /\ InFlightNumbered(place, sentCounter)
      /\ CallbacksBounded(item, place, sentCounter, called) /\ Later(item, place, sentCounter)
    BY DEF CountInv, Counts
<1>3. \A r \in Requests : r > asked => sentCounter[r] = 0 /\ place[r].at = "unasked"
    BY DEF CountInv, IInv
<1> DEFINE N == asked + 1 .. asked + n
<1>4. \A r \in Requests \cap N : /\ Pushed(n)[r].at = "queued" /\ sentCounter[r] = 0
                                 /\ Pushed(n)[r].stamp = pushes + r - asked
                                 /\ pushes < pushes + r - asked /\ pushes + r - asked <= pushes'
    BY <1>1, <1>3 DEF Pushed
<1>5. \A r \in Requests \ N : Pushed(n)[r] = place[r] /\ item'[r] = item[r]
    BY DEF Pushed, AddToQueue
<1>6. \A r \in Requests \ N : place[r].stamp \in Nat
    BY <1>1 DEF PlaceType
<1> HIDE DEF N
<1>7. Stamped(Pushed(n), pushes')
    <2>1. ASSUME NEW r \in Requests, Pushed(n)[r].at # "unasked"
          PROVE  Pushed(n)[r].stamp <= pushes'
        <3>1. CASE r \in N
            BY <3>1, <1>4
        <3>2. CASE r \notin N
            BY <3>2, <2>1, <1>1, <1>2, <1>5, <1>6 DEF Stamped
        <3> QED BY <3>1, <3>2
    <2>2. ASSUME NEW r \in Requests, NEW q \in Requests, Pushed(n)[r].at # "unasked",
                 Pushed(n)[q].at # "unasked", Pushed(n)[r].stamp = Pushed(n)[q].stamp
          PROVE  r = q
        <3>1. CASE r \in N /\ q \in N
            BY <2>2, <3>1, <1>1, <1>4
        <3>2. CASE r \in N /\ q \notin N
            BY <2>2, <3>2, <1>1, <1>2, <1>4, <1>5, <1>6 DEF Stamped
        <3>3. CASE r \notin N /\ q \in N
            BY <2>2, <3>3, <1>1, <1>2, <1>4, <1>5, <1>6 DEF Stamped
        <3>4. CASE r \notin N /\ q \notin N
            BY <2>2, <3>4, <1>2, <1>5 DEF Stamped
        <3> QED BY <3>1, <3>2, <3>3, <3>4
    <2> QED BY <2>1, <2>2 DEF Stamped
<1>8. Numbers(item', sentCounter, sent)
    <2>1. ASSUME NEW r \in Requests PROVE sentCounter[r] <= sent[item'[r].id]
        <3>1. item'[r].id \in Ids
            BY <1>1 DEF Definitions
        <3>2. CASE r \in N
            BY <3>1, <3>2, <1>1, <1>4
        <3>3. CASE r \notin N
            BY <3>3, <1>2, <1>5 DEF Numbers
        <3> QED BY <3>2, <3>3
    <2>2. ASSUME NEW r \in Requests, NEW q \in Requests, sentCounter[r] > 0,
                 item'[r].id = item'[q].id, sentCounter[r] = sentCounter[q]
          PROVE  r = q
        <3>1. r \notin N /\ q \notin N
            BY <2>2, <1>4
        <3> QED BY <3>1, <2>2, <1>2, <1>5 DEF Numbers
    <2> QED BY <2>1, <2>2 DEF Numbers
<1>9. InFlightNumbered(Pushed(n), sentCounter)
    <2> SUFFICES ASSUME NEW r \in Requests, Pushed(n)[r].at = "sent" PROVE sentCounter[r] > 0
        BY DEF InFlightNumbered
    <2>1. r \notin N
        BY <1>4
    <2> QED BY <2>1, <1>2, <1>5 DEF InFlightNumbered
<1>10. CallbacksBounded(item', Pushed(n), sentCounter, called)
    <2>1. \A i \in Ids :
              Over(item', Pushed(n), sentCounter, i) = Over(item, place, sentCounter, i)
        <3> SUFFICES ASSUME NEW i \in Ids, NEW r \in Requests
            PROVE (/\ item'[r].id = i /\ Pushed(n)[r].at \in {"answered", "outdated"}
                   /\ sentCounter[r] > 0)
                  <=> (/\ item[r].id = i /\ place[r].at \in {"answered", "outdated"}
                       /\ sentCounter[r] > 0)
            BY DEF Over
        <3>1. CASE r \in N
            BY <3>1, <1>4
        <3>2. CASE r \notin N
            BY <3>2, <1>5
        <3> QED BY <3>1, <3>2
    <2> QED BY <2>1, <1>2 DEF CallbacksBounded
<1>11. Later(item', Pushed(n), sentCounter)
    <2> SUFFICES ASSUME NEW r \in Requests, Pushed(n)[r].at = "outdated"
        PROVE  \E a \in Requests : /\ item'[a].id = item'[r].id
                                   /\ Pushed(n)[a].at = "answered"
                                   /\ sentCounter[a] > sentCounter[r]
        BY DEF Later
    <2>1. r \notin N
        BY <1>4
    <2>2. PICK a \in Requests : /\ item[a].id = item[r].id /\ place[a].at = "answered"
                                /\ sentCounter[a] > sentCounter[r]
        BY <2>1, <1>2, <1>5 DEF Later
    <2>3. a \notin N
        BY <2>2, <1>1, <1>4
    <2> QED BY <2>1, <2>2, <2>3, <1>5
<1> QED BY <1>7, <1>8, <1>9, <1>10, <1>11 DEF Counts

\* Positive counters that are at most c, and that all differ, are at most c in number.
LEMMA Pigeons ==
    ASSUME NEW S \in SUBSET Requests, NEW f, NEW c \in Nat,
           \A r \in S : f[r] \in Nat /\ 0 < f[r] /\ f[r] <= c,
           \A r, q \in S : f[r] = f[q] => r = q
    PROVE  Cardinality(S) <= c
<1> DEFINE g == [r \in S |-> f[r]]
<1>1. g \in Injection(S, 1 .. c)
    <2>1. g \in [S -> 1 .. c]
        OBVIOUS
    <2>2. \A r, q \in S : g[r] = g[q] => r = q
        OBVIOUS
    <2> QED BY <2>1, <2>2 DEF Injection, IsInjective
<1>2. IsFiniteSet(1 .. c) /\ Cardinality(1 .. c) = c
    BY FS_Interval
<1> HIDE DEF g
<1> QED BY <1>1, <1>2, FS_Injection

\* An answer that comes out outdated has a later one, of its id, that has come before it:
\* there were more callbacks than counters up to its own.
LEMMA OutdatedHasLater ==
    ASSUME CountInv, NEW b \in batches, NEW r \in b.items, Outdated(b, r)
    PROVE  \E a \in Requests : /\ item[a].id = item[r].id /\ place[a].at = "answered"
                               /\ sentCounter[a] > sentCounter[r]
<1> DEFINE i == item[r].id
           c == sentCounter[r]
           P == Over(item, place, sentCounter, i)
           Q == {a \in b.items : item[a].id = i /\ sentCounter[a] <= c}
<1>1. /\ b.items \subseteq Requests /\ \A a \in b.items : place[a].at = "sent"
      /\ \A a \in Requests : sentCounter[a] \in Nat /\ item[a].id \in Ids
      /\ called \in [Ids -> Nat]
    BY DEF CountInv, IInv, Flying, Batches, TypeOK, Definitions
<1>2. /\ Numbers(item, sentCounter, sent) /\ InFlightNumbered(place, sentCounter)
      /\ CallbacksBounded(item, place, sentCounter, called) /\ Later(item, place, sentCounter)
    BY DEF CountInv, Counts
<1>3. i \in Ids /\ c \in Nat /\ called[i] \in Nat /\ called[i] <= Cardinality(P)
    BY <1>1, <1>2 DEF CallbacksBounded
<1>4. c < called[i] + Cardinality(Q)
    BY DEF Outdated, CallbackCounter
<1>5. /\ P \in SUBSET Requests /\ Q \in SUBSET Requests /\ P \cap Q = {}
      /\ \A x \in P : item[x].id = i /\ place[x].at \in {"answered", "outdated"}
                      /\ sentCounter[x] > 0
      /\ \A x \in Q : item[x].id = i /\ sentCounter[x] > 0 /\ sentCounter[x] <= c
    BY <1>1, <1>2 DEF Over, InFlightNumbered
<1> HIDE DEF P, Q, i, c
<1>6. Cardinality(P \cup Q) = Cardinality(P) + Cardinality(Q)
      /\ Cardinality(P) \in Nat /\ Cardinality(Q) \in Nat
    <2>1. /\ IsFiniteSet(P) /\ IsFiniteSet(Q)
          /\ Cardinality(P) \in Nat /\ Cardinality(Q) \in Nat
        BY <1>5, RequestsFinite
    <2>2. Cardinality(P \cup Q) = Cardinality(P) + Cardinality(Q) - Cardinality(P \cap Q)
        BY <2>1, FS_Union
    <2>3. Cardinality(P \cap Q) = 0
        BY <1>5, FS_EmptySet
    <2> QED BY <2>1, <2>2, <2>3
<1>7. PICK x \in P \cup Q : ~(sentCounter[x] <= c)
    <2> SUFFICES ASSUME \A x \in P \cup Q : sentCounter[x] <= c PROVE FALSE
        OBVIOUS
    <2>1. P \cup Q \in SUBSET Requests
        BY <1>5
    <2>2. \A x \in P \cup Q : sentCounter[x] \in Nat /\ 0 < sentCounter[x] /\ sentCounter[x] <= c
        BY <1>1, <1>5
    <2>3. \A x, y \in P \cup Q : sentCounter[x] = sentCounter[y] => x = y
        BY <1>2, <1>5, <2>2 DEF Numbers
    <2>4. Cardinality(P \cup Q) <= c
        BY <1>3, <2>1, <2>2, <2>3, Pigeons
    <2> QED BY <1>3, <1>4, <1>6, <2>4
<1>8. /\ x \in Requests /\ item[x].id = i /\ place[x].at \in {"answered", "outdated"}
      /\ sentCounter[x] > c
    BY <1>1, <1>3, <1>5, <1>7
<1>9. CASE place[x].at = "answered"
    BY <1>8, <1>9 DEF i, c
<1>10. CASE place[x].at = "outdated"
    <2>1. PICK a \in Requests : /\ item[a].id = item[x].id /\ place[a].at = "answered"
                                /\ sentCounter[a] > sentCounter[x]
        BY <1>2, <1>8, <1>10 DEF Later
    <2>2. sentCounter[a] > c
        BY <1>1, <1>3, <1>8, <2>1
    <2> QED BY <1>8, <2>1, <2>2 DEF i, c
<1> QED BY <1>8, <1>9, <1>10

\* An answer counts as many callbacks as it takes objects out of flight.
LEMMA RespondCounts ==
    ASSUME CountInv, NEW b \in batches, NEW errors \in SUBSET b.items, Responded(b, errors)
    PROVE  /\ Counts(item', place', sentCounter', sent', called', pushes')
           /\ \A r \in Requests : r > asked => sentCounter'[r] = 0
<1> DEFINE p == [r \in Requests |->
                    IF r \notin b.items THEN place[r]
                    ELSE IF Outdated(b, r) THEN [place[r] EXCEPT !.at = "outdated"]
                    ELSE [place[r] EXCEPT !.at = "answered"]]
           ofId(i) == {r \in b.items : item[r].id = i}
<1>1. /\ b.items \subseteq Requests /\ \A r \in b.items : place[r].at = "sent" /\ r <= asked
      /\ TypeOK /\ place \in PlaceType /\ called \in [Ids -> Nat]
      /\ item \in [Requests -> Definitions]
    <2>1. IInv /\ place \in PlaceType
        BY DEF CountInv, IInv, TypeOK, PlaceType
    <2> QED BY <2>1, SettleInvariant DEF IInv, TypeOK
<1>2. /\ Stamped(place, pushes) /\ Numbers(item, sentCounter, sent)
      /\ InFlightNumbered(place, sentCounter)
      /\ CallbacksBounded(item, place, sentCounter, called) /\ Later(item, place, sentCounter)
    BY DEF CountInv, Counts
<1>3. /\ p \in PlaceType
      /\ \A r \in Requests : r \notin b.items => p[r] = place[r]
      /\ \A r \in b.items : /\ p[r].stamp = place[r].stamp /\ p[r].at \in {"outdated", "answered"}
                            /\ p[r].at = "outdated" => Outdated(b, r)
    BY <1>1 DEF PlaceType, At
<1>4. /\ UNCHANGED <<asked, item, pushes>>
      /\ called' = [i \in Ids |-> called[i] + Cardinality(ofId(i))]
      /\ ProcessSingleQueue(Woken(b, p), b.strategy, p, Decrement(b), batches \ {b})
    BY DEF Responded
<1> HIDE DEF p
<1>5. called' \in [Ids -> Nat]
    BY RespondInvariant DEF CountInv, IInv, TypeOK
<1>6. Stamped(p, pushes)
    <2>1. \A r \in Requests : p[r].stamp = place[r].stamp
                              /\ (p[r].at # "unasked" => place[r].at # "unasked")
        BY <1>1, <1>3
    <2> QED BY <1>2, <2>1 DEF Stamped
<1>7. InFlightNumbered(p, sentCounter)
    <2>1. \A r \in Requests : p[r].at = "sent" => place[r].at = "sent"
        BY <1>3
    <2> QED BY <1>2, <2>1 DEF InFlightNumbered
<1>8. CallbacksBounded(item, p, sentCounter, called')
    <2> SUFFICES ASSUME NEW i \in Ids
                 PROVE  called'[i] <= Cardinality(Over(item, p, sentCounter, i))
        BY DEF CallbacksBounded
    <2> DEFINE P == Over(item, place, sentCounter, i)
               Q == ofId(i)
    <2>1. P \in SUBSET Requests /\ Q \in SUBSET Requests /\ P \cap Q = {}
        BY <1>1 DEF Over
    <2>2. Over(item, p, sentCounter, i) = P \cup Q
        <3>1. \A r \in b.items : sentCounter[r] > 0
            BY <1>1, <1>2 DEF InFlightNumbered
        <3>2. ASSUME NEW r \in Requests
              PROVE  r \in Over(item, p, sentCounter, i) <=> r \in P \cup Q
            <4>1. CASE r \in b.items
                BY <4>1, <3>1, <1>3 DEF Over
            <4>2. CASE r \notin b.items
                BY <4>2, <1>3 DEF Over
            <4> QED BY <4>1, <4>2
        <3>3. Over(item, p, sentCounter, i) \subseteq Requests
            BY DEF Over
        <3> HIDE DEF P, Q
        <3> QED BY <3>2, <3>3, <2>1
    <2>3. called[i] \in Nat /\ called[i] <= Cardinality(P)
        BY <1>1, <1>2 DEF CallbacksBounded
    <2>4. called'[i] = called[i] + Cardinality(Q)
        BY <1>4
    <2> HIDE DEF P, Q
    <2>5. /\ IsFiniteSet(P) /\ IsFiniteSet(Q)
          /\ Cardinality(P) \in Nat /\ Cardinality(Q) \in Nat
        BY <2>1, RequestsFinite
    <2>6. Cardinality(P \cup Q) = Cardinality(P) + Cardinality(Q) - Cardinality(P \cap Q)
        BY <2>5, FS_Union
    <2>7. Cardinality(P \cap Q) = 0
        BY <2>1, FS_EmptySet
    <2> QED BY <2>2, <2>3, <2>4, <2>5, <2>6, <2>7
<1>9. Later(item, p, sentCounter)
    <2> SUFFICES ASSUME NEW r \in Requests, p[r].at = "outdated"
        PROVE  \E a \in Requests : /\ item[a].id = item[r].id /\ p[a].at = "answered"
                                   /\ sentCounter[a] > sentCounter[r]
        BY DEF Later
    <2>1. PICK a \in Requests : /\ item[a].id = item[r].id /\ place[a].at = "answered"
                                /\ sentCounter[a] > sentCounter[r]
        <3>1. CASE r \in b.items
            BY <3>1, <1>3, OutdatedHasLater
        <3>2. CASE r \notin b.items
            BY <3>2, <1>2, <1>3 DEF Later
        <3> QED BY <3>1, <3>2
    <2>2. p[a].at = "answered"
        BY <2>1, <1>1, <1>3
    <2> QED BY <2>1, <2>2
<1>10. Counts(item', p, sentCounter, sent, called', pushes')
    BY <1>2, <1>4, <1>6, <1>7, <1>8, <1>9 DEF Counts
<1>11. /\ Counts(item', place', sentCounter', sent', called', pushes')
       /\ \A r \in Requests : p[r].at # "queued" => sentCounter'[r] = sentCounter[r]
    <2>1. item' \in [Requests -> Definitions]
        BY <1>1, <1>4
    <2> QED BY <1>1, <1>3, <1>4, <1>5, <1>10, <2>1, ProcessCounts
<1>12. \A r \in Requests : r > asked => p[r].at = "unasked" /\ sentCounter[r] = 0
    <2>1. ASSUME NEW r \in Requests, r > asked PROVE r \notin b.items
        BY <2>1, <1>1 DEF TypeOK, Requests
    <2> QED BY <1>3, <2>1 DEF CountInv, IInv
<1> QED BY <1>11, <1>12

\* The objects of a rejected msearch that go back to the queue get new stamps, in the order
\* in which they were sent, and keep the counter of that msearch.
LEMMA FailCounts ==
    ASSUME CountInv, NEW b \in batches, Fail(b)
    PROVE  /\ Counts(item', place', sentCounter', sent', called', pushes')
           /\ \A r \in Requests : r > asked => sentCounter'[r] = 0
<1> DEFINE again == Again(b)
           nth(r) == Rank(item, place, again, r) + 1
           p == [r \in Requests |->
                    IF r \in again
                    THEN [at |-> "queued", array |-> b.array, stamp |-> pushes + nth(r)]
                    ELSE IF r \in b.items THEN [place[r] EXCEPT !.at = "failed"]
                    ELSE place[r]]
           size == Cardinality(again)
<1>1. /\ b.items \subseteq Requests /\ b.array \in 0 .. MaxFlushes
      /\ \A r \in b.items : place[r].at = "sent" /\ r <= asked
      /\ TypeOK /\ place \in PlaceType /\ called \in [Ids -> Nat]
      /\ item \in [Requests -> Definitions] /\ pushes \in Nat
    <2>1. IInv /\ place \in PlaceType
        BY DEF CountInv, IInv, TypeOK, PlaceType
    <2> QED BY <2>1, SettleInvariant DEF IInv, TypeOK
<1>2. /\ Stamped(place, pushes) /\ Numbers(item, sentCounter, sent)
      /\ InFlightNumbered(place, sentCounter)
      /\ CallbacksBounded(item, place, sentCounter, called) /\ Later(item, place, sentCounter)
    BY DEF CountInv, Counts
<1>3. again \in SUBSET b.items /\ again \in SUBSET Requests
    BY <1>1 DEF Again
<1>4. /\ UNCHANGED <<asked, item, called>> /\ pushes' = pushes + size
      /\ ProcessSingleQueue(Woken(b, p), b.strategy, p, Decrement(b), batches \ {b})
    BY DEF Fail
<1> HIDE DEF again
<1>5. \A r \in Requests : nth(r) \in Nat
    BY <1>3, RequestsFinite DEF Rank
<1>6. size \in Nat /\ \A r \in again : nth(r) \in Nat /\ 0 < nth(r) /\ nth(r) <= size
    <2>1. size \in Nat
        BY <1>3, RequestsFinite
    <2>2. ASSUME NEW r \in again PROVE nth(r) \in Nat /\ 0 < nth(r) /\ nth(r) <= size
        <3>1. /\ Rank(item, place, again, r) \in Nat /\ Cardinality(again) \in Nat
              /\ Rank(item, place, again, r) < Cardinality(again)
            BY <1>1, <1>3, RankBound
        <3> QED BY <3>1
    <2> QED BY <2>1, <2>2
<1>7. \A r, q \in again : nth(r) = nth(q) => r = q
    <2> SUFFICES ASSUME NEW r \in again, NEW q \in again, r # q PROVE nth(r) # nth(q)
        OBVIOUS
    <2>1. r \in Requests /\ q \in Requests /\ place[r].stamp # place[q].stamp
        BY <1>1, <1>2, <1>3 DEF Stamped
    <2>2. Before(item, place, r, q) \/ Before(item, place, q, r)
        BY <1>1, <2>1, BeforeOrder
    <2>3. \/ Rank(item, place, again, r) < Rank(item, place, again, q)
          \/ Rank(item, place, again, q) < Rank(item, place, again, r)
        BY <1>1, <1>3, <2>2, RankLess
    <2>4. Rank(item, place, again, r) \in Nat /\ Rank(item, place, again, q) \in Nat
        BY <1>1, <1>3, RankBound
    <2> QED BY <2>3, <2>4
<1> HIDE DEF nth, size
<1>8. /\ p \in PlaceType
      /\ \A r \in again : p[r].at = "queued" /\ p[r].stamp = pushes + nth(r)
      /\ \A r \in b.items \ again : p[r].at = "failed" /\ p[r].stamp = place[r].stamp
      /\ \A r \in Requests \ b.items : p[r] = place[r]
    <2>1. \A r \in again : pushes + nth(r) \in Nat
        BY <1>1, <1>6
    <2> QED BY <1>1, <1>3, <2>1 DEF PlaceType, At
<1> HIDE DEF p
<1>9. /\ \A r \in Requests \ again : p[r].stamp = place[r].stamp /\ place[r].stamp \in Nat
      /\ \A r \in Requests \ again : p[r].at # "unasked" => place[r].at # "unasked"
      /\ \A r \in Requests : p[r].at \in {"sent", "answered", "outdated"} => p[r] = place[r]
    BY <1>1, <1>3, <1>8 DEF PlaceType
<1>10. Stamped(p, pushes')
    <2>1. \A r \in Requests \ again : p[r].at # "unasked" => p[r].stamp <= pushes
        BY <1>2, <1>9 DEF Stamped
    <2>2. ASSUME NEW r \in Requests, p[r].at # "unasked" PROVE p[r].stamp <= pushes'
        <3>1. CASE r \in again
            BY <3>1, <1>1, <1>4, <1>6, <1>8
        <3>2. CASE r \notin again
            BY <3>2, <2>1, <2>2, <1>1, <1>4, <1>6, <1>9
        <3> QED BY <3>1, <3>2
    <2>3. ASSUME NEW r \in Requests, NEW q \in Requests, p[r].at # "unasked",
                 p[q].at # "unasked", p[r].stamp = p[q].stamp
          PROVE  r = q
        <3>1. CASE r \in again /\ q \in again
            BY <2>3, <3>1, <1>1, <1>6, <1>7, <1>8
        <3>2. CASE r \in again /\ q \notin again
            BY <2>1, <2>3, <3>2, <1>1, <1>6, <1>8, <1>9
        <3>3. CASE r \notin again /\ q \in again
            BY <2>1, <2>3, <3>3, <1>1, <1>6, <1>8, <1>9
        <3>4. CASE r \notin again /\ q \notin again
            BY <2>3, <3>4, <1>2, <1>9 DEF Stamped
        <3> QED BY <3>1, <3>2, <3>3, <3>4
    <2> QED BY <2>2, <2>3 DEF Stamped
<1>11. InFlightNumbered(p, sentCounter)
    BY <1>2, <1>9 DEF InFlightNumbered
<1>12. CallbacksBounded(item, p, sentCounter, called)
    <2>1. ASSUME NEW r \in Requests, place[r].at \in {"answered", "outdated"}
          PROVE  p[r] = place[r]
        BY <2>1, <1>1, <1>8
    <2>2. \A i \in Ids : Over(item, place, sentCounter, i) \subseteq Over(item, p, sentCounter, i)
        BY <2>1 DEF Over
    <2> QED BY <1>1, <1>2, <2>2, OverGrows
<1>13. Later(item, p, sentCounter)
    <2>1. \A r \in Requests : place[r].at = "answered" => p[r] = place[r]
        BY <1>1, <1>8
    <2> QED BY <1>2, <1>9, <2>1 DEF Later
<1>14. Counts(item', p, sentCounter, sent, called', pushes')
    BY <1>2, <1>4, <1>10, <1>11, <1>12, <1>13 DEF Counts
<1>15. /\ Counts(item', place', sentCounter', sent', called', pushes')
       /\ \A r \in Requests : p[r].at # "queued" => sentCounter'[r] = sentCounter[r]
    <2>1. item' \in [Requests -> Definitions] /\ called' \in [Ids -> Nat]
        BY <1>1, <1>4
    <2> QED BY <1>1, <1>4, <1>8, <1>14, <2>1, ProcessCounts
<1>16. \A r \in Requests : r > asked => p[r].at = "unasked" /\ sentCounter[r] = 0
    <2>1. ASSUME NEW r \in Requests, r > asked PROVE r \notin b.items
        BY <2>1, <1>1 DEF TypeOK, Requests
    <2> QED BY <1>8, <2>1 DEF CountInv, IInv
<1> QED BY <1>15, <1>16

\* A call that asks for objects keeps the counts.
LEMMA GetMetaCounts ==
    ASSUME CountInv, NEW kind \in {"dashboard", "button"}, NEW s \in Strategies,
           GetMeta(kind, s)
    PROVE  /\ Counts(item', place', sentCounter', sent', called', pushes')
           /\ \A r \in Requests : r > asked' => sentCounter'[r] = 0
<1>1. PICK n \in 0 .. MaxCall : \E defs \in Calls(n) :
          /\ AddToQueue(kind, n, defs)
          /\ UNCHANGED called
          /\ ProcessSingleQueue(TRUE, s, Pushed(n), requestInProgress[s], batches)
    BY DEF GetMeta
<1>2. PICK defs \in Calls(n) : AddToQueue(kind, n, defs)
    BY <1>1
<1>3. /\ IInv /\ TypeOK /\ called \in [Ids -> Nat]
      /\ \A r \in Requests : r > asked => sentCounter[r] = 0
    BY DEF CountInv, IInv, TypeOK
<1>4. /\ item' \in [Requests -> Definitions] /\ asked <= asked'
      /\ asked \in Nat /\ asked' \in Nat /\ Pushed(n) \in PlaceType
      /\ \A r \in Requests : r > asked' => Pushed(n)[r].at = "unasked"
    <2>1. /\ item' \in [Requests -> Definitions] /\ asked <= asked'
          /\ asked' \in 0 .. MaxAsked /\ Pushed(n) \in PlaceType
          /\ \A r \in Requests : r > asked' => Pushed(n)[r].at = "unasked"
        BY <1>2, <1>3, PushInvariant
    <2> QED BY <1>3, <2>1, WorkloadAssumption DEF TypeOK
<1>5. Counts(item', Pushed(n), sentCounter, sent, called, pushes')
    BY <1>2, PushCounts
<1>6. /\ Counts(item', place', sentCounter', sent', called, pushes')
      /\ \A r \in Requests : Pushed(n)[r].at # "queued" => sentCounter'[r] = sentCounter[r]
    BY <1>1, <1>3, <1>4, <1>5, ProcessCounts
<1>7. \A r \in Requests : r > asked' => sentCounter'[r] = 0
    BY <1>3, <1>4, <1>6 DEF Requests
<1> QED BY <1>1, <1>6, <1>7

\* Every step keeps the counts.
LEMMA CountStep == CountInv /\ [Next]_vars => CountInv'
<1> SUFFICES ASSUME CountInv, [Next]_vars PROVE CountInv'
    OBVIOUS
<1>1. IInv /\ IInv'
    BY NextInvariant DEF CountInv
<1> SUFFICES /\ Counts(item', place', sentCounter', sent', called', pushes')
             /\ \A r \in Requests : r > asked' => sentCounter'[r] = 0
    BY <1>1 DEF CountInv, Counts, Stamped, Numbers, InFlightNumbered,
                CallbacksBounded, Over, Later
<1>2. Counts(item, place, sentCounter, sent, called, pushes)
      /\ \A r \in Requests : r > asked => sentCounter[r] = 0
    BY DEF CountInv
<1>3. CASE GetMetaForDashboards \/ GetMetaForRelationalButtons
    BY <1>3, GetMetaCounts
       DEF GetMetaForDashboards, GetMetaForRelationalButtons, Strategies
<1>4. CASE \E kind \in {"dashboard", "button"} : GetMetaThrows(kind)
    <2>1. PICK kind \in {"dashboard", "button"}, n \in 0 .. MaxCall :
              \E defs \in Calls(n) : AddToQueue(kind, n, defs) /\ place' = Pushed(n)
        BY <1>4 DEF GetMetaThrows
    <2>2. UNCHANGED <<sentCounter, sent, called>>
        BY <1>4 DEF GetMetaThrows
    <2>3. PICK defs \in Calls(n) : AddToQueue(kind, n, defs) /\ place' = Pushed(n)
        BY <2>1
    <2>4. Counts(item', Pushed(n), sentCounter, sent, called, pushes')
        BY <2>3, PushCounts
    <2>5. asked <= asked' /\ asked \in Nat /\ asked' \in Nat
        BY <1>1, <2>3, PushInvariant, WorkloadAssumption DEF IInv, TypeOK
    <2> QED BY <1>2, <2>2, <2>3, <2>4, <2>5 DEF Requests
<1>5. CASE \E b \in batches : Respond(b)
    <2>1. PICK b \in batches : \E errors \in SUBSET b.items : Responded(b, errors)
        BY <1>5 DEF Respond
    <2>2. PICK errors \in SUBSET b.items : Responded(b, errors)
        BY <2>1
    <2>3. asked' = asked
        BY <2>2 DEF Responded
    <2> QED BY <2>2, <2>3, RespondCounts
<1>6. CASE \E b \in batches : Fail(b)
    <2>1. PICK b \in batches : Fail(b)
        BY <1>6
    <2>2. asked' = asked
        BY <2>1 DEF Fail
    <2> QED BY <2>1, <2>2, FailCounts
<1>7. CASE FlushRelationalButtonsFromQueue
    <2>1. PICK gone \in SUBSET Requests : gone = ButtonsInQueue
        BY DEF ButtonsInQueue
    <2>2. /\ \A r \in gone : /\ place[r].at = "queued" /\ place'[r].at = "flushed"
                             /\ place'[r].stamp = place[r].stamp
          /\ \A r \in Requests \ gone : place'[r] = place[r]
          /\ UNCHANGED <<asked, item, pushes, sentCounter, sent, called>>
        BY <1>1, <1>7, <2>1 DEF FlushRelationalButtonsFromQueue, ButtonsInQueue, IInv, TypeOK
    <2>3. \A r \in Requests :
              /\ place'[r].stamp = place[r].stamp
              /\ place'[r].at # "unasked" => place[r].at # "unasked"
              /\ place'[r].at \in {"sent", "answered", "outdated"} => place'[r] = place[r]
              /\ place[r].at \in {"sent", "answered", "outdated"} => place'[r] = place[r]
        BY <2>2
    <2>4. Stamped(place', pushes)
        BY <1>2, <2>3 DEF Counts, Stamped
    <2>5. InFlightNumbered(place', sentCounter) /\ Later(item, place', sentCounter)
        BY <1>2, <2>3 DEF Counts, InFlightNumbered, Later
    <2>6. CallbacksBounded(item, place', sentCounter, called)
        <3>1. \A i \in Ids : Over(item, place, sentCounter, i) \subseteq Over(item, place', sentCounter, i)
            BY <2>3 DEF Over
        <3> QED BY <1>1, <1>2, <3>1, OverGrows DEF Counts, IInv, TypeOK
    <2>7. Counts(item, place', sentCounter, sent, called, pushes)
        BY <1>2, <2>4, <2>5, <2>6 DEF Counts
    <2> QED BY <1>2, <2>2, <2>7
<1>8. CASE FlushQueues \/ Expire \/ UNCHANGED vars
    <2>1. UNCHANGED <<asked, item, place, pushes, sentCounter, sent, called>>
        BY <1>8 DEF FlushQueues, Expire, vars
    <2> QED BY <1>2, <2>1
<1> QED BY <1>3, <1>4, <1>5, <1>6, <1>7, <1>8 DEF Next

\* Nothing is counted when the service is made.
LEMMA CountInit == Init => CountInv
<1> SUFFICES ASSUME Init PROVE CountInv
    OBVIOUS
<1>1. IInv /\ \A r \in Requests : item[r].id \in Ids
    BY InitInvariant DEF IInv, TypeOK, Definitions
<1>2. Stamped(place, pushes) /\ Numbers(item, sentCounter, sent)
    BY <1>1 DEF Init, Stamped, Numbers
<1>3. InFlightNumbered(place, sentCounter) /\ Later(item, place, sentCounter)
    BY DEF Init, InFlightNumbered, Later
<1>4. CallbacksBounded(item, place, sentCounter, called)
    <2> SUFFICES ASSUME NEW i \in Ids
                 PROVE  called[i] <= Cardinality(Over(item, place, sentCounter, i))
        BY DEF CallbacksBounded
    <2>1. Over(item, place, sentCounter, i) \in SUBSET Requests
        BY DEF Over
    <2>2. Cardinality(Over(item, place, sentCounter, i)) \in Nat
        BY <2>1, RequestsFinite
    <2> QED BY <2>2 DEF Init
<1> QED BY <1>1, <1>2, <1>3, <1>4 DEF Init, CountInv, Counts

\* An answer is discarded as outdated only if an object of its id that was sent later has
\* had its answer: with retries, answers from the cache and batches that answer several
\* objects of one id, the callbacks counted for an id never run ahead of its answers.
THEOREM OutdatedHolds == Spec => []OutdatedOnlyForLaterSent
<1>1. CountInv => OutdatedOnlyForLaterSent
    BY DEF CountInv, Counts, Later, OutdatedOnlyForLaterSent
<1> QED BY <1>1, CountInit, CountStep, PTL DEF Spec


-----------------------------------------------------------------------------
(* When the comment on the counters is right: in what configuration the     *)
(* objects are served in the order in which they were asked.                *)

\* One queue, one msearch of it at a time, no retry, no hit in the cache, and nothing for
\* the sort by index to move.
InOrder ==
    /\ DashboardStrategy = RelFilterStrategy
    /\ \A s \in Strategies : ParallelRequests[s] = 1 /\ (EsMayFail => RetryOnError[s] = 0)
    /\ ~EnableCache
    /\ \A u, v \in Queries : Index[u] = Index[v]

\* Over places p, with n requests asked and the arrays of generation g in use: objects are
\* pushed once, when they are asked.
PushedOnce(p, n, g) == \A r \in Requests :
    /\ r <= n => p[r].stamp = r
    /\ p[r].array <= g

\* An object that is in flight, or settled, leaves no earlier one in the array in use; one
\* that is settled leaves none in flight.
Served == Settled \cup {"sent"}
FirstComeFirstServed(p, g) == \A r, later \in Requests : r < later =>
    /\ p[later].at \in Served => ~(p[r].at = "queued" /\ p[r].array = g)
    /\ p[later].at \in Settled => p[r].at # "sent"

\* What is in flight is in a batch of bs.
Carried(p, bs) == \A r \in Requests : p[r].at = "sent" => \E b \in bs : r \in b.items

Orderly(p, n, g, bs) ==
    PushedOnce(p, n, g) /\ FirstComeFirstServed(p, g) /\ Carried(p, bs)

OrderInv == IInv /\ cache = {} /\ pushes = asked /\ Orderly(place, asked, generation, batches)

\* A callback is executed when the msearch of its object settles.
CalledFromFlight == \A r \in Requests :
    place'[r].at \in Executed => place[r].at \in Executed \cup {"sent"}

\* Division by the size of a batch keeps the order.
LEMMA DivMonotone ==
    ASSUME NEW a \in Nat, NEW b \in Nat, NEW k \in Nat \ {0}, a <= b
    PROVE  a \div k <= b \div k
<1> DEFINE x == a \div k
           y == b \div k
<1>1. x \in Nat /\ y \in Nat /\ k * x <= a /\ b < k * y + k
    OBVIOUS
<1>2. k \in Nat /\ k > 0
    OBVIOUS
<1> HIDE DEF x, y
<1>3. ASSUME y < x PROVE FALSE
    <2>1. PICK d \in Nat : x = y + 1 + d
        <3>1. x - y - 1 \in Nat /\ x = y + 1 + (x - y - 1)
            BY <1>1, <1>3
        <3> QED BY <3>1
    <2>2. k * x = k * y + k + k * d /\ k * d >= 0
        BY <1>1, <1>2, <2>1
    <2>3. k * x \in Nat /\ k * y \in Nat /\ k * d \in Nat
        BY <1>1, <1>2, <2>1
    <2> QED BY <1>1, <1>2, <2>2, <2>3
<1> QED BY <1>1, <1>3 DEF x, y

\* What is taken from a queue whose objects sort in the order of their calls is its head.
LEMMA TakenFirst ==
    ASSUME InOrder, NEW it \in [Requests -> Definitions], NEW p \in PlaceType,
           NEW s \in Strategies, NEW q \in SUBSET Requests, NEW hits,
           \A r \in q : p[r].stamp = r,
           NEW later \in Taken(it, p, s, q, hits), NEW r \in q, r < later
    PROVE  r \in Taken(it, p, s, q, hits)
<1>1. later \in q /\ r \in Requests /\ later \in Requests
    BY DEF Taken
<1>2. Before(it, p, r, later)
    BY <1>1 DEF Before, InOrder, Definitions
<1>3. /\ Rank(it, p, q, r) < Rank(it, p, q, later)
      /\ Rank(it, p, q, r) \in Nat /\ Rank(it, p, q, later) \in Nat
    BY <1>1, <1>2, RankLess, RankBound
<1>4. BatchSize[s] \in Nat \ {0}
    BY StrategyAssumption
<1>5. Chunk(it, p, s, q, r) <= Chunk(it, p, s, q, later)
    <2>1. Rank(it, p, q, r) <= Rank(it, p, q, later)
        BY <1>3
    <2> QED BY <1>3, <1>4, <2>1, DivMonotone DEF Chunk
<1>6. \A u \in q : it[u].query \notin hits => Chunk(it, p, s, q, r) <= Chunk(it, p, s, q, u)
    <2> SUFFICES ASSUME NEW u \in q, it[u].query \notin hits
                 PROVE  Chunk(it, p, s, q, r) <= Chunk(it, p, s, q, u)
        OBVIOUS
    <2>1. Chunk(it, p, s, q, later) <= Chunk(it, p, s, q, u)
        BY DEF Taken
    <2>2. /\ Chunk(it, p, s, q, r) \in Nat /\ Chunk(it, p, s, q, later) \in Nat
          /\ Chunk(it, p, s, q, u) \in Nat
        BY ChunkType
    <2> QED BY <1>5, <2>1, <2>2
<1> QED BY <1>6 DEF Taken

\* _processSingleQueue sends the head of the queue.
LEMMA ProcessInOrder ==
    ASSUME InOrder, NEW call, NEW s \in Strategies, NEW p \in PlaceType, NEW progress, NEW bs,
           NEW n \in Nat, item' \in [Requests -> Definitions], cache' = {},
           Orderly(p, n, generation, bs),
           \A r \in Requests : p[r].at = "queued" => r <= n,
           ProcessSingleQueue(call, s, p, progress, bs)
    PROVE  /\ Orderly(place', n, generation, batches')
           /\ \A r \in Requests : place'[r].at \in Executed => place'[r] = p[r]
<1> DEFINE q == Queue(item', p, s, generation)
           T == IF call /\ MayStart(s, progress) THEN Taken(item', p, s, q, cache') ELSE {}
<1>1. q = {r \in Requests : p[r].at = "queued" /\ p[r].array = generation}
    BY DEF Queue, StrategyOf, InOrder, Strategies
<1>2. T \in SUBSET q /\ T \in SUBSET Requests
    BY <1>1 DEF Taken
<1>3. T = {r \in T : item'[r].query \notin cache'}
    OBVIOUS
<1>4. place' = [r \in Requests |-> IF r \in T THEN [p[r] EXCEPT !.at = "sent"] ELSE p[r]]
    <2>1. place' = [r \in Requests |->
              IF r \in {x \in T : item'[x].query \notin cache'} THEN [p[r] EXCEPT !.at = "sent"]
              ELSE IF r \in T THEN [p[r] EXCEPT !.at = "answered"] ELSE p[r]]
        BY DEF ProcessSingleQueue
    <2> HIDE DEF T
    <2> QED BY <1>3, <2>1
<1>5. batches' = IF T = {} THEN bs
                 ELSE bs \cup {[strategy |-> s, array |-> generation, items |-> T]}
    <2> DEFINE P == {x \in T : item'[x].query \notin cache'}
    <2>1. batches' = IF P = {} THEN bs
                     ELSE bs \cup {[strategy |-> s, array |-> generation, items |-> P]}
        BY DEF ProcessSingleQueue
    <2>2. T = P
        BY <1>3
    <2> HIDE DEF T, P
    <2> QED BY <2>1, <2>2
<1>6. \A r \in q : p[r].stamp = r
    BY <1>1 DEF Orderly, PushedOnce
<1>7. ASSUME NEW later \in T, NEW r \in q, r < later PROVE r \in T
    <2>1. T = Taken(item', p, s, q, cache')
        BY <1>7
    <2>2. q \in SUBSET Requests
        BY <1>1
    <2> HIDE DEF q, T
    <2>3. later \in Taken(item', p, s, q, cache')
        BY <2>1
    <2>4. r \in Taken(item', p, s, q, cache')
        BY <1>6, <1>7, <2>2, <2>3, TakenFirst
    <2> QED BY <2>1, <2>4
<1> HIDE DEF T, q
<1>8. /\ \A r \in T : /\ place'[r].at = "sent" /\ p[r].at = "queued" /\ p[r].array = generation
                      /\ place'[r].stamp = p[r].stamp /\ place'[r].array = p[r].array
      /\ \A r \in Requests \ T : place'[r] = p[r]
    BY <1>1, <1>2, <1>4 DEF PlaceType
<1>9. PushedOnce(place', n, generation)
    <2>1. \A r \in Requests : place'[r].stamp = p[r].stamp /\ place'[r].array = p[r].array
        BY <1>8
    <2> QED BY <2>1 DEF Orderly, PushedOnce
<1>10. FirstComeFirstServed(place', generation)
    <2> SUFFICES ASSUME NEW r \in Requests, NEW later \in Requests, r < later
        PROVE /\ place'[later].at \in Served
                     => ~(place'[r].at = "queued" /\ place'[r].array = generation)
              /\ place'[later].at \in Settled => place'[r].at # "sent"
        BY DEF FirstComeFirstServed
    <2>1. /\ p[later].at \in Served => ~(p[r].at = "queued" /\ p[r].array = generation)
          /\ p[later].at \in Settled => p[r].at # "sent"
        BY DEF Orderly, FirstComeFirstServed
    <2>2. "sent" \notin Settled /\ Settled \subseteq Served
        BY DEF Settled, Executed, Served
    <2>3. CASE later \in T
        <3>1. ~(place'[r].at = "queued" /\ place'[r].array = generation)
            BY <2>3, <1>1, <1>7, <1>8
        <3> QED BY <2>2, <2>3, <3>1, <1>8
    <2>4. CASE later \notin T /\ r \in T
        BY <2>1, <2>2, <2>4, <1>8
    <2>5. CASE later \notin T /\ r \notin T
        BY <2>1, <2>5, <1>8
    <2> QED BY <2>3, <2>4, <2>5
<1>11. Carried(place', batches')
    <2> SUFFICES ASSUME NEW r \in Requests, place'[r].at = "sent"
                 PROVE  \E b \in batches' : r \in b.items
        BY DEF Carried
    <2>1. CASE r \in T
        <3>1. [strategy |-> s, array |-> generation, items |-> T] \in batches'
            BY <1>5, <2>1
        <3> QED BY <2>1, <3>1
    <2>2. CASE r \notin T
        <3>1. PICK b \in bs : r \in b.items
            BY <2>2, <1>8 DEF Orderly, Carried
        <3> QED BY <3>1, <1>5
    <2> QED BY <2>1, <2>2
<1>12. \A r \in Requests : place'[r].at \in Executed => place'[r] = p[r]
    BY <1>8 DEF Executed
<1> QED BY <1>9, <1>10, <1>11, <1>12 DEF Orderly

\* A call asks behind all that was asked before.
LEMMA PushInOrder ==
    ASSUME OrderInv, NEW kind \in {"dashboard", "button"}, NEW n \in 0 .. MaxCall,
           NEW defs \in Calls(n), AddToQueue(kind, n, defs)
    PROVE  /\ Orderly(Pushed(n), asked', generation, batches) /\ pushes' = asked'
           /\ asked' \in Nat
           /\ \A r \in Requests : Pushed(n)[r].at = "queued" => r <= asked'
           /\ \A r \in Requests : Pushed(n)[r].at # "queued" => Pushed(n)[r] = place[r]
<1> DEFINE N == asked + 1 .. asked + n
<1>1. /\ n \in Nat /\ asked \in Nat /\ pushes = asked /\ generation \in Nat
      /\ asked' = asked + n /\ pushes' = pushes + n
      /\ \A r \in Requests : r \in Nat
      /\ \A r \in Requests : r > asked => place[r].at = "unasked"
    BY WorkloadAssumption DEF OrderInv, IInv, TypeOK, AddToQueue, Requests
<1>2. \A r \in Requests \cap N : /\ Pushed(n)[r].at = "queued" /\ Pushed(n)[r].array = generation
                                 /\ Pushed(n)[r].stamp = r
    BY <1>1 DEF Pushed
<1>3. \A r \in Requests \ N : Pushed(n)[r] = place[r]
    BY DEF Pushed
<1>4. \A r \in Requests : /\ r \in N => asked < r /\ r <= asked'
                          /\ r \notin N /\ r <= asked' => r <= asked
    BY <1>1
<1> HIDE DEF N
<1>5. /\ PushedOnce(place, asked, generation) /\ FirstComeFirstServed(place, generation)
      /\ Carried(place, batches)
    BY DEF OrderInv, Orderly
<1>6. PushedOnce(Pushed(n), asked', generation)
    <2> SUFFICES ASSUME NEW r \in Requests
        PROVE (r <= asked' => Pushed(n)[r].stamp = r) /\ Pushed(n)[r].array <= generation
        BY DEF PushedOnce
    <2>1. CASE r \in N
        BY <2>1, <1>1, <1>2
    <2>2. CASE r \notin N
        BY <2>2, <1>3, <1>4, <1>5 DEF PushedOnce
    <2> QED BY <2>1, <2>2
<1>7. FirstComeFirstServed(Pushed(n), generation)
    <2> SUFFICES ASSUME NEW r \in Requests, NEW later \in Requests, r < later,
                        Pushed(n)[later].at \in Served
        PROVE /\ ~(Pushed(n)[r].at = "queued" /\ Pushed(n)[r].array = generation)
              /\ Pushed(n)[later].at \in Settled => Pushed(n)[r].at # "sent"
        BY DEF FirstComeFirstServed, Served
    <2>1. later \notin N
        BY <1>2 DEF Served, Settled, Executed
    <2>2. later <= asked
        BY <2>1, <1>1, <1>3 DEF Served, Settled, Executed
    <2>3. r \notin N
        BY <2>2, <1>1, <1>4
    <2> QED BY <2>1, <2>3, <1>3, <1>5 DEF FirstComeFirstServed
<1>8. Carried(Pushed(n), batches)
    <2> SUFFICES ASSUME NEW r \in Requests, Pushed(n)[r].at = "sent"
                 PROVE  \E b \in batches : r \in b.items
        BY DEF Carried
    <2>1. r \notin N
        BY <1>2
    <2> QED BY <2>1, <1>3, <1>5 DEF Carried
<1>9. \A r \in Requests : Pushed(n)[r].at = "queued" => r <= asked'
    <2> SUFFICES ASSUME NEW r \in Requests, Pushed(n)[r].at = "queued" PROVE r <= asked'
        OBVIOUS
    <2>1. CASE r \in N
        BY <2>1, <1>4
    <2>2. CASE r \notin N
        BY <2>2, <1>1, <1>3
    <2> QED BY <2>1, <2>2
<1>10. \A r \in Requests : Pushed(n)[r].at # "queued" => Pushed(n)[r] = place[r]
    BY <1>2, <1>3
<1> QED BY <1>1, <1>6, <1>7, <1>8, <1>9, <1>10 DEF Orderly

\* With one msearch at a time, the batch that settles is the only one.
LEMMA OnlyBatch ==
    ASSUME InOrder, OrderInv, NEW b \in batches
    PROVE  batches = {b}
<1>1. /\ \A c \in batches : c.strategy = b.strategy
      /\ b.strategy \in Strategies
      /\ IsFiniteSet(batches)
    BY DEF OrderInv, IInv, Flying, Batches, Strategies, InOrder
<1>2. Of(b.strategy, batches) = batches
    BY <1>1 DEF Of
<1>3. Cardinality(batches) <= 1
    BY <1>1, <1>2 DEF OrderInv, IInv, Counted, InOrder
<1>4. Cardinality({b}) = 1
    <2>1. {} \cup {b} = {b} /\ b \notin {}
        OBVIOUS
    <2>2. Cardinality({} \cup {b}) = 0 + 1
        BY FS_EmptySet, FS_AddElement
    <2> QED BY <2>1, <2>2
<1>5. {b} \in SUBSET batches
    OBVIOUS
<1>6. Cardinality({b}) <= Cardinality(batches) /\ Cardinality(batches) \in Nat
      /\ (Cardinality(batches) = Cardinality({b}) => batches = {b})
    BY <1>1, <1>5, FS_Subset, FS_CardinalityType
<1> QED BY <1>3, <1>4, <1>6

\* The objects of the batch that settles were the first in flight, and all of them settle.
LEMMA SettleInOrder ==
    ASSUME InOrder, OrderInv, NEW b \in batches, NEW call, NEW p \in PlaceType,
           \A r \in Requests \ b.items : p[r] = place[r],
           \A r \in b.items : /\ p[r].at \in Settled
                              /\ p[r].stamp = place[r].stamp /\ p[r].array = place[r].array,
           item' = item, cache' = {},
           ProcessSingleQueue(call, b.strategy, p, Decrement(b), batches \ {b})
    PROVE  /\ Orderly(place', asked, generation, batches')
           /\ CalledFromFlight
<1>1. /\ PushedOnce(place, asked, generation) /\ FirstComeFirstServed(place, generation)
      /\ Carried(place, batches) /\ batches = {b}
    BY OnlyBatch DEF OrderInv, Orderly
<1>2. /\ b.strategy \in Strategies /\ b.items \subseteq Requests
      /\ \A r \in b.items : place[r].at = "sent" /\ r <= asked
      /\ asked \in Nat /\ item' \in [Requests -> Definitions]
      /\ \A r \in Requests : r \in Nat
      /\ \A r \in Requests : r > asked => place[r].at = "unasked"
    <2>1. IInv
        BY DEF OrderInv
    <2>2. /\ b.strategy \in Strategies /\ b.items \subseteq Requests
          /\ \A r \in b.items : place[r].at = "sent" /\ r <= asked
        BY <2>1, SettleInvariant
    <2> QED BY <2>1, <2>2 DEF IInv, TypeOK, Requests
<1>3. "sent" \notin Settled /\ "queued" \notin Settled /\ "sent" \in Served
      /\ Settled \subseteq Served
    BY DEF Settled, Executed, Served
<1>4. \A r \in Requests : p[r].at # "sent"
    <2>1. \A r \in Requests : place[r].at = "sent" => r \in b.items
        BY <1>1 DEF Carried
    <2> QED BY <1>3, <2>1
<1>5. PushedOnce(p, asked, generation)
    <2>1. \A r \in Requests : p[r].stamp = place[r].stamp /\ p[r].array = place[r].array
        OBVIOUS
    <2> QED BY <1>1, <2>1 DEF PushedOnce
<1>6. FirstComeFirstServed(p, generation)
    <2> SUFFICES ASSUME NEW r \in Requests, NEW later \in Requests, r < later,
                        p[later].at \in Served, p[r].at = "queued", p[r].array = generation
                 PROVE  FALSE
        BY <1>4 DEF FirstComeFirstServed
    <2>1. place[later].at \in Served
        BY <1>2, <1>3
    <2>2. p[r] = place[r]
        BY <1>3
    <2> QED BY <1>1, <2>1, <2>2 DEF FirstComeFirstServed
<1>7. Orderly(p, asked, generation, batches \ {b})
    BY <1>4, <1>5, <1>6 DEF Orderly, Carried
<1>8. \A r \in Requests : p[r].at = "queued" => r <= asked
    BY <1>2, <1>3
<1>9. /\ Orderly(place', asked, generation, batches')
      /\ \A r \in Requests : place'[r].at \in Executed => place'[r] = p[r]
    BY <1>2, <1>7, <1>8, ProcessInOrder
<1>10. CalledFromFlight
    <2> SUFFICES ASSUME NEW r \in Requests, place'[r].at \in Executed
                 PROVE  place[r].at \in Executed \cup {"sent"}
        BY DEF CalledFromFlight
    <2>1. p[r].at \in Executed
        BY <1>9
    <2> QED BY <1>2, <2>1
<1> QED BY <1>9, <1>10

\* The answer to an msearch.
LEMMA RespondInOrder ==
    ASSUME InOrder, OrderInv, NEW b \in batches, NEW errors \in SUBSET b.items,
           Responded(b, errors)
    PROVE  /\ Orderly(place', asked', generation', batches')
           /\ CalledFromFlight /\ cache' = {} /\ pushes' = asked'
<1> DEFINE p == [r \in Requests |->
                    IF r \notin b.items THEN place[r]
                    ELSE IF Outdated(b, r) THEN [place[r] EXCEPT !.at = "outdated"]
                    ELSE [place[r] EXCEPT !.at = "answered"]]
<1>1. place \in PlaceType /\ b.items \subseteq Requests
    BY DEF OrderInv, IInv, TypeOK, PlaceType, Flying, Batches
<1>2. /\ p \in PlaceType
      /\ \A r \in Requests \ b.items : p[r] = place[r]
      /\ \A r \in b.items : /\ p[r].at \in Settled
                            /\ p[r].stamp = place[r].stamp /\ p[r].array = place[r].array
    BY <1>1 DEF PlaceType, At, Settled, Executed
<1>3. /\ UNCHANGED <<asked, item, pushes, generation>> /\ cache' = {}
      /\ ProcessSingleQueue(Woken(b, p), b.strategy, p, Decrement(b), batches \ {b})
    BY DEF Responded, InOrder
<1> HIDE DEF p
<1> QED BY <1>2, <1>3, SettleInOrder DEF OrderInv

\* The rejection of an msearch: no object goes back to the queue.
LEMMA FailInOrder ==
    ASSUME InOrder, OrderInv, NEW b \in batches, Fail(b)
    PROVE  /\ Orderly(place', asked', generation', batches')
           /\ CalledFromFlight /\ cache' = {} /\ pushes' = asked'
<1> DEFINE again == Again(b)
           nth(r) == Rank(item, place, again, r) + 1
           p == [r \in Requests |->
                    IF r \in again
                    THEN [at |-> "queued", array |-> b.array, stamp |-> pushes + nth(r)]
                    ELSE IF r \in b.items THEN [place[r] EXCEPT !.at = "failed"]
                    ELSE place[r]]
<1>1. /\ place \in PlaceType /\ b.items \subseteq Requests /\ b.strategy \in Strategies
      /\ retried \in [Requests -> Nat] /\ pushes \in Nat
    BY DEF OrderInv, IInv, TypeOK, PlaceType, Flying, Batches
<1>2. again = {}
    <2>1. RetryOnError[b.strategy] = 0
        BY <1>1 DEF Fail, InOrder
    <2> QED BY <1>1, <2>1 DEF Again
<1>3. /\ UNCHANGED <<asked, item, generation, cache>> /\ pushes' = pushes + Cardinality(again)
      /\ ProcessSingleQueue(Woken(b, p), b.strategy, p, Decrement(b), batches \ {b})
    BY DEF Fail
<1>4. pushes' = pushes
    BY <1>1, <1>2, <1>3, FS_EmptySet
<1> HIDE DEF again, nth
<1>5. /\ p \in PlaceType
      /\ \A r \in Requests \ b.items : p[r] = place[r]
      /\ \A r \in b.items : /\ p[r].at \in Settled
                            /\ p[r].stamp = place[r].stamp /\ p[r].array = place[r].array
    BY <1>1, <1>2 DEF PlaceType, At, Settled, Executed
<1> HIDE DEF p
<1> QED BY <1>3, <1>4, <1>5, SettleInOrder DEF OrderInv

\* A call that asks for objects.
LEMMA GetMetaInOrder ==
    ASSUME InOrder, OrderInv, NEW kind \in {"dashboard", "button"}, NEW s \in Strategies,
           GetMeta(kind, s)
    PROVE  /\ Orderly(place', asked', generation', batches')
           /\ CalledFromFlight /\ cache' = {} /\ pushes' = asked'
<1>1. PICK n \in 0 .. MaxCall : \E defs \in Calls(n) :
          /\ AddToQueue(kind, n, defs)
          /\ UNCHANGED <<generation, cache>>
          /\ ProcessSingleQueue(TRUE, s, Pushed(n), requestInProgress[s], batches)
    BY DEF GetMeta
<1>2. PICK defs \in Calls(n) : AddToQueue(kind, n, defs)
    BY <1>1
<1>3. /\ Orderly(Pushed(n), asked', generation, batches) /\ pushes' = asked' /\ asked' \in Nat
      /\ \A r \in Requests : Pushed(n)[r].at = "queued" => r <= asked'
      /\ \A r \in Requests : Pushed(n)[r].at # "queued" => Pushed(n)[r] = place[r]
    BY <1>2, PushInOrder
<1>4. item' \in [Requests -> Definitions] /\ Pushed(n) \in PlaceType /\ cache' = {}
    BY <1>1, <1>2, PushInvariant DEF OrderInv
<1>5. /\ Orderly(place', asked', generation, batches')
      /\ \A r \in Requests : place'[r].at \in Executed => place'[r] = Pushed(n)[r]
    BY <1>1, <1>3, <1>4, ProcessInOrder
<1>6. CalledFromFlight
    BY <1>3, <1>5 DEF CalledFromFlight, Executed
<1> QED BY <1>1, <1>3, <1>4, <1>5, <1>6

\* Every step keeps the order.
LEMMA OrderStep ==
    ASSUME InOrder, OrderInv, [Next]_vars
    PROVE  OrderInv' /\ CalledFromFlight
<1>1. IInv /\ IInv'
    BY NextInvariant DEF OrderInv
<1> SUFFICES /\ Orderly(place', asked', generation', batches')
             /\ CalledFromFlight /\ cache' = {} /\ pushes' = asked'
    BY <1>1 DEF OrderInv, Orderly, PushedOnce, FirstComeFirstServed, Carried
<1>2. /\ cache = {} /\ pushes = asked /\ PushedOnce(place, asked, generation)
      /\ FirstComeFirstServed(place, generation) /\ Carried(place, batches)
      /\ Orderly(place, asked, generation, batches)
    BY DEF OrderInv, Orderly
<1>3. CASE GetMetaForDashboards \/ GetMetaForRelationalButtons
    BY <1>3, GetMetaInOrder
       DEF GetMetaForDashboards, GetMetaForRelationalButtons, Strategies
<1>4. CASE \E kind \in {"dashboard", "button"} : GetMetaThrows(kind)
    <2>1. PICK kind \in {"dashboard", "button"}, n \in 0 .. MaxCall :
              \E defs \in Calls(n) : AddToQueue(kind, n, defs) /\ place' = Pushed(n)
        BY <1>4 DEF GetMetaThrows
    <2>2. UNCHANGED <<generation, cache, batches>>
        BY <1>4 DEF GetMetaThrows
    <2>3. /\ Orderly(Pushed(n), asked', generation, batches) /\ pushes' = asked'
          /\ \A r \in Requests : Pushed(n)[r].at # "queued" => Pushed(n)[r] = place[r]
        BY <2>1, PushInOrder
    <2>4. CalledFromFlight
        BY <2>1, <2>3 DEF CalledFromFlight, Executed
    <2> QED BY <1>2, <2>1, <2>2, <2>3, <2>4
<1>5. CASE \E b \in batches : Respond(b)
    BY <1>5, RespondInOrder DEF Respond
<1>6. CASE \E b \in batches : Fail(b)
    BY <1>6, FailInOrder
<1>7. CASE FlushQueues
    <2>1. /\ generation' = generation + 1 /\ generation \in Nat
          /\ UNCHANGED <<asked, place, pushes, cache, batches>>
        BY <1>1, <1>7 DEF FlushQueues, IInv, TypeOK
    <2>2. \A r \in Requests : place[r].array \in Nat /\ place[r].array <= generation
        BY <1>1, <1>2 DEF PushedOnce, IInv, TypeOK
    <2>3. PushedOnce(place, asked, generation') /\ FirstComeFirstServed(place, generation')
        BY <1>2, <2>1, <2>2 DEF PushedOnce, FirstComeFirstServed
    <2>4. CalledFromFlight
        BY <2>1 DEF CalledFromFlight
    <2> QED BY <1>2, <2>1, <2>3, <2>4 DEF Orderly
<1>8. CASE FlushRelationalButtonsFromQueue
    <2>1. PICK gone \in SUBSET Requests : gone = ButtonsInQueue
        BY DEF ButtonsInQueue
    <2>2. /\ \A r \in gone : /\ place[r].at = "queued" /\ place'[r].at = "flushed"
                             /\ place'[r].stamp = place[r].stamp
                             /\ place'[r].array = place[r].array
          /\ \A r \in Requests \ gone : place'[r] = place[r]
          /\ UNCHANGED <<asked, pushes, generation, cache, batches>>
        BY <1>1, <1>8, <2>1 DEF FlushRelationalButtonsFromQueue, ButtonsInQueue, IInv, TypeOK
    <2>3. \A r \in Requests :
              /\ place'[r].stamp = place[r].stamp /\ place'[r].array = place[r].array
              /\ place'[r].at = place[r].at \/ place'[r].at = "flushed"
        BY <2>2
    <2>4. "flushed" \notin Served /\ "flushed" \notin Settled /\ "flushed" \notin Executed
        BY DEF Served, Settled, Executed
    <2>5. PushedOnce(place', asked, generation) /\ FirstComeFirstServed(place', generation)
        BY <1>2, <2>3, <2>4 DEF PushedOnce, FirstComeFirstServed
    <2>6. Carried(place', batches) /\ CalledFromFlight
        BY <1>2, <2>3, <2>4 DEF Carried, CalledFromFlight
    <2> QED BY <1>2, <2>2, <2>5, <2>6 DEF Orderly
<1>9. CASE Expire \/ UNCHANGED vars
    <2>1. cache' = {} /\ UNCHANGED <<asked, place, pushes, generation, batches>>
        BY <1>2, <1>9 DEF Expire, vars
    <2> QED BY <1>2, <2>1 DEF CalledFromFlight
<1> QED BY <1>3, <1>4, <1>5, <1>6, <1>7, <1>8, <1>9 DEF Next

\* Nothing is out of order when the service is made.
LEMMA OrderInit == Init => OrderInv
<1> SUFFICES ASSUME Init PROVE OrderInv
    OBVIOUS
<1>1. PushedOnce(place, asked, generation)
    BY DEF Init, PushedOnce, Requests
<1>2. FirstComeFirstServed(place, generation) /\ Carried(place, batches)
    BY DEF Init, FirstComeFirstServed, Carried, Served, Settled, Executed
<1> QED BY <1>1, <1>2, InitInvariant DEF Init, OrderInv, Orderly

\* The comment on the counters is right of a service that has one strategy with one
\* msearch at a time and no retry, no cache, and queries of one index: a callback is
\* executed only if those of all the later objects of its id are still to come.
THEOREM InOrderNotStale ==
    ASSUME InOrder
    PROVE  Spec => NoStaleCallback
<1>1. ASSUME OrderInv, [Next]_vars
      PROVE  [\A r, later \in Requests :
                (/\ r < later
                 /\ item[r].id = item[later].id
                 /\ place[later].at \in Executed
                 /\ place[r].at \notin Executed) => place'[r].at \notin Executed]_vars
    <2>1. CalledFromFlight
        BY <1>1, InOrder, OrderStep
    <2>2. FirstComeFirstServed(place, generation)
        BY <1>1 DEF OrderInv, Orderly
    <2> QED BY <2>1, <2>2 DEF CalledFromFlight, FirstComeFirstServed, Settled
<1>2. OrderInv /\ [Next]_vars => OrderInv'
    BY InOrder, OrderStep
<1> QED BY <1>1, <1>2, OrderInit, PTL DEF Spec, NoStaleCallback
=============================================================================
