---------------------------- MODULE MetaPromise ----------------------------
(***************************************************************************)
(* What the count service promises the callers of getMetaForDashboards and *)
(* getMetaForRelationalButtons: a request waits once it was asked, is      *)
(* settled (its callback executed, or its answer discarded) at most once   *)
(* or is abandoned by a flush, never both, and never comes back.  How many *)
(* requests travel together, how often one is retried and what the cache   *)
(* answers is not the caller's business.                                   *)
(***************************************************************************)
EXTENDS Integers

CONSTANT MaxAsked   \* bound: requests asked in a behaviour

VARIABLES asked, waiting, settled, abandoned

pvars == <<asked, waiting, settled, abandoned>>

Init == asked = 0 /\ waiting = {} /\ settled = {} /\ abandoned = {}

\* n requests are asked and some requests, maybe the new ones, settle at once from the cache.
Ask(n, done) ==
    /\ asked' = asked + n
    /\ done \subseteq waiting \cup (asked + 1 .. asked + n)
    /\ waiting' = (waiting \cup (asked + 1 .. asked + n)) \ done
    /\ settled' = settled \cup done
    /\ UNCHANGED abandoned

\* Some waiting requests are settled.
SettleSome(done) ==
    /\ done \subseteq waiting
    /\ waiting' = waiting \ done
    /\ settled' = settled \cup done
    /\ UNCHANGED <<asked, abandoned>>

\* Some waiting requests are given up.
Abandon(gone) ==
    /\ gone \subseteq waiting
    /\ waiting' = waiting \ gone
    /\ abandoned' = abandoned \cup gone
    /\ UNCHANGED <<asked, settled>>

Next ==
    \/ \E n \in 0 .. MaxAsked : \E done \in SUBSET (1 .. MaxAsked) : Ask(n, done)
    \/ \E done \in SUBSET (1 .. MaxAsked) : SettleSome(done)
    \/ \E gone \in SUBSET (1 .. MaxAsked) : Abandon(gone)

Spec == Init /\ [][Next]_pvars
=============================================================================
