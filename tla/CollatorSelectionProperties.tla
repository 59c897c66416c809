--------------------- MODULE CollatorSelectionProperties ---------------------
(***************************************************************************)
(* What the selection of collators promises.                               *)
(***************************************************************************)
EXTENDS CollatorSelection

\* The currency holds of each account exactly the deposit its candidacy was
\* registered with, whatever the bond has become since and whichever of the
\* three ways out a candidate takes; nobody is a candidate twice.
DepositsAreReserved ==
    /\ \A c, d \in candidates : c.who = d.who => c = d
    /\ \A c \in candidates : reserved[c.who] = c.deposit
    /\ \A a \in Account \ Members : reserved[a] = 0

\* Blocks are counted for authors of the present session only: nothing of an
\* earlier session is left to judge a collator by, and the set that is only
\* queued is not judged for a session it had no part in.
PerformanceIsOfThisSession == DOMAIN blocks \subseteq validators

\* The nearest-rank percentile of what the collators of the session produced:
\* the least of their counts that is not exceeded by baseline% of them.
IsPercentile(v) ==
    LET atMost(n) == {a \in DOMAIN blocks : blocks[a] <= n}
        reaches(n) == 100 * Cardinality(atMost(n)) >= baseline * Cardinality(DOMAIN blocks)
        counts == {blocks[a] : a \in DOMAIN blocks}
    IN  v \in counts /\ reaches(v) /\ \A n \in counts : reaches(n) => v <= n

\* Short of the percentile by more than the tolerated part of it.
FallsShort(a) ==
    a \in DOMAIN blocks /\ \E v \in {blocks[b] : b \in DOMAIN blocks} :
        IsPercentile(v) /\ 100 * blocks[a] < (100 - tolerance) * v

\* evict_bad_collators sorts, ranks, cuts and rounds; what it amounts to is that
\* a session's end removes exactly the candidates that fall short, however ties
\* are sorted, and nobody when the eviction is switched off.
EvictionIsByPercentile ==
    [][NewSession => {c.who : c \in candidates'} = {a \in Members : ~FallsShort(a)}]_vars

\* The set queued at a session's end is that of the invulnerables and of the
\* candidates as they are after the evictions made on the way, not of those
\* read before, as far as they have keys.
SeatsAreCurrent ==
    [][NewSession =>
        queued' = (invulnerables \cup {c.who : c \in candidates'}) \cap keys]_vars

\* Membership reaches the authors: one that leaves, is removed or is evicted
\* loses its seat, and one that joins and keeps its keys obtains one.
MembershipMovesSeats ==
    \A a \in Account :
        LET member == a \in invulnerables \cup Members IN
        /\ ~member ~> (a \notin validators \/ member)
        /\ (member /\ a \in keys) ~> (a \in validators \/ ~member \/ a \notin keys)
=============================================================================
