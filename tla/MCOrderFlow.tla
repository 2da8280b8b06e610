---------------------------- MODULE MCOrderFlow ----------------------------
(***************************************************************************)
(* OrderFlow for TLC.                                                      *)
(***************************************************************************)
EXTENDS OrderFlow, TLC

\* Sessions of the same kind are interchangeable.
Symmetry == Permutations(Importers) \cup Permutations(Confirmers)

\* Every SKU is mapped from the start.
MappedInit == Init /\ mapped = Orders

MappedSpec == MappedInit /\ [][Next]_vars /\ Fairness

\* No SKU is mapped, nothing fails, and nobody but the importers acts: each
\* run ends in error records, which need no PlentyONE ids, so runs overlap and
\* abort each other without end.
ImportersOnly == \E i \in Importers : Import(i) \/ EndFlush(i)

UnmappedInit == Init /\ mapped = {}

UnmappedSpec ==
    /\ UnmappedInit
    /\ [][ImportersOnly]_vars
    /\ Fairness

\* Moreover a statement that waits for a row lock is answered in the end: a
\* released lock passes to a transaction that asked for it, in Postgres.
QueuedSpec ==
    /\ UnmappedSpec
    /\ \A s \in Sessions, o \in Orders :
          SF_vars(FlushOne(s, o) \/ FlushConflict(s, o))

=============================================================================
