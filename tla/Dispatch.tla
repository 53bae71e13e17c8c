------------------------------ MODULE Dispatch ------------------------------
(***************************************************************************)
(* The table-driven engine (internal/pkg/dispatch) as operators: a table of *)
(* upper bounds, each with a flag, and the search of the flag of a value.   *)
(* A composite bit mask is the set of its flags.                            *)
(***************************************************************************)
EXTENDS Integers, Sequences

\* AddRangeConfig: append, then sort by upper bound.  The table is sorted
\* before, and sort.Slice on so short a slice is an insertion sort, so the new
\* entry lands behind all entries that are not greater.
AddRangeMutant(bounds, upperBound, flag) ==
    Append(bounds, [upperBound |-> upperBound, flag |-> flag])
AddRange(bounds, upperBound, flag) ==
    LET place == CHOOSE i \in 0 .. Len(bounds) :
                    /\ i > 0 => bounds[i].upperBound <= upperBound
                    /\ \A j \in i + 1 .. Len(bounds) : bounds[j].upperBound > upperBound
    IN  SubSeq(bounds, 1, place)
        \o <<[upperBound |-> upperBound, flag |-> flag]>>
        \o SubSeq(bounds, place + 1, Len(bounds))

\* sort.Search of the first index whose bound is at least value (from 0; the
\* length of the table if there is none), by bisection.
Search(bounds, value) ==
    LET n == Len(bounds)
        search[w \in (0 .. n) \X (0 .. n)] ==
            LET i == w[1]  j == w[2]
                h == (i + j) \div 2
            IN  IF i >= j THEN i
                ELSE IF bounds[h + 1].upperBound >= value THEN search[<<i, h>>]
                     ELSE search[<<h + 1, j>>]
    IN  search[<<0, n>>]

\* EvaluateRange: a value beyond the last bound falls into the last range.
EvaluateRange(bounds, value, noFlag) ==
    LET idx == Search(bounds, value)
        n == Len(bounds)
    IN  IF n = 0 THEN noFlag
        ELSE bounds[(IF idx >= n THEN n - 1 ELSE idx) + 1].flag
=============================================================================
