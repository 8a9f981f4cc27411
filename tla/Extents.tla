------------------------------- MODULE Extents -------------------------------
(***************************************************************************)
(* The extent arithmetic of the bounded write-back                         *)
(* (src/src/devices/src/virtio/block/writeback.rs): ExtentSet as the       *)
(* sorted vector and byte count of the code, DirtyRange::for_write and the *)
(* binary search of plannable_prefix.  The controller's two extent sets    *)
(* evolve as it makes them evolve, beside the sets of bytes they stand     *)
(* for.                                                                    *)
(***************************************************************************)
EXTENDS Integers, Sequences, FiniteSets

Seqs == INSTANCE SequencesExt

CONSTANTS
    PageSize,    \* host_page_size()
    Last64,      \* u64::MAX
    FileBytes,   \* bytes of the backing file
    Hard,        \* maximum_bytes
    MaxExtents   \* MAX_EXTENTS_PER_GENERATION

ASSUME ExtentsAssumption ==
    /\ PageSize \in Nat \ {0} /\ Last64 \in Nat /\ MaxExtents \in Nat \ {0}
    /\ FileBytes \in 1..Last64 /\ FileBytes % PageSize = 0
    /\ Hard \in 1..FileBytes /\ Hard % PageSize = 0

VARIABLES
    tracked, current, submitted,  \* ExtentSets: the charge, the newest generation, an older one
    bytes                         \* for each, the bytes it stands for

vars == <<tracked, current, submitted, bytes>>

Range64 == [start : 0..Last64, end : 0..Last64]
Bytes(range) == range.start..(range.end - 1)
ExtentLen(range) == range.end - range.start
Smaller(a, b) == IF a < b THEN a ELSE b
Larger(a, b) == IF a > b THEN a ELSE b

-----------------------------------------------------------------------------
Overflow == "overflow"

AlignDown(value) == value - (value % PageSize)

\* Mutant: an aligned end is rounded up too.
ForWrite_NextPage(offset, length) ==
    [start |-> AlignDown(offset), end |-> AlignDown(offset + length + PageSize)]

\* for_write for a non-zero length: two checked additions.
ForWrite(offset, length) ==
    IF offset + length > Last64 \/ offset + length + PageSize - 1 > Last64 THEN Overflow
    ELSE [start |-> AlignDown(offset), end |-> AlignDown(offset + length + PageSize - 1)]

NoExtents == [bytes |-> 0, ranges |-> <<>>]

\* partition_point: the length of the prefix that satisfies the test.
PartitionPoint(test) == Cardinality({i \in DOMAIN test : \A j \in 1..i : test[j]})

\* The ranges before the first one that ends beyond, or starts at or beyond, bound.
EndedBy(set, bound) == PartitionPoint([i \in DOMAIN set.ranges |-> set.ranges[i].end <= bound])
StartedBefore(set, bound) ==
    PartitionPoint([i \in DOMAIN set.ranges |-> set.ranges[i].start < bound])

IntersectionLen(a, b) ==
    Larger(0, Smaller(a.end, b.end) - Larger(a.start, b.start))

AdditionalBytes(set, range) ==
    LET first == EndedBy(set, range.start)
        last == StartedBefore(set, range.end)
        overlaps == [i \in 1..(last - first) |-> IntersectionLen(set.ranges[first + i], range)]
    IN  ExtentLen(range) - Seqs!FoldLeft(LAMBDA a, b : a + b, 0, overlaps)

\* The scan of insert and extent_count_after_insert: merge what the growing
\* range touches, and stop at the first range beyond it.
Merge(m, r) ==
    IF m.stopped \/ r.start > m.range.end THEN [m EXCEPT !.stopped = TRUE]
    ELSE [m EXCEPT !.range = [start |-> Smaller(@.start, r.start), end |-> Larger(@.end, r.end)],
                   !.removed = @ + ExtentLen(r), !.count = @ + 1]

\* Mutant: adjacent extents are not merged.
FirstTouched_Overlapping(set, range) == EndedBy(set, range.start)

FirstTouched(set, range) ==
    PartitionPoint([i \in DOMAIN set.ranges |-> set.ranges[i].end < range.start])

Merged(set, range) ==
    Seqs!FoldLeft(Merge, [range |-> range, removed |-> 0, count |-> 0, stopped |-> FALSE],
             SubSeq(set.ranges, FirstTouched(set, range) + 1, Len(set.ranges)))

Splice(ranges, first, count, replacements) ==
    SubSeq(ranges, 1, first) \o replacements \o SubSeq(ranges, first + count + 1, Len(ranges))

ExtentCountAfterInsert(set, range) == Len(set.ranges) - Merged(set, range).count + 1

Insert(set, range) ==
    LET m == Merged(set, range)
    IN  [bytes |-> set.bytes + ExtentLen(m.range) - m.removed,
         ranges |-> Splice(set.ranges, FirstTouched(set, range), m.count, <<m.range>>)]

\* Mutant: what is left on the far side of the removed range is dropped.
Rest_LeftOnly(r, range) ==
    IF r.start < range.start THEN <<[start |-> r.start, end |-> range.start]>> ELSE <<>>

\* What is left of r on either side of the removed range.
Rest(r, range) ==
    (IF r.start < range.start THEN <<[start |-> r.start, end |-> range.start]>> ELSE <<>>)
    \o (IF r.end > range.end THEN <<[start |-> range.end, end |-> r.end]>> ELSE <<>>)

Remove(set, range) ==
    LET first == EndedBy(set, range.start)
        last == StartedBefore(set, range.end)
        hit == SubSeq(set.ranges, first + 1, last)
    IN  [bytes |-> Seqs!FoldLeft(LAMBDA b, r : b - IntersectionLen(r, range), set.bytes, hit),
         ranges |-> Splice(set.ranges, first, Len(hit),
                           Seqs!FoldLeft(LAMBDA rest, r : rest \o Rest(r, range), <<>>, hit))]

-----------------------------------------------------------------------------
(* plannable_prefix under a budget.                                        *)

\* Mutant: credits still owed to the disk are not counted.
FitsBudget_GenerationOnly(range, budget) ==
    current.bytes + AdditionalBytes(current, range) <= budget

FitsBudget(range, budget) ==
    /\ current.bytes + AdditionalBytes(current, range) <= budget
    /\ tracked.bytes + AdditionalBytes(tracked, range) <= budget

Candidate(low, high) == low + (high - low + 1) \div 2

Search(offset, capped, budget) ==
    LET search[low \in 0..capped, high \in -1..capped] ==
            IF low >= high THEN low
            ELSE LET candidate == Candidate(low, high)
                 IN  IF FitsBudget(ForWrite(offset, candidate), budget)
                     THEN search[candidate, high]
                     ELSE search[low, candidate - 1]
    IN  search[0, capped]

\* Mutant: fragmentation is not bounded.
PlannablePrefix_AnyExtents(offset, requested, budget) ==
    Search(offset, Smaller(requested, budget), budget)

\* 0 stands for None.
PlannablePrefix(offset, requested, budget) ==
    IF ExtentCountAfterInsert(current, ForWrite(offset, 1)) > MaxExtents THEN 0
    ELSE Search(offset, Smaller(requested, budget), budget)

-----------------------------------------------------------------------------
Init ==
    /\ tracked = NoExtents /\ current = NoExtents /\ submitted = NoExtents
    /\ bytes = [tracked |-> {}, current |-> {}, submitted |-> {}]

\* plan_write and commit_range: a planned prefix of a write joins two of the sets.
Commit(offset, requested, budget) ==
    LET length == PlannablePrefix(offset, requested, budget)
        range == ForWrite(offset, length)
    IN  /\ offset + requested <= FileBytes
        /\ length > 0
        /\ current' = Insert(current, range) /\ tracked' = Insert(tracked, range)
        /\ bytes' = [bytes EXCEPT !.current = @ \cup Bytes(range), !.tracked = @ \cup Bytes(range)]
        /\ UNCHANGED submitted

\* submit_current_generation takes the current extents.
Submit ==
    /\ current.ranges # <<>> /\ submitted.ranges = <<>>
    /\ submitted' = current /\ current' = NoExtents
    /\ bytes' = [bytes EXCEPT !.submitted = bytes.current, !.current = {}]
    /\ UNCHANGED tracked

\* apply_completion releases the older generation's extents but those rewritten since.
Complete ==
    LET releasable == Seqs!FoldLeft(Remove, submitted, current.ranges)
    IN  /\ submitted.ranges # <<>>
        /\ submitted' = NoExtents
        /\ tracked' = Seqs!FoldLeft(Remove, tracked, releasable.ranges)
        /\ bytes' = [bytes EXCEPT !.tracked = @ \ (bytes.submitted \ bytes.current),
                                  !.submitted = {}]
        /\ UNCHANGED current

Offsets == 0..(FileBytes - 1)
Budgets == {b \in PageSize..Hard : b % PageSize = 0}
PageRanges == {r \in [start : 0..FileBytes, end : 0..FileBytes] :
                  r.start < r.end /\ r.start % PageSize = 0 /\ r.end % PageSize = 0}

Next ==
    \/ \E offset \in Offsets, requested \in 1..FileBytes, budget \in Budgets :
          Commit(offset, requested, budget)
    \/ Submit
    \/ Complete

Spec == Init /\ [][Next]_vars

-----------------------------------------------------------------------------
\* The reference: how many runs a set of bytes has.
Runs(covered) == Cardinality({b \in covered : b - 1 \notin covered})

TypeOK ==
    /\ {tracked, current, submitted} \subseteq [bytes : 0..FileBytes, ranges : Seq(Range64)]
    /\ bytes \in [{"tracked", "current", "submitted"} -> SUBSET Offsets]

\* The vector is sorted, disjoint and merged, the byte count is its total, and it
\* stands for exactly the bytes inserted and not removed (insert, remove).
Stands(set, covered) ==
    /\ \A i \in DOMAIN set.ranges : set.ranges[i].start < set.ranges[i].end
    /\ \A i \in 1..(Len(set.ranges) - 1) : set.ranges[i].end < set.ranges[i + 1].start
    /\ UNION {Bytes(set.ranges[i]) : i \in DOMAIN set.ranges} = covered
    /\ set.bytes = Cardinality(covered)

ExtentsExact ==
    /\ Stands(tracked, bytes.tracked)
    /\ Stands(current, bytes.current)
    /\ Stands(submitted, bytes.submitted)

\* additional_bytes and extent_count_after_insert predict what insert would do.
QueriesExact ==
    \A range \in PageRanges :
        /\ AdditionalBytes(tracked, range) = Cardinality(Bytes(range) \ bytes.tracked)
        /\ ExtentCountAfterInsert(tracked, range) = Runs(bytes.tracked \cup Bytes(range))

\* plannable_prefix returns the longest prefix whose pages fit the budget: what
\* fits is monotone, so the binary search misses none.
PrefixMaximal ==
    \A offset \in Offsets, budget \in Budgets :
        LET pages(n) == Bytes(ForWrite(offset, n))
            fits(n) == /\ Cardinality(bytes.current \cup pages(n)) <= budget
                       /\ Cardinality(bytes.tracked \cup pages(n)) <= budget
        IN  \A requested \in 1..(FileBytes - offset) :
                LET n == PlannablePrefix(offset, requested, budget)
                IN  /\ n \in 0..Smaller(requested, budget)
                    /\ n > 0 => fits(n)
                    /\ n < Smaller(requested, budget)
                          /\ Runs(bytes.current \cup pages(1)) <= MaxExtents => ~fits(n + 1)

\* A reservation is checked for fragmentation by its first page only, yet no
\* commit takes the generation past MAX_EXTENTS_PER_GENERATION.
FragmentationBounded == Len(current.ranges) <= MaxExtents

=============================================================================
