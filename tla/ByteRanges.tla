----------------------------- MODULE ByteRanges -----------------------------
(***************************************************************************)
(* Half-open byte ranges as storage and the scheduler compute with them:   *)
(* the canonical list of completed ranges, the gaps it leaves, and the     *)
(* requests that are cut from the gaps, one after the other.               *)
(***************************************************************************)
EXTENDS Integers, Sequences, SequencesExt

CONSTANTS
  MinRequest, MaxRequest,   \* bytes of one request, but for the end of a gap
  ChunksPerWorker,
  MaxRequests,              \* requests of one plan
  MaxCompleted              \* entries of the list of completed ranges

ASSUME RequestBounds ==
  /\ MinRequest \in Nat \ {0} /\ MaxRequest \in Nat /\ MinRequest <= MaxRequest
  /\ ChunksPerWorker \in Nat \ {0}
  /\ MaxRequests \in Nat /\ MaxCompleted \in Nat

Bytes(r) == r.start .. r.end - 1

Overlaps(r, s) == r.start < s.end /\ s.start < r.end

BytesOf(ranges) == UNION {Bytes(ranges[k]) : k \in DOMAIN ranges}

Ceiling(a, b) == (a + b - 1) \div b

-----------------------------------------------------------------------------
\* validate_recovered_coverage, and the checks of missing_ranges
Canonical(total, completed) ==
  /\ Len(completed) <= MaxCompleted
  /\ \A k \in DOMAIN completed : completed[k].end <= total
  /\ \A k \in 2 .. Len(completed) : completed[k - 1].end < completed[k].start

\* Sorted, the k-th range has k - 1 before it.
InOrder(ranges) ==
  [k \in 1 .. Cardinality(ranges) |->
     CHOOSE r \in ranges : Cardinality({s \in ranges : s.start < r.start}) = k - 1]

\* insert_completed extends the last range of merged, or begins another.
Merge(merged, r) ==
  IF merged # <<>> /\ Last(merged).end = r.start
  THEN [merged EXCEPT ![Len(merged)].end = r.end]
  ELSE Append(merged, r)

\* Mutant: only the range before is looked at, not the one after.
InsertBefore(completed, r) ==
  InOrder(ToSet(Merge(SelectSeq(completed, LAMBDA s : s.end <= r.start), r))
          \cup ToSet(SelectSeq(completed, LAMBDA s : r.end <= s.start)))

InsertCompleted(completed, r) == FoldLeft(Merge, <<>>, InOrder(ToSet(completed) \cup {r}))

ExactlyCovers(completed, total) ==
  completed = IF total = 0 THEN <<>> ELSE <<[start |-> 0, end |-> total]>>

\* missing_ranges: before each completed range, and after the last.
MissingRanges(total, completed) ==
  LET bound(k) == IF k = 0 THEN 0 ELSE completed[k].end
      next(k) == IF k = Len(completed) THEN total ELSE completed[k + 1].start
      gaps == {[start |-> bound(k), end |-> next(k)] : k \in 0 .. Len(completed)}
  IN InOrder({g \in gaps : g.start < g.end})

SizeOf(ranges) == FoldLeft(LAMBDA sum, r : sum + r.end - r.start, 0, ranges)

RequestChunkSize(missing, workers) ==
  LET ideal == Ceiling(missing, workers * ChunksPerWorker)
  IN IF ideal < MinRequest THEN MinRequest ELSE IF ideal > MaxRequest THEN MaxRequest ELSE ideal

\* validate_request_plan
PlanFits(missing, size) ==
  FoldLeft(LAMBDA count, r : count + Ceiling(r.end - r.start, size), 0, missing) <= MaxRequests

\* pop_chunk: the request, and the gaps that are left
Chunk(pending, size) ==
  LET gap == Head(pending) IN
  [start |-> gap.start,
   end |-> IF gap.start + size < gap.end THEN gap.start + size ELSE gap.end]

\* Mutant: the rest of the gap starts one byte late.
AfterLongerChunk(pending, size) ==
  LET gap == Head(pending) IN
  IF gap.start + size + 1 < gap.end
  THEN <<[start |-> gap.start + size + 1, end |-> gap.end]>> \o Tail(pending)
  ELSE Tail(pending)

AfterChunk(pending, size) ==
  LET gap == Head(pending) IN
  IF gap.start + size < gap.end
  THEN <<[start |-> gap.start + size, end |-> gap.end]>> \o Tail(pending)
  ELSE Tail(pending)
=============================================================================
