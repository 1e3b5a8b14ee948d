----------------------------- MODULE SegmentCopy -----------------------------
(***************************************************************************)
(* What each half of the import promises for the billing accounts, without *)
(* runs, workers, jobs, retries or leases: the rows of a table are copied  *)
(* one segment of export times after another, a segment is copied in one   *)
(* step, and the next one is chosen only after that.                       *)
(***************************************************************************)
EXTENDS Naturals

CONSTANTS
    BA,         \* the billing accounts
    MaxRecord   \* the newest export time a source table reaches

VARIABLES
    newest,     \* newest export time of each source table
    segment,    \* the segment (start, end] of each account
    table       \* target table: copies of each record of each account

segmentVars == <<newest, segment, table>>

Record == 1..MaxRecord

InSegment(b, x) == segment[b].start < x /\ x <= segment[b].end

SegmentInit ==
    /\ newest  = [b \in BA |-> 0]
    /\ segment = [b \in BA |-> [start |-> 0, end |-> 0]]
    /\ table   = [b \in BA |-> [x \in Record |-> 0]]

\* Rows are added to the source table.
Arrive(b) ==
    /\ newest[b] < MaxRecord
    /\ newest' = [newest EXCEPT ![b] = @ + 1]
    /\ UNCHANGED <<segment, table>>

\* The next segment starts at the end of this one and ends at a row that is there.
Advance(b) ==
    /\ \A x \in Record : InSegment(b, x) => table[b][x] = 1
    /\ \E end \in segment[b].end .. newest[b] :
          segment' = [segment EXCEPT ![b] = [start |-> @.end, end |-> end]]
    /\ UNCHANGED <<newest, table>>

\* The rows of the segments of some accounts, all of them missing so far, are added.
CopySegments(bas) ==
    /\ \A b \in bas : \A x \in Record : InSegment(b, x) => table[b][x] = 0
    /\ table' = [b \in BA |-> [x \in Record |->
          IF b \in bas /\ InSegment(b, x) THEN 1 ELSE table[b][x]]]
    /\ UNCHANGED <<newest, segment>>

SegmentNext == \/ \E b \in BA : Arrive(b) \/ Advance(b)
               \/ \E bas \in SUBSET BA : CopySegments(bas)

SegmentSpec == SegmentInit /\ [][SegmentNext]_segmentVars

-----------------------------------------------------------------------------
SegmentTypeOK ==
    /\ newest  \in [BA -> Nat]
    /\ segment \in [BA -> [start : Nat, end : Nat]]
    /\ table   \in [BA -> [Record -> Nat]]

\* Every row up to the current segment is in the target table exactly once, a row
\* of the segment at most once, and no later row at all.
CopiedInOrder ==
    \A b \in BA : \A x \in Record :
        /\ x <= segment[b].start => table[b][x] = 1
        /\ InSegment(b, x)       => table[b][x] \in {0, 1}
        /\ x > segment[b].end    => table[b][x] = 0

\* The target table is the source table up to one of the bounds of the segment: never
\* is a part of a segment to be seen, or a row without all the rows before it.
TableIsPrefix ==
    \A b \in BA : \E n \in {segment[b].start, segment[b].end} :
        \A x \in Record : table[b][x] = IF x <= n THEN 1 ELSE 0

\* No row is changed or removed, and a row that is added is newer than all that are there.
TableGrowsAtItsEnd ==
    [][\A b \in BA : \A x \in Record : table'[b][x] # table[b][x] =>
          table[b][x] = 0 /\ \A y \in Record : table[b][y] # 0 => y < x]_segmentVars
=============================================================================
