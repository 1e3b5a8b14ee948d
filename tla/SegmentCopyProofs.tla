-------------------------- MODULE SegmentCopyProofs --------------------------
(***************************************************************************)
(* The abstract specification delivers every row exactly once and in       *)
(* order, for any set of accounts and any number of rows.                  *)
(***************************************************************************)
EXTENDS SegmentCopy, TLAPS

\* A segment ends at a row that the source table had when it was chosen.
SegmentsOrdered ==
    \A b \in BA : segment[b].start <= segment[b].end /\ segment[b].end <= newest[b]

SegmentInv == SegmentTypeOK /\ SegmentsOrdered /\ CopiedInOrder

\* Every behaviour of SegmentSpec keeps the strengthened invariant: the guard of
\* Advance turns "once at most" for the old segment into "exactly once".
THEOREM SegmentInvariance ==
    ASSUME MaxRecord \in Nat
    PROVE  SegmentSpec => []SegmentInv
<1> USE DEF SegmentInv, SegmentTypeOK, SegmentsOrdered,
        CopiedInOrder, InSegment, Record
<1>1. SegmentInit => SegmentInv
  BY DEF SegmentInit
<1>2. SegmentInv /\ [SegmentNext]_segmentVars => SegmentInv'
  <2> SUFFICES ASSUME SegmentInv, [SegmentNext]_segmentVars
               PROVE  SegmentInv'
    OBVIOUS
  <2>1. ASSUME NEW b \in BA, Arrive(b)
        PROVE  SegmentInv'
    <3>1. /\ newest' \in [BA -> Nat]
          /\ \A a \in BA : newest[a] <= newest'[a]
      BY SMTT(40), <2>1 DEF Arrive
    <3>2. segment' = segment /\ table' = table
      BY <2>1 DEF Arrive
    <3>3. SegmentsOrdered'
      BY <3>1, <3>2
    <3> QED
      BY <3>1, <3>2, <3>3
  <2>2. ASSUME NEW b \in BA, Advance(b)
        PROVE  SegmentInv'
    <3> PICK end \in segment[b].end .. newest[b] :
               segment' = [segment EXCEPT ![b] = [start |-> @.end, end |-> end]]
      BY <2>2 DEF Advance
    <3>1. /\ SegmentTypeOK'
          /\ SegmentsOrdered'
      BY SMTT(40), <2>2 DEF Advance
    <3>2. ASSUME NEW a \in BA, NEW x \in Record
          PROVE  /\ x <= segment'[a].start => table'[a][x] = 1
                 /\ InSegment(a, x)'       => table'[a][x] \in {0, 1}
                 /\ x > segment'[a].end    => table'[a][x] = 0
      BY SMTT(40), <2>2, <3>2 DEF Advance
    <3> QED
      BY <3>1, <3>2
  <2>3. ASSUME NEW bas \in SUBSET BA, CopySegments(bas)
        PROVE  SegmentInv'
    <3>1. table' \in [BA -> [Record -> Nat]]
      BY <2>3 DEF CopySegments
    <3>2. ASSUME NEW a \in BA, NEW x \in Record
          PROVE  /\ x <= segment'[a].start => table'[a][x] = 1
                 /\ InSegment(a, x)'       => table'[a][x] \in {0, 1}
                 /\ x > segment'[a].end    => table'[a][x] = 0
      BY <2>3, <3>2 DEF CopySegments
    <3> QED
      BY <2>3, <3>1, <3>2 DEF CopySegments
  <2>4. CASE UNCHANGED segmentVars
    BY <2>4 DEF segmentVars
  <2> QED
    BY <2>1, <2>2, <2>3, <2>4 DEF SegmentNext
<1> QED
  BY <1>1, <1>2, PTL DEF SegmentSpec

\* Exactly-once delivery of everything before the current segment, and nothing
\* after it, is what SegmentSpec promises (CopiedInOrder).
THEOREM CopiesInOrder ==
    ASSUME MaxRecord \in Nat
    PROVE  SegmentSpec => []CopiedInOrder
<1>1. SegmentInv => CopiedInOrder
  BY DEF SegmentInv
<1> QED
  BY <1>1, SegmentInvariance, PTL

-----------------------------------------------------------------------------
LEMMA StepPrefix ==
    ASSUME MaxRecord \in Nat, SegmentInv, TableIsPrefix, [SegmentNext]_segmentVars
    PROVE  TableIsPrefix'
<1> SUFFICES ASSUME NEW a \in BA
             PROVE  \E n \in {segment'[a].start, segment'[a].end} :
                       \A x \in Record : table'[a][x] = IF x <= n THEN 1 ELSE 0
  BY DEF TableIsPrefix
<1>1. PICK n \in {segment[a].start, segment[a].end} :
         \A x \in Record : table[a][x] = IF x <= n THEN 1 ELSE 0
  BY DEF TableIsPrefix
<1>2. CASE segment'[a] = segment[a] /\ table'[a] = table[a]
  BY <1>1, <1>2
<1>3. ASSUME NEW b \in BA, Advance(b)
      PROVE  \E m \in {segment'[a].start, segment'[a].end} :
                \A x \in Record : table'[a][x] = IF x <= m THEN 1 ELSE 0
  <2>1. PICK end \in segment[b].end .. newest[b] :
             segment' = [segment EXCEPT ![b] = [start |-> @.end, end |-> end]]
    BY <1>3 DEF Advance
  <2>2. CASE a = b
    <3>1. segment'[a].start = segment[a].end /\ table' = table
      BY <1>3, <2>1, <2>2 DEF Advance, SegmentInv, SegmentTypeOK
    <3>2. \A x \in Record : table[a][x] = IF x <= segment[a].end THEN 1 ELSE 0
      BY <1>3, <2>2 DEF Advance, SegmentInv, SegmentTypeOK, CopiedInOrder, InSegment, Record
    <3> QED  BY <3>1, <3>2
  <2>3. CASE a # b
    BY <1>2, <1>3, <2>1, <2>3 DEF Advance, SegmentInv, SegmentTypeOK
  <2> QED  BY <2>2, <2>3
<1>4. ASSUME NEW bas \in SUBSET BA, CopySegments(bas)
      PROVE  \E m \in {segment'[a].start, segment'[a].end} :
                \A x \in Record : table'[a][x] = IF x <= m THEN 1 ELSE 0
  <2>1. segment' = segment
    BY <1>4 DEF CopySegments
  <2>2. CASE a \in bas
    <3>1. \A x \in Record : table'[a][x] = IF x <= segment[a].end THEN 1 ELSE 0
      BY <1>4, <2>2
         DEF CopySegments, SegmentInv, SegmentTypeOK, SegmentsOrdered, CopiedInOrder, InSegment,
             Record
    <3> QED  BY <2>1, <3>1
  <2>3. CASE a \notin bas
    <3>1. \A x \in Record : table'[a][x] = table[a][x]
      BY <1>4, <2>3 DEF CopySegments
    <3> QED  BY <1>1, <2>1, <3>1
  <2> QED  BY <2>2, <2>3
<1> QED
  BY <1>2, <1>3, <1>4 DEF SegmentNext, Arrive, segmentVars

\* Whatever is in the target table is what the source table has up to a bound of the
\* segment, so a reader of it never meets half a segment or a gap (TableIsPrefix).
THEOREM CopiesWholeSegments ==
    ASSUME MaxRecord \in Nat
    PROVE  SegmentSpec => []TableIsPrefix
<1>1. SegmentInit => TableIsPrefix
  <2> SUFFICES ASSUME SegmentInit, NEW b \in BA
               PROVE  \E n \in {segment[b].start, segment[b].end} :
                         \A x \in Record : table[b][x] = IF x <= n THEN 1 ELSE 0
    BY DEF TableIsPrefix
  <2>1. segment[b].start = 0
    BY DEF SegmentInit
  <2>2. \A x \in Record : table[b][x] = IF x <= segment[b].start THEN 1 ELSE 0
    BY <2>1 DEF SegmentInit, Record
  <2> QED  BY <2>2
<1>2. SegmentInv /\ TableIsPrefix /\ [SegmentNext]_segmentVars => TableIsPrefix'
  BY StepPrefix
<1> QED
  BY <1>1, <1>2, SegmentInvariance, PTL DEF SegmentSpec

\* The target table only grows, and only at its end (TableGrowsAtItsEnd).
THEOREM GrowsAtItsEnd ==
    ASSUME MaxRecord \in Nat
    PROVE  SegmentSpec => TableGrowsAtItsEnd
<1> DEFINE Grows == \A b \in BA : \A x \in Record : table'[b][x] # table[b][x] =>
                       table[b][x] = 0 /\ \A y \in Record : table[b][y] # 0 => y < x
<1>1. SegmentInv /\ [SegmentNext]_segmentVars => Grows
  <2> SUFFICES ASSUME SegmentInv, [SegmentNext]_segmentVars, NEW b \in BA, NEW x \in Record,
                      table'[b][x] # table[b][x]
               PROVE  table[b][x] = 0 /\ \A y \in Record : table[b][y] # 0 => y < x
    OBVIOUS
  <2>1. PICK bas \in SUBSET BA : CopySegments(bas)
    BY DEF SegmentNext, Arrive, Advance, segmentVars
  <2>2. b \in bas /\ InSegment(b, x)
    BY <2>1 DEF CopySegments
  <2> QED
    BY <2>1, <2>2 DEF CopySegments, SegmentInv, SegmentTypeOK, CopiedInOrder, InSegment, Record
<1>2. SegmentInv /\ [SegmentNext]_segmentVars => [Grows]_segmentVars
  BY <1>1
<1> QED
  BY <1>2, SegmentInvariance, PTL DEF SegmentSpec, TableGrowsAtItsEnd
=============================================================================
