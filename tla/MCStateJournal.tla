--------------------------- MODULE MCStateJournal ---------------------------
(* Small instances of StateJournalHistory.                                  *)
EXTENDS StateJournalHistory, TLC

CONSTANTS decl, stream, viewport, matrix, null, v1, v2, d0, d1, b1

MCValue == {null, v1}
MCStreamValue == {null, v1, v2}
MCBlock == {b1}
MCLightDesc == {d0, d1}

\* A declaration, a stream that the UP draws clear and a reset clears through
\* its setter, the viewport, which a target change and a reset rewrite, and a
\* transform.
WideKey == {decl, stream, viewport, matrix}
WideSlotValue == [k \in WideKey |-> IF k = stream THEN MCStreamValue ELSE MCValue]
WideBlockTypeKey == {{decl}, {viewport}}
JustStream == {stream}
JustViewport == {viewport}
JustMatrix == {matrix}

\* v1 is a buffer at some offset, v2 the same buffer at offset 0.
MCKeepOffset(saved, current) ==
  IF current = null THEN null ELSE IF saved = null THEN v2 ELSE saved

\* The keys and lights in which a state of the device or of a block differs
\* from what it was at first.
StateBlocks == {b \in {block[b1], recorder, journal, journalCache} : b # None}
Touched == {k \in Key : key[k] # null \/ \E b \in StateBlocks : k \in b.keys \/ b.value[k] # null}
LightsAtRest ==
  lightCount = 0 /\ \A b \in StateBlocks : b.lightChanges \cup b.lightEnabledChanges = {}

\* What is explored: stream and declaration, viewport and transform, or lights,
\* while the others are as they were at first.
OneGroup ==
  \/ Touched \subseteq {decl, stream} /\ LightsAtRest
  \/ Touched \subseteq {viewport, matrix} /\ LightsAtRest /\ serial <= 3
  \/ Touched = {} /\ serial <= 3

\* A transform and one light.
MatrixValue == [k \in JustMatrix |-> MCValue]
NoneTypeKey == {{}}
NoKey == {}
NoOffset(saved, current) == current

=============================================================================
