---------------------- MODULE GtaSaStateJournal_proofs ----------------------
(***************************************************************************)
(* Proofs about GtaSaStateJournal for every set of slots, lights and state *)
(* blocks: its type invariant, the exclusion of recorder and journal, and  *)
(* the soundness of the fast skip for applications that define a light     *)
(* before a journal can see it.                                            *)
(***************************************************************************)
EXTENDS GtaSaStateJournal, TLAPS

USE KeyAssumption, StreamAssumption, LightAssumption, OptionAssumption

-----------------------------------------------------------------------------
(* What the helpers return. *)

\* The empty block a recorder or a fresh journal starts from is a state block.
LEMMA EmptyBlockType == EmptyBlock \in StateBlock
  BY DEF EmptyBlock, StateBlock, UndefinedLight, LightState

\* Journaling slots before they are written yields a state block.
LEMMA CaptureKeysType ==
  ASSUME TypeOK, NEW j \in StateBlock, NEW touched \in SUBSET Key
  PROVE  CaptureKeys(j, touched) \in StateBlock
  BY DEF CaptureKeys, StateBlock, TypeOK

\* Journaling a light before SetLight yields a state block.
LEMMA CaptureLightType ==
  ASSUME TypeOK, NEW j \in StateBlock, NEW i \in LightIndex
  PROVE  CaptureLight(j, i) \in StateBlock
  BY DEF CaptureLight, StateBlock, LightState, TypeOK

\* Recording a light switch yields a state block.
LEMMA BlockLightEnableType ==
  ASSUME NEW b \in StateBlock, NEW i \in LightIndex, NEW enable \in BOOLEAN
  PROVE  BlockLightEnable(b, i, enable) \in StateBlock
<1>1. BlockSwitch(b.lights[i], enable) \in LightState
  <2>1. b.lights[i] \in LightState
    BY DEF StateBlock
  <2>2. QED
    BY <2>1 DEF BlockSwitch, LightState
<1>2. QED
  BY <1>1 DEF BlockLightEnable, StateBlock

\* Journaling a light before LightEnable yields a state block.
LEMMA CaptureLightEnableType ==
  ASSUME TypeOK, NEW j \in StateBlock, NEW i \in LightIndex
  PROVE  CaptureLightEnable(j, i) \in StateBlock
<1>1. (light[i].valid /\ light[i].enabled) \in BOOLEAN
  OBVIOUS
<1>2. QED
  BY <1>1, CaptureLightType, BlockLightEnableType DEF CaptureLightEnable

\* Capturing the device's current contents yields a state block.
LEMMA CaptureDeviceType ==
  ASSUME TypeOK, NEW b \in StateBlock, NEW kept
  PROVE  CaptureDevice(b, kept) \in StateBlock
<1>1. \A i \in LightIndex : light[i] \in LightState /\ b.lights[i] \in LightState
  BY DEF StateBlock, TypeOK
<1>2. \A i \in LightIndex : CapturedDesc(b, i) \in LightState
  BY <1>1 DEF CapturedDesc, LightState
<1>3. \A i \in LightIndex : CapturedLight(b, i) \in LightState
  BY <1>1, <1>2 DEF CapturedLight, BlockSwitch, LightState
<1>4. [k \in Key |-> CapturedValue(b, k, kept)] \in [Key -> Value]
  BY DEF CapturedValue, StateBlock, TypeOK
<1>5. QED
  BY <1>3, <1>4 DEF CaptureDevice, StateBlock

\* A block whose contents were just captured counts as never applied.
LEMMA CapturedUnapplied ==
  ASSUME NEW b \in StateBlock, NEW kept
  PROVE  ~CaptureDevice(b, kept).hasApplied
  BY DEF CaptureDevice, StateBlock

\* A created state block is well typed and was never applied.
LEMMA CreatedBlock ==
  ASSUME TypeOK, NEW b \in Block, NEW captured \in BlockTypeKey, CreateStateBlock(b, captured)
  PROVE  \E new \in StateBlock : ~new.hasApplied /\ block' = [block EXCEPT ![b] = new]
<1>1. PICK withLights \in BOOLEAN :
        LET known == {i \in LightIndex : withLights /\ i < lightCount}
        IN  block' = [block EXCEPT ![b] = CaptureDevice(
              [EmptyBlock EXCEPT !.keys = captured,
                                 !.lightChanges = known, !.lightEnabledChanges = known], {})]
  BY DEF CreateStateBlock
<1> DEFINE known == {i \in LightIndex : withLights /\ i < lightCount}
           start == [EmptyBlock EXCEPT !.keys = captured,
                                       !.lightChanges = known, !.lightEnabledChanges = known]
<1>2. start \in StateBlock
  <2>1. captured \in SUBSET Key /\ known \in SUBSET LightIndex
    OBVIOUS
  <2>2. QED
    BY <2>1, EmptyBlockType DEF StateBlock
<1>3. block' = [block EXCEPT ![b] = CaptureDevice(start, {})]
  BY <1>1
<1> HIDE DEF start
<1>4. CaptureDevice(start, {}) \in StateBlock /\ ~CaptureDevice(start, {}).hasApplied
  BY <1>2, CaptureDeviceType, CapturedUnapplied
<1>5. QED
  BY <1>3, <1>4

\* Emptying the journal yields a state block.
LEMMA ResetJournalType ==
  ASSUME NEW j \in StateBlock
  PROVE  ResetJournal(j) \in StateBlock
  BY DEF ResetJournal, StateBlock, LightState, UndefinedLight

\* Apply leaves well-typed slots, lights and light count behind.
LEMMA AppliedType ==
  ASSUME TypeOK, NEW b \in StateBlock, NEW isJournal \in BOOLEAN
  PROVE  /\ AppliedKey(b, isJournal) \in [Key -> Value]
         /\ AppliedLight(b, isJournal) \in [LightIndex -> LightState]
<1>1. AppliedKey(b, isJournal) \in [Key -> Value]
  BY DEF AppliedKey, StateBlock, TypeOK
<1>2. \A i \in LightIndex : DescribedLight(b, i) \in LightState
  <2>1. \A i \in LightIndex : light[i] \in LightState /\ b.lights[i] \in LightState
    BY DEF StateBlock, TypeOK
  <2>2. QED
    BY <2>1 DEF DescribedLight, LightState
<1>3. \A i \in LightIndex : SwitchedLight(b, i) \in LightState
  <2>1. \A i \in LightIndex : b.lights[i].enabled \in BOOLEAN
    BY DEF StateBlock, LightState
  <2>2. QED
    BY <1>2, <2>1 DEF SwitchedLight, LightState
<1>4. UndefinedLight \in LightState
  BY DEF UndefinedLight, LightState
<1>5. QED
  BY <1>1, <1>3, <1>4 DEF AppliedLight

\* The setters Apply calls journal into a state block.
LEMMA ApplyCapturedType ==
  ASSUME TypeOK, NEW j \in StateBlock, NEW b \in StateBlock
  PROVE  ApplyCaptured(j, b) \in StateBlock
<1>1. CaptureKeys(j, ChangedKeys(b, FALSE)) \in StateBlock
  <2>1. ChangedKeys(b, FALSE) \in SUBSET Key
    BY DEF ChangedKeys, AppliedKeys, StateBlock
  <2>2. QED
    BY <2>1, CaptureKeysType
<1>2. \A i \in LightIndex : CaptureLight(j, i).lights[i] \in LightState
  <2>1. TAKE i \in LightIndex
  <2>2. CaptureLight(j, i) \in StateBlock
    BY CaptureLightType
  <2>3. QED
    BY <2>2 DEF StateBlock
<1>3. \A i \in LightIndex : j.lights[i] \in LightState /\ light[i] \in LightState
  BY DEF StateBlock, TypeOK
<1>4. \A i \in LightIndex : AppliedCapture(j, b, i) \in LightState
  BY <1>2, <1>3 DEF AppliedCapture, BlockSwitch, LightState
<1>5. Described(b) \subseteq LightIndex /\ Switched(b) \subseteq LightIndex
  BY DEF Described, Switched
<1>6. QED
  BY <1>1, <1>4, <1>5 DEF ApplyCaptured, StateBlock

-----------------------------------------------------------------------------
(* The type invariant. *)

\* No call can leave the device with ill-typed state, blocks or journal.
LEMMA TypeStep == TypeOK /\ [Next]_vars => TypeOK'
<1> SUFFICES ASSUME TypeOK, [Next]_vars PROVE TypeOK'
  OBVIOUS
<1> USE DEF TypeOK
<1>j. ASSUME journal # None PROVE journal \in StateBlock
  BY <1>j
<1>n. ASSUME NEW changed \in BOOLEAN, Notify(changed) PROVE serial' \in Nat
  BY <1>n DEF Notify
<1>k. ASSUME NEW k \in Key, NEW v \in Value, Captured(CaptureKeys(journal, {k}))
      PROVE  journal' \in StateBlock \cup {None}
  BY <1>k, CaptureKeysType DEF Captured, ShouldCapture
<1>1. ASSUME NEW k \in Key, NEW v \in Value, Set(k, v) PROVE TypeOK'
  <2>1. CASE RecordKey(k, v)
    BY <2>1 DEF RecordKey, ShouldRecord, StateBlock, device, journaling
  <2>2. CASE WriteKey(k, v)
    BY <2>2, <1>k, <1>n DEF WriteKey
  <2>3. QED
    BY <1>1, <2>1, <2>2 DEF Set
<1>2. ASSUME NEW k \in Key, NEW v \in Value, MultiplyTransform(k, v) PROVE TypeOK'
  BY <1>2, <1>k, <1>n DEF MultiplyTransform
<1>3. ASSUME NEW i \in LightIndex, NEW d \in LightDesc, SetLight(i, d) PROVE TypeOK'
  <2>1. light[i] \in LightState /\ i \in Nat
    BY DEF LightIndex
  <2>2. ASSUME ShouldRecord PROVE [recorder EXCEPT !.lights[i].valid = TRUE, !.lights[i].desc = d,
                                                   !.lightChanges = @ \cup {i}] \in StateBlock
    <3>1. recorder \in StateBlock
      BY <2>2 DEF ShouldRecord
    <3>2. recorder.lights[i] \in LightState
      BY <3>1 DEF StateBlock
    <3>3. QED
      BY <3>1, <3>2 DEF StateBlock, LightState
  <2>3. [light EXCEPT ![i].valid = TRUE, ![i].desc = d] \in [LightIndex -> LightState]
    BY <2>1 DEF LightState
  <2>4. ASSUME Captured(CaptureLight(journal, i)) PROVE journal' \in StateBlock \cup {None}
    BY <2>4, CaptureLightType DEF Captured, ShouldCapture
  <2>5. CASE ShouldRecord
    BY <1>3, <2>2, <2>5 DEF SetLight, device, journaling
  <2>6. CASE ~ShouldRecord
    <3>1. light' \in [LightIndex -> LightState] /\ lightCount' \in Nat
      <4>1. light' = [light EXCEPT ![i].valid = TRUE, ![i].desc = d]
        BY <1>3, <2>6 DEF SetLight
      <4>2. lightCount' = IF i >= lightCount THEN i + 1 ELSE lightCount
        BY <1>3, <2>6 DEF SetLight
      <4>3. QED
        BY <2>1, <2>3, <4>1, <4>2
    <3>2. journal' \in StateBlock \cup {None} /\ serial' \in Nat
      BY <1>3, <1>n, <2>4, <2>6 DEF SetLight
    <3>3. QED
      BY <1>3, <2>6, <3>1, <3>2 DEF SetLight
  <2>7. QED
    BY <2>5, <2>6
<1>4. ASSUME NEW i \in LightIndex, NEW enable \in BOOLEAN, LightEnable(i, enable) PROVE TypeOK'
  <2>1. light[i] \in LightState /\ i \in Nat
    BY DEF LightIndex
  <2>2. ASSUME ShouldRecord PROVE BlockLightEnable(recorder, i, enable) \in StateBlock
    BY <2>2, BlockLightEnableType DEF ShouldRecord
  <2>3. [light EXCEPT ![i].valid = TRUE, ![i].enabled = enable] \in [LightIndex -> LightState]
    BY <2>1 DEF LightState
  <2>4. ASSUME Captured(CaptureLightEnable(journal, i)) PROVE journal' \in StateBlock \cup {None}
    BY <2>4, CaptureLightEnableType DEF Captured, ShouldCapture
  <2>5. CASE ShouldRecord
    BY <1>4, <2>2, <2>5 DEF LightEnable, device, journaling
  <2>6. CASE ~ShouldRecord /\ light[i].enabled = enable
    <3>1. lightCount' \in Nat /\ serial' \in Nat
      <4>1. lightCount' = i + 1 /\ Notify(TRUE)
        BY <1>4, <2>6 DEF LightEnable
      <4>2. lightCount' \in Nat
        BY <2>1, <4>1
      <4>3. serial' \in Nat
        BY <1>n, <4>1
      <4>4. QED
        BY <4>2, <4>3
    <3>2. QED
      BY <1>4, <2>6, <3>1 DEF LightEnable, journaling
  <2>7. CASE ~ShouldRecord /\ light[i].enabled # enable
    <3>1. light' \in [LightIndex -> LightState] /\ lightCount' \in Nat
      <4>1. light' = [light EXCEPT ![i].valid = TRUE, ![i].enabled = enable]
        BY <1>4, <2>7 DEF LightEnable
      <4>2. lightCount' = IF i >= lightCount THEN i + 1 ELSE lightCount
        BY <1>4, <2>7 DEF LightEnable
      <4>3. QED
        BY <2>1, <2>3, <4>1, <4>2
    <3>2. journal' \in StateBlock \cup {None} /\ serial' \in Nat
      BY <1>4, <1>n, <2>4, <2>7 DEF LightEnable
    <3>3. QED
      BY <1>4, <2>7, <3>1, <3>2 DEF LightEnable
  <2>8. QED
    BY <2>5, <2>6, <2>7
<1>5. CASE SideEffect
  <2>1. ASSUME NEW cleared \in SUBSET UpDrawKey, DrawUP(cleared) PROVE TypeOK'
    BY <2>1, <1>n DEF DrawUP, journaling
  <2>2. ASSUME NEW v \in Value, SetRenderTarget(v) PROVE TypeOK'
    BY <2>2, <1>n DEF SetRenderTarget, journaling
  <2>3. QED
    BY <1>5, <2>1, <2>2 DEF SideEffect
<1>6. ASSUME NEW b \in Block, NEW captured \in BlockTypeKey, CreateStateBlock(b, captured)
      PROVE  TypeOK'
  <2>1. block' \in [Block -> StateBlock \cup {None}]
    BY <1>6, CreatedBlock
  <2>2. QED
    BY <1>6, <2>1 DEF CreateStateBlock, device, journaling
<1>7. CASE BeginStateBlock
  BY <1>7, EmptyBlockType DEF BeginStateBlock, device, journaling
<1>8. ASSUME NEW b \in Block, EndStateBlock(b) PROVE TypeOK'
  BY <1>8 DEF EndStateBlock, ShouldRecord, device, journaling
<1>9. ASSUME NEW b \in Block, ReleaseStateBlock(b) PROVE TypeOK'
  BY <1>9 DEF ReleaseStateBlock, device, journaling
<1>10. ASSUME NEW b \in Block, Capture(b) PROVE TypeOK'
  <2>1. CaptureDevice(block[b], StreamKey) \in StateBlock
    BY <1>10, CaptureDeviceType DEF Capture
  <2>2. QED
    BY <1>10, <2>1 DEF Capture, device, journaling
<1>11. ASSUME NEW b \in Block, ApplyBlock(b) PROVE TypeOK'
  <2>1. block[b] \in StateBlock
    BY <1>11 DEF ApplyBlock
  <2>2. key' \in [Key -> Value] /\ light' \in [LightIndex -> LightState]
    BY <1>11, <2>1, AppliedType DEF ApplyBlock
  <2>3. lightCount' \in Nat
    BY <1>11 DEF ApplyBlock, ResizeLights
  <2>4. serial' \in Nat
    BY <1>11, <1>n DEF ApplyBlock, ApplyNotifies
  <2>5. journal' \in StateBlock \cup {None}
    BY <1>11, <2>1, ApplyCapturedType DEF ApplyBlock, Captured, ShouldCapture
  <2>6. block' \in [Block -> StateBlock \cup {None}]
    <3>1. [block[b] EXCEPT !.hasApplied = TRUE, !.lastSerial = serial'] \in StateBlock
      BY <2>1, <2>4 DEF StateBlock
    <3>2. block' = [block EXCEPT ![b] = [block[b] EXCEPT !.hasApplied = TRUE, !.lastSerial = serial']]
      BY <1>11 DEF ApplyBlock
    <3>3. QED
      BY <3>1, <3>2
  <2>7. QED
    BY <1>11, <2>2, <2>3, <2>4, <2>5, <2>6 DEF ApplyBlock
<1>12. ASSUME NEW b \in Block, SkipApply(b) PROVE TypeOK'
  BY <1>12 DEF SkipApply, vars, device, journaling
<1>13. ASSUME NEW isSelective \in BOOLEAN, BeginStateJournal(isSelective) PROVE TypeOK'
  BY <1>13, EmptyBlockType DEF BeginStateJournal, device
<1>14. ASSUME NEW enable \in BOOLEAN, SetStateJournalCaptureEnabled(enable) PROVE TypeOK'
  BY <1>14 DEF SetStateJournalCaptureEnabled, device
<1>15. CASE RestoreStateJournal
  <2>1. journal \in StateBlock
    BY <1>15 DEF RestoreStateJournal
  <2>2. /\ key' \in [Key -> Value] /\ light' \in [LightIndex -> LightState]
        /\ lightCount' \in Nat /\ serial' \in Nat
    <3>1. CASE ShouldRecord
      BY <1>15, <3>1 DEF RestoreStateJournal, device
    <3>2. CASE ~ShouldRecord
      <4>1. key' = AppliedKey(journal, TRUE) /\ light' = AppliedLight(journal, TRUE)
        BY <1>15, <3>2 DEF RestoreStateJournal
      <4>2. key' \in [Key -> Value] /\ light' \in [LightIndex -> LightState]
        BY <2>1, <4>1, AppliedType
      <4>3. lightCount' \in Nat
        <5>1. ResizeLights(journal)
          BY <1>15, <3>2 DEF RestoreStateJournal
        <5>2. QED
          BY <5>1 DEF ResizeLights
      <4>4. ApplyNotifies(journal, TRUE) \in BOOLEAN
        BY DEF ApplyNotifies
      <4>5. serial' \in Nat
        BY <1>15, <3>2, <4>4, <1>n DEF RestoreStateJournal
      <4>6. QED
        BY <4>2, <4>3, <4>5
    <3>3. QED
      BY <3>1, <3>2
  <2>3. journalCache' \in StateBlock \cup {None}
    BY <1>15, <2>1, ResetJournalType DEF RestoreStateJournal
  <2>4. QED
    BY <1>15, <2>2, <2>3 DEF RestoreStateJournal
<1>d. ASSUME DiscardStateJournal
      PROVE  /\ journal' \in StateBlock \cup {None} /\ journalCache' \in StateBlock \cup {None}
             /\ selective' \in BOOLEAN /\ captureEnabled' \in BOOLEAN
  BY <1>d, ResetJournalType DEF DiscardStateJournal
<1>16. CASE ResetRejected
  BY <1>16, <1>d DEF ResetRejected, device
<1>17. CASE ResetDevice
  <2>1. serial' \in Nat
    BY <1>17, <1>n DEF ResetDevice
  <2>2. key' \in [Key -> Value]
    BY <1>17 DEF ResetDevice
  <2>3. recorder' \in StateBlock \cup {None}
    <3>1. CASE ShouldRecord
      <4>1. recorder \in StateBlock
        BY <3>1 DEF ShouldRecord
      <4>2. [k \in Key |-> IF k \in ResetSetterKey THEN Null ELSE recorder.value[k]] \in [Key -> Value]
        BY <4>1 DEF StateBlock
      <4>3. [recorder EXCEPT !.keys = @ \cup ResetSetterKey,
               !.value = [k \in Key |-> IF k \in ResetSetterKey THEN Null ELSE recorder.value[k]]]
              \in StateBlock
        BY <4>1, <4>2 DEF StateBlock
      <4>4. QED
        BY <1>17, <3>1, <4>3 DEF ResetDevice
    <3>2. CASE ~ShouldRecord
      BY <1>17, <3>2 DEF ResetDevice
    <3>3. QED
      BY <3>1, <3>2
  <2>4. QED
    BY <1>17, <1>d, <2>1, <2>2, <2>3 DEF ResetDevice
<1>18. CASE UNCHANGED vars
  BY <1>18 DEF vars, device, journaling
<1>19. \A k \in Key : SlotValue[k] \subseteq Value
  OBVIOUS
<1>20. QED
  BY <1>19, <1>1, <1>2, <1>3, <1>4, <1>5, <1>6, <1>7, <1>8, <1>9, <1>10, <1>11, <1>12, <1>13,
     <1>14, <1>15, <1>16, <1>17, <1>18 DEF Next

\* The device is created well typed.
LEMMA InitTyped == Init => TypeOK
<1> SUFFICES ASSUME Init PROVE TypeOK
  OBVIOUS
<1>1. [UndefinedLight EXCEPT !.valid = LightsDefined] \in LightState
  BY DEF UndefinedLight, LightState
<1>2. light \in [LightIndex -> LightState]
  BY <1>1 DEF Init
<1>3. lightCount \in Nat
  BY DEF Init
<1>4. QED
  BY <1>2, <1>3 DEF Init, TypeOK

\* Every reachable device has well-typed state, blocks, recorder and journal.
THEOREM TypeCorrect == Spec => []TypeOK
<1>1. QED
  BY InitTyped, TypeStep, PTL DEF Spec

(***************************************************************************)
(* The fast skip of a repeated Apply: a call either moves the serial, so   *)
(* that no block is skippable after it, or leaves what the remembered      *)
(* blocks would apply alone.  RestoreGtaSaUndefinedLight is the one write  *)
(* that does neither; it needs a journal that has captured an undefined    *)
(* light, which an application that defines every light first rules out.   *)
(***************************************************************************)
-----------------------------------------------------------------------------
(* Recorder and journal. *)

\* A setter that journals does not open a journal.
LEMMA CapturedKeepsClosed ==
  ASSUME NEW j, Captured(j), journal = None
  PROVE  journal' = None
  BY DEF Captured, ShouldCapture

\* BeginStateBlock and BeginGtaSaStateJournal each check for the other, and no
\* call opens either behind the other's back.
LEMMA ExclusiveStep == JournalExclusive /\ [Next]_vars => JournalExclusive'
<1> SUFFICES ASSUME JournalExclusive, [Next]_vars PROVE JournalExclusive'
  OBVIOUS
<1> USE CapturedKeepsClosed DEF JournalExclusive, ShouldRecord
<1>1. ASSUME NEW k \in Key, NEW v \in SlotValue[k], Set(k, v) PROVE JournalExclusive'
  BY <1>1 DEF Set, RecordKey, WriteKey, journaling
<1>2. ASSUME NEW k \in Key, NEW v \in SlotValue[k], MultiplyTransform(k, v) PROVE JournalExclusive'
  BY <1>2 DEF MultiplyTransform
<1>3. ASSUME NEW i \in LightIndex, NEW d \in LightDesc, SetLight(i, d) PROVE JournalExclusive'
  BY <1>3 DEF SetLight, journaling
<1>4. ASSUME NEW i \in LightIndex, NEW enable \in BOOLEAN, LightEnable(i, enable)
      PROVE  JournalExclusive'
  BY <1>4 DEF LightEnable, journaling
<1>5. CASE SideEffect
  BY <1>5 DEF SideEffect, DrawUP, SetRenderTarget, journaling
<1>6. ASSUME NEW b \in Block, NEW captured \in BlockTypeKey, CreateStateBlock(b, captured)
      PROVE  JournalExclusive'
  BY <1>6 DEF CreateStateBlock, journaling
<1>7. CASE BeginStateBlock
  BY <1>7 DEF BeginStateBlock, journaling
<1>8. ASSUME NEW b \in Block,
             EndStateBlock(b) \/ ReleaseStateBlock(b) \/ Capture(b) \/ SkipApply(b)
      PROVE  JournalExclusive'
  BY <1>8 DEF EndStateBlock, ReleaseStateBlock, Capture, SkipApply, vars, journaling
<1>9. ASSUME NEW b \in Block, ApplyBlock(b) PROVE JournalExclusive'
  BY <1>9 DEF ApplyBlock
<1>10. ASSUME NEW isSelective \in BOOLEAN, BeginStateJournal(isSelective) PROVE JournalExclusive'
  BY <1>10 DEF BeginStateJournal
<1>11. ASSUME NEW enable \in BOOLEAN, SetStateJournalCaptureEnabled(enable)
       PROVE  JournalExclusive'
  BY <1>11 DEF SetStateJournalCaptureEnabled
<1>12. CASE RestoreStateJournal \/ ResetRejected \/ ResetDevice
  BY <1>12 DEF RestoreStateJournal, ResetRejected, ResetDevice, DiscardStateJournal
<1>13. CASE UNCHANGED vars
  BY <1>13 DEF vars, journaling
<1>14. QED
  BY <1>1, <1>2, <1>3, <1>4, <1>5, <1>6, <1>7, <1>8, <1>9, <1>10, <1>11, <1>12, <1>13 DEF Next

\* A state block is never recorded while a native journal is open: a setter is
\* owed to one of them only, and a restore is never refused by a recorder.
THEOREM Exclusive == Spec => []JournalExclusive
<1>1. Init => JournalExclusive
  BY DEF Init, JournalExclusive
<1>2. QED
  BY <1>1, ExclusiveStep, PTL DEF Spec

-----------------------------------------------------------------------------
(* Serials and captures that were never applied. *)

\* A call that changes no block keeps every remembered serial in the past.
LEMMA SerialsKept ==
  ASSUME TypeOK, SerialsPast, NEW changed \in BOOLEAN, Notify(changed), UNCHANGED block
  PROVE  SerialsPast'
  BY DEF Notify, SerialsPast, TypeOK, StateBlock

\* No call lets a block remember a serial to come, applies a block that is
\* still recorded, or pools a journal that remembers a light.
LEMMA SerialsStep ==
  TypeOK /\ SerialsPast /\ RecordersFresh /\ [Next]_vars => SerialsPast' /\ RecordersFresh'
<1> SUFFICES ASSUME TypeOK, SerialsPast, RecordersFresh, [Next]_vars
             PROVE  SerialsPast' /\ RecordersFresh'
  OBVIOUS
<1>k. UNCHANGED <<serial, block>> => SerialsPast'
  BY DEF SerialsPast
<1>t. ASSUME Notify(TRUE), UNCHANGED block PROVE SerialsPast'
  BY <1>t, SerialsKept
<1>r. UNCHANGED <<recorder, journalCache>> => RecordersFresh'
  BY DEF RecordersFresh
<1>f. ASSUME NEW b \in Block, NEW new,
             block' = [block EXCEPT ![b] = new], UNCHANGED serial,
             new # None => ~new.hasApplied
      PROVE  SerialsPast'
  BY <1>f DEF SerialsPast, TypeOK
<1>1. ASSUME NEW k \in Key, NEW v \in SlotValue[k], Set(k, v) PROVE SerialsPast' /\ RecordersFresh'
  <2>1. CASE RecordKey(k, v)
    <3>1. recorder'.hasApplied = recorder.hasApplied
      BY <2>1 DEF RecordKey, ShouldRecord, TypeOK, StateBlock
    <3>2. QED
      BY <2>1, <3>1, <1>k DEF RecordKey, ShouldRecord, RecordersFresh, journaling
  <2>2. CASE WriteKey(k, v)
    BY <2>2, <1>t, <1>r DEF WriteKey
  <2>3. QED
    BY <1>1, <2>1, <2>2 DEF Set
<1>2. ASSUME NEW k \in Key, NEW v \in SlotValue[k], MultiplyTransform(k, v)
      PROVE  SerialsPast' /\ RecordersFresh'
  BY <1>2, <1>t, <1>r DEF MultiplyTransform
<1>3. ASSUME NEW i \in LightIndex, NEW d \in LightDesc, SetLight(i, d)
      PROVE  SerialsPast' /\ RecordersFresh'
  <2>1. CASE ShouldRecord
    <3>1. recorder \in StateBlock
      BY <2>1 DEF ShouldRecord, TypeOK
    <3>2. recorder'.hasApplied = recorder.hasApplied /\ UNCHANGED <<serial, block, journaling>>
      BY <1>3, <2>1, <3>1 DEF SetLight, StateBlock
    <3>3. QED
      BY <2>1, <3>2, <1>k DEF ShouldRecord, RecordersFresh, journaling
  <2>2. CASE ~ShouldRecord
    BY <1>3, <2>2, <1>t, <1>r DEF SetLight
  <2>3. QED
    BY <2>1, <2>2
<1>4. ASSUME NEW i \in LightIndex, NEW enable \in BOOLEAN, LightEnable(i, enable)
      PROVE  SerialsPast' /\ RecordersFresh'
  <2>1. CASE ShouldRecord
    <3>1. recorder \in StateBlock
      BY <2>1 DEF ShouldRecord, TypeOK
    <3>2. recorder'.hasApplied = recorder.hasApplied /\ UNCHANGED <<serial, block, journaling>>
      BY <1>4, <2>1, <3>1 DEF LightEnable, BlockLightEnable, StateBlock
    <3>3. QED
      BY <2>1, <3>2, <1>k DEF ShouldRecord, RecordersFresh, journaling
  <2>2. CASE ~ShouldRecord
    BY <1>4, <2>2, <1>t, <1>r DEF LightEnable, journaling
  <2>3. QED
    BY <2>1, <2>2
<1>5. CASE SideEffect
  BY <1>5, <1>t, <1>r DEF SideEffect, DrawUP, SetRenderTarget, journaling
<1>6. ASSUME NEW b \in Block, NEW captured \in BlockTypeKey, CreateStateBlock(b, captured)
      PROVE  SerialsPast' /\ RecordersFresh'
  <2>1. SerialsPast'
    BY <1>6, CreatedBlock, <1>f DEF CreateStateBlock
  <2>2. QED
    BY <1>6, <2>1, <1>r DEF CreateStateBlock, journaling
<1>7. CASE BeginStateBlock
  BY <1>7, <1>k DEF BeginStateBlock, EmptyBlock, RecordersFresh, journaling
<1>8. ASSUME NEW b \in Block, EndStateBlock(b) PROVE SerialsPast' /\ RecordersFresh'
  <2>1. SerialsPast'
    BY <1>8, <1>f DEF EndStateBlock, RecordersFresh
  <2>2. QED
    BY <1>8, <2>1 DEF EndStateBlock, RecordersFresh, journaling
<1>9. ASSUME NEW b \in Block, ReleaseStateBlock(b) PROVE SerialsPast' /\ RecordersFresh'
  BY <1>9, <1>f, <1>r DEF ReleaseStateBlock, journaling
<1>10. ASSUME NEW b \in Block, Capture(b) PROVE SerialsPast' /\ RecordersFresh'
  <2>1. ~CaptureDevice(block[b], StreamKey).hasApplied
    BY <1>10, CapturedUnapplied DEF Capture, TypeOK
  <2>2. SerialsPast'
    BY <1>10, <2>1, <1>f DEF Capture
  <2>3. QED
    BY <1>10, <2>2, <1>r DEF Capture, journaling
<1>11. ASSUME NEW b \in Block, ApplyBlock(b) PROVE SerialsPast' /\ RecordersFresh'
  <2>1. block[b] \in StateBlock
    BY <1>11 DEF ApplyBlock, TypeOK
  <2>2. serial' \in Nat /\ serial' >= serial
    <3>1. Notify(ApplyNotifies(block[b], FALSE))
      BY <1>11 DEF ApplyBlock
    <3>2. serial' = serial \/ serial' = serial + 1
      BY <3>1, Zenon DEF Notify
    <3>3. QED
      BY <3>2 DEF TypeOK
  <2>3. /\ block'[b].lastSerial = serial'
        /\ \A c \in Block \ {b} : block'[c] = block[c]
    BY <1>11, <2>1 DEF ApplyBlock, TypeOK, StateBlock
  <2>4. SerialsPast'
    <3> SUFFICES ASSUME NEW c \in Block, block'[c] # None, block'[c].hasApplied
                 PROVE  block'[c].lastSerial <= serial'
      BY DEF SerialsPast
    <3>1. CASE c = b
      BY <2>2, <2>3, <3>1
    <3>2. CASE c # b
      BY <2>2, <2>3, <3>2 DEF SerialsPast, TypeOK, StateBlock
    <3>3. QED
      BY <3>1, <3>2
  <2>5. QED
    BY <1>11, <2>4, <1>r DEF ApplyBlock
<1>12. ASSUME NEW b \in Block, SkipApply(b) PROVE SerialsPast' /\ RecordersFresh'
  BY <1>12, <1>k, <1>r DEF SkipApply, vars, journaling
<1>13. ASSUME NEW isSelective \in BOOLEAN, BeginStateJournal(isSelective)
       PROVE  SerialsPast' /\ RecordersFresh'
  BY <1>13, <1>k DEF BeginStateJournal, RecordersFresh
<1>14. ASSUME NEW enable \in BOOLEAN, SetStateJournalCaptureEnabled(enable)
       PROVE  SerialsPast' /\ RecordersFresh'
  BY <1>14, <1>k, <1>r DEF SetStateJournalCaptureEnabled
<1>j. ASSUME journal # None PROVE ResetJournal(journal).lightChanges = {}
  BY <1>j DEF ResetJournal, TypeOK, StateBlock
<1>15. CASE RestoreStateJournal
  <2>1. RecordersFresh'
    BY <1>15, <1>j DEF RestoreStateJournal, RecordersFresh
  <2>2. CASE ShouldRecord
    BY <1>15, <2>1, <2>2, <1>k DEF RestoreStateJournal
  <2>3. CASE ~ShouldRecord
    <3>1. Notify(ApplyNotifies(journal, TRUE)) /\ UNCHANGED block
      BY <1>15, <2>3 DEF RestoreStateJournal
    <3>2. ApplyNotifies(journal, TRUE) \in BOOLEAN
      BY DEF ApplyNotifies
    <3>3. QED
      BY <2>1, <3>1, <3>2, SerialsKept
  <2>4. QED
    BY <2>2, <2>3
<1>16. CASE ResetRejected
  BY <1>16, <1>j, <1>k DEF ResetRejected, DiscardStateJournal, RecordersFresh
<1>17. CASE ResetDevice
  <2>1. SerialsPast'
    BY <1>17, <1>t DEF ResetDevice
  <2>2. recorder' # None => ~recorder'.hasApplied
    <3>1. CASE ShouldRecord
      BY <1>17, <3>1 DEF ResetDevice, ShouldRecord, RecordersFresh, TypeOK, StateBlock
    <3>2. CASE ~ShouldRecord
      BY <1>17, <3>2 DEF ResetDevice, ShouldRecord
    <3>3. QED
      BY <3>1, <3>2
  <2>3. journalCache' # None => journalCache'.lightChanges = {}
    BY <1>17, <1>j DEF ResetDevice, DiscardStateJournal, RecordersFresh
  <2>4. QED
    BY <2>1, <2>2, <2>3 DEF RecordersFresh
<1>18. CASE UNCHANGED vars
  BY <1>18, <1>k, <1>r DEF vars, journaling
<1>19. QED
  BY <1>1, <1>2, <1>3, <1>4, <1>5, <1>6, <1>7, <1>8, <1>9, <1>10, <1>11, <1>12, <1>13,
     <1>14, <1>15, <1>16, <1>17, <1>18 DEF Next

-----------------------------------------------------------------------------
(* Defined lights. *)

\* A journal that remembers only defined lights.
RemembersDefined(j) == \A i \in j.lightChanges : j.lights[i].valid

\* While every light is defined, journaling slots, a light, a light switch or
\* an Apply keeps the journal's lights defined.
LEMMA CapturedDefined ==
  ASSUME TypeOK, LightsStayDefined, journal # None
  PROVE  /\ \A touched \in SUBSET Key : RemembersDefined(CaptureKeys(journal, touched))
         /\ \A i \in LightIndex : RemembersDefined(CaptureLight(journal, i))
         /\ \A i \in LightIndex : RemembersDefined(CaptureLightEnable(journal, i))
         /\ \A b \in StateBlock : RemembersDefined(ApplyCaptured(journal, b))
<1>j. journal \in StateBlock /\ RemembersDefined(journal)
  BY DEF TypeOK, LightsStayDefined, RemembersDefined
<1>i. \A i \in LightIndex : i < lightCount /\ i \in Nat /\ light[i].valid /\ light[i] \in LightState
  BY LightAssumption DEF LightIndex, LightsStayDefined, TypeOK
<1>1. \A touched \in SUBSET Key : RemembersDefined(CaptureKeys(journal, touched))
  BY <1>j DEF CaptureKeys, RemembersDefined, StateBlock
<1>2. ASSUME NEW i \in LightIndex
      PROVE  /\ CaptureLight(journal, i) \in StateBlock
             /\ RemembersDefined(CaptureLight(journal, i))
             /\ CaptureLight(journal, i).lights[i].valid
  <2>1. CaptureLight(journal, i) \in StateBlock
    BY <1>j, CaptureLightType
  <2>2. CASE i \in journal.lightChanges
    BY <1>j, <2>1, <2>2 DEF CaptureLight, RemembersDefined
  <2>3. CASE i \notin journal.lightChanges
    <3>1. CaptureLight(journal, i)
            = [journal EXCEPT !.lights[i] = light[i], !.lightChanges = journal.lightChanges \cup {i}]
      BY <1>i, <2>3 DEF CaptureLight
    <3>2. /\ CaptureLight(journal, i).lightChanges = journal.lightChanges \cup {i}
          /\ CaptureLight(journal, i).lights = [journal.lights EXCEPT ![i] = light[i]]
      BY <1>j, <3>1 DEF StateBlock
    <3>3. journal.lights \in [LightIndex -> LightState] /\ journal.lightChanges \subseteq LightIndex
      BY <1>j DEF StateBlock
    <3>4. QED
      BY <1>j, <1>i, <2>1, <3>2, <3>3 DEF RemembersDefined
  <2>4. QED
    BY <2>2, <2>3
<1>3. ASSUME NEW i \in LightIndex PROVE RemembersDefined(CaptureLightEnable(journal, i))
  <2>1. CASE i \in journal.lightEnabledChanges
    BY <1>j, <2>1 DEF CaptureLightEnable
  <2>2. CASE i \notin journal.lightEnabledChanges
    <3> DEFINE j == CaptureLight(journal, i)
               e == light[i].valid /\ light[i].enabled
    <3>1. j \in StateBlock /\ RemembersDefined(j) /\ j.lights[i].valid
      BY <1>2
    <3>2. CaptureLightEnable(journal, i) = BlockLightEnable(j, i, e)
      BY <2>2 DEF CaptureLightEnable
    <3> HIDE DEF j, e
    <3>3. /\ BlockLightEnable(j, i, e).lightChanges = j.lightChanges
          /\ BlockLightEnable(j, i, e).lights = [j.lights EXCEPT ![i] = BlockSwitch(j.lights[i], e)]
      BY <3>1 DEF BlockLightEnable, StateBlock
    <3>4. j.lights \in [LightIndex -> LightState] /\ j.lightChanges \subseteq LightIndex
      BY <3>1 DEF StateBlock
    <3>5. BlockSwitch(j.lights[i], e).valid
      BY <3>1, <3>4 DEF BlockSwitch, LightState
    <3>6. QED
      BY <3>1, <3>2, <3>3, <3>4, <3>5 DEF RemembersDefined
  <2>3. QED
    BY <2>1, <2>2
<1>4. ASSUME NEW b \in StateBlock PROVE RemembersDefined(ApplyCaptured(journal, b))
  <2>1. CaptureKeys(journal, ChangedKeys(b, FALSE)) \in StateBlock
        /\ CaptureKeys(journal, ChangedKeys(b, FALSE)).lightChanges = journal.lightChanges
    <3>1. ChangedKeys(b, FALSE) \in SUBSET Key
      BY DEF ChangedKeys, AppliedKeys, StateBlock
    <3>2. QED
      BY <1>j, <3>1, CaptureKeysType DEF CaptureKeys, StateBlock
  <2>2. /\ ApplyCaptured(journal, b).lightChanges
             \subseteq journal.lightChanges \cup Described(b) \cup Switched(b)
        /\ ApplyCaptured(journal, b).lights = [i \in LightIndex |-> AppliedCapture(journal, b, i)]
    BY <2>1 DEF ApplyCaptured, StateBlock
  <2>3. ApplyCaptured(journal, b).lightChanges \subseteq LightIndex
    BY <1>j, <2>2 DEF Described, Switched, StateBlock
  <2>4. ASSUME NEW i \in LightIndex, i \in journal.lightChanges \cup Described(b) \cup Switched(b)
        PROVE  AppliedCapture(journal, b, i).valid
    <3> DEFINE before == IF i \in Described(b) \cup Switched(b)
                         THEN CaptureLight(journal, i).lights[i] ELSE journal.lights[i]
    <3>1. before.valid /\ before \in LightState
      <4>1. CASE i \in Described(b) \cup Switched(b)
        BY <1>2, <4>1 DEF StateBlock
      <4>2. CASE i \notin Described(b) \cup Switched(b)
        BY <1>j, <2>4, <4>2 DEF RemembersDefined, StateBlock
      <4>3. QED
        BY <4>1, <4>2
    <3>2. AppliedCapture(journal, b, i)
            = IF i \in Switched(b) \ journal.lightEnabledChanges
              THEN BlockSwitch(before, light[i].enabled) ELSE before
      BY DEF AppliedCapture
    <3> HIDE DEF before
    <3>3. BlockSwitch(before, light[i].enabled).valid
      BY <3>1 DEF BlockSwitch, LightState
    <3>4. QED
      BY <3>1, <3>2, <3>3
  <2>5. QED
    BY <2>2, <2>3, <2>4 DEF RemembersDefined
<1>5. QED
  BY <1>1, <1>2, <1>3, <1>4

\* Applying a block, or restoring a journal that remembers only defined
\* lights, leaves every light defined.
LEMMA AppliedDefined ==
  ASSUME TypeOK, LightsStayDefined, NEW b \in StateBlock, NEW isJournal \in BOOLEAN,
         isJournal => RemembersDefined(b)
  PROVE  \A i \in LightIndex : /\ ~UndefinesLight(b, i, isJournal)
                               /\ AppliedLight(b, isJournal)[i] = SwitchedLight(b, i)
                               /\ AppliedLight(b, isJournal)[i].valid
<1> SUFFICES ASSUME NEW i \in LightIndex
             PROVE  ~UndefinesLight(b, i, isJournal) /\ SwitchedLight(b, i).valid
  BY DEF AppliedLight
<1>1. ~UndefinesLight(b, i, isJournal)
  BY DEF UndefinesLight, RemembersDefined
<1>2. light[i] \in LightState /\ light[i].valid
  BY DEF TypeOK, LightsStayDefined
<1>3. DescribedLight(b, i).valid /\ DescribedLight(b, i) \in LightState
  BY <1>2 DEF DescribedLight, StateBlock, LightState
<1>4. SwitchedLight(b, i).valid
  BY <1>3 DEF SwitchedLight, LightState
<1>5. QED
  BY <1>1, <1>4

\* With every light inside it, Apply leaves the light vector's size alone.
LEMMA NothingResized ==
  ASSUME TypeOK, LightsStayDefined, NEW b
  PROVE  ResizingLights(b) = {} /\ (ResizeLights(b) => lightCount' = lightCount)
<1>1. \A i \in LightIndex : ~(i >= lightCount)
  BY LightAssumption DEF LightIndex, LightsStayDefined, TypeOK
<1>2. QED
  BY <1>1 DEF ResizingLights, ResizeLights

\* No call undefines a light once all are defined.
LEMMA LightsStep ==
  TypeOK /\ RecordersFresh /\ LightsStayDefined /\ [Next]_vars => LightsStayDefined'
<1> SUFFICES ASSUME TypeOK, RecordersFresh, LightsStayDefined, [Next]_vars
             PROVE  LightsStayDefined'
  OBVIOUS
<1>u. ASSUME UNCHANGED device, UNCHANGED journal \/ journal' = None PROVE LightsStayDefined'
  BY <1>u DEF LightsStayDefined, device
<1>i. \A i \in LightIndex : ~(i >= lightCount) /\ i < lightCount /\ light[i].valid /\ light[i] \in LightState
  BY LightAssumption DEF LightIndex, LightsStayDefined, TypeOK
<1>c. ASSUME NEW new, Captured(new), journal # None => RemembersDefined(new),
             UNCHANGED lightCount, \A i \in LightIndex : light'[i].valid
      PROVE  LightsStayDefined'
  BY <1>c DEF Captured, ShouldCapture, RemembersDefined, LightsStayDefined
<1>1. ASSUME NEW k \in Key, NEW v \in SlotValue[k], Set(k, v) \/ MultiplyTransform(k, v)
      PROVE  LightsStayDefined'
  <2>1. CASE RecordKey(k, v)
    BY <2>1, <1>u DEF RecordKey, journaling
  <2>2. CASE WriteKey(k, v) \/ MultiplyTransform(k, v)
    <3>1. /\ Captured(CaptureKeys(journal, {k})) /\ UNCHANGED lightCount
          /\ \A i \in LightIndex : light'[i].valid
      BY <2>2, <1>i DEF WriteKey, MultiplyTransform
    <3>2. journal # None => RemembersDefined(CaptureKeys(journal, {k}))
      BY CapturedDefined
    <3>3. QED
      BY <3>1, <3>2, <1>c
  <2>3. QED
    BY <1>1, <2>1, <2>2 DEF Set
<1>2. ASSUME NEW i \in LightIndex, NEW d \in LightDesc, SetLight(i, d) PROVE LightsStayDefined'
  <2>1. CASE ShouldRecord
    BY <1>2, <2>1, <1>u DEF SetLight, journaling
  <2>2. CASE ~ShouldRecord
    <3>1. /\ Captured(CaptureLight(journal, i))
          /\ light' = [light EXCEPT ![i].valid = TRUE, ![i].desc = d]
      BY <1>2, <2>2 DEF SetLight
    <3>2. lightCount' = lightCount
      BY <1>2, <2>2, <1>i DEF SetLight
    <3>3. \A j \in LightIndex : light'[j].valid
      BY <3>1, <1>i DEF TypeOK, LightState
    <3>4. journal # None => RemembersDefined(CaptureLight(journal, i))
      BY CapturedDefined
    <3>5. QED
      BY <3>1, <3>2, <3>3, <3>4, <1>c
  <2>3. QED
    BY <2>1, <2>2
<1>3. ASSUME NEW i \in LightIndex, NEW enable \in BOOLEAN, LightEnable(i, enable)
      PROVE  LightsStayDefined'
  <2>1. CASE ShouldRecord
    BY <1>3, <2>1, <1>u DEF LightEnable, journaling
  <2>2. CASE ~ShouldRecord
    <3>1. /\ Captured(CaptureLightEnable(journal, i))
          /\ light' = [light EXCEPT ![i].valid = TRUE, ![i].enabled = enable]
      BY <1>3, <2>2, <1>i DEF LightEnable
    <3>2. lightCount' = lightCount
      BY <1>3, <2>2, <1>i DEF LightEnable
    <3>3. \A j \in LightIndex : light'[j].valid
      BY <3>1, <1>i DEF TypeOK, LightState
    <3>4. journal # None => RemembersDefined(CaptureLightEnable(journal, i))
      BY CapturedDefined
    <3>5. QED
      BY <3>1, <3>2, <3>3, <3>4, <1>c
  <2>3. QED
    BY <2>1, <2>2
<1>4. CASE SideEffect
  BY <1>4 DEF SideEffect, DrawUP, SetRenderTarget, journaling, LightsStayDefined
<1>5. ASSUME NEW b \in Block,
             \/ \E captured \in BlockTypeKey : CreateStateBlock(b, captured)
             \/ EndStateBlock(b) \/ ReleaseStateBlock(b) \/ Capture(b) \/ SkipApply(b)
      PROVE  LightsStayDefined'
  BY <1>5, <1>u
  DEF CreateStateBlock, EndStateBlock, ReleaseStateBlock, Capture, SkipApply, vars, journaling
<1>6. ASSUME NEW b \in Block, ApplyBlock(b) PROVE LightsStayDefined'
  <2>1. block[b] \in StateBlock
    BY <1>6 DEF ApplyBlock, TypeOK
  <2>2. /\ Captured(ApplyCaptured(journal, block[b]))
        /\ light' = AppliedLight(block[b], FALSE)
        /\ ResizeLights(block[b])
    BY <1>6 DEF ApplyBlock
  <2>3. \A i \in LightIndex : light'[i].valid
    BY <2>1, <2>2, AppliedDefined
  <2>4. UNCHANGED lightCount
    BY <2>2, NothingResized
  <2>5. journal # None => RemembersDefined(ApplyCaptured(journal, block[b]))
    BY <2>1, CapturedDefined
  <2>6. QED
    BY <2>2, <2>3, <2>4, <2>5, <1>c
<1>7. ASSUME NEW isSelective \in BOOLEAN, BeginStateJournal(isSelective) PROVE LightsStayDefined'
  <2>1. journal' # None => journal'.lightChanges = {}
    BY <1>7 DEF BeginStateJournal, EmptyBlock, RecordersFresh
  <2>2. QED
    BY <1>7, <2>1 DEF BeginStateJournal, LightsStayDefined, device
<1>8. CASE RestoreStateJournal
  <2>1. CASE ShouldRecord
    BY <1>8, <2>1, <1>u DEF RestoreStateJournal
  <2>2. CASE ~ShouldRecord
    <3>1. journal \in StateBlock /\ RemembersDefined(journal)
      BY <1>8 DEF RestoreStateJournal, TypeOK, LightsStayDefined, RemembersDefined
    <3>2. light' = AppliedLight(journal, TRUE) /\ ResizeLights(journal) /\ journal' = None
      BY <1>8, <2>2 DEF RestoreStateJournal
    <3>3. \A i \in LightIndex : light'[i].valid
      BY <3>1, <3>2, AppliedDefined
    <3>4. UNCHANGED lightCount
      BY <3>2, NothingResized
    <3>5. QED
      BY <3>2, <3>3, <3>4 DEF LightsStayDefined
  <2>3. QED
    BY <2>1, <2>2
<1>9. CASE BeginStateBlock \/ ResetRejected
  BY <1>9, <1>u DEF BeginStateBlock, ResetRejected, DiscardStateJournal, journaling
<1>10. ASSUME NEW enable \in BOOLEAN, SetStateJournalCaptureEnabled(enable)
       PROVE  LightsStayDefined'
  BY <1>10, <1>u DEF SetStateJournalCaptureEnabled
<1>11. CASE ResetDevice
  BY <1>11 DEF ResetDevice, DiscardStateJournal, LightsStayDefined
<1>12. CASE UNCHANGED vars
  BY <1>12, <1>u DEF vars, journaling
<1>13. QED
  BY <1>1, <1>2, <1>3, <1>4, <1>5, <1>6, <1>7, <1>8, <1>9, <1>10, <1>11, <1>12 DEF Next

-----------------------------------------------------------------------------
(* The fast skip. *)

\* A call that moves the serial leaves no block to skip.
LEMMA MovedSerial ==
  ASSUME TypeOK, SerialsPast, Notify(TRUE), UNCHANGED block
  PROVE  FastSkipSound' /\ SkipMissesUndefinedOnly'
<1> SUFFICES ASSUME NEW b \in Block, block[b] # None, Skippable(block[b])'
             PROVE  FALSE
  BY DEF FastSkipSound, SkipMissesUndefinedOnly
<1>1. FastSkip /\ block[b].hasApplied /\ block[b].lastSerial = serial'
  BY DEF Skippable
<1>2. serial' = serial + 1
  BY <1>1 DEF Notify
<1>3. QED
  BY <1>1, <1>2 DEF SerialsPast, TypeOK

\* What a block would change depends on the device and the block only.
LEMMA SameEffect ==
  ASSUME UNCHANGED <<key, light>>, NEW b \in Block, block'[b] = block[b]
  PROVE  WouldChangeNothing(block[b])' <=> WouldChangeNothing(block[b])
<1>1. AppliedKeys(block[b], FALSE)' = AppliedKeys(block[b], FALSE)
  BY DEF AppliedKeys
<1>2. AppliedKey(block[b], FALSE)' = AppliedKey(block[b], FALSE)
  BY <1>1 DEF AppliedKey
<1>3. ASSUME NEW i \in LightIndex
      PROVE  /\ DescribedLight(block[b], i)' = DescribedLight(block[b], i)
             /\ SwitchesLight(block[b], i)' <=> SwitchesLight(block[b], i)
  BY DEF DescribedLight, DescribesLight, SwitchesLight
<1>4. \A i \in LightIndex : SwitchedLight(block[b], i)' = SwitchedLight(block[b], i)
  BY <1>3 DEF SwitchedLight
<1>5. AppliedLight(block[b], FALSE)' = AppliedLight(block[b], FALSE)
  BY <1>4 DEF AppliedLight, UndefinesLight
<1>6. QED
  BY <1>2, <1>5 DEF WouldChangeNothing

\* A call that touches neither device, serial nor blocks leaves a sound skip sound.
LEMMA StillSound ==
  ASSUME FastSkipSound, UNCHANGED <<key, light, serial, block>>
  PROVE  FastSkipSound'
<1> SUFFICES ASSUME NEW b \in Block, block'[b] # None, Skippable(block[b])'
             PROVE  WouldChangeNothing(block[b])'
  BY DEF FastSkipSound
<1>1. block'[b] = block[b] /\ Skippable(block[b])
  BY DEF Skippable
<1>2. QED
  BY <1>1, SameEffect DEF FastSkipSound

\* A block that was just captured, recorded or released is not skipped.
LEMMA FreshSound ==
  ASSUME TypeOK, FastSkipSound, UNCHANGED <<key, light, serial>>, NEW b \in Block, NEW new,
         block' = [block EXCEPT ![b] = new], new # None => ~new.hasApplied
  PROVE  FastSkipSound'
<1> SUFFICES ASSUME NEW c \in Block, block'[c] # None, Skippable(block[c])'
             PROVE  WouldChangeNothing(block[c])'
  BY DEF FastSkipSound
<1>1. c # b /\ block'[c] = block[c]
  BY DEF Skippable, TypeOK
<1>2. Skippable(block[c])
  BY <1>1 DEF Skippable
<1>3. WouldChangeNothing(block[c])
  BY <1>1, <1>2 DEF FastSkipSound
<1>4. QED
  BY <1>1, <1>3, SameEffect

\* An Apply or a restore that notifies nobody, and undefines no light, changes
\* nothing.
LEMMA QuietApply ==
  ASSUME TypeOK, NEW b \in StateBlock, NEW isJournal \in BOOLEAN,
         ~ApplyNotifies(b, isJournal),
         \A i \in LightIndex : ~UndefinesLight(b, i, isJournal)
  PROVE  AppliedKey(b, isJournal) = key /\ AppliedLight(b, isJournal) = light
<1>1. \A k \in AppliedKeys(b, isJournal) : key[k] = b.value[k]
  BY DEF ApplyNotifies, ChangedKeys
<1>2. AppliedKey(b, isJournal) = key
  BY <1>1 DEF AppliedKey, TypeOK
<1>3. \A i \in LightIndex : SwitchedLight(b, i) = light[i]
  BY DEF ApplyNotifies
<1>4. AppliedLight(b, isJournal) = light
  BY <1>3 DEF AppliedLight, TypeOK
<1>5. QED
  BY <1>2, <1>4

\* Applying a block a second time would change nothing.
LEMMA ApplyIdempotent ==
  ASSUME TypeOK, NEW b \in Block, ApplyBlock(b)
  PROVE  WouldChangeNothing(block[b])'
<1> DEFINE old == block[b]
           new == block'[b]
<1>1. old \in StateBlock /\ light \in [LightIndex -> LightState]
  BY DEF ApplyBlock, TypeOK
<1>2. /\ new.keys = old.keys /\ new.value = old.value /\ new.lights = old.lights
      /\ new.lightChanges = old.lightChanges
      /\ new.lightEnabledChanges = old.lightEnabledChanges
  <2>1. new = [old EXCEPT !.hasApplied = TRUE, !.lastSerial = serial']
    BY DEF ApplyBlock, TypeOK
  <2>2. QED
    BY <1>1, <2>1 DEF StateBlock
<1>3. key' = AppliedKey(old, FALSE) /\ light' = AppliedLight(old, FALSE)
  BY DEF ApplyBlock
<1>4. AppliedKey(block[b], FALSE)' = key'
  <2>1. AppliedKeys(block[b], FALSE)' = AppliedKeys(old, FALSE)
    BY <1>2 DEF AppliedKeys
  <2>2. AppliedKey(block[b], FALSE)'
          = [k \in Key |-> IF k \in AppliedKeys(old, FALSE) THEN old.value[k] ELSE key'[k]]
    BY <1>2, <2>1 DEF AppliedKey
  <2>3. QED
    BY <1>3, <2>2 DEF AppliedKey
<1>5. AppliedLight(block[b], FALSE)' = light'
  <2>1. ASSUME NEW i \in LightIndex PROVE SwitchedLight(block[b], i)' = light'[i]
    <3>1. light[i] \in LightState /\ old.lights[i] \in LightState
      BY <1>1 DEF StateBlock
    <3>2. light'[i] = SwitchedLight(old, i)
      BY <1>3 DEF AppliedLight, UndefinesLight
    <3>3. DescribedLight(old, i) \in LightState /\ DescribedLight(old, i).enabled = light[i].enabled
      BY <3>1 DEF DescribedLight, LightState
    <3>4. /\ light'[i] \in LightState
          /\ DescribesLight(old, i) => light'[i].valid = TRUE /\ light'[i].desc = old.lights[i].desc
      <4>1. DescribesLight(old, i) => /\ DescribedLight(old, i).valid = TRUE
                                      /\ DescribedLight(old, i).desc = old.lights[i].desc
        BY <3>1 DEF DescribedLight, LightState
      <4>2. QED
        BY <3>1, <3>2, <3>3, <4>1 DEF SwitchedLight, LightState
    <3>5. i \in old.lightEnabledChanges => light'[i].enabled = old.lights[i].enabled
      BY <3>1, <3>2, <3>3 DEF SwitchedLight, SwitchesLight, LightState
    <3>6. DescribedLight(block[b], i)' = light'[i]
      <4>1. CASE DescribesLight(old, i)
        <5>1. DescribedLight(block[b], i)'
                = [light'[i] EXCEPT !.valid = TRUE, !.desc = old.lights[i].desc]
          BY <1>2, <4>1 DEF DescribedLight, DescribesLight
        <5>2. QED
          BY <3>4, <4>1, <5>1 DEF LightState
      <4>2. CASE ~DescribesLight(old, i)
        BY <1>2, <4>2 DEF DescribedLight, DescribesLight
      <4>3. QED
        BY <4>1, <4>2
    <3>7. ~SwitchesLight(block[b], i)'
      BY <1>2, <3>5 DEF SwitchesLight
    <3>8. QED
      BY <3>6, <3>7 DEF SwitchedLight
  <2>2. light' = [i \in LightIndex |-> light'[i]]
    BY <1>3 DEF AppliedLight
  <2>3. AppliedLight(block[b], FALSE)' = [i \in LightIndex |-> SwitchedLight(block[b], i)']
    BY DEF AppliedLight, UndefinesLight
  <2>4. QED
    BY <2>1, <2>2, <2>3
<1>6. QED
  BY <1>4, <1>5 DEF WouldChangeNothing

\* Every call keeps the fast skip sound while every light is defined.
LEMMA SkipStep ==
  /\ TypeOK /\ SerialsPast /\ RecordersFresh /\ LightsStayDefined /\ FastSkipSound
  /\ [Next]_vars
  => FastSkipSound'
<1> SUFFICES ASSUME TypeOK, SerialsPast, RecordersFresh, LightsStayDefined, FastSkipSound,
                    [Next]_vars
             PROVE  FastSkipSound'
  OBVIOUS
<1>t. ASSUME Notify(TRUE), UNCHANGED block PROVE FastSkipSound'
  BY <1>t, MovedSerial
<1>k. ASSUME UNCHANGED <<key, light, serial, block>> PROVE FastSkipSound'
  BY <1>k, StillSound
<1>1. ASSUME NEW k \in Key, NEW v \in SlotValue[k], Set(k, v) \/ MultiplyTransform(k, v)
      PROVE  FastSkipSound'
  BY <1>1, <1>t, <1>k DEF Set, RecordKey, WriteKey, MultiplyTransform, device
<1>2. ASSUME NEW i \in LightIndex, NEW d \in LightDesc, SetLight(i, d) PROVE FastSkipSound'
  BY <1>2, <1>t, <1>k DEF SetLight, device
<1>3. ASSUME NEW i \in LightIndex, NEW enable \in BOOLEAN, LightEnable(i, enable)
      PROVE  FastSkipSound'
  BY <1>3, <1>t, <1>k DEF LightEnable, device
<1>4. CASE SideEffect
  BY <1>4, <1>t DEF SideEffect, DrawUP, SetRenderTarget
<1>5. ASSUME NEW b \in Block, NEW captured \in BlockTypeKey, CreateStateBlock(b, captured)
      PROVE  FastSkipSound'
  BY <1>5, CreatedBlock, FreshSound DEF CreateStateBlock, device
<1>6. ASSUME NEW b \in Block, EndStateBlock(b) PROVE FastSkipSound'
  BY <1>6, FreshSound DEF EndStateBlock, RecordersFresh, device
<1>7. ASSUME NEW b \in Block, ReleaseStateBlock(b) PROVE FastSkipSound'
  BY <1>7, FreshSound DEF ReleaseStateBlock, device
<1>8. ASSUME NEW b \in Block, Capture(b) PROVE FastSkipSound'
  <2>1. ~CaptureDevice(block[b], StreamKey).hasApplied
    BY <1>8, CapturedUnapplied DEF Capture, TypeOK
  <2>2. QED
    BY <1>8, <2>1, FreshSound DEF Capture, device
<1>9. ASSUME NEW b \in Block, ApplyBlock(b) PROVE FastSkipSound'
  <2> SUFFICES ASSUME NEW c \in Block, block'[c] # None, Skippable(block[c])'
               PROVE  WouldChangeNothing(block[c])'
    BY DEF FastSkipSound
  <2>1. CASE c = b
    BY <1>9, <2>1, ApplyIdempotent
  <2>2. CASE c # b
    <3>1. block'[c] = block[c] /\ block[b] \in StateBlock /\ block[c] \in StateBlock
      BY <1>9, <2>2 DEF ApplyBlock, TypeOK
    <3>2. /\ Notify(ApplyNotifies(block[b], FALSE))
          /\ key' = AppliedKey(block[b], FALSE) /\ light' = AppliedLight(block[b], FALSE)
      BY <1>9 DEF ApplyBlock
    <3>3. FastSkip /\ block[c].hasApplied /\ block[c].lastSerial = serial'
      <4>1. Skippable(block[c])' <=> FastSkip /\ block'[c].hasApplied /\ block'[c].lastSerial = serial'
        BY DEF Skippable
      <4>2. QED
        BY <3>1, <4>1
    <3>4. block[c].lastSerial <= serial
      BY <3>1, <3>3 DEF SerialsPast
    <3>5. ~ApplyNotifies(block[b], FALSE)
      <4> SUFFICES ASSUME ApplyNotifies(block[b], FALSE) PROVE FALSE
        OBVIOUS
      <4>1. serial' = serial + 1
        BY <3>2, <3>3, Zenon DEF Notify
      <4>2. QED
        BY <3>3, <3>4, <4>1 DEF TypeOK
    <3>6. UNCHANGED <<key, light, serial>>
      <4>1. \A i \in LightIndex : ~UndefinesLight(block[b], i, FALSE)
        BY DEF UndefinesLight
      <4>2. UNCHANGED <<key, light>>
        BY <3>1, <3>2, <3>5, <4>1, QuietApply
      <4>3. serial' = serial
        BY <3>2, <3>5, Zenon DEF Notify
      <4>4. QED
        BY <4>2, <4>3
    <3>7. WouldChangeNothing(block[c])
      BY <3>1, <3>3, <3>6 DEF FastSkipSound, Skippable
    <3>8. QED
      BY <3>1, <3>6, <3>7, SameEffect
  <2>3. QED
    BY <2>1, <2>2
<1>10. ASSUME NEW isSelective \in BOOLEAN, BeginStateJournal(isSelective) PROVE FastSkipSound'
  BY <1>10, <1>k DEF BeginStateJournal, device
<1>11. CASE RestoreStateJournal
  <2>1. CASE ShouldRecord
    BY <1>11, <2>1, <1>k DEF RestoreStateJournal, device
  <2>2. CASE ~ShouldRecord
    <3>1. /\ Notify(ApplyNotifies(journal, TRUE)) /\ UNCHANGED block
          /\ key' = AppliedKey(journal, TRUE) /\ light' = AppliedLight(journal, TRUE)
      BY <1>11, <2>2 DEF RestoreStateJournal
    <3>2. journal \in StateBlock /\ RemembersDefined(journal)
      BY <1>11 DEF RestoreStateJournal, TypeOK, LightsStayDefined, RemembersDefined
    <3>3. CASE ApplyNotifies(journal, TRUE)
      <4>1. serial' = IF FastSkip THEN serial + 1 ELSE serial
        BY <3>1, <3>3, Zenon DEF Notify
      <4>2. SUFFICES ASSUME NEW b \in Block, block[b] # None, Skippable(block[b])' PROVE FALSE
        BY <3>1 DEF FastSkipSound
      <4>3. FastSkip /\ block[b].hasApplied /\ block[b].lastSerial = serial'
        BY <3>1, <4>2 DEF Skippable
      <4>4. QED
        BY <4>1, <4>2, <4>3 DEF SerialsPast, TypeOK
    <3>4. CASE ~ApplyNotifies(journal, TRUE)
      <4>1. \A i \in LightIndex : ~UndefinesLight(journal, i, TRUE)
        BY <3>2, AppliedDefined
      <4>2. UNCHANGED <<key, light>>
        BY <3>1, <3>2, <3>4, <4>1, QuietApply
      <4>3. serial' = serial
        BY <3>1, <3>4, Zenon DEF Notify
      <4>4. QED
        BY <3>1, <4>2, <4>3, <1>k
    <3>5. QED
      BY <3>3, <3>4
  <2>3. QED
    BY <2>1, <2>2
<1>12. CASE BeginStateBlock \/ ResetRejected
  BY <1>12, <1>k DEF BeginStateBlock, ResetRejected, device
<1>13. ASSUME NEW enable \in BOOLEAN, SetStateJournalCaptureEnabled(enable)
       PROVE  FastSkipSound'
  BY <1>13, <1>k DEF SetStateJournalCaptureEnabled, device
<1>14. CASE ResetDevice
  BY <1>14, <1>t DEF ResetDevice
<1>15. ASSUME NEW b \in Block, SkipApply(b) PROVE FastSkipSound'
  BY <1>15, <1>k DEF SkipApply, vars, device
<1>16. CASE UNCHANGED vars
  BY <1>16, <1>k DEF vars, device
<1>17. QED
  BY <1>1, <1>2, <1>3, <1>4, <1>5, <1>6, <1>7, <1>8, <1>9, <1>10, <1>11, <1>12, <1>13,
     <1>14, <1>15, <1>16 DEF Next

\* The inductive invariant behind the fast skip holds in every reachable state.
THEOREM FastSkipInductive == Spec => []FastSkipInv
<1>1. Init => FastSkipInv
  <2> SUFFICES ASSUME Init PROVE FastSkipInv
    OBVIOUS
  <2>1. TypeOK
    BY InitTyped
  <2>2. JournalExclusive /\ SerialsPast /\ RecordersFresh
    BY DEF Init, JournalExclusive, SerialsPast, RecordersFresh
  <2>3. LightsDefined => LightsStayDefined /\ FastSkipSound
    <3> SUFFICES ASSUME LightsDefined PROVE LightsStayDefined /\ FastSkipSound
      OBVIOUS
    <3>1. lightCount = LightLimit /\ journal = None /\ \A b \in Block : block[b] = None
      BY DEF Init
    <3>2. \A i \in LightIndex : light[i].valid
      BY DEF Init, UndefinedLight
    <3>3. QED
      BY <3>1, <3>2, LightAssumption DEF LightsStayDefined, FastSkipSound
  <2>4. QED
    BY <2>1, <2>2, <2>3 DEF FastSkipInv
<1>2. FastSkipInv /\ [Next]_vars => FastSkipInv'
  BY TypeStep, ExclusiveStep, SerialsStep, LightsStep, SkipStep DEF FastSkipInv
<1>3. QED
  BY <1>1, <1>2, PTL DEF Spec

\* D3D9StateBlock::Apply skips only Applies that would change nothing, whatever
\* calls came in between, when the application defines each light it uses
\* before a journal is begun.
THEOREM FastSkipCorrect == LightsDefined => (Spec => []FastSkipSound)
<1> SUFFICES ASSUME LightsDefined PROVE Spec => []FastSkipSound
  OBVIOUS
<1>1. FastSkipInv => FastSkipSound
  BY DEF FastSkipInv
<1>2. QED
  BY <1>1, FastSkipInductive, PTL

-----------------------------------------------------------------------------
(* The fast skip when lights may be undefined. *)

\* A call that moves no serial, writes no slot, and leaves each light alone or
\* undefines it, takes nothing more from a skipped Apply than those lights.
LEMMA StillMisses ==
  ASSUME SkipMissesUndefinedOnly, UNCHANGED <<key, serial>>,
         \A i \in LightIndex : light'[i] = light[i] \/ ~light'[i].valid,
         \A b \in Block : block'[b] = block[b] \/ block'[b] = None \/ ~block'[b].hasApplied
  PROVE  SkipMissesUndefinedOnly'
<1> SUFFICES ASSUME NEW b \in Block, block'[b] # None, Skippable(block[b])'
             PROVE  /\ AppliedKey(block[b], FALSE)' = key'
                    /\ \A i \in LightIndex :
                         light'[i].valid => AppliedLight(block[b], FALSE)'[i] = light'[i]
  BY DEF SkipMissesUndefinedOnly
<1>1. block'[b] = block[b] /\ Skippable(block[b])
  BY DEF Skippable
<1>2. AppliedKey(block[b], FALSE) = key
  BY <1>1 DEF SkipMissesUndefinedOnly
<1>3. AppliedKey(block[b], FALSE)' = AppliedKey(block[b], FALSE)
  <2>1. AppliedKeys(block[b], FALSE)' = AppliedKeys(block[b], FALSE)
    BY <1>1 DEF AppliedKeys
  <2>2. QED
    BY <1>1, <2>1 DEF AppliedKey
<1>4. ASSUME NEW i \in LightIndex, light'[i].valid
      PROVE  AppliedLight(block[b], FALSE)'[i] = light'[i]
  <2>1. light'[i] = light[i] /\ AppliedLight(block[b], FALSE)[i] = light[i]
    BY <1>1, <1>4 DEF SkipMissesUndefinedOnly
  <2>2. DescribedLight(block[b], i)' = DescribedLight(block[b], i)
    BY <1>1, <2>1 DEF DescribedLight, DescribesLight
  <2>3. SwitchedLight(block[b], i)' = SwitchedLight(block[b], i)
    BY <1>1, <2>1, <2>2 DEF SwitchedLight, SwitchesLight
  <2>4. AppliedLight(block[b], FALSE)'[i] = SwitchedLight(block[b], i)'
    BY DEF AppliedLight, UndefinesLight
  <2>5. AppliedLight(block[b], FALSE)[i] = SwitchedLight(block[b], i)
    BY DEF AppliedLight, UndefinesLight
  <2>6. QED
    BY <2>1, <2>3, <2>4, <2>5
<1>5. QED
  BY <1>2, <1>3, <1>4

\* Every call keeps a skipped Apply from missing more than undefined lights.
LEMMA MissesStep ==
  /\ TypeOK /\ SerialsPast /\ RecordersFresh /\ SkipMissesUndefinedOnly
  /\ [Next]_vars
  => SkipMissesUndefinedOnly'
<1> SUFFICES ASSUME TypeOK, SerialsPast, RecordersFresh, SkipMissesUndefinedOnly, [Next]_vars
             PROVE  SkipMissesUndefinedOnly'
  OBVIOUS
<1>t. ASSUME Notify(TRUE), UNCHANGED block PROVE SkipMissesUndefinedOnly'
  BY <1>t, MovedSerial
<1>k. ASSUME UNCHANGED <<key, light, serial, block>> PROVE SkipMissesUndefinedOnly'
  BY <1>k, StillMisses
<1>f. ASSUME UNCHANGED <<key, light, serial>>, NEW b \in Block, NEW new,
             block' = [block EXCEPT ![b] = new], new # None => ~new.hasApplied
      PROVE  SkipMissesUndefinedOnly'
  <2>1. \A c \in Block : block'[c] = block[c] \/ block'[c] = None \/ ~block'[c].hasApplied
    BY <1>f DEF TypeOK
  <2>2. QED
    BY <1>f, <2>1, StillMisses
<1>1. ASSUME NEW k \in Key, NEW v \in SlotValue[k], Set(k, v) \/ MultiplyTransform(k, v)
      PROVE  SkipMissesUndefinedOnly'
  BY <1>1, <1>t, <1>k DEF Set, RecordKey, WriteKey, MultiplyTransform, device
<1>2. ASSUME NEW i \in LightIndex, NEW d \in LightDesc, SetLight(i, d)
      PROVE  SkipMissesUndefinedOnly'
  BY <1>2, <1>t, <1>k DEF SetLight, device
<1>3. ASSUME NEW i \in LightIndex, NEW enable \in BOOLEAN, LightEnable(i, enable)
      PROVE  SkipMissesUndefinedOnly'
  BY <1>3, <1>t, <1>k DEF LightEnable, device
<1>4. CASE SideEffect
  BY <1>4, <1>t DEF SideEffect, DrawUP, SetRenderTarget
<1>5. ASSUME NEW b \in Block, NEW captured \in BlockTypeKey, CreateStateBlock(b, captured)
      PROVE  SkipMissesUndefinedOnly'
  BY <1>5, CreatedBlock, <1>f DEF CreateStateBlock, device
<1>6. ASSUME NEW b \in Block, EndStateBlock(b) PROVE SkipMissesUndefinedOnly'
  BY <1>6, <1>f DEF EndStateBlock, RecordersFresh, device
<1>7. ASSUME NEW b \in Block, ReleaseStateBlock(b) PROVE SkipMissesUndefinedOnly'
  BY <1>7, <1>f DEF ReleaseStateBlock, device
<1>8. ASSUME NEW b \in Block, Capture(b) PROVE SkipMissesUndefinedOnly'
  <2>1. ~CaptureDevice(block[b], StreamKey).hasApplied
    BY <1>8, CapturedUnapplied DEF Capture, TypeOK
  <2>2. QED
    BY <1>8, <2>1, <1>f DEF Capture, device
<1>9. ASSUME NEW b \in Block, ApplyBlock(b) PROVE SkipMissesUndefinedOnly'
  <2>1. /\ block[b] \in StateBlock
        /\ \A c \in Block \ {b} : block'[c] = block[c]
        /\ Notify(ApplyNotifies(block[b], FALSE))
        /\ key' = AppliedKey(block[b], FALSE) /\ light' = AppliedLight(block[b], FALSE)
    BY <1>9 DEF ApplyBlock, TypeOK
  <2>2. WouldChangeNothing(block[b])'
    BY <1>9, ApplyIdempotent
  <2> SUFFICES ASSUME NEW c \in Block, block'[c] # None, Skippable(block[c])'
               PROVE  /\ AppliedKey(block[c], FALSE)' = key'
                      /\ \A i \in LightIndex :
                           light'[i].valid => AppliedLight(block[c], FALSE)'[i] = light'[i]
    BY DEF SkipMissesUndefinedOnly
  <2>3. CASE c = b
    BY <2>2, <2>3 DEF WouldChangeNothing
  <2>4. CASE c # b
    <3>1. /\ block'[c] = block[c] /\ block[c] \in StateBlock
          /\ FastSkip /\ block[c].hasApplied /\ block[c].lastSerial = serial'
      BY <2>1, <2>4 DEF Skippable, TypeOK
    <3>2. ~ApplyNotifies(block[b], FALSE)
      <4> SUFFICES ASSUME ApplyNotifies(block[b], FALSE) PROVE FALSE
        OBVIOUS
      <4>1. serial' = serial + 1
        BY <2>1, <3>1, Zenon DEF Notify
      <4>2. QED
        BY <3>1, <4>1 DEF SerialsPast, TypeOK
    <3>3. UNCHANGED <<key, light>>
      <4>1. \A i \in LightIndex : ~UndefinesLight(block[b], i, FALSE)
        BY DEF UndefinesLight
      <4>2. QED
        BY <2>1, <3>2, <4>1, QuietApply
    <3>4. serial' = serial
      BY <2>1, <3>2, Zenon DEF Notify
    <3>5. /\ AppliedKey(block[c], FALSE) = key
          /\ \A i \in LightIndex : light[i].valid => AppliedLight(block[c], FALSE)[i] = light[i]
      BY <3>1, <3>4 DEF SkipMissesUndefinedOnly, Skippable
    <3>6. AppliedKey(block[c], FALSE)' = AppliedKey(block[c], FALSE)
      <4>1. AppliedKeys(block[c], FALSE)' = AppliedKeys(block[c], FALSE)
        BY <3>1 DEF AppliedKeys
      <4>2. QED
        BY <3>1, <3>3, <4>1 DEF AppliedKey
    <3>7. AppliedLight(block[c], FALSE)' = AppliedLight(block[c], FALSE)
      <4>1. \A i \in LightIndex : SwitchedLight(block[c], i)' = SwitchedLight(block[c], i)
        BY <3>1, <3>3 DEF SwitchedLight, SwitchesLight, DescribedLight, DescribesLight
      <4>2. QED
        BY <4>1 DEF AppliedLight, UndefinesLight
    <3>8. QED
      BY <3>3, <3>5, <3>6, <3>7
  <2>5. QED
    BY <2>3, <2>4
<1>10. ASSUME NEW isSelective \in BOOLEAN, BeginStateJournal(isSelective)
       PROVE  SkipMissesUndefinedOnly'
  BY <1>10, <1>k DEF BeginStateJournal, device
<1>11. CASE RestoreStateJournal
  <2>1. CASE ShouldRecord
    BY <1>11, <2>1, <1>k DEF RestoreStateJournal, device
  <2>2. CASE ~ShouldRecord
    <3>1. /\ Notify(ApplyNotifies(journal, TRUE)) /\ UNCHANGED block
          /\ key' = AppliedKey(journal, TRUE) /\ light' = AppliedLight(journal, TRUE)
      BY <1>11, <2>2 DEF RestoreStateJournal
    <3>2. CASE ApplyNotifies(journal, TRUE)
      <4>1. Notify(TRUE)
        BY <3>1, <3>2, Zenon DEF Notify
      <4>2. QED
        BY <3>1, <4>1, <1>t
    <3>3. CASE ~ApplyNotifies(journal, TRUE)
      <4>1. serial' = serial
        BY <3>1, <3>3, Zenon DEF Notify
      <4>2. key' = key
        <5>1. \A k \in AppliedKeys(journal, TRUE) : key[k] = journal.value[k]
          BY <3>3 DEF ApplyNotifies, ChangedKeys, AppliedKeys
        <5>2. QED
          BY <3>1, <5>1 DEF AppliedKey, TypeOK
      <4>3. \A i \in LightIndex : light'[i] = light[i] \/ ~light'[i].valid
        <5>1. \A i \in LightIndex : SwitchedLight(journal, i) = light[i]
          BY <3>3 DEF ApplyNotifies
        <5>2. QED
          BY <3>1, <5>1 DEF AppliedLight, UndefinedLight
      <4>4. QED
        BY <3>1, <4>1, <4>2, <4>3, StillMisses
    <3>4. QED
      BY <3>2, <3>3
  <2>3. QED
    BY <2>1, <2>2
<1>12. CASE BeginStateBlock \/ ResetRejected
  BY <1>12, <1>k DEF BeginStateBlock, ResetRejected, device
<1>13. ASSUME NEW enable \in BOOLEAN, SetStateJournalCaptureEnabled(enable)
       PROVE  SkipMissesUndefinedOnly'
  BY <1>13, <1>k DEF SetStateJournalCaptureEnabled, device
<1>14. CASE ResetDevice
  BY <1>14, <1>t DEF ResetDevice
<1>15. ASSUME NEW b \in Block, SkipApply(b) PROVE SkipMissesUndefinedOnly'
  BY <1>15, <1>k DEF SkipApply, vars, device
<1>16. CASE UNCHANGED vars
  BY <1>16, <1>k DEF vars, device
<1>17. QED
  BY <1>1, <1>2, <1>3, <1>4, <1>5, <1>6, <1>7, <1>8, <1>9, <1>10, <1>11, <1>12, <1>13,
     <1>14, <1>15, <1>16 DEF Next

\* Whether or not the application defines its lights, an Apply that
\* D3D9StateBlock::Apply skips misses at most the definition of a light that
\* RestoreGtaSaUndefinedLight has undefined since.
THEOREM SkipMisses == Spec => []SkipMissesUndefinedOnly
<1>1. Init => SkipMissesUndefinedOnly
  BY DEF Init, SkipMissesUndefinedOnly
<1>2. FastSkipInv /\ SkipMissesUndefinedOnly /\ [Next]_vars => SkipMissesUndefinedOnly'
  BY MissesStep DEF FastSkipInv
<1>3. QED
  BY <1>1, <1>2, FastSkipInductive, PTL DEF Spec

=============================================================================
