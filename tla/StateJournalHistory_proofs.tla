--------------------- MODULE StateJournalHistory_proofs ---------------------
(***************************************************************************)
(* What a restore of the native journal owes its caller, proved for every  *)
(* set of slots and lights: a full journal puts the device back as it was  *)
(* when the journal was begun, a selective one puts back what the          *)
(* journaled calls changed and nothing else.                               *)
(***************************************************************************)
EXTENDS StateJournalHistory, GtaSaStateJournal_proofs

-----------------------------------------------------------------------------
(* The inductive invariant. *)

\* The light vector ends where the defined lights do, and an undefined light
\* is a default light that is off.
DeviceLights ==
  \A i \in LightIndex :
    /\ i >= lightCount => ~light[i].valid
    /\ ~light[i].valid => light[i] = UndefinedLight

\* A pooled journal object claims nothing.
PoolEmpty ==
  journalCache # None =>
    /\ journalCache.keys = {}
    /\ journalCache.lightChanges = {} /\ journalCache.lightEnabledChanges = {}
    /\ journalCache.lights = [i \in LightIndex |-> UndefinedLight]

\* The history variables remember something exactly while a journal is open.
HistoryTyped ==
  IF journal = None
  THEN atBegin = None /\ overwritten = {} /\ firstTouch = NoTouch
  ELSE /\ atBegin \in [key : [Key -> Value], light : [LightIndex -> LightState]]
       /\ \A i \in LightIndex : ~atBegin.light[i].valid => atBegin.light[i] = UndefinedLight
       /\ DOMAIN firstTouch \subseteq Key
       /\ firstTouch = [k \in DOMAIN firstTouch |-> firstTouch[k]]

\* The journal knows a slot from its first journaled change on, with the
\* contents it had then; only a multiplication journals a slot it leaves alone.
TouchedCaptured ==
  journal # None =>
    /\ DOMAIN firstTouch \subseteq journal.keys
    /\ journal.keys \subseteq DOMAIN firstTouch \cup TransformKey
    /\ \A k \in DOMAIN firstTouch \ TransformKey : journal.value[k] = firstTouch[k]

\* A full journal holds the contents at its beginning of every slot it knows,
\* and the device still holds those of every slot it does not know.
SlotsRestorable ==
  journal # None /\ ~selective =>
    \A k \in Key \ overwritten :
      IF k \in journal.keys THEN journal.value[k] = atBegin.key[k] ELSE key[k] = atBegin.key[k]

\* The same for light i, whose definition and whose switch are journaled apart.
LightRestorable(i) ==
  LET was == atBegin.light[i]
      now == journal.lights[i]
  IN  /\ i \notin journal.lightChanges => now = UndefinedLight /\ light[i] = was
      /\ i \in journal.lightChanges =>
           now.valid = was.valid /\ (was.valid => now.desc = was.desc)
      /\ i \in journal.lightEnabledChanges /\ was.valid => now.enabled = was.enabled
      /\ i \notin journal.lightEnabledChanges => light[i].enabled = was.enabled

LightsRestorable ==
  journal # None /\ ~selective =>
    /\ journal.lightEnabledChanges \subseteq journal.lightChanges
    /\ \A i \in LightIndex : LightRestorable(i)

RestoreInv ==
  /\ TypeOK
  /\ JournalExclusive
  /\ DeviceLights
  /\ PoolEmpty
  /\ HistoryTyped
  /\ TouchedCaptured
  /\ SlotsRestorable
  /\ LightsRestorable

-----------------------------------------------------------------------------
(* The history variables restrict nothing. *)

\* Every behavior with the history variables is one of the device without them.
THEOREM HistoryRefines == HSpec => Spec
<1>1. HInit => Init
  BY DEF HInit
<1>2. [HNext]_hvars => [Next]_vars
  BY DEF HNext, hvars
<1>3. QED
  BY <1>1, <1>2, PTL DEF HSpec, Spec

-----------------------------------------------------------------------------
(* The lights of the device. *)

\* A light is its three fields.
LEMMA SameLight ==
  ASSUME NEW l \in LightState, NEW m \in LightState,
         l.valid = m.valid, l.enabled = m.enabled, l.desc = m.desc
  PROVE  l = m
  BY DEF LightState

\* Apply gives every light it defines or switches an entry of the light vector.
LEMMA AppliedLights ==
  ASSUME TypeOK, DeviceLights, NEW b \in StateBlock, NEW isJournal \in BOOLEAN,
         light' = AppliedLight(b, isJournal), ResizeLights(b)
  PROVE  DeviceLights'
<1> SUFFICES ASSUME NEW i \in LightIndex
             PROVE  /\ i >= lightCount' => ~light'[i].valid
                    /\ ~light'[i].valid => light'[i] = UndefinedLight
  BY DEF DeviceLights
<1>1. PICK n \in 0 .. LightLimit :
        /\ \A r \in ResizingLights(b) : r < n
        /\ n = lightCount \/ n - 1 \in ResizingLights(b)
        /\ lightCount' = n
  BY DEF ResizeLights
<1>2. lightCount \in Int /\ i \in Int /\ n \in Int /\ n >= lightCount
  <2>1. \A r \in ResizingLights(b) : r \in Int /\ r >= lightCount
    BY DEF ResizingLights, LightIndex
  <2>2. QED
    BY <1>1, <2>1 DEF TypeOK, LightIndex
<1>3. light'[i] = IF UndefinesLight(b, i, isJournal) THEN UndefinedLight ELSE SwitchedLight(b, i)
  BY DEF AppliedLight
<1>4. light[i] \in LightState /\ b.lights[i] \in LightState
  BY DEF TypeOK, StateBlock
<1>5. CASE UndefinesLight(b, i, isJournal)
  BY <1>3, <1>5 DEF UndefinedLight
<1>6. CASE ~UndefinesLight(b, i, isJournal) /\ (DescribesLight(b, i) \/ SwitchesLight(b, i))
  <2>1. light'[i].valid
    BY <1>3, <1>4, <1>6 DEF SwitchedLight, DescribedLight, LightState
  <2>2. i < lightCount'
    <3>1. i < lightCount \/ i \in ResizingLights(b)
      BY <1>2, <1>6 DEF ResizingLights, SwitchesLight
    <3>2. QED
      BY <1>1, <1>2, <3>1
  <2>3. QED
    BY <1>1, <1>2, <2>1, <2>2
<1>7. CASE ~UndefinesLight(b, i, isJournal) /\ ~DescribesLight(b, i) /\ ~SwitchesLight(b, i)
  <2>1. light'[i] = light[i]
    BY <1>3, <1>7 DEF SwitchedLight, DescribedLight
  <2>2. QED
    BY <1>1, <1>2, <2>1 DEF DeviceLights
<1>8. QED
  BY <1>5, <1>6, <1>7

\* No call defines a light past the end of the light vector, nor leaves an
\* undefined one with anything but the contents of a new one.
LEMMA DeviceLightsStep == TypeOK /\ DeviceLights /\ [Next]_vars => DeviceLights'
<1> SUFFICES ASSUME TypeOK, DeviceLights, [Next]_vars PROVE DeviceLights'
  OBVIOUS
<1>1. \A i \in LightIndex : light[i] \in LightState /\ i \in Int
  BY DEF TypeOK, LightIndex
<1>2. lightCount \in Int
  BY DEF TypeOK
<1>3. ASSUME UNCHANGED <<light, lightCount>> PROVE DeviceLights'
  BY <1>3 DEF DeviceLights
<1>4. ASSUME NEW i \in LightIndex, NEW d \in LightDesc, SetLight(i, d) PROVE DeviceLights'
  <2>1. CASE ShouldRecord
    BY <1>3, <1>4, <2>1 DEF SetLight, device
  <2>2. CASE ~ShouldRecord
    <3>1. /\ light' = [light EXCEPT ![i].valid = TRUE, ![i].desc = d]
          /\ lightCount' = IF i >= lightCount THEN i + 1 ELSE lightCount
      BY <1>4, <2>2 DEF SetLight
    <3>2. light'[i].valid /\ i < lightCount' /\ lightCount' >= lightCount /\ lightCount' \in Int
      BY <1>1, <1>2, <3>1 DEF TypeOK, LightState
    <3>3. \A other \in LightIndex \ {i} : light'[other] = light[other]
      BY <3>1 DEF TypeOK
    <3>4. QED
      BY <1>1, <1>2, <3>2, <3>3 DEF DeviceLights
  <2>3. QED
    BY <2>1, <2>2
<1>5. ASSUME NEW i \in LightIndex, NEW enable \in BOOLEAN, LightEnable(i, enable) PROVE DeviceLights'
  <2>1. CASE ShouldRecord
    BY <1>3, <1>5, <2>1 DEF LightEnable, device
  <2>2. CASE ~ShouldRecord /\ light[i].enabled = enable
    <3>1. UNCHANGED light /\ lightCount' = i + 1 /\ i >= lightCount
      BY <1>5, <2>2 DEF LightEnable
    <3>2. QED
      BY <1>1, <1>2, <3>1 DEF DeviceLights
  <2>3. CASE ~ShouldRecord /\ light[i].enabled # enable
    <3>1. /\ light' = [light EXCEPT ![i].valid = TRUE, ![i].enabled = enable]
          /\ lightCount' = IF i >= lightCount THEN i + 1 ELSE lightCount
      BY <1>5, <2>3 DEF LightEnable
    <3>2. light'[i].valid /\ i < lightCount' /\ lightCount' >= lightCount /\ lightCount' \in Int
      BY <1>1, <1>2, <3>1 DEF TypeOK, LightState
    <3>3. \A other \in LightIndex \ {i} : light'[other] = light[other]
      BY <3>1 DEF TypeOK
    <3>4. QED
      BY <1>1, <1>2, <3>2, <3>3 DEF DeviceLights
  <2>4. QED
    BY <2>1, <2>2, <2>3
<1>6. ASSUME NEW b \in Block, ApplyBlock(b) PROVE DeviceLights'
  BY <1>6, AppliedLights DEF ApplyBlock, TypeOK
<1>7. CASE RestoreStateJournal
  <2>1. CASE ShouldRecord
    BY <1>3, <1>7, <2>1 DEF RestoreStateJournal, device
  <2>2. CASE ~ShouldRecord
    BY <1>7, <2>2, AppliedLights DEF RestoreStateJournal, TypeOK
  <2>3. QED
    BY <2>1, <2>2
<1>8. ASSUME NEW k \in Key, NEW v, Set(k, v) \/ MultiplyTransform(k, v) PROVE DeviceLights'
  BY <1>3, <1>8 DEF Set, RecordKey, WriteKey, MultiplyTransform, device
<1>9. CASE SideEffect \/ ResetRejected \/ ResetDevice
  BY <1>3, <1>9 DEF SideEffect, DrawUP, SetRenderTarget, ResetRejected, ResetDevice, device
<1>10. ASSUME NEW b \in Block, EndStateBlock(b) \/ ReleaseStateBlock(b) \/ Capture(b) \/ SkipApply(b)
       PROVE  DeviceLights'
  BY <1>3, <1>10 DEF EndStateBlock, ReleaseStateBlock, Capture, SkipApply, vars, device
<1>11. CASE BeginStateBlock \/ \E b \in Block, captured \in BlockTypeKey : CreateStateBlock(b, captured)
  BY <1>3, <1>11 DEF BeginStateBlock, CreateStateBlock, device
<1>12. CASE \/ \E isSelective \in BOOLEAN : BeginStateJournal(isSelective)
            \/ \E enable \in BOOLEAN : SetStateJournalCaptureEnabled(enable)
  BY <1>3, <1>12 DEF BeginStateJournal, SetStateJournalCaptureEnabled, device
<1>13. CASE UNCHANGED vars
  BY <1>3, <1>13 DEF vars, device
<1>14. QED
  BY <1>4, <1>5, <1>6, <1>7, <1>8, <1>9, <1>10, <1>11, <1>12, <1>13 DEF Next

-----------------------------------------------------------------------------
(* The pooled journal and the history of an open one. *)

\* Only a closed journal enters the pool, and it is emptied on its way.
LEMMA PoolStep == TypeOK /\ PoolEmpty /\ [Next]_vars => PoolEmpty'
<1> SUFFICES ASSUME TypeOK, PoolEmpty, [Next]_vars PROVE PoolEmpty'
  OBVIOUS
<1>1. ASSUME UNCHANGED journalCache PROVE PoolEmpty'
  BY <1>1 DEF PoolEmpty
<1>2. ASSUME journal # None, journalCache' = ResetJournal(journal) PROVE PoolEmpty'
  BY <1>2 DEF PoolEmpty, ResetJournal, TypeOK, StateBlock
<1>3. CASE RestoreStateJournal
  BY <1>2, <1>3 DEF RestoreStateJournal
<1>4. CASE ResetRejected \/ ResetDevice
  BY <1>1, <1>2, <1>4 DEF ResetRejected, ResetDevice, DiscardStateJournal
<1>5. ASSUME NEW isSelective \in BOOLEAN, BeginStateJournal(isSelective) PROVE PoolEmpty'
  BY <1>5 DEF BeginStateJournal, PoolEmpty
<1>6. ASSUME NEW k \in Key, NEW v, Set(k, v) \/ MultiplyTransform(k, v) PROVE PoolEmpty'
  BY <1>1, <1>6 DEF Set, RecordKey, WriteKey, MultiplyTransform, journaling
<1>7. ASSUME NEW i \in LightIndex, NEW d \in LightDesc, SetLight(i, d) PROVE PoolEmpty'
  BY <1>1, <1>7 DEF SetLight, journaling
<1>8. ASSUME NEW i \in LightIndex, NEW enable \in BOOLEAN, LightEnable(i, enable) PROVE PoolEmpty'
  BY <1>1, <1>8 DEF LightEnable, journaling
<1>9. CASE SideEffect
  BY <1>1, <1>9 DEF SideEffect, DrawUP, SetRenderTarget, journaling
<1>10. ASSUME NEW b \in Block, \/ EndStateBlock(b) \/ ReleaseStateBlock(b) \/ Capture(b)
                               \/ ApplyBlock(b) \/ SkipApply(b)
       PROVE  PoolEmpty'
  BY <1>1, <1>10 DEF EndStateBlock, ReleaseStateBlock, Capture, ApplyBlock, SkipApply, vars, journaling
<1>11. CASE BeginStateBlock \/ \E b \in Block, captured \in BlockTypeKey : CreateStateBlock(b, captured)
  BY <1>1, <1>11 DEF BeginStateBlock, CreateStateBlock, journaling
<1>12. CASE \E enable \in BOOLEAN : SetStateJournalCaptureEnabled(enable)
  BY <1>1, <1>12 DEF SetStateJournalCaptureEnabled
<1>13. CASE UNCHANGED vars
  BY <1>1, <1>13 DEF vars, journaling
<1>14. QED
  BY <1>3, <1>4, <1>5, <1>6, <1>7, <1>8, <1>9, <1>10, <1>11, <1>12, <1>13 DEF Next

\* A journal is only opened by BeginGtaSaStateJournal.
LEMMA OpeningStep ==
  ASSUME TypeOK, Next, journal = None, journal' # None
  PROVE  \E isSelective \in BOOLEAN : BeginStateJournal(isSelective)
<1>1. ASSUME NEW j PROVE ~Captured(j)
  BY CapturedKeepsClosed
<1>2. ASSUME NEW k \in Key, NEW v PROVE ~(Set(k, v) \/ MultiplyTransform(k, v))
  BY <1>1 DEF Set, RecordKey, WriteKey, MultiplyTransform, journaling
<1>3. ASSUME NEW i \in LightIndex, NEW d \in LightDesc PROVE ~SetLight(i, d)
  BY <1>1 DEF SetLight, journaling
<1>4. ASSUME NEW i \in LightIndex, NEW enable \in BOOLEAN PROVE ~LightEnable(i, enable)
  BY <1>1 DEF LightEnable, journaling
<1>5. ~SideEffect
  BY DEF SideEffect, DrawUP, SetRenderTarget, journaling
<1>6. ASSUME NEW b \in Block
      PROVE  ~(EndStateBlock(b) \/ ReleaseStateBlock(b) \/ Capture(b) \/ ApplyBlock(b) \/ SkipApply(b))
  BY <1>1 DEF EndStateBlock, ReleaseStateBlock, Capture, ApplyBlock, SkipApply, vars, journaling
<1>7. ~(BeginStateBlock \/ \E b \in Block, captured \in BlockTypeKey : CreateStateBlock(b, captured))
  BY DEF BeginStateBlock, CreateStateBlock, journaling
<1>8. ~\E enable \in BOOLEAN : SetStateJournalCaptureEnabled(enable)
  BY DEF SetStateJournalCaptureEnabled
<1>9. ~(RestoreStateJournal \/ ResetRejected \/ ResetDevice)
  BY DEF RestoreStateJournal, ResetRejected, ResetDevice, DiscardStateJournal
<1>10. QED
  BY <1>2, <1>3, <1>4, <1>5, <1>6, <1>7, <1>8, <1>9 DEF Next

\* While the journal stays open, a call writes a slot, writes a light, applies
\* a block, has a side effect, or leaves device and journal alone; and the kind
\* of the journal stays.
LEMMA OpenStep ==
  ASSUME TypeOK, Next, journal # None, journal' # None
  PROVE  /\ selective' = selective
         /\ \/ \E k \in Key : \E v \in SlotValue[k] : WriteKey(k, v) \/ MultiplyTransform(k, v)
            \/ ~ShouldRecord /\ \E i \in LightIndex, d \in LightDesc : SetLight(i, d)
            \/ ~ShouldRecord /\ \E i \in LightIndex, enable \in BOOLEAN : LightEnable(i, enable)
            \/ \E b \in Block : ApplyBlock(b)
            \/ SideEffect
            \/ UNCHANGED <<key, light, lightCount, journal>>
<1> DEFINE Still == selective' = selective /\ UNCHANGED <<key, light, lightCount, journal>>
<1>1. CASE \E k \in Key : \E v \in SlotValue[k] : Set(k, v) \/ MultiplyTransform(k, v)
  <2>0. PICK k \in Key : \E v \in SlotValue[k] : Set(k, v) \/ MultiplyTransform(k, v)
    BY <1>1
  <2>1. PICK v \in SlotValue[k] : Set(k, v) \/ MultiplyTransform(k, v)
    BY <2>0
  <2>2. ASSUME RecordKey(k, v) PROVE Still
    BY <2>2 DEF RecordKey, device, journaling
  <2>3. ASSUME WriteKey(k, v) \/ MultiplyTransform(k, v) PROVE selective' = selective
    BY <2>3 DEF WriteKey, MultiplyTransform
  <2>4. QED
    BY <2>1, <2>2, <2>3 DEF Set
<1>2. CASE \E i \in LightIndex, d \in LightDesc : SetLight(i, d)
  <2>1. PICK i \in LightIndex, d \in LightDesc : SetLight(i, d)
    BY <1>2
  <2>2. ASSUME ShouldRecord PROVE Still
    BY <2>1, <2>2 DEF SetLight, device, journaling
  <2>3. ASSUME ~ShouldRecord PROVE selective' = selective
    BY <2>1, <2>3 DEF SetLight
  <2>4. QED
    BY <2>1, <2>2, <2>3
<1>3. CASE \E i \in LightIndex, enable \in BOOLEAN : LightEnable(i, enable)
  <2>1. PICK i \in LightIndex, enable \in BOOLEAN : LightEnable(i, enable)
    BY <1>3
  <2>2. ASSUME ShouldRecord PROVE Still
    BY <2>1, <2>2 DEF LightEnable, device, journaling
  <2>3. ASSUME ~ShouldRecord PROVE selective' = selective
    BY <2>1, <2>3 DEF LightEnable, journaling
  <2>4. QED
    BY <2>1, <2>2, <2>3
<1>4. CASE SideEffect
  <2>1. selective' = selective
    BY <1>4 DEF SideEffect, DrawUP, SetRenderTarget, journaling
  <2>2. QED
    BY <1>4, <2>1
<1>5. CASE \E b \in Block : ApplyBlock(b)
  <2>1. selective' = selective
    BY <1>5 DEF ApplyBlock
  <2>2. QED
    BY <1>5, <2>1
<1>6. ASSUME NEW b \in Block, EndStateBlock(b) \/ ReleaseStateBlock(b) \/ Capture(b) \/ SkipApply(b)
      PROVE  Still
  BY <1>6 DEF EndStateBlock, ReleaseStateBlock, Capture, SkipApply, vars, device, journaling
<1>7. ASSUME BeginStateBlock \/ \E b \in Block, captured \in BlockTypeKey : CreateStateBlock(b, captured)
      PROVE  Still
  BY <1>7 DEF BeginStateBlock, CreateStateBlock, device, journaling
<1>8. ASSUME NEW enable \in BOOLEAN, SetStateJournalCaptureEnabled(enable) PROVE Still
  BY <1>8 DEF SetStateJournalCaptureEnabled, device
<1>9. ~(RestoreStateJournal \/ ResetRejected \/ ResetDevice \/ \E s \in BOOLEAN : BeginStateJournal(s))
  BY DEF RestoreStateJournal, ResetRejected, ResetDevice, DiscardStateJournal, BeginStateJournal
<1>10. QED
  BY <1>1, <1>2, <1>3, <1>4, <1>5, <1>6, <1>7, <1>8, <1>9 DEF Next

\* The history is begun, kept and dropped with the journal.
LEMMA HistoryStep == TypeOK /\ DeviceLights /\ HistoryTyped /\ [HNext]_hvars => HistoryTyped'
<1> SUFFICES ASSUME TypeOK, DeviceLights, HistoryTyped, [HNext]_hvars PROVE HistoryTyped'
  OBVIOUS
<1>1. CASE UNCHANGED hvars
  BY <1>1 DEF HistoryTyped, hvars, vars, history, journaling
<1>2. CASE HNext /\ journal' = None
  BY <1>2 DEF HNext, Remember, HistoryTyped
<1>3. CASE HNext /\ journal = None /\ journal' # None
  <2>1. /\ atBegin' = [key |-> key, light |-> light]
        /\ UNCHANGED <<overwritten, firstTouch>>
    BY <1>3 DEF HNext, Remember
  <2>2. firstTouch = NoTouch
    BY <1>3 DEF HistoryTyped
  <2>3. QED
    BY <1>3, <2>1, <2>2 DEF HistoryTyped, NoTouch, TypeOK, DeviceLights
<1>4. CASE HNext /\ journal # None /\ journal' # None
  <2>1. UNCHANGED atBegin /\ (UNCHANGED firstTouch \/ Touch)
    BY <1>4 DEF HNext, Remember
  <2>2. CASE UNCHANGED firstTouch
    BY <1>4, <2>1, <2>2 DEF HistoryTyped
  <2>3. CASE Touch
    BY <1>4, <2>1, <2>3 DEF HistoryTyped, Touch, Changed
  <2>4. QED
    BY <2>1, <2>2, <2>3
<1>5. QED
  BY <1>1, <1>2, <1>3, <1>4

-----------------------------------------------------------------------------
(* Slots. *)

\* A journal that has just been begun knows nothing.
LEMMA BegunEmpty ==
  ASSUME TypeOK, PoolEmpty, NEW isSelective \in BOOLEAN, BeginStateJournal(isSelective)
  PROVE  /\ UNCHANGED <<key, light, lightCount>>
         /\ journal'.keys = {}
         /\ journal'.lightChanges = {} /\ journal'.lightEnabledChanges = {}
         /\ journal'.lights = [i \in LightIndex |-> UndefinedLight]
  BY DEF BeginStateJournal, PoolEmpty, EmptyBlock, device

\* Journaling slots adds them, with the device's contents for those that are new.
LEMMA CaptureKeysAdds ==
  ASSUME TypeOK, NEW j \in StateBlock, NEW touched \in SUBSET Key
  PROVE  /\ CaptureKeys(j, touched).keys = j.keys \cup touched
         /\ \A k \in Key : CaptureKeys(j, touched).value[k] =
              IF k \in touched \ j.keys THEN key[k] ELSE j.value[k]
         /\ CaptureKeys(j, touched).lights = j.lights
         /\ CaptureKeys(j, touched).lightChanges = j.lightChanges
         /\ CaptureKeys(j, touched).lightEnabledChanges = j.lightEnabledChanges
  BY DEF CaptureKeys, StateBlock

\* Journaling a light leaves the journaled slots alone.
LEMMA CaptureLightKeys ==
  ASSUME TypeOK, NEW j \in StateBlock, NEW i \in LightIndex
  PROVE  /\ CaptureLight(j, i).keys = j.keys /\ CaptureLight(j, i).value = j.value
         /\ CaptureLightEnable(j, i).keys = j.keys /\ CaptureLightEnable(j, i).value = j.value
<1>1. CaptureLight(j, i).keys = j.keys /\ CaptureLight(j, i).value = j.value
  BY DEF CaptureLight, StateBlock
<1>2. CaptureLight(j, i) \in StateBlock
  BY CaptureLightType
<1>3. QED
  BY <1>1, <1>2 DEF CaptureLightEnable, BlockLightEnable, StateBlock

\* The journal stays as it is about slots, because nothing is owed to it.
Untouched ==
  /\ journal'.keys = journal.keys /\ journal'.value = journal.value
  /\ SideEffect \/ ~ShouldCapture \/ Changed = {}

\* The journal takes the contents of the slots that change and, after a
\* multiplication, perhaps of a transform that does not.
Journaled(touched) ==
  /\ ShouldCapture
  /\ Changed \subseteq touched /\ touched \subseteq Changed \cup TransformKey
  /\ journal'.keys = journal.keys \cup touched
  /\ \A k \in Key : journal'.value[k] =
       IF k \in touched \ journal.keys THEN key[k] ELSE journal.value[k]

\* How an open journal follows the slots of the device.
LEMMA JournaledKeys ==
  ASSUME TypeOK, Next, journal # None, journal' # None
  PROVE  Untouched \/ \E touched \in SUBSET Key : Journaled(touched)
<1>1. journal \in StateBlock
  BY DEF TypeOK
<1>2. ASSUME UNCHANGED key PROVE Changed = {}
  BY <1>2 DEF Changed
<1>3. ASSUME NEW touched \in SUBSET Key, Changed \subseteq touched,
             touched \subseteq Changed \cup TransformKey,
             NEW j, j.keys = CaptureKeys(journal, touched).keys,
             j.value = CaptureKeys(journal, touched).value, Captured(j)
      PROVE  Untouched \/ Journaled(touched)
  BY <1>1, <1>3, CaptureKeysAdds DEF Captured, Untouched, Journaled
<1>4. ASSUME NEW j, j.keys = journal.keys, j.value = journal.value, Captured(j), UNCHANGED key
      PROVE  Untouched
  BY <1>2, <1>4 DEF Captured, Untouched
<1>5. CASE \E k \in Key : \E v \in SlotValue[k] : WriteKey(k, v) \/ MultiplyTransform(k, v)
  <2>1. PICK k \in Key : \E v \in SlotValue[k] : WriteKey(k, v) \/ MultiplyTransform(k, v)
    BY <1>5
  <2>2. PICK v \in SlotValue[k] : WriteKey(k, v) \/ MultiplyTransform(k, v)
    BY <2>1
  <2>3. key' = [key EXCEPT ![k] = v] /\ Captured(CaptureKeys(journal, {k}))
    BY <2>2 DEF WriteKey, MultiplyTransform
  <2>4. Changed \subseteq {k}
    BY <2>3 DEF Changed, TypeOK
  <2>5. k \in Changed \cup TransformKey
    BY <2>2, <2>3 DEF WriteKey, MultiplyTransform, Changed, TypeOK
  <2>6. QED
    BY <1>3, <2>3, <2>4, <2>5
<1>6. CASE ~ShouldRecord /\ \E i \in LightIndex, d \in LightDesc : SetLight(i, d)
  BY <1>1, <1>4, <1>6, CaptureLightKeys DEF SetLight
<1>7. CASE ~ShouldRecord /\ \E i \in LightIndex, enable \in BOOLEAN : LightEnable(i, enable)
  <2>1. PICK i \in LightIndex, enable \in BOOLEAN : LightEnable(i, enable)
    BY <1>7
  <2>2. CASE light[i].enabled = enable
    <3>1. UNCHANGED <<key, journal>>
      BY <1>7, <2>1, <2>2 DEF LightEnable, journaling
    <3>2. QED
      BY <1>2, <3>1 DEF Untouched
  <2>3. CASE light[i].enabled # enable
    <3>1. UNCHANGED key /\ Captured(CaptureLightEnable(journal, i))
      BY <1>7, <2>1, <2>3 DEF LightEnable
    <3>2. QED
      BY <1>1, <1>4, <3>1, CaptureLightKeys
  <2>4. QED
    BY <2>2, <2>3
<1>8. CASE \E b \in Block : ApplyBlock(b)
  <2>1. PICK b \in Block : ApplyBlock(b)
    BY <1>8
  <2> DEFINE touched == ChangedKeys(block[b], FALSE)
  <2>2. block[b] \in StateBlock
    BY <2>1 DEF ApplyBlock, TypeOK
  <2>3. touched \in SUBSET Key
    BY <2>2 DEF ChangedKeys, AppliedKeys, StateBlock
  <2>4. Changed = touched
    BY <2>1, <2>2 DEF ApplyBlock, Changed, ChangedKeys, AppliedKeys, AppliedKey, StateBlock
  <2>5. /\ ApplyCaptured(journal, block[b]).keys = CaptureKeys(journal, touched).keys
        /\ ApplyCaptured(journal, block[b]).value = CaptureKeys(journal, touched).value
    <3>1. CaptureKeys(journal, touched) \in StateBlock
      BY <1>1, <2>3, CaptureKeysType
    <3>2. QED
      BY <3>1 DEF ApplyCaptured, StateBlock
  <2>6. Captured(ApplyCaptured(journal, block[b]))
    BY <2>1 DEF ApplyBlock
  <2>7. QED
    BY <1>3, <2>3, <2>4, <2>5, <2>6
<1>9. CASE SideEffect
  BY <1>9 DEF SideEffect, DrawUP, SetRenderTarget, journaling, Untouched
<1>10. CASE UNCHANGED <<key, light, lightCount, journal>>
  BY <1>2, <1>10 DEF Untouched
<1>11. QED
  BY <1>5, <1>6, <1>7, <1>8, <1>9, <1>10, OpenStep

\* The journal and the history agree on the slots a journaled call has changed.
LEMMA TouchedStep ==
  TypeOK /\ PoolEmpty /\ HistoryTyped /\ TouchedCaptured /\ [HNext]_hvars => TouchedCaptured'
<1> SUFFICES ASSUME TypeOK, PoolEmpty, HistoryTyped, TouchedCaptured, [HNext]_hvars,
                    journal' # None
             PROVE  TouchedCaptured'
  BY DEF TouchedCaptured
<1>1. CASE UNCHANGED hvars
  BY <1>1 DEF TouchedCaptured, hvars, vars, history, journaling
<1>2. CASE HNext /\ journal = None
  <2>1. PICK isSelective \in BOOLEAN : BeginStateJournal(isSelective)
    BY <1>2, OpeningStep DEF HNext
  <2>2. journal'.keys = {}
    BY <2>1, BegunEmpty
  <2>3. firstTouch' = NoTouch
    BY <1>2 DEF HNext, Remember, HistoryTyped
  <2>4. QED
    BY <2>2, <2>3 DEF TouchedCaptured, NoTouch
<1>3. CASE HNext /\ journal # None
  <2>1. CASE Untouched
    <3>1. UNCHANGED firstTouch
      <4>1. CASE SideEffect \/ ~ShouldCapture
        BY <1>3, <4>1 DEF HNext, Remember, CaptureOwed, ShouldCapture
      <4>2. CASE Changed = {}
        BY <1>3, <4>2 DEF HNext, Remember, Touch, HistoryTyped
      <4>3. QED
        BY <2>1, <4>1, <4>2 DEF Untouched
    <3>2. QED
      BY <1>3, <2>1, <3>1 DEF TouchedCaptured, Untouched
  <2>2. ASSUME NEW touched \in SUBSET Key, Journaled(touched) PROVE TouchedCaptured'
    <3> DEFINE fresh == Changed \ DOMAIN firstTouch
    <3>1. CASE SideEffect
      <4>1. journal' = journal /\ UNCHANGED firstTouch
        BY <1>3, <3>1 DEF HNext, Remember, SideEffect, DrawUP, SetRenderTarget, journaling
      <4>2. QED
        BY <4>1 DEF TouchedCaptured
    <3>2. CASE ~SideEffect
      <4>1. Touch
        BY <1>3, <2>2, <3>2 DEF HNext, Remember, CaptureOwed, Journaled, ShouldCapture
      <4>2. /\ DOMAIN firstTouch' = DOMAIN firstTouch \cup fresh
            /\ \A k \in DOMAIN firstTouch' :
                 firstTouch'[k] = IF k \in fresh THEN key[k] ELSE firstTouch[k]
        BY <4>1 DEF Touch
      <4>3. DOMAIN firstTouch' \subseteq journal'.keys
        BY <1>3, <2>2, <4>2 DEF TouchedCaptured, Journaled
      <4>4. journal'.keys \subseteq DOMAIN firstTouch' \cup TransformKey
        BY <1>3, <2>2, <4>2 DEF TouchedCaptured, Journaled
      <4>5. ASSUME NEW k \in DOMAIN firstTouch' \ TransformKey
            PROVE  journal'.value[k] = firstTouch'[k]
        <5>1. k \in Key
          BY <1>3, <4>2 DEF HistoryTyped, Changed
        <5>2. CASE k \in fresh
          <6>1. k \in touched \ journal.keys
            BY <1>3, <2>2, <4>5, <5>2 DEF TouchedCaptured, Journaled
          <6>2. QED
            BY <2>2, <4>2, <5>1, <5>2, <6>1 DEF Journaled
        <5>3. CASE k \notin fresh
          <6>1. k \in DOMAIN firstTouch /\ k \in journal.keys
            BY <1>3, <4>2, <5>3 DEF TouchedCaptured
          <6>2. QED
            BY <1>3, <2>2, <4>2, <4>5, <5>1, <5>3, <6>1 DEF Journaled, TouchedCaptured
        <5>4. QED
          BY <5>2, <5>3
      <4>6. QED
        BY <4>3, <4>4, <4>5 DEF TouchedCaptured
    <3>3. QED
      BY <3>1, <3>2
  <2>3. QED
    BY <1>3, <2>1, <2>2, JournaledKeys DEF HNext
<1>4. QED
  BY <1>1, <1>2, <1>3

\* Under a full journal a slot is journaled, or still as it was at first, or
\* was overwritten by a side effect before it was journaled.
LEMMA SlotsStep ==
  /\ TypeOK /\ PoolEmpty /\ HistoryTyped /\ TouchedCaptured /\ SlotsRestorable
  /\ [HNext]_hvars
  => SlotsRestorable'
<1> SUFFICES ASSUME TypeOK, PoolEmpty, HistoryTyped, TouchedCaptured, SlotsRestorable,
                    [HNext]_hvars, journal' # None, ~selective', NEW k \in Key \ overwritten'
             PROVE  IF k \in journal'.keys THEN journal'.value[k] = atBegin'.key[k]
                    ELSE key'[k] = atBegin'.key[k]
  BY DEF SlotsRestorable
<1>1. CASE UNCHANGED hvars
  BY <1>1 DEF SlotsRestorable, hvars, vars, history, journaling, device
<1>2. CASE HNext /\ journal = None
  <2>1. PICK isSelective \in BOOLEAN : BeginStateJournal(isSelective)
    BY <1>2, OpeningStep DEF HNext
  <2>2. journal'.keys = {} /\ UNCHANGED key
    BY <2>1, BegunEmpty
  <2>3. atBegin' = [key |-> key, light |-> light]
    BY <1>2 DEF HNext, Remember
  <2>4. QED
    BY <2>2, <2>3
<1>3. CASE HNext /\ journal # None
  <2>1. /\ atBegin' = atBegin
        /\ IF SideEffect THEN overwritten' = overwritten \cup (Changed \ DOMAIN firstTouch)
           ELSE overwritten' = overwritten
    BY <1>3 DEF HNext, Remember
  <2>2. ~selective /\ ShouldCapture /\ k \in Key \ overwritten
    BY <1>3, <2>1, OpenStep DEF HNext, ShouldCapture
  <2>3. IF k \in journal.keys THEN journal.value[k] = atBegin.key[k] ELSE key[k] = atBegin.key[k]
    BY <1>3, <2>2 DEF SlotsRestorable
  <2>4. k \notin Changed => key'[k] = key[k]
    BY DEF Changed
  <2>5. CASE Untouched
    <3>1. k \notin Changed \/ k \in journal.keys
      BY <1>3, <2>1, <2>2, <2>5 DEF Untouched, TouchedCaptured
    <3>2. QED
      BY <2>1, <2>3, <2>4, <2>5, <3>1 DEF Untouched
  <2>6. ASSUME NEW touched \in SUBSET Key, Journaled(touched)
        PROVE  IF k \in journal'.keys THEN journal'.value[k] = atBegin'.key[k]
               ELSE key'[k] = atBegin'.key[k]
    BY <2>1, <2>3, <2>4, <2>6 DEF Journaled
  <2>7. QED
    BY <1>3, <2>5, <2>6, JournaledKeys DEF HNext
<1>4. QED
  BY <1>1, <1>2, <1>3

-----------------------------------------------------------------------------
(* Lights. *)

\* What LightRestorable says of a light once it is journaled.
DescriptionKept(i, now) ==
  /\ now.valid = atBegin.light[i].valid
  /\ atBegin.light[i].valid => now.desc = atBegin.light[i].desc

\* Journaling a light that has not been journaled keeps its definition, and
\* its switch as well.
LEMMA CapturedLightKept ==
  ASSUME TypeOK, DeviceLights, journal # None, NEW i \in LightIndex, LightRestorable(i),
         journal.lightEnabledChanges \subseteq journal.lightChanges
  PROVE  /\ DescriptionKept(i, CaptureLight(journal, i).lights[i])
         /\ i \in journal.lightEnabledChanges /\ atBegin.light[i].valid
              => CaptureLight(journal, i).lights[i].enabled = atBegin.light[i].enabled
<1>1. journal \in StateBlock /\ light[i] \in LightState
  BY DEF TypeOK
<1>2. CASE i \in journal.lightChanges
  BY <1>2 DEF CaptureLight, LightRestorable, DescriptionKept
<1>3. CASE i \notin journal.lightChanges
  <2>1. light[i] = atBegin.light[i] /\ journal.lights[i] = UndefinedLight
    BY <1>3 DEF LightRestorable
  <2>2. i < lightCount \/ light[i] = UndefinedLight
    BY DEF DeviceLights, TypeOK, LightIndex
  <2>3. CaptureLight(journal, i).lights[i] = light[i]
    BY <1>1, <1>3, <2>1, <2>2 DEF CaptureLight, StateBlock
  <2>4. QED
    BY <1>3, <2>1, <2>3 DEF DescriptionKept
<1>4. QED
  BY <1>2, <1>3

\* Journaling a light touches no other light, and lists it.
LEMMA CaptureLightOthers ==
  ASSUME TypeOK, NEW j \in StateBlock, NEW i \in LightIndex
  PROVE  /\ \A other \in LightIndex \ {i} : CaptureLight(j, i).lights[other] = j.lights[other]
         /\ CaptureLight(j, i).lightChanges = j.lightChanges \cup {i}
         /\ CaptureLight(j, i).lightEnabledChanges = j.lightEnabledChanges
  BY DEF CaptureLight, StateBlock

\* A light that no call has written or journaled stays restorable.
LEMMA LightKept ==
  ASSUME NEW i \in LightIndex, LightRestorable(i), UNCHANGED atBegin,
         light'[i] = light[i], journal'.lights[i] = journal.lights[i],
         i \in journal'.lightChanges <=> i \in journal.lightChanges,
         i \in journal'.lightEnabledChanges <=> i \in journal.lightEnabledChanges
  PROVE  LightRestorable(i)'
  BY DEF LightRestorable

\* SetLight journals the light it is about to define.
LEMMA SetLightKept ==
  ASSUME TypeOK, DeviceLights, journal # None, LightsRestorable, ~selective, UNCHANGED atBegin,
         UNCHANGED selective, ~ShouldRecord,
         NEW i \in LightIndex, NEW d \in LightDesc, SetLight(i, d)
  PROVE  LightsRestorable'
<1>1. journal \in StateBlock /\ \A o \in LightIndex : light[o] \in LightState
  BY DEF TypeOK
<1>2. journal' = CaptureLight(journal, i)
  BY DEF SetLight, Captured, ShouldCapture
<1>3. light' = [light EXCEPT ![i].valid = TRUE, ![i].desc = d]
  BY DEF SetLight
<1>4. \A o \in LightIndex : LightRestorable(o)
  BY DEF LightsRestorable
<1>5. journal.lightEnabledChanges \subseteq journal.lightChanges
  BY DEF LightsRestorable
<1>6. /\ journal'.lightChanges = journal.lightChanges \cup {i}
      /\ journal'.lightEnabledChanges = journal.lightEnabledChanges
  BY <1>1, <1>2, CaptureLightOthers
<1>7. ASSUME NEW o \in LightIndex \ {i} PROVE LightRestorable(o)'
  <2>1. light'[o] = light[o] /\ journal'.lights[o] = journal.lights[o]
    BY <1>1, <1>2, <1>3, CaptureLightOthers DEF TypeOK
  <2>2. QED
    BY <1>4, <1>6, <2>1, LightKept
<1>8. LightRestorable(i)'
  <2>1. light'[i].enabled = light[i].enabled
    BY <1>1, <1>3 DEF TypeOK, LightState
  <2>2. /\ DescriptionKept(i, journal'.lights[i])
        /\ i \in journal.lightEnabledChanges /\ atBegin.light[i].valid
             => journal'.lights[i].enabled = atBegin.light[i].enabled
    BY <1>2, <1>4, <1>5, CapturedLightKept
  <2>3. i \notin journal.lightEnabledChanges => light[i].enabled = atBegin.light[i].enabled
    BY <1>4 DEF LightRestorable
  <2>4. QED
    BY <1>6, <2>1, <2>2, <2>3 DEF LightRestorable, DescriptionKept
<1>9. QED
  BY <1>5, <1>6, <1>7, <1>8 DEF LightsRestorable

\* LightEnable journals the light it is about to switch, its switch included.
LEMMA LightEnableKept ==
  ASSUME TypeOK, DeviceLights, HistoryTyped, journal # None, LightsRestorable, ~selective,
         UNCHANGED atBegin, UNCHANGED selective, ~ShouldRecord,
         NEW i \in LightIndex, NEW enable \in BOOLEAN, LightEnable(i, enable)
  PROVE  LightsRestorable'
<1>1. journal \in StateBlock /\ \A o \in LightIndex : light[o] \in LightState
  BY DEF TypeOK
<1>2. \A o \in LightIndex : LightRestorable(o)
  BY DEF LightsRestorable
<1>3. journal.lightEnabledChanges \subseteq journal.lightChanges
  BY DEF LightsRestorable
<1>4. CASE light[i].enabled = enable
  <2>1. UNCHANGED <<light, journal>>
    BY <1>4 DEF LightEnable, journaling
  <2>2. QED
    BY <1>2, <1>3, <2>1, LightKept DEF LightsRestorable
<1>5. CASE light[i].enabled # enable
  <2>1. journal' = CaptureLightEnable(journal, i)
    BY <1>5 DEF LightEnable, Captured, ShouldCapture
  <2>2. light' = [light EXCEPT ![i].valid = TRUE, ![i].enabled = enable]
    BY <1>5 DEF LightEnable
  <2>3. CASE i \in journal.lightEnabledChanges
    <3>1. journal' = journal
      BY <2>1, <2>3 DEF CaptureLightEnable
    <3>2. \A o \in LightIndex \ {i} : light'[o] = light[o]
      BY <1>1, <2>2 DEF TypeOK
    <3>3. LightRestorable(i)'
      BY <1>2, <1>3, <2>3, <3>1 DEF LightRestorable
    <3>4. QED
      BY <1>2, <1>3, <3>1, <3>2, <3>3, LightKept DEF LightsRestorable
  <2>4. CASE i \notin journal.lightEnabledChanges
    <3> DEFINE taken == CaptureLight(journal, i)
               on == light[i].valid /\ light[i].enabled
    <3>1. taken \in StateBlock
      BY <1>1, CaptureLightType
    <3>2. taken.lights[i] \in LightState
      BY <3>1 DEF StateBlock
    <3>3. on = light[i].enabled
      BY <1>1 DEF DeviceLights, UndefinedLight, LightState
    <3>4. light[i].enabled = atBegin.light[i].enabled
      BY <1>2, <2>4 DEF LightRestorable
    <3>5. journal' = BlockLightEnable(taken, i, on)
      BY <2>1, <2>4 DEF CaptureLightEnable
    <3>6. DescriptionKept(i, taken.lights[i])
      BY <1>2, <1>3, CapturedLightKept
    <3> HIDE DEF taken, on
    <3>7. /\ journal'.lights = [taken.lights EXCEPT ![i] = BlockSwitch(taken.lights[i], on)]
          /\ journal'.lightChanges = taken.lightChanges
          /\ journal'.lightEnabledChanges = taken.lightEnabledChanges \cup {i}
      BY <3>1, <3>5 DEF BlockLightEnable, StateBlock
    <3>8. journal'.lights[i] = BlockSwitch(taken.lights[i], on)
      BY <3>1, <3>7 DEF StateBlock
    <3>9. /\ journal'.lights[i].enabled = on
          /\ journal'.lights[i].valid = (taken.lights[i].valid \/ on)
          /\ journal'.lights[i].desc = taken.lights[i].desc
      BY <3>2, <3>8 DEF BlockSwitch, LightState
    <3>10. atBegin.light[i].valid \/ ~atBegin.light[i].enabled
      BY DEF HistoryTyped, UndefinedLight
    <3>11. DescriptionKept(i, journal'.lights[i])
      <4>1. on => atBegin.light[i].valid
        BY <3>3, <3>4, <3>10
      <4>2. journal'.lights[i].valid = taken.lights[i].valid
        <5>1. taken.lights[i].valid \in BOOLEAN /\ on \in BOOLEAN
          BY <3>2 DEF LightState, on
        <5>2. on => taken.lights[i].valid
          BY <3>6, <4>1 DEF DescriptionKept
        <5>3. QED
          BY <3>9, <5>1, <5>2
      <4>3. QED
        BY <3>6, <3>9, <4>2 DEF DescriptionKept
    <3>12. /\ taken.lightChanges = journal.lightChanges \cup {i}
           /\ taken.lightEnabledChanges = journal.lightEnabledChanges
           /\ \A o \in LightIndex \ {i} : taken.lights[o] = journal.lights[o]
      BY <1>1, CaptureLightOthers DEF taken
    <3>13. LightRestorable(i)'
      BY <3>3, <3>4, <3>7, <3>9, <3>11, <3>12 DEF LightRestorable, DescriptionKept
    <3>14. ASSUME NEW o \in LightIndex \ {i} PROVE LightRestorable(o)'
      <4>1. light'[o] = light[o] /\ journal'.lights[o] = journal.lights[o]
        BY <1>1, <2>2, <3>1, <3>7, <3>12 DEF TypeOK, StateBlock
      <4>2. QED
        BY <1>2, <3>7, <3>12, <4>1, LightKept
    <3>15. journal'.lightEnabledChanges \subseteq journal'.lightChanges
      BY <1>3, <3>7, <3>12
    <3>16. QED
      BY <3>13, <3>14, <3>15 DEF LightsRestorable
  <2>5. QED
    BY <2>3, <2>4
<1>6. QED
  BY <1>4, <1>5

\* Applying a user block journals each light it defines or switches.
LEMMA ApplyKept ==
  ASSUME TypeOK, DeviceLights, HistoryTyped, journal # None, LightsRestorable, ~selective,
         UNCHANGED atBegin, UNCHANGED selective, NEW b \in Block, ApplyBlock(b)
  PROVE  LightsRestorable'
<1> DEFINE B == block[b]
<1>1. journal \in StateBlock /\ B \in StateBlock
  BY DEF TypeOK, ApplyBlock
<1>2. journal' = ApplyCaptured(journal, B) /\ light' = AppliedLight(B, FALSE)
  BY DEF ApplyBlock, Captured, ShouldCapture
<1>3. \A o \in LightIndex : LightRestorable(o)
  BY DEF LightsRestorable
<1>4. journal.lightEnabledChanges \subseteq journal.lightChanges
  BY DEF LightsRestorable
<1> HIDE DEF B
<1>5. /\ journal'.lightChanges = journal.lightChanges \cup Described(B)
                                   \cup (Switched(B) \ journal.lightEnabledChanges)
      /\ journal'.lightEnabledChanges = journal.lightEnabledChanges \cup Switched(B)
      /\ journal'.lights = [i \in LightIndex |-> AppliedCapture(journal, B, i)]
  <2>1. CaptureKeys(journal, ChangedKeys(B, FALSE)) \in StateBlock
    <3>1. ChangedKeys(B, FALSE) \in SUBSET Key
      BY <1>1 DEF ChangedKeys, AppliedKeys, StateBlock
    <3>2. QED
      BY <1>1, <3>1, CaptureKeysType
  <2>2. /\ CaptureKeys(journal, ChangedKeys(B, FALSE)).lightChanges = journal.lightChanges
        /\ CaptureKeys(journal, ChangedKeys(B, FALSE)).lightEnabledChanges
             = journal.lightEnabledChanges
    BY <1>1 DEF CaptureKeys, StateBlock
  <2>3. QED
    BY <1>2, <2>1, <2>2 DEF ApplyCaptured, StateBlock
<1>6. ASSUME NEW i \in LightIndex PROVE LightRestorable(i)'
  <2> DEFINE taken == CaptureLight(journal, i).lights[i]
  <2>1. /\ light[i] \in LightState /\ B.lights[i] \in LightState /\ journal.lights[i] \in LightState
        /\ taken \in LightState
    BY <1>1, CaptureLightType DEF TypeOK, StateBlock
  <2>2. light'[i] = SwitchedLight(B, i) /\ journal'.lights[i] = AppliedCapture(journal, B, i)
    BY <1>2, <1>5 DEF AppliedLight, UndefinesLight
  <2>3. /\ DescriptionKept(i, taken)
        /\ i \in journal.lightEnabledChanges /\ atBegin.light[i].valid
             => taken.enabled = atBegin.light[i].enabled
    BY <1>3, <1>4, CapturedLightKept
  <2>4. CASE i \notin Described(B) /\ i \notin Switched(B)
    <3>1. light'[i] = light[i]
      BY <2>2, <2>4 DEF SwitchedLight, Described, Switched
    <3>2. journal'.lights[i] = journal.lights[i]
      BY <2>2, <2>4 DEF AppliedCapture
    <3>3. QED
      BY <1>3, <1>5, <2>4, <3>1, <3>2, LightKept
  <2>5. CASE i \in Described(B) /\ i \notin Switched(B)
    <3>1. light'[i].enabled = light[i].enabled
      <4>1. light'[i] = DescribedLight(B, i)
        BY <2>2, <2>5 DEF SwitchedLight, Switched
      <4>2. QED
        BY <2>1, <4>1 DEF DescribedLight, LightState
    <3>2. journal'.lights[i] = taken
      BY <2>2, <2>5 DEF AppliedCapture
    <3>3. i \in journal'.lightChanges
      BY <1>5, <2>5
    <3>4. i \in journal'.lightEnabledChanges <=> i \in journal.lightEnabledChanges
      BY <1>5, <2>5
    <3>5. i \notin journal.lightEnabledChanges => light[i].enabled = atBegin.light[i].enabled
      BY <1>3 DEF LightRestorable
    <3>6. QED
      BY <2>3, <3>1, <3>2, <3>3, <3>4, <3>5 DEF LightRestorable, DescriptionKept
  <2>6. CASE i \in Switched(B) /\ i \in journal.lightEnabledChanges
    <3>1. journal'.lights[i] = taken
      BY <2>2, <2>6 DEF AppliedCapture
    <3>2. i \in journal'.lightChanges /\ i \in journal'.lightEnabledChanges
      BY <1>4, <1>5, <2>6
    <3>3. QED
      BY <2>3, <2>6, <3>1, <3>2 DEF LightRestorable, DescriptionKept
  <2>7. CASE i \in Switched(B) /\ i \notin journal.lightEnabledChanges
    <3>1. journal'.lights[i] = BlockSwitch(taken, light[i].enabled)
      BY <2>2, <2>7 DEF AppliedCapture
    <3>2. i \in journal'.lightChanges /\ i \in journal'.lightEnabledChanges
      BY <1>5, <2>7
    <3>3. light[i].enabled = atBegin.light[i].enabled
      BY <1>3, <2>7 DEF LightRestorable
    <3>4. atBegin.light[i].valid \/ ~atBegin.light[i].enabled
      BY DEF HistoryTyped, UndefinedLight
    <3> HIDE DEF taken
    <3>5. /\ journal'.lights[i].enabled = light[i].enabled
          /\ journal'.lights[i].valid = (taken.valid \/ light[i].enabled)
          /\ journal'.lights[i].desc = taken.desc
      BY <2>1, <3>1 DEF BlockSwitch, LightState
    <3>6. journal'.lights[i].valid = taken.valid
      <4>1. taken.valid \in BOOLEAN /\ light[i].enabled \in BOOLEAN
        BY <2>1 DEF LightState
      <4>2. light[i].enabled => taken.valid
        BY <2>3, <3>3, <3>4 DEF DescriptionKept
      <4>3. QED
        BY <3>5, <4>1, <4>2
    <3>7. QED
      BY <2>3, <3>2, <3>3, <3>5, <3>6 DEF LightRestorable, DescriptionKept
  <2>8. QED
    BY <2>4, <2>5, <2>6, <2>7
<1>7. journal'.lightEnabledChanges \subseteq journal'.lightChanges
  BY <1>4, <1>5
<1>8. QED
  BY <1>6, <1>7 DEF LightsRestorable

\* Under a full journal every light can be put back: its definition and its
\* switch are journaled, or still as they were at first.
LEMMA RestorableLightsStep ==
  /\ TypeOK /\ DeviceLights /\ PoolEmpty /\ HistoryTyped /\ LightsRestorable
  /\ [HNext]_hvars
  => LightsRestorable'
<1> SUFFICES ASSUME TypeOK, DeviceLights, PoolEmpty, HistoryTyped, LightsRestorable,
                    [HNext]_hvars, journal' # None, ~selective'
             PROVE  LightsRestorable'
  BY DEF LightsRestorable
<1>1. CASE UNCHANGED hvars
  BY <1>1 DEF LightsRestorable, LightRestorable, hvars, vars, history, journaling, device
<1>2. CASE HNext /\ journal = None
  <2>1. PICK isSelective \in BOOLEAN : BeginStateJournal(isSelective)
    BY <1>2, OpeningStep DEF HNext
  <2>2. /\ UNCHANGED light
        /\ journal'.lightChanges = {} /\ journal'.lightEnabledChanges = {}
        /\ journal'.lights = [i \in LightIndex |-> UndefinedLight]
    BY <2>1, BegunEmpty
  <2>3. atBegin' = [key |-> key, light |-> light]
    BY <1>2 DEF HNext, Remember
  <2>4. QED
    BY <2>2, <2>3 DEF LightsRestorable, LightRestorable
<1>3. CASE HNext /\ journal # None
  <2>1. UNCHANGED atBegin
    BY <1>3 DEF HNext, Remember
  <2>2. UNCHANGED selective
    BY <1>3, OpenStep DEF HNext
  <2>3. journal \in StateBlock
    BY <1>3 DEF TypeOK
  <2>4. /\ journal.lightEnabledChanges \subseteq journal.lightChanges
        /\ \A i \in LightIndex : LightRestorable(i)
    BY <1>3, <2>2 DEF LightsRestorable
  <2>5. ASSUME UNCHANGED light, journal'.lights = journal.lights,
               journal'.lightChanges = journal.lightChanges,
               journal'.lightEnabledChanges = journal.lightEnabledChanges
        PROVE  LightsRestorable'
    BY <2>1, <2>4, <2>5, LightKept DEF LightsRestorable
  <2>6. CASE \E k \in Key : \E v \in SlotValue[k] : WriteKey(k, v) \/ MultiplyTransform(k, v)
    <3>1. PICK k \in Key : \E v \in SlotValue[k] : WriteKey(k, v) \/ MultiplyTransform(k, v)
      BY <2>6
    <3>2. UNCHANGED light /\ Captured(CaptureKeys(journal, {k}))
      BY <3>1 DEF WriteKey, MultiplyTransform
    <3>3. QED
      BY <2>3, <2>5, <3>2, CaptureKeysAdds DEF Captured
  <2>7. CASE ~ShouldRecord /\ \E i \in LightIndex, d \in LightDesc : SetLight(i, d)
    BY <1>3, <2>1, <2>2, <2>7, SetLightKept
  <2>8. CASE ~ShouldRecord /\ \E i \in LightIndex, enable \in BOOLEAN : LightEnable(i, enable)
    BY <1>3, <2>1, <2>2, <2>8, LightEnableKept
  <2>9. CASE \E b \in Block : ApplyBlock(b)
    BY <1>3, <2>1, <2>2, <2>9, ApplyKept
  <2>10. CASE SideEffect
    BY <2>5, <2>10 DEF SideEffect, DrawUP, SetRenderTarget, journaling
  <2>11. CASE UNCHANGED <<key, light, lightCount, journal>>
    BY <2>5, <2>11
  <2>12. QED
    BY <1>3, <2>6, <2>7, <2>8, <2>9, <2>10, <2>11, OpenStep DEF HNext
<1>4. QED
  BY <1>1, <1>2, <1>3

-----------------------------------------------------------------------------
(* The invariant and what it gives a restore. *)

\* A device as it is created, with no journal, satisfies the invariant.
LEMMA RestoreInit == HInit => RestoreInv
<1> SUFFICES ASSUME HInit PROVE RestoreInv
  OBVIOUS
<1>1. TypeOK
  BY InitTyped DEF HInit
<1>2. DeviceLights
  <2>1. \A i \in LightIndex : light[i] = [UndefinedLight EXCEPT !.valid = LightsDefined]
    BY DEF HInit, Init
  <2>2. \A i \in LightIndex : light[i].valid = LightsDefined
    BY <2>1 DEF UndefinedLight
  <2>3. ASSUME ~LightsDefined PROVE \A i \in LightIndex : light[i] = UndefinedLight
    <3>1. UndefinedLight \in LightState
      BY LightAssumption DEF UndefinedLight, LightState
    <3>2. ASSUME NEW i \in LightIndex PROVE light[i] = UndefinedLight
      <4>1. light[i] \in LightState
        BY <1>1 DEF TypeOK
      <4>2. light[i].valid = FALSE
        BY <2>2, <2>3
      <4>3. light[i].enabled = FALSE /\ light[i].desc = DefaultDesc
        BY <2>1 DEF UndefinedLight
      <4>4. QED
        BY <3>1, <4>1, <4>2, <4>3, SameLight DEF UndefinedLight
    <3>3. QED
      BY <3>2
  <2>4. ASSUME NEW i \in LightIndex, LightsDefined PROVE ~(i >= lightCount)
    <3>1. lightCount = LightLimit
      BY <2>4 DEF HInit, Init
    <3>2. i \in 0 .. LightLimit - 1 /\ LightLimit \in Nat
      BY LightAssumption DEF LightIndex
    <3>3. QED
      BY <3>1, <3>2
  <2>5. QED
    BY <2>2, <2>3, <2>4 DEF DeviceLights
<1>3. QED
  BY <1>1, <1>2 DEF HInit, Init, RestoreInv, JournalExclusive, PoolEmpty, HistoryTyped,
     TouchedCaptured, SlotsRestorable, LightsRestorable

\* No call breaks the invariant.
LEMMA RestoreInvStep == RestoreInv /\ [HNext]_hvars => RestoreInv'
<1> SUFFICES ASSUME RestoreInv, [HNext]_hvars PROVE RestoreInv'
  OBVIOUS
<1>1. [Next]_vars
  BY DEF HNext, hvars
<1>2. TypeOK' /\ JournalExclusive' /\ DeviceLights' /\ PoolEmpty'
  BY <1>1, TypeStep, ExclusiveStep, DeviceLightsStep, PoolStep DEF RestoreInv
<1>3. HistoryTyped' /\ TouchedCaptured' /\ SlotsRestorable' /\ LightsRestorable'
  BY HistoryStep, TouchedStep, SlotsStep, RestorableLightsStep DEF RestoreInv
<1>4. QED
  BY <1>2, <1>3 DEF RestoreInv

\* What the journal, the device and the history say of each other holds at
\* every moment of every behavior.
THEOREM RestoreInductive == HSpec => []RestoreInv
<1>1. QED
  BY RestoreInit, RestoreInvStep, PTL DEF HSpec

\* The journal's own Apply writes every slot it knows and no other: a recorder
\* can not be open while a journal is.
LEMMA RestoredSlots ==
  ASSUME RestoreInv, RestoreStateJournal
  PROVE  /\ ~ShouldRecord
         /\ light' = AppliedLight(journal, TRUE)
         /\ \A k \in Key : key'[k] = IF k \in journal.keys THEN journal.value[k] ELSE key[k]
<1>1. ~ShouldRecord /\ journal \in StateBlock
  BY DEF RestoreInv, RestoreStateJournal, JournalExclusive, ShouldRecord, TypeOK
<1>2. key' = AppliedKey(journal, TRUE) /\ light' = AppliedLight(journal, TRUE)
  BY <1>1 DEF RestoreStateJournal
<1>3. AppliedKeys(journal, TRUE) = journal.keys
  BY <1>1 DEF AppliedKeys, StateBlock
<1>4. QED
  BY <1>1, <1>2, <1>3 DEF AppliedKey

\* The journal's own Apply gives back the light a full journal began with.
LEMMA RestoredLights ==
  ASSUME RestoreInv, journal # None, ~selective, NEW i \in LightIndex
  PROVE  AppliedLight(journal, TRUE)[i] = atBegin.light[i]
<1> DEFINE was == atBegin.light[i]
           now == journal.lights[i]
<1>1. was \in LightState /\ light[i] \in LightState /\ now \in LightState
  BY DEF RestoreInv, HistoryTyped, TypeOK, StateBlock
<1>2. LightRestorable(i) /\ journal.lightEnabledChanges \subseteq journal.lightChanges
  BY DEF RestoreInv, LightsRestorable
<1>3. AppliedLight(journal, TRUE)[i] =
        IF UndefinesLight(journal, i, TRUE) THEN UndefinedLight ELSE SwitchedLight(journal, i)
  BY DEF AppliedLight
<1>4. CASE i \notin journal.lightChanges
  <2>1. ~UndefinesLight(journal, i, TRUE) /\ ~DescribesLight(journal, i) /\ ~SwitchesLight(journal, i)
    BY <1>2, <1>4 DEF UndefinesLight, DescribesLight, SwitchesLight
  <2>2. AppliedLight(journal, TRUE)[i] = light[i]
    BY <1>3, <2>1 DEF SwitchedLight, DescribedLight
  <2>3. QED
    BY <1>2, <1>4, <2>2 DEF LightRestorable
<1>5. CASE i \in journal.lightChanges /\ ~was.valid
  <2>1. UndefinesLight(journal, i, TRUE)
    BY <1>2, <1>5 DEF UndefinesLight, LightRestorable
  <2>2. was = UndefinedLight
    BY <1>5 DEF RestoreInv, HistoryTyped
  <2>3. QED
    BY <1>3, <2>1, <2>2
<1>6. CASE i \in journal.lightChanges /\ was.valid
  <2> DEFINE described == DescribedLight(journal, i)
  <2>1. now.valid /\ now.desc = was.desc
    BY <1>2, <1>6 DEF LightRestorable
  <2>2. AppliedLight(journal, TRUE)[i] = SwitchedLight(journal, i)
    BY <1>3, <2>1 DEF UndefinesLight
  <2>3. described = [light[i] EXCEPT !.valid = TRUE, !.desc = was.desc]
    BY <1>6, <2>1 DEF DescribedLight, DescribesLight
  <2>4. /\ described \in LightState
        /\ described.valid /\ described.desc = was.desc /\ described.enabled = light[i].enabled
    BY <1>1, <2>3 DEF LightState
  <2> HIDE DEF described
  <2>5. SwitchedLight(journal, i).enabled = was.enabled
    <3>1. i \in journal.lightEnabledChanges => now.enabled = was.enabled
      BY <1>2, <1>6 DEF LightRestorable
    <3>2. i \notin journal.lightEnabledChanges => light[i].enabled = was.enabled
      BY <1>2 DEF LightRestorable
    <3>3. QED
      BY <2>4, <3>1, <3>2 DEF SwitchedLight, SwitchesLight, described, LightState
  <2>6. /\ SwitchedLight(journal, i) \in LightState
        /\ SwitchedLight(journal, i).valid = TRUE
        /\ SwitchedLight(journal, i).desc = was.desc
    BY <1>1, <2>4 DEF SwitchedLight, described, LightState
  <2>7. was.valid = TRUE
    BY <1>1, <1>6 DEF LightState
  <2>8. SwitchedLight(journal, i) = was
    BY <1>1, <2>5, <2>6, <2>7, SameLight
  <2>9. QED
    BY <2>2, <2>8
<1>7. QED
  BY <1>4, <1>5, <1>6

\* A transaction under a full journal is invisible once restored, for every set
\* of slots and lights: RestoreGtaSaStateJournal leaves every light, and every
\* slot but those a draw or a target change wrote before they were journaled,
\* as BeginGtaSaStateJournal found them.
THEOREM FullRestore == HSpec => FullRestoreExact
<1>1. RestoreInv /\ [HNext]_hvars =>
        [journal # None /\ ~selective /\ RestoreStateJournal =>
           /\ \A k \in Key \ overwritten : key'[k] = atBegin.key[k]
           /\ light' = atBegin.light]_hvars
  <2> SUFFICES ASSUME RestoreInv, journal # None, ~selective, RestoreStateJournal
               PROVE  /\ \A k \in Key \ overwritten : key'[k] = atBegin.key[k]
                      /\ light' = atBegin.light
    OBVIOUS
  <2>1. \A k \in Key \ overwritten : key'[k] = atBegin.key[k]
    BY RestoredSlots DEF RestoreInv, SlotsRestorable
  <2>2. light' = atBegin.light
    <3>1. \A i \in LightIndex : light'[i] = atBegin.light[i]
      BY RestoredSlots, RestoredLights
    <3>2. light' = [i \in LightIndex |-> light'[i]]
      BY RestoredSlots DEF AppliedLight
    <3>3. atBegin.light = [i \in LightIndex |-> atBegin.light[i]]
      BY DEF RestoreInv, HistoryTyped
    <3>4. QED
      BY <3>1, <3>2, <3>3
  <2>3. QED
    BY <2>1, <2>2
<1>2. QED
  BY <1>1, RestoreInductive, PTL DEF HSpec, FullRestoreExact

\* A selective journal puts back the slots that were changed while capture was
\* on, to what they held before the first such change, and leaves the others as
\* the caller's uncaptured changes left them.
THEOREM SelectiveRestore == HSpec => SelectiveRestoreExact
<1>1. RestoreInv /\ [HNext]_hvars =>
        [journal # None /\ RestoreStateJournal =>
           \A k \in Key \ TransformKey :
             key'[k] = IF k \in DOMAIN firstTouch THEN firstTouch[k] ELSE key[k]]_hvars
  BY RestoredSlots DEF RestoreInv, TouchedCaptured
<1>2. QED
  BY <1>1, RestoreInductive, PTL DEF HSpec, SelectiveRestoreExact

=============================================================================
