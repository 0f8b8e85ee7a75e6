------------------------- MODULE GtaSaStateJournal -------------------------
(***************************************************************************)
(* The authoritative D3D9 state of one DXVK device with the three things   *)
(* that read it to skip or undo work: user state blocks, the fast skip of  *)
(* a repeated Apply, and the GTA SA native state journal.                  *)
(*                                                                         *)
(* Source: backend/dxvk/src/d3d9/d3d9_device.cpp, d3d9_stateblock.cpp/.h.  *)
(* Every entry point holds the device lock, so each is one action.         *)
(*                                                                         *)
(* A Key is one capturable slot (a render state, a sampler state, a stream,*)
(* a texture, a shader...); a Value stands for its contents and Null for   *)
(* the contents it has after device creation.  Lights are kept apart: they *)
(* alone may be undefined.  A setter that is handed the value the device   *)
(* already has returns early, so the pre-filter of Apply, which makes the  *)
(* same comparison first, is folded into the setter.                       *)
(***************************************************************************)
EXTENDS Integers

CONSTANTS
  Key,            \* capturable state slots other than lights
  Value,          \* contents of a slot
  SlotValue,      \* the contents each slot can have
  Null,           \* contents after device creation, a member of Value
  VertexDecl,     \* the slot Apply treats specially
  TransformKey,   \* slots MultiplyTransform writes
  UpDrawKey,      \* stream 0 and the indices, cleared by the UP draws
  TargetKey,      \* viewport and scissor, rewritten by SetRenderTarget(0)
  ResetKey,       \* slots ResetState assigns directly
  ResetSetterKey, \* slots ResetState clears through a public setter
  StreamKey,      \* stream slots, whose offset Capture leaves to the block
  KeepOffset(_, _), \* a saved and a current stream: the current at the saved offset
  BlockTypeKey,   \* slots each D3DSTATEBLOCKTYPE captures
  LightLimit,     \* how many light indices the application uses
  LightDesc,      \* contents of a D3DLIGHT9
  DefaultDesc,    \* the DefaultLight, a member of LightDesc
  Block,          \* identities of user state blocks
  FastSkip,       \* d3d9.gtaSaStateBlockFastSkip and ...Prefilter
  LightsDefined,  \* does the application define every light first?
  MaxSerial,      \* bound on m_gtaSaStateSerial
  None            \* no block, no recorder, no journal

ASSUME KeyAssumption ==
  /\ Null \in Value
  /\ SlotValue \in [Key -> SUBSET Value]
  /\ {TransformKey, UpDrawKey, TargetKey, ResetKey, ResetSetterKey, StreamKey} \subseteq SUBSET Key
  /\ TransformKey \cap (UpDrawKey \cup TargetKey \cup ResetKey \cup ResetSetterKey) = {}
  /\ BlockTypeKey \subseteq SUBSET Key

ASSUME StreamAssumption == \A saved, current \in Value : KeepOffset(saved, current) \in Value

ASSUME LightAssumption ==
  /\ LightLimit \in Nat
  /\ DefaultDesc \in LightDesc

ASSUME OptionAssumption ==
  /\ FastSkip \in BOOLEAN
  /\ LightsDefined \in BOOLEAN
  /\ MaxSerial \in Nat

LightIndex == 0 .. LightLimit - 1

VARIABLES
  key,            \* m_state without its lights
  light,          \* m_state.lights; entries past lightCount are undefined
  lightCount,     \* m_state.lights.size()
  serial,         \* m_gtaSaStateSerial
  block,          \* the live user state blocks
  recorder,       \* m_recorder
  journal,        \* m_gtaSaStateJournal
  journalCache,   \* m_gtaSaStateJournalCache
  selective,      \* m_gtaSaStateJournalSelective
  captureEnabled  \* m_gtaSaStateJournalCaptureEnabled

device == <<key, light, lightCount>>
journaling == <<journal, journalCache, selective, captureEnabled>>
vars == <<device, serial, block, recorder, journaling>>

(***************************************************************************)
(* Data.                                                                   *)
(***************************************************************************)
LightState == [valid : BOOLEAN, enabled : BOOLEAN, desc : LightDesc]

UndefinedLight == [valid |-> FALSE, enabled |-> FALSE, desc |-> DefaultDesc]

\* A D3D9StateBlock: what it captures, the captured contents, and the record
\* of its last Apply that the fast skip consults.
StateBlock ==
  [keys : SUBSET Key, value : [Key -> Value],
   lightChanges : SUBSET LightIndex, lightEnabledChanges : SUBSET LightIndex,
   lights : [LightIndex -> LightState],
   hasApplied : BOOLEAN, lastSerial : Nat]

\* Mutant: the serial of a block never applied is a sentinel.
EmptyBlockSentinel ==
  [keys |-> {}, value |-> [k \in Key |-> Null],
   lightChanges |-> {}, lightEnabledChanges |-> {},
   lights |-> [i \in LightIndex |-> UndefinedLight],
   hasApplied |-> FALSE, lastSerial |-> -1]

EmptyBlock ==
  [keys |-> {}, value |-> [k \in Key |-> Null],
   lightChanges |-> {}, lightEnabledChanges |-> {},
   lights |-> [i \in LightIndex |-> UndefinedLight],
   hasApplied |-> FALSE, lastSerial |-> 0]

TypeOK ==
  /\ key \in [Key -> Value]
  /\ light \in [LightIndex -> LightState]
  /\ lightCount \in Nat
  /\ serial \in Nat
  /\ block \in [Block -> StateBlock \cup {None}]
  /\ recorder \in StateBlock \cup {None}
  /\ journal \in StateBlock \cup {None}
  /\ journalCache \in StateBlock \cup {None}
  /\ selective \in BOOLEAN
  /\ captureEnabled \in BOOLEAN

Init ==
  /\ key = [k \in Key |-> Null]
  /\ light = [i \in LightIndex |->
                [UndefinedLight EXCEPT !.valid = LightsDefined]]
  /\ lightCount = IF LightsDefined THEN LightLimit ELSE 0
  /\ serial = 0
  /\ block = [b \in Block |-> None]
  /\ recorder = None
  /\ journal = None
  /\ journalCache = None
  /\ selective = FALSE
  /\ captureEnabled = FALSE

ShouldRecord == recorder # None

\* Mutant: a selective journal captures whatever its switch says.
ShouldCaptureAlways == journal # None

ShouldCapture == journal # None /\ (selective => captureEnabled)

\* NotifyGtaSaStateChanged: only maintained when the fast skip is on.  Several
\* notifications of one call count once: snapshots are only compared between
\* calls.
Notify(changed) ==
  /\ changed /\ FastSkip => serial < MaxSerial
  /\ serial' = IF changed /\ FastSkip THEN serial + 1 ELSE serial

(***************************************************************************)
(* First-touch capture into the journal, before the device is written.     *)
(***************************************************************************)
CaptureKeys(j, touched) ==
  [j EXCEPT !.keys = @ \cup touched,
            !.value = [k \in Key |-> IF k \in touched \ j.keys THEN key[k] ELSE j.value[k]]]

CaptureLight(j, i) ==
  IF i \in j.lightChanges THEN j
  ELSE [j EXCEPT !.lights[i] = IF i < lightCount THEN light[i] ELSE @,
                 !.lightChanges = @ \cup {i}]

\* A state block only defines a light by switching it when it is switched on.
BlockSwitch(l, enable) == [l EXCEPT !.enabled = enable, !.valid = @ \/ enable]

BlockLightEnable(b, i, enable) ==
  [b EXCEPT !.lights[i] = BlockSwitch(b.lights[i], enable),
            !.lightEnabledChanges = @ \cup {i}]

CaptureLightEnable(j, i) ==
  IF i \in j.lightEnabledChanges THEN j
  ELSE BlockLightEnable(CaptureLight(j, i), i, light[i].valid /\ light[i].enabled)

Captured(j) == journal' = IF ShouldCapture THEN j ELSE journal

(***************************************************************************)
(* Setters.  Set stands for every scalar setter: they share one shape.     *)
(***************************************************************************)
RecordKey(k, v) ==
  /\ ShouldRecord
  /\ recorder' = [recorder EXCEPT !.keys = @ \cup {k}, !.value[k] = v]
  /\ UNCHANGED <<device, serial, block, journaling>>

WriteKey(k, v) ==
  /\ ~ShouldRecord
  /\ key[k] # v
  /\ Captured(CaptureKeys(journal, {k}))
  /\ key' = [key EXCEPT ![k] = v]
  /\ Notify(TRUE)
  /\ UNCHANGED <<light, lightCount, block, recorder, journalCache, selective, captureEnabled>>

Set(k, v) == RecordKey(k, v) \/ WriteKey(k, v)

\* Never recorded, and journaled even when the product is the same matrix.
MultiplyTransform(k, v) ==
  /\ k \in TransformKey
  /\ Captured(CaptureKeys(journal, {k}))
  /\ key' = [key EXCEPT ![k] = v]
  /\ Notify(TRUE)
  /\ UNCHANGED <<light, lightCount, block, recorder, journalCache, selective, captureEnabled>>

SetLight(i, d) ==
  \/ /\ ShouldRecord
     /\ recorder' = [recorder EXCEPT
          !.lights[i].valid = TRUE, !.lights[i].desc = d,
          !.lightChanges = @ \cup {i}]
     /\ UNCHANGED <<device, serial, block, journaling>>
  \/ /\ ~ShouldRecord
     /\ ~(light[i].valid /\ light[i].desc = d)
     /\ Captured(CaptureLight(journal, i))
     /\ light' = [light EXCEPT ![i].valid = TRUE, ![i].desc = d]
     /\ lightCount' = IF i >= lightCount THEN i + 1 ELSE lightCount
     /\ Notify(TRUE)
     /\ UNCHANGED <<key, block, recorder, journalCache, selective, captureEnabled>>

LightEnable(i, enable) ==
  \/ /\ ShouldRecord
     /\ recorder' = BlockLightEnable(recorder, i, enable)
     /\ UNCHANGED <<device, serial, block, journaling>>
  \/ /\ ~ShouldRecord
     /\ light[i].enabled = enable
     /\ i >= lightCount
     /\ lightCount' = i + 1
     /\ Notify(TRUE)
     /\ UNCHANGED <<key, light, block, recorder, journaling>>
  \/ /\ ~ShouldRecord
     /\ light[i].enabled # enable
     /\ Captured(CaptureLightEnable(journal, i))
     /\ light' = [light EXCEPT ![i].valid = TRUE, ![i].enabled = enable]
     /\ lightCount' = IF i >= lightCount THEN i + 1 ELSE lightCount
     /\ Notify(TRUE)
     /\ UNCHANGED <<key, block, recorder, journalCache, selective, captureEnabled>>

(***************************************************************************)
(* State changes that are a side effect of another call.  They notify but  *)
(* neither record nor journal.                                             *)
(***************************************************************************)
\* Mutant: the draws forget NotifyGtaSaStateChanged.
DrawUPUnnotified(cleared) ==
  /\ cleared \subseteq UpDrawKey
  /\ \E k \in cleared : key[k] # Null
  /\ key' = [k \in Key |-> IF k \in cleared THEN Null ELSE key[k]]
  /\ UNCHANGED <<light, lightCount, serial, block, recorder, journaling>>

\* DrawPrimitiveUP clears stream 0; DrawIndexedPrimitiveUP the indices too.
DrawUP(cleared) ==
  /\ cleared \subseteq UpDrawKey
  /\ \E k \in cleared : key[k] # Null
  /\ key' = [k \in Key |-> IF k \in cleared THEN Null ELSE key[k]]
  /\ Notify(TRUE)
  /\ UNCHANGED <<light, lightCount, block, recorder, journaling>>

\* Notifies for a new target even when its extent is the old one's.
SetRenderTarget(v) ==
  /\ key' = [k \in Key |-> IF k \in TargetKey THEN v ELSE key[k]]
  /\ Notify(TRUE)
  /\ UNCHANGED <<light, lightCount, block, recorder, journaling>>

(***************************************************************************)
(* User state blocks.                                                      *)
(***************************************************************************)
\* Capture leaves a light alone that the device does not define.
CapturedDesc(b, i) ==
  IF i \in b.lightChanges /\ light[i].valid
  THEN [b.lights[i] EXCEPT !.valid = TRUE, !.desc = light[i].desc]
  ELSE b.lights[i]

CapturedLight(b, i) ==
  IF i \in b.lightEnabledChanges /\ i < lightCount
  THEN BlockSwitch(CapturedDesc(b, i), light[i].enabled)
  ELSE CapturedDesc(b, i)

CapturedValue(b, k, kept) ==
  IF k \notin b.keys THEN b.value[k]
  ELSE IF k \in kept THEN KeepOffset(b.value[k], key[k]) ELSE key[k]

CaptureDevice(b, kept) ==
  [b EXCEPT !.value = [k \in Key |-> CapturedValue(b, k, kept)],
            !.lights = [i \in LightIndex |-> CapturedLight(b, i)],
            !.hasApplied = FALSE]

CreateStateBlock(b, captured) ==
  /\ ~ShouldRecord
  /\ block[b] = None
  /\ \E withLights \in BOOLEAN :
       LET known == {i \in LightIndex : withLights /\ i < lightCount}
       IN  block' = [block EXCEPT ![b] = CaptureDevice(
             [EmptyBlock EXCEPT !.keys = captured,
                                !.lightChanges = known, !.lightEnabledChanges = known], {})]
  /\ UNCHANGED <<device, serial, recorder, journaling>>

\* Mutant: a block can be recorded inside a native journal.
BeginStateBlockInJournal ==
  /\ ~ShouldRecord
  /\ recorder' = EmptyBlock
  /\ UNCHANGED <<device, serial, block, journaling>>

BeginStateBlock ==
  /\ ~ShouldRecord /\ journal = None
  /\ recorder' = EmptyBlock
  /\ UNCHANGED <<device, serial, block, journaling>>

EndStateBlock(b) ==
  /\ ShouldRecord
  /\ block[b] = None
  /\ block' = [block EXCEPT ![b] = recorder]
  /\ recorder' = None
  /\ UNCHANGED <<device, serial, journaling>>

ReleaseStateBlock(b) ==
  /\ block[b] # None
  /\ block' = [block EXCEPT ![b] = None]
  /\ UNCHANGED <<device, serial, recorder, journaling>>

Capture(b) ==
  /\ ~ShouldRecord
  /\ block[b] # None
  /\ block' = [block EXCEPT ![b] = CaptureDevice(block[b], StreamKey)]
  /\ UNCHANGED <<device, serial, recorder, journaling>>

(***************************************************************************)
(* Apply.  A user block whose declaration is null leaves the device's; the *)
(* journal's, and a light that was undefined, are put back.                *)
(***************************************************************************)
\* Mutant: the journal, like a user block, leaves a null declaration out.
AppliedKeysNonNull(b, isJournal) == {k \in b.keys : k = VertexDecl => b.value[k] # Null}

AppliedKeys(b, isJournal) ==
  {k \in b.keys : k = VertexDecl => b.value[k] # Null \/ isJournal}

ChangedKeys(b, isJournal) == {k \in AppliedKeys(b, isJournal) : key[k] # b.value[k]}

AppliedKey(b, isJournal) ==
  [k \in Key |-> IF k \in AppliedKeys(b, isJournal) THEN b.value[k] ELSE key[k]]

DescribesLight(b, i) == i \in b.lightChanges /\ b.lights[i].valid

\* The SetLight pass, then the LightEnable pass on its result.
DescribedLight(b, i) ==
  IF DescribesLight(b, i)
  THEN [light[i] EXCEPT !.valid = TRUE, !.desc = b.lights[i].desc]
  ELSE light[i]

SwitchesLight(b, i) ==
  i \in b.lightEnabledChanges /\ light[i].enabled # b.lights[i].enabled

SwitchedLight(b, i) ==
  IF SwitchesLight(b, i)
  THEN [DescribedLight(b, i) EXCEPT !.valid = TRUE, !.enabled = b.lights[i].enabled]
  ELSE DescribedLight(b, i)

\* Mutant: the journal restores a light that was undefined as a default light.
UndefinesNoLight(b, i, isJournal) == FALSE

UndefinesLight(b, i, isJournal) ==
  isJournal /\ i \in b.lightChanges /\ ~b.lights[i].valid

AppliedLight(b, isJournal) ==
  [i \in LightIndex |-> IF UndefinesLight(b, i, isJournal)
                        THEN UndefinedLight ELSE SwitchedLight(b, i)]

\* LightEnable resizes the light vector even when it switches nothing.
ResizingLights(b) ==
  {i \in LightIndex : i >= lightCount /\ (DescribesLight(b, i) \/ i \in b.lightEnabledChanges)}

ResizeLights(b) ==
  \E n \in 0 .. LightLimit :
    /\ \A i \in ResizingLights(b) : i < n
    /\ n = lightCount \/ n - 1 \in ResizingLights(b)
    /\ lightCount' = n

\* RestoreGtaSaUndefinedLight is absent here: it does not notify.
ApplyNotifies(b, isJournal) ==
  \/ ChangedKeys(b, isJournal) # {}
  \/ \E i \in LightIndex : SwitchedLight(b, i) # light[i]
  \/ ResizingLights(b) # {}

\* The setters Apply calls journal each change they make.
Described(b) == {i \in LightIndex : DescribedLight(b, i) # light[i]}

Switched(b) == {i \in LightIndex : SwitchesLight(b, i)}

AppliedCapture(j, b, i) ==
  LET before == IF i \in Described(b) \cup Switched(b)
                THEN CaptureLight(j, i).lights[i] ELSE j.lights[i]
  IN  IF i \in Switched(b) \ j.lightEnabledChanges
      THEN BlockSwitch(before, light[i].enabled)
      ELSE before

ApplyCaptured(j, b) ==
  [CaptureKeys(j, ChangedKeys(b, FALSE)) EXCEPT
    !.lightChanges = @ \cup Described(b) \cup (Switched(b) \ j.lightEnabledChanges),
    !.lightEnabledChanges = @ \cup Switched(b),
    !.lights = [i \in LightIndex |-> AppliedCapture(j, b, i)]]

Skippable(b) == FastSkip /\ b.hasApplied /\ b.lastSerial = serial

ApplyBlock(b) ==
  /\ ~ShouldRecord
  /\ block[b] # None
  /\ ~Skippable(block[b])
  /\ key' = AppliedKey(block[b], FALSE)
  /\ light' = AppliedLight(block[b], FALSE)
  /\ ResizeLights(block[b])
  /\ Notify(ApplyNotifies(block[b], FALSE))
  /\ Captured(ApplyCaptured(journal, block[b]))
  /\ block' = [block EXCEPT ![b].hasApplied = TRUE, ![b].lastSerial = serial']
  /\ UNCHANGED <<recorder, journalCache, selective, captureEnabled>>

SkipApply(b) ==
  /\ ~ShouldRecord
  /\ block[b] # None
  /\ Skippable(block[b])
  /\ UNCHANGED vars

(***************************************************************************)
(* The native journal.                                                     *)
(***************************************************************************)
\* Mutant: the pooled object still claims what it captured.
ResetJournalKept(j) == [j EXCEPT !.hasApplied = FALSE]

\* The pooled object keeps the values it captured but forgets its captures.
ResetJournal(j) ==
  [j EXCEPT !.keys = {}, !.lightChanges = {}, !.lightEnabledChanges = {},
            !.lights = [i \in LightIndex |-> UndefinedLight], !.hasApplied = FALSE]

BeginStateJournal(isSelective) ==
  /\ ~ShouldRecord /\ journal = None
  /\ journal' = IF journalCache # None THEN journalCache ELSE EmptyBlock
  /\ journalCache' = None
  /\ selective' = isSelective
  /\ captureEnabled' = ~isSelective
  /\ UNCHANGED <<device, serial, block, recorder>>

SetStateJournalCaptureEnabled(enable) ==
  /\ journal # None /\ selective
  /\ captureEnabled' = enable
  /\ UNCHANGED <<device, serial, block, recorder, journal, journalCache, selective>>

\* The journal's own Apply fails while a recorder is open; the journal is
\* closed and emptied all the same.
RestoreStateJournal ==
  /\ journal # None
  /\ \/ /\ ShouldRecord
        /\ UNCHANGED <<device, serial>>
     \/ /\ ~ShouldRecord
        /\ key' = AppliedKey(journal, TRUE)
        /\ light' = AppliedLight(journal, TRUE)
        /\ ResizeLights(journal)
        /\ Notify(ApplyNotifies(journal, TRUE))
  /\ journal' = None
  /\ journalCache' = ResetJournal(journal)
  /\ selective' = FALSE
  /\ captureEnabled' = FALSE
  /\ UNCHANGED <<block, recorder>>

DiscardStateJournal ==
  /\ journal' = None
  /\ journalCache' = IF journal # None THEN ResetJournal(journal) ELSE journalCache
  /\ selective' = FALSE
  /\ captureEnabled' = FALSE

(***************************************************************************)
(* Device reset.  A reset with invalid parameters only loses the journal.  *)
(* Past that check ResetState has run, whether or not the reset succeeds;  *)
(* the setters it calls still obey a recorder that was left open.          *)
(***************************************************************************)
ResetRejected ==
  /\ DiscardStateJournal
  /\ UNCHANGED <<device, serial, block, recorder>>

ResetDevice ==
  /\ DiscardStateJournal
  /\ LET recorded == IF ShouldRecord THEN ResetSetterKey ELSE {}
         cleared == (ResetKey \cup ResetSetterKey) \ recorded
     IN  /\ key' = [k \in Key |-> IF k \in cleared THEN Null ELSE key[k]]
         /\ recorder' = IF ShouldRecord
                        THEN [recorder EXCEPT !.keys = @ \cup recorded,
                               !.value = [k \in Key |-> IF k \in recorded THEN Null ELSE recorder.value[k]]]
                        ELSE recorder
  /\ Notify(TRUE)
  /\ UNCHANGED <<light, lightCount, block>>

(***************************************************************************)
(* The calls that must journal what they change, and those that do not.    *)
(***************************************************************************)
SideEffect ==
  \/ \E cleared \in SUBSET UpDrawKey : DrawUP(cleared)
  \/ \E v \in Value : (\A k \in TargetKey : v \in SlotValue[k]) /\ SetRenderTarget(v)

Next ==
  \/ \E k \in Key : \E v \in SlotValue[k] : Set(k, v) \/ MultiplyTransform(k, v)
  \/ \E i \in LightIndex, d \in LightDesc : SetLight(i, d)
  \/ \E i \in LightIndex, enable \in BOOLEAN : LightEnable(i, enable)
  \/ SideEffect
  \/ \E b \in Block, captured \in BlockTypeKey : CreateStateBlock(b, captured)
  \/ BeginStateBlock
  \/ \E b \in Block : EndStateBlock(b) \/ ReleaseStateBlock(b) \/ Capture(b)
                        \/ ApplyBlock(b) \/ SkipApply(b)
  \/ \E isSelective \in BOOLEAN : BeginStateJournal(isSelective)
  \/ \E enable \in BOOLEAN : SetStateJournalCaptureEnabled(enable)
  \/ RestoreStateJournal
  \/ ResetRejected
  \/ ResetDevice

Spec == Init /\ [][Next]_vars

(***************************************************************************)
(* What the fast skip relies on.                                           *)
(***************************************************************************)
\* Applying b would leave every slot and light of the device as it is.
WouldChangeNothing(b) ==
  /\ AppliedKey(b, FALSE) = key
  /\ AppliedLight(b, FALSE) = light

\* d3d9_options.h:180-181: an Apply is skipped only "when neither the device
\* logical state nor the state block contents changed since its previous
\* Apply".  So an Apply that the serial comparison in D3D9StateBlock::Apply
\* skips is one that would change nothing, whatever setters, side effects,
\* journal restores, resets and captures came in between.
FastSkipSound ==
  \A b \in Block : block[b] # None /\ Skippable(block[b]) => WouldChangeNothing(block[b])

\* The same when lights may be undefined: a skipped Apply misses at most the
\* definition of a light that a restore has undefined (RestoreGtaSaUndefinedLight
\* does not notify).
SkipMissesUndefinedOnly ==
  \A b \in Block : block[b] # None /\ Skippable(block[b]) =>
    /\ AppliedKey(block[b], FALSE) = key
    /\ \A i \in LightIndex : light[i].valid => AppliedLight(block[b], FALSE)[i] = light[i]

(***************************************************************************)
(* The strengthening that makes FastSkipSound inductive.                   *)
(***************************************************************************)
\* BeginStateBlock and BeginGtaSaStateJournal each refuse while the other is
\* open, so a setter is never owed to both.
JournalExclusive == journal = None \/ recorder = None

\* No block remembers a serial the device has yet to reach.
SerialsPast ==
  \A b \in Block : block[b] # None /\ block[b].hasApplied => block[b].lastSerial <= serial

\* Once every light is defined, no journal can capture an undefined one, so no
\* restore undefines one behind the serial's back.
LightsStayDefined ==
  /\ lightCount >= LightLimit
  /\ \A i \in LightIndex : light[i].valid
  /\ journal # None => \A i \in journal.lightChanges : journal.lights[i].valid

\* A block being recorded was never applied, and the pooled journal remembers
\* no light.
RecordersFresh ==
  /\ recorder # None => ~recorder.hasApplied
  /\ journalCache # None => journalCache.lightChanges = {}

FastSkipInv ==
  /\ TypeOK
  /\ JournalExclusive
  /\ SerialsPast
  /\ RecordersFresh
  /\ LightsDefined => LightsStayDefined /\ FastSkipSound

=============================================================================
