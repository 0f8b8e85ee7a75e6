-------------------------- MODULE EffectParameters --------------------------
(***************************************************************************)
(* The parameters of one effect between the game, D3DX and the device.     *)
(* The Bridge's call sites and hooks drop a write that repeats the last    *)
(* one (SkipDuplicateMatrices, SkipDuplicateParameters), and in a pass of  *)
(* a verified technique hold writes back from D3DX and submit them to the  *)
(* device themselves (DirectConstants).                                    *)
(*                                                                         *)
(* Source: src/bridge/legacy/BridgeD3D9.cpp.  The caches and the direct    *)
(* context belong to the rendering thread.  D3DX is external: it remembers *)
(* what it was told, applies all of it at BeginPass and what changed since *)
(* at CommitChanges.  A parameter's value on the device stands for all     *)
(* registers and stages computed from it.                                  *)
(***************************************************************************)
CONSTANTS
  Param,     \* parameters of the effect
  Held,      \* those a direct context keeps from D3DX
  Copied,    \* those it reads along: the base texture, the ambient light
  Required,  \* those it waits for before it submits, the DirectSeen bits
  Filtered,  \* those whose call sites drop duplicates
  Matrix,    \* the matrices among them
  Value,
  None

ASSUME ParamAssumption ==
  /\ {Held, Copied, Required, Filtered} \subseteq SUBSET Param
  /\ Matrix \subseteq Filtered
  /\ Held \subseteq Required
  /\ Held \cap Copied = {}
  /\ None \notin Value

VARIABLES
  filtered,  \* parameters the configuration filters
  direct,    \* DirectConstants
  phase,     \* of the effect
  journaled, \* its transaction is active
  value,     \* what D3DX holds
  dirty,     \* what D3DX has still to apply
  device,    \* what the pass draws with; None for what is not the pass's
  cache,     \* the last value each duplicate filter let through
  context,   \* g_properShadersDirectContext while active
  intended,  \* history: the last value the game has set
  missed     \* history: parameters whose last write was dropped wrongly

config == <<filtered, direct>>
history == <<intended, missed>>
vars == <<config, phase, journaled, value, dirty, device, cache, context, history>>

-----------------------------------------------------------------------------
Context ==
  [seen : SUBSET Required, captured : SUBSET Required,
   copy : [Held \cup Copied -> Value \cup {None}]]

\* No context is a context.
ASSUME ContextAssumption == None \notin Context

Nowhere == [p \in Param |-> None]

TypeOK ==
  /\ filtered \subseteq Filtered
  /\ direct \in BOOLEAN
  /\ phase \in {"idle", "begun", "pass"}
  /\ journaled \in BOOLEAN
  /\ value \in [Param -> Value]
  /\ dirty \subseteq Param
  /\ device \in [Param -> Value \cup {None}]
  /\ cache \in [Param -> Value \cup {None}]
  /\ context \in Context \cup {None}
  /\ intended \in [Param -> Value]
  /\ missed \subseteq Param

Init ==
  /\ filtered \in {{}, Matrix, Filtered \ Matrix, Filtered}
  /\ direct \in BOOLEAN
  /\ phase = "idle"
  /\ journaled = FALSE
  /\ \E v \in Value : value = [p \in Param |-> v]
  /\ dirty = {}
  /\ device = Nowhere
  /\ cache = Nowhere
  /\ context = None
  /\ intended = value
  /\ missed = {}

-----------------------------------------------------------------------------
(* Writes: the optimized call sites and the SetFloat and SetTexture hooks.  *)

\* Mutant: the ambient light counts as seen.
SeenBitsAll(p) == {p}

\* The ambient light is copied without a DirectSeen bit of its own.
SeenBits(p) == {p} \cap Required

See(p, v) ==
  [context EXCEPT !.seen = @ \cup SeenBits(p), !.captured = @ \cup SeenBits(p),
                  !.copy = [q \in Held \cup Copied |-> IF q = p THEN v ELSE @[q]]]

\* What the next submission of p, direct or by D3DX, would use.
Effective(p) ==
  IF context # None /\ p \in context.captured \cap Held THEN context.copy[p] ELSE value[p]

Intend(p, v) == intended' = [intended EXCEPT ![p] = v]

Capture(p, v) ==
  /\ context # None /\ p \in Held
  /\ context' = See(p, v)
  /\ Intend(p, v)
  /\ missed' = missed \ {p}
  /\ UNCHANGED <<config, phase, journaled, value, dirty, device, cache>>

Copy(p, v) == context' = IF context # None THEN See(p, v) ELSE None

\* Held parameters were captured before the filter is asked.
Uncaptured(p) == context = None \/ p \notin Held

SkipDuplicate(p, v) ==
  /\ Uncaptured(p)
  /\ p \in filtered /\ cache[p] = v
  /\ Copy(p, v)
  /\ Intend(p, v)
  /\ missed' = IF value[p] = v THEN missed \ {p} ELSE missed \cup {p}
  /\ UNCHANGED <<config, phase, journaled, value, dirty, device, cache>>

\* Mutant: the filter remembers only the first value.
RememberFirst(p, v) == [cache EXCEPT ![p] = IF p \in filtered /\ @ = None THEN v ELSE @]

Remember(p, v) == [cache EXCEPT ![p] = IF p \in filtered THEN v ELSE @]

Write(p, v) ==
  /\ Uncaptured(p)
  /\ ~(p \in filtered /\ cache[p] = v)
  /\ Copy(p, v)
  /\ value' = [value EXCEPT ![p] = v]
  /\ dirty' = dirty \cup {p}
  /\ cache' = Remember(p, v)
  /\ Intend(p, v)
  /\ missed' = missed \ {p}
  /\ UNCHANGED <<config, phase, journaled, device>>

\* The same call site writes a parameter of another effect.
WriteOther(p) ==
  /\ p \in filtered
  /\ cache' = [cache EXCEPT ![p] = None]
  /\ UNCHANGED <<config, phase, journaled, value, dirty, device, context, history>>

-----------------------------------------------------------------------------
(* The caches and the direct context.                                       *)

\* ResetProperShadersParameterCaches leaves the matrices for Present.
ResetParameterCaches == cache' = [p \in Param |-> IF p \in Matrix THEN cache[p] ELSE None]

Present ==
  /\ cache' = Nowhere
  /\ UNCHANGED <<config, phase, journaled, value, dirty, device, context, history>>

\* Mutant: only what was written since the last direct submission is handed over.
HandedOverSeen == IF context = None THEN {} ELSE context.seen \cap Held

\* SynchronizeProperShadersDirectParameters: D3DX's own setters, behind the caches.
HandedOver == IF context = None THEN {} ELSE context.captured \cap Held

Synchronized == [p \in Param |-> IF p \in HandedOver THEN context.copy[p] ELSE value[p]]

\* Mutant: the context is closed without handing over.
CloseContextOnly == context' = None /\ UNCHANGED value

CloseContext ==
  /\ context' = None
  /\ value' = Synchronized

\* Ambient comes from the effect; the rest is whatever is captured first.
OpenedContext ==
  [seen |-> {}, captured |-> {},
   copy |-> [p \in Held \cup Copied |-> IF p \in Copied \ Required THEN value[p] ELSE None]]

\* Activation is refused for other techniques and unknown shaders.
ActivateDirectConstants == context' \in {None} \cup IF direct THEN {OpenedContext} ELSE {}

-----------------------------------------------------------------------------
(* Begin, BeginPass, CommitChanges, EndPass and End.                        *)

Begin ==
  /\ phase = "idle"
  /\ phase' = "begun"
  /\ \/ journaled' \in BOOLEAN /\ UNCHANGED cache
     \/ journaled' = FALSE /\ ResetParameterCaches
  /\ UNCHANGED <<config, value, dirty, device, context, history>>

\* RestartProperShadersBaselinePass: the pass is ended, restored and begun
\* again without the journal, and any of its calls may fail.
RestartBaselinePass ==
  /\ journaled
  /\ CloseContext
  /\ ResetParameterCaches
  /\ journaled' = FALSE
  /\ \/ /\ phase' = "pass"
        /\ device' = value' /\ dirty' = {}
     \/ /\ phase' \in {"idle", "begun"}
        /\ device' = Nowhere /\ dirty' = dirty \cup HandedOver
  /\ UNCHANGED <<config, history>>

\* A directly submitted technique has one pass, and the game begins it once.
BeginPass ==
  /\ phase = "begun" /\ context = None
  /\ \/ /\ phase' = "pass"
        /\ device' = value /\ dirty' = {}
        /\ IF journaled THEN ActivateDirectConstants ELSE UNCHANGED context
        /\ UNCHANGED <<config, journaled, value, cache, history>>
     \/ RestartBaselinePass

\* Mutant: an incomplete set of parameters is submitted.
AnySeen == context # None /\ context.seen # {}

AllSeen == context # None /\ Required \subseteq context.seen

\* CommitProperShadersDirectConstants
CommitDirectConstants ==
  /\ AllSeen
  /\ device' = [p \in Param |-> IF p \in Held \cup Copied THEN context.copy[p] ELSE device[p]]
  /\ context' = [context EXCEPT !.seen = {}]
  /\ UNCHANGED <<config, phase, journaled, value, dirty, cache, history>>

CommitD3dx ==
  /\ ~AllSeen
  /\ CloseContext
  /\ device' = [p \in Param |-> IF p \in dirty \cup HandedOver THEN value'[p] ELSE device[p]]
  /\ dirty' = {}
  /\ UNCHANGED <<config, phase, journaled, cache, history>>

CommitChanges ==
  /\ phase = "pass"
  /\ CommitDirectConstants \/ CommitD3dx \/ RestartBaselinePass

EndPass ==
  /\ phase = "pass"
  /\ phase' = "begun"
  /\ UNCHANGED <<config, journaled, value, dirty, device, cache, context, history>>

End ==
  /\ phase # "idle"
  /\ CloseContext
  /\ dirty' = dirty \cup HandedOver
  /\ ResetParameterCaches
  /\ phase' = "idle"
  /\ journaled' = FALSE
  /\ device' = Nowhere
  /\ UNCHANGED <<config, history>>

Next ==
  \/ \E p \in Param, v \in Value : Capture(p, v) \/ SkipDuplicate(p, v) \/ Write(p, v)
  \/ \E p \in Param : WriteOther(p)
  \/ Present
  \/ Begin \/ BeginPass \/ CommitChanges \/ EndPass \/ End

Spec == Init /\ [][Next]_vars

-----------------------------------------------------------------------------
(* Properties.                                                              *)

\* When CommitChanges returns in a pass, the pass draws with the last value
\* set of each parameter, however the write travelled.  Excepted are a write
\* the filters dropped wrongly, and a write that went to D3DX alone while a
\* direct submission bypassed D3DX.
CommitApplies ==
  [][CommitChanges /\ phase' = "pass" =>
       \A p \in Param \ missed' :
         \/ device'[p] = intended'[p]
         \/ p \in dirty' \ (Held \cup Copied)]_vars

\* Outside a direct context D3DX knows every write that was not dropped
\* wrongly: no capture is lost in a fallback, a restart or an End.
WritesKept ==
  context = None => \A p \in Param \ missed : value[p] = intended[p]

\* Each optimisation alone is exact: a write is only dropped wrongly when its
\* parameter is filtered and direct constants capture it as well.
MissesNeedBoth == missed \subseteq Held \cap filtered /\ (missed # {} => direct)

\* SA.RenderStack.ini:139, 146: the filters skip writes that are byte-identical
\* to what the parameter holds.
SkipsOnlyDuplicates == missed = {}

(***************************************************************************)
(* The invariant behind them.                                              *)
(***************************************************************************)
\* A direct context lives in a journaled transaction, knows what it counts as
\* captured, and its copies of what D3DX holds as well agree with D3DX.
ContextSound ==
  context # None =>
    /\ direct /\ journaled /\ phase # "idle"
    /\ context.seen \subseteq context.captured
    /\ \A p \in context.captured \cap Held : context.copy[p] # None
    /\ \A p \in Copied : p \notin Required \/ p \in context.captured =>
         context.copy[p] = value[p]

\* A filter's memory agrees with D3DX unless a direct context may have written
\* the parameter behind it.
CachesSound ==
  \A p \in Param :
    /\ (direct => p \notin Held) => cache[p] \in {None, value[p]}
    /\ p \notin filtered => cache[p] = None

\* The next submission uses the last value set.
EffectiveIntended == \A p \in Param \ missed : Effective(p) = intended[p]

\* The device shows what D3DX holds, except what is still to be applied and
\* what a direct context holds.
DeviceApplied ==
  phase = "pass" =>
    \A p \in Param \ (dirty \cup HandedOver) : device[p] = value[p]

ParamInv ==
  /\ TypeOK
  /\ ContextSound
  /\ CachesSound
  /\ EffectiveIntended
  /\ MissesNeedBoth
  /\ DeviceApplied

=============================================================================
