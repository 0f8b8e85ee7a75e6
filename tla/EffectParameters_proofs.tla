----------------------- MODULE EffectParameters_proofs -----------------------
(***************************************************************************)
(* What EffectParameters promises holds for every set of parameters and    *)
(* values.  The invariant is ParamInv: the next submission of a parameter, *)
(* by D3DX or direct, uses the last value set unless a filter dropped it   *)
(* wrongly, and the device shows what D3DX holds but for what is dirty or  *)
(* captured.                                                               *)
(***************************************************************************)
EXTENDS EffectParameters, TLAPS

USE ParamAssumption

-----------------------------------------------------------------------------
(* Handing over and noting.                                                 *)

\* What a context holds has a value when it is handed over.
LEMMA SynchronizedTyped ==
  ASSUME TypeOK, ContextSound
  PROVE  Synchronized \in [Param -> Value] /\ HandedOver \subseteq Param
<1>1. HandedOver \subseteq Param
  BY DEF HandedOver
<1>2. ASSUME NEW p \in HandedOver PROVE context.copy[p] \in Value
  BY <1>2 DEF HandedOver, ContextSound, TypeOK, Context
<1>3. QED
  BY <1>1, <1>2 DEF Synchronized, TypeOK

\* D3DX holds after a synchronisation what the next submission would have used.
LEMMA SynchronizedEffective ==
  ASSUME TypeOK, NEW p \in Param
  PROVE  Synchronized[p] = Effective(p)
  BY DEF Synchronized, HandedOver, Effective, TypeOK

\* A context closed, everything set and not missed is in D3DX, and the filters
\* still agree with it.
LEMMA Closed ==
  ASSUME TypeOK, ContextSound, CachesSound, EffectiveIntended, CloseContext,
         UNCHANGED <<config, history>>
  PROVE  /\ value' \in [Param -> Value]
         /\ ContextSound'
         /\ EffectiveIntended'
         /\ \A p \in Param : (direct => p \notin Held) => value'[p] = value[p]
<1>1. value' = Synchronized /\ context' = None
  BY DEF CloseContext
<1>2. EffectiveIntended'
  <2> SUFFICES ASSUME NEW p \in Param, p \notin missed PROVE Effective(p)' = intended'[p]
    BY DEF EffectiveIntended, history
  <2>1. Effective(p)' = value'[p]
    BY <1>1 DEF Effective
  <2>2. QED
    BY <1>1, <2>1, SynchronizedEffective DEF EffectiveIntended, history
<1>3. \A p \in Param : (direct => p \notin Held) => value'[p] = value[p]
  BY <1>1 DEF Synchronized, HandedOver, ContextSound
<1>4. QED
  BY <1>1, <1>2, <1>3, SynchronizedTyped DEF ContextSound

\* Emptying filters keeps the others right.
LEMMA ResetTyped ==
  ASSUME TypeOK, ResetParameterCaches
  PROVE  /\ cache' \in [Param -> Value \cup {None}]
         /\ \A p \in Param : cache'[p] \in {None, cache[p]}
  BY DEF TypeOK, ResetParameterCaches

\* Noting a write keeps a context well formed.
LEMMA SeeTyped ==
  ASSUME TypeOK, ContextSound, context # None, NEW p \in Param, NEW v \in Value
  PROVE  /\ See(p, v) \in Context
         /\ See(p, v).seen \subseteq See(p, v).captured
         /\ See(p, v).captured = context.captured \cup SeenBits(p)
         /\ \A q \in Held \cup Copied :
              See(p, v).copy[q] = IF q = p THEN v ELSE context.copy[q]
<1>1. context \in Context /\ SeenBits(p) \subseteq Required
  BY DEF TypeOK, SeenBits
<1>2. context.copy \in [Held \cup Copied -> Value \cup {None}]
  BY <1>1 DEF Context
<1>3. /\ See(p, v).seen = context.seen \cup SeenBits(p)
      /\ See(p, v).captured = context.captured \cup SeenBits(p)
      /\ See(p, v).copy = [q \in Held \cup Copied |-> IF q = p THEN v ELSE context.copy[q]]
  BY <1>1 DEF See, Context
<1>4. See(p, v) \in Context
  BY <1>1, <1>2, <1>3 DEF See, Context
<1>5. QED
  BY <1>3, <1>4 DEF ContextSound

\* A write that reaches D3DX, or repeats what D3DX holds, leaves a context sound.
LEMMA CopySound ==
  ASSUME TypeOK, ContextSound, NEW p \in Param, NEW v \in Value,
         Uncaptured(p), Copy(p, v),
         p \in Copied => value'[p] = v,
         \A q \in Param \ {p} : value'[q] = value[q],
         UNCHANGED <<config, phase, journaled>>
  PROVE  /\ context' \in Context \cup {None}
         /\ ContextSound'
         /\ HandedOver' = HandedOver
         /\ \A q \in Param \ HandedOver : Effective(q)' = value'[q]
         /\ \A q \in HandedOver : Effective(q)' = Effective(q)
         /\ p \notin HandedOver
<1>1. CASE context = None
  BY <1>1 DEF Copy, ContextSound, HandedOver, Effective
<1>2. CASE context # None
  <2>1. p \notin Held /\ context' = See(p, v)
    BY <1>2 DEF Uncaptured, Copy
  <2>2. /\ context' \in Context /\ context' # None
        /\ context'.seen \subseteq context'.captured
        /\ context'.captured = context.captured \cup SeenBits(p)
        /\ \A q \in Held \cup Copied :
             context'.copy[q] = IF q = p THEN v ELSE context.copy[q]
    BY <1>2, <2>1, SeeTyped, ContextAssumption
  <2>3. /\ direct /\ journaled /\ phase # "idle"
        /\ \A q \in context.captured \cap Held : context.copy[q] # None
        /\ \A q \in Copied : q \notin Required \/ q \in context.captured =>
             context.copy[q] = value[q]
    BY <1>2 DEF ContextSound
  <2>4. SeenBits(p) \subseteq {p} /\ SeenBits(p) \cap Held = {}
    BY <2>1 DEF SeenBits
  <2>5. ContextSound'
    <3>1. direct' /\ journaled' /\ phase' # "idle"
      BY <2>3 DEF config
    <3>2. \A q \in context'.captured \cap Held : context'.copy[q] # None
      BY <2>1, <2>2, <2>3, <2>4
    <3>3. \A q \in Copied : q \notin Required \/ q \in context'.captured =>
            context'.copy[q] = value'[q]
      BY <2>2, <2>3, <2>4
    <3>4. QED
      BY <2>2, <3>1, <3>2, <3>3 DEF ContextSound
  <2>6. HandedOver' = HandedOver /\ p \notin HandedOver
    BY <1>2, <2>1, <2>2, <2>4 DEF HandedOver
  <2>7. \A q \in Param : Effective(q)' = IF q \in HandedOver THEN context'.copy[q] ELSE value'[q]
    BY <2>2, <2>6 DEF Effective, HandedOver
  <2>8. \A q \in Param : Effective(q) = IF q \in HandedOver THEN context.copy[q] ELSE value[q]
    BY <1>2 DEF Effective, HandedOver
  <2>9. \A q \in HandedOver : context'.copy[q] = context.copy[q]
    BY <2>2, <2>6 DEF HandedOver
  <2>10. HandedOver \subseteq Param
    BY DEF HandedOver
  <2>11. QED
    BY <2>2, <2>5, <2>6, <2>7, <2>8, <2>9, <2>10
<1>3. QED
  BY <1>1, <1>2

-----------------------------------------------------------------------------
(* The invariant, action by action.                                         *)

LEMMA InitInv == Init => ParamInv
<1> SUFFICES ASSUME Init PROVE ParamInv
  OBVIOUS
<1>1. value \in [Param -> Value] /\ intended = value /\ context = None
  BY DEF Init
<1>2. TypeOK
  BY <1>1 DEF Init, TypeOK, Nowhere
<1>3. ContextSound /\ CachesSound /\ DeviceApplied /\ MissesNeedBoth
  BY DEF Init, ContextSound, CachesSound, DeviceApplied, MissesNeedBoth, Nowhere
<1>4. EffectiveIntended
  BY <1>1 DEF EffectiveIntended, Effective
<1>5. QED
  BY <1>2, <1>3, <1>4 DEF ParamInv

\* A write a direct context keeps: the next submission uses it.
LEMMA CaptureInv ==
  ASSUME ParamInv, NEW p \in Param, NEW v \in Value, Capture(p, v)
  PROVE  ParamInv'
<1>1. /\ context # None /\ p \in Held /\ context' = See(p, v)
      /\ intended' = [intended EXCEPT ![p] = v] /\ missed' = missed \ {p}
      /\ UNCHANGED <<config, phase, journaled, value, dirty, device, cache>>
  BY DEF Capture, Intend
<1>2. TypeOK /\ ContextSound
  BY DEF ParamInv
<1>3. SeenBits(p) = {p}
  BY <1>1 DEF SeenBits
<1>4. /\ context' \in Context /\ context' # None
      /\ context'.seen \subseteq context'.captured
      /\ context'.captured = context.captured \cup {p}
      /\ \A q \in Held \cup Copied : context'.copy[q] = IF q = p THEN v ELSE context.copy[q]
  BY <1>1, <1>2, <1>3, SeeTyped, ContextAssumption
<1>5. TypeOK'
  BY <1>1, <1>2, <1>4 DEF TypeOK, config
<1>6. ContextSound'
  <2>1. /\ direct' /\ journaled' /\ phase' # "idle"
        /\ \A q \in context.captured \cap Held : context.copy[q] # None
        /\ \A q \in Copied : q \notin Required \/ q \in context.captured =>
             context.copy[q] = value[q]
    BY <1>1, <1>2 DEF ContextSound, config
  <2>2. \A q \in context'.captured \cap Held : context'.copy[q] # None
    BY <1>4, <2>1
  <2>3. \A q \in Copied : q \notin Required \/ q \in context'.captured =>
          context'.copy[q] = value'[q]
    BY <1>1, <1>4, <2>1
  <2>4. QED
    BY <1>4, <2>1, <2>2, <2>3 DEF ContextSound
<1>7. CachesSound'
  BY <1>1 DEF ParamInv, CachesSound, config
<1>8. EffectiveIntended'
  <2> SUFFICES ASSUME NEW q \in Param, q \notin missed' PROVE Effective(q)' = intended'[q]
    BY DEF EffectiveIntended
  <2>1. CASE q = p
    <3>1. intended'[q] = v
      BY <1>1, <1>2, <2>1 DEF TypeOK
    <3>2. Effective(q)' = v
      BY <1>1, <1>4, <2>1 DEF Effective
    <3>3. QED
      BY <3>1, <3>2
  <2>2. CASE q # p
    <3>1. Effective(q) = intended[q] /\ intended'[q] = intended[q]
      BY <1>1, <1>2, <2>2 DEF ParamInv, EffectiveIntended, TypeOK
    <3>2. Effective(q)' = Effective(q)
      BY <1>1, <1>4, <2>2 DEF Effective
    <3>3. QED
      BY <3>1, <3>2
  <2>3. QED
    BY <2>1, <2>2
<1>9. MissesNeedBoth'
  BY <1>1 DEF ParamInv, MissesNeedBoth, config
<1>10. DeviceApplied'
  <2>1. HandedOver' = HandedOver \cup {p}
    BY <1>1, <1>4 DEF HandedOver
  <2>2. QED
    BY <1>1, <2>1 DEF ParamInv, DeviceApplied
<1>11. QED
  BY <1>5, <1>6, <1>7, <1>8, <1>9, <1>10 DEF ParamInv

\* A write a filter drops: either D3DX holds the value already, or it is noted
\* as missed.
LEMMA SkipDuplicateInv ==
  ASSUME ParamInv, NEW p \in Param, NEW v \in Value, SkipDuplicate(p, v)
  PROVE  ParamInv'
<1>1. /\ Uncaptured(p) /\ p \in filtered /\ cache[p] = v /\ Copy(p, v)
      /\ intended' = [intended EXCEPT ![p] = v]
      /\ missed' = IF value[p] = v THEN missed \ {p} ELSE missed \cup {p}
      /\ UNCHANGED <<config, phase, journaled, value, dirty, device, cache>>
  BY DEF SkipDuplicate, Intend
<1>2. TypeOK /\ ContextSound /\ CachesSound /\ MissesNeedBoth
  BY DEF ParamInv
<1>3. value[p] # v => direct /\ p \in Held
  BY <1>1, <1>2 DEF CachesSound, TypeOK
<1>4. p \in Copied => value'[p] = v
  BY <1>1, <1>3
<1>5. /\ context' \in Context \cup {None} /\ ContextSound' /\ HandedOver' = HandedOver
      /\ \A q \in Param \ HandedOver : Effective(q)' = value'[q]
      /\ \A q \in HandedOver : Effective(q)' = Effective(q)
      /\ p \notin HandedOver
  BY <1>1, <1>2, <1>4, CopySound
<1>6. TypeOK'
  BY <1>1, <1>2, <1>5 DEF TypeOK, config
<1>7. CachesSound'
  BY <1>1, <1>2 DEF CachesSound, config
<1>8. EffectiveIntended'
  <2> SUFFICES ASSUME NEW q \in Param, q \notin missed' PROVE Effective(q)' = intended'[q]
    BY DEF EffectiveIntended
  <2>1. CASE q = p
    BY <1>1, <1>2, <1>5, <2>1 DEF TypeOK
  <2>2. CASE q # p
    <3>1. Effective(q) = intended[q] /\ intended'[q] = intended[q]
      BY <1>1, <1>2, <2>2 DEF ParamInv, EffectiveIntended, TypeOK
    <3>2. Effective(q)' = Effective(q)
      BY <1>1, <1>5 DEF Effective, HandedOver
    <3>3. QED
      BY <3>1, <3>2
  <2>3. QED
    BY <2>1, <2>2
<1>9. MissesNeedBoth'
  BY <1>1, <1>2, <1>3 DEF MissesNeedBoth, config
<1>10. DeviceApplied'
  BY <1>1, <1>5 DEF ParamInv, DeviceApplied
<1>11. QED
  BY <1>5, <1>6, <1>7, <1>8, <1>9, <1>10 DEF ParamInv

\* A write that reaches D3DX.
LEMMA WriteInv ==
  ASSUME ParamInv, NEW p \in Param, NEW v \in Value, Write(p, v)
  PROVE  ParamInv'
<1>1. /\ Uncaptured(p) /\ Copy(p, v)
      /\ value' = [value EXCEPT ![p] = v] /\ dirty' = dirty \cup {p}
      /\ cache' = Remember(p, v)
      /\ intended' = [intended EXCEPT ![p] = v] /\ missed' = missed \ {p}
      /\ UNCHANGED <<config, phase, journaled, device>>
  BY DEF Write, Intend
<1>2. TypeOK /\ ContextSound /\ CachesSound
  BY DEF ParamInv
<1>3. value'[p] = v /\ \A q \in Param \ {p} : value'[q] = value[q]
  BY <1>1, <1>2 DEF TypeOK
<1>4. /\ context' \in Context \cup {None} /\ ContextSound' /\ HandedOver' = HandedOver
      /\ \A q \in Param \ HandedOver : Effective(q)' = value'[q]
      /\ \A q \in HandedOver : Effective(q)' = Effective(q)
      /\ p \notin HandedOver
  BY <1>1, <1>2, <1>3, CopySound
<1>5. /\ cache' \in [Param -> Value \cup {None}]
      /\ cache'[p] \in {v, cache[p]} /\ \A q \in Param \ {p} : cache'[q] = cache[q]
      /\ p \in filtered => cache'[p] = v
      /\ p \notin filtered => cache'[p] = cache[p]
  BY <1>1, <1>2 DEF Remember, TypeOK
<1>6. TypeOK'
  BY <1>1, <1>2, <1>4, <1>5 DEF TypeOK, config
<1>7. CachesSound'
  BY <1>1, <1>2, <1>3, <1>5 DEF CachesSound, config
<1>8. EffectiveIntended'
  <2> SUFFICES ASSUME NEW q \in Param, q \notin missed' PROVE Effective(q)' = intended'[q]
    BY DEF EffectiveIntended
  <2>1. CASE q = p
    BY <1>1, <1>2, <1>3, <1>4, <2>1 DEF TypeOK
  <2>2. CASE q # p
    <3>1. Effective(q) = intended[q] /\ intended'[q] = intended[q]
      BY <1>1, <1>2, <2>2 DEF ParamInv, EffectiveIntended, TypeOK
    <3>2. Effective(q)' = Effective(q)
      BY <1>3, <1>4, <2>2 DEF Effective, HandedOver
    <3>3. QED
      BY <3>1, <3>2
  <2>3. QED
    BY <2>1, <2>2
<1>9. MissesNeedBoth'
  BY <1>1 DEF ParamInv, MissesNeedBoth, config
<1>10. DeviceApplied'
  BY <1>1, <1>3, <1>4 DEF ParamInv, DeviceApplied
<1>11. QED
  BY <1>4, <1>6, <1>7, <1>8, <1>9, <1>10 DEF ParamInv

\* Another effect's write, Present, EndPass and Begin touch a filter or the
\* phase only.
LEMMA QuietInv ==
  ASSUME ParamInv, UNCHANGED <<config, value, dirty, context, history>>,
         cache' \in [Param -> Value \cup {None}],
         \A p \in Param : cache'[p] \in {None, cache[p]},
         device' = device,
         \/ UNCHANGED <<phase, journaled>>
         \/ phase = "pass" /\ phase' = "begun" /\ journaled' = journaled
         \/ phase = "idle" /\ phase' = "begun" /\ journaled' \in BOOLEAN
  PROVE  ParamInv'
<1>1. TypeOK'
  BY DEF ParamInv, TypeOK, config, history
<1>2. ContextSound'
  BY DEF ParamInv, ContextSound, config
<1>3. CachesSound'
  BY DEF ParamInv, CachesSound, config
<1>4. EffectiveIntended'
  BY DEF ParamInv, EffectiveIntended, Effective, history
<1>5. MissesNeedBoth'
  BY DEF ParamInv, MissesNeedBoth, config, history
<1>6. DeviceApplied'
  BY DEF ParamInv, DeviceApplied, HandedOver
<1>7. QED
  BY <1>1, <1>2, <1>3, <1>4, <1>5, <1>6 DEF ParamInv

\* A closed context: a restart, an End, or a CommitChanges left to D3DX.
LEMMA ClosedInv ==
  ASSUME ParamInv, CloseContext, UNCHANGED <<config, history>>,
         phase' \in {"idle", "begun", "pass"}, journaled' \in BOOLEAN,
         dirty' \subseteq Param, device' \in [Param -> Value \cup {None}],
         cache' \in [Param -> Value \cup {None}],
         \A p \in Param : cache'[p] \in {None, cache[p]},
         phase' = "pass" => \A p \in Param : device'[p] = value'[p]
  PROVE  ParamInv'
<1>1. /\ value' \in [Param -> Value] /\ ContextSound' /\ EffectiveIntended'
      /\ \A p \in Param : (direct => p \notin Held) => value'[p] = value[p]
  BY Closed DEF ParamInv
<1>2. TypeOK'
  BY <1>1 DEF ParamInv, TypeOK, config, history, CloseContext
<1>3. CachesSound'
  BY <1>1 DEF ParamInv, CachesSound, config
<1>4. MissesNeedBoth'
  BY DEF ParamInv, MissesNeedBoth, config, history
<1>5. DeviceApplied'
  BY DEF DeviceApplied
<1>6. QED
  BY <1>1, <1>2, <1>3, <1>4, <1>5 DEF ParamInv

LEMMA RestartInv == ASSUME ParamInv, RestartBaselinePass PROVE ParamInv'
<1>1. /\ CloseContext /\ ResetParameterCaches /\ journaled' = FALSE
      /\ UNCHANGED <<config, history>>
      /\ \/ phase' = "pass" /\ device' = value' /\ dirty' = {}
         \/ phase' \in {"idle", "begun"} /\ device' = Nowhere /\ dirty' = dirty \cup HandedOver
  BY DEF RestartBaselinePass
<1>2. TypeOK /\ ContextSound
  BY DEF ParamInv
<1>3. value' \in [Param -> Value] /\ HandedOver \subseteq Param
  BY <1>1, <1>2, SynchronizedTyped DEF CloseContext
<1>4. device' \in [Param -> Value \cup {None}] /\ dirty' \subseteq Param
  BY <1>1, <1>2, <1>3 DEF Nowhere, TypeOK
<1>5. phase' \in {"idle", "begun", "pass"} /\ (phase' = "pass" => device' = value')
  BY <1>1
<1>6. QED
  BY <1>1, <1>2, <1>4, <1>5, ResetTyped, ClosedInv

LEMMA EndInv == ASSUME ParamInv, End PROVE ParamInv'
<1>1. TypeOK /\ ContextSound
  BY DEF ParamInv
<1>2. HandedOver \subseteq Param
  BY DEF HandedOver
<1>3. dirty' \subseteq Param /\ device' \in [Param -> Value \cup {None}]
  BY <1>1, <1>2 DEF End, Nowhere, TypeOK
<1>4. QED
  BY <1>1, <1>3, ResetTyped, ClosedInv DEF End

LEMMA BeginPassInv == ASSUME ParamInv, BeginPass PROVE ParamInv'
<1>1. CASE RestartBaselinePass
  BY <1>1, RestartInv
<1>2. CASE ~RestartBaselinePass
  <2>1. /\ phase = "begun" /\ context = None /\ phase' = "pass"
        /\ device' = value /\ dirty' = {}
        /\ IF journaled THEN ActivateDirectConstants ELSE UNCHANGED context
        /\ UNCHANGED <<config, journaled, value, cache, history>>
    BY <1>2 DEF BeginPass
  <2>2. TypeOK
    BY DEF ParamInv
  <2>3. context' = None \/ (context' = OpenedContext /\ direct /\ journaled)
    <3>1. CASE journaled
      <4>1. context' \in {None} \cup IF direct THEN {OpenedContext} ELSE {}
        BY <2>1, <3>1 DEF ActivateDirectConstants
      <4>2. QED
        BY <3>1, <4>1, <2>2 DEF TypeOK
    <3>2. CASE ~journaled
      BY <2>1, <3>2
    <3>3. QED
      BY <3>1, <3>2
  <2>4. /\ OpenedContext \in Context /\ OpenedContext.seen = {} /\ OpenedContext.captured = {}
        /\ \A p \in Copied : p \notin Required => OpenedContext.copy[p] = value[p]
    <3>1. OpenedContext.copy = [p \in Held \cup Copied |->
             IF p \in Copied \ Required THEN value[p] ELSE None]
      BY DEF OpenedContext
    <3>2. OpenedContext.copy \in [Held \cup Copied -> Value \cup {None}]
      BY <2>2, <3>1 DEF TypeOK
    <3>3. OpenedContext \in Context
      BY <3>1, <3>2 DEF OpenedContext, Context
    <3>4. QED
      BY <3>1, <3>3 DEF OpenedContext
  <2>5. TypeOK'
    BY <2>1, <2>2, <2>3, <2>4 DEF TypeOK, config, history
  <2>6. ContextSound'
    BY <2>1, <2>3, <2>4 DEF ContextSound, config
  <2>7. HandedOver' = {}
    BY <2>3, <2>4 DEF HandedOver
  <2>8. EffectiveIntended'
    <3>1. \A p \in Param : Effective(p) = value[p] /\ Effective(p)' = value[p]
      BY <2>1, <2>3, <2>4 DEF Effective
    <3>2. QED
      BY <2>1, <3>1 DEF ParamInv, EffectiveIntended, history
  <2>9. CachesSound' /\ MissesNeedBoth'
    BY <2>1 DEF ParamInv, CachesSound, MissesNeedBoth, config, history
  <2>10. DeviceApplied'
    BY <2>1, <2>7 DEF DeviceApplied
  <2>11. QED
    BY <2>5, <2>6, <2>8, <2>9, <2>10 DEF ParamInv
<1>3. QED
  BY <1>1, <1>2

\* After a direct submission the device shows what the context holds and, for
\* the copied parameters, what D3DX holds as well.
LEMMA DirectlyApplied ==
  ASSUME ParamInv, CommitDirectConstants
  PROVE  /\ \A p \in Held : p \in HandedOver /\ device'[p] = Effective(p)
         /\ \A p \in Copied : device'[p] = value[p] /\ Effective(p) = value[p]
         /\ \A p \in Param \ (Held \cup Copied) :
              device'[p] = device[p] /\ Effective(p) = value[p]
         /\ device' \in [Param -> Value \cup {None}]
<1>1. /\ context # None /\ Required \subseteq context.seen
      /\ device' = [p \in Param |-> IF p \in Held \cup Copied THEN context.copy[p] ELSE device[p]]
  BY DEF CommitDirectConstants, AllSeen
<1>2. TypeOK /\ context \in Context /\ Required \subseteq context.captured
  BY <1>1 DEF ParamInv, TypeOK, ContextSound
<1>3. \A p \in Copied : context.copy[p] = value[p] /\ p \notin Held
  BY <1>1, <1>2 DEF ParamInv, ContextSound
<1>4. Held \subseteq HandedOver /\ HandedOver \subseteq Held
  BY <1>1, <1>2 DEF HandedOver
<1>5. \A p \in Param : Effective(p) = IF p \in Held THEN context.copy[p] ELSE value[p]
  BY <1>1, <1>2, <1>4 DEF Effective, HandedOver
<1>6. device' \in [Param -> Value \cup {None}]
  BY <1>1, <1>2 DEF TypeOK, Context
<1>7. QED
  BY <1>1, <1>3, <1>4, <1>5, <1>6

\* After a CommitChanges of D3DX the device shows what D3DX holds.
LEMMA D3dxApplied ==
  ASSUME ParamInv, phase = "pass", CommitD3dx
  PROVE  /\ value' \in [Param -> Value]
         /\ \A p \in Param : device'[p] = value'[p]
         /\ device' \in [Param -> Value \cup {None}]
<1>1. /\ value' = Synchronized
      /\ device' = [p \in Param |-> IF p \in dirty \cup HandedOver THEN value'[p] ELSE device[p]]
  BY DEF CommitD3dx, CloseContext
<1>2. TypeOK /\ ContextSound
  BY DEF ParamInv
<1>3. Synchronized \in [Param -> Value]
  BY <1>2, SynchronizedTyped
<1>4. \A p \in Param \ (dirty \cup HandedOver) : device[p] = value[p] /\ Synchronized[p] = value[p]
  BY DEF ParamInv, DeviceApplied, Synchronized
<1>5. QED
  BY <1>1, <1>2, <1>3, <1>4 DEF TypeOK

LEMMA CommitChangesInv == ASSUME ParamInv, CommitChanges PROVE ParamInv'
<1>1. CASE CommitDirectConstants
  <2>1. /\ context # None /\ context' = [context EXCEPT !.seen = {}]
        /\ UNCHANGED <<config, phase, journaled, value, dirty, cache, history>>
    BY <1>1 DEF CommitDirectConstants, AllSeen
  <2>2. TypeOK /\ context \in Context
    BY <2>1 DEF ParamInv, TypeOK
  <2>3. /\ context' \in Context /\ context' # None /\ context'.seen = {}
        /\ context'.captured = context.captured /\ context'.copy = context.copy
    <3>1. context' \in Context
      BY <2>1, <2>2 DEF Context
    <3>2. QED
      BY <2>1, <2>2, <3>1, ContextAssumption DEF Context
  <2>4. TypeOK'
    BY <1>1, <2>1, <2>2, <2>3, DirectlyApplied DEF TypeOK, config, history
  <2>5. ContextSound'
    BY <2>1, <2>3 DEF ParamInv, ContextSound, config
  <2>6. CachesSound' /\ MissesNeedBoth'
    BY <2>1 DEF ParamInv, CachesSound, MissesNeedBoth, config, history
  <2>7. HandedOver' = HandedOver
    BY <2>1, <2>3 DEF HandedOver
  <2>8. EffectiveIntended'
    <3>1. \A p \in Param : Effective(p)' = Effective(p)
      BY <2>1, <2>3 DEF Effective
    <3>2. QED
      BY <2>1, <3>1 DEF ParamInv, EffectiveIntended, history
  <2>9. DeviceApplied'
    BY <1>1, <2>1, <2>7, DirectlyApplied DEF ParamInv, DeviceApplied
  <2>10. QED
    BY <2>4, <2>5, <2>6, <2>8, <2>9 DEF ParamInv
<1>2. CASE CommitD3dx
  <2>1. /\ CloseContext /\ dirty' = {}
        /\ UNCHANGED <<config, phase, journaled, cache, history>>
    BY <1>2 DEF CommitD3dx
  <2>2. phase = "pass" /\ TypeOK
    BY DEF CommitChanges, ParamInv
  <2>3. cache' \in [Param -> Value \cup {None}] /\ journaled' \in BOOLEAN
    BY <2>1, <2>2 DEF TypeOK
  <2>4. QED
    BY <1>2, <2>1, <2>2, <2>3, D3dxApplied, ClosedInv
<1>3. CASE RestartBaselinePass
  BY <1>3, RestartInv
<1>4. QED
  BY <1>1, <1>2, <1>3 DEF CommitChanges

LEMMA StepInv == ParamInv /\ [Next]_vars => ParamInv'
<1> SUFFICES ASSUME ParamInv, [Next]_vars PROVE ParamInv'
  OBVIOUS
<1>t. TypeOK
  BY DEF ParamInv
<1>1. ASSUME NEW p \in Param, NEW v \in Value, Capture(p, v) \/ SkipDuplicate(p, v) \/ Write(p, v)
      PROVE  ParamInv'
  BY <1>1, CaptureInv, SkipDuplicateInv, WriteInv
<1>2. ASSUME NEW p \in Param, WriteOther(p) PROVE ParamInv'
  <2>1. /\ cache' \in [Param -> Value \cup {None}]
        /\ \A q \in Param : cache'[q] \in {None, cache[q]}
    BY <1>2, <1>t DEF WriteOther, TypeOK
  <2>2. QED
    BY <1>2, <2>1, QuietInv DEF WriteOther
<1>3. CASE Present
  <2>1. /\ cache' \in [Param -> Value \cup {None}]
        /\ \A q \in Param : cache'[q] \in {None, cache[q]}
    BY <1>3 DEF Present, Nowhere
  <2>2. QED
    BY <1>3, <2>1, QuietInv DEF Present
<1>4. CASE Begin
  <2>1. /\ cache' \in [Param -> Value \cup {None}]
        /\ \A q \in Param : cache'[q] \in {None, cache[q]}
    BY <1>4, <1>t, ResetTyped DEF Begin, TypeOK
  <2>2. QED
    BY <1>4, <2>1, QuietInv DEF Begin
<1>5. CASE EndPass
  <2>1. /\ cache' \in [Param -> Value \cup {None}]
        /\ \A q \in Param : cache'[q] \in {None, cache[q]}
    BY <1>5, <1>t DEF EndPass, TypeOK
  <2>2. QED
    BY <1>5, <2>1, QuietInv DEF EndPass
<1>6. CASE UNCHANGED vars
  <2>1. /\ cache' \in [Param -> Value \cup {None}]
        /\ \A q \in Param : cache'[q] \in {None, cache[q]}
    BY <1>6, <1>t DEF vars, TypeOK
  <2>2. QED
    BY <1>6, <2>1, QuietInv DEF vars
<1>7. QED
  BY <1>1, <1>2, <1>3, <1>4, <1>5, <1>6, BeginPassInv, CommitChangesInv, EndInv DEF Next

-----------------------------------------------------------------------------
(* Theorems.                                                                *)

\* The invariant of the filters and the direct context holds in every
\* reachable state.
THEOREM ParamInvAlways == Spec => []ParamInv
<1>1. QED
  BY InitInv, StepInv, PTL DEF Spec

\* The game's values, D3DX's and the device's, the two duplicate filters, the
\* direct context and the phase are well-typed in every reachable state.
THEOREM TypeCorrect == Spec => []TypeOK
<1>1. ParamInv => TypeOK
  BY DEF ParamInv
<1>2. QED
  BY <1>1, ParamInvAlways, PTL

\* No fallback, restart or End of the direct constants loses a captured write.
THEOREM WritesAlwaysKept == Spec => []WritesKept
<1>1. ParamInv => WritesKept
  BY DEF ParamInv, EffectiveIntended, Effective, WritesKept
<1>2. QED
  BY <1>1, ParamInvAlways, PTL

\* A write is dropped wrongly only where both optimisations meet.
THEOREM EitherAloneExact == Spec => []MissesNeedBoth
<1>1. ParamInv => MissesNeedBoth
  BY DEF ParamInv
<1>2. QED
  BY <1>1, ParamInvAlways, PTL

\* A pass draws after CommitChanges with the last value set of each parameter
\* that was neither dropped wrongly nor left to D3DX by a direct submission.
THEOREM CommitAlwaysApplies == Spec => CommitApplies
<1>1. ASSUME ParamInv, ParamInv', CommitChanges, phase' = "pass",
             NEW p \in Param, p \notin missed'
      PROVE  device'[p] = intended'[p] \/ p \in dirty' \ (Held \cup Copied)
  <2>1. /\ Effective(p) = intended[p] /\ UNCHANGED history
        /\ phase = "pass" /\ Effective(p)' = intended'[p]
    <3>1. UNCHANGED history /\ phase = "pass"
      BY <1>1 DEF CommitChanges, CommitDirectConstants, CommitD3dx, RestartBaselinePass
    <3>2. QED
      BY <1>1, <3>1 DEF ParamInv, EffectiveIntended, history
  <2>2. CASE CommitDirectConstants
    <3>1. dirty' = dirty /\ (p \notin dirty \cup HandedOver => device[p] = value[p])
      BY <1>1, <2>1, <2>2 DEF CommitDirectConstants, ParamInv, DeviceApplied
    <3>2. HandedOver \subseteq Held
      BY DEF HandedOver
    <3>3. QED
      BY <1>1, <2>1, <2>2, <3>1, <3>2, DirectlyApplied DEF history
  <2>3. CASE CommitD3dx \/ RestartBaselinePass
    <3>1. context' = None /\ device'[p] = value'[p]
      BY <1>1, <2>1, <2>3, D3dxApplied DEF CommitD3dx, RestartBaselinePass, CloseContext
    <3>2. QED
      BY <2>1, <3>1 DEF Effective
  <2>4. QED
    BY <1>1, <2>2, <2>3 DEF CommitChanges
<1>2. ParamInv /\ [Next]_vars =>
        [CommitChanges /\ phase' = "pass" =>
           \A p \in Param \ missed' :
             \/ device'[p] = intended'[p]
             \/ p \in dirty' \ (Held \cup Copied)]_vars
  BY <1>1, StepInv
<1>3. QED
  BY <1>2, ParamInvAlways, PTL DEF Spec, CommitApplies

=============================================================================
