------------------------- MODULE DeviceBinding_proofs -------------------------
(***************************************************************************)
(* Proofs about DeviceBinding for any objects, streams, slots and sampler  *)
(* states: what is not dirty is bound, and every draw uses what the state  *)
(* asks for.                                                               *)
(***************************************************************************)
EXTENDS DeviceBinding, TLAPS

USE BindingAssumption, CacheAssumption

-----------------------------------------------------------------------------
(* Types. *)

LEMMA DesiredType ==
  ASSUME TypeOK
  PROVE  \A st \in Stage : Desired[st] \in Code \union {FixedFunction}
  BY DEF TypeOK, Desired, Stage, Programmable, UseProgrammableVS

LEMMA LayoutKeyType ==
  ASSUME TypeOK
  PROVE  LayoutKey \in LayoutKeys /\ LayoutOf(LayoutKey) \in Layouts \union {None}
<1>1. LayoutKey \in LayoutKeys
  BY DEF TypeOK, LayoutKey, LayoutKeys, Programmable, UseProgrammableVS
<1>2. \A s \in Stream : streamFreq[s].count \in Nat /\ streamFreq[s].instanceData \in BOOLEAN
  BY DEF TypeOK, Frequencies
<1>3. LayoutOf(LayoutKey) \in Layouts \union {None}
  BY <1>2 DEF TypeOK, LayoutKey, LayoutOf, Layouts, Programmable, UseProgrammableVS
<1>4. QED
  BY <1>1, <1>3

LEMMA SlotTypes ==
  ASSUME TypeOK, NEW s \in Slots
  PROVE  /\ View(s) \in ViewOrNone
         /\ SamplerKey(s) \in SamplerKeys
         /\ SamplerOf(SamplerKey(s)) \in BoundSamplers
<1>1. View(s) \in ViewOrNone
  BY DEF TypeOK, View, ViewOrNone, Views
<1>2. SamplerKey(s) \in SamplerKeys
  <2>1. (texture[s] \in Cube) \in BOOLEAN /\ (s \in depth) \in BOOLEAN
    OBVIOUS
  <2>2. filter[s] \in Filters
    BY DEF TypeOK
  <2>3. (IF filter[s] \in Border THEN View(s) ELSE None) \in ViewOrNone
    BY <1>1 DEF ViewOrNone
  <2>4. QED
    BY <2>1, <2>2, <2>3, Zenon DEF SamplerKey, SamplerKeys
<1>3. SamplerOf(SamplerKey(s)) \in BoundSamplers
  BY <1>1, <1>2 DEF SamplerOf, SamplerKeys, BoundSamplers, Formats, ViewOrNone, Views
<1>4. QED
  BY <1>1, <1>2, <1>3

LEMMA InitType == Init => TypeOK
<1> SUFFICES ASSUME Init PROVE TypeOK
  OBVIOUS
<1>1. PlainSampler \in SamplerKeys /\ PlainSampler \in BoundSamplers
  BY DEF PlainSampler, SamplerKeys, BoundSamplers, ViewOrNone
<1>2. streamFreq \in Frequencies
  BY DEF Init, Frequencies
<1>3. context \in Contexts
  BY <1>1 DEF Init, Contexts, NoTexture, ViewOrNone
<1>4. QED
  BY <1>1, <1>2, <1>3 DEF Init, TypeOK, NoTexture, NoSrgb, Stage

\* The setters of the vertex and fragment pipeline leave slots and context alone.
LEMMA ShaderSetterType ==
  ASSUME TypeOK,
         \/ \E vs \in VertexShaders \union {None} : SetVertexShader(vs)
         \/ \E ps \in PixelShaders \union {None} : SetPixelShader(ps)
         \/ \E decl \in Decls \union {None} : SetVertexDeclaration(decl)
  PROVE  TypeOK'
<1> DEFINE T == [bound : Code \union {FixedFunction, Unknown}, dirty : BOOLEAN]
<1>1. \A st \in Stage : MarkDirty(st) \in [Stage -> T]
  <2>1. ASSUME NEW st \in Stage PROVE [tracker[st] EXCEPT !.dirty = TRUE] \in T
    <3>1. tracker[st] \in T
      BY DEF TypeOK
    <3>2. QED
      BY <3>1
  <2>2. tracker \in [Stage -> T]
    BY DEF TypeOK
  <2> HIDE DEF T
  <2>3. QED
    BY <2>1, <2>2 DEF MarkDirty
<1>2. CASE \E vs \in VertexShaders \union {None} : SetVertexShader(vs)
  BY <1>1, <1>2 DEF TypeOK, SetVertexShader, resourceVars, Stage
<1>3. CASE \E ps \in PixelShaders \union {None} : SetPixelShader(ps)
  BY <1>1, <1>3 DEF TypeOK, SetPixelShader, resourceVars, Stage
<1>4. CASE \E decl \in Decls \union {None} : SetVertexDeclaration(decl)
  BY <1>1, <1>4 DEF TypeOK, SetVertexDeclaration, resourceVars, Stage
<1>5. QED
  BY <1>2, <1>3, <1>4

LEMMA StreamFreqType ==
  ASSUME TypeOK, NEW s \in Stream, NEW setting \in Settings[s], SetStreamSourceFreq(s, setting)
  PROVE  TypeOK'
<1> DEFINE All == UNION {Settings[r] : r \in Stream}
<1>1. streamFreq' \in Frequencies
  <2>1. setting \in All
    OBVIOUS
  <2>2. streamFreq \in [Stream -> All] /\ \A r \in Stream : streamFreq[r] \in Settings[r]
    BY DEF TypeOK, Frequencies
  <2>3. streamFreq' = [streamFreq EXCEPT ![s] = setting]
    BY DEF SetStreamSourceFreq
  <2> HIDE DEF All
  <2>4. streamFreq' \in [Stream -> All] /\ \A r \in Stream : streamFreq'[r] \in Settings[r]
    BY <2>1, <2>2, <2>3
  <2>5. QED
    BY <2>4 DEF Frequencies, All
<1>2. layoutDirty' \in BOOLEAN /\ instanced' \subseteq Stream
  BY DEF TypeOK, SetStreamSourceFreq, Frequencies
<1>3. QED
  BY <1>1, <1>2 DEF TypeOK, SetStreamSourceFreq, resourceVars

LEMMA ObjectType ==
  ASSUME TypeOK,
         \/ \E object \in VertexShaders \union PixelShaders, c \in Code : CreateShader(object, c)
         \/ \E decl \in Decls, els \in Elements : CreateVertexDeclaration(decl, els)
  PROVE  TypeOK'
<1>1. CASE \E object \in VertexShaders \union PixelShaders, c \in Code : CreateShader(object, c)
  BY <1>1 DEF TypeOK, CreateShader, resourceVars
<1>2. CASE \E decl \in Decls, els \in Elements : CreateVertexDeclaration(decl, els)
  BY <1>2 DEF TypeOK, CreateVertexDeclaration, resourceVars
<1>3. QED
  BY <1>1, <1>2

LEMMA SlotSetterType ==
  ASSUME TypeOK,
         \/ \E s \in Slots, t \in Textures \union {None} : SetTexture(s, t)
         \/ \E s \in Slots, f \in Filters : SetSamplerState(s, f)
         \/ \E s \in Slots : SetSrgbTexture(s)
         \/ \E t \in Textures, l \in MostDetailed : SetLOD(t, l)
  PROVE  TypeOK'
<1>1. CASE \E s \in Slots, t \in Textures \union {None} : SetTexture(s, t)
  BY <1>1 DEF TypeOK, SetTexture, DepthAfter, shaderVars
<1>2. CASE \E s \in Slots, f \in Filters : SetSamplerState(s, f)
  BY <1>2 DEF TypeOK, SetSamplerState, shaderVars
<1>3. CASE \E s \in Slots : SetSrgbTexture(s)
  BY <1>3 DEF TypeOK, SetSrgbTexture, shaderVars
<1>4. CASE \E t \in Textures, l \in MostDetailed : SetLOD(t, l)
  BY <1>4 DEF TypeOK, SetLOD, MarkTextureBindingDirty, shaderVars
<1>5. QED
  BY <1>1, <1>2, <1>3, <1>4

LEMMA InvalidateType ==
  ASSUME NEW T, NEW t \in [Stage -> T], NEW st \in Stage, [bound |-> Unknown, dirty |-> TRUE] \in T
  PROVE  Invalidate(t, st) \in [Stage -> T]
  BY DEF Invalidate

LEMMA ResetType ==
  ASSUME TypeOK, ResetShaders \/ Reset
  PROVE  TypeOK'
<1> DEFINE T == [bound : Code \union {FixedFunction, Unknown}, dirty : BOOLEAN]
<1>1. InvalidateShaders \in [Stage -> T]
  <2>1. [bound |-> Unknown, dirty |-> TRUE] \in T /\ tracker \in [Stage -> T]
    BY DEF TypeOK
  <2>2. "vs" \in Stage /\ "ps" \in Stage
    BY DEF Stage
  <2> HIDE DEF T
  <2>3. QED
    BY <2>1, <2>2, InvalidateType DEF InvalidateShaders
<1>2. CASE ResetShaders
  BY <1>1, <1>2 DEF TypeOK, ResetShaders, resourceVars
<1>3. CASE Reset
  <2>1. PlainSampler \in SamplerKeys /\ PlainSampler \in BoundSamplers
    BY DEF PlainSampler, SamplerKeys, BoundSamplers, ViewOrNone
  <2>2. streamFreq' \in Frequencies
    BY <1>3 DEF Reset, Frequencies
  <2>3. context' \in Contexts
    BY <1>3, <2>1 DEF TypeOK, Reset, Contexts, NoTexture, ViewOrNone
  <2>4. QED
    BY <1>1, <1>3, <2>1, <2>2, <2>3 DEF TypeOK, Reset, NoTexture, NoSrgb
<1>4. QED
  BY <1>2, <1>3

LEMMA PreparedType ==
  ASSUME TypeOK, NEW used \in SUBSET Slots
  PROVE  /\ Prepared(used) \in Contexts
         /\ ResolveAll \in [Stage -> [bound : Code \union {FixedFunction, Unknown}, dirty : BOOLEAN]]
         /\ PrepareDraw(used) => /\ layoutCache' \in LayoutKeys \union {Unknown}
                                 /\ samplerCache' \in [Slots -> SamplerKeys \union {Unknown}]
                                 /\ viewCache' \in [Slots -> ViewOrNone \union {Unknown}]
<1>1. context \in Contexts
  BY DEF TypeOK
<1>2. ShadersBound \in [Stage -> Code \union {FixedFunction, None}]
  BY <1>1, DesiredType DEF ShadersBound, Contexts
<1>3. LayoutBound \in Layouts \union {None}
  BY <1>1, LayoutKeyType DEF LayoutBound, Contexts
<1>4. ViewsBound(DirtyTextures(used)) \in [Slots -> ViewOrNone]
  BY <1>1, SlotTypes DEF ViewsBound, Contexts
<1>5. SamplersBound(DirtySamplers(used), [s \in Slots |-> SamplerKey(s)]) \in [Slots -> BoundSamplers]
  BY <1>1, SlotTypes DEF SamplersBound, Contexts
<1>6. Prepared(used) \in Contexts
  BY <1>2, <1>3, <1>4, <1>5 DEF Prepared, Contexts
<1>7. ResolveAll \in [Stage -> [bound : Code \union {FixedFunction, Unknown}, dirty : BOOLEAN]]
  BY DesiredType DEF ResolveAll, Resolve, TypeOK
<1>8. ASSUME PrepareDraw(used)
      PROVE  /\ layoutCache' \in LayoutKeys \union {Unknown}
             /\ samplerCache' \in [Slots -> SamplerKeys \union {Unknown}]
             /\ viewCache' \in [Slots -> ViewOrNone \union {Unknown}]
  BY <1>8, LayoutKeyType, SlotTypes
     DEF PrepareDraw, TypeOK, SamplersCached, ViewsCached
<1>9. QED
  BY <1>6, <1>7, <1>8

LEMMA DrawType ==
  ASSUME TypeOK, NEW used \in SUBSET Slots, Draw(used) \/ ProcessVertices(used)
  PROVE  TypeOK'
<1> DEFINE T == [bound : Code \union {FixedFunction, Unknown}, dirty : BOOLEAN]
<1>1. PrepareDraw(used)
  BY DEF Draw, ProcessVertices
<1>2. tracker' \in [Stage -> T]
  <2>1. [bound |-> Unknown, dirty |-> TRUE] \in T /\ ResolveAll \in [Stage -> T]
    BY PreparedType
  <2>2. "ps" \in Stage
    BY DEF Stage
  <2> HIDE DEF T
  <2>3. Invalidate(ResolveAll, "ps") \in [Stage -> T]
    BY <2>1, <2>2, InvalidateType
  <2>4. tracker' = ResolveAll \/ tracker' = Invalidate(ResolveAll, "ps")
    BY DEF Draw, ProcessVertices
  <2>5. QED
    BY <2>1, <2>3, <2>4
<1>3. context' \in Contexts
  <2>1. Prepared(used) \in Contexts
    BY PreparedType
  <2>2. CASE Draw(used)
    BY <2>1, <2>2 DEF Draw
  <2>3. CASE ProcessVertices(used)
    BY <2>1, <2>3 DEF ProcessVertices, Contexts, Stage
  <2>4. QED
    BY <2>2, <2>3
<1>4. QED
  BY <1>1, <1>2, <1>3, PreparedType DEF TypeOK, PrepareDraw

LEMMA NextType == TypeOK /\ [Next]_vars => TypeOK'
<1> SUFFICES ASSUME TypeOK, [Next]_vars PROVE TypeOK'
  OBVIOUS
<1>1. CASE UNCHANGED vars
  BY <1>1 DEF TypeOK, vars, shaderVars, resourceVars
<1>2. QED
  BY <1>1, ShaderSetterType, StreamFreqType, ObjectType, SlotSetterType, ResetType, DrawType DEF Next

\* What the device's fields and the context hold is of their types, whatever
\* the application calls (D3D9DeviceEx).
THEOREM TypeCorrect == Spec => []TypeOK
  BY InitType, NextType, PTL DEF Spec

-----------------------------------------------------------------------------
(* What is not dirty is bound. *)

IInv == TypeOK /\ BindingsCurrent

LEMMA PlainSamplerBound ==
  SamplerOf(PlainSampler) = PlainSampler
  BY DEF SamplerOf, PlainSampler

\* A slot as a reset leaves it.
LEMMA PlainSamplerKey ==
  ASSUME NEW s \in Slots, texture[s] = None, filter[s] = DefaultFilter, s \notin depth
  PROVE  SamplerKey(s) = PlainSampler
<1>1. (texture[s] \in Cube) = FALSE /\ (s \in depth) = FALSE
  OBVIOUS
<1>2. (IF filter[s] \in Border THEN View(s) ELSE None) = None
  OBVIOUS
<1>3. QED
  BY <1>1, <1>2, Zenon DEF SamplerKey, PlainSampler

LEMMA InitBindings == Init => BindingsCurrent
<1> SUFFICES ASSUME Init PROVE BindingsCurrent
  OBVIOUS
<1>1. ShadersCurrent
  BY DEF Init, ShadersCurrent, Desired, Programmable, UseProgrammableVS, Stage
<1>2. LayoutCurrent
  BY DEF Init, LayoutCurrent
<1>3. ViewsCurrent
  BY DEF Init, ViewsCurrent, View, NoTexture
<1>4. SamplersCurrent
  <2>1. ASSUME NEW s \in Slots
        PROVE  /\ context.sampler[s] = PlainSampler /\ samplerCache[s] = PlainSampler
               /\ texture[s] = None /\ filter[s] = DefaultFilter /\ s \notin depth
    BY DEF Init, NoTexture
  <2>2. QED
    BY <2>1, PlainSamplerBound, PlainSamplerKey DEF SamplersCurrent
<1>5. QED
  BY <1>1, <1>2, <1>3, <1>4 DEF BindingsCurrent

\* A call that sets no shader and creates none leaves the shaders alone.
LEMMA ShadersFrame ==
  ASSUME ShadersCurrent, UNCHANGED <<vertexShader, pixelShader, vertexDecl, code, elements, tracker>>,
         context'.shader = context.shader
  PROVE  ShadersCurrent'
  BY DEF ShadersCurrent, Desired, Programmable, UseProgrammableVS

LEMMA LayoutFrame ==
  ASSUME LayoutCurrent,
         UNCHANGED <<vertexShader, vertexDecl, streamFreq, instanced, code, elements, layoutDirty, layoutCache>>,
         context'.layout = context.layout
  PROVE  LayoutCurrent'
  BY DEF LayoutCurrent, LayoutOf, LayoutKey, Programmable, UseProgrammableVS

LEMMA SlotsFrame ==
  ASSUME ViewsCurrent, SamplersCurrent, UNCHANGED <<resourceVars, context>>
  PROVE  ViewsCurrent' /\ SamplersCurrent'
<1>1. ViewsCurrent'
  BY DEF ViewsCurrent, View, resourceVars
<1>2. SamplersCurrent'
  BY DEF SamplersCurrent, SamplerKey, SamplerOf, View, resourceVars
<1>3. QED
  BY <1>1, <1>2

\* A setter marks the stage whenever what it asks for changes.
LEMMA SettersKeepShaders ==
  ASSUME TypeOK, ShadersCurrent,
         \/ \E vs \in VertexShaders \union {None} : SetVertexShader(vs)
         \/ \E ps \in PixelShaders \union {None} : SetPixelShader(ps)
         \/ \E decl \in Decls \union {None} : SetVertexDeclaration(decl)
  PROVE  ShadersCurrent'
<1>1. ASSUME NEW st \in Stage
      PROVE  /\ MarkDirty(st)[st].dirty /\ MarkDirty(st)[st].bound = tracker[st].bound
             /\ \A other \in Stage \ {st} : MarkDirty(st)[other] = tracker[other]
  BY DEF TypeOK, MarkDirty
<1>2. "vs" \in Stage /\ "ps" \in Stage /\ \A st \in Stage : st = "vs" \/ st = "ps"
  BY DEF Stage
<1>3. CASE \E vs \in VertexShaders \union {None} : SetVertexShader(vs)
  <2>1. PICK vs \in VertexShaders \union {None} : SetVertexShader(vs)
    BY <1>3
  <2>2. /\ vertexShader' = vs /\ UNCHANGED <<pixelShader, vertexDecl, code, elements, context>>
        /\ tracker' = IF UseProgrammableVS(vs, vertexDecl) \/ Programmable
                        THEN MarkDirty("vs") ELSE tracker
    BY <2>1 DEF SetVertexShader
  <2>3. Programmable' = UseProgrammableVS(vs, vertexDecl) /\ Desired'["ps"] = Desired["ps"]
    BY <2>2 DEF Programmable, UseProgrammableVS, Desired
  <2>4. ~Programmable /\ ~Programmable' => Desired'["vs"] = Desired["vs"]
    BY DEF Desired
  <2>5. QED
    BY <1>1, <1>2, <2>2, <2>3, <2>4 DEF ShadersCurrent
<1>4. CASE \E ps \in PixelShaders \union {None} : SetPixelShader(ps)
  <2>1. /\ UNCHANGED <<vertexShader, vertexDecl, code, elements, context>>
        /\ tracker' = MarkDirty("ps")
    BY <1>4 DEF SetPixelShader
  <2>2. Desired'["vs"] = Desired["vs"]
    BY <2>1 DEF Programmable, UseProgrammableVS, Desired
  <2>3. QED
    BY <1>1, <1>2, <2>1, <2>2 DEF ShadersCurrent
<1>5. CASE \E decl \in Decls \union {None} : SetVertexDeclaration(decl)
  <2>1. PICK decl \in Decls \union {None} : SetVertexDeclaration(decl)
    BY <1>5
  <2>2. /\ vertexDecl' = decl /\ UNCHANGED <<vertexShader, pixelShader, code, elements, context>>
        /\ tracker' = IF UseProgrammableVS(vertexShader, decl) # Programmable
                        THEN MarkDirty("vs") ELSE tracker
    BY <2>1 DEF SetVertexDeclaration
  <2>3. Programmable' = UseProgrammableVS(vertexShader, decl) /\ Desired'["ps"] = Desired["ps"]
    BY <2>2 DEF Programmable, UseProgrammableVS, Desired
  <2>4. (Programmable <=> Programmable') => Desired'["vs"] = Desired["vs"]
    BY <2>2 DEF Desired
  <2>5. Programmable \in BOOLEAN /\ UseProgrammableVS(vertexShader, decl) \in BOOLEAN
    BY DEF Programmable, UseProgrammableVS
  <2>6. tracker' = MarkDirty("vs") \/ (tracker' = tracker /\ Desired'["vs"] = Desired["vs"])
    BY <2>2, <2>3, <2>4, <2>5
  <2>7. QED
    BY <1>1, <1>2, <2>2, <2>3, <2>6 DEF ShadersCurrent
<1>6. QED
  BY <1>3, <1>4, <1>5

LEMMA SettersKeepLayout ==
  ASSUME TypeOK, LayoutCurrent,
         \/ \E vs \in VertexShaders \union {None} : SetVertexShader(vs)
         \/ \E ps \in PixelShaders \union {None} : SetPixelShader(ps)
         \/ \E decl \in Decls \union {None} : SetVertexDeclaration(decl)
  PROVE  LayoutCurrent'
<1>1. CASE \E ps \in PixelShaders \union {None} : SetPixelShader(ps)
  BY <1>1, LayoutFrame DEF SetPixelShader
<1>2. CASE \/ \E vs \in VertexShaders \union {None} : SetVertexShader(vs)
           \/ \E decl \in Decls \union {None} : SetVertexDeclaration(decl)
  <2>1. layoutDirty' = TRUE /\ UNCHANGED <<code, elements, layoutCache, context>>
    BY <1>2 DEF SetVertexShader, SetVertexDeclaration
  <2>2. QED
    BY <2>1 DEF LayoutCurrent, LayoutOf
<1>3. QED
  BY <1>1, <1>2

\* Frequencies of vertex data are no part of the layout.
LEMMA StreamFreqKeepsLayout ==
  ASSUME TypeOK, LayoutCurrent, NEW s \in Stream, NEW setting \in Settings[s],
         SetStreamSourceFreq(s, setting)
  PROVE  LayoutCurrent'
<1>1. /\ streamFreq' = [streamFreq EXCEPT ![s] = setting]
      /\ layoutDirty' = (layoutDirty \/ streamFreq[s].instanceData \/ setting.instanceData)
      /\ UNCHANGED <<vertexShader, vertexDecl, code, elements, layoutCache, context>>
  BY DEF SetStreamSourceFreq
<1>2. LayoutOf(layoutCache)' = LayoutOf(layoutCache)
  BY <1>1 DEF LayoutOf
<1>3. ASSUME ~layoutDirty' PROVE LayoutOf(LayoutKey)' = LayoutOf(LayoutKey)
  <2>1. ~streamFreq[s].instanceData /\ ~setting.instanceData
    BY <1>1, <1>3
  <2>2. \A r \in Stream : /\ streamFreq'[r].instanceData = streamFreq[r].instanceData \/ r = s
                          /\ r # s => streamFreq'[r] = streamFreq[r]
                          /\ r = s => streamFreq'[r] = setting
    BY <1>1 DEF TypeOK, Frequencies
  <2>3. [r \in Stream |-> IF streamFreq'[r].instanceData THEN streamFreq'[r].count ELSE 0]
          = [r \in Stream |-> IF streamFreq[r].instanceData THEN streamFreq[r].count ELSE 0]
    BY <2>1, <2>2
  <2>4. QED
    BY <1>1, <2>3 DEF LayoutOf, LayoutKey, Programmable, UseProgrammableVS
<1>4. ~layoutDirty' => ~layoutDirty
  BY <1>1
<1>5. QED
  BY <1>1, <1>2, <1>3, <1>4 DEF LayoutCurrent

\* Nothing that is bound or remembered is made of the object created.
LEMMA ObjectsKeepBindings ==
  ASSUME IInv,
         \/ \E object \in VertexShaders \union PixelShaders, c \in Code : CreateShader(object, c)
         \/ \E decl \in Decls, els \in Elements : CreateVertexDeclaration(decl, els)
  PROVE  BindingsCurrent'
<1>1. CASE \E object \in VertexShaders \union PixelShaders, c \in Code : CreateShader(object, c)
  <2>1. PICK object \in VertexShaders \union PixelShaders, c \in Code : CreateShader(object, c)
    BY <1>1
  <2>2. /\ object # vertexShader /\ object # pixelShader
        /\ layoutCache # Unknown => layoutCache.shader # object
        /\ code' = [code EXCEPT ![object] = c]
        /\ UNCHANGED <<vertexShader, pixelShader, vertexDecl, streamFreq, instanced, elements,
                       tracker, layoutDirty, layoutCache, resourceVars, context>>
    BY <2>1 DEF CreateShader
  <2>3. \A o \in VertexShaders \union PixelShaders : o # object => code'[o] = code[o]
    BY <2>2 DEF IInv, TypeOK
  <2>4. Programmable' = Programmable
    BY <2>2 DEF Programmable, UseProgrammableVS
  <2>5. \A st \in Stage : Desired'[st] = Desired[st]
    BY <2>2, <2>3, <2>4 DEF Desired, IInv, TypeOK, Stage, Programmable, UseProgrammableVS
  <2>6. ShadersCurrent'
    BY <2>2, <2>5 DEF IInv, BindingsCurrent, ShadersCurrent
  <2>7. LayoutKey' = LayoutKey
    BY <2>2, <2>4 DEF LayoutKey
  <2>8. ASSUME NEW key \in LayoutKeys, key.shader # object
        PROVE  LayoutOf(key)' = LayoutOf(key)
    BY <2>2, <2>3, <2>8 DEF LayoutOf, LayoutKeys
  <2>9. LayoutKey \in LayoutKeys /\ LayoutKey.shader # object
    BY <2>2, LayoutKeyType DEF LayoutKey, IInv
  <2>10. layoutCache # Unknown => layoutCache \in LayoutKeys
    BY DEF IInv, TypeOK
  <2>11. LayoutCurrent'
    BY <2>2, <2>7, <2>8, <2>9, <2>10 DEF IInv, BindingsCurrent, LayoutCurrent
  <2>12. QED
    BY <2>2, <2>6, <2>11, SlotsFrame DEF IInv, BindingsCurrent
<1>2. CASE \E decl \in Decls, els \in Elements : CreateVertexDeclaration(decl, els)
  <2>1. PICK decl \in Decls, els \in Elements : CreateVertexDeclaration(decl, els)
    BY <1>2
  <2>2. /\ decl # vertexDecl
        /\ layoutCache # Unknown => layoutCache.decl # decl
        /\ elements' = [elements EXCEPT ![decl] = els]
        /\ UNCHANGED <<vertexShader, pixelShader, vertexDecl, streamFreq, instanced, code,
                       tracker, layoutDirty, layoutCache, resourceVars, context>>
    BY <2>1 DEF CreateVertexDeclaration
  <2>3. \A d \in Decls : d # decl => elements'[d] = elements[d]
    BY <2>2 DEF IInv, TypeOK
  <2>4. Programmable' = Programmable
    BY <2>2, <2>3 DEF Programmable, UseProgrammableVS, IInv, TypeOK
  <2>5. \A st \in Stage : Desired'[st] = Desired[st]
    BY <2>2, <2>4 DEF Desired, Stage
  <2>6. ShadersCurrent'
    BY <2>2, <2>5 DEF IInv, BindingsCurrent, ShadersCurrent
  <2>7. LayoutKey' = LayoutKey
    BY <2>2, <2>4 DEF LayoutKey
  <2>8. ASSUME NEW key \in LayoutKeys, key.decl # decl
        PROVE  LayoutOf(key)' = LayoutOf(key)
    BY <2>2, <2>3, <2>8 DEF LayoutOf, LayoutKeys
  <2>9. LayoutKey \in LayoutKeys /\ LayoutKey.decl # decl
    BY <2>2, LayoutKeyType DEF LayoutKey, IInv
  <2>10. layoutCache # Unknown => layoutCache \in LayoutKeys
    BY DEF IInv, TypeOK
  <2>11. LayoutCurrent'
    BY <2>2, <2>7, <2>8, <2>9, <2>10 DEF IInv, BindingsCurrent, LayoutCurrent
  <2>12. QED
    BY <2>2, <2>6, <2>11, SlotsFrame DEF IInv, BindingsCurrent
<1>3. QED
  BY <1>1, <1>2

\* A texture, sampler state or level of detail that changes marks its slots.
LEMMA SlotSettersKeepViews ==
  ASSUME TypeOK, ViewsCurrent,
         \/ \E s \in Slots, t \in Textures \union {None} : SetTexture(s, t)
         \/ \E s \in Slots, f \in Filters : SetSamplerState(s, f)
         \/ \E s \in Slots : SetSrgbTexture(s)
         \/ \E t \in Textures, l \in MostDetailed : SetLOD(t, l)
  PROVE  ViewsCurrent'
<1>1. UNCHANGED <<viewCache, context>>
  BY DEF SetTexture, SetSamplerState, SetSrgbTexture, SetLOD
<1>2. \A r \in Slots : r \notin textureDirty' => r \notin textureDirty /\ View(r)' = View(r)
  <2>1. CASE \E s \in Slots, t \in Textures \union {None} : SetTexture(s, t)
    BY <2>1 DEF TypeOK, SetTexture, View
  <2>2. CASE \E s \in Slots, f \in Filters : SetSamplerState(s, f)
    BY <2>2 DEF SetSamplerState, View
  <2>3. CASE \E s \in Slots : SetSrgbTexture(s)
    BY <2>3 DEF TypeOK, SetSrgbTexture, View
  <2>4. CASE \E t \in Textures, l \in MostDetailed : SetLOD(t, l)
    BY <2>4 DEF TypeOK, SetLOD, MarkTextureBindingDirty, View
  <2>5. QED
    BY <2>1, <2>2, <2>3, <2>4
<1>3. QED
  BY <1>1, <1>2 DEF ViewsCurrent

\* The sampler of slot s, of its parts.
BorderOf(s) ==
  IF filter[s] \in Border /\ texture[s] # None THEN <<Format[texture[s]], srgb[s]>> ELSE None

LEMMA SamplerParts ==
  ASSUME TypeOK, NEW s \in Slots
  PROVE  SamplerOf(SamplerKey(s))
           = [filter |-> filter[s], cube |-> texture[s] \in Cube, depth |-> s \in depth,
              border |-> BorderOf(s)]
<1> DEFINE b == IF filter[s] \in Border THEN View(s) ELSE None
<1>1. texture[s] # None => View(s) \in Views /\ View(s).texture = texture[s] /\ View(s).srgb = srgb[s]
  BY DEF TypeOK, View, Views
<1>2. (IF b = None THEN None ELSE <<Format[b.texture], b.srgb>>) = BorderOf(s)
  BY <1>1 DEF View, BorderOf
<1>3. SamplerKey(s) = [filter |-> filter[s], cube |-> texture[s] \in Cube, depth |-> s \in depth, border |-> b]
  BY Zenon DEF SamplerKey
<1> DEFINE f == filter[s]
           c == texture[s] \in Cube
           d == s \in depth
<1> HIDE DEF b, f, c, d
<1>4. SamplerOf([filter |-> f, cube |-> c, depth |-> d, border |-> b])
        = [filter |-> f, cube |-> c, depth |-> d,
           border |-> IF b = None THEN None ELSE <<Format[b.texture], b.srgb>>]
  BY DEF SamplerOf
<1>5. SamplerOf(SamplerKey(s))
        = [filter |-> f, cube |-> c, depth |-> d,
           border |-> IF b = None THEN None ELSE <<Format[b.texture], b.srgb>>]
  <2>1. SamplerKey(s) = [filter |-> f, cube |-> c, depth |-> d, border |-> b]
    BY <1>3, Zenon DEF f, c, d
  <2>2. QED
    BY <1>4, <2>1
<1>6. SamplerOf(SamplerKey(s)) = [filter |-> f, cube |-> c, depth |-> d, border |-> BorderOf(s)]
  BY <1>2, <1>5
<1>7. QED
  BY <1>6, Zenon DEF f, c, d

\* What a sampler is made of does not depend on the level of detail.
LEMMA SamplerDependsOn ==
  ASSUME TypeOK, TypeOK', NEW s \in Slots,
         filter'[s] = filter[s], (s \in depth') <=> (s \in depth),
         (texture'[s] \in Cube) <=> (texture[s] \in Cube),
         filter[s] \in Border =>
           \/ texture'[s] = texture[s] /\ srgb'[s] = srgb[s]
           \/ /\ texture[s] # None /\ texture'[s] # None /\ srgb'[s] = srgb[s]
              /\ Format[texture'[s]] = Format[texture[s]]
  PROVE  SamplerOf(SamplerKey(s))' = SamplerOf(SamplerKey(s))
<1>1. BorderOf(s)' = BorderOf(s)
  BY DEF BorderOf
<1>2. SamplerOf(SamplerKey(s))'
        = [filter |-> filter'[s], cube |-> texture'[s] \in Cube, depth |-> s \in depth',
           border |-> BorderOf(s)']
  <2>1. (TypeOK => SamplerOf(SamplerKey(s))
           = [filter |-> filter[s], cube |-> texture[s] \in Cube, depth |-> s \in depth,
              border |-> BorderOf(s)])'
    BY SamplerParts, PTL
  <2>2. QED
    BY <2>1, Zenon
<1>3. /\ (texture'[s] \in Cube) = (texture[s] \in Cube)
      /\ (s \in depth') = (s \in depth)
  OBVIOUS
<1>4. QED
  BY <1>1, <1>2, <1>3, SamplerParts, Zenon

\* What a slot's sampler is made of is left as it was.
SameSampler(r) ==
  /\ filter'[r] = filter[r] /\ ((r \in depth') <=> (r \in depth))
  /\ (texture'[r] \in Cube) <=> (texture[r] \in Cube)
  /\ filter[r] \in Border =>
       \/ texture'[r] = texture[r] /\ srgb'[r] = srgb[r]
       \/ /\ texture[r] # None /\ texture'[r] # None /\ srgb'[r] = srgb[r]
          /\ Format[texture'[r]] = Format[texture[r]]

DepthFollows(r) == texture[r] # None => (r \in depth <=> texture[r] \in Shadow)

LEMMA SetTextureMarks ==
  ASSUME TypeOK, NEW s \in Slots, NEW t \in Textures \union {None}, SetTexture(s, t),
         NEW r \in Slots, DepthFollows(r)
  PROVE  /\ r \notin samplerDirty' => r \notin samplerDirty /\ SameSampler(r)
         /\ DepthFollows(r)'
<1>1. /\ texture' = [texture EXCEPT ![s] = t] /\ depth' = DepthAfter(s, t)
      /\ samplerDirty' = IF ChangesSampler(s, t) THEN samplerDirty \union {s} ELSE samplerDirty
      /\ UNCHANGED <<filter, srgb>>
  BY DEF SetTexture
<1>2. CASE r # s
  <2>1. texture'[r] = texture[r] /\ (r \in depth' <=> r \in depth)
    BY <1>1, <1>2 DEF TypeOK, DepthAfter
  <2>2. r \notin samplerDirty' => r \notin samplerDirty
    BY <1>1
  <2>3. QED
    BY <1>1, <2>1, <2>2 DEF SameSampler, DepthFollows
<1>3. CASE r = s
  <2>1. texture'[r] = t
    BY <1>1, <1>3 DEF TypeOK
  <2>2. r \notin samplerDirty' => r \notin samplerDirty /\ ~ChangesSampler(s, t)
    BY <1>1, <1>3
  <2>3. ASSUME ~ChangesSampler(s, t)
        PROVE  /\ (texture'[r] \in Cube) <=> (texture[r] \in Cube)
               /\ filter[r] \in Border =>
                    texture[r] # None /\ t # None /\ Format[texture[r]] = Format[t]
               /\ t # None => ((r \in depth) <=> (t \in Shadow))
    BY <1>3, <2>1, <2>3 DEF ChangesSampler
  <2>4. ASSUME ~ChangesSampler(s, t) PROVE (r \in depth') <=> (r \in depth)
    BY <1>1, <1>3, <2>3, <2>4 DEF DepthAfter
  <2>5. ~ChangesSampler(s, t) => SameSampler(r)
    BY <1>1, <2>1, <2>3, <2>4 DEF SameSampler
  <2>6. DepthFollows(r)'
    BY <1>1, <1>3, <2>1 DEF DepthAfter, DepthFollows
  <2>7. QED
    BY <2>2, <2>5, <2>6
<1>4. QED
  BY <1>2, <1>3

LEMMA OtherSettersMark ==
  ASSUME TypeOK, NEW r \in Slots, DepthFollows(r),
         \/ \E s \in Slots, f \in Filters : SetSamplerState(s, f)
         \/ \E s \in Slots : SetSrgbTexture(s)
         \/ \E t \in Textures, l \in MostDetailed : SetLOD(t, l)
  PROVE  /\ r \notin samplerDirty' => r \notin samplerDirty /\ SameSampler(r)
         /\ DepthFollows(r)'
<1>1. UNCHANGED <<texture, depth>>
  BY DEF SetSamplerState, SetSrgbTexture, SetLOD
<1>2. r \notin samplerDirty' => r \notin samplerDirty /\ filter'[r] = filter[r] /\ srgb'[r] = srgb[r]
  BY DEF TypeOK, SetSamplerState, SetSrgbTexture, SetLOD
<1>3. QED
  BY <1>1, <1>2 DEF SameSampler, DepthFollows

LEMMA SlotSettersKeepSamplers ==
  ASSUME TypeOK, TypeOK', SamplersCurrent,
         \/ \E s \in Slots, t \in Textures \union {None} : SetTexture(s, t)
         \/ \E s \in Slots, f \in Filters : SetSamplerState(s, f)
         \/ \E s \in Slots : SetSrgbTexture(s)
         \/ \E t \in Textures, l \in MostDetailed : SetLOD(t, l)
  PROVE  SamplersCurrent'
<1>1. UNCHANGED <<samplerCache, context>>
  BY DEF SetTexture, SetSamplerState, SetSrgbTexture, SetLOD
<1>2. \A r \in Slots : SamplerOf(samplerCache[r])' = SamplerOf(samplerCache[r])
  BY <1>1 DEF SamplerOf
<1>3. \A r \in Slots : DepthFollows(r)
  BY DEF SamplersCurrent, DepthFollows
<1>4. \A r \in Slots :
        /\ r \notin samplerDirty' => r \notin samplerDirty /\ SameSampler(r)
        /\ DepthFollows(r)'
  BY <1>3, SetTextureMarks, OtherSettersMark
<1>5. \A r \in Slots : SameSampler(r) => SamplerOf(SamplerKey(r))' = SamplerOf(SamplerKey(r))
  BY SamplerDependsOn DEF SameSampler
<1>6. ASSUME NEW r \in Slots
      PROVE  /\ r \notin samplerDirty' => context'.sampler[r] = SamplerOf(SamplerKey(r))'
             /\ samplerCache'[r] # Unknown => context'.sampler[r] = SamplerOf(samplerCache[r])'
  BY <1>1, <1>2, <1>4, <1>5, Zenon DEF SamplersCurrent
<1>7. \A r \in Slots : texture'[r] # None => (r \in depth' <=> texture'[r] \in Shadow)
  BY <1>4 DEF DepthFollows
<1>8. QED
  BY <1>6, <1>7, Zenon DEF SamplersCurrent

-----------------------------------------------------------------------------
(* What a draw finds bound. *)

LEMMA ShadersResolved ==
  ASSUME TypeOK, ShadersCurrent, NEW st \in Stage
  PROVE  ShadersBound[st] = Desired[st]
<1>1. ShadersBound[st] = IF Binds(st) THEN Desired[st] ELSE context.shader[st]
  BY DEF ShadersBound
<1>2. Desired[st] # Unknown
  BY DesiredType
<1>3. QED
  BY <1>1, <1>2 DEF Binds, ShadersCurrent

LEMMA LayoutResolved ==
  ASSUME TypeOK, LayoutCurrent
  PROVE  LayoutBound = LayoutOf(LayoutKey)
<1>1. LayoutKey # Unknown
  BY LayoutKeyType
<1>2. QED
  BY <1>1, Zenon DEF LayoutBound, LayoutMisses, LayoutCurrent

LEMMA ViewsResolved ==
  ASSUME TypeOK, ViewsCurrent, NEW used \in SUBSET Slots, NEW s \in Slots
  PROVE  ViewsBound(DirtyTextures(used))[s] = IF s \in used THEN View(s) ELSE context.view[s]
<1>1. View(s) # Unknown
  BY SlotTypes
<1>2. QED
  BY <1>1 DEF ViewsBound, DirtyTextures, ViewsCurrent

LEMMA SamplersResolved ==
  ASSUME TypeOK, SamplersCurrent, NEW used \in SUBSET Slots, NEW s \in Slots
  PROVE  /\ s \notin DirtySamplers(used) =>
              SamplersBound(DirtySamplers(used), [r \in Slots |-> SamplerKey(r)])[s] = context.sampler[s]
         /\ s \in DirtySamplers(used) \/ s \notin samplerDirty =>
              SamplersBound(DirtySamplers(used), [r \in Slots |-> SamplerKey(r)])[s]
                = SamplerOf(SamplerKey(s))
<1> DEFINE bound == SamplersBound(DirtySamplers(used), [r \in Slots |-> SamplerKey(r)])[s]
<1>1. SamplerKey(s) # Unknown
  BY SlotTypes
<1>2. [r \in Slots |-> SamplerKey(r)][s] = SamplerKey(s)
  OBVIOUS
<1>3. bound = IF s \in DirtySamplers(used) /\ samplerCache[s] # SamplerKey(s)
                THEN SamplerOf(SamplerKey(s)) ELSE context.sampler[s]
  BY <1>2 DEF SamplersBound
<1> HIDE DEF bound
<1>4. /\ samplerCache[s] = SamplerKey(s) => context.sampler[s] = SamplerOf(SamplerKey(s))
      /\ s \notin samplerDirty => context.sampler[s] = SamplerOf(SamplerKey(s))
      /\ s \in DirtySamplers(used) => s \in samplerDirty
  BY <1>1 DEF SamplersCurrent, DirtySamplers
<1>5. /\ s \notin DirtySamplers(used) => bound = context.sampler[s]
      /\ s \in DirtySamplers(used) \/ s \notin samplerDirty => bound = SamplerOf(SamplerKey(s))
  BY <1>3, <1>4, Zenon
<1>6. QED
  BY <1>5, Zenon DEF bound

\* A draw leaves bound what it drew with, and the fragment shader's token is
\* invalid once ProcessVertices has unbound it.
LEMMA DrawKeepsShaders ==
  ASSUME TypeOK, ShadersCurrent, NEW used \in SUBSET Slots, Draw(used) \/ ProcessVertices(used)
  PROVE  ShadersCurrent'
<1>1. \A st \in Stage : Desired'[st] = Desired[st]
  BY DEF Draw, ProcessVertices, PrepareDraw, Desired, Programmable, UseProgrammableVS
<1>2. \A st \in Stage : ResolveAll[st] = Resolve(st)
  BY DEF ResolveAll
<1>3. ASSUME NEW st \in Stage
      PROVE  Resolve(st).bound # Unknown => Resolve(st).bound = Desired[st]
  BY <1>3 DEF Resolve, ShadersCurrent
<1>4. CASE Draw(used)
  <2>1. context'.shader = ShadersBound /\ tracker' = ResolveAll
    BY <1>4 DEF Draw, Prepared
  <2>2. QED
    BY <1>1, <1>2, <1>3, <2>1, ShadersResolved DEF ShadersCurrent
<1>5. CASE ProcessVertices(used)
  <2>1. /\ context'.shader["vs"] = ShadersBound["vs"]
        /\ tracker' = [ResolveAll EXCEPT !["ps"] = [bound |-> Unknown, dirty |-> TRUE]]
    BY <1>5 DEF ProcessVertices, Prepared, Invalidate, Stage, ShadersBound
  <2>2. tracker'["vs"] = Resolve("vs") /\ tracker'["ps"] = [bound |-> Unknown, dirty |-> TRUE]
    BY <2>1 DEF ResolveAll, Stage
  <2>3. QED
    BY <1>1, <1>3, <2>1, <2>2, ShadersResolved DEF ShadersCurrent, Stage
<1>6. QED
  BY <1>4, <1>5

LEMMA DrawKeepsLayout ==
  ASSUME TypeOK, LayoutCurrent, NEW used \in SUBSET Slots, Draw(used) \/ ProcessVertices(used)
  PROVE  LayoutCurrent'
<1>1. context'.layout = LayoutBound
  BY DEF Draw, ProcessVertices, Prepared
<1>2. PrepareDraw(used)
  BY DEF Draw, ProcessVertices
<1>3. /\ UNCHANGED <<vertexShader, vertexDecl, streamFreq, instanced, code, elements>>
      /\ layoutCache' = IF LayoutMisses THEN LayoutKey ELSE layoutCache
  BY <1>2 DEF PrepareDraw
<1>4. LayoutOf(LayoutKey)' = LayoutOf(LayoutKey) /\ LayoutOf(layoutCache)' = LayoutOf(layoutCache')
  BY <1>3 DEF LayoutOf, LayoutKey, Programmable, UseProgrammableVS
<1>5. layoutCache' # Unknown => context'.layout = LayoutOf(layoutCache')
  BY <1>1, <1>3 DEF LayoutBound, LayoutCurrent
<1>6. QED
  BY <1>1, <1>4, <1>5, LayoutResolved DEF LayoutCurrent

LEMMA DrawKeepsSlots ==
  ASSUME TypeOK, ViewsCurrent, SamplersCurrent, NEW used \in SUBSET Slots,
         Draw(used) \/ ProcessVertices(used)
  PROVE  ViewsCurrent' /\ SamplersCurrent'
<1> DEFINE samplers == SamplersBound(DirtySamplers(used), [r \in Slots |-> SamplerKey(r)])
<1>1. context'.view = ViewsBound(DirtyTextures(used)) /\ context'.sampler = samplers
  BY DEF Draw, ProcessVertices, Prepared
<1>2. PrepareDraw(used)
  BY DEF Draw, ProcessVertices
<1>3. /\ UNCHANGED <<texture, filter, srgb, lod, depth>>
      /\ samplerDirty' = samplerDirty \ DirtySamplers(used)
      /\ textureDirty' = textureDirty \ used
      /\ viewCache' = ViewsCached(DirtyTextures(used))
      /\ samplerCache' = SamplersCached(DirtySamplers(used), [r \in Slots |-> SamplerKey(r)])
  BY <1>2 DEF PrepareDraw
<1>4. ASSUME NEW s \in Slots
      PROVE  /\ View(s)' = View(s) /\ SamplerOf(SamplerKey(s))' = SamplerOf(SamplerKey(s))
             /\ SamplerOf(samplerCache[s])' = SamplerOf(samplerCache'[s])
  BY <1>3 DEF View, SamplerKey, SamplerOf
<1>5. ViewsCurrent'
  <2>1. ASSUME NEW s \in Slots
        PROVE  /\ s \notin textureDirty' => context'.view[s] = View(s)
               /\ viewCache'[s] # Unknown => context'.view[s] = viewCache'[s]
    <3>1. viewCache'[s] = IF s \in DirtyTextures(used) THEN View(s) ELSE viewCache[s]
      BY <1>3 DEF ViewsCached
    <3>2. context'.view[s] = IF s \in used THEN View(s) ELSE context.view[s]
      BY <1>1, ViewsResolved
    <3>3. /\ s \notin textureDirty => context.view[s] = View(s)
          /\ viewCache[s] # Unknown => context.view[s] = viewCache[s]
      BY DEF ViewsCurrent
    <3>4. s \in DirtyTextures(used) <=> s \in textureDirty /\ s \in used
      BY DEF DirtyTextures
    <3>5. s \notin textureDirty' => s \in used \/ s \notin textureDirty
      BY <1>3
    <3>6. QED
      BY <3>1, <3>2, <3>3, <3>4, <3>5, Zenon
  <2>2. QED
    BY <1>4, <2>1 DEF ViewsCurrent
<1>6. SamplersCurrent'
  <2>1. ASSUME NEW s \in Slots
        PROVE  /\ s \notin samplerDirty' => context'.sampler[s] = SamplerOf(SamplerKey(s))
               /\ samplerCache'[s] # Unknown => context'.sampler[s] = SamplerOf(samplerCache'[s])
    <3>1. samplerCache'[s] = IF s \in DirtySamplers(used) THEN SamplerKey(s) ELSE samplerCache[s]
      BY <1>3 DEF SamplersCached
    <3>2. /\ s \notin DirtySamplers(used) => samplers[s] = context.sampler[s]
          /\ s \in DirtySamplers(used) \/ s \notin samplerDirty => samplers[s] = SamplerOf(SamplerKey(s))
      BY SamplersResolved
    <3> HIDE DEF samplers
    <3>3. /\ s \notin samplerDirty => context.sampler[s] = SamplerOf(SamplerKey(s))
          /\ samplerCache[s] # Unknown => context.sampler[s] = SamplerOf(samplerCache[s])
      BY DEF SamplersCurrent
    <3>4. s \notin samplerDirty' => s \in DirtySamplers(used) \/ s \notin samplerDirty
      BY <1>3
    <3>5. context'.sampler[s] = samplers[s]
      BY <1>1
    <3>6. s \notin samplerDirty' => context'.sampler[s] = SamplerOf(SamplerKey(s))
      BY <3>2, <3>4, <3>5, Zenon
    <3>7. CASE s \in DirtySamplers(used)
      BY <3>1, <3>2, <3>5, <3>6, <3>7, Zenon
    <3>8. CASE s \notin DirtySamplers(used)
      BY <3>1, <3>2, <3>3, <3>5, <3>6, <3>8, Zenon
    <3>9. QED
      BY <3>7, <3>8
  <2>2. QED
    BY <1>3, <1>4, <2>1 DEF SamplersCurrent
<1>7. QED
  BY <1>5, <1>6

-----------------------------------------------------------------------------
(* Resets. *)

LEMMA ResetKeepsBindings ==
  ASSUME IInv, ResetShaders \/ Reset
  PROVE  BindingsCurrent'
<1>1. ShadersCurrent'
  <2>1. tracker' = [st \in Stage |-> [bound |-> Unknown, dirty |-> TRUE]]
    BY DEF ResetShaders, Reset, InvalidateShaders, Invalidate, IInv, TypeOK, Stage
  <2>2. QED
    BY <2>1 DEF ShadersCurrent
<1>2. CASE ResetShaders
  <2>1. ViewsCurrent' /\ SamplersCurrent'
    BY <1>2, SlotsFrame DEF ResetShaders, IInv, BindingsCurrent
  <2>2. LayoutCurrent'
    BY <1>2, LayoutFrame DEF ResetShaders, IInv, BindingsCurrent
  <2>3. QED
    BY <1>1, <2>1, <2>2 DEF BindingsCurrent
<1>3. CASE Reset
  <2>1. LayoutCurrent'
    BY <1>3 DEF Reset, LayoutCurrent
  <2>2. /\ context'.view = NoTexture /\ context'.sampler = [s \in Slots |-> PlainSampler]
    BY <1>3 DEF Reset, IInv, TypeOK, Contexts
  <2>3. \A s \in Slots : /\ texture'[s] = None /\ filter'[s] = DefaultFilter /\ s \notin depth'
                         /\ viewCache'[s] = Unknown /\ samplerCache'[s] = PlainSampler
    BY <1>3 DEF Reset, NoTexture
  <2>4. ViewsCurrent'
    BY <2>2, <2>3 DEF ViewsCurrent, View, NoTexture
  <2>5. \A s \in Slots : SamplerKey(s)' = PlainSampler
    <3>1. ASSUME NEW s \in Slots PROVE SamplerKey(s)' = PlainSampler
      <4>1. (texture'[s] \in Cube) = FALSE /\ (s \in depth') = FALSE
        BY <2>3
      <4>2. (IF filter'[s] \in Border THEN View(s)' ELSE None) = None
        BY <2>3
      <4>3. filter'[s] = DefaultFilter
        BY <2>3
      <4>4. QED
        BY <4>1, <4>2, <4>3, Zenon DEF SamplerKey, PlainSampler
    <3>2. QED
      BY <3>1
  <2>6. SamplerOf(PlainSampler)' = PlainSampler
    BY DEF SamplerOf, PlainSampler
  <2>7. \A s \in Slots : SamplerOf(SamplerKey(s))' = PlainSampler /\ SamplerOf(samplerCache[s])' = PlainSampler
    BY <2>3, <2>5, <2>6 DEF SamplerOf
  <2>8. SamplersCurrent'
    BY <2>2, <2>3, <2>7 DEF SamplersCurrent
  <2>9. QED
    BY <1>1, <2>1, <2>4, <2>8 DEF BindingsCurrent
<1>4. QED
  BY <1>2, <1>3

LEMMA NextBindings == IInv /\ [Next]_vars => IInv'
<1> SUFFICES ASSUME IInv, [Next]_vars PROVE IInv'
  OBVIOUS
<1>1. TypeOK' /\ TypeOK
  BY NextType DEF IInv
<1>2. ShadersCurrent /\ LayoutCurrent /\ ViewsCurrent /\ SamplersCurrent
  BY DEF IInv, BindingsCurrent
<1>3. CASE \/ \E vs \in VertexShaders \union {None} : SetVertexShader(vs)
           \/ \E ps \in PixelShaders \union {None} : SetPixelShader(ps)
           \/ \E decl \in Decls \union {None} : SetVertexDeclaration(decl)
  <2>1. UNCHANGED <<resourceVars, context>>
    BY <1>3 DEF SetVertexShader, SetPixelShader, SetVertexDeclaration
  <2>2. ShadersCurrent'
    BY <1>1, <1>2, <1>3, SettersKeepShaders
  <2>3. LayoutCurrent'
    BY <1>1, <1>2, <1>3, SettersKeepLayout
  <2>4. QED
    BY <1>1, <1>2, <2>1, <2>2, <2>3, SlotsFrame DEF IInv, BindingsCurrent
<1>4. CASE \E s \in Stream : \E setting \in Settings[s] : SetStreamSourceFreq(s, setting)
  <2>1. /\ UNCHANGED <<resourceVars, context>>
        /\ UNCHANGED <<vertexShader, pixelShader, vertexDecl, code, elements, tracker>>
    BY <1>4 DEF SetStreamSourceFreq
  <2>2. LayoutCurrent'
    BY <1>1, <1>2, <1>4, StreamFreqKeepsLayout
  <2>3. ShadersCurrent'
    BY <1>2, <2>1, ShadersFrame
  <2>4. QED
    BY <1>1, <1>2, <2>1, <2>2, <2>3, SlotsFrame DEF IInv, BindingsCurrent
<1>5. CASE \/ \E s \in Slots, t \in Textures \union {None} : SetTexture(s, t)
           \/ \E s \in Slots, f \in Filters : SetSamplerState(s, f)
           \/ \E s \in Slots : SetSrgbTexture(s)
           \/ \E t \in Textures, l \in MostDetailed : SetLOD(t, l)
  <2>1. UNCHANGED <<shaderVars, context>>
    BY <1>5 DEF SetTexture, SetSamplerState, SetSrgbTexture, SetLOD
  <2>2. ShadersCurrent' /\ LayoutCurrent'
    BY <1>2, <2>1, ShadersFrame, LayoutFrame DEF shaderVars
  <2>3. ViewsCurrent'
    BY <1>1, <1>2, <1>5, SlotSettersKeepViews
  <2>4. SamplersCurrent'
    BY <1>1, <1>2, <1>5, SlotSettersKeepSamplers
  <2>5. QED
    BY <1>1, <2>2, <2>3, <2>4 DEF IInv, BindingsCurrent
<1>6. CASE \/ \E object \in VertexShaders \union PixelShaders, c \in Code : CreateShader(object, c)
           \/ \E decl \in Decls, els \in Elements : CreateVertexDeclaration(decl, els)
  BY <1>1, <1>6, ObjectsKeepBindings DEF IInv
<1>7. CASE \E used \in SUBSET Slots : Draw(used) \/ ProcessVertices(used)
  BY <1>1, <1>2, <1>7, DrawKeepsShaders, DrawKeepsLayout, DrawKeepsSlots DEF IInv, BindingsCurrent
<1>8. CASE ResetShaders \/ Reset
  BY <1>1, <1>8, ResetKeepsBindings DEF IInv
<1>9. CASE UNCHANGED vars
  <2>1. UNCHANGED <<shaderVars, resourceVars, context>>
    BY <1>9 DEF vars
  <2>2. ShadersCurrent' /\ LayoutCurrent'
    BY <1>2, <2>1, ShadersFrame, LayoutFrame DEF shaderVars
  <2>3. QED
    BY <1>1, <1>2, <2>1, <2>2, SlotsFrame DEF IInv, BindingsCurrent
<1>10. QED
  BY <1>3, <1>4, <1>5, <1>6, <1>7, <1>8, <1>9 DEF Next

\* What is not marked dirty is bound, and what a cache or a tracker believes
\* bound is bound, whatever the application sets, releases, draws or resets
\* (D3D9DeviceEx::PrepareDraw and the setters).
THEOREM BindingsAlwaysCurrent == Spec => []BindingsCurrent
<1>1. Init => IInv
  BY InitType, InitBindings DEF IInv
<1>2. IInv => BindingsCurrent
  BY DEF IInv
<1>3. QED
  BY <1>1, <1>2, NextBindings, PTL DEF Spec

-----------------------------------------------------------------------------
(* Every draw uses what the state asks for. *)

LEMMA DrawnSlot ==
  ASSUME TypeOK, ViewsCurrent, SamplersCurrent, NEW used \in SUBSET Slots, NEW s \in used
  PROVE  [view |-> Prepared(used).view[s],
          sampler |-> IF Prepared(used).view[s] = None THEN None ELSE Prepared(used).sampler[s]]
           = Resource(s)
<1>1. s \in Slots
  OBVIOUS
<1>2. Prepared(used).view[s] = View(s)
  BY <1>1, ViewsResolved DEF Prepared
<1>3. View(s) = None <=> texture[s] = None
  BY <1>1 DEF View, TypeOK, Views
<1>4. ASSUME texture[s] # None
      PROVE  Prepared(used).sampler[s] = SamplerOf([SamplerKey(s) EXCEPT !.depth = texture[s] \in Shadow])
  <2>1. s \in DirtySamplers(used) \/ s \notin samplerDirty
    BY <1>1, <1>4 DEF DirtySamplers
  <2>2. Prepared(used).sampler[s] = SamplerOf(SamplerKey(s))
    BY <1>1, <2>1, SamplersResolved DEF Prepared
  <2>3. (s \in depth) = (texture[s] \in Shadow)
    BY <1>1, <1>4 DEF SamplersCurrent
  <2>4. [SamplerKey(s) EXCEPT !.depth = s \in depth] = SamplerKey(s)
    <3> DEFINE c == texture[s] \in Cube
               d == s \in depth
    <3> HIDE DEF c, d
    <3>1. SamplerKey(s) = [filter |-> filter[s], cube |-> c, depth |-> d,
                           border |-> IF filter[s] \in Border THEN View(s) ELSE None]
      BY Zenon DEF SamplerKey, c, d
    <3>2. [SamplerKey(s) EXCEPT !.depth = d] = SamplerKey(s)
      BY <3>1
    <3>3. QED
      BY <3>2, Zenon DEF d
  <2>5. [SamplerKey(s) EXCEPT !.depth = texture[s] \in Shadow] = SamplerKey(s)
    BY <2>3, <2>4, Zenon
  <2>6. QED
    BY <2>2, <2>5, Zenon
<1>5. QED
  BY <1>2, <1>3, <1>4, Zenon DEF Resource

LEMMA DrawRefines ==
  ASSUME IInv, NEW used \in SUBSET Slots, Draw(used) \/ ProcessVertices(used)
  PROVE  Contract!Draw \/ Contract!ProcessVertices
<1>1. TypeOK /\ ShadersCurrent /\ LayoutCurrent /\ ViewsCurrent /\ SamplersCurrent
  BY DEF IInv, BindingsCurrent
<1>2. PrepareDraw(used)
  BY DEF Draw, ProcessVertices
<1>3. UNCHANGED <<Pipeline, Resources>>
  <2>1. Pipeline' = Pipeline
    BY <1>2 DEF PrepareDraw, Pipeline, Desired, LayoutOf, LayoutKey, Programmable, UseProgrammableVS
  <2>2. Resources' = Resources
    BY <1>2 DEF PrepareDraw, Resources, Resource, View, SamplerKey, SamplerOf
  <2>3. QED
    BY <2>1, <2>2
<1>4. used \in SUBSET DOMAIN Resources
  BY DEF Resources
<1>5. "vs" \in Stage /\ "ps" \in Stage
  BY DEF Stage
<1>6. /\ Prepared(used).shader["vs"] = Pipeline.vs /\ Prepared(used).shader["ps"] = Pipeline.ps
      /\ Prepared(used).layout = Pipeline.layout
  <2>1. Prepared(used).shader = ShadersBound /\ Prepared(used).layout = LayoutBound
    BY DEF Prepared
  <2>2. ShadersBound["vs"] = Desired["vs"] /\ ShadersBound["ps"] = Desired["ps"]
    BY <1>1, <1>5, ShadersResolved
  <2>3. Desired["vs"] = Desired.vs /\ Desired["ps"] = Desired.ps
    OBVIOUS
  <2>4. LayoutBound = LayoutOf(LayoutKey)
    BY <1>1, LayoutResolved
  <2>5. QED
    BY <2>1, <2>2, <2>3, <2>4 DEF Pipeline
<1>7. [s \in used |-> [view |-> Prepared(used).view[s],
                      sampler |-> IF Prepared(used).view[s] = None THEN None
                                  ELSE Prepared(used).sampler[s]]]
        = [s \in used |-> Resources[s]]
  <2>1. \A s \in used : Resources[s] = Resource(s)
    BY DEF Resources
  <2>2. \A s \in used :
          [view |-> Prepared(used).view[s],
           sampler |-> IF Prepared(used).view[s] = None THEN None ELSE Prepared(used).sampler[s]]
             = Resources[s]
    BY <1>1, <2>1, DrawnSlot
  <2>3. QED
    BY <2>2, Zenon
<1>8. CASE Draw(used)
  <2>1. drawn' = [call |-> "Draw", pipeline |-> [Pipeline EXCEPT !.ps = Pipeline.ps],
                  resources |-> [s \in used |-> Resources[s]]]
    <3>1. drawn' = Drawn("Draw", Prepared(used), used)
      BY <1>8 DEF Draw
    <3>2. [Pipeline EXCEPT !.ps = Pipeline.ps]
            = [vs |-> Pipeline.vs, ps |-> Pipeline.ps, layout |-> Pipeline.layout]
      BY DEF Pipeline
    <3>3. QED
      BY <1>6, <1>7, <3>1, <3>2, Zenon DEF Drawn
  <2>2. QED
    BY <1>3, <1>4, <2>1 DEF Contract!Draw, Contract!DrawWith
<1>9. CASE ProcessVertices(used)
  <2> DEFINE unshaded == [Prepared(used) EXCEPT !.shader["ps"] = None]
  <2>1. /\ unshaded.shader["vs"] = Pipeline.vs /\ unshaded.shader["ps"] = None
        /\ unshaded.layout = Pipeline.layout
        /\ unshaded.view = Prepared(used).view /\ unshaded.sampler = Prepared(used).sampler
    <3>1. Prepared(used).shader = ShadersBound /\ DOMAIN ShadersBound = Stage
      BY DEF Prepared, ShadersBound
    <3>2. QED
      BY <1>5, <1>6, <3>1 DEF Prepared
  <2>2. drawn' = Drawn("ProcessVertices", unshaded, used)
    BY <1>9 DEF ProcessVertices
  <2> HIDE DEF unshaded
  <2>3. [Pipeline EXCEPT !.ps = None] = [vs |-> Pipeline.vs, ps |-> None, layout |-> Pipeline.layout]
    BY DEF Pipeline
  <2>4. drawn' = [call |-> "ProcessVertices", pipeline |-> [Pipeline EXCEPT !.ps = None],
                  resources |-> [s \in used |-> Resources[s]]]
    <3>1. drawn' = [call |-> "ProcessVertices",
                    pipeline |-> [vs |-> unshaded.shader["vs"], ps |-> unshaded.shader["ps"],
                                  layout |-> unshaded.layout],
                    resources |-> [s \in used |-> [view |-> unshaded.view[s],
                      sampler |-> IF unshaded.view[s] = None THEN None ELSE unshaded.sampler[s]]]]
      BY <2>2, Zenon DEF Drawn
    <3>2. [s \in used |-> [view |-> unshaded.view[s],
             sampler |-> IF unshaded.view[s] = None THEN None ELSE unshaded.sampler[s]]]
            = [s \in used |-> Resources[s]]
      BY <1>7, <2>1
    <3>3. [vs |-> unshaded.shader["vs"], ps |-> unshaded.shader["ps"], layout |-> unshaded.layout]
            = [Pipeline EXCEPT !.ps = None]
      BY <2>1, <2>3
    <3>4. QED
      BY <3>1, <3>2, <3>3, Zenon
  <2>5. QED
    BY <1>3, <1>4, <2>4 DEF Contract!ProcessVertices, Contract!DrawWith
<1>10. QED
  BY <1>8, <1>9

LEMMA NextRefines == IInv /\ [Next]_vars => [Contract!Next]_(Contract!vars)
<1> SUFFICES ASSUME IInv, [Next]_vars PROVE Contract!Next \/ UNCHANGED Contract!vars
  OBVIOUS
<1>1. CASE \E used \in SUBSET Slots : Draw(used) \/ ProcessVertices(used)
  BY <1>1, DrawRefines DEF Contract!Next
<1>2. CASE UNCHANGED vars
  <2>1. Pipeline' = Pipeline
    BY <1>2 DEF vars, shaderVars, Pipeline, Desired, LayoutOf, LayoutKey, Programmable, UseProgrammableVS
  <2>2. Resources' = Resources
    BY <1>2 DEF vars, resourceVars, Resources, Resource, View, SamplerKey, SamplerOf
  <2>3. QED
    BY <1>2, <2>1, <2>2 DEF vars, Contract!vars
<1>3. CASE Next /\ ~\E used \in SUBSET Slots : Draw(used) \/ ProcessVertices(used)
  <2>1. drawn' = None
    BY <1>3 DEF Next, SetVertexShader, SetPixelShader, SetVertexDeclaration, SetStreamSourceFreq,
                SetTexture, SetSamplerState, SetSrgbTexture, SetLOD, CreateShader,
                CreateVertexDeclaration, ResetShaders, Reset
  <2>2. QED
    BY <2>1 DEF Contract!Next, Contract!Change
<1>4. QED
  BY <1>1, <1>2, <1>3

\* Deferring, coalescing and caching bindings is invisible: every draw uses the
\* shaders, layout, views and samplers the state asks for when it is made
\* (D3D9DeviceEx::PrepareDraw).
THEOREM ContractCorrect == Spec => ImplementsContract
<1>1. Init => IInv /\ Contract!Init
  BY InitType, InitBindings DEF IInv, Init, Contract!Init
<1>2. QED
  BY <1>1, NextBindings, NextRefines, PTL DEF Spec, ImplementsContract, Contract!Spec

=============================================================================
