----------------------------- MODULE DeviceBinding -----------------------------
(***************************************************************************)
(* From the device's state to what the backend context has bound: shader   *)
(* binds deferred to the next draw, the input layout, texture and sampler  *)
(* binding caches, and the dirty masks in front of them.                   *)
(*                                                                         *)
(* Source: backend/dxvk/src/d3d9/d3d9_device.cpp and                       *)
(* d3d9_gta_sa_deferred_binding.h, with the options of config/dxvk.conf.   *)
(* A command sent to the CS thread acts at once: the queue keeps order.    *)
(* Calls are made while no state block is recorded.                        *)
(***************************************************************************)
EXTENDS Naturals

CONSTANTS
  VertexShaders, PixelShaders, Decls, \* COM objects
  Code, Elements, \* what shaders and declarations are made of
  PositionT,      \* elements of pretransformed vertices
  Stream,         \* 0 .. MaxStreams - 1
  Settings,       \* stream -> frequencies the application gives it
  Slots, Textures,
  Cube,           \* cube textures; a mip chain is treated like one
  Shadow,         \* depth textures, sampled in comparison mode
  Format,         \* texture -> format
  MostDetailed,   \* values of SetLOD
  Filters, DefaultFilter, \* sampler states other than SRGBTEXTURE
  Border,         \* those that use the border color
  FixedFunction,  \* ubershader of either stage
  Unknown,        \* a cache that is not valid
  None

PerVertex == [count |-> 1, instanceData |-> FALSE]

ASSUME BindingAssumption ==
  /\ Cube \subseteq Textures /\ Shadow \subseteq Textures
  /\ DefaultFilter \in Filters \ Border
  /\ None \notin VertexShaders \union PixelShaders \union Decls \union Textures
  /\ None \notin Code \union {FixedFunction}
  /\ Unknown \notin Code \union {FixedFunction}
  /\ \A s \in Stream : \A f \in Settings[s] :
       f.count \in Nat /\ f.instanceData \in BOOLEAN
  /\ \A s \in Stream : PerVertex \in Settings[s]

Views == [texture : Textures, lod : MostDetailed, srgb : BOOLEAN]
ViewOrNone == Views \union {None}

SamplerKeys ==
  [filter : Filters, cube : BOOLEAN, depth : BOOLEAN, border : ViewOrNone]

Frequencies ==
  {f \in [Stream -> UNION {Settings[s] : s \in Stream}] : \A s \in Stream : f[s] \in Settings[s]}

LayoutKeys ==
  [decl : Decls \union {None}, shader : VertexShaders \union {None},
   instanced : SUBSET Stream, freq : Frequencies]

ASSUME CacheAssumption ==
  /\ None \notin Views
  /\ Unknown \notin ViewOrNone \union SamplerKeys \union LayoutKeys

VARIABLES
  vertexShader, pixelShader, vertexDecl, streamFreq,
  instanced,   \* m_vbSlotTracking.instanced
  code,        \* shader object -> its module
  elements,    \* declaration -> its elements
  tracker,     \* m_gtaSaDeferredShaderBindings: stage -> [bound, dirty]
  layoutDirty, layoutCache, \* D3D9DeviceDirtyFlag::InputLayout, m_gtaSaInputLayout*
  texture, filter, srgb, lod,
  depth, textureDirty, samplerDirty, \* m_textureSlotTracking
  viewCache, samplerCache, \* m_gtaSa{Texture,Sampler}BindingCache
  context,     \* the DxvkContext: [shader, layout, view, sampler]
  drawn        \* what the call just made drew with

shaderVars == <<vertexShader, pixelShader, vertexDecl, streamFreq, instanced,
                code, elements, tracker, layoutDirty, layoutCache>>
resourceVars == <<texture, filter, srgb, lod, depth, textureDirty, samplerDirty,
                  viewCache, samplerCache>>
vars == <<shaderVars, resourceVars, context, drawn>>

Stage == {"vs", "ps"}

-----------------------------------------------------------------------------
(* What the state asks for.                                                 *)

UseProgrammableVS(vs, decl) ==
  vs # None /\ decl # None /\ elements[decl] \notin PositionT

Programmable == UseProgrammableVS(vertexShader, vertexDecl)

Desired ==
  [vs |-> IF Programmable THEN code[vertexShader] ELSE FixedFunction,
   ps |-> IF pixelShader # None THEN code[pixelShader] ELSE FixedFunction]

LayoutKey ==
  [decl |-> vertexDecl, shader |-> IF Programmable THEN vertexShader ELSE None,
   instanced |-> instanced, freq |-> streamFreq]

\* Only instance data has a step rate.
LayoutOf(key) ==
  IF key.decl = None THEN None
  ELSE [elements |-> elements[key.decl],
        signature |-> IF key.shader # None THEN code[key.shader] ELSE FixedFunction,
        divisor |-> [s \in Stream |->
          IF key.freq[s].instanceData THEN key.freq[s].count ELSE 0]]

View(s) ==
  IF texture[s] = None THEN None
  ELSE [texture |-> texture[s], lod |-> lod[texture[s]], srgb |-> srgb[s]]

SamplerKey(s) ==
  [filter |-> filter[s], cube |-> texture[s] \in Cube, depth |-> s \in depth,
   border |-> IF filter[s] \in Border THEN View(s) ELSE None]

\* Of the view a sampler with a border takes the format.
SamplerOf(key) ==
  [key EXCEPT !.border =
     IF key.border = None THEN None ELSE <<Format[key.border.texture], key.border.srgb>>]

Pipeline == [vs |-> Desired.vs, ps |-> Desired.ps, layout |-> LayoutOf(LayoutKey)]

\* What sampling slot s must see: comparison mode follows the texture itself.
Resource(s) ==
  [view |-> View(s),
   sampler |-> IF texture[s] = None THEN None
               ELSE SamplerOf([SamplerKey(s) EXCEPT !.depth = texture[s] \in Shadow])]

Resources == [s \in Slots |-> Resource(s)]

Contract == INSTANCE BindingContract
  WITH pipeline <- Pipeline, resources <- Resources, Nothing <- None

-----------------------------------------------------------------------------

NoTexture == [s \in Slots |-> None]
NoSrgb == [s \in Slots |-> FALSE]
PlainSampler == [filter |-> DefaultFilter, cube |-> FALSE, depth |-> FALSE, border |-> None]

\* The constructor and InitialReset.
Init ==
  /\ vertexShader = None /\ pixelShader = None /\ vertexDecl = None
  /\ streamFreq = [s \in Stream |-> PerVertex]
  /\ instanced = {}
  /\ code \in [VertexShaders \union PixelShaders -> Code]
  /\ elements \in [Decls -> Elements]
  /\ tracker = [st \in Stage |-> [bound |-> Unknown, dirty |-> FALSE]]
  /\ layoutDirty = TRUE /\ layoutCache = Unknown
  /\ texture = NoTexture
  /\ filter = [s \in Slots |-> DefaultFilter]
  /\ srgb = NoSrgb
  /\ lod \in [Textures -> MostDetailed]
  /\ depth = {} /\ textureDirty = {} /\ samplerDirty = {}
  /\ viewCache = [s \in Slots |-> Unknown]
  /\ samplerCache = [s \in Slots |-> PlainSampler]
  /\ context = [shader |-> [st \in Stage |-> FixedFunction], layout |-> None,
                view |-> NoTexture, sampler |-> [s \in Slots |-> PlainSampler]]
  /\ drawn = None

-----------------------------------------------------------------------------
(* The tracker.                                                             *)

MarkDirty(st) == [tracker EXCEPT ![st].dirty = TRUE]

\* Mutant: what was bound last is still believed bound.
InvalidateMarks(t, st) == [t EXCEPT ![st].dirty = TRUE]

\* Mutant: the token is nulled where the valid flag should be cleared.
InvalidateToNull(t, st) == [t EXCEPT ![st] = [bound |-> None, dirty |-> TRUE]]

Invalidate(t, st) == [t EXCEPT ![st] = [bound |-> Unknown, dirty |-> TRUE]]

InvalidateShaders == Invalidate(Invalidate(tracker, "vs"), "ps")

Resolve(st) ==
  IF tracker[st].dirty THEN [bound |-> Desired[st], dirty |-> FALSE] ELSE tracker[st]

Binds(st) == tracker[st].dirty /\ tracker[st].bound # Desired[st]

-----------------------------------------------------------------------------
(* Setters.                                                                 *)

SetVertexShader(vs) ==
  /\ vs # vertexShader
  /\ vertexShader' = vs
  /\ tracker' = IF UseProgrammableVS(vs, vertexDecl) \/ Programmable
                  THEN MarkDirty("vs") ELSE tracker
  /\ layoutDirty' = TRUE
  /\ drawn' = None
  /\ UNCHANGED <<pixelShader, vertexDecl, streamFreq, instanced, code, elements,
                 layoutCache, resourceVars, context>>

SetPixelShader(ps) ==
  /\ ps # pixelShader
  /\ pixelShader' = ps
  /\ tracker' = MarkDirty("ps")
  /\ drawn' = None
  /\ UNCHANGED <<vertexShader, vertexDecl, streamFreq, instanced, code, elements,
                 layoutDirty, layoutCache, resourceVars, context>>

SetVertexDeclaration(decl) ==
  /\ decl # vertexDecl
  /\ vertexDecl' = decl
  /\ tracker' = IF UseProgrammableVS(vertexShader, decl) # Programmable
                  THEN MarkDirty("vs") ELSE tracker
  /\ layoutDirty' = TRUE
  /\ drawn' = None
  /\ UNCHANGED <<vertexShader, pixelShader, streamFreq, instanced, code, elements,
                 layoutCache, resourceVars, context>>

\* Mutant: a stream that stops being instance data leaves the layout clean.
SetStreamSourceFreqOneWay(s, setting) ==
  /\ ~(s = 0 /\ setting.instanceData)
  /\ setting # streamFreq[s]
  /\ streamFreq' = [streamFreq EXCEPT ![s] = setting]
  /\ instanced' = IF setting.instanceData THEN instanced \union {s} ELSE instanced \ {s}
  /\ layoutDirty' = (layoutDirty \/ setting.instanceData)
  /\ drawn' = None
  /\ UNCHANGED <<vertexShader, pixelShader, vertexDecl, code, elements, tracker,
                 layoutCache, resourceVars, context>>

\* Two frequencies of vertex data differ in the number of instances only.
SetStreamSourceFreq(s, setting) ==
  /\ ~(s = 0 /\ setting.instanceData)
  /\ setting # streamFreq[s]
  /\ streamFreq' = [streamFreq EXCEPT ![s] = setting]
  /\ instanced' = IF setting.instanceData THEN instanced \union {s} ELSE instanced \ {s}
  /\ layoutDirty' = (layoutDirty \/ streamFreq[s].instanceData \/ setting.instanceData)
  /\ drawn' = None
  /\ UNCHANGED <<vertexShader, pixelShader, vertexDecl, code, elements, tracker,
                 layoutCache, resourceVars, context>>

\* Mutant: comparison mode is updated without rebinding the sampler.
ChangesSamplerNotDepth(s, t) ==
  \/ (texture[s] \in Cube) # (t \in Cube)
  \/ /\ filter[s] \in Border
     /\ texture[s] = None \/ t = None \/ Format[texture[s]] # Format[t]

ChangesSampler(s, t) ==
  \/ (texture[s] \in Cube) # (t \in Cube)
  \/ t # None /\ (s \in depth) # (t \in Shadow)
  \/ /\ filter[s] \in Border
     /\ texture[s] = None \/ t = None \/ Format[texture[s]] # Format[t]

DepthAfter(s, t) ==
  IF t = None THEN depth ELSE IF t \in Shadow THEN depth \union {s} ELSE depth \ {s}

SetTexture(s, t) ==
  /\ t # texture[s]
  /\ texture' = [texture EXCEPT ![s] = t]
  /\ depth' = DepthAfter(s, t)
  /\ textureDirty' = textureDirty \union {s}
  /\ samplerDirty' = IF ChangesSampler(s, t) THEN samplerDirty \union {s} ELSE samplerDirty
  /\ drawn' = None
  /\ UNCHANGED <<shaderVars, filter, srgb, lod, viewCache, samplerCache, context>>

SetSamplerState(s, f) ==
  /\ f # filter[s]
  /\ filter' = [filter EXCEPT ![s] = f]
  /\ samplerDirty' = samplerDirty \union {s}
  /\ drawn' = None
  /\ UNCHANGED <<shaderVars, texture, srgb, lod, depth, textureDirty, viewCache,
                 samplerCache, context>>

SetSrgbTexture(s) ==
  /\ srgb' = [srgb EXCEPT ![s] = ~srgb[s]]
  /\ samplerDirty' = samplerDirty \union {s}
  /\ textureDirty' = IF texture[s] # None THEN textureDirty \union {s} ELSE textureDirty
  /\ drawn' = None
  /\ UNCHANGED <<shaderVars, texture, filter, lod, depth, viewCache, samplerCache, context>>

MarkTextureBindingDirty(t) == textureDirty \union {s \in Slots : texture[s] = t}

SetLOD(t, l) ==
  /\ l # lod[t]
  /\ lod' = [lod EXCEPT ![t] = l]
  /\ textureDirty' = MarkTextureBindingDirty(t)
  /\ drawn' = None
  /\ UNCHANGED <<shaderVars, texture, filter, srgb, depth, samplerDirty, viewCache,
                 samplerCache, context>>

\* The last reference to an object is released and another is created where
\* it was.  The input layout cache holds references to what it compares.
CreateShader(object, c) ==
  /\ object \notin {vertexShader, pixelShader}
  /\ layoutCache # Unknown => layoutCache.shader # object
  /\ code' = [code EXCEPT ![object] = c]
  /\ drawn' = None
  /\ UNCHANGED <<vertexShader, pixelShader, vertexDecl, streamFreq, instanced, elements,
                 tracker, layoutDirty, layoutCache, resourceVars, context>>

CreateVertexDeclaration(decl, els) ==
  /\ decl # vertexDecl
  /\ layoutCache # Unknown => layoutCache.decl # decl
  /\ elements' = [elements EXCEPT ![decl] = els]
  /\ drawn' = None
  /\ UNCHANGED <<vertexShader, pixelShader, vertexDecl, streamFreq, instanced, code,
                 tracker, layoutDirty, layoutCache, resourceVars, context>>

-----------------------------------------------------------------------------
(* Draws.                                                                   *)

\* BindSampler, UndirtySamplers: what the context has after it.
SamplersBound(mask, keys) ==
  [s \in Slots |-> IF s \in mask /\ samplerCache[s] # keys[s]
                     THEN SamplerOf(keys[s]) ELSE context.sampler[s]]

SamplersCached(mask, keys) ==
  [s \in Slots |-> IF s \in mask THEN keys[s] ELSE samplerCache[s]]

\* BindTexture and UnbindTextures.
ViewsBound(mask) ==
  [s \in Slots |-> IF s \in mask /\ viewCache[s] # View(s) THEN View(s) ELSE context.view[s]]

ViewsCached(mask) == [s \in Slots |-> IF s \in mask THEN View(s) ELSE viewCache[s]]

ShadersBound == [st \in Stage |-> IF Binds(st) THEN Desired[st] ELSE context.shader[st]]

\* Mutant: the cache forgets the shader whose inputs the layout was matched with.
LayoutMissesDecl == layoutDirty /\ (layoutCache = Unknown \/ layoutCache.decl # vertexDecl)

LayoutMisses == layoutDirty /\ layoutCache # LayoutKey

LayoutBound == IF LayoutMisses THEN LayoutOf(LayoutKey) ELSE context.layout

DirtySamplers(used) == samplerDirty \intersect {s \in used : texture[s] # None}
DirtyTextures(used) == textureDirty \intersect used

Prepared(used) ==
  [shader |-> ShadersBound, layout |-> LayoutBound,
   view |-> ViewsBound(DirtyTextures(used)),
   sampler |-> SamplersBound(DirtySamplers(used), [s \in Slots |-> SamplerKey(s)])]

\* What remains dirty and cached; trackers are left to the caller.
PrepareDraw(used) ==
  /\ layoutDirty' = FALSE
  /\ layoutCache' = IF LayoutMisses THEN LayoutKey ELSE layoutCache
  /\ samplerDirty' = samplerDirty \ DirtySamplers(used)
  /\ samplerCache' = SamplersCached(DirtySamplers(used), [s \in Slots |-> SamplerKey(s)])
  /\ textureDirty' = textureDirty \ used
  /\ viewCache' = ViewsCached(DirtyTextures(used))
  /\ UNCHANGED <<vertexShader, pixelShader, vertexDecl, streamFreq, instanced, code,
                 elements, texture, filter, srgb, lod, depth>>

Drawn(call, bound, used) ==
  [call |-> call,
   pipeline |-> [vs |-> bound.shader["vs"], ps |-> bound.shader["ps"],
                 layout |-> bound.layout],
   resources |-> [s \in used |->
     [view |-> bound.view[s],
      sampler |-> IF bound.view[s] = None THEN None ELSE bound.sampler[s]]]]

ResolveAll == [st \in Stage |-> Resolve(st)]

\* used is what the shaders bound sample.
Draw(used) ==
  /\ vertexDecl # None
  /\ PrepareDraw(used)
  /\ tracker' = ResolveAll
  /\ context' = Prepared(used)
  /\ drawn' = Drawn("Draw", Prepared(used), used)

\* Streams vertices out without a fragment shader, and leaves none bound.
ProcessVertices(used) ==
  LET unshaded == [Prepared(used) EXCEPT !.shader["ps"] = None]
  IN /\ PrepareDraw(used)
     /\ tracker' = Invalidate(ResolveAll, "ps")
     /\ context' = unshaded
     /\ drawn' = Drawn("ProcessVertices", unshaded, used)

-----------------------------------------------------------------------------
(* Reset.                                                                   *)

\* Reset or ResetEx refused, or an extended device's.
ResetShaders ==
  /\ tracker' = InvalidateShaders
  /\ drawn' = None
  /\ UNCHANGED <<vertexShader, pixelShader, vertexDecl, streamFreq, instanced, code,
                 elements, layoutDirty, layoutCache, resourceVars, context>>

\* Mutant: the context's textures are unbound behind a cache left valid.
ResetCached ==
  /\ tracker' = InvalidateShaders
  /\ streamFreq' = [s \in Stream |-> PerVertex]
  /\ layoutDirty' = TRUE /\ layoutCache' = Unknown
  /\ texture' = NoTexture
  /\ filter' = [s \in Slots |-> DefaultFilter]
  /\ srgb' = NoSrgb
  /\ depth' = {} /\ textureDirty' = {} /\ samplerDirty' = {}
  /\ samplerCache' = [s \in Slots |-> PlainSampler]
  /\ context' = [context EXCEPT !.view = NoTexture, !.sampler = [s \in Slots |-> PlainSampler]]
  /\ drawn' = None
  /\ UNCHANGED <<vertexShader, pixelShader, vertexDecl, instanced, code, elements, lod,
                 viewCache>>

\* Reset with ResetState.  Shaders and declaration stay, and so does instanced.
\* Samplers are bound at once, through an empty cache.
Reset ==
  /\ tracker' = InvalidateShaders
  /\ streamFreq' = [s \in Stream |-> PerVertex]
  /\ layoutDirty' = TRUE /\ layoutCache' = Unknown
  /\ texture' = NoTexture
  /\ filter' = [s \in Slots |-> DefaultFilter]
  /\ srgb' = NoSrgb
  /\ depth' = {} /\ textureDirty' = {} /\ samplerDirty' = {}
  /\ viewCache' = [s \in Slots |-> Unknown]
  /\ samplerCache' = [s \in Slots |-> PlainSampler]
  /\ context' = [context EXCEPT !.view = NoTexture, !.sampler = [s \in Slots |-> PlainSampler]]
  /\ drawn' = None
  /\ UNCHANGED <<vertexShader, pixelShader, vertexDecl, instanced, code, elements, lod>>

Next ==
  \/ \E vs \in VertexShaders \union {None} : SetVertexShader(vs)
  \/ \E ps \in PixelShaders \union {None} : SetPixelShader(ps)
  \/ \E decl \in Decls \union {None} : SetVertexDeclaration(decl)
  \/ \E s \in Stream : \E setting \in Settings[s] : SetStreamSourceFreq(s, setting)
  \/ \E s \in Slots, t \in Textures \union {None} : SetTexture(s, t)
  \/ \E s \in Slots, f \in Filters : SetSamplerState(s, f)
  \/ \E s \in Slots : SetSrgbTexture(s)
  \/ \E t \in Textures, l \in MostDetailed : SetLOD(t, l)
  \/ \E object \in VertexShaders \union PixelShaders, c \in Code : CreateShader(object, c)
  \/ \E decl \in Decls, els \in Elements : CreateVertexDeclaration(decl, els)
  \/ \E used \in SUBSET Slots : Draw(used) \/ ProcessVertices(used)
  \/ ResetShaders
  \/ Reset

Spec == Init /\ [][Next]_vars

-----------------------------------------------------------------------------
(* Properties.                                                              *)

Layouts == [elements : Elements, signature : Code \union {FixedFunction}, divisor : [Stream -> Nat]]

Formats == {Format[t] : t \in Textures}

BoundSamplers == [filter : Filters, cube : BOOLEAN, depth : BOOLEAN,
                  border : (Formats \X BOOLEAN) \union {None}]

Contexts ==
  [shader : [Stage -> Code \union {FixedFunction, None}], layout : Layouts \union {None},
   view : [Slots -> ViewOrNone], sampler : [Slots -> BoundSamplers]]

\* What the device's fields can hold (m_state, the dirty masks and the caches
\* of d3d9_device.h).
TypeOK ==
  /\ vertexShader \in VertexShaders \union {None}
  /\ pixelShader \in PixelShaders \union {None}
  /\ vertexDecl \in Decls \union {None}
  /\ streamFreq \in Frequencies
  /\ instanced \subseteq Stream
  /\ code \in [VertexShaders \union PixelShaders -> Code]
  /\ elements \in [Decls -> Elements]
  /\ tracker \in [Stage -> [bound : Code \union {FixedFunction, Unknown}, dirty : BOOLEAN]]
  /\ layoutDirty \in BOOLEAN
  /\ layoutCache \in LayoutKeys \union {Unknown}
  /\ texture \in [Slots -> Textures \union {None}]
  /\ filter \in [Slots -> Filters]
  /\ srgb \in [Slots -> BOOLEAN]
  /\ lod \in [Textures -> MostDetailed]
  /\ depth \subseteq Slots /\ textureDirty \subseteq Slots /\ samplerDirty \subseteq Slots
  /\ viewCache \in [Slots -> ViewOrNone \union {Unknown}]
  /\ samplerCache \in [Slots -> SamplerKeys \union {Unknown}]
  /\ context \in Contexts

\* What is not marked dirty is bound, and what a cache believes bound is:
\* for shaders (FlushGtaSaDeferredShaderBinding), the layout (BindInputLayout),
\* views (PrepareGtaSaTextureBinding) and samplers (PrepareGtaSaSamplerBinding).
ShadersCurrent ==
  \A st \in Stage :
    /\ ~tracker[st].dirty => context.shader[st] = Desired[st]
    /\ tracker[st].bound # Unknown => context.shader[st] = tracker[st].bound

LayoutCurrent ==
  /\ ~layoutDirty => context.layout = LayoutOf(LayoutKey)
  /\ layoutCache # Unknown => context.layout = LayoutOf(layoutCache)

ViewsCurrent ==
  \A s \in Slots :
    /\ s \notin textureDirty => context.view[s] = View(s)
    /\ viewCache[s] # Unknown => context.view[s] = viewCache[s]

SamplersCurrent ==
  \A s \in Slots :
    /\ s \notin samplerDirty => context.sampler[s] = SamplerOf(SamplerKey(s))
    /\ samplerCache[s] # Unknown => context.sampler[s] = SamplerOf(samplerCache[s])
    /\ texture[s] # None => (s \in depth <=> texture[s] \in Shadow)

BindingsCurrent == ShadersCurrent /\ LayoutCurrent /\ ViewsCurrent /\ SamplersCurrent

\* Deferring, coalescing and caching are invisible: every draw (PrepareDraw)
\* uses what the state asks for at that moment.
ImplementsContract == Contract!Spec

\* "If instancing is disabled ... any calls to GetInstanceCount will have
\* returned 1" (DrawIndexedPrimitive): the count of stream 0 is not used.
GetInstanceCount == IF instanced # {} THEN streamFreq[0].count ELSE 1

DisabledInstancingDrawsOnce ==
  (\A s \in Stream : ~streamFreq[s].instanceData) => GetInstanceCount = 1

=============================================================================
