----------------------- MODULE EffectBindings_proofs -----------------------
(***************************************************************************)
(* BindingInv is inductive: one lemma per action, and in each one step per *)
(* part.  That every call finds its own binding, and that bindings are in  *)
(* place between calls, follows.                                           *)
(***************************************************************************)
EXTENDS EffectBindings, TLAPS

USE BindingsAssumption

\* The call goes on, the others stay what they are.
LEMMA Goes ==
  ASSUME TypeOK, NEW t \in Thread, call[t] # None,
         NEW phase \in Phase, NEW b \in Effect \cup {None}, GoOn(t, phase, b)
  PROVE  /\ call' \in [Thread -> Call \cup {None}]
         /\ \A u \in Thread \ {t} : call'[u] = call[u]
         /\ call'[t] # None
         /\ call'[t].effect = call[t].effect /\ call'[t].address = call[t].address
         /\ call'[t].kind = call[t].kind
         /\ call'[t].phase = phase /\ call'[t].binding = b
<1> DEFINE c == call[t]
           d == [c EXCEPT !.phase = phase, !.binding = b]
<1>1. c \in Call
  BY DEF TypeOK
<1>2. /\ d \in Call
      /\ d.effect = c.effect /\ d.address = c.address /\ d.kind = c.kind
      /\ d.phase = phase /\ d.binding = b
  BY <1>1 DEF Call
<1>3. d # None
  BY <1>2, CallAssumption
<1>4. call' = [call EXCEPT ![t] = d]
  BY DEF GoOn
<1> HIDE DEF d
<1> QED  BY <1>2, <1>3, <1>4 DEF TypeOK

\* What is known of a call in progress.
LEMMA OfCall ==
  ASSUME TypeOK, NEW t \in Thread, call[t] # None
  PROVE  /\ call[t] \in Call
         /\ call[t].effect \in Effect /\ call[t].address \in Address
         /\ call[t].kind \in Kind /\ call[t].phase \in Phase
         /\ call[t].binding \in Effect \cup {None}
  BY DEF TypeOK, Call

\* A step of t leaves the other calls where they are, and its own too if the
\* phase it goes on to is as good.
LEMMA CallInStays ==
  ASSUME NEW t \in Thread, NEW f, NEW phases, CallIn(f, phases),
         \A u \in Thread \ {t} : call'[u] = call[u],
         \/ call[t].effect # f \/ call[t].phase \notin phases
         \/ call'[t] # None /\ call'[t].effect = f /\ call'[t].phase \in phases
  PROVE  CallIn(f, phases)'
BY DEF CallIn

LEMMA CallInOwn ==
  ASSUME OneAtATime, NEW t \in Thread, call[t] # None, NEW phases, CallIn(call[t].effect, phases)
  PROVE  call[t].phase \in phases
BY DEF OneAtATime, CallIn

LEMMA ReleasedAtStays ==
  ASSUME NEW t \in Thread, NEW f, NEW x, ReleasedAt(f, x),
         \A u \in Thread \ {t} : call'[u] = call[u],
         \/ call[t].effect # f \/ ~Releasing(t)
         \/ Releasing(t)' /\ call'[t].effect = f /\ call'[t].address = call[t].address
  PROVE  ReleasedAt(f, x)'
BY DEF ReleasedAt, Releasing

LEMMA ReleasedAtOwn ==
  ASSUME OneAtATime, NEW t \in Thread, call[t] # None, NEW x, ReleasedAt(call[t].effect, x)
  PROVE  Releasing(t) /\ x = call[t].address
BY DEF OneAtATime, ReleasedAt, Releasing

\* A step of a search changes no more than the call and the thread's caches.
LEMMA SearchKeeps ==
  ASSUME BindingInv, NEW t \in Thread, call[t] # None, call[t].phase \in {"find", "lookup"},
         NEW phase \in {"lookup", "create", "use", "destroy"},
         phase = "destroy" => call[t].kind = "release",
         phase = "create" => call[t].kind = "acquire" /\ ~hooked[call[t].effect],
         NEW b \in Effect \cup {None}, GoOn(t, phase, b),
         cache' \in [Thread -> SUBSET Effect], lastHit' \in [Thread -> Effect \cup {None}],
         UNCHANGED <<at, hooked, journal, boundTo, registry>>
  PROVE  BindingInv'
<1>1. TypeOK /\ phase \in Phase
  BY DEF BindingInv, Phase
<1>2. /\ call' \in [Thread -> Call \cup {None}]
      /\ \A u \in Thread \ {t} : call'[u] = call[u]
      /\ call'[t] # None /\ call'[t].effect = call[t].effect
      /\ call'[t].address = call[t].address /\ call'[t].kind = call[t].kind
      /\ call'[t].phase = phase /\ call'[t].binding = b
  BY <1>1, Goes
<1>3. TypeOK'
  BY <1>1, <1>2, OfCall
  DEF BindingInv, TypeOK
<1>4. OneAtATime'
  BY <1>1, <1>2, OfCall
  DEF BindingInv, TypeOK, OneAtATime, CallPlaced, Placed, Live, Releasing
<1>5. CallPlaced'
  BY <1>1, <1>2, OfCall
  DEF BindingInv, TypeOK, OneAtATime, CallPlaced, Placed, BoundPlaced, HookedThere, Live,
      Releasing
<1>6. BoundPlaced'
  <2> SUFFICES ASSUME NEW f \in Effect
               PROVE  (BoundThere(f) /\ AttachedThere(f) /\ HookedThere(f))'
    BY DEF BoundPlaced
  <2>1. BoundThere(f) /\ AttachedThere(f) /\ HookedThere(f)
    BY DEF BindingInv, BoundPlaced
  <2>2. BoundThere(f)'
    BY <1>1, <1>2, OfCall, <2>1, CallInStays, CallInOwn, ReleasedAtStays, ReleasedAtOwn
    DEF BindingInv, BoundThere, TypeOK, CallPlaced, Placed, Live, Releasing
  <2>3. AttachedThere(f)'
    BY <1>1, <1>2, OfCall, <2>1, CallInStays, CallInOwn, ReleasedAtStays, ReleasedAtOwn
    DEF BindingInv, AttachedThere, TypeOK, CallPlaced, Placed, Live, Releasing
  <2>4. HookedThere(f)'
    BY <1>1, <1>2, OfCall, <2>1, CallInStays, CallInOwn, ReleasedAtStays, ReleasedAtOwn
    DEF BindingInv, HookedThere, TypeOK, CallPlaced, Placed, OneAtATime, Live, Releasing
  <2> QED  BY <2>2, <2>3, <2>4
<1>7. RegistryPlaced'
  <2> SUFFICES ASSUME NEW r \in Address
               PROVE  RegisteredThere(r)'
    BY DEF RegistryPlaced
  <2>1. RegisteredThere(r)
    BY DEF BindingInv, RegistryPlaced
  <2> QED
    BY <1>1, <1>2, OfCall, <2>1, CallInStays, CallInOwn, ReleasedAtStays, ReleasedAtOwn
    DEF BindingInv, RegisteredThere, TypeOK, CallPlaced, Placed, BoundPlaced, BoundThere,
        Live, Releasing
<1> QED  BY <1>3, <1>4, <1>5, <1>6, <1>7 DEF BindingInv

LEMMA FindLocalKeeps ==
  ASSUME BindingInv, NEW t \in Thread, FindLocal(t)
  PROVE  BindingInv'
<1> DEFINE match == LocalMatch(t, call[t].address)
<1>1. TypeOK /\ call[t] # None /\ call[t] \in Call /\ call[t].phase = "find"
  BY DEF FindLocal, In, BindingInv, TypeOK
<1>2. CASE match = {} /\ GoOn(t, "lookup", None) /\ UNCHANGED lastHit
  BY <1>1, <1>2, SearchKeeps DEF FindLocal, TypeOK
<1>3. ASSUME NEW b \in match, lastHit' = [lastHit EXCEPT ![t] = b], GoOn(t, AfterFind(t), b)
      PROVE  BindingInv'
  <2>1. b \in Effect
    BY <1>1, <1>3 DEF LocalMatch, TypeOK
  <2>2. lastHit' \in [Thread -> Effect \cup {None}]
    BY <1>1, <1>3, <2>1 DEF TypeOK
  <2>3. AfterFind(t) \in {"use", "destroy"} /\ (AfterFind(t) = "destroy" => call[t].kind = "release")
    BY DEF AfterFind
  <2> HIDE DEF match
  <2> QED
    BY <1>1, <1>3, <2>1, <2>2, <2>3, SearchKeeps DEF FindLocal, TypeOK
<1> HIDE DEF match
<1>4. \/ match = {} /\ GoOn(t, "lookup", None) /\ UNCHANGED lastHit
      \/ \E b \in match : lastHit' = [lastHit EXCEPT ![t] = b] /\ GoOn(t, AfterFind(t), b)
  BY DEF FindLocal, match
<1> QED  BY <1>2, <1>3, <1>4

LEMMA FindSharedKeeps ==
  ASSUME BindingInv, NEW t \in Thread, FindShared(t)
  PROVE  BindingInv'
<1>1. TypeOK /\ call[t] # None /\ call[t] \in Call /\ call[t].phase = "lookup"
  BY DEF FindShared, In, BindingInv, TypeOK
<1> DEFINE b == registry[call[t].address]
<1>2. b \in Effect \cup {None}
  BY <1>1 DEF TypeOK, Call
<1>3. AfterFind(t) \in {"use", "destroy"} /\ (AfterFind(t) = "destroy" => call[t].kind = "release")
  BY DEF AfterFind
<1>4. CASE b # None /\ Remember(t, b) /\ GoOn(t, AfterFind(t), b)
  <2>1. cache' \in [Thread -> SUBSET Effect] /\ lastHit' \in [Thread -> Effect \cup {None}]
    BY <1>1, <1>2, <1>4 DEF Remember, TypeOK
  <2> HIDE DEF b
  <2> QED
    BY <1>1, <1>2, <1>3, <1>4, <2>1, SearchKeeps DEF FindShared
<1>5. CASE b = None /\ GoOn(t, AfterMiss(t), None) /\ UNCHANGED <<cache, lastHit>>
  <2>1. ~hooked[call[t].effect]
    BY <1>1, <1>5, OfCall
    DEF BindingInv, CallPlaced, Placed, BoundPlaced, HookedThere, Live, Releasing
  <2>2. AfterMiss(t) \in {"create", "use", "destroy"} /\
        (AfterMiss(t) = "destroy" => call[t].kind = "release") /\
        (AfterMiss(t) = "create" => call[t].kind = "acquire")
    BY DEF AfterMiss, AfterFind
  <2> HIDE DEF b
  <2> QED
    BY <1>1, <1>5, <2>1, <2>2, SearchKeeps DEF FindShared, TypeOK
<1> QED  BY <1>4, <1>5 DEF FindShared

LEMMA CreateEffectKeeps ==
  ASSUME BindingInv, NEW t \in Thread, NEW e \in Effect, NEW a \in Address, CreateEffect(t, e, a)
  PROVE  BindingInv'
<1>1. TypeOK /\ call[t] = None
  BY DEF BindingInv, CreateEffect
<1>2. Start(e, a, "acquire") \in Call
  BY DEF Start, Call, Kind, Phase
<1>3. \/ call' = call
      \/ call' = [call EXCEPT ![t] = Start(e, a, "acquire")]
  BY DEF CreateEffect
<1>4. \A u \in Thread \ {t} : call'[u] = call[u]
  BY <1>1, <1>3 DEF TypeOK
<1>5. \A f \in Effect : \A phases : CallIn(f, phases) => CallIn(f, phases)'
  BY <1>1, <1>4 DEF CallIn
<1>6. \A f \in Effect : \A x : ReleasedAt(f, x) => ReleasedAt(f, x)'
  BY <1>1, <1>4 DEF ReleasedAt, Releasing
<1>7. ~InCall(e)
  <2> SUFFICES ASSUME NEW u \in Thread, call[u] # None, call[u].effect = e
               PROVE  FALSE
    BY DEF InCall
  <2>1. call[u].address \in Address
    BY <1>1, OfCall
  <2>2. at[e] = call[u].address \/ at[e] = Gone
    BY DEF BindingInv, CallPlaced, Placed
  <2> QED  BY <2>1, <2>2 DEF CreateEffect
<1>8. TypeOK'
  BY <1>1, <1>2, <1>3, <1>4, <1>5, <1>6, CallAssumption
  DEF BindingInv, TypeOK, CreateEffect, Start
<1>9. OneAtATime'
  BY <1>1, <1>2, <1>3, <1>4, <1>5, <1>6, <1>7, CallAssumption
  DEF BindingInv, TypeOK, OneAtATime, InCall, Live, CreateEffect, Start
<1>10. CallPlaced'
  <2>1. \A u \in Thread : call[u] # None => call[u].effect # e
    BY <1>7 DEF InCall
  <2>2. ASSUME NEW u \in Thread, call'[u] # None, call'[u] = call[u]
        PROVE  Placed(u)'
    BY <1>1, <2>1, <2>2, OfCall
    DEF BindingInv, TypeOK, CallPlaced, Placed, Releasing, CreateEffect
  <2>3. ASSUME call' = [call EXCEPT ![t] = Start(e, a, "acquire")]
        PROVE  Placed(t)'
    BY <1>1, <2>3 DEF TypeOK, Placed, Releasing, CreateEffect, Start
  <2> QED  BY <1>1, <1>3, <1>4, <2>2, <2>3 DEF CallPlaced, Placed
<1>11. BoundPlaced'
  <2> SUFFICES ASSUME NEW f \in Effect
               PROVE  (BoundThere(f) /\ AttachedThere(f) /\ HookedThere(f))'
    BY DEF BoundPlaced
  <2>1. BoundThere(f) /\ AttachedThere(f) /\ HookedThere(f)
    BY DEF BindingInv, BoundPlaced
  <2>2. BoundThere(f)'
    BY <1>1, <1>2, <1>3, <1>4, <1>5, <1>6, CallAssumption, <2>1, OfCall
    DEF BindingInv, BoundThere, TypeOK, CallPlaced, Placed, Live, Releasing, CreateEffect,
        Start
  <2>3. AttachedThere(f)'
    BY <1>1, <1>2, <1>3, <1>4, <1>5, <1>6, CallAssumption, <2>1, OfCall
    DEF BindingInv, AttachedThere, TypeOK, CallPlaced, Placed, Live, Releasing,
        CreateEffect, Start
  <2>4. HookedThere(f)'
    BY <1>1, <1>2, <1>3, <1>4, <1>5, <1>6, CallAssumption, <2>1, OfCall
    DEF BindingInv, HookedThere, TypeOK, CallPlaced, Placed, OneAtATime, Live, Releasing,
        CreateEffect, Start
  <2> QED  BY <2>2, <2>3, <2>4
<1>12. RegistryPlaced'
  <2> SUFFICES ASSUME NEW r \in Address
               PROVE  RegisteredThere(r)'
    BY DEF RegistryPlaced
  <2>1. RegisteredThere(r)
    BY DEF BindingInv, RegistryPlaced
  <2> QED
    BY <1>1, <1>2, <1>3, <1>4, <1>5, <1>6, CallAssumption, <2>1, OfCall
    DEF BindingInv, RegisteredThere, TypeOK, CallPlaced, Placed, BoundPlaced, BoundThere,
        Live, Releasing, CreateEffect, Start
<1> QED  BY <1>8, <1>9, <1>10, <1>11, <1>12 DEF BindingInv

LEMMA BeginCallKeeps ==
  ASSUME BindingInv, NEW t \in Thread, NEW e \in Effect, NEW kind \in Kind, BeginCall(t, e, kind)
  PROVE  BindingInv'
<1>1. TypeOK /\ call[t] = None
  BY DEF BindingInv, BeginCall
<1>2. Start(e, at[e], kind) \in Call
  BY DEF BeginCall, Live, Start, Call, Phase
<1>3. call' = [call EXCEPT ![t] = Start(e, at[e], kind)]
  BY DEF BeginCall
<1>4. \A u \in Thread \ {t} : call'[u] = call[u]
  BY <1>1, <1>3 DEF TypeOK
<1>5. \A f \in Effect : \A phases : CallIn(f, phases) => CallIn(f, phases)'
  BY <1>1, <1>4 DEF CallIn
<1>6. \A f \in Effect : \A x : ReleasedAt(f, x) => ReleasedAt(f, x)'
  BY <1>1, <1>4 DEF ReleasedAt, Releasing
<1>7. TypeOK'
  BY <1>1, <1>2, <1>3, <1>4, <1>5, <1>6, CallAssumption
  DEF BindingInv, TypeOK, InCall, BeginCall, Start
<1>8. OneAtATime'
  BY <1>1, <1>2, <1>3, <1>4, <1>5, <1>6, CallAssumption
  DEF BindingInv, TypeOK, OneAtATime, CallPlaced, Placed, Live, Releasing, InCall,
      BeginCall, Start
<1>9. CallPlaced'
  BY <1>1, <1>2, <1>3, <1>4, <1>5, <1>6, CallAssumption
  DEF BindingInv, TypeOK, OneAtATime, CallPlaced, Placed, BoundPlaced, HookedThere, Live,
      Releasing, InCall, BeginCall, Start
<1>10. BoundPlaced'
  <2> SUFFICES ASSUME NEW f \in Effect
               PROVE  (BoundThere(f) /\ AttachedThere(f) /\ HookedThere(f))'
    BY DEF BoundPlaced
  <2>1. BoundThere(f) /\ AttachedThere(f) /\ HookedThere(f)
    BY DEF BindingInv, BoundPlaced
  <2>2. BoundThere(f)'
    BY <1>1, <1>2, <1>3, <1>4, <1>5, <1>6, CallAssumption, <2>1, OfCall
    DEF BindingInv, BoundThere, TypeOK, CallPlaced, Placed, Live, Releasing, InCall,
        BeginCall, Start
  <2>3. AttachedThere(f)'
    BY <1>1, <1>2, <1>3, <1>4, <1>5, <1>6, CallAssumption, <2>1, OfCall
    DEF BindingInv, AttachedThere, TypeOK, CallPlaced, Placed, Live, Releasing, InCall,
        BeginCall, Start
  <2>4. HookedThere(f)'
    BY <1>1, <1>2, <1>3, <1>4, <1>5, <1>6, CallAssumption, <2>1, OfCall
    DEF BindingInv, HookedThere, TypeOK, CallPlaced, Placed, OneAtATime, Live, Releasing,
        InCall, BeginCall, Start
  <2> QED  BY <2>2, <2>3, <2>4
<1>11. RegistryPlaced'
  <2> SUFFICES ASSUME NEW r \in Address
               PROVE  RegisteredThere(r)'
    BY DEF RegistryPlaced
  <2>1. RegisteredThere(r)
    BY DEF BindingInv, RegistryPlaced
  <2> QED
    BY <1>1, <1>2, <1>3, <1>4, <1>5, <1>6, CallAssumption, <2>1, OfCall
    DEF BindingInv, RegisteredThere, TypeOK, CallPlaced, Placed, BoundPlaced, BoundThere,
        Live, Releasing, InCall, BeginCall, Start
<1> QED  BY <1>7, <1>8, <1>9, <1>10, <1>11 DEF BindingInv

LEMMA ReleaseUnhookedKeeps ==
  ASSUME BindingInv, NEW e \in Effect, ReleaseUnhooked(e)
  PROVE  BindingInv'
<1>1. TypeOK /\ call' = call
  BY DEF BindingInv, ReleaseUnhooked
<1>2. \A phases : ~CallIn(e, phases)
  BY DEF ReleaseUnhooked, InCall, CallIn
<1>3. \A f \in Effect : \A phases : CallIn(f, phases)' <=> CallIn(f, phases)
  BY <1>1 DEF CallIn
<1>4. \A f \in Effect : \A x : ReleasedAt(f, x)' <=> ReleasedAt(f, x)
  BY <1>1 DEF ReleasedAt, Releasing
<1>5. TypeOK'
  BY <1>1, <1>2, <1>3, <1>4
  DEF BindingInv, TypeOK, InCall, ReleaseUnhooked
<1>6. OneAtATime'
  BY <1>1, <1>2, <1>3, <1>4
  DEF BindingInv, TypeOK, OneAtATime, CallPlaced, Placed, Live, Releasing, InCall,
      ReleaseUnhooked
<1>7. CallPlaced'
  BY <1>1, <1>2, <1>3, <1>4
  DEF BindingInv, TypeOK, OneAtATime, CallPlaced, Placed, BoundPlaced, HookedThere, Live,
      Releasing, InCall, ReleaseUnhooked
<1>8. BoundPlaced'
  <2> SUFFICES ASSUME NEW f \in Effect
               PROVE  (BoundThere(f) /\ AttachedThere(f) /\ HookedThere(f))'
    BY DEF BoundPlaced
  <2>1. BoundThere(f) /\ AttachedThere(f) /\ HookedThere(f)
    BY DEF BindingInv, BoundPlaced
  <2>2. BoundThere(f)'
    BY <1>1, <1>2, <1>3, <1>4, <2>1, OfCall
    DEF BindingInv, BoundThere, TypeOK, CallPlaced, Placed, Live, Releasing, InCall,
        ReleaseUnhooked
  <2>3. AttachedThere(f)'
    BY <1>1, <1>2, <1>3, <1>4, <2>1, OfCall
    DEF BindingInv, AttachedThere, TypeOK, CallPlaced, Placed, Live, Releasing, InCall,
        ReleaseUnhooked
  <2>4. HookedThere(f)'
    BY <1>1, <1>2, <1>3, <1>4, <2>1, OfCall
    DEF BindingInv, HookedThere, TypeOK, CallPlaced, Placed, OneAtATime, Live, Releasing,
        InCall, ReleaseUnhooked
  <2> QED  BY <2>2, <2>3, <2>4
<1>9. RegistryPlaced'
  <2> SUFFICES ASSUME NEW r \in Address
               PROVE  RegisteredThere(r)'
    BY DEF RegistryPlaced
  <2>1. RegisteredThere(r)
    BY DEF BindingInv, RegistryPlaced
  <2> QED
    BY <1>1, <1>2, <1>3, <1>4, <2>1, OfCall
    DEF BindingInv, RegisteredThere, TypeOK, CallPlaced, Placed, BoundPlaced, BoundThere,
        Live, Releasing, InCall, ReleaseUnhooked
<1> QED  BY <1>5, <1>6, <1>7, <1>8, <1>9 DEF BindingInv

LEMMA CreateBindingKeeps ==
  ASSUME BindingInv, NEW t \in Thread, CreateBinding(t)
  PROVE  BindingInv'
<1>1. /\ TypeOK /\ call[t] # None /\ call[t].phase = "create"
      /\ "emplace" \in Phase
  BY DEF BindingInv, CreateBinding, In, Phase
<1>2. call[t].effect \in Effect \cup {None} /\ GoOn(t, "emplace", call[t].effect)
  BY <1>1, OfCall DEF CreateBinding, TypeOK
<1>3. /\ call' \in [Thread -> Call \cup {None}]
      /\ \A u \in Thread \ {t} : call'[u] = call[u]
      /\ call'[t] # None /\ call'[t].effect = call[t].effect
      /\ call'[t].address = call[t].address /\ call'[t].kind = call[t].kind
      /\ call'[t].phase = "emplace" /\ call'[t].binding = call[t].effect
  BY <1>1, <1>2, Goes
<1>4. \A phases : "emplace" \in phases => CallIn(call[t].effect, phases)'
  BY <1>3 DEF CallIn
<1>5. TypeOK'
  BY <1>1, <1>2, <1>3, <1>4, OfCall
  DEF BindingInv, TypeOK, CreateBinding
<1>6. OneAtATime'
  BY <1>1, <1>2, <1>3, <1>4, OfCall
  DEF BindingInv, TypeOK, OneAtATime, CallPlaced, Placed, Live, Releasing, CreateBinding
<1>7. CallPlaced'
  BY <1>1, <1>2, <1>3, <1>4, OfCall
  DEF BindingInv, TypeOK, OneAtATime, CallPlaced, Placed, BoundPlaced, HookedThere, Live,
      Releasing, CreateBinding
<1>8. BoundPlaced'
  <2> SUFFICES ASSUME NEW f \in Effect
               PROVE  (BoundThere(f) /\ AttachedThere(f) /\ HookedThere(f))'
    BY DEF BoundPlaced
  <2>1. BoundThere(f) /\ AttachedThere(f) /\ HookedThere(f)
    BY DEF BindingInv, BoundPlaced
  <2>2. BoundThere(f)'
    BY <1>1, <1>2, <1>3, <1>4, OfCall, <2>1, CallInStays, CallInOwn, ReleasedAtStays, ReleasedAtOwn
    DEF BindingInv, BoundThere, TypeOK, CallPlaced, Placed, Live, Releasing, CreateBinding
  <2>3. AttachedThere(f)'
    BY <1>1, <1>2, <1>3, <1>4, OfCall, <2>1, CallInStays, CallInOwn, ReleasedAtStays, ReleasedAtOwn
    DEF BindingInv, AttachedThere, TypeOK, CallPlaced, Placed, Live, Releasing,
        CreateBinding
  <2>4. HookedThere(f)'
    BY <1>1, <1>2, <1>3, <1>4, OfCall, <2>1, CallInStays, CallInOwn, ReleasedAtStays, ReleasedAtOwn
    DEF BindingInv, HookedThere, TypeOK, CallPlaced, Placed, OneAtATime, Live, Releasing,
        CreateBinding
  <2> QED  BY <2>2, <2>3, <2>4
<1>9. RegistryPlaced'
  <2> SUFFICES ASSUME NEW r \in Address
               PROVE  RegisteredThere(r)'
    BY DEF RegistryPlaced
  <2>1. RegisteredThere(r)
    BY DEF BindingInv, RegistryPlaced
  <2> QED
    BY <1>1, <1>2, <1>3, <1>4, OfCall, <2>1, CallInStays, CallInOwn, ReleasedAtStays, ReleasedAtOwn
    DEF BindingInv, RegisteredThere, TypeOK, CallPlaced, Placed, BoundPlaced, BoundThere,
        Live, Releasing, CreateBinding
<1> QED  BY <1>5, <1>6, <1>7, <1>8, <1>9 DEF BindingInv

LEMMA DestroyKeeps ==
  ASSUME BindingInv, NEW t \in Thread, Destroy(t)
  PROVE  BindingInv'
<1>1. /\ TypeOK /\ call[t] # None /\ call[t].phase = "destroy"
      /\ "erase" \in Phase
  BY DEF BindingInv, Destroy, In, Phase
<1>2. None \in Effect \cup {None} /\ GoOn(t, "erase", None)
  BY <1>1, OfCall DEF Destroy, TypeOK
<1>3. /\ call' \in [Thread -> Call \cup {None}]
      /\ \A u \in Thread \ {t} : call'[u] = call[u]
      /\ call'[t] # None /\ call'[t].effect = call[t].effect
      /\ call'[t].address = call[t].address /\ call'[t].kind = call[t].kind
      /\ call'[t].phase = "erase" /\ call'[t].binding = None
  BY <1>1, <1>2, Goes
<1>4. \A phases : "erase" \in phases => CallIn(call[t].effect, phases)'
  BY <1>3 DEF CallIn
<1>5. TypeOK'
  BY <1>1, <1>2, <1>3, <1>4, OfCall
  DEF BindingInv, TypeOK, Destroy
<1>6. OneAtATime'
  BY <1>1, <1>2, <1>3, <1>4, OfCall
  DEF BindingInv, TypeOK, OneAtATime, CallPlaced, Placed, Live, Releasing, Destroy
<1>7. CallPlaced'
  BY <1>1, <1>2, <1>3, <1>4, OfCall
  DEF BindingInv, TypeOK, OneAtATime, CallPlaced, Placed, BoundPlaced, HookedThere, Live,
      Releasing, Destroy
<1>8. BoundPlaced'
  <2> SUFFICES ASSUME NEW f \in Effect
               PROVE  (BoundThere(f) /\ AttachedThere(f) /\ HookedThere(f))'
    BY DEF BoundPlaced
  <2>1. BoundThere(f) /\ AttachedThere(f) /\ HookedThere(f)
    BY DEF BindingInv, BoundPlaced
  <2>2. BoundThere(f)'
    <3>1. CASE f = call[t].effect
      <4>1. ~Releasing(t) /\ at[f] = call[t].address
        BY <1>1, <3>1 DEF BindingInv, CallPlaced, Placed, Releasing
      <4>2. ~ReleasedAt(f, boundTo[f])
        BY <1>1, <3>1, <4>1 DEF BindingInv, OneAtATime, ReleasedAt, Releasing
      <4>3. boundTo'[f] # None => boundTo'[f] = call'[t].address
        BY <1>3, <2>1, <4>1, <4>2 DEF BoundThere, Destroy
      <4> QED  BY <1>3, <3>1, <4>3 DEF BoundThere, ReleasedAt, Releasing
    <3>2. CASE f # call[t].effect
      BY <1>1, <1>3, <2>1, <3>2, CallInStays, ReleasedAtStays DEF TypeOK, BoundThere, Destroy
    <3> QED  BY <3>1, <3>2
  <2>3. AttachedThere(f)'
    BY <1>1, <1>2, <1>3, <1>4, OfCall, <2>1, CallInStays, CallInOwn, ReleasedAtStays, ReleasedAtOwn
    DEF BindingInv, AttachedThere, TypeOK, CallPlaced, Placed, Live, Releasing, Destroy
  <2>4. HookedThere(f)'
    BY <1>1, <1>2, <1>3, <1>4, OfCall, <2>1, CallInStays, CallInOwn, ReleasedAtStays, ReleasedAtOwn
    DEF BindingInv, HookedThere, TypeOK, CallPlaced, Placed, OneAtATime, Live, Releasing,
        Destroy
  <2> QED  BY <2>2, <2>3, <2>4
<1>9. RegistryPlaced'
  <2> SUFFICES ASSUME NEW r \in Address
               PROVE  RegisteredThere(r)'
    BY DEF RegistryPlaced
  <2>1. RegisteredThere(r)
    BY DEF BindingInv, RegistryPlaced
  <2> QED
    BY <1>1, <1>2, <1>3, <1>4, OfCall, <2>1, CallInStays, CallInOwn, ReleasedAtStays, ReleasedAtOwn
    DEF BindingInv, RegisteredThere, TypeOK, CallPlaced, Placed, BoundPlaced, BoundThere,
        Live, Releasing, Destroy
<1> QED  BY <1>5, <1>6, <1>7, <1>8, <1>9 DEF BindingInv

LEMMA EraseBindingKeeps ==
  ASSUME BindingInv, NEW t \in Thread, EraseBinding(t)
  PROVE  BindingInv'
<1>1. /\ TypeOK /\ call[t] # None /\ call[t].phase = "erase"
      /\ "drop" \in Phase
  BY DEF BindingInv, EraseBinding, In, Phase
<1>2. registry[call[t].address] \in Effect \cup {None} /\ GoOn(t, "drop", registry[call[t].address])
  BY <1>1, OfCall DEF EraseBinding, TypeOK
<1>3. /\ call' \in [Thread -> Call \cup {None}]
      /\ \A u \in Thread \ {t} : call'[u] = call[u]
      /\ call'[t] # None /\ call'[t].effect = call[t].effect
      /\ call'[t].address = call[t].address /\ call'[t].kind = call[t].kind
      /\ call'[t].phase = "drop" /\ call'[t].binding = registry[call[t].address]
  BY <1>1, <1>2, Goes
<1>4. \A phases : "drop" \in phases => CallIn(call[t].effect, phases)'
  BY <1>3 DEF CallIn
<1>5. TypeOK'
  BY <1>1, <1>2, <1>3, <1>4, OfCall
  DEF BindingInv, TypeOK, EraseBinding
<1>6. OneAtATime'
  BY <1>1, <1>2, <1>3, <1>4, OfCall
  DEF BindingInv, TypeOK, OneAtATime, CallPlaced, Placed, Live, Releasing, EraseBinding
<1>7. CallPlaced'
  BY <1>1, <1>2, <1>3, <1>4, OfCall
  DEF BindingInv, TypeOK, OneAtATime, CallPlaced, Placed, BoundPlaced, HookedThere, Live,
      Releasing, EraseBinding
<1>8. BoundPlaced'
  <2> SUFFICES ASSUME NEW f \in Effect
               PROVE  (BoundThere(f) /\ AttachedThere(f) /\ HookedThere(f))'
    BY DEF BoundPlaced
  <2>1. BoundThere(f) /\ AttachedThere(f) /\ HookedThere(f)
    BY DEF BindingInv, BoundPlaced
  <2>2. BoundThere(f)'
    BY <1>1, <1>2, <1>3, <1>4, OfCall, <2>1, CallInStays, CallInOwn, ReleasedAtStays, ReleasedAtOwn
    DEF BindingInv, BoundThere, TypeOK, CallPlaced, Placed, Live, Releasing, EraseBinding
  <2>3. AttachedThere(f)'
    BY <1>1, <1>2, <1>3, <1>4, OfCall, <2>1, CallInStays, CallInOwn, ReleasedAtStays, ReleasedAtOwn
    DEF BindingInv, AttachedThere, TypeOK, CallPlaced, Placed, Live, Releasing, EraseBinding
  <2>4. HookedThere(f)'
    BY <1>1, <1>2, <1>3, <1>4, OfCall, <2>1, CallInStays, CallInOwn, ReleasedAtStays, ReleasedAtOwn
    DEF BindingInv, HookedThere, TypeOK, CallPlaced, Placed, OneAtATime, Live, Releasing,
        EraseBinding
  <2> QED  BY <2>2, <2>3, <2>4
<1>9. RegistryPlaced'
  <2> SUFFICES ASSUME NEW r \in Address
               PROVE  RegisteredThere(r)'
    BY DEF RegistryPlaced
  <2>1. RegisteredThere(r)
    BY DEF BindingInv, RegistryPlaced
  <2>2. CASE r = call[t].address
    BY <1>1, <2>2 DEF TypeOK, RegisteredThere, EraseBinding
  <2>3. CASE r # call[t].address /\ registry[r] # None
    <3>1. registry'[r] = registry[r] /\ registry[r] \in Effect
      BY <1>1, <1>2, <2>3 DEF TypeOK, EraseBinding
    <3>2. registry[call[t].address] = call[t].effect /\ RegisteredThere(call[t].address)
      BY <1>1, OfCall DEF BindingInv, CallPlaced, Placed, RegistryPlaced
    <3>3. registry[r] # call[t].effect
      BY <1>1, <2>1, <2>3, <3>2 DEF TypeOK, RegisteredThere
    <3> QED
      BY <1>3, <2>1, <2>3, <3>1, <3>3, CallInStays DEF RegisteredThere, EraseBinding
  <2>4. CASE r # call[t].address /\ registry[r] = None
    BY <1>1, <2>4 DEF TypeOK, RegisteredThere, EraseBinding
  <2> QED  BY <2>2, <2>3, <2>4
<1> QED  BY <1>5, <1>6, <1>7, <1>8, <1>9 DEF BindingInv

LEMMA DropJournalKeeps ==
  ASSUME BindingInv, NEW t \in Thread, DropJournal(t)
  PROVE  BindingInv'
<1>1. /\ TypeOK /\ call[t] # None /\ call[t].phase = "drop"
      /\ "tombstone" \in Phase
  BY DEF BindingInv, DropJournal, In, Phase
<1>2. call[t].binding \in Effect \cup {None} /\ GoOn(t, "tombstone", call[t].binding)
  BY <1>1, OfCall DEF DropJournal, TypeOK
<1>3. /\ call' \in [Thread -> Call \cup {None}]
      /\ \A u \in Thread \ {t} : call'[u] = call[u]
      /\ call'[t] # None /\ call'[t].effect = call[t].effect
      /\ call'[t].address = call[t].address /\ call'[t].kind = call[t].kind
      /\ call'[t].phase = "tombstone" /\ call'[t].binding = call[t].binding
  BY <1>1, <1>2, Goes
<1>4. \A phases : "tombstone" \in phases => CallIn(call[t].effect, phases)'
  BY <1>3 DEF CallIn
<1>5. TypeOK'
  BY <1>1, <1>2, <1>3, <1>4, OfCall
  DEF BindingInv, TypeOK, DropJournal
<1>6. OneAtATime'
  BY <1>1, <1>2, <1>3, <1>4, OfCall
  DEF BindingInv, TypeOK, OneAtATime, CallPlaced, Placed, Live, Releasing, DropJournal
<1>7. CallPlaced'
  BY <1>1, <1>2, <1>3, <1>4, OfCall
  DEF BindingInv, TypeOK, OneAtATime, CallPlaced, Placed, BoundPlaced, HookedThere, Live,
      Releasing, DropJournal
<1>8. BoundPlaced'
  <2> SUFFICES ASSUME NEW f \in Effect
               PROVE  (BoundThere(f) /\ AttachedThere(f) /\ HookedThere(f))'
    BY DEF BoundPlaced
  <2>1. BoundThere(f) /\ AttachedThere(f) /\ HookedThere(f)
    BY DEF BindingInv, BoundPlaced
  <2>2. BoundThere(f)'
    BY <1>1, <1>2, <1>3, <1>4, OfCall, <2>1, CallInStays, CallInOwn, ReleasedAtStays, ReleasedAtOwn
    DEF BindingInv, BoundThere, TypeOK, CallPlaced, Placed, Live, Releasing, DropJournal
  <2>3. AttachedThere(f)'
    BY <1>1, <1>2, <1>3, <1>4, OfCall, <2>1, CallInStays, CallInOwn, ReleasedAtStays, ReleasedAtOwn
    DEF BindingInv, AttachedThere, TypeOK, CallPlaced, Placed, Live, Releasing, DropJournal
  <2>4. HookedThere(f)'
    BY <1>1, <1>2, <1>3, <1>4, OfCall, <2>1, CallInStays, CallInOwn, ReleasedAtStays, ReleasedAtOwn
    DEF BindingInv, HookedThere, TypeOK, CallPlaced, Placed, OneAtATime, Live, Releasing,
        DropJournal
  <2> QED  BY <2>2, <2>3, <2>4
<1>9. RegistryPlaced'
  <2> SUFFICES ASSUME NEW r \in Address
               PROVE  RegisteredThere(r)'
    BY DEF RegistryPlaced
  <2>1. RegisteredThere(r)
    BY DEF BindingInv, RegistryPlaced
  <2> QED
    BY <1>1, <1>2, <1>3, <1>4, OfCall, <2>1, CallInStays, CallInOwn, ReleasedAtStays, ReleasedAtOwn
    DEF BindingInv, RegisteredThere, TypeOK, CallPlaced, Placed, BoundPlaced, BoundThere,
        Live, Releasing, DropJournal
<1> QED  BY <1>5, <1>6, <1>7, <1>8, <1>9 DEF BindingInv

\* A call that is not in the middle of anything may leave.
LEMMA LeaveKeeps ==
  ASSUME BindingInv, NEW t \in Thread, call[t] # None, call[t].phase \in {"use", "create"},
         Return(t), UNCHANGED <<at, hooked, journal, boundTo, registry, cache, lastHit>>
  PROVE  BindingInv'
<1>1. /\ TypeOK /\ call[t] # None /\ call[t].phase \in {"use", "create"}
      /\ call' = [call EXCEPT ![t] = None]
  BY DEF BindingInv, Return
<1>2. call'[t] = None /\ \A u \in Thread \ {t} : call'[u] = call[u]
  BY <1>1 DEF TypeOK
<1>3. TypeOK'
  BY <1>1, <1>2, OfCall
  DEF BindingInv, TypeOK
<1>4. OneAtATime'
  BY <1>1, <1>2, OfCall
  DEF BindingInv, TypeOK, OneAtATime, CallPlaced, Placed, Live, Releasing
<1>5. CallPlaced'
  BY <1>1, <1>2, OfCall
  DEF BindingInv, TypeOK, OneAtATime, CallPlaced, Placed, BoundPlaced, HookedThere, Live,
      Releasing
<1>6. BoundPlaced'
  <2> SUFFICES ASSUME NEW f \in Effect
               PROVE  (BoundThere(f) /\ AttachedThere(f) /\ HookedThere(f))'
    BY DEF BoundPlaced
  <2>1. BoundThere(f) /\ AttachedThere(f) /\ HookedThere(f)
    BY DEF BindingInv, BoundPlaced
  <2>2. BoundThere(f)'
    BY <1>1, <1>2, OfCall, <2>1, CallInStays, CallInOwn, ReleasedAtStays, ReleasedAtOwn
    DEF BindingInv, BoundThere, TypeOK, CallPlaced, Placed, Live, Releasing
  <2>3. AttachedThere(f)'
    BY <1>1, <1>2, OfCall, <2>1, CallInStays, CallInOwn, ReleasedAtStays, ReleasedAtOwn
    DEF BindingInv, AttachedThere, TypeOK, CallPlaced, Placed, Live, Releasing
  <2>4. HookedThere(f)'
    BY <1>1, <1>2, OfCall, <2>1, CallInStays, CallInOwn, ReleasedAtStays, ReleasedAtOwn
    DEF BindingInv, HookedThere, TypeOK, CallPlaced, Placed, OneAtATime, Live, Releasing,
        EndUse
  <2> QED  BY <2>2, <2>3, <2>4
<1>7. RegistryPlaced'
  <2> SUFFICES ASSUME NEW r \in Address
               PROVE  RegisteredThere(r)'
    BY DEF RegistryPlaced
  <2>1. RegisteredThere(r)
    BY DEF BindingInv, RegistryPlaced
  <2> QED
    BY <1>1, <1>2, OfCall, <2>1, CallInStays, CallInOwn, ReleasedAtStays, ReleasedAtOwn
    DEF BindingInv, RegisteredThere, TypeOK, CallPlaced, Placed, BoundPlaced, BoundThere,
        Live, Releasing
<1> QED  BY <1>3, <1>4, <1>5, <1>6, <1>7 DEF BindingInv

LEMMA EndUseKeeps ==
  ASSUME BindingInv, NEW t \in Thread, EndUse(t)
  PROVE  BindingInv'
BY LeaveKeeps DEF EndUse, In

LEMMA NoBindingKeeps ==
  ASSUME BindingInv, NEW t \in Thread, NoBinding(t)
  PROVE  BindingInv'
BY LeaveKeeps DEF NoBinding, In

LEMMA TombstoneKeeps ==
  ASSUME BindingInv, NEW t \in Thread, Tombstone(t)
  PROVE  BindingInv'
<1>1. /\ TypeOK /\ call[t] # None /\ call[t].phase = "tombstone"
      /\ call' = [call EXCEPT ![t] = None]
  BY DEF BindingInv, Tombstone, In, Return
<1>2. call'[t] = None /\ \A u \in Thread \ {t} : call'[u] = call[u]
  BY <1>1 DEF TypeOK
<1>3. TypeOK'
  BY <1>1, <1>2, OfCall
  DEF BindingInv, TypeOK, Tombstone
<1>4. OneAtATime'
  BY <1>1, <1>2, OfCall
  DEF BindingInv, TypeOK, OneAtATime, CallPlaced, Placed, Live, Releasing, Tombstone
<1>5. CallPlaced'
  BY <1>1, <1>2, OfCall
  DEF BindingInv, TypeOK, OneAtATime, CallPlaced, Placed, BoundPlaced, HookedThere, Live,
      Releasing, Tombstone
<1>6. BoundPlaced'
  <2> SUFFICES ASSUME NEW f \in Effect
               PROVE  (BoundThere(f) /\ AttachedThere(f) /\ HookedThere(f))'
    BY DEF BoundPlaced
  <2>1. BoundThere(f) /\ AttachedThere(f) /\ HookedThere(f)
    BY DEF BindingInv, BoundPlaced
  <2>2. BoundThere(f)'
    BY <1>1, <1>2, OfCall, <2>1, CallInStays, CallInOwn, ReleasedAtStays, ReleasedAtOwn
    DEF BindingInv, BoundThere, TypeOK, CallPlaced, Placed, Live, Releasing, Tombstone
  <2>3. AttachedThere(f)'
    BY <1>1, <1>2, OfCall, <2>1, CallInStays, CallInOwn, ReleasedAtStays, ReleasedAtOwn
    DEF BindingInv, AttachedThere, TypeOK, CallPlaced, Placed, Live, Releasing, Tombstone
  <2>4. HookedThere(f)'
    BY <1>1, <1>2, OfCall, <2>1, CallInStays, CallInOwn, ReleasedAtStays, ReleasedAtOwn
    DEF BindingInv, HookedThere, TypeOK, CallPlaced, Placed, OneAtATime, Live, Releasing,
        Tombstone
  <2> QED  BY <2>2, <2>3, <2>4
<1>7. RegistryPlaced'
  <2> SUFFICES ASSUME NEW r \in Address
               PROVE  RegisteredThere(r)'
    BY DEF RegistryPlaced
  <2>1. RegisteredThere(r)
    BY DEF BindingInv, RegistryPlaced
  <2>2. CASE registry[r] = None
    BY <2>2 DEF RegisteredThere, Tombstone
  <2>3. CASE registry[r] # None
    <3>1. registry[r] \in Effect
      BY <1>1, <2>3 DEF TypeOK
    <3>2. call[t].binding = call[t].effect /\ at[call[t].effect] = Gone
      BY <1>1 DEF BindingInv, CallPlaced, Placed, Releasing
    <3>3. registry[r] # call[t].effect
      BY <1>1, <2>1, <2>3, <3>2, CallInOwn DEF BindingInv, RegisteredThere
    <3>4. boundTo'[registry[r]] = boundTo[registry[r]]
      BY <1>1, <3>1, <3>2, <3>3 DEF TypeOK, Tombstone
    <3> QED
      BY <1>2, <2>1, <2>3, <3>3, <3>4, CallInStays DEF RegisteredThere, Tombstone
  <2> QED  BY <2>2, <2>3
<1> QED  BY <1>3, <1>4, <1>5, <1>6, <1>7 DEF BindingInv

LEMMA EmplaceKeeps ==
  ASSUME BindingInv, NEW t \in Thread, Emplace(t)
  PROVE  BindingInv'
<1> DEFINE e == call[t].effect
           a == call[t].address
<1>1. TypeOK /\ call[t] # None /\ call[t].phase = "emplace" /\ "hook" \in Phase
  BY DEF BindingInv, Emplace, In, Phase
<1>2. CASE /\ registry[a] = None /\ registry' = [registry EXCEPT ![a] = e]
           /\ GoOn(t, "hook", e) /\ UNCHANGED <<journal, boundTo>>
  <2>1. /\ call' \in [Thread -> Call \cup {None}]
        /\ \A u \in Thread \ {t} : call'[u] = call[u]
        /\ call'[t] # None /\ call'[t].effect = call[t].effect
        /\ call'[t].address = call[t].address /\ call'[t].kind = call[t].kind
        /\ call'[t].phase = "hook" /\ call'[t].binding = e
    BY <1>1, <1>2, Goes, OfCall
  <2>2. \A phases : "hook" \in phases => CallIn(e, phases)'
    BY <2>1 DEF CallIn
  <2>3. TypeOK'
    BY <1>1, <1>2, <2>1, <2>2, OfCall
    DEF BindingInv, TypeOK, Emplace
  <2>4. OneAtATime'
    BY <1>1, <1>2, <2>1, <2>2, OfCall
    DEF BindingInv, TypeOK, OneAtATime, CallPlaced, Placed, Live, Releasing, Emplace
  <2>5. CallPlaced'
    BY <1>1, <1>2, <2>1, <2>2, OfCall
    DEF BindingInv, TypeOK, OneAtATime, CallPlaced, Placed, BoundPlaced, HookedThere, Live,
        Releasing, Emplace
  <2>6. BoundPlaced'
    <3> SUFFICES ASSUME NEW f \in Effect
                 PROVE  (BoundThere(f) /\ AttachedThere(f) /\ HookedThere(f))'
      BY DEF BoundPlaced
    <3>1. BoundThere(f) /\ AttachedThere(f) /\ HookedThere(f)
      BY DEF BindingInv, BoundPlaced
    <3>2. BoundThere(f)'
      BY <1>1, <1>2, <2>1, <2>2, OfCall, <3>1, CallInStays, CallInOwn, ReleasedAtStays, ReleasedAtOwn
      DEF BindingInv, BoundThere, TypeOK, CallPlaced, Placed, Live, Releasing, Emplace
    <3>3. AttachedThere(f)'
      BY <1>1, <1>2, <2>1, <2>2, OfCall, <3>1, CallInStays, CallInOwn, ReleasedAtStays, ReleasedAtOwn
      DEF BindingInv, AttachedThere, TypeOK, CallPlaced, Placed, Live, Releasing, Emplace
    <3>4. HookedThere(f)'
      BY <1>1, <1>2, <2>1, <2>2, OfCall, <3>1, CallInStays, CallInOwn, ReleasedAtStays, ReleasedAtOwn
      DEF BindingInv, HookedThere, TypeOK, CallPlaced, Placed, OneAtATime, Live, Releasing,
          Emplace
    <3> QED  BY <3>2, <3>3, <3>4
  <2>7. RegistryPlaced'
    <3> SUFFICES ASSUME NEW r \in Address
                 PROVE  RegisteredThere(r)'
      BY DEF RegistryPlaced
    <3>1. RegisteredThere(r)
      BY DEF BindingInv, RegistryPlaced
    <3> QED
      BY <1>1, <1>2, <2>1, <2>2, OfCall, <3>1, CallInStays, CallInOwn, ReleasedAtStays, ReleasedAtOwn
      DEF BindingInv, RegisteredThere, TypeOK, CallPlaced, Placed, BoundPlaced, BoundThere,
          Live, Releasing, Emplace
  <2> QED  BY <2>3, <2>4, <2>5, <2>6, <2>7 DEF BindingInv
<1>3. CASE DeleteBinding(e) /\ Return(t) /\ UNCHANGED registry
  <2>1. call' = [call EXCEPT ![t] = None]
    BY <1>3 DEF Return, HookFailure
  <2>2. call'[t] = None /\ \A u \in Thread \ {t} : call'[u] = call[u]
    BY <1>1, <2>1 DEF TypeOK
  <2>3. TypeOK'
    BY <1>1, <1>3, <2>1, <2>2, OfCall
    DEF BindingInv, TypeOK, Emplace, DeleteBinding
  <2>4. OneAtATime'
    BY <1>1, <1>3, <2>1, <2>2, OfCall
    DEF BindingInv, TypeOK, OneAtATime, CallPlaced, Placed, Live, Releasing, Emplace,
        DeleteBinding
  <2>5. CallPlaced'
    BY <1>1, <1>3, <2>1, <2>2, OfCall
    DEF BindingInv, TypeOK, OneAtATime, CallPlaced, Placed, BoundPlaced, HookedThere, Live,
        Releasing, Emplace, DeleteBinding
  <2>6. BoundPlaced'
    <3> SUFFICES ASSUME NEW f \in Effect
                 PROVE  (BoundThere(f) /\ AttachedThere(f) /\ HookedThere(f))'
      BY DEF BoundPlaced
    <3>1. BoundThere(f) /\ AttachedThere(f) /\ HookedThere(f)
      BY DEF BindingInv, BoundPlaced
    <3>2. BoundThere(f)'
      BY <1>1, <1>3, <2>1, <2>2, OfCall, <3>1, CallInStays, CallInOwn, ReleasedAtStays, ReleasedAtOwn
      DEF BindingInv, BoundThere, TypeOK, CallPlaced, Placed, Live, Releasing, Emplace,
          DeleteBinding
    <3>3. AttachedThere(f)'
      BY <1>1, <1>3, <2>1, <2>2, OfCall, <3>1, CallInStays, CallInOwn, ReleasedAtStays, ReleasedAtOwn
      DEF BindingInv, AttachedThere, TypeOK, CallPlaced, Placed, Live, Releasing, Emplace,
          DeleteBinding
    <3>4. HookedThere(f)'
      BY <1>1, <1>3, <2>1, <2>2, OfCall, <3>1, CallInStays, CallInOwn, ReleasedAtStays, ReleasedAtOwn
      DEF BindingInv, HookedThere, TypeOK, CallPlaced, Placed, OneAtATime, Live, Releasing,
          Emplace, DeleteBinding
    <3> QED  BY <3>2, <3>3, <3>4
  <2>7. RegistryPlaced'
    <3> SUFFICES ASSUME NEW r \in Address
                 PROVE  RegisteredThere(r)'
      BY DEF RegistryPlaced
    <3>1. RegisteredThere(r)
      BY DEF BindingInv, RegistryPlaced
    <3> QED
      BY <1>1, <1>3, <2>1, <2>2, OfCall, <3>1, CallInStays, CallInOwn, ReleasedAtStays, ReleasedAtOwn
      DEF BindingInv, RegisteredThere, TypeOK, CallPlaced, Placed, BoundPlaced, BoundThere,
          Live, Releasing, Emplace, DeleteBinding
  <2> QED  BY <2>3, <2>4, <2>5, <2>6, <2>7 DEF BindingInv
<1> QED  BY <1>2, <1>3 DEF Emplace

LEMMA InstallHooksKeeps ==
  ASSUME BindingInv, NEW t \in Thread, InstallHooks(t)
  PROVE  BindingInv'
<1> DEFINE e == call[t].effect
           a == call[t].address
<1>1. TypeOK /\ call[t] # None /\ call[t].phase = "hook" /\ "use" \in Phase
  BY DEF BindingInv, InstallHooks, In, Phase
<1>2. CASE /\ hooked' = [hooked EXCEPT ![e] = TRUE] /\ Remember(t, e)
           /\ GoOn(t, "use", e) /\ UNCHANGED <<journal, boundTo, registry>>
  <2>1. /\ call' \in [Thread -> Call \cup {None}]
        /\ \A u \in Thread \ {t} : call'[u] = call[u]
        /\ call'[t] # None /\ call'[t].effect = call[t].effect
        /\ call'[t].address = call[t].address /\ call'[t].kind = call[t].kind
        /\ call'[t].phase = "use" /\ call'[t].binding = e
    BY <1>1, <1>2, Goes, OfCall
  <2>2. \A phases : "use" \in phases => CallIn(e, phases)'
    BY <2>1 DEF CallIn
  <2>3. TypeOK'
    <3>1. e \in Effect
      BY <1>1, OfCall
    <3>2. lastHit' \in [Thread -> Effect \cup {None}] /\ cache' \in [Thread -> SUBSET Effect]
      BY <1>1, <1>2, <3>1 DEF TypeOK, Remember
    <3> QED  BY <1>1, <1>2, <2>1, <3>1, <3>2 DEF TypeOK, InstallHooks
  <2>4. OneAtATime'
    BY <1>1, <1>2, <2>1, <2>2, OfCall
    DEF BindingInv, TypeOK, OneAtATime, CallPlaced, Placed, Live, Releasing, InstallHooks,
        Remember
  <2>5. CallPlaced'
    BY <1>1, <1>2, <2>1, <2>2, OfCall
    DEF BindingInv, TypeOK, OneAtATime, CallPlaced, Placed, BoundPlaced, HookedThere, Live,
        Releasing, InstallHooks, Remember
  <2>6. BoundPlaced'
    <3> SUFFICES ASSUME NEW f \in Effect
                 PROVE  (BoundThere(f) /\ AttachedThere(f) /\ HookedThere(f))'
      BY DEF BoundPlaced
    <3>1. BoundThere(f) /\ AttachedThere(f) /\ HookedThere(f)
      BY DEF BindingInv, BoundPlaced
    <3>2. BoundThere(f)'
      BY <1>1, <1>2, <2>1, <2>2, OfCall, <3>1, CallInStays, CallInOwn, ReleasedAtStays, ReleasedAtOwn
      DEF BindingInv, BoundThere, TypeOK, CallPlaced, Placed, Live, Releasing,
          InstallHooks, Remember
    <3>3. AttachedThere(f)'
      BY <1>1, <1>2, <2>1, <2>2, OfCall, <3>1, CallInStays, CallInOwn, ReleasedAtStays, ReleasedAtOwn
      DEF BindingInv, AttachedThere, TypeOK, CallPlaced, Placed, Live, Releasing,
          InstallHooks, Remember
    <3>4. HookedThere(f)'
      BY <1>1, <1>2, <2>1, <2>2, OfCall, <3>1, CallInStays, CallInOwn, ReleasedAtStays, ReleasedAtOwn
      DEF BindingInv, HookedThere, TypeOK, CallPlaced, Placed, OneAtATime, Live, Releasing,
          InstallHooks, Remember
    <3> QED  BY <3>2, <3>3, <3>4
  <2>7. RegistryPlaced'
    <3> SUFFICES ASSUME NEW r \in Address
                 PROVE  RegisteredThere(r)'
      BY DEF RegistryPlaced
    <3>1. RegisteredThere(r)
      BY DEF BindingInv, RegistryPlaced
    <3> QED
      BY <1>1, <1>2, <2>1, <2>2, OfCall, <3>1, CallInStays, CallInOwn, ReleasedAtStays, ReleasedAtOwn
      DEF BindingInv, RegisteredThere, TypeOK, CallPlaced, Placed, BoundPlaced, BoundThere,
          Live, Releasing, InstallHooks, Remember
  <2> QED  BY <2>3, <2>4, <2>5, <2>6, <2>7 DEF BindingInv
<1>3. CASE HookFailure(t)
  <2>1. call' = [call EXCEPT ![t] = None]
    BY <1>3 DEF Return, HookFailure
  <2>2. call'[t] = None /\ \A u \in Thread \ {t} : call'[u] = call[u]
    BY <1>1, <2>1 DEF TypeOK
  <2>3. TypeOK'
    BY <1>1, <1>3, <2>1, <2>2, OfCall
    DEF BindingInv, TypeOK, InstallHooks, HookFailure, DeleteBinding
  <2>4. OneAtATime'
    BY <1>1, <1>3, <2>1, <2>2, OfCall
    DEF BindingInv, TypeOK, OneAtATime, CallPlaced, Placed, Live, Releasing, InstallHooks,
        HookFailure, DeleteBinding
  <2>5. CallPlaced'
    BY <1>1, <1>3, <2>1, <2>2, OfCall
    DEF BindingInv, TypeOK, OneAtATime, CallPlaced, Placed, BoundPlaced, HookedThere, Live,
        Releasing, InstallHooks, HookFailure, DeleteBinding
  <2>6. BoundPlaced'
    <3> SUFFICES ASSUME NEW f \in Effect
                 PROVE  (BoundThere(f) /\ AttachedThere(f) /\ HookedThere(f))'
      BY DEF BoundPlaced
    <3>1. BoundThere(f) /\ AttachedThere(f) /\ HookedThere(f)
      BY DEF BindingInv, BoundPlaced
    <3>2. BoundThere(f)'
      BY <1>1, <1>3, <2>1, <2>2, OfCall, <3>1, CallInStays, CallInOwn, ReleasedAtStays, ReleasedAtOwn
      DEF BindingInv, BoundThere, TypeOK, CallPlaced, Placed, Live, Releasing,
          InstallHooks, HookFailure, DeleteBinding
    <3>3. AttachedThere(f)'
      BY <1>1, <1>3, <2>1, <2>2, OfCall, <3>1, CallInStays, CallInOwn, ReleasedAtStays, ReleasedAtOwn
      DEF BindingInv, AttachedThere, TypeOK, CallPlaced, Placed, Live, Releasing,
          InstallHooks, HookFailure, DeleteBinding
    <3>4. HookedThere(f)'
      BY <1>1, <1>3, <2>1, <2>2, OfCall, <3>1, CallInStays, CallInOwn, ReleasedAtStays, ReleasedAtOwn
      DEF BindingInv, HookedThere, TypeOK, CallPlaced, Placed, OneAtATime, Live, Releasing,
          InstallHooks, HookFailure, DeleteBinding
    <3> QED  BY <3>2, <3>3, <3>4
  <2>7. RegistryPlaced'
    <3> SUFFICES ASSUME NEW r \in Address
                 PROVE  RegisteredThere(r)'
      BY DEF RegistryPlaced
    <3>1. RegisteredThere(r)
      BY DEF BindingInv, RegistryPlaced
    <3> QED
      BY <1>1, <1>3, <2>1, <2>2, OfCall, <3>1, CallInStays, CallInOwn, ReleasedAtStays, ReleasedAtOwn
      DEF BindingInv, RegisteredThere, TypeOK, CallPlaced, Placed, BoundPlaced, BoundThere,
          Live, Releasing, InstallHooks, HookFailure, DeleteBinding
  <2> QED  BY <2>3, <2>4, <2>5, <2>6, <2>7 DEF BindingInv
<1> QED  BY <1>2, <1>3 DEF InstallHooks

(***************************************************************************)
(* The theorems.                                                           *)
(***************************************************************************)
LEMMA NextKeeps ==
  ASSUME BindingInv, [Next]_vars
  PROVE  BindingInv'
<1>1. CASE Next
  BY <1>1, CreateEffectKeeps, BeginCallKeeps, ReleaseUnhookedKeeps, FindLocalKeeps,
     FindSharedKeeps, CreateBindingKeeps, EmplaceKeeps, InstallHooksKeeps, EndUseKeeps, NoBindingKeeps,
     DestroyKeeps, EraseBindingKeeps, DropJournalKeeps, TombstoneKeeps
  DEF Next, Step
<1>2. CASE UNCHANGED vars
  <2>1. TypeOK' /\ OneAtATime' /\ CallPlaced'
    BY <1>2 DEF vars, BindingInv, TypeOK, OneAtATime, Live, CallPlaced, Placed, Releasing
  <2>2. BoundPlaced'
    BY <1>2 DEF vars, BindingInv, BoundPlaced, BoundThere, AttachedThere, HookedThere, Live,
                CallIn, ReleasedAt, Releasing
  <2>3. RegistryPlaced'
    BY <1>2 DEF vars, BindingInv, RegistryPlaced, RegisteredThere, CallIn
  <2> QED  BY <2>1, <2>2, <2>3 DEF BindingInv
<1> QED  BY <1>1, <1>2

\* However threads create, use and release effects, every binding, journal, hook
\* and registration is where its effect is, or where the call that is putting it
\* there or taking it away left it.
THEOREM BindingInvInductive == Spec => []BindingInv
<1>1. Init => BindingInv
  <2> SUFFICES ASSUME Init
               PROVE  BindingInv
    OBVIOUS
  <2>1. TypeOK /\ OneAtATime /\ CallPlaced
    BY DEF Init, TypeOK, OneAtATime, Live, CallPlaced
  <2>2. BoundPlaced /\ RegistryPlaced
    BY DEF Init, BoundPlaced, BoundThere, AttachedThere, HookedThere, Live,
           RegistryPlaced, RegisteredThere
  <2> QED  BY <2>1, <2>2 DEF BindingInv
<1>2. BindingInv /\ [Next]_vars => BindingInv'
  BY NextKeeps
<1> QED  BY <1>1, <1>2, PTL DEF Spec

\* Registry, caches and tombstones hold effects' bindings and their addresses only.
THEOREM TypeCorrect == Spec => []TypeOK
<1>1. BindingInv => TypeOK
  BY DEF BindingInv
<1> QED  BY <1>1, BindingInvInductive, PTL

\* Between calls, and whatever step of an acquisition failed, an effect that D3DX
\* writes through a journal for or whose vtable is hooked is registered at its
\* address with a journal that is not released, and an effect that is gone leaves
\* a tombstone only.
THEOREM BindingsAlwaysInPlace == Spec => []BindingsInPlace
<1>1. BindingInv => BindingsInPlace
  <2> SUFFICES ASSUME BindingInv, NEW e \in Effect, ~InCall(e)
               PROVE  /\ Live(e) /\ (journal[e] = "attached" \/ hooked[e]) =>
                           hooked[e] /\ registry[at[e]] = e /\ journal[e] # "released"
                      /\ ~Live(e) =>
                           /\ boundTo[e] = None /\ journal[e] # "attached"
                           /\ \A a \in Address : registry[a] # e
    BY DEF BindingsInPlace
  <2>1. /\ \A phases : ~CallIn(e, phases)
        /\ \A a : ~ReleasedAt(e, a)
    BY DEF InCall, CallIn, ReleasedAt, Releasing
  <2>2. BoundThere(e) /\ AttachedThere(e) /\ HookedThere(e)
    BY DEF BindingInv, BoundPlaced
  <2>3. Live(e) /\ (journal[e] = "attached" \/ hooked[e]) =>
          hooked[e] /\ registry[at[e]] = e /\ journal[e] # "released"
    BY <2>1, <2>2 DEF AttachedThere, HookedThere
  <2>4. boundTo[e] # None => Live(e)
    BY <2>1, <2>2 DEF BoundThere, BindingInv, TypeOK, Live
  <2>5. ASSUME NEW a \in Address, registry[a] = e
        PROVE  Live(e)
    <3>1. RegisteredThere(a) /\ e # None
      BY DEF BindingInv, RegistryPlaced
    <3> QED  BY <2>1, <2>5, <3>1 DEF RegisteredThere, Live
  <2>6. journal[e] = "attached" => Live(e)
    BY <2>1, <2>2 DEF AttachedThere
  <2> QED  BY <2>3, <2>4, <2>5, <2>6
<1> QED  BY <1>1, BindingInvInductive, PTL

\* A binding that is bound or registered at the address of a call is that of its
\* effect, or of one that is being released from there.
LEMMA BoundIsOwn ==
  ASSUME BindingInv, NEW t \in Thread, call[t] # None, ~Releasing(t),
         NEW b \in Effect, boundTo[b] = call[t].address
  PROVE  b = call[t].effect \/ \E u \in Thread : Releasing(u) /\ call[u].address = call[t].address
<1>1. call[t].effect \in Effect /\ call[t].address \in Address
  BY OfCall DEF BindingInv
<1>2. at[call[t].effect] = call[t].address
  BY DEF BindingInv, CallPlaced, Placed
<1>3. BoundThere(b)
  BY DEF BindingInv, BoundPlaced
<1>4. at[b] = call[t].address \/ ReleasedAt(b, call[t].address)
  BY <1>1, <1>3 DEF BoundThere
<1>5. CASE at[b] = call[t].address
  BY <1>1, <1>2, <1>5 DEF BindingInv, OneAtATime, Live
<1>6. CASE ReleasedAt(b, call[t].address)
  BY <1>6 DEF ReleasedAt
<1> QED  BY <1>4, <1>5, <1>6

\* Whatever the caches of threads hold of effects gone long since, a call finds the
\* binding of its own effect, unless the address's last effect is still being
\* released.
THEOREM FindsOwnBindingAlways == Spec => FindsOwnBinding
<1> DEFINE Found(t) ==
             In(t, "use")' /\ ~In(t, "use") =>
               \/ call'[t].binding = call'[t].effect
               \/ \E u \in Thread : Releasing(u) /\ call[u].address = call'[t].address
<1>1. BindingInv /\ [Next]_vars => [\A t \in Thread : Found(t)]_vars
  <2> SUFFICES ASSUME BindingInv, Next, NEW t \in Thread, In(t, "use")', ~In(t, "use")
               PROVE  Found(t)
    OBVIOUS
  <2>1. TypeOK /\ call \in [Thread -> Call \cup {None}] /\ "use" \in Phase
    BY DEF BindingInv, TypeOK, Phase
  <2>2. call'[t] # call[t] /\ call'[t] # None /\ call'[t].phase = "use"
    BY DEF In
  <2>3. ASSUME NEW u \in Thread, NEW e \in Effect, NEW a \in Address, CreateEffect(u, e, a)
        PROVE  FALSE
    BY <2>1, <2>2, <2>3 DEF CreateEffect, Start
  <2>4. ASSUME NEW u \in Thread, NEW e \in Effect, NEW kind \in Kind, BeginCall(u, e, kind)
        PROVE  FALSE
    BY <2>1, <2>2, <2>4 DEF BeginCall, Start
  <2>5. ASSUME NEW e \in Effect, ReleaseUnhooked(e)
        PROVE  FALSE
    BY <2>2, <2>5 DEF ReleaseUnhooked
  <2>6. ASSUME NEW u \in Thread, Step(u)
        PROVE  Found(t)
    <3>1. u = t
      BY <2>1, <2>2, <2>6
      DEF Step, FindLocal, FindShared, NoBinding, CreateBinding, Emplace, InstallHooks, HookFailure,
          EndUse,
          Destroy, EraseBinding, DropJournal, Tombstone, GoOn, Return
    <3>2. CASE FindLocal(t)
      <4>1. PICK b \in LocalMatch(t, call[t].address) : GoOn(t, AfterFind(t), b)
        BY <2>1, <2>2, <3>2, Goes DEF FindLocal, In, Phase
      <4>2. b \in Effect /\ boundTo[b] = call[t].address
        BY <2>1, <4>1 DEF LocalMatch, TypeOK
      <4>3. call'[t].binding = b /\ call'[t].effect = call[t].effect
            /\ call'[t].address = call[t].address
        BY <2>1, <3>2, <4>1, <4>2, Goes DEF FindLocal, In, AfterFind, Phase
      <4> QED
        BY <3>2, <4>2, <4>3, BoundIsOwn DEF FindLocal, In, Releasing
    <3>3. CASE FindShared(t)
      <4> DEFINE b == registry[call[t].address]
      <4>1. call[t].address \in Address /\ b \in Effect \cup {None} /\ call[t].kind \in Kind
        BY <2>1, <3>3, OfCall DEF FindShared, In, TypeOK
      <4>2. AfterFind(t) \in Phase /\ AfterMiss(t) \in Phase
        BY DEF AfterFind, AfterMiss, Phase
      <4>3. CASE b # None /\ GoOn(t, AfterFind(t), b)
        <5>1. boundTo[b] = call[t].address
          BY <4>1, <4>3 DEF BindingInv, RegistryPlaced, RegisteredThere
        <5>2. call'[t].binding = b /\ call'[t].effect = call[t].effect
              /\ call'[t].address = call[t].address
          BY <2>1, <3>3, <4>1, <4>2, <4>3, Goes DEF FindShared, In
        <5> QED
          BY <3>3, <4>1, <4>3, <5>1, <5>2, BoundIsOwn DEF FindShared, In, Releasing
      <4>4. CASE b = None /\ GoOn(t, AfterMiss(t), None)
        <5>1. AfterMiss(t) = "use"
          BY <2>1, <2>2, <3>3, <4>2, <4>4, Goes DEF FindShared, In
        <5>2. hooked[call[t].effect]
          BY <3>3, <4>1, <5>1 DEF BindingInv, CallPlaced, Placed, FindShared, In,
                                  AfterMiss, AfterFind, Kind
        <5>3. at[call[t].effect] = call[t].address /\ call[t].effect \in Effect
          BY <2>1, <3>3, OfCall DEF BindingInv, CallPlaced, Placed, Releasing, FindShared, In
        <5>4. b = call[t].effect
          BY <4>1, <5>2, <5>3 DEF BindingInv, BoundPlaced, HookedThere, Live
        <5> QED  BY <4>4, <5>3, <5>4, BindingsAssumption
      <4> QED  BY <3>3, <4>3, <4>4 DEF FindShared
    <3>4. CASE InstallHooks(t)
      <4>1. GoOn(t, "use", call[t].effect)
        BY <2>1, <2>2, <3>4 DEF InstallHooks, HookFailure, Return
      <4>2. call[t].effect \in Effect \cup {None} /\ call[t] # None
        BY <2>1, <3>4, OfCall DEF InstallHooks, In
      <4> QED  BY <2>1, <4>1, <4>2, Goes
    <3>5. CASE CreateBinding(t) \/ Emplace(t) \/ Destroy(t) \/ EraseBinding(t) \/ DropJournal(t)
      <4>1. call[t] # None /\ call[t] \in Call
        BY <2>1, <3>5 DEF CreateBinding, Emplace, Destroy, EraseBinding, DropJournal, In
      <4>2. \/ Return(t)
            \/ \E phase \in {"emplace", "hook", "erase", "drop", "tombstone"} :
                 \E b : GoOn(t, phase, b)
        BY <3>5 DEF CreateBinding, Emplace, Destroy, EraseBinding, DropJournal
      <4> QED  BY <2>1, <2>2, <4>1, <4>2 DEF Return, GoOn, Call
    <3>6. CASE EndUse(t) \/ NoBinding(t) \/ Tombstone(t)
      BY <2>1, <2>2, <3>6 DEF EndUse, NoBinding, Tombstone, Return
    <3> QED  BY <2>6, <3>1, <3>2, <3>3, <3>4, <3>5, <3>6 DEF Step
  <2> QED  BY <2>3, <2>4, <2>5, <2>6 DEF Next
<1> QED  BY <1>1, BindingInvInductive, PTL DEF Spec, FindsOwnBinding

=============================================================================
