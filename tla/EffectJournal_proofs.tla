------------------------ MODULE EffectJournal_proofs ------------------------
(***************************************************************************)
(* Invariants of the effect hooks and their journal, for any effects,      *)
(* slots, threads and generation width.  A handler is a chain of calls, so *)
(* the invariant of one effect is stated of the world a call finds (Sound) *)
(* and each call is shown to keep it; "other" says that another effect     *)
(* owns the backend's journal.  Ownership is claimed only of a game that   *)
(* does not Reset the device between Begin and End.                        *)
(*                                                                         *)
(* The same chain is followed three times: for what each call keeps true   *)
(* of a world (Sound), for what of a broken journal it carries on to the   *)
(* next (Carries), and, on one thread, for what the effect still owes the  *)
(* device (Keeps), from which the effect contract follows.                 *)
(***************************************************************************)
EXTENDS EffectJournal, FiniteSetTheorems, TLAPS

USE JournalAssumption

WorldType == [dev : [Slots -> Values], nat : [open : BOOLEAN, saved : Saved],
              j : Journal, fx : Fx, ok : BOOLEAN]

\* A stamp is never ahead of the generation, and the stamps of an open local
\* transaction name exactly what it captured.
Stamped(j) ==
  /\ \A s \in Slots : j.stamp[s] <= j.generation
  /\ j.active /\ ~j.native =>
       \A s \in Slots : j.stamp[s] = j.generation <=> j.captured[s] # None

Owns(j) == j.active /\ j.native

Sound(w, other) ==
  /\ w \in WorldType
  /\ Stamped(w.j)
  /\ ~ResetInside /\ Owns(w.j) => w.nat.open
  /\ other => w.nat.open /\ ~Owns(w.j)

-----------------------------------------------------------------------------

LEMMA WrittenType ==
  ASSUME NEW e \in Effects, NEW a \in Attempts(e), NEW st \in [Slots -> Values]
  PROVE  /\ Written(a, st) \in [Slots -> Values]
         /\ DOMAIN a.write \subseteq Slots
         /\ a.readable \subseteq Slots
         /\ a.ok \in BOOLEAN
<1>1. PICK S \in SUBSET Footprint[e] : a.write \in [S -> Values]
  BY DEF Attempts
<1>2. Footprint[e] \subseteq Slots
  OBVIOUS
<1>3. DOMAIN a.write = S /\ a.readable \subseteq a.refused /\ a.refused \subseteq Footprint[e]
  BY <1>1 DEF Attempts
<1>4. a.ok \in BOOLEAN
  BY DEF Attempts
<1>5. \A s \in S : a.write[s] \in Values
  BY <1>1
<1> QED BY <1>2, <1>3, <1>4, <1>5 DEF Written

LEMMA PutBackType ==
  ASSUME NEW block \in Saved, NEW st \in [Slots -> Values]
  PROVE  PutBack(block, st) \in [Slots -> Values]
<1>1. ASSUME NEW s \in Slots PROVE (IF block[s] # None THEN block[s] ELSE st[s]) \in Values
  BY <1>1 DEF Saved
<1> QED BY <1>1 DEF PutBack

\* Capturing touches the stamps and the captures together.
LEMMA CaptureStamped ==
  ASSUME NEW j \in Journal, Stamped(j), j.active, ~j.native,
         NEW slots \in SUBSET Slots, NEW st \in [Slots -> Values]
  PROVE  /\ Capture(j, slots, st) \in Journal
         /\ Stamped(Capture(j, slots, st))
         /\ Capture(j, slots, st).active = j.active
         /\ Capture(j, slots, st).native = j.native
<1> DEFINE c == Capture(j, slots, st)
           stamp == [s \in Slots |-> IF s \in FirstTouched(j, slots)
                                     THEN j.generation ELSE j.stamp[s]]
           captured == [s \in Slots |-> IF s \in FirstTouched(j, slots)
                                        THEN st[s] ELSE j.captured[s]]
<1>1. c = [j EXCEPT !.stamp = stamp, !.captured = captured]
  BY DEF Capture
<1>2. stamp \in [Slots -> Generation] /\ captured \in Saved
  BY DEF Journal, Saved
<1> HIDE DEF stamp, captured
<1>3. c \in Journal
  BY <1>1, <1>2 DEF Journal
<1>4. /\ c.stamp = stamp /\ c.captured = captured /\ c.generation = j.generation
      /\ c.active = j.active /\ c.native = j.native
  BY <1>1 DEF Journal
<1>5. ASSUME NEW s \in Slots
      PROVE  /\ stamp[s] <= j.generation
             /\ stamp[s] = j.generation <=> captured[s] # None
  <2>1. j.stamp[s] <= j.generation /\ (j.stamp[s] = j.generation <=> j.captured[s] # None)
    BY DEF Stamped
  <2>2. st[s] # None /\ j.generation <= j.generation
    BY DEF Journal, Generation
  <2> QED BY <2>1, <2>2 DEF stamp, captured, FirstTouched
<1>6. Stamped(c)
  BY <1>4, <1>5 DEF Stamped
<1> QED BY <1>3, <1>4, <1>6

LEMMA SetStatesSound ==
  ASSUME NEW e \in Effects, NEW t \in Threads, NEW a \in Attempts(e), NEW w, NEW other,
         Sound(w, other)
  PROVE  /\ Sound(SetStates(w, t, a), other)
         /\ Owns(SetStates(w, t, a).j) = Owns(w.j)
         /\ SetStates(w, t, a).fx = w.fx
<1> DEFINE v == SetStates(w, t, a)
<1>1. w \in WorldType /\ Stamped(w.j) /\ w.j \in Journal
  BY DEF Sound, WorldType
<1>2. Written(a, w.dev) \in [Slots -> Values] /\ DOMAIN a.write \subseteq Slots /\ a.readable \subseteq Slots
  BY <1>1, WrittenType DEF WorldType
<1>3. CASE ~w.j.active
  <2>1. v = [w EXCEPT !.dev = Written(a, w.dev)]
    BY <1>3 DEF SetStates
  <2>2. v \in WorldType /\ v.j = w.j /\ v.nat = w.nat /\ v.fx = w.fx
    BY <1>1, <1>2, <2>1 DEF WorldType
  <2> QED BY <2>2, Zenon DEF Sound
<1>4. CASE w.j.active /\ (w.j.disabled \/ w.j.owner # t)
  <2>1. v = w \/ v = [w EXCEPT !.j.failed = TRUE]
    BY <1>4 DEF SetStates
  <2>2. CASE v = w
    BY <2>2
  <2>3. CASE v = [w EXCEPT !.j.failed = TRUE]
    <3>1. v = [w EXCEPT !.j = [w.j EXCEPT !.failed = TRUE]]
      BY <2>3, <1>1 DEF WorldType
    <3> DEFINE k == [w.j EXCEPT !.failed = TRUE]
    <3>2. /\ k \in Journal /\ k.active = w.j.active /\ k.native = w.j.native
          /\ k.stamp = w.j.stamp /\ k.captured = w.j.captured
          /\ k.generation = w.j.generation
      BY <1>1 DEF Journal
    <3> HIDE DEF k
    <3>3. v \in WorldType /\ v.j = k /\ v.nat = w.nat /\ v.fx = w.fx
      BY <3>1, <3>2, <1>1 DEF WorldType, k
    <3>4. Stamped(k) /\ (Owns(k) = Owns(w.j))
      BY <3>2, <1>1 DEF Stamped, Owns
    <3> QED BY <3>3, <3>4, Zenon DEF Sound
  <2> QED BY <2>1, <2>2, <2>3
<1>5. CASE w.j.active /\ ~w.j.disabled /\ w.j.owner = t
  <2> DEFINE k == Recorded(w, a)
             n == IF w.j.native THEN NativeCapture(w.nat, DOMAIN a.write, w.dev) ELSE w.nat
  <2>1. v = [w EXCEPT !.dev = Written(a, w.dev), !.nat = n, !.j = k]
    BY <1>5 DEF SetStates
  <2>2. n \in [open : BOOLEAN, saved : Saved] /\ n.open = w.nat.open
    BY <1>1 DEF WorldType, NativeCapture, Saved
  <2>3. k \in Journal /\ Stamped(k) /\ (k.active = w.j.active) /\ (k.native = w.j.native)
    <3> DEFINE j == IF w.j.native THEN w.j
                    ELSE Capture(w.j, DOMAIN a.write \union a.readable, w.dev)
    <3>1. j \in Journal /\ Stamped(j) /\ (j.active = w.j.active) /\ (j.native = w.j.native)
      <4>1. CASE w.j.native
        BY <4>1, <1>1
      <4>2. CASE ~w.j.native
        <5>1. /\ DOMAIN a.write \union a.readable \in SUBSET Slots
              /\ w.dev \in [Slots -> Values]
          BY <1>1, <1>2 DEF WorldType
        <5>2. j = Capture(w.j, DOMAIN a.write \union a.readable, w.dev)
          BY <4>2
        <5> QED BY <4>2, <1>1, <1>5, <5>1, <5>2, CaptureStamped
      <4> QED BY <4>1, <4>2
    <3>2. k = [j EXCEPT !.failed = w.j.failed \/ a.refused # {}]
      BY DEF Recorded
    <3> HIDE DEF j
    <3>3. (w.j.failed \/ a.refused # {}) \in BOOLEAN
      OBVIOUS
    <3>4. /\ k \in Journal /\ k.active = j.active /\ k.native = j.native
          /\ k.stamp = j.stamp /\ k.captured = j.captured /\ k.generation = j.generation
      BY <3>1, <3>2, <3>3 DEF Journal
    <3> QED BY <3>1, <3>4 DEF Stamped
  <2> HIDE DEF k, n
  <2>4. v \in WorldType /\ v.j = k /\ v.nat = n /\ v.fx = w.fx
    BY <1>1, <1>2, <2>1, <2>2, <2>3 DEF WorldType
  <2>5. Owns(k) = Owns(w.j)
    BY <2>3, <1>1 DEF Owns, Journal
  <2> QED BY <2>2, <2>3, <2>4, <2>5, Zenon DEF Sound
<1>6. w.j.active \in BOOLEAN
  BY <1>1 DEF Journal
<1> QED BY <1>3, <1>4, <1>5, <1>6

LEMMA AdvanceFresh ==
  ASSUME NEW j \in Journal, Stamped(j)
  PROVE  LET k == ClearJournal(AdvanceGeneration(j)) IN
         /\ k \in Journal
         /\ \A s \in Slots : k.stamp[s] < k.generation /\ k.captured[s] = None
<1> DEFINE m == AdvanceGeneration(j)
<1>1. Nothing \in Saved /\ \A s \in Slots : Nothing[s] = None
  BY DEF Nothing, Saved
<1>2. m \in Journal /\ \A s \in Slots : m.stamp[s] < m.generation
  <2>1. j.generation \in Generation /\ \A s \in Slots : j.stamp[s] \in Nat /\ j.stamp[s] <= j.generation
    BY DEF Stamped, Journal, Generation
  <2>2. CASE j.generation + 1 = GenMod
    <3> DEFINE zero == [s \in Slots |-> 0]
    <3>1. m = [j EXCEPT !.generation = 1, !.stamp = zero]
      BY <2>2 DEF AdvanceGeneration
    <3>2. zero \in [Slots -> Generation] /\ 1 \in Generation
      BY DEF Generation
    <3>3. \A s \in Slots : zero[s] < 1
      OBVIOUS
    <3> HIDE DEF zero
    <3>4. m \in Journal /\ m.stamp = zero /\ m.generation = 1
      BY <3>1, <3>2 DEF Journal
    <3> QED BY <3>3, <3>4
  <2>3. CASE j.generation + 1 # GenMod
    <3>1. m = [j EXCEPT !.generation = j.generation + 1]
      BY <2>3 DEF AdvanceGeneration
    <3>2. j.generation + 1 \in Generation
      BY <2>1, <2>3 DEF Generation
    <3>3. m \in Journal /\ m.stamp = j.stamp /\ m.generation = j.generation + 1
      BY <3>1, <3>2 DEF Journal
    <3>4. \A s \in Slots : j.stamp[s] < j.generation + 1
      BY <2>1 DEF Generation
    <3> QED BY <3>3, <3>4
  <2> QED BY <2>2, <2>3
<1> HIDE DEF m
<1>3. [m EXCEPT !.captured = Nothing] \in Journal
  BY <1>1, <1>2 DEF Journal
<1>4. /\ [m EXCEPT !.captured = Nothing].stamp = m.stamp
      /\ [m EXCEPT !.captured = Nothing].generation = m.generation
      /\ [m EXCEPT !.captured = Nothing].captured = Nothing
  BY <1>2 DEF Journal
<1>5. ClearJournal(AdvanceGeneration(j)) = [m EXCEPT !.captured = Nothing]
  BY DEF ClearJournal, m
<1> QED BY <1>1, <1>2, <1>3, <1>4, <1>5

\* A journal that has finished owns nothing.
LEMMA FinishedJournal ==
  ASSUME NEW j \in Journal, Stamped(j)
  PROVE  /\ Finished(j) \in Journal
         /\ Stamped(Finished(j))
         /\ ~Finished(j).active
<1>1. Nothing \in Saved
  BY DEF Nothing, Saved
<1>2. Finished(j) = [j EXCEPT !.active = FALSE, !.native = FALSE, !.passActive = FALSE,
                              !.captured = Nothing]
  BY DEF Finished, ClearJournal
<1>3. /\ Finished(j) \in Journal
      /\ ~Finished(j).active
      /\ Finished(j).stamp = j.stamp /\ Finished(j).generation = j.generation
  BY <1>1, <1>2 DEF Journal
<1> QED BY <1>3 DEF Stamped

\* Marking a journal disabled or failed changes nothing else of it.
LEMMA DistrustedSound ==
  ASSUME NEW w, NEW other, Sound(w, other)
  PROVE  /\ Sound(Distrusted(w), other)
         /\ Distrusted(w).j.active = w.j.active
         /\ Distrusted(w).j.native = w.j.native
         /\ Distrusted(w).fx = w.fx
<1> DEFINE k == [w.j EXCEPT !.disabled = TRUE, !.failed = TRUE]
<1>1. w \in WorldType /\ Stamped(w.j) /\ w.j \in Journal
  BY DEF Sound, WorldType
<1>2. Distrusted(w) = [w EXCEPT !.j = k, !.ok = FALSE]
  BY <1>1 DEF Distrusted, WorldType
<1>3. /\ k \in Journal /\ k.active = w.j.active /\ k.native = w.j.native
      /\ k.stamp = w.j.stamp /\ k.captured = w.j.captured /\ k.generation = w.j.generation
  BY <1>1 DEF Journal
<1> HIDE DEF k
<1>4. /\ Distrusted(w) \in WorldType /\ Distrusted(w).j = k
      /\ Distrusted(w).nat = w.nat /\ Distrusted(w).fx = w.fx
  BY <1>1, <1>2, <1>3 DEF WorldType
<1>5. Stamped(k) /\ (Owns(k) = Owns(w.j))
  BY <1>3, <1>1 DEF Stamped, Owns
<1> QED BY <1>3, <1>4, <1>5, Zenon DEF Sound

\* Disabling a journal, whatever the result of the call before.
LEMMA DisabledSound ==
  ASSUME NEW w, NEW other, Sound(w, other)
  PROVE  /\ Sound([w EXCEPT !.j.disabled = TRUE], other)
         /\ Sound([w EXCEPT !.j.disabled = TRUE, !.ok = FALSE], other)
         /\ [w EXCEPT !.j.disabled = TRUE].j.active = w.j.active
         /\ [w EXCEPT !.j.disabled = TRUE].j.native = w.j.native
         /\ [w EXCEPT !.j.disabled = TRUE, !.ok = FALSE].j.active = w.j.active
         /\ [w EXCEPT !.j.disabled = TRUE, !.ok = FALSE].j.native = w.j.native
         /\ [w EXCEPT !.j.disabled = TRUE].fx = w.fx
         /\ [w EXCEPT !.j.disabled = TRUE, !.ok = FALSE].fx = w.fx
<1> DEFINE k == [w.j EXCEPT !.disabled = TRUE]
           u == [w EXCEPT !.j.disabled = TRUE]
           v == [w EXCEPT !.j.disabled = TRUE, !.ok = FALSE]
<1>1. w \in WorldType /\ Stamped(w.j) /\ w.j \in Journal
  BY DEF Sound, WorldType
<1>2. u = [w EXCEPT !.j = k] /\ v = [w EXCEPT !.j = k, !.ok = FALSE]
  BY <1>1 DEF WorldType
<1>3. /\ k \in Journal /\ k.active = w.j.active /\ k.native = w.j.native
      /\ k.stamp = w.j.stamp /\ k.captured = w.j.captured /\ k.generation = w.j.generation
  BY <1>1 DEF Journal
<1> HIDE DEF k, u, v
<1>4. /\ u \in WorldType /\ u.j = k /\ u.nat = w.nat /\ u.fx = w.fx
      /\ v \in WorldType /\ v.j = k /\ v.nat = w.nat /\ v.fx = w.fx
  BY <1>1, <1>2, <1>3 DEF WorldType
<1>5. Stamped(k) /\ (Owns(k) = Owns(w.j))
  BY <1>3, <1>1 DEF Stamped, Owns
<1>6. Sound(u, other) /\ Sound(v, other)
  BY <1>4, <1>5, Zenon DEF Sound
<1> QED BY <1>3, <1>4, <1>6 DEF u, v

LEMMA SameJournalSound ==
  ASSUME NEW w, NEW other, Sound(w, other),
         NEW v \in WorldType, v.j = w.j, v.nat = w.nat
  PROVE  Sound(v, other)
BY Zenon DEF Sound

-----------------------------------------------------------------------------
(* Restoring leaves the effect without the backend's journal.               *)

LEMMA RestoreNativeSound ==
  ASSUME NEW w, NEW other, Sound(w, other), Owns(w.j)
  PROVE  /\ Sound(RestoreNative(w), other)
         /\ ~Owns(RestoreNative(w).j)
         /\ RestoreNative(w).fx = w.fx
<1> DEFINE k == Finished(w.j)
           done == [w EXCEPT !.j = k, !.ok = TRUE]
           closed == [open |-> FALSE, saved |-> Nothing]
           r == [done EXCEPT !.dev = PutBack(w.nat.saved, w.dev), !.nat = closed]
<1>1. w \in WorldType /\ Stamped(w.j) /\ w.j \in Journal /\ ~other
  BY Zenon DEF Sound, WorldType
<1>1a. w.j \in Journal
  BY <1>1
<1>2. k \in Journal /\ Stamped(k) /\ ~k.active
  BY <1>1, FinishedJournal
<1> HIDE DEF k
<1>3. done \in WorldType /\ done.j = k /\ done.nat = w.nat /\ done.fx = w.fx
  BY <1>1, <1>2 DEF WorldType
<1>4. ~Owns(k)
  BY <1>2 DEF Owns
<1>5. Sound(done, other)
  BY <1>1, <1>2, <1>3, <1>4, Zenon DEF Sound
<1>6. CASE w.nat.open
  <2>1. RestoreNative(w) = r
    BY <1>6 DEF RestoreNative, k
  <2>2. PutBack(w.nat.saved, w.dev) \in [Slots -> Values] /\ closed \in [open : BOOLEAN, saved : Saved]
    <3>1. w.nat.saved \in Saved /\ w.dev \in [Slots -> Values]
      BY <1>1 DEF WorldType
    <3>2. Nothing \in Saved
      BY DEF Nothing, Saved
    <3> QED BY <3>1, <3>2, PutBackType
  <2> HIDE DEF closed, done
  <2>3. r \in WorldType /\ r.j = k /\ r.fx = w.fx
    BY <1>3, <2>2 DEF WorldType
  <2> QED BY <1>1, <1>2, <1>4, <2>1, <2>3, Zenon DEF Sound
<1>7. CASE ~w.nat.open
  <2>1. RestoreNative(w) = Distrusted(done)
    BY <1>7 DEF RestoreNative, k
  <2> HIDE DEF done
  <2>2. /\ Sound(Distrusted(done), other) /\ Distrusted(done).j.active = k.active
        /\ Distrusted(done).fx = w.fx
    BY <1>3, <1>5, DistrustedSound
  <2> QED BY <1>2, <2>1, <2>2 DEF Owns
<1> QED BY <1>6, <1>7

LEMMA RestoreLocalSound ==
  ASSUME NEW w, NEW other, Sound(w, other), NEW lost
  PROVE  /\ Sound(RestoreLocal(w, lost), other)
         /\ ~Owns(RestoreLocal(w, lost).j)
         /\ RestoreLocal(w, lost).fx = w.fx
<1> DEFINE k == Finished(w.j)
           dev == PutBack(Replayed(w.j, lost), w.dev)
           done == [w EXCEPT !.dev = dev, !.j = k, !.ok = TRUE]
<1>1. w \in WorldType /\ Stamped(w.j) /\ w.j \in Journal
  BY DEF Sound, WorldType
<1>2. k \in Journal /\ Stamped(k) /\ ~k.active
  BY <1>1, FinishedJournal
<1>3. dev \in [Slots -> Values]
  <2>1. Replayed(w.j, lost) \in Saved
    BY <1>1 DEF Replayed, Saved, Journal
  <2>2. w.dev \in [Slots -> Values]
    BY <1>1 DEF WorldType
  <2> QED BY <2>1, <2>2, PutBackType
<1> HIDE DEF k, dev
<1>4. done \in WorldType /\ done.j = k /\ done.nat = w.nat /\ done.fx = w.fx
  BY <1>1, <1>2, <1>3 DEF WorldType
<1>5. ~Owns(k)
  BY <1>2 DEF Owns
<1>6. Sound(done, other)
  BY <1>1, <1>2, <1>4, <1>5, Zenon DEF Sound
<1>7. RestoreLocal(w, lost) = done \/ RestoreLocal(w, lost) = Distrusted(done)
  BY DEF RestoreLocal, k, dev
<1> HIDE DEF done
<1>8. /\ Sound(Distrusted(done), other) /\ Distrusted(done).j.active = k.active
      /\ Distrusted(done).fx = w.fx
  BY <1>4, <1>6, DistrustedSound
<1>9. ~Owns(Distrusted(done).j)
  BY <1>2, <1>8 DEF Owns
<1> QED BY <1>4, <1>5, <1>6, <1>7, <1>8, <1>9

LEMMA RestoreSound ==
  ASSUME NEW w, NEW other, Sound(w, other), NEW t, NEW lost
  PROVE  /\ Sound(Restore(w, t, lost), other)
         /\ ~Owns(Restore(w, t, lost).j)
         /\ Restore(w, t, lost).fx = w.fx
<1>1. w \in WorldType /\ w.j \in Journal /\ w.j.active \in BOOLEAN /\ w.j.native \in BOOLEAN
  BY DEF Sound, WorldType, Journal
<1>2. CASE ~w.j.active
  <2>1. Restore(w, t, lost) = [w EXCEPT !.ok = TRUE]
    BY <1>2 DEF Restore
  <2>2. /\ Restore(w, t, lost) \in WorldType /\ Restore(w, t, lost).j = w.j
        /\ Restore(w, t, lost).nat = w.nat /\ Restore(w, t, lost).fx = w.fx
    BY <1>1, <2>1 DEF WorldType
  <2> QED BY <1>2, <2>2, SameJournalSound DEF Owns
<1>3. CASE w.j.active /\ w.j.native
  <2>1. Restore(w, t, lost) = RestoreNative(w)
    BY <1>3 DEF Restore
  <2>2. Owns(w.j)
    BY <1>3 DEF Owns
  <2> QED BY <2>1, <2>2, RestoreNativeSound
<1>4. CASE w.j.active /\ ~w.j.native /\ w.j.owner = t
  <2>1. Restore(w, t, lost) = RestoreLocal(w, lost)
    BY <1>4 DEF Restore
  <2> QED BY <2>1, RestoreLocalSound
<1>5. CASE w.j.active /\ ~w.j.native /\ w.j.owner # t
  <2>1. Restore(w, t, lost) = Distrusted(w)
    BY <1>5 DEF Restore
  <2> QED BY <1>5, <2>1, DistrustedSound DEF Owns
<1> QED BY <1>1, <1>2, <1>3, <1>4, <1>5

\* Disable may restore, never take.
LEMMA DisableSound ==
  ASSUME NEW w, NEW other, Sound(w, other), NEW t, NEW lost
  PROVE  /\ Sound(Disable(w, t, lost), other)
         /\ Owns(Disable(w, t, lost).j) => Owns(w.j)
         /\ Disable(w, t, lost).fx = w.fx
<1> DEFINE u == IF w.j.active /\ w.j.owner = t THEN Restore(w, t, lost) ELSE w
<1>1. Sound(u, other) /\ (Owns(u.j) => Owns(w.j)) /\ u.fx = w.fx
  BY RestoreSound
<1>2. Disable(w, t, lost) = [u EXCEPT !.j.disabled = TRUE]
  BY DEF Disable
<1> HIDE DEF u
<1>3. /\ Sound([u EXCEPT !.j.disabled = TRUE], other)
      /\ [u EXCEPT !.j.disabled = TRUE].j.active = u.j.active
      /\ [u EXCEPT !.j.disabled = TRUE].j.native = u.j.native
      /\ [u EXCEPT !.j.disabled = TRUE].fx = u.fx
  BY <1>1, DisabledSound
<1>4. Owns([u EXCEPT !.j.disabled = TRUE].j) = Owns(u.j)
  BY <1>3, Zenon DEF Owns
<1> QED BY <1>1, <1>2, <1>3, <1>4

-----------------------------------------------------------------------------
(* The other calls of a handler.                                            *)

LEMMA StartTransactionSound ==
  ASSUME NEW w, NEW other, Sound(w, other), NEW t \in Threads
  PROVE  /\ Sound(StartTransaction(w, t), other)
         /\ StartTransaction(w, t).fx = w.fx
<1> DEFINE granted == NativePolicy /\ ~w.nat.open
           fresh == ClearJournal(AdvanceGeneration(w.j))
           k == [fresh EXCEPT !.active = TRUE, !.native = granted, !.failed = FALSE,
                              !.passActive = FALSE, !.owner = t]
           n == IF granted THEN [open |-> TRUE, saved |-> Nothing] ELSE w.nat
           v == StartTransaction(w, t)
<1>1. /\ w \in WorldType /\ Stamped(w.j) /\ w.j \in Journal
      /\ w.nat \in [open : BOOLEAN, saved : Saved]
  BY DEF Sound, WorldType
<1>2. fresh \in Journal /\ \A s \in Slots : fresh.stamp[s] < fresh.generation /\ fresh.captured[s] = None
  BY <1>1, AdvanceFresh
<1>3. granted \in BOOLEAN /\ w.nat.open \in BOOLEAN
  BY <1>1
<1>4. v = [w EXCEPT !.j = k, !.nat = n, !.ok = TRUE]
  BY DEF StartTransaction
<1>5. n \in [open : BOOLEAN, saved : Saved] /\ (w.nat.open => n.open) /\ (granted => n.open)
  <2>1. Nothing \in Saved
    BY DEF Nothing, Saved
  <2> QED BY <1>1, <2>1
<1>5a. other => ~granted
  BY DEF Sound
<1> HIDE DEF fresh, granted
<1>6. /\ k \in Journal /\ k.stamp = fresh.stamp /\ k.captured = fresh.captured
      /\ k.generation = fresh.generation /\ k.native = granted
  BY <1>2, <1>3 DEF Journal
<1> HIDE DEF k, n
<1>7. Stamped(k)
  <2>1. ASSUME NEW s \in Slots
        PROVE  /\ k.stamp[s] <= k.generation
               /\ k.stamp[s] # k.generation
               /\ k.captured[s] = None
    <3>1. k.stamp[s] \in Nat /\ k.generation \in Nat
      BY <1>6 DEF Journal, Generation
    <3> QED BY <1>2, <1>6, <3>1
  <2> QED BY <2>1 DEF Stamped
<1>8. v \in WorldType /\ v.j = k /\ v.nat = n /\ v.fx = w.fx
  BY <1>1, <1>4, <1>5, <1>6 DEF WorldType
<1>9. Owns(k) => granted
  BY <1>6 DEF Owns
<1>10. Sound(v, other)
  BY <1>5, <1>5a, <1>7, <1>8, <1>9, Zenon DEF Sound
<1> QED BY <1>8, <1>10

LEMMA BeginTransactionSound ==
  ASSUME NEW w, NEW other, Sound(w, other), NEW t \in Threads, NEW lost
  PROVE  /\ Sound(BeginTransaction(w, t, lost), other)
         /\ BeginTransaction(w, t, lost).fx = w.fx
         /\ ~BeginTransaction(w, t, lost).ok =>
              (Owns(BeginTransaction(w, t, lost).j) => Owns(w.j))
<1> DEFINE b == BeginTransaction(w, t, lost)
<1>1. w \in WorldType /\ w.j.active \in BOOLEAN /\ w.j.disabled \in BOOLEAN
  BY DEF Sound, WorldType, Journal
<1>2. CASE w.j.disabled
  <2>1. b = [w EXCEPT !.ok = FALSE]
    BY <1>2 DEF BeginTransaction
  <2>2. b \in WorldType /\ b.j = w.j /\ b.nat = w.nat /\ b.fx = w.fx
    BY <1>1, <2>1 DEF WorldType
  <2> QED BY <2>2, SameJournalSound
<1>3. CASE ~w.j.disabled /\ w.j.active
  <2> DEFINE r == Restore(w, t, lost)
  <2>1. b = [r EXCEPT !.j.disabled = TRUE, !.ok = FALSE]
    BY <1>3 DEF BeginTransaction
  <2>2. Sound(r, other) /\ ~Owns(r.j) /\ r.fx = w.fx
    BY RestoreSound
  <2> HIDE DEF r
  <2> DEFINE d == [r EXCEPT !.j.disabled = TRUE, !.ok = FALSE]
  <2>3. Sound(d, other) /\ d.j.active = r.j.active /\ d.j.native = r.j.native /\ d.fx = r.fx
    BY <2>2, DisabledSound
  <2> HIDE DEF d
  <2>4. b = d
    BY <2>1 DEF d
  <2> HIDE DEF b
  <2>5. Sound(b, other) /\ ~Owns(b.j) /\ b.fx = w.fx
    BY <2>2, <2>3, <2>4 DEF Owns
  <2> QED BY <2>5 DEF b
<1>4. CASE ~w.j.disabled /\ ~w.j.active
  <2>1. b = StartTransaction(w, t)
    BY <1>4 DEF BeginTransaction
  <2>2. b.ok
    BY <1>1, <2>1 DEF StartTransaction, WorldType
  <2> QED BY <2>1, <2>2, StartTransactionSound
<1> QED BY <1>1, <1>2, <1>3, <1>4

LEMMA CaptureScopeSound ==
  ASSUME NEW w, NEW other, Sound(w, other)
  PROVE  /\ Sound(CaptureScope(w), other)
         /\ Owns(CaptureScope(w).j) = Owns(w.j)
         /\ CaptureScope(w).fx = w.fx
<1> DEFINE v == CaptureScope(w)
           k == [w.j EXCEPT !.failed = TRUE]
<1>1. w \in WorldType /\ Stamped(w.j) /\ w.j \in Journal
  BY DEF Sound, WorldType
<1>2. CASE w.j.active /\ w.j.native /\ ~w.nat.open
  <2>1. v = [w EXCEPT !.j = k, !.ok = FALSE]
    BY <1>1, <1>2 DEF CaptureScope, Fail, WorldType
  <2>2. /\ k \in Journal /\ k.active = w.j.active /\ k.native = w.j.native
        /\ k.stamp = w.j.stamp /\ k.captured = w.j.captured /\ k.generation = w.j.generation
    BY <1>1 DEF Journal
  <2> HIDE DEF k
  <2>3. v \in WorldType /\ v.j = k /\ v.nat = w.nat /\ v.fx = w.fx
    BY <1>1, <2>1, <2>2 DEF WorldType
  <2>4. Stamped(k) /\ (Owns(k) = Owns(w.j))
    BY <2>2, <1>1 DEF Stamped, Owns
  <2> QED BY <2>3, <2>4, Zenon DEF Sound
<1>3. CASE ~(w.j.active /\ w.j.native /\ ~w.nat.open)
  <2>1. v = [w EXCEPT !.ok = TRUE]
    BY <1>3 DEF CaptureScope
  <2>2. v \in WorldType /\ v.j = w.j /\ v.nat = w.nat /\ v.fx = w.fx
    BY <1>1, <2>1 DEF WorldType
  <2> QED BY <2>2, SameJournalSound
<1> QED BY <1>2, <1>3

LEMMA D3dxBeginSound ==
  ASSUME NEW e \in Effects, NEW t \in Threads, NEW a \in Attempts(e), NEW w, NEW other,
         Sound(w, other), NEW mode \in {"saving", "plain", "journaled"}
  PROVE  LET v == D3dxBegin(w, t, a, e, mode) IN
         /\ Sound(v, other)
         /\ Owns(v.j) = Owns(w.j)
         /\ v.fx.phase = w.fx.phase \/ v.fx.phase = "begun"
         /\ v.ok => v.fx.phase = "begun"
<1> DEFINE v == D3dxBegin(w, t, a, e, mode)
           u == SetStates(w, t, a)
           block == [s \in Slots |-> IF mode = "saving" /\ s \in Footprint[e] THEN w.dev[s] ELSE None]
           f == [phase |-> "begun", mode |-> mode, saved |-> block]
<1>1. w \in WorldType
  BY DEF Sound
<1>2. Sound(u, other) /\ (Owns(u.j) = Owns(w.j)) /\ u.fx = w.fx
  BY SetStatesSound
<1>2a. u \in WorldType
  BY <1>2 DEF Sound
<1>3. f \in Fx
  <2>1. block \in Saved
    BY <1>1 DEF WorldType, Saved
  <2> HIDE DEF block
  <2> QED BY <2>1 DEF Fx
<1>4. CASE w.fx.phase # "idle"
  <2>1. v = [w EXCEPT !.ok = FALSE]
    BY <1>4 DEF D3dxBegin
  <2>2. v \in WorldType /\ v.j = w.j /\ v.nat = w.nat /\ v.fx = w.fx /\ ~v.ok
    BY <1>1, <2>1 DEF WorldType
  <2> QED BY <2>2, SameJournalSound
<1>5. CASE w.fx.phase = "idle" /\ ~a.ok
  <2>1. v = [u EXCEPT !.ok = FALSE]
    BY <1>5 DEF D3dxBegin
  <2> HIDE DEF u
  <2>2. v \in WorldType /\ v.j = u.j /\ v.nat = u.nat /\ v.fx = u.fx /\ ~v.ok
    BY <1>2a, <2>1 DEF WorldType
  <2> QED BY <1>2, <2>2, SameJournalSound
<1>6. CASE w.fx.phase = "idle" /\ a.ok
  <2>1. v = [u EXCEPT !.ok = TRUE, !.fx = f]
    BY <1>6 DEF D3dxBegin
  <2>1a. f.phase = "begun"
    OBVIOUS
  <2> HIDE DEF u, f
  <2>2. v \in WorldType /\ v.j = u.j /\ v.nat = u.nat /\ v.fx = f
    BY <1>2a, <1>3, <2>1 DEF WorldType
  <2>3. v.fx.phase = "begun"
    BY <2>2, <2>1a
  <2> QED BY <1>2, <2>2, <2>3, SameJournalSound
<1> QED BY <1>4, <1>5, <1>6

\* The calls within a begun effect never bring it back to idle.
LEMMA D3dxBeginPassSound ==
  ASSUME NEW e \in Effects, NEW t \in Threads, NEW a \in Attempts(e), NEW w, NEW other,
         Sound(w, other)
  PROVE  LET v == D3dxBeginPass(w, t, a) IN
         /\ Sound(v, other)
         /\ Owns(v.j) = Owns(w.j)
         /\ v.fx.phase = w.fx.phase \/ v.fx.phase \in {"begun", "pass"}
<1> DEFINE v == D3dxBeginPass(w, t, a)
           u == SetStates(w, t, a)
           phase == IF a.ok THEN "pass" ELSE "begun"
           f == [u.fx EXCEPT !.phase = phase]
<1>1. w \in WorldType /\ a.ok \in BOOLEAN
  BY WrittenType DEF Sound, WorldType, Attempts
<1>2. Sound(u, other) /\ (Owns(u.j) = Owns(w.j)) /\ u.fx = w.fx
  BY SetStatesSound
<1>3. u \in WorldType
  BY <1>2 DEF Sound
<1>4. CASE w.fx.phase # "begun"
  <2>1. v = [w EXCEPT !.ok = FALSE]
    BY <1>4 DEF D3dxBeginPass
  <2>2. v \in WorldType /\ v.j = w.j /\ v.nat = w.nat /\ v.fx = w.fx
    BY <1>1, <2>1 DEF WorldType
  <2> QED BY <2>2, SameJournalSound
<1>5. CASE w.fx.phase = "begun"
  <2>1. v = [u EXCEPT !.ok = a.ok, !.fx.phase = phase]
    BY <1>5 DEF D3dxBeginPass
  <2> HIDE DEF u
  <2>2. f \in Fx /\ f.phase \in {"begun", "pass"}
    BY <1>3 DEF WorldType, Fx
  <2>3. v = [u EXCEPT !.ok = a.ok, !.fx = f]
    BY <2>1, <1>3 DEF WorldType
  <2> HIDE DEF f
  <2>4. v \in WorldType /\ v.j = u.j /\ v.nat = u.nat /\ v.fx = f
    BY <1>1, <1>3, <2>2, <2>3 DEF WorldType
  <2> QED BY <1>2, <2>2, <2>4, SameJournalSound
<1> QED BY <1>4, <1>5

LEMMA D3dxCommitChangesSound ==
  ASSUME NEW e \in Effects, NEW t \in Threads, NEW a \in Attempts(e), NEW w, NEW other,
         Sound(w, other)
  PROVE  LET v == D3dxCommitChanges(w, t, a) IN
         /\ Sound(v, other)
         /\ Owns(v.j) = Owns(w.j)
         /\ v.fx = w.fx
<1> DEFINE v == D3dxCommitChanges(w, t, a)
           u == SetStates(w, t, a)
<1>1. w \in WorldType /\ a.ok \in BOOLEAN
  BY WrittenType DEF Sound, WorldType, Attempts
<1>2. Sound(u, other) /\ (Owns(u.j) = Owns(w.j)) /\ u.fx = w.fx
  BY SetStatesSound
<1>3. u \in WorldType
  BY <1>2 DEF Sound
<1> HIDE DEF u
<1>4. v = [w EXCEPT !.ok = FALSE] \/ v = [u EXCEPT !.ok = a.ok]
  BY DEF D3dxCommitChanges, u
<1>5. CASE v = [w EXCEPT !.ok = FALSE]
  <2>2. v \in WorldType /\ v.j = w.j /\ v.nat = w.nat /\ v.fx = w.fx
    BY <1>1, <1>5 DEF WorldType
  <2> QED BY <2>2, SameJournalSound
<1>6. CASE v = [u EXCEPT !.ok = a.ok]
  <2>2. v \in WorldType /\ v.j = u.j /\ v.nat = u.nat /\ v.fx = u.fx
    BY <1>1, <1>3, <1>6 DEF WorldType
  <2> QED BY <1>2, <2>2, SameJournalSound
<1> QED BY <1>4, <1>5, <1>6

LEMMA D3dxEndPassSound ==
  ASSUME NEW w, NEW other, Sound(w, other)
  PROVE  /\ Sound(D3dxEndPass(w), other)
         /\ D3dxEndPass(w).j = w.j
         /\ D3dxEndPass(w).fx.phase = w.fx.phase \/ D3dxEndPass(w).fx.phase = "begun"
<1> DEFINE v == D3dxEndPass(w)
           f == [w.fx EXCEPT !.phase = "begun"]
<1>1. w \in WorldType /\ w.fx \in Fx
  BY DEF Sound, WorldType
<1>2. CASE w.fx.phase # "pass"
  <2>1. v = [w EXCEPT !.ok = FALSE]
    BY <1>2 DEF D3dxEndPass
  <2>2. v \in WorldType /\ v.j = w.j /\ v.nat = w.nat /\ v.fx = w.fx
    BY <1>1, <2>1 DEF WorldType
  <2> QED BY <2>2, SameJournalSound
<1>3. CASE w.fx.phase = "pass"
  <2>1. v = [w EXCEPT !.ok = TRUE, !.fx = f]
    BY <1>1, <1>3 DEF D3dxEndPass, WorldType
  <2>2. f \in Fx /\ f.phase = "begun"
    BY <1>1 DEF Fx
  <2> HIDE DEF f
  <2>3. v \in WorldType /\ v.j = w.j /\ v.nat = w.nat /\ v.fx = f
    BY <1>1, <2>1, <2>2 DEF WorldType
  <2> QED BY <2>2, <2>3, SameJournalSound
<1> QED BY <1>2, <1>3

LEMMA D3dxEndSound ==
  ASSUME NEW w, NEW other, Sound(w, other)
  PROVE  /\ Sound(D3dxEnd(w), other)
         /\ D3dxEnd(w).j = w.j
<1> DEFINE v == D3dxEnd(w)
           dev == PutBack(w.fx.saved, w.dev)
           f == [phase |-> "idle", mode |-> "plain", saved |-> Nothing]
<1>1. w \in WorldType /\ w.fx.saved \in Saved /\ w.dev \in [Slots -> Values]
  BY DEF Sound, WorldType, Fx
<1>2. dev \in [Slots -> Values]
  BY <1>1, PutBackType
<1>3. f \in Fx
  BY DEF Fx, Nothing, Saved
<1> HIDE DEF dev, f
<1>4. v = [w EXCEPT !.ok = FALSE] \/ v = [w EXCEPT !.ok = TRUE, !.dev = dev, !.fx = f]
  BY DEF D3dxEnd, dev, f
<1>5. v \in WorldType /\ v.j = w.j /\ v.nat = w.nat
  BY <1>1, <1>2, <1>3, <1>4 DEF WorldType
<1> QED BY <1>5, SameJournalSound

\* The hooks' own note that a pass is running.
LEMMA PassActiveSound ==
  ASSUME NEW w, NEW other, Sound(w, other), NEW active \in BOOLEAN
  PROVE  LET v == [w EXCEPT !.j.passActive = active] IN
         Sound(v, other) /\ (Owns(v.j) = Owns(w.j)) /\ v.fx = w.fx
<1> DEFINE v == [w EXCEPT !.j.passActive = active]
           k == [w.j EXCEPT !.passActive = active]
<1>1. w \in WorldType /\ Stamped(w.j) /\ w.j \in Journal
  BY DEF Sound, WorldType
<1>2. v = [w EXCEPT !.j = k]
  BY <1>1 DEF WorldType
<1>3. /\ k \in Journal /\ k.active = w.j.active /\ k.native = w.j.native
      /\ k.stamp = w.j.stamp /\ k.captured = w.j.captured /\ k.generation = w.j.generation
  BY <1>1 DEF Journal
<1> HIDE DEF k, v
<1>4. v \in WorldType /\ v.j = k /\ v.nat = w.nat /\ v.fx = w.fx
  BY <1>1, <1>2, <1>3 DEF WorldType
<1>5. Stamped(k) /\ (Owns(k) = Owns(w.j))
  BY <1>3, <1>1 DEF Stamped, Owns
<1>6. Sound(v, other)
  BY <1>1, <1>4, <1>5, Zenon DEF Sound
<1> QED BY <1>4, <1>5, <1>6 DEF v

LEMMA EndPassCallSound ==
  ASSUME NEW w, NEW other, Sound(w, other)
  PROVE  /\ Sound(EndPassCall(w), other)
         /\ Owns(EndPassCall(w).j) = Owns(w.j)
         /\ EndPassCall(w).fx.phase = w.fx.phase \/ EndPassCall(w).fx.phase = "begun"
<1> DEFINE v == D3dxEndPass(w)
           u == [v EXCEPT !.j.passActive = FALSE]
<1>1. Sound(v, other) /\ v.j = w.j /\ (v.fx.phase = w.fx.phase \/ v.fx.phase = "begun")
  BY D3dxEndPassSound
<1>2. EndPassCall(w) = v \/ EndPassCall(w) = u
  BY DEF EndPassCall
<1> HIDE DEF v
<1>3. Sound(u, other) /\ (Owns(u.j) = Owns(v.j)) /\ u.fx = v.fx
  BY <1>1, PassActiveSound
<1> HIDE DEF u
<1> QED BY <1>1, <1>2, <1>3

LEMMA BeginPassCallSound ==
  ASSUME NEW e \in Effects, NEW t \in Threads, NEW a \in Attempts(e), NEW w, NEW other,
         Sound(w, other)
  PROVE  LET v == BeginPassCall(w, t, a) IN
         /\ Sound(v, other)
         /\ Owns(v.j) = Owns(w.j)
         /\ v.fx.phase = w.fx.phase \/ v.fx.phase \in {"begun", "pass"}
<1> DEFINE v == D3dxBeginPass(w, t, a)
           u == [v EXCEPT !.j.passActive = TRUE]
<1>1. /\ Sound(v, other) /\ (Owns(v.j) = Owns(w.j))
      /\ (v.fx.phase = w.fx.phase \/ v.fx.phase \in {"begun", "pass"})
  BY D3dxBeginPassSound
<1>2. BeginPassCall(w, t, a) = v \/ BeginPassCall(w, t, a) = u
  BY DEF BeginPassCall
<1> HIDE DEF v
<1>3. Sound(u, other) /\ (Owns(u.j) = Owns(v.j)) /\ u.fx = v.fx
  BY <1>1, PassActiveSound
<1> HIDE DEF u
<1> QED BY <1>1, <1>2, <1>3

-----------------------------------------------------------------------------
(* The inductive invariant: every effect finds a sound world, and owns the  *)
(* backend's journal only while D3DX has it begun.                          *)

Others(e) == ~ResetInside /\ \E f \in Effects \ {e} : Owns(journal[f])

Ready(w, other) == Sound(w, other) /\ (Owns(w.j) => w.fx.phase # "idle")

IInv == TypeOK /\ \A e \in Effects : Ready(World(e), Others(e))

LEMMA InitIInv == Init => IInv
<1> SUFFICES ASSUME Init PROVE IInv
  OBVIOUS
<1> DEFINE j0 == [active |-> FALSE, native |-> FALSE, disabled |-> FALSE, failed |-> FALSE,
                  passActive |-> FALSE, owner |-> None, generation |-> 1,
                  stamp |-> [s \in Slots |-> 0], captured |-> Nothing]
           f0 == [phase |-> "idle", mode |-> "plain", saved |-> Nothing]
<1>1. Nothing \in Saved
  BY DEF Nothing, Saved
<1>2. j0 \in Journal /\ Stamped(j0) /\ ~Owns(j0)
  BY <1>1 DEF Journal, Generation, Stamped, Owns
<1>3. f0 \in Fx
  BY <1>1 DEF Fx
<1>4. journal = [e \in Effects |-> j0] /\ fx = [e \in Effects |-> f0]
  BY DEF Init
<1>5. state \in [Slots -> Values] /\ backend \in [open : BOOLEAN, saved : Saved]
  BY <1>1 DEF Init
<1> HIDE DEF j0, f0
<1>6. TypeOK
  BY <1>2, <1>3, <1>4, <1>5 DEF TypeOK
<1>7. ASSUME NEW e \in Effects PROVE Ready(World(e), Others(e))
  <2>1. ~Others(e) /\ journal[e] = j0
    BY <1>2, <1>4 DEF Others
  <2>2. World(e) \in WorldType /\ World(e).j = j0
    BY <2>1, <1>6 DEF World, WorldType, TypeOK
  <2> QED BY <1>2, <2>1, <2>2, Zenon DEF Ready, Sound
<1> QED BY <1>6, <1>7 DEF IInv

LEMMA WorldReady ==
  ASSUME IInv, NEW e \in Effects
  PROVE  /\ Ready(World(e), Others(e)) /\ Sound(World(e), Others(e))
         /\ World(e).j = journal[e] /\ World(e).fx = fx[e]
BY DEF IInv, Ready, World

\* What one effect leaves sound for itself is sound for the others.
LEMMA SettleReady ==
  ASSUME IInv, NEW e \in Effects, NEW w, Ready(w, Others(e)), Settle(e, w)
  PROVE  IInv'
<1>1. Sound(w, Others(e)) /\ (Owns(w.j) => w.fx.phase # "idle")
  BY DEF Ready
<1>2. w \in WorldType
  BY <1>1 DEF Sound
<1>3. /\ state' = w.dev /\ backend' = w.nat
      /\ journal' = [journal EXCEPT ![e] = w.j] /\ fx' = [fx EXCEPT ![e] = w.fx]
  BY DEF Settle
<1>4. TypeOK'
  BY <1>2, <1>3 DEF IInv, TypeOK, WorldType
<1>5. /\ journal'[e] = w.j /\ fx'[e] = w.fx
      /\ \A f \in Effects \ {e} : journal'[f] = journal[f] /\ fx'[f] = fx[f]
  BY <1>3 DEF IInv, TypeOK
<1>6. ASSUME NEW f \in Effects PROVE Ready(World(f), Others(f))'
  <2>1. /\ World(f)' \in WorldType /\ World(f)'.j = journal'[f] /\ World(f)'.nat = w.nat
        /\ World(f)'.fx = fx'[f]
    BY <1>3, <1>4 DEF World, WorldType, TypeOK
  <2>2. CASE f = e
    <3>1. Others(e)' = Others(e)
      BY <1>5 DEF Others
    <3>2. Sound(World(e)', Others(e)')
      BY <1>1, <1>5, <2>1, <2>2, <3>1, SameJournalSound
    <3> QED BY <1>1, <1>5, <2>1, <2>2, <3>2 DEF Ready
  <2>3. CASE f # e
    <3>1. Ready(World(f), Others(f)) /\ World(f).j = journal[f] /\ World(f).fx = fx[f]
      BY WorldReady
    <3>2. /\ Stamped(journal[f]) /\ (Others(f) => ~Owns(journal[f]))
          /\ (Owns(journal[f]) => fx[f].phase # "idle")
      BY <3>1, Zenon DEF Ready, Sound
    <3>3. ~ResetInside /\ Owns(journal[f]) => w.nat.open
      <4>1. ~ResetInside /\ Owns(journal[f]) => Others(e)
        BY <2>3 DEF Others
      <4> QED BY <4>1, <1>1, Zenon DEF Sound
    <3>4. ASSUME Others(f)' PROVE w.nat.open /\ ~Owns(journal[f])
      <4>1. ~ResetInside
        BY <3>4 DEF Others
      <4>2. PICK g \in Effects \ {f} : Owns(journal'[g])
        BY <3>4 DEF Others
      <4>3. CASE g = e
        <5>1. Owns(w.j)
          BY <1>5, <4>2, <4>3
        <5>2. w.nat.open /\ ~Others(e)
          BY <1>1, <4>1, <5>1, Zenon DEF Sound
        <5> QED BY <5>2, <4>1, <2>3 DEF Others
      <4>4. CASE g # e
        <5>1. Owns(journal[g])
          BY <1>5, <4>2, <4>4
        <5>2. Others(e) /\ Others(f)
          BY <4>1, <4>2, <4>4, <5>1 DEF Others
        <5> QED BY <1>1, <3>2, <5>2, Zenon DEF Sound
      <4> QED BY <4>3, <4>4
    <3>5. journal'[f] = journal[f] /\ fx'[f] = fx[f]
      BY <1>5, <2>3
    <3>6. Sound(World(f)', Others(f)')
      BY <2>1, <3>2, <3>3, <3>4, <3>5, Zenon DEF Sound
    <3> QED BY <2>1, <3>2, <3>5, <3>6 DEF Ready
  <2> QED BY <2>2, <2>3
<1> QED BY <1>4, <1>6 DEF IInv

-----------------------------------------------------------------------------
(* The handlers.                                                            *)

LEMMA BaselineBeginReady ==
  ASSUME IInv, NEW e \in Effects, NEW t \in Threads, NEW w, Sound(w, Others(e)), ~Owns(w.j),
         BaselineBegin(e, w, t)
  PROVE  IInv'
<1>1. PICK a \in Baselines(e) : Settle(e, D3dxBegin(w, t, a, e, "saving"))
  BY DEF BaselineBegin
<1>2. a \in Attempts(e)
  BY DEF Baselines
<1> DEFINE v == D3dxBegin(w, t, a, e, "saving")
<1>3. Sound(v, Others(e)) /\ ~Owns(v.j)
  BY <1>2, D3dxBeginSound
<1> HIDE DEF v
<1>4. Ready(v, Others(e))
  BY <1>3 DEF Ready
<1>5. Settle(e, v)
  BY <1>1 DEF v
<1> QED BY <1>4, <1>5, SettleReady

LEMMA BeginFallbackReady ==
  ASSUME IInv, NEW e \in Effects, NEW t \in Threads, NEW w, Sound(w, Others(e)),
         BeginFallback(e, w, t)
  PROVE  IInv'
<1> DEFINE ended == IF w.ok THEN D3dxEnd(w) ELSE w
           restored(lost) == Restore(ended, t, lost)
           disabled(lost) == Disable(restored(lost), t, {})
<1>1. PICK lost \in Losses(w.j) :
        IF restored(lost).ok THEN BaselineBegin(e, disabled(lost), t)
        ELSE Settle(e, disabled(lost))
  BY DEF BeginFallback
<1>2. Sound(ended, Others(e))
  BY D3dxEndSound
<1> HIDE DEF ended
<1>3. Sound(restored(lost), Others(e)) /\ ~Owns(restored(lost).j)
  BY <1>2, RestoreSound
<1> HIDE DEF restored
<1>4. Sound(disabled(lost), Others(e)) /\ ~Owns(disabled(lost).j)
  BY <1>3, DisableSound
<1> HIDE DEF disabled
<1>5. Ready(disabled(lost), Others(e))
  BY <1>4 DEF Ready
<1> QED BY <1>1, <1>4, <1>5, BaselineBeginReady, SettleReady

LEMMA RestartBaselineReady ==
  ASSUME IInv, NEW e \in Effects, NEW t \in Threads, NEW w, Sound(w, Others(e)),
         RestartBaseline(e, w, t)
  PROVE  IInv'
<1> DEFINE passed == IF w.j.passActive THEN EndPassCall(w) ELSE w
           ended == D3dxEnd(passed)
           restored(lost) == Restore(ended, t, lost)
           disabled(lost) == Disable(restored(lost), t, {})
           block(lost) == [s \in Slots |-> IF s \in Footprint[e] THEN disabled(lost).dev[s] ELSE None]
           f(lost) == [phase |-> "begun", mode |-> "saving", saved |-> block(lost)]
           begun(lost) == [disabled(lost) EXCEPT !.ok = TRUE, !.fx = f(lost)]
<1>1. PICK lost \in Losses(w.j), begins \in BOOLEAN :
        IF restored(lost).ok /\ begins
        THEN \E a \in Baselines(e) : Settle(e, D3dxBeginPass(begun(lost), t, a))
        ELSE Settle(e, disabled(lost))
  BY DEF RestartBaseline
<1>2. Sound(passed, Others(e))
  BY EndPassCallSound
<1> HIDE DEF passed
<1>3. Sound(ended, Others(e))
  BY <1>2, D3dxEndSound
<1> HIDE DEF ended
<1>4. Sound(restored(lost), Others(e)) /\ ~Owns(restored(lost).j)
  BY <1>3, RestoreSound
<1> HIDE DEF restored
<1>5. Sound(disabled(lost), Others(e)) /\ ~Owns(disabled(lost).j)
  BY <1>4, DisableSound
<1> HIDE DEF disabled
<1>6. CASE Settle(e, disabled(lost))
  <2>1. Ready(disabled(lost), Others(e))
    BY <1>5 DEF Ready
  <2> QED BY <1>6, <2>1, SettleReady
<1>7. CASE \E a \in Baselines(e) : Settle(e, D3dxBeginPass(begun(lost), t, a))
  <2>1. disabled(lost) \in WorldType
    BY <1>5 DEF Sound
  <2>2. f(lost) \in Fx
    <3>1. block(lost) \in Saved
      BY <2>1 DEF WorldType, Saved
    <3> HIDE DEF block
    <3> QED BY <3>1 DEF Fx
  <2> HIDE DEF f
  <2>3. /\ begun(lost) \in WorldType /\ begun(lost).j = disabled(lost).j
        /\ begun(lost).nat = disabled(lost).nat
    BY <2>1, <2>2 DEF WorldType
  <2>4. Sound(begun(lost), Others(e)) /\ ~Owns(begun(lost).j)
    BY <1>5, <2>3, SameJournalSound
  <2> HIDE DEF begun
  <2>5. PICK a \in Baselines(e) : Settle(e, D3dxBeginPass(begun(lost), t, a))
    BY <1>7
  <2>6. a \in Attempts(e)
    BY DEF Baselines
  <2> DEFINE v == D3dxBeginPass(begun(lost), t, a)
  <2>7. Sound(v, Others(e)) /\ ~Owns(v.j)
    BY <2>4, <2>6, D3dxBeginPassSound
  <2>8. Settle(e, v)
    BY <2>5
  <2> HIDE DEF v
  <2>9. Ready(v, Others(e))
    BY <2>7 DEF Ready
  <2> QED BY <2>8, <2>9, SettleReady
<1> QED BY <1>1, <1>6, <1>7

LEMMA SettledReady ==
  ASSUME IInv, NEW e \in Effects, NEW t \in Threads, NEW w, Ready(w, Others(e)),
         Settled(e, w, t)
  PROVE  IInv'
<1>1. Sound(w, Others(e))
  BY DEF Ready
<1>2. RestartBaseline(e, w, t) \/ Settle(e, w)
  BY DEF Settled
<1> QED BY <1>1, <1>2, RestartBaselineReady, SettleReady

LEMMA BeginReady ==
  ASSUME IInv, NEW e \in Effects, NEW t \in Threads, NEW saving \in BOOLEAN, Begin(e, t, saving)
  PROVE  IInv'
<1>1. /\ Sound(World(e), Others(e)) /\ (Owns(World(e).j) => World(e).fx.phase # "idle")
      /\ World(e).j = journal[e] /\ World(e).fx = fx[e]
  BY WorldReady DEF Ready
<1>2. CASE \E a \in Attempts(e) :
             Settle(e, D3dxBegin(World(e), t, a, e, IF saving THEN "saving" ELSE "plain"))
  <2> DEFINE mode == IF saving THEN "saving" ELSE "plain"
  <2>1. PICK a \in Attempts(e) : Settle(e, D3dxBegin(World(e), t, a, e, mode))
    BY <1>2
  <2>2. mode \in {"saving", "plain", "journaled"}
    OBVIOUS
  <2> DEFINE v == D3dxBegin(World(e), t, a, e, mode)
  <2> HIDE DEF mode
  <2>3. /\ Sound(v, Others(e)) /\ (Owns(v.j) = Owns(World(e).j))
        /\ (v.fx.phase = World(e).fx.phase \/ v.fx.phase = "begun")
    BY <1>1, <2>2, D3dxBeginSound
  <2>4. Settle(e, v)
    BY <2>1
  <2> HIDE DEF v
  <2>5. Ready(v, Others(e))
    BY <1>1, <2>3 DEF Ready
  <2> QED BY <2>4, <2>5, SettleReady
<1>3. CASE JournaledBegin(e, t)
  <2> DEFINE begun == BeginTransaction(World(e), t, {})
             w(a) == D3dxBegin(begun, t, a, e, "journaled")
  <2>1. PICK a \in Attempts(e) :
          IF w(a).ok /\ ~w(a).j.failed THEN Settle(e, w(a)) ELSE BeginFallback(e, w(a), t)
    BY <1>3 DEF JournaledBegin
  <2>2. Sound(begun, Others(e))
    BY <1>1, BeginTransactionSound
  <2> HIDE DEF begun
  <2>3. Sound(w(a), Others(e)) /\ (w(a).ok => w(a).fx.phase = "begun")
    BY <2>2, D3dxBeginSound
  <2> HIDE DEF w
  <2>4. CASE w(a).ok /\ Settle(e, w(a))
    <3>1. Ready(w(a), Others(e))
      BY <2>3, <2>4 DEF Ready
    <3> QED BY <2>4, <3>1, SettleReady
  <2>5. CASE BeginFallback(e, w(a), t)
    BY <2>3, <2>5, BeginFallbackReady
  <2> QED BY <2>1, <2>4, <2>5
<1>4. CASE RefusedBegin(e, t)
  <2> DEFINE begun(lost) == BeginTransaction(World(e), t, lost)
  <2>1. PICK lost \in Losses(journal[e]) :
          /\ ~begun(lost).ok
          /\ Settle(e, IF begun(lost).j.failed \/ e \in Direct
                       THEN Disable(begun(lost), t, {}) ELSE begun(lost))
    BY <1>4 DEF RefusedBegin
  <2>2. /\ Sound(begun(lost), Others(e)) /\ begun(lost).fx = World(e).fx
        /\ (Owns(begun(lost).j) => Owns(World(e).j))
    BY <1>1, <2>1, BeginTransactionSound
  <2> HIDE DEF begun
  <2> DEFINE d == Disable(begun(lost), t, {})
  <2>3. Sound(d, Others(e)) /\ d.fx = begun(lost).fx /\ (Owns(d.j) => Owns(begun(lost).j))
    BY <2>2, DisableSound
  <2>4. Settle(e, d) \/ Settle(e, begun(lost))
    BY <2>1
  <2> HIDE DEF d
  <2>5. Ready(d, Others(e)) /\ Ready(begun(lost), Others(e))
    BY <1>1, <2>2, <2>3 DEF Ready
  <2> QED BY <2>4, <2>5, SettleReady
<1> QED BY <1>2, <1>3, <1>4 DEF Begin

LEMMA PassReady ==
  ASSUME IInv, NEW e \in Effects, NEW t \in Threads, BeginPass(e, t) \/ CommitChanges(e, t)
  PROVE  IInv'
<1> DEFINE w == CaptureScope(World(e))
<1>1. /\ Sound(w, Others(e)) /\ (Owns(w.j) = Owns(World(e).j)) /\ w.fx = fx[e]
      /\ (Owns(World(e).j) => fx[e].phase # "idle")
  BY WorldReady, CaptureScopeSound DEF Ready
<1>2. \/ RestartBaseline(e, w, t)
      \/ \E a \in Attempts(e) : \/ Settled(e, BeginPassCall(w, t, a), t)
                                \/ Settled(e, D3dxCommitChanges(w, t, a), t)
  BY DEF BeginPass, CommitChanges
<1> HIDE DEF w
<1>3. CASE RestartBaseline(e, w, t)
  BY <1>1, <1>3, RestartBaselineReady
<1>4. ASSUME NEW a \in Attempts(e), Settled(e, BeginPassCall(w, t, a), t) PROVE IInv'
  <2> DEFINE v == BeginPassCall(w, t, a)
  <2>1. /\ Sound(v, Others(e)) /\ (Owns(v.j) = Owns(w.j))
        /\ (v.fx.phase = w.fx.phase \/ v.fx.phase \in {"begun", "pass"})
    BY <1>1, BeginPassCallSound
  <2>2. Settled(e, v, t)
    BY <1>4
  <2> HIDE DEF v
  <2>3. Ready(v, Others(e))
    BY <1>1, <2>1 DEF Ready
  <2> QED BY <2>2, <2>3, SettledReady
<1>5. ASSUME NEW a \in Attempts(e), Settled(e, D3dxCommitChanges(w, t, a), t) PROVE IInv'
  <2> DEFINE v == D3dxCommitChanges(w, t, a)
  <2>1. Sound(v, Others(e)) /\ (Owns(v.j) = Owns(w.j)) /\ v.fx = w.fx
    BY <1>1, D3dxCommitChangesSound
  <2>2. Settled(e, v, t)
    BY <1>5
  <2> HIDE DEF v
  <2>3. Ready(v, Others(e))
    BY <1>1, <2>1 DEF Ready
  <2> QED BY <2>2, <2>3, SettledReady
<1> QED BY <1>2, <1>3, <1>4, <1>5

LEMMA EndPassReady ==
  ASSUME IInv, NEW e \in Effects, EndPass(e)
  PROVE  IInv'
<1> DEFINE v == EndPassCall(World(e))
<1>1. /\ Sound(v, Others(e)) /\ (v.fx.phase = fx[e].phase \/ v.fx.phase = "begun")
  BY WorldReady, EndPassCallSound
<1>2. Settle(e, v) /\ fx[e].phase = "pass"
  BY DEF EndPass
<1> HIDE DEF v
<1>3. Ready(v, Others(e))
  BY <1>1, <1>2 DEF Ready
<1> QED BY <1>2, <1>3, SettleReady

LEMMA EndReady ==
  ASSUME IInv, NEW e \in Effects, NEW t \in Threads, End(e, t)
  PROVE  IInv'
<1> DEFINE scope == CaptureScope(World(e))
           ended == IF scope.ok THEN D3dxEnd(scope) ELSE scope
           restored(lost) == Restore(ended, t, lost)
           disabled(lost) == Disable(restored(lost), t, {})
<1>1. Sound(scope, Others(e))
  BY WorldReady, CaptureScopeSound
<1>2. \/ ~ended.j.active /\ Settle(e, ended)
      \/ \E lost \in Losses(ended.j) : Settle(e, disabled(lost)) \/ Settle(e, restored(lost))
  BY DEF End
<1> HIDE DEF scope
<1>3. Sound(ended, Others(e))
  BY <1>1, D3dxEndSound
<1> HIDE DEF ended
<1>4. CASE ~ended.j.active /\ Settle(e, ended)
  <2>1. Ready(ended, Others(e))
    BY <1>3, <1>4 DEF Ready, Owns
  <2> QED BY <1>4, <2>1, SettleReady
<1>5. ASSUME NEW lost \in Losses(ended.j), Settle(e, disabled(lost)) \/ Settle(e, restored(lost))
      PROVE IInv'
  <2>1. Sound(restored(lost), Others(e)) /\ ~Owns(restored(lost).j)
    BY <1>3, RestoreSound
  <2>2. Settle(e, disabled(lost)) \/ Settle(e, restored(lost))
    BY <1>5
  <2> HIDE DEF restored
  <2>3. Sound(disabled(lost), Others(e)) /\ ~Owns(disabled(lost).j)
    BY <2>1, DisableSound
  <2> HIDE DEF disabled
  <2>4. Ready(restored(lost), Others(e)) /\ Ready(disabled(lost), Others(e))
    BY <2>1, <2>3 DEF Ready
  <2> QED BY <2>2, <2>4, SettleReady
<1> QED BY <1>2, <1>4, <1>5

\* The game writes the device, or resets it.
LEMMA DeviceReady ==
  ASSUME IInv, Reset \/ \E s \in Slots, v \in Values : SetState(s, v)
  PROVE  IInv'
<1>1. state' \in [Slots -> Values] /\ journal' = journal /\ fx' = fx
  BY DEF IInv, TypeOK, SetState, Reset
<1>2. backend' \in [open : BOOLEAN, saved : Saved]
  <2>1. CASE Reset
    <3>1. Nothing \in Saved
      BY DEF Nothing, Saved
    <3> QED BY <2>1, <3>1 DEF Reset
  <2>2. CASE \E s \in Slots, v \in Values : SetState(s, v)
    BY <2>2 DEF IInv, TypeOK, SetState
  <2> QED BY <2>1, <2>2
<1>3. TypeOK'
  BY <1>1, <1>2 DEF IInv, TypeOK
<1>4. ASSUME NEW e \in Effects PROVE Ready(World(e), Others(e))'
  <2>1. /\ World(e)' \in WorldType /\ World(e)'.j = journal[e] /\ World(e)'.fx = fx[e]
        /\ World(e)'.nat = backend' /\ (Others(e)' = Others(e))
    BY <1>1, <1>3 DEF World, WorldType, TypeOK, Others
  <2>2. Ready(World(e), Others(e)) /\ World(e).j = journal[e] /\ World(e).nat = backend /\ World(e).fx = fx[e]
    BY WorldReady DEF World
  <2>3. /\ Stamped(journal[e]) /\ (Owns(journal[e]) => fx[e].phase # "idle")
        /\ (~ResetInside /\ Owns(journal[e]) => backend.open)
        /\ (Others(e) => backend.open /\ ~Owns(journal[e]))
    BY <2>2, Zenon DEF Ready, Sound
  <2>4. CASE backend' = backend
    <3>1. Sound(World(e)', Others(e)')
      BY <2>1, <2>3, <2>4, Zenon DEF Sound
    <3> QED BY <2>1, <2>3, <3>1 DEF Ready
  <2>5. CASE Reset
    <3>1. ~ResetInside => ~Owns(journal[e])
      BY <2>3, <2>5 DEF Reset
    <3>2. ~Others(e)
      <4>1. SUFFICES ASSUME Others(e) PROVE FALSE
        OBVIOUS
      <4>2. ~ResetInside
        BY <4>1 DEF Others
      <4>3. PICK f \in Effects \ {e} : Owns(journal[f])
        BY <4>1 DEF Others
      <4>4. fx[f].phase # "idle"
        BY <4>3, WorldReady DEF Ready
      <4> QED BY <2>5, <4>2, <4>4 DEF Reset
    <3>3. Sound(World(e)', Others(e)')
      BY <2>1, <2>3, <3>1, <3>2, Zenon DEF Sound
    <3> QED BY <2>1, <2>3, <3>3 DEF Ready
  <2> QED BY <2>4, <2>5 DEF SetState
<1> QED BY <1>3, <1>4 DEF IInv

LEMMA NextIInv == IInv /\ [Next]_vars => IInv'
<1> SUFFICES ASSUME IInv, [Next]_vars PROVE IInv'
  OBVIOUS
<1>1. CASE \E e \in Effects, t \in Threads, saving \in BOOLEAN : Begin(e, t, saving)
  BY <1>1, BeginReady
<1>2. CASE \E e \in Effects, t \in Threads : BeginPass(e, t)
  BY <1>2, PassReady
<1>3. CASE \E e \in Effects, t \in Threads : CommitChanges(e, t)
  BY <1>3, PassReady
<1>4. CASE \E e \in Effects : EndPass(e)
  BY <1>4, EndPassReady
<1>5. CASE \E e \in Effects, t \in Threads : End(e, t)
  BY <1>5, EndReady
<1>6. CASE \E s \in Slots, v \in Values : SetState(s, v)
  BY <1>6, DeviceReady
<1>7. CASE Reset
  BY <1>7, DeviceReady
<1>8. CASE UNCHANGED vars
  BY <1>8 DEF vars, IInv, TypeOK, Ready, Sound, World, Others
<1> QED BY <1>1, <1>2, <1>3, <1>4, <1>5, <1>6, <1>7, <1>8 DEF Next

\* The journals, the effects and the device are always of their types.
\* Code: the fields of ProperShadersStateJournal.
THEOREM TypeCorrect == Spec => []TypeOK
<1>1. IInv => TypeOK
  BY DEF IInv
<1> QED BY <1>1, InitIInv, NextIInv, PTL DEF Spec

\* Across any number of transactions and wraps of the generation, a slot is
\* stamped as captured exactly when this transaction captured it, so first
\* touch is never missed and nothing stale is replayed.  Code:
\* AdvanceGeneration and the first-touch tests of the setters.
THEOREM StampsAlwaysCurrent == Spec => []StampsCurrent
<1>1. IInv => StampsCurrent
  <2> SUFFICES ASSUME IInv, NEW e \in Effects, NEW s \in Slots,
                      journal[e].active, ~journal[e].native
               PROVE  journal[e].stamp[s] = journal[e].generation <=> journal[e].captured[s] # None
    BY DEF StampsCurrent
  <2>1. Stamped(journal[e])
    BY WorldReady DEF Sound
  <2> QED BY <2>1 DEF Stamped
<1> QED BY <1>1, InitIInv, NextIInv, PTL DEF Spec

\* Unless the game resets the device inside an effect, at most one effect has
\* the backend's journal, and has it open.  Code: the grant and the refusal
\* in BeginTransaction, and every path that ends a transaction.
THEOREM OneOwner ==
  ASSUME ~ResetInside
  PROVE  Spec => []OneBackendOwner
<1>1. IInv => OneBackendOwner
  <2> SUFFICES ASSUME IInv, NEW e \in Effects, Owns(journal[e])
               PROVE  /\ backend.open
                      /\ \A f \in Effects \ {e} : ~Owns(journal[f])
    BY DEF OneBackendOwner, Owns
  <2>1. Sound(World(e), Others(e)) /\ World(e).j = journal[e] /\ World(e).nat = backend
    BY WorldReady DEF World
  <2>2. backend.open /\ ~Others(e)
    BY <2>1, Zenon DEF Sound
  <2> QED BY <2>2 DEF Others
<1> QED BY <1>1, InitIInv, NextIInv, PTL DEF Spec

-----------------------------------------------------------------------------
(* What a disabled or a lost journal may still become, and what the effect  *)
(* itself always satisfies, carried through the calls of a handler.         *)

\* The backend has discarded the journal, and the effect does not know it yet
\* or has ended its transaction and reported it.
Lost(w) == (Owns(w.j) /\ ~w.nat.open) \/ (w.j.disabled /\ w.j.failed /\ ~Owns(w.j))

\* The backend's journal is open, and not for this effect.
Foreign(w) == w.nat.open /\ ~Owns(w.j)

\* An idle effect saves nothing; a saving one has saved its footprint.
FxSound(e, f) ==
  /\ f.phase = "idle" => f.mode = "plain"
  /\ \A s \in Slots : f.saved[s] # None <=> f.mode = "saving" /\ s \in Footprint[e]

\* What one call leaves to the next.
Carries(e, w, v) ==
  /\ w.j.disabled =>
       /\ v.j.disabled
       /\ v.j.active => w.j.active /\ v.j.captured = w.j.captured
  /\ Lost(w) => Lost(v)
  /\ Foreign(v) => Foreign(w)
  /\ FxSound(e, w.fx) => FxSound(e, v.fx)

\* What a handler's calls carry, the handler carries.
LEMMA CarriesOn ==
  ASSUME NEW e, NEW u, NEW v, NEW w, Carries(e, u, v), Carries(e, v, w)
  PROVE  Carries(e, u, w)
BY DEF Carries

\* A call that changes nothing a handler relies on carries everything.
LEMMA SameCarries ==
  ASSUME NEW e, NEW w, NEW v,
         v.j.disabled = w.j.disabled, v.j.active = w.j.active, v.j.native = w.j.native,
         v.j.captured = w.j.captured \/ ~w.j.disabled, w.j.failed => v.j.failed,
         v.nat.open = w.nat.open, v.fx = w.fx
  PROVE  Carries(e, w, v)
BY Zenon DEF Carries, Lost, Foreign, Owns

\* The state manager's setters leave the journal as open as it was, and capture
\* only into one that is not disabled.
LEMMA SetStatesCarries ==
  ASSUME NEW e, NEW t, NEW a, NEW w \in WorldType
  PROVE  LET v == SetStates(w, t, a) IN
         /\ Carries(e, w, v)
         /\ v.fx = w.fx /\ v.nat.open = w.nat.open
         /\ v.j.disabled = w.j.disabled /\ v.j.active = w.j.active /\ v.j.native = w.j.native
<1> DEFINE v == SetStates(w, t, a)
<1>1. w.j \in Journal /\ w.nat \in [open : BOOLEAN, saved : Saved]
  BY DEF WorldType
<1>2. CASE ~w.j.active
  <2>1. v = [w EXCEPT !.dev = Written(a, w.dev)]
    BY <1>2 DEF SetStates
  <2>2. v.j = w.j /\ v.nat = w.nat /\ v.fx = w.fx
    BY <2>1 DEF WorldType
  <2> QED BY <2>2, SameCarries
<1>3. CASE w.j.active /\ (w.j.disabled \/ w.j.owner # t)
  <2> DEFINE k == [w.j EXCEPT !.failed = TRUE]
  <2>1. v = w \/ v = [w EXCEPT !.j = k]
    BY <1>3 DEF SetStates, WorldType
  <2>2. /\ k.disabled = w.j.disabled /\ k.active = w.j.active /\ k.native = w.j.native
        /\ k.captured = w.j.captured /\ k.failed
    BY <1>1 DEF Journal
  <2> HIDE DEF k
  <2>3. v = w \/ (v.j = k /\ v.nat = w.nat /\ v.fx = w.fx)
    BY <2>1 DEF WorldType
  <2> QED BY <2>2, <2>3, SameCarries
<1>4. CASE w.j.active /\ ~w.j.disabled /\ w.j.owner = t
  <2> DEFINE k == Recorded(w, a)
             n == IF w.j.native THEN NativeCapture(w.nat, DOMAIN a.write, w.dev) ELSE w.nat
             c == IF w.j.native THEN w.j
                  ELSE Capture(w.j, DOMAIN a.write \union a.readable, w.dev)
  <2>1. v = [w EXCEPT !.dev = Written(a, w.dev), !.nat = n, !.j = k]
    BY <1>4 DEF SetStates
  <2>2. n.open = w.nat.open
    BY <1>1 DEF NativeCapture
  <2>3. k = [c EXCEPT !.failed = w.j.failed \/ a.refused # {}]
    BY DEF Recorded
  <2>4. c.disabled = w.j.disabled /\ c.active = w.j.active /\ c.native = w.j.native
        /\ DOMAIN c = DOMAIN w.j /\ c = [f \in DOMAIN c |-> c[f]]
    BY <1>1 DEF Capture, Journal
  <2> HIDE DEF c
  <2>5. /\ k.disabled = w.j.disabled /\ k.active = w.j.active /\ k.native = w.j.native
        /\ w.j.failed => k.failed
    BY <1>1, <2>3, <2>4 DEF Journal
  <2> HIDE DEF k, n
  <2>6. v.j = k /\ v.nat = n /\ v.fx = w.fx
    BY <2>1 DEF WorldType
  <2> QED BY <1>4, <2>2, <2>5, <2>6, SameCarries
<1> QED BY <1>1, <1>2, <1>3, <1>4 DEF Journal

\* What finishing and distrusting do to a journal.
LEMMA FinishedFields ==
  ASSUME NEW j \in Journal
  PROVE  /\ Finished(j) \in Journal
         /\ ~Finished(j).active /\ ~Finished(j).native /\ Finished(j).captured = Nothing
         /\ Finished(j).disabled = j.disabled /\ Finished(j).failed = j.failed
<1>1. Nothing \in Saved
  BY DEF Nothing, Saved
<1>2. Finished(j) = [j EXCEPT !.active = FALSE, !.native = FALSE, !.passActive = FALSE,
                              !.captured = Nothing]
  BY DEF Finished, ClearJournal
<1> QED BY <1>1, <1>2 DEF Journal

LEMMA DistrustedFields ==
  ASSUME NEW w \in WorldType
  PROVE  LET v == Distrusted(w) IN
         /\ v \in WorldType
         /\ v.j.disabled /\ v.j.failed /\ ~v.ok
         /\ v.j.active = w.j.active /\ v.j.native = w.j.native /\ v.j.captured = w.j.captured
         /\ v.nat = w.nat /\ v.fx = w.fx /\ v.dev = w.dev
<1> DEFINE k == [w.j EXCEPT !.disabled = TRUE, !.failed = TRUE]
<1>1. w.j \in Journal
  BY DEF WorldType
<1>2. Distrusted(w) = [w EXCEPT !.j = k, !.ok = FALSE]
  BY DEF Distrusted, WorldType
<1>3. /\ k \in Journal /\ k.active = w.j.active /\ k.native = w.j.native
      /\ k.captured = w.j.captured /\ k.disabled /\ k.failed
  BY <1>1 DEF Journal
<1> HIDE DEF k
<1> QED BY <1>2, <1>3 DEF WorldType

LEMMA RestoreNativeCarries ==
  ASSUME NEW e, NEW w \in WorldType, Owns(w.j)
  PROVE  LET v == RestoreNative(w) IN
         Carries(e, w, v) /\ ~v.j.active /\ v.fx = w.fx
<1> DEFINE k == Finished(w.j)
           done == [w EXCEPT !.j = k, !.ok = TRUE]
           closed == [open |-> FALSE, saved |-> Nothing]
           r == [done EXCEPT !.dev = PutBack(w.nat.saved, w.dev), !.nat = closed]
           v == RestoreNative(w)
<1>1. w.j \in Journal
  BY DEF WorldType
<1>2. k \in Journal /\ ~k.active /\ ~k.native /\ k.disabled = w.j.disabled /\ k.failed = w.j.failed
  BY <1>1, FinishedFields
<1> HIDE DEF k
<1>3. done \in WorldType /\ done.j = k /\ done.fx = w.fx /\ done.nat = w.nat
  BY <1>2 DEF WorldType
<1>4. CASE w.nat.open
  <2>1. v = r
    BY <1>4 DEF RestoreNative, k
  <2> HIDE DEF done, closed
  <2>2. r.j = k /\ r.fx = w.fx /\ r.nat = closed
    BY <1>3 DEF WorldType
  <2>3. ~r.nat.open
    BY <2>2 DEF closed
  <2>4. Carries(e, w, r)
    BY <1>2, <1>4, <2>2, <2>3, Zenon DEF Carries, Lost, Foreign, Owns
  <2> QED BY <1>2, <2>1, <2>2, <2>4
<1>5. CASE ~w.nat.open
  <2>1. v = Distrusted(done)
    BY <1>5 DEF RestoreNative, k
  <2> HIDE DEF done, v
  <2>2. v.j.disabled /\ v.j.failed /\ ~v.j.active /\ v.fx = w.fx /\ v.nat = w.nat
    BY <1>2, <1>3, <2>1, DistrustedFields
  <2>3. Carries(e, w, v)
    BY <1>5, <2>2, Zenon DEF Carries, Lost, Foreign, Owns
  <2> QED BY <2>2, <2>3 DEF v
<1> QED BY <1>4, <1>5

LEMMA RestoreLocalCarries ==
  ASSUME NEW e, NEW w \in WorldType, ~Owns(w.j), NEW lost
  PROVE  LET v == RestoreLocal(w, lost) IN
         Carries(e, w, v) /\ ~v.j.active /\ v.fx = w.fx
<1> DEFINE k == Finished(w.j)
           dev == PutBack(Replayed(w.j, lost), w.dev)
           done == [w EXCEPT !.dev = dev, !.j = k, !.ok = TRUE]
           v == RestoreLocal(w, lost)
<1>1. w.j \in Journal
  BY DEF WorldType
<1>2. k \in Journal /\ ~k.active /\ ~k.native /\ k.disabled = w.j.disabled /\ k.failed = w.j.failed
  BY <1>1, FinishedFields
<1>3. dev \in [Slots -> Values]
  <2>1. Replayed(w.j, lost) \in Saved
    BY <1>1 DEF Replayed, Saved, Journal
  <2>2. w.dev \in [Slots -> Values]
    BY DEF WorldType
  <2> QED BY <2>1, <2>2, PutBackType
<1>4. v = done \/ v = Distrusted(done)
  BY DEF RestoreLocal
<1> HIDE DEF k, dev
<1>5. done \in WorldType /\ done.j = k /\ done.fx = w.fx /\ done.nat = w.nat
  BY <1>2, <1>3 DEF WorldType
<1> HIDE DEF done
<1>6. /\ Distrusted(done).j.disabled /\ Distrusted(done).j.failed
      /\ Distrusted(done).j.active = k.active /\ Distrusted(done).fx = w.fx
      /\ Distrusted(done).nat = w.nat
  BY <1>5, DistrustedFields
<1> HIDE DEF v
<1>7. /\ ~v.j.active /\ v.fx = w.fx /\ v.nat = w.nat
      /\ (w.j.disabled => v.j.disabled) /\ (w.j.failed => v.j.failed)
  BY <1>2, <1>4, <1>5, <1>6
<1>8. Carries(e, w, v)
  BY <1>7, Zenon DEF Carries, Lost, Foreign, Owns
<1> QED BY <1>7, <1>8 DEF v

\* A restore that succeeds leaves no transaction open.
LEMMA RestoreCarries ==
  ASSUME NEW e, NEW w \in WorldType, NEW t, NEW lost
  PROVE  LET v == Restore(w, t, lost) IN
         Carries(e, w, v) /\ (v.ok => ~v.j.active) /\ v.fx = w.fx
<1> DEFINE v == Restore(w, t, lost)
<1>1. w.j \in Journal /\ w.j.active \in BOOLEAN /\ w.j.native \in BOOLEAN
  BY DEF WorldType, Journal
<1>2. CASE ~w.j.active
  <2>1. v = [w EXCEPT !.ok = TRUE]
    BY <1>2 DEF Restore
  <2>2. v.j = w.j /\ v.nat = w.nat /\ v.fx = w.fx
    BY <2>1 DEF WorldType
  <2> HIDE DEF v
  <2>3. Carries(e, w, v)
    BY <2>2, SameCarries
  <2> QED BY <1>2, <2>2, <2>3 DEF v
<1>3. CASE w.j.active /\ w.j.native
  <2>1. v = RestoreNative(w) /\ Owns(w.j)
    BY <1>3 DEF Restore, Owns
  <2> QED BY <2>1, RestoreNativeCarries
<1>4. CASE w.j.active /\ ~w.j.native /\ w.j.owner = t
  <2>1. v = RestoreLocal(w, lost) /\ ~Owns(w.j)
    BY <1>4 DEF Restore, Owns
  <2> QED BY <2>1, RestoreLocalCarries
<1>5. CASE w.j.active /\ ~w.j.native /\ w.j.owner # t
  <2>1. v = Distrusted(w)
    BY <1>5 DEF Restore
  <2> HIDE DEF v
  <2>2. /\ v.j.disabled /\ v.j.failed /\ ~v.ok /\ v.fx = w.fx /\ v.nat = w.nat
        /\ v.j.active = w.j.active /\ v.j.native = w.j.native
        /\ v.j.captured = w.j.captured
    BY <2>1, DistrustedFields
  <2>3. Carries(e, w, v)
    BY <1>5, <2>2, Zenon DEF Carries, Lost, Foreign, Owns
  <2> QED BY <2>2, <2>3 DEF v
<1> QED BY <1>1, <1>2, <1>3, <1>4, <1>5

\* Marking a journal disabled changes nothing else of it.
LEMMA DisabledCarries ==
  ASSUME NEW e, NEW w \in WorldType, NEW v,
         \/ v = [w EXCEPT !.j.disabled = TRUE]
         \/ v = [w EXCEPT !.j.disabled = TRUE, !.ok = FALSE]
  PROVE  Carries(e, w, v) /\ v.j.active = w.j.active /\ v.fx = w.fx
<1> DEFINE k == [w.j EXCEPT !.disabled = TRUE]
<1>1. w.j \in Journal
  BY DEF WorldType
<1>2. v = [w EXCEPT !.j = k] \/ v = [w EXCEPT !.j = k, !.ok = FALSE]
  BY DEF WorldType
<1>3. /\ k.active = w.j.active /\ k.native = w.j.native /\ k.captured = w.j.captured
      /\ k.disabled /\ k.failed = w.j.failed
  BY <1>1 DEF Journal
<1> HIDE DEF k
<1>4. v.j = k /\ v.nat = w.nat /\ v.fx = w.fx
  BY <1>2 DEF WorldType
<1>5. Carries(e, w, v)
  BY <1>3, <1>4, Zenon DEF Carries, Lost, Foreign, Owns
<1> QED BY <1>3, <1>4, <1>5

LEMMA DisableCarries ==
  ASSUME NEW e, NEW w, NEW other, Sound(w, other), NEW t, NEW lost
  PROVE  LET v == Disable(w, t, lost) IN
         Carries(e, w, v) /\ v.fx = w.fx
<1> DEFINE u == IF w.j.active /\ w.j.owner = t THEN Restore(w, t, lost) ELSE w
           v == Disable(w, t, lost)
<1>1. w \in WorldType
  BY DEF Sound
<1>2. Carries(e, w, w)
  BY DEF Carries
<1>3. Carries(e, w, u) /\ u.fx = w.fx
  BY <1>1, <1>2, RestoreCarries
<1>4. u \in WorldType
  BY <1>1, RestoreSound DEF Sound
<1>5. v = [u EXCEPT !.j.disabled = TRUE]
  BY DEF Disable
<1> HIDE DEF u, v
<1>6. Carries(e, u, v) /\ v.fx = u.fx
  BY <1>4, <1>5, DisabledCarries
<1> QED BY <1>3, <1>6, CarriesOn DEF v

\* Only an effect with no transaction is granted one, and then it has one.
LEMMA BeginTransactionCarries ==
  ASSUME NEW e, NEW w, NEW other, Sound(w, other), NEW t \in Threads, NEW lost
  PROVE  LET v == BeginTransaction(w, t, lost) IN
         /\ Carries(e, w, v)
         /\ v.ok => v.j.active
         /\ v.fx = w.fx
<1> DEFINE v == BeginTransaction(w, t, lost)
<1>1. w \in WorldType /\ w.j \in Journal /\ w.j.active \in BOOLEAN /\ w.j.disabled \in BOOLEAN
  BY DEF Sound, WorldType, Journal
<1>2. CASE w.j.disabled
  <2>1. v = [w EXCEPT !.ok = FALSE]
    BY <1>2 DEF BeginTransaction
  <2>2. v.j = w.j /\ v.nat = w.nat /\ v.fx = w.fx /\ ~v.ok
    BY <1>1, <2>1 DEF WorldType
  <2> HIDE DEF v
  <2>3. Carries(e, w, v)
    BY <2>2, SameCarries
  <2> QED BY <2>2, <2>3 DEF v
<1>3. CASE ~w.j.disabled /\ w.j.active
  <2> DEFINE r == Restore(w, t, lost)
  <2>1. v = [r EXCEPT !.j.disabled = TRUE, !.ok = FALSE]
    BY <1>3 DEF BeginTransaction
  <2>2. Carries(e, w, r) /\ r.fx = w.fx
    BY <1>1, RestoreCarries
  <2>3. r \in WorldType
    BY RestoreSound DEF Sound
  <2> HIDE DEF r, v
  <2>4. Carries(e, r, v) /\ v.fx = r.fx
    BY <2>1, <2>3, DisabledCarries
  <2>5. ~v.ok
    BY <2>1, <2>3 DEF WorldType
  <2> QED BY <2>2, <2>4, <2>5, CarriesOn DEF v
<1>4. CASE ~w.j.disabled /\ ~w.j.active
  <2>1. v = StartTransaction(w, t)
    BY <1>4 DEF BeginTransaction
  <2>2. ~Lost(w)
    BY <1>4 DEF Lost, Owns
  <2>3. v.fx = w.fx
    BY <2>1, StartTransactionSound
  <2>4. v.j.active /\ (Foreign(v) => Foreign(w))
    <3> DEFINE fresh == ClearJournal(AdvanceGeneration(w.j))
               granted == NativePolicy /\ ~w.nat.open
               k == [fresh EXCEPT !.active = TRUE, !.native = granted, !.failed = FALSE,
                                  !.passActive = FALSE, !.owner = t]
               n == IF granted THEN [open |-> TRUE, saved |-> Nothing] ELSE w.nat
    <3>1. fresh \in Journal
      BY <1>1, AdvanceFresh DEF Sound
    <3>2. v = [w EXCEPT !.j = k, !.nat = n, !.ok = TRUE]
      BY <2>1 DEF StartTransaction
    <3>3. n.open => granted \/ w.nat.open
      OBVIOUS
    <3> HIDE DEF fresh, n, granted
    <3>4. k.active /\ k.native = granted
      BY <3>1 DEF Journal
    <3> HIDE DEF k
    <3>5. v.j = k /\ v.nat = n
      BY <1>1, <3>2 DEF WorldType
    <3> QED BY <1>4, <3>3, <3>4, <3>5 DEF Foreign, Owns
  <2> HIDE DEF v
  <2>5. Carries(e, w, v)
    BY <1>4, <2>2, <2>3, <2>4 DEF Carries
  <2> QED BY <2>3, <2>4, <2>5 DEF v
<1> QED BY <1>1, <1>2, <1>3, <1>4

\* A capture scope is refused only when the backend's journal is gone.
LEMMA CaptureScopeCarries ==
  ASSUME NEW e, NEW w \in WorldType
  PROVE  LET v == CaptureScope(w) IN
         /\ Carries(e, w, v)
         /\ v.fx = w.fx /\ v.j.active = w.j.active
         /\ ~v.ok => Owns(w.j) /\ ~w.nat.open
<1> DEFINE v == CaptureScope(w)
           k == [w.j EXCEPT !.failed = TRUE]
<1>1. w.j \in Journal
  BY DEF WorldType
<1>2. CASE w.j.active /\ w.j.native /\ ~w.nat.open
  <2>1. v = [w EXCEPT !.j = k, !.ok = FALSE]
    BY <1>1, <1>2 DEF CaptureScope, Fail, WorldType
  <2>2. /\ k.active = w.j.active /\ k.native = w.j.native /\ k.captured = w.j.captured
        /\ k.disabled = w.j.disabled /\ k.failed
    BY <1>1 DEF Journal
  <2> HIDE DEF k
  <2>3. v.j = k /\ v.nat = w.nat /\ v.fx = w.fx
    BY <2>1 DEF WorldType
  <2> HIDE DEF v
  <2>4. Carries(e, w, v)
    BY <2>2, <2>3, SameCarries
  <2> QED BY <1>2, <2>2, <2>3, <2>4 DEF v, Owns
<1>3. CASE ~(w.j.active /\ w.j.native /\ ~w.nat.open)
  <2>1. v = [w EXCEPT !.ok = TRUE]
    BY <1>3 DEF CaptureScope
  <2>2. v.j = w.j /\ v.nat = w.nat /\ v.fx = w.fx /\ v.ok
    BY <2>1 DEF WorldType
  <2> HIDE DEF v
  <2>3. Carries(e, w, v)
    BY <2>2, SameCarries
  <2> QED BY <2>2, <2>3 DEF v
<1> QED BY <1>2, <1>3

\* D3DX begun anew is in the mode it was begun in; its refusal changes nothing
\* of it.
LEMMA D3dxBeginCarries ==
  ASSUME NEW e \in Effects, NEW t, NEW a, NEW w \in WorldType,
         NEW mode \in {"saving", "plain", "journaled"}
  PROVE  LET v == D3dxBegin(w, t, a, e, mode) IN
         /\ Carries(e, w, v)
         /\ v.j.active = w.j.active
         /\ v.fx = w.fx \/ (v.ok /\ v.fx.mode = mode)
<1> DEFINE v == D3dxBegin(w, t, a, e, mode)
           u == SetStates(w, t, a)
           block == [s \in Slots |-> IF mode = "saving" /\ s \in Footprint[e] THEN w.dev[s] ELSE None]
           f == [phase |-> "begun", mode |-> mode, saved |-> block]
<1>1. /\ Carries(e, w, u) /\ u.fx = w.fx /\ u.nat.open = w.nat.open
      /\ u.j.disabled = w.j.disabled /\ u.j.active = w.j.active
  BY SetStatesCarries
<1>2. DOMAIN u = DOMAIN w /\ u = [x \in DOMAIN u |-> u[x]]
  BY DEF SetStates, WorldType
<1>3. CASE w.fx.phase # "idle"
  <2>1. v = [w EXCEPT !.ok = FALSE]
    BY <1>3 DEF D3dxBegin
  <2>2. v.j = w.j /\ v.nat = w.nat /\ v.fx = w.fx
    BY <2>1 DEF WorldType
  <2> HIDE DEF v
  <2>3. Carries(e, w, v)
    BY <2>2, SameCarries
  <2> QED BY <2>2, <2>3 DEF v
<1>4. CASE w.fx.phase = "idle" /\ ~a.ok
  <2>1. v = [u EXCEPT !.ok = FALSE]
    BY <1>4 DEF D3dxBegin
  <2> HIDE DEF u
  <2>2. v.j = u.j /\ v.nat = u.nat /\ v.fx = u.fx
    BY <1>2, <2>1 DEF WorldType
  <2> HIDE DEF v
  <2>3. Carries(e, u, v)
    BY <2>2, SameCarries
  <2> QED BY <1>1, <2>2, <2>3, CarriesOn DEF v
<1>5. CASE w.fx.phase = "idle" /\ a.ok
  <2>1. v = [u EXCEPT !.ok = TRUE, !.fx = f]
    BY <1>5 DEF D3dxBegin
  <2>2. FxSound(e, f) /\ f.mode = mode
    <3>1. ASSUME NEW s \in Slots PROVE block[s] # None <=> mode = "saving" /\ s \in Footprint[e]
      BY DEF WorldType
    <3> QED BY <3>1 DEF FxSound
  <2> HIDE DEF u, f
  <2>3. v.j = u.j /\ v.nat = u.nat /\ v.fx = f /\ v.ok
    BY <1>2, <2>1 DEF WorldType
  <2> HIDE DEF v
  <2>4. Carries(e, u, v)
    BY <2>2, <2>3, Zenon DEF Carries, Lost, Foreign, Owns
  <2> QED BY <1>1, <2>2, <2>3, <2>4, CarriesOn DEF v
<1> QED BY <1>3, <1>4, <1>5

\* A new phase of a begun effect changes nothing it has saved.
LEMMA PhaseCarries ==
  ASSUME NEW e, NEW u, NEW f, NEW v,
         f.phase # "idle", f.mode = u.fx.mode, f.saved = u.fx.saved,
         v.j = u.j, v.nat = u.nat, v.fx = f
  PROVE  Carries(e, u, v)
<1>1. ASSUME FxSound(e, u.fx) PROVE FxSound(e, f)
  BY <1>1, Zenon DEF FxSound
<1> QED BY <1>1, Zenon DEF Carries, Lost, Foreign, Owns

LEMMA D3dxBeginPassCarries ==
  ASSUME NEW e \in Effects, NEW t \in Threads, NEW a \in Attempts(e), NEW w, NEW other,
         Sound(w, other)
  PROVE  LET v == D3dxBeginPass(w, t, a) IN
         Carries(e, w, v) /\ v.j.active = w.j.active /\ v.fx.mode = w.fx.mode
<1> DEFINE v == D3dxBeginPass(w, t, a)
           u == SetStates(w, t, a)
           phase == IF a.ok THEN "pass" ELSE "begun"
           f == [u.fx EXCEPT !.phase = phase]
<1>1. w \in WorldType
  BY DEF Sound
<1>2. Carries(e, w, u) /\ u.fx = w.fx /\ u.j.active = w.j.active
  BY <1>1, SetStatesCarries
<1>3. u \in WorldType
  BY SetStatesSound DEF Sound
<1>4. CASE w.fx.phase # "begun"
  <2>1. v = [w EXCEPT !.ok = FALSE]
    BY <1>4 DEF D3dxBeginPass
  <2>2. v.j = w.j /\ v.nat = w.nat /\ v.fx = w.fx
    BY <1>1, <2>1 DEF WorldType
  <2> HIDE DEF v
  <2>3. Carries(e, w, v)
    BY <2>2, SameCarries
  <2> QED BY <2>2, <2>3 DEF v
<1>5. CASE w.fx.phase = "begun"
  <2>1. v = [u EXCEPT !.ok = a.ok, !.fx.phase = phase]
    BY <1>5 DEF D3dxBeginPass
  <2> HIDE DEF u
  <2>2. f.phase # "idle" /\ f.mode = u.fx.mode /\ f.saved = u.fx.saved
    BY <1>3 DEF WorldType, Fx
  <2>3. v = [u EXCEPT !.ok = a.ok, !.fx = f]
    BY <2>1, <1>3 DEF WorldType
  <2> HIDE DEF f
  <2>4. v.j = u.j /\ v.nat = u.nat /\ v.fx = f
    BY <1>3, <2>3 DEF WorldType
  <2> HIDE DEF v
  <2>5. Carries(e, u, v)
    BY <2>2, <2>4, PhaseCarries
  <2> QED BY <1>2, <2>2, <2>4, <2>5, CarriesOn DEF v
<1> QED BY <1>4, <1>5

LEMMA D3dxCommitChangesCarries ==
  ASSUME NEW e \in Effects, NEW t \in Threads, NEW a, NEW w \in WorldType
  PROVE  LET v == D3dxCommitChanges(w, t, a) IN
         Carries(e, w, v) /\ v.j.active = w.j.active /\ v.fx = w.fx
<1> DEFINE v == D3dxCommitChanges(w, t, a)
           u == SetStates(w, t, a)
<1>2. Carries(e, w, u) /\ u.fx = w.fx /\ u.j.active = w.j.active
  BY SetStatesCarries
<1>3. DOMAIN u = DOMAIN w /\ u = [x \in DOMAIN u |-> u[x]]
  BY DEF SetStates, WorldType
<1>4. v = [w EXCEPT !.ok = FALSE] \/ v = [u EXCEPT !.ok = a.ok]
  BY DEF D3dxCommitChanges
<1> HIDE DEF u, v
<1>5. CASE v = [w EXCEPT !.ok = FALSE]
  <2>1. v.j = w.j /\ v.nat = w.nat /\ v.fx = w.fx
    BY <1>5 DEF WorldType
  <2> QED BY <2>1, SameCarries DEF v
<1>6. CASE v = [u EXCEPT !.ok = a.ok]
  <2>1. v.j = u.j /\ v.nat = u.nat /\ v.fx = u.fx
    BY <1>3, <1>6 DEF WorldType
  <2>2. Carries(e, u, v)
    BY <2>1, SameCarries
  <2> QED BY <1>2, <2>1, <2>2, CarriesOn DEF v
<1> QED BY <1>4, <1>5, <1>6 DEF v

\* The hooks' own note that a pass is running is no part of it.
LEMMA PassActiveCarries ==
  ASSUME NEW e, NEW w \in WorldType, NEW active, NEW v, v = [w EXCEPT !.j.passActive = active]
  PROVE  Carries(e, w, v) /\ v.j.active = w.j.active /\ v.fx = w.fx
<1> DEFINE k == [w.j EXCEPT !.passActive = active]
<1>1. v = [w EXCEPT !.j = k] /\ w.j \in Journal
  BY DEF WorldType
<1>2. /\ k.active = w.j.active /\ k.native = w.j.native /\ k.captured = w.j.captured
      /\ k.disabled = w.j.disabled /\ k.failed = w.j.failed
  BY <1>1 DEF Journal
<1> HIDE DEF k
<1>3. v.j = k /\ v.nat = w.nat /\ v.fx = w.fx
  BY <1>1 DEF WorldType
<1> QED BY <1>2, <1>3, SameCarries

LEMMA EndPassCallCarries ==
  ASSUME NEW e, NEW w, NEW other, Sound(w, other)
  PROVE  LET v == EndPassCall(w) IN
         Carries(e, w, v) /\ v.j.active = w.j.active /\ v.fx.mode = w.fx.mode
<1> DEFINE u == D3dxEndPass(w)
           f == [w.fx EXCEPT !.phase = "begun"]
           v == EndPassCall(w)
<1>1. w \in WorldType /\ w.fx \in Fx
  BY DEF Sound, WorldType
<1>2. u \in WorldType
  BY D3dxEndPassSound DEF Sound
<1>3. Carries(e, w, u) /\ u.j = w.j /\ u.fx.mode = w.fx.mode
  <2>1. CASE w.fx.phase # "pass"
    <3>1. u = [w EXCEPT !.ok = FALSE]
      BY <2>1 DEF D3dxEndPass
    <3>2. u.j = w.j /\ u.nat = w.nat /\ u.fx = w.fx
      BY <1>1, <3>1 DEF WorldType
    <3> HIDE DEF u
    <3> QED BY <3>2, SameCarries
  <2>2. CASE w.fx.phase = "pass"
    <3>1. u = [w EXCEPT !.ok = TRUE, !.fx = f]
      BY <1>1, <2>2 DEF D3dxEndPass, WorldType
    <3>2. f.phase # "idle" /\ f.mode = w.fx.mode /\ f.saved = w.fx.saved
      BY <1>1 DEF Fx
    <3> HIDE DEF f
    <3>3. u.j = w.j /\ u.nat = w.nat /\ u.fx = f
      BY <1>1, <3>1 DEF WorldType
    <3> HIDE DEF u
    <3>4. Carries(e, w, u)
      BY <3>2, <3>3, PhaseCarries
    <3> QED BY <3>2, <3>3, <3>4
  <2> QED BY <2>1, <2>2
<1>4. v = u \/ v = [u EXCEPT !.j.passActive = FALSE]
  BY DEF EndPassCall
<1> HIDE DEF u
<1>5. CASE v = u
  BY <1>3, <1>5
<1>6. CASE v = [u EXCEPT !.j.passActive = FALSE]
  <2>1. Carries(e, u, v) /\ v.j.active = u.j.active /\ v.fx = u.fx
    BY <1>2, <1>6, PassActiveCarries
  <2> HIDE DEF v
  <2> QED BY <1>3, <2>1, CarriesOn DEF v
<1> QED BY <1>4, <1>5, <1>6

LEMMA BeginPassCallCarries ==
  ASSUME NEW e \in Effects, NEW t \in Threads, NEW a \in Attempts(e), NEW w, NEW other,
         Sound(w, other)
  PROVE  LET v == BeginPassCall(w, t, a) IN
         Carries(e, w, v) /\ v.j.active = w.j.active /\ v.fx.mode = w.fx.mode
<1> DEFINE u == D3dxBeginPass(w, t, a)
           v == BeginPassCall(w, t, a)
<1>1. Carries(e, w, u) /\ u.j.active = w.j.active /\ u.fx.mode = w.fx.mode
  BY D3dxBeginPassCarries
<1>2. u \in WorldType
  BY D3dxBeginPassSound DEF Sound
<1>3. v = u \/ v = [u EXCEPT !.j.passActive = TRUE]
  BY DEF BeginPassCall
<1> HIDE DEF u
<1>4. CASE v = u
  BY <1>1, <1>4
<1>5. CASE v = [u EXCEPT !.j.passActive = TRUE]
  <2>1. Carries(e, u, v) /\ v.j.active = u.j.active /\ v.fx = u.fx
    BY <1>2, <1>5, PassActiveCarries
  <2> HIDE DEF v
  <2> QED BY <1>1, <2>1, CarriesOn DEF v
<1> QED BY <1>3, <1>4, <1>5

\* An effect that D3DX has ended, or never begun, is not journaled.
LEMMA D3dxEndCarries ==
  ASSUME NEW e, NEW w \in WorldType
  PROVE  LET v == D3dxEnd(w) IN
         /\ Carries(e, w, v)
         /\ v.j = w.j
         /\ FxSound(e, w.fx) => v.fx.mode = "plain"
<1> DEFINE v == D3dxEnd(w)
           dev == PutBack(w.fx.saved, w.dev)
           f == [phase |-> "idle", mode |-> "plain", saved |-> Nothing]
<1>1. CASE w.fx.phase = "idle"
  <2>1. v = [w EXCEPT !.ok = FALSE]
    BY <1>1 DEF D3dxEnd
  <2>2. v.j = w.j /\ v.nat = w.nat /\ v.fx = w.fx
    BY <2>1 DEF WorldType
  <2> HIDE DEF v
  <2>3. Carries(e, w, v)
    BY <2>2, SameCarries
  <2> QED BY <1>1, <2>2, <2>3 DEF v, FxSound
<1>2. CASE w.fx.phase # "idle"
  <2>1. v = [w EXCEPT !.ok = TRUE, !.dev = dev, !.fx = f]
    BY <1>2 DEF D3dxEnd
  <2>2. FxSound(e, f) /\ f.mode = "plain"
    BY DEF FxSound, Nothing
  <2> HIDE DEF dev, f
  <2>3. v.j = w.j /\ v.nat = w.nat /\ v.fx = f
    BY <2>1 DEF WorldType
  <2> HIDE DEF v
  <2>4. Carries(e, w, v)
    BY <2>2, <2>3, Zenon DEF Carries, Lost, Foreign, Owns
  <2> QED BY <2>2, <2>3, <2>4 DEF v
<1> QED BY <1>1, <1>2

-----------------------------------------------------------------------------
(* What a handler leaves, from the world it found.                          *)

JournalOpen(w) == w.fx.mode = "journaled" => w.j.active

\* A game that neither Resets nor Begins inside an effect, and an effect so far
\* journaled only in an open transaction.
Undisturbed(e) ==
  ~ResetInside /\ ~Reentrant /\ FxSound(e, fx[e]) /\ JournalOpen(World(e))

Moved(e, w) ==
  Settle(e, w) /\ Carries(e, World(e), w) /\ (Undisturbed(e) => JournalOpen(w))

LEMMA CarriesSelf ==
  ASSUME NEW e, NEW w
  PROVE  Carries(e, w, w)
BY DEF Carries

LEMMA BaselineBeginMoved ==
  ASSUME NEW e \in Effects, NEW t \in Threads, NEW w \in WorldType,
         Carries(e, World(e), w), Undisturbed(e) => w.fx.mode # "journaled",
         BaselineBegin(e, w, t)
  PROVE  \E v : Moved(e, v)
<1>1. PICK a \in Baselines(e) : Settle(e, D3dxBegin(w, t, a, e, "saving"))
  BY DEF BaselineBegin
<1> DEFINE v == D3dxBegin(w, t, a, e, "saving")
<1>2. Carries(e, w, v) /\ (v.fx = w.fx \/ v.fx.mode = "saving")
  BY D3dxBeginCarries
<1>3. Settle(e, v)
  BY <1>1
<1> HIDE DEF v
<1>4. Moved(e, v)
  BY <1>2, <1>3, CarriesOn DEF Moved, JournalOpen
<1> QED BY <1>4

\* A failed journaled Begin is undone before it is retried on the baseline.
LEMMA BeginFallbackMoved ==
  ASSUME NEW e \in Effects, NEW t \in Threads, NEW w, NEW other, Sound(w, other),
         Carries(e, World(e), w), Undisturbed(e) => w.ok \/ w.fx.mode # "journaled",
         BeginFallback(e, w, t)
  PROVE  \E v : Moved(e, v)
<1> DEFINE ended == IF w.ok THEN D3dxEnd(w) ELSE w
           restored(lost) == Restore(ended, t, lost)
           disabled(lost) == Disable(restored(lost), t, {})
<1>1. PICK lost \in Losses(w.j) :
        IF restored(lost).ok THEN BaselineBegin(e, disabled(lost), t)
        ELSE Settle(e, disabled(lost))
  BY DEF BeginFallback
<1>2. w \in WorldType /\ ended \in WorldType /\ Sound(ended, other)
  BY D3dxEndSound DEF Sound
<1>3. Carries(e, World(e), ended) /\ (Undisturbed(e) => ended.fx.mode # "journaled")
  <2>1. Undisturbed(e) => FxSound(e, World(e).fx)
    BY DEF Undisturbed, World
  <2>2. Undisturbed(e) => FxSound(e, w.fx)
    BY <2>1 DEF Carries
  <2>3. Carries(e, w, D3dxEnd(w)) /\ (FxSound(e, w.fx) => D3dxEnd(w).fx.mode = "plain")
    BY <1>2, D3dxEndCarries
  <2>4. Carries(e, World(e), D3dxEnd(w))
    BY <2>3, CarriesOn
  <2> QED BY <2>2, <2>3, <2>4
<1> HIDE DEF ended
<1>4. Carries(e, ended, restored(lost)) /\ restored(lost).fx = ended.fx
  BY <1>2, RestoreCarries
<1>5. Sound(restored(lost), other)
  BY <1>2, RestoreSound
<1> HIDE DEF restored
<1>6. Carries(e, restored(lost), disabled(lost)) /\ disabled(lost).fx = restored(lost).fx
  BY <1>5, DisableCarries
<1>7. disabled(lost) \in WorldType
  BY <1>5, DisableSound DEF Sound
<1> HIDE DEF disabled
<1>8. /\ Carries(e, World(e), disabled(lost))
      /\ Undisturbed(e) => disabled(lost).fx.mode # "journaled"
  BY <1>3, <1>4, <1>6, CarriesOn
<1>9. Settle(e, disabled(lost)) => Moved(e, disabled(lost))
  BY <1>8 DEF Moved, JournalOpen
<1> QED BY <1>1, <1>7, <1>8, <1>9, BaselineBeginMoved

\* The restart ends D3DX, and begins it again saving by itself if at all.
LEMMA RestartBaselineMoved ==
  ASSUME NEW e \in Effects, NEW t \in Threads, NEW w, NEW other, Sound(w, other),
         Carries(e, World(e), w), RestartBaseline(e, w, t)
  PROVE  \E v : Moved(e, v)
<1> DEFINE passed == IF w.j.passActive THEN EndPassCall(w) ELSE w
           ended == D3dxEnd(passed)
           restored(lost) == Restore(ended, t, lost)
           disabled(lost) == Disable(restored(lost), t, {})
           block(lost) == [s \in Slots |-> IF s \in Footprint[e] THEN disabled(lost).dev[s] ELSE None]
           f(lost) == [phase |-> "begun", mode |-> "saving", saved |-> block(lost)]
           begun(lost) == [disabled(lost) EXCEPT !.ok = TRUE, !.fx = f(lost)]
<1>1. PICK lost \in Losses(w.j), begins \in BOOLEAN :
        IF restored(lost).ok /\ begins
        THEN \E a \in Baselines(e) : Settle(e, D3dxBeginPass(begun(lost), t, a))
        ELSE Settle(e, disabled(lost))
  BY DEF RestartBaseline
<1>2. Sound(passed, other) /\ Carries(e, World(e), passed)
  BY EndPassCallSound, EndPassCallCarries, CarriesOn
<1>3. Undisturbed(e) => FxSound(e, passed.fx)
  BY <1>2 DEF Carries, Undisturbed, World
<1> HIDE DEF passed
<1>4. /\ Sound(ended, other) /\ Carries(e, passed, ended)
      /\ Undisturbed(e) => ended.fx.mode # "journaled"
  BY <1>2, <1>3, D3dxEndSound, D3dxEndCarries DEF Sound
<1> HIDE DEF ended
<1>5. /\ Sound(restored(lost), other)
      /\ Carries(e, ended, restored(lost)) /\ restored(lost).fx = ended.fx
  BY <1>4, RestoreSound, RestoreCarries DEF Sound
<1> HIDE DEF restored
<1>6. /\ Sound(disabled(lost), other)
      /\ Carries(e, restored(lost), disabled(lost)) /\ disabled(lost).fx = restored(lost).fx
  BY <1>5, DisableSound, DisableCarries
<1> HIDE DEF disabled
<1>7. /\ Carries(e, World(e), disabled(lost))
      /\ Undisturbed(e) => disabled(lost).fx.mode # "journaled"
  BY <1>2, <1>4, <1>5, <1>6, CarriesOn
<1>8. ASSUME Settle(e, disabled(lost)) PROVE \E v : Moved(e, v)
  BY <1>7, <1>8 DEF Moved, JournalOpen
<1>9. ASSUME NEW a \in Baselines(e), Settle(e, D3dxBeginPass(begun(lost), t, a))
      PROVE  \E v : Moved(e, v)
  <2>1. disabled(lost) \in WorldType /\ a \in Attempts(e)
    BY <1>6 DEF Sound, Baselines
  <2>2. f(lost) \in Fx /\ FxSound(e, f(lost)) /\ f(lost).mode = "saving"
    <3>1. block(lost) \in Saved /\ \A s \in Slots : block(lost)[s] # None <=> s \in Footprint[e]
      BY <2>1 DEF WorldType, Saved
    <3> HIDE DEF block
    <3> QED BY <3>1 DEF Fx, FxSound
  <2> HIDE DEF f
  <2>3. /\ begun(lost) \in WorldType /\ begun(lost).j = disabled(lost).j
        /\ begun(lost).nat = disabled(lost).nat /\ begun(lost).fx = f(lost)
    BY <2>1, <2>2 DEF WorldType
  <2> HIDE DEF begun
  <2>4. Sound(begun(lost), other)
    BY <1>6, <2>3, SameJournalSound
  <2>5. Carries(e, disabled(lost), begun(lost))
    BY <2>2, <2>3, Zenon DEF Carries, Lost, Foreign, Owns
  <2> DEFINE v == D3dxBeginPass(begun(lost), t, a)
  <2>6. Carries(e, begun(lost), v) /\ v.fx.mode = "saving"
    BY <2>1, <2>2, <2>3, <2>4, D3dxBeginPassCarries
  <2>7. Settle(e, v)
    BY <1>9
  <2> HIDE DEF v
  <2>8. Carries(e, World(e), v)
    BY <1>7, <2>5, <2>6, CarriesOn
  <2>9. Moved(e, v)
    BY <2>6, <2>7, <2>8 DEF Moved, JournalOpen
  <2> QED BY <2>9
<1> QED BY <1>1, <1>8, <1>9

LEMMA SettledMoved ==
  ASSUME NEW e \in Effects, NEW t \in Threads, NEW w, NEW other, Sound(w, other),
         Carries(e, World(e), w), Undisturbed(e) => JournalOpen(w), Settled(e, w, t)
  PROVE  \E v : Moved(e, v)
<1>1. RestartBaseline(e, w, t) \/ Settle(e, w)
  BY DEF Settled
<1>2. CASE Settle(e, w)
  BY <1>2 DEF Moved
<1> QED BY <1>1, <1>2, RestartBaselineMoved

LEMMA BeginMoved ==
  ASSUME IInv, NEW e \in Effects, NEW t \in Threads, NEW saving \in BOOLEAN, Begin(e, t, saving)
  PROVE  \E v : Moved(e, v)
<1>1. /\ Sound(World(e), Others(e)) /\ World(e) \in WorldType
      /\ World(e).j = journal[e] /\ World(e).fx = fx[e]
  BY WorldReady DEF Sound
<1>2. Undisturbed(e) => World(e).fx.mode = "plain"
  BY <1>1 DEF Begin, Undisturbed, FxSound
<1>3. CASE \E a \in Attempts(e) :
             Settle(e, D3dxBegin(World(e), t, a, e, IF saving THEN "saving" ELSE "plain"))
  <2> DEFINE mode == IF saving THEN "saving" ELSE "plain"
  <2>1. PICK a \in Attempts(e) : Settle(e, D3dxBegin(World(e), t, a, e, mode))
    BY <1>3
  <2>2. mode \in {"saving", "plain", "journaled"} /\ mode # "journaled"
    OBVIOUS
  <2> DEFINE v == D3dxBegin(World(e), t, a, e, mode)
  <2> HIDE DEF mode
  <2>3. Carries(e, World(e), v) /\ (v.fx = World(e).fx \/ v.fx.mode = mode)
    BY <1>1, <2>2, D3dxBeginCarries
  <2>4. Settle(e, v)
    BY <2>1
  <2> HIDE DEF v
  <2>5. Moved(e, v)
    BY <1>2, <2>2, <2>3, <2>4 DEF Moved, JournalOpen
  <2> QED BY <2>5
<1>4. CASE JournaledBegin(e, t)
  <2> DEFINE begun == BeginTransaction(World(e), t, {})
             w(a) == D3dxBegin(begun, t, a, e, "journaled")
  <2>1. PICK a \in Attempts(e) :
          IF w(a).ok /\ ~w(a).j.failed THEN Settle(e, w(a)) ELSE BeginFallback(e, w(a), t)
    BY <1>4 DEF JournaledBegin
  <2>2. begun.ok
    BY <1>4 DEF JournaledBegin
  <2>3. /\ Sound(begun, Others(e)) /\ Carries(e, World(e), begun)
        /\ begun.j.active /\ begun.fx = World(e).fx
    BY <1>1, <2>2, BeginTransactionSound, BeginTransactionCarries
  <2> HIDE DEF begun
  <2>4. /\ Carries(e, begun, w(a)) /\ w(a).j.active
        /\ w(a).fx = begun.fx \/ (w(a).ok /\ w(a).fx.mode = "journaled")
    BY <2>3, D3dxBeginCarries DEF Sound
  <2>5. Sound(w(a), Others(e))
    BY <2>3, D3dxBeginSound
  <2> HIDE DEF w
  <2>6. Carries(e, World(e), w(a))
    BY <2>3, <2>4, CarriesOn
  <2>7. CASE Settle(e, w(a))
    BY <2>4, <2>6, <2>7 DEF Moved, JournalOpen
  <2>8. CASE BeginFallback(e, w(a), t)
    <3>1. Undisturbed(e) => w(a).ok \/ w(a).fx.mode # "journaled"
      BY <1>2, <2>3, <2>4
    <3> QED BY <2>5, <2>6, <2>8, <3>1, BeginFallbackMoved
  <2> QED BY <2>1, <2>7, <2>8
<1>5. CASE RefusedBegin(e, t)
  <2> DEFINE begun(lost) == BeginTransaction(World(e), t, lost)
  <2>1. PICK lost \in Losses(journal[e]) :
          Settle(e, IF begun(lost).j.failed \/ e \in Direct
                    THEN Disable(begun(lost), t, {}) ELSE begun(lost))
    BY <1>5 DEF RefusedBegin
  <2>2. /\ Sound(begun(lost), Others(e)) /\ Carries(e, World(e), begun(lost))
        /\ begun(lost).fx = World(e).fx
    BY <1>1, BeginTransactionSound, BeginTransactionCarries
  <2> HIDE DEF begun
  <2> DEFINE d == Disable(begun(lost), t, {})
  <2>3. Carries(e, begun(lost), d) /\ d.fx = begun(lost).fx
    BY <2>2, DisableCarries
  <2>4. Settle(e, d) \/ Settle(e, begun(lost))
    BY <2>1
  <2> HIDE DEF d
  <2>5. Carries(e, World(e), d)
    BY <2>2, <2>3, CarriesOn
  <2>6. Moved(e, d) \/ Moved(e, begun(lost))
    BY <1>2, <2>2, <2>3, <2>4, <2>5 DEF Moved, JournalOpen
  <2> QED BY <2>6
<1> QED BY <1>3, <1>4, <1>5 DEF Begin

LEMMA PassMoved ==
  ASSUME IInv, NEW e \in Effects, NEW t \in Threads, BeginPass(e, t) \/ CommitChanges(e, t)
  PROVE  \E v : Moved(e, v)
<1> DEFINE w == CaptureScope(World(e))
<1>1. World(e) \in WorldType /\ Sound(World(e), Others(e))
  BY WorldReady DEF Sound
<1>2. /\ Sound(w, Others(e)) /\ Carries(e, World(e), w)
      /\ w.fx = World(e).fx /\ w.j.active = World(e).j.active
  BY <1>1, CaptureScopeSound, CaptureScopeCarries
<1>3. \/ RestartBaseline(e, w, t)
      \/ \E a \in Attempts(e) : \/ Settled(e, BeginPassCall(w, t, a), t)
                                \/ Settled(e, D3dxCommitChanges(w, t, a), t)
  BY DEF BeginPass, CommitChanges
<1> HIDE DEF w
<1>4. CASE RestartBaseline(e, w, t)
  BY <1>2, <1>4, RestartBaselineMoved
<1>5. ASSUME NEW a \in Attempts(e), Settled(e, BeginPassCall(w, t, a), t)
      PROVE  \E v : Moved(e, v)
  <2> DEFINE v == BeginPassCall(w, t, a)
  <2>1. Carries(e, w, v) /\ v.j.active = w.j.active /\ v.fx.mode = w.fx.mode
    BY <1>2, BeginPassCallCarries
  <2>2. Sound(v, Others(e)) /\ Settled(e, v, t)
    BY <1>2, <1>5, BeginPassCallSound
  <2> HIDE DEF v
  <2>3. Carries(e, World(e), v) /\ (Undisturbed(e) => JournalOpen(v))
    BY <1>2, <2>1, CarriesOn DEF Undisturbed, JournalOpen
  <2> QED BY <2>2, <2>3, SettledMoved
<1>6. ASSUME NEW a \in Attempts(e), Settled(e, D3dxCommitChanges(w, t, a), t)
      PROVE  \E v : Moved(e, v)
  <2> DEFINE v == D3dxCommitChanges(w, t, a)
  <2>1. Carries(e, w, v) /\ v.j.active = w.j.active /\ v.fx = w.fx
    BY <1>2, D3dxCommitChangesCarries DEF Sound
  <2>2. Sound(v, Others(e)) /\ Settled(e, v, t)
    BY <1>2, <1>6, D3dxCommitChangesSound
  <2> HIDE DEF v
  <2>3. Carries(e, World(e), v) /\ (Undisturbed(e) => JournalOpen(v))
    BY <1>2, <2>1, CarriesOn DEF Undisturbed, JournalOpen
  <2> QED BY <2>2, <2>3, SettledMoved
<1> QED BY <1>3, <1>4, <1>5, <1>6

LEMMA EndPassMoved ==
  ASSUME IInv, NEW e \in Effects, EndPass(e)
  PROVE  \E v : Moved(e, v)
<1> DEFINE v == EndPassCall(World(e))
<1>1. Carries(e, World(e), v) /\ v.j.active = World(e).j.active /\ v.fx.mode = World(e).fx.mode
  BY WorldReady, EndPassCallCarries
<1>2. Settle(e, v)
  BY DEF EndPass
<1> HIDE DEF v
<1>3. Moved(e, v)
  BY <1>1, <1>2 DEF Moved, Undisturbed, JournalOpen
<1> QED BY <1>3

\* Unless the backend's journal was discarded, D3DX is always ended.
LEMMA EndMoved ==
  ASSUME IInv, NEW e \in Effects, NEW t \in Threads, End(e, t)
  PROVE  \E v : Moved(e, v)
<1> DEFINE scope == CaptureScope(World(e))
           ended == IF scope.ok THEN D3dxEnd(scope) ELSE scope
           restored(lost) == Restore(ended, t, lost)
           disabled(lost) == Disable(restored(lost), t, {})
<1>1. /\ Sound(World(e), Others(e)) /\ World(e) \in WorldType
      /\ World(e).fx = fx[e]
  BY WorldReady DEF Sound
<1>2. \/ ~ended.j.active /\ Settle(e, ended)
      \/ \E lost \in Losses(ended.j) : Settle(e, disabled(lost)) \/ Settle(e, restored(lost))
  BY DEF End
<1>3. /\ Sound(scope, Others(e)) /\ Carries(e, World(e), scope) /\ scope.fx = fx[e]
      /\ Undisturbed(e) => scope.ok
  <2>1. ~scope.ok => Owns(World(e).j) /\ ~World(e).nat.open
    BY <1>1, CaptureScopeCarries
  <2>2. Undisturbed(e) /\ Owns(World(e).j) => World(e).nat.open
    BY <1>1, Zenon DEF Undisturbed, Sound
  <2> QED BY <1>1, <2>1, <2>2, CaptureScopeSound, CaptureScopeCarries
<1> HIDE DEF scope
<1>4. /\ Sound(ended, Others(e)) /\ Carries(e, World(e), ended)
      /\ Undisturbed(e) => ended.fx.mode # "journaled"
  <2>1. /\ Carries(e, scope, D3dxEnd(scope)) /\ Sound(D3dxEnd(scope), Others(e))
        /\ FxSound(e, scope.fx) => D3dxEnd(scope).fx.mode = "plain"
    BY <1>3, D3dxEndSound, D3dxEndCarries DEF Sound
  <2>2. Carries(e, World(e), D3dxEnd(scope))
    BY <1>3, <2>1, CarriesOn
  <2>3. Undisturbed(e) => FxSound(e, scope.fx)
    BY <1>3 DEF Undisturbed
  <2> QED BY <1>3, <2>1, <2>2, <2>3
<1> HIDE DEF ended
<1>5. CASE Settle(e, ended)
  BY <1>4, <1>5 DEF Moved, JournalOpen
<1>6. ASSUME NEW lost, Settle(e, disabled(lost)) \/ Settle(e, restored(lost))
      PROVE  \E v : Moved(e, v)
  <2>1. /\ Carries(e, ended, restored(lost)) /\ restored(lost).fx = ended.fx
        /\ Sound(restored(lost), Others(e))
    BY <1>4, RestoreSound, RestoreCarries DEF Sound
  <2>2. Settle(e, disabled(lost)) \/ Settle(e, restored(lost))
    BY <1>6
  <2> HIDE DEF restored
  <2>3. Carries(e, restored(lost), disabled(lost)) /\ disabled(lost).fx = restored(lost).fx
    BY <2>1, DisableCarries
  <2> HIDE DEF disabled
  <2>4. Carries(e, World(e), restored(lost)) /\ Carries(e, World(e), disabled(lost))
    BY <1>4, <2>1, <2>3, CarriesOn
  <2>5. Moved(e, restored(lost)) \/ Moved(e, disabled(lost))
    BY <1>4, <2>1, <2>2, <2>3, <2>4 DEF Moved, JournalOpen
  <2> QED BY <2>5
<1> QED BY <1>2, <1>5, <1>6

\* A step is one effect's handler, or leaves every journal and effect alone,
\* and at most closes the backend's journal.
LEMMA NextMoved ==
  ASSUME IInv, [Next]_vars
  PROVE  \/ \E e \in Effects : \E v : Moved(e, v)
         \/ UNCHANGED <<journal, fx>> /\ (backend' = backend \/ ~backend'.open)
BY BeginMoved, PassMoved, EndPassMoved, EndMoved DEF Next, vars, SetState, Reset

LEMMA MovedFields ==
  ASSUME IInv, NEW e \in Effects, NEW v, Moved(e, v), NEW f \in Effects
  PROVE  IF f = e THEN journal'[f] = v.j /\ fx'[f] = v.fx
         ELSE journal'[f] = journal[f] /\ fx'[f] = fx[f]
BY DEF Moved, Settle, IInv, TypeOK

-----------------------------------------------------------------------------
(* Transactions that another thread, or a Reset, broke off.                 *)

\* A transaction disabled while it is open captures nothing more, whatever its
\* effect's handlers, other effects and the game do until it is replayed.
\* Code: CheckTransaction, Restore.
THEOREM StrandedStayFrozen == Spec => StrandedFrozen
<1>1. IInv /\ [Next]_vars =>
        [\A e \in Effects :
           journal[e].active /\ ~journal[e].native /\ journal[e].disabled =>
             journal'[e].captured = journal[e].captured \/ ~journal'[e].active]_vars
  <2> SUFFICES ASSUME IInv, [Next]_vars, NEW f \in Effects, journal[f].disabled
               PROVE  journal'[f].captured = journal[f].captured \/ ~journal'[f].active
    OBVIOUS
  <2>1. CASE UNCHANGED <<journal, fx>>
    BY <2>1
  <2>2. ASSUME NEW e \in Effects, NEW v, Moved(e, v)
        PROVE  journal'[f].captured = journal[f].captured \/ ~journal'[f].active
    BY <2>2, MovedFields DEF Moved, Carries, World
  <2> QED BY <2>1, <2>2, NextMoved
<1> QED BY <1>1, InitIInv, NextIInv, PTL DEF Spec, StrandedFrozen

\* One effect's step moves its own claim only.
LEMMA MovedClaims ==
  ASSUME IInv, NEW e \in Effects, NEW v, Moved(e, v)
  PROVE  /\ e \in Claims <=> Owns(World(e).j)
         /\ e \in Claims' <=> Owns(v.j)
         /\ Claims \ {e} = Claims' \ {e}
         /\ backend = World(e).nat /\ backend' = v.nat
<1>1. backend = World(e).nat /\ backend' = v.nat /\ World(e).j = journal[e]
  BY DEF Moved, Settle, World
<1>2. \A f \in Effects : f \in Claims' <=> Owns(journal'[f])
  BY DEF Claims, Owns
<1>3. \A f \in Effects : f \in Claims <=> Owns(journal[f])
  BY DEF Claims, Owns
<1>4. journal'[e] = v.j /\ \A f \in Effects \ {e} : journal'[f] = journal[f]
  BY MovedFields
<1>5. Claims \subseteq Effects /\ Claims' \subseteq Effects
  BY DEF Claims
<1> QED BY <1>1, <1>2, <1>3, <1>4, <1>5

\* The backend's journal, while it is open, is some transaction's, which closes
\* it when it ends: no order of failures, restarts, Resets and threads leaves it
\* open for good.  Code: every path from BeginTransaction to Restore.
THEOREM BackendAlwaysClaimed == Spec => []BackendClaimed
<1>1. Init => BackendClaimed
  BY DEF Init, BackendClaimed
<1>2. IInv /\ BackendClaimed /\ [Next]_vars => BackendClaimed'
  <2> SUFFICES ASSUME IInv, BackendClaimed, [Next]_vars, backend'.open
               PROVE  Claims' # {}
    BY DEF BackendClaimed
  <2>1. CASE UNCHANGED <<journal, fx>> /\ backend' = backend
    BY <2>1 DEF BackendClaimed, Claims
  <2>2. ASSUME NEW e \in Effects, NEW v, Moved(e, v)
        PROVE  Claims' # {}
    <3>1. CASE Owns(v.j)
      BY <2>2, <3>1, MovedClaims
    <3>2. CASE ~Owns(v.j)
      <4>1. Foreign(v)
        BY <2>2, <3>2, MovedClaims DEF Foreign
      <4>2. Foreign(World(e))
        BY <2>2, <4>1 DEF Moved, Carries
      <4>3. Claims # {} /\ e \notin Claims
        BY <2>2, <4>2, MovedClaims DEF Foreign, BackendClaimed
      <4> QED BY <2>2, <4>3, MovedClaims
    <3> QED BY <3>1, <3>2
  <2> QED BY <2>1, <2>2, NextMoved
<1> QED BY <1>1, <1>2, InitIInv, NextIInv, PTL DEF Spec

\* Sets that differ in one element at most have counts that differ by it.
LEMMA SameButOne ==
  ASSUME NEW A, NEW B, NEW e, IsFiniteSet(A), IsFiniteSet(B), A \ {e} = B \ {e}
  PROVE  Cardinality(B) - (IF e \in B THEN 1 ELSE 0) = Cardinality(A) - (IF e \in A THEN 1 ELSE 0)
<1>1. Cardinality(A \ {e}) = IF e \in A THEN Cardinality(A) - 1 ELSE Cardinality(A)
  BY FS_RemoveElement
<1>2. Cardinality(B \ {e}) = IF e \in B THEN Cardinality(B) - 1 ELSE Cardinality(B)
  BY FS_RemoveElement
<1>3. Cardinality(A) \in Nat /\ Cardinality(B) \in Nat
  BY FS_CardinalityType
<1> QED BY <1>1, <1>2, <1>3

\* Each time the backend's journal is lost under a transaction, a transaction
\* ends disabled and failed: whoever's End closes the journal of another, that
\* other one's End reports.  Code: Restore's refusal and the hooks' fallbacks.
THEOREM LossesAlwaysReported ==
  ASSUME IsFiniteSet(Effects)
  PROVE  Spec => LossesReported
<1> DEFINE Reports(e) == e \in Claims \ Claims' /\ journal'[e].disabled /\ journal'[e].failed
<1>1. IInv /\ [Next]_vars => [CutOff' < CutOff => \E e \in Claims \ Claims' :
                                 journal'[e].disabled /\ journal'[e].failed]_vars
  <2> SUFFICES ASSUME IInv, [Next]_vars, CutOff' < CutOff
               PROVE  \E e \in Effects : Reports(e)
    OBVIOUS
  <2>1. /\ IsFiniteSet(Claims) /\ IsFiniteSet(Claims')
        /\ Cardinality(Claims) \in Nat /\ Cardinality(Claims') \in Nat
    <3>1. Claims \subseteq Effects /\ Claims' \subseteq Effects
      BY DEF Claims
    <3> QED BY <3>1, FS_Subset, FS_CardinalityType
  <2>2. CASE UNCHANGED <<journal, fx>> /\ (backend' = backend \/ ~backend'.open)
    <3>1. Claims' = Claims
      BY <2>2 DEF Claims
    <3> QED BY <2>1, <2>2, <3>1 DEF CutOff
  <2>3. ASSUME NEW e \in Effects, NEW v, Moved(e, v)
        PROVE  Reports(e)
    <3> DEFINE w == World(e)
               One(b) == IF b THEN 1 ELSE 0
    <3>1. /\ e \in Claims <=> Owns(w.j)
          /\ e \in Claims' <=> Owns(v.j)
          /\ Claims \ {e} = Claims' \ {e}
          /\ backend = w.nat /\ backend' = v.nat
      BY <2>3, MovedClaims
    <3>2. Cardinality(Claims') - One(Owns(v.j)) = Cardinality(Claims) - One(Owns(w.j))
      BY <2>1, <3>1, SameButOne
    <3>3. One(Owns(v.j)) - One(v.nat.open) < One(Owns(w.j)) - One(w.nat.open)
      BY <2>1, <3>1, <3>2 DEF CutOff
    <3>4. (Lost(w) => Lost(v)) /\ (Foreign(v) => Foreign(w))
      BY <2>3 DEF Moved, Carries
    <3> HIDE DEF w
    <3>5. Owns(w.j) /\ ~(Owns(v.j) /\ ~v.nat.open) /\ (Foreign(v) \/ ~w.nat.open)
      <4>1. (~Owns(w.j) => Foreign(v) /\ ~Foreign(w)) /\ (Foreign(v) \/ ~w.nat.open)
        BY <3>3 DEF Foreign
      <4>2. ~(Owns(v.j) /\ ~v.nat.open)
        BY <3>3
      <4> QED BY <3>4, <4>1, <4>2
    <3>6. ~w.nat.open /\ Lost(v)
      BY <3>4, <3>5 DEF Foreign, Lost
    <3>7. v.j.disabled /\ v.j.failed /\ ~Owns(v.j)
      BY <3>5, <3>6 DEF Lost
    <3>8. journal'[e] = v.j
      BY <2>3, MovedFields
    <3> QED BY <3>1, <3>5, <3>7, <3>8
  <2> QED BY <2>2, <2>3, NextMoved
<1> QED BY <1>1, InitIInv, NextIInv, PTL DEF Spec, LossesReported

-----------------------------------------------------------------------------
(* What runs without D3DX saving state is under an open transaction.        *)

JInv == IInv /\ \A e \in Effects : FxSound(e, fx[e]) /\ JournalOpen(World(e))

LEMMA InitJInv == Init => JInv
<1> SUFFICES ASSUME Init PROVE JInv
  OBVIOUS
<1>1. IInv
  BY InitIInv
<1>2. ASSUME NEW e \in Effects
      PROVE  fx[e] = [phase |-> "idle", mode |-> "plain", saved |-> Nothing]
  BY DEF Init
<1> QED BY <1>1, <1>2 DEF JInv, FxSound, JournalOpen, World, Nothing

LEMMA NextJInv ==
  ASSUME ~ResetInside, ~Reentrant
  PROVE  JInv /\ [Next]_vars => JInv'
<1> SUFFICES ASSUME JInv, [Next]_vars PROVE JInv'
  OBVIOUS
<1>1. IInv /\ IInv'
  BY NextIInv DEF JInv
<1>2. \A e \in Effects : Undisturbed(e)
  BY DEF JInv, Undisturbed
<1>3. CASE UNCHANGED <<journal, fx>>
  BY <1>1, <1>3 DEF JInv, JournalOpen, World
<1>4. ASSUME NEW e \in Effects, NEW v, Moved(e, v), NEW f \in Effects
      PROVE  (FxSound(f, fx[f]) /\ JournalOpen(World(f)))'
  <2>1. CASE f # e
    <3>1. journal'[f] = journal[f] /\ fx'[f] = fx[f]
      BY <1>1, <1>4, <2>1, MovedFields
    <3> QED BY <3>1 DEF JInv, FxSound, JournalOpen, World
  <2>2. CASE f = e
    <3>1. journal'[f] = v.j /\ fx'[f] = v.fx
      BY <1>1, <1>4, <2>2, MovedFields
    <3>2. FxSound(e, v.fx) /\ JournalOpen(v)
      BY <1>2, <1>4 DEF Moved, Carries, Undisturbed, World
    <3> QED BY <2>2, <3>1, <3>2 DEF FxSound, JournalOpen, World
  <2> QED BY <2>1, <2>2
<1> QED BY <1>1, <1>3, <1>4, NextMoved DEF JInv

\* In a game that neither Begins an effect again nor Resets the device inside
\* one, D3DX is told not to save the state only while that effect's journal has
\* its transaction open, on any number of threads.  Code: the order of End,
\* Restore and Begin in the fallbacks and the restart.
THEOREM JournaledAlwaysActive ==
  ASSUME ~ResetInside, ~Reentrant
  PROVE  Spec => []JournaledMeansActive
<1>1. JInv => JournaledMeansActive
  BY DEF JInv, JournalOpen, World, JournaledMeansActive
<1> QED BY <1>1, InitJInv, NextJInv, PTL DEF Spec

-----------------------------------------------------------------------------
(* What an effect will put back, carried through the calls of a handler on  *)
(* the one thread that renders.                                             *)

\* What End will put back, of the world a call finds.
Pend(w) ==
  IF ~w.j.active THEN w.fx.saved
  ELSE IF w.j.native THEN w.nat.saved ELSE w.j.captured

\* The slot as it will be once that is put back.
Undone(w, s) == IF Pend(w)[s] # None THEN Pend(w)[s] ELSE w.dev[s]

\* A world of thread t in which the setters and the restores do what they say.
Fit(e, t, w, other) ==
  /\ Sound(w, other)
  /\ FxSound(e, w.fx)
  /\ w.j.active => w.j.owner = t /\ ~w.j.disabled
  /\ \A s \in Slots : Pend(w)[s] # None => s \in Footprint[e]

\* What a call may never do: write outside the effect's footprint, or touch the
\* backend's journal of another effect.
Confined(e, w, v, other) ==
  /\ other => v.nat = w.nat
  /\ \A s \in Slots \ Footprint[e] : v.dev[s] = w.dev[s]

\* What the effect owes the device stays the same, and what it has saved saved.
Keeps(w, v) ==
  \A s \in Slots : /\ Undone(v, s) = Undone(w, s)
                   /\ Pend(w)[s] # None => Pend(v)[s] # None

LEMMA PendType ==
  ASSUME NEW w \in WorldType
  PROVE  /\ Pend(w) \in Saved
         /\ w.dev \in [Slots -> Values]
         /\ \A s \in Slots : Undone(w, s) \in Values
BY DEF Pend, Undone, WorldType, Saved, Journal, Fx

\* Calls that leave the device and the saved values alone.
LEMMA SamePend ==
  ASSUME NEW w, NEW v, v.j.active = w.j.active, v.j.native = w.j.native,
         v.j.captured = w.j.captured, v.nat = w.nat, v.fx.saved = w.fx.saved, v.dev = w.dev
  PROVE  /\ Pend(v) = Pend(w)
         /\ Keeps(w, v)
         /\ \A e, other : Confined(e, w, v, other)
<1>1. Pend(v) = Pend(w)
  BY Zenon DEF Pend
<1> QED BY <1>1 DEF Keeps, Undone, Confined

LEMMA KeepsOn ==
  ASSUME NEW u, NEW v, NEW w, Keeps(u, v), Keeps(v, w)
  PROVE  Keeps(u, w)
BY DEF Keeps

LEMMA ConfinedOn ==
  ASSUME NEW e, NEW other, NEW u, NEW v, NEW w,
         Confined(e, u, v, other), Confined(e, v, w, other)
  PROVE  Confined(e, u, w, other)
BY DEF Confined

LEMMA WritesFootprint ==
  ASSUME NEW e \in Effects, NEW a \in Attempts(e)
  PROVE  DOMAIN a.write \subseteq Footprint[e] /\ a.readable \subseteq Footprint[e]
<1>1. PICK S \in SUBSET Footprint[e] : a.write \in [S -> Values]
  BY DEF Attempts
<1>2. a.readable \subseteq a.refused /\ a.refused \subseteq Footprint[e]
  BY DEF Attempts
<1> QED BY <1>1, <1>2

\* A setter saves a slot at its first write: into the journal while its
\* transaction is open, and D3DX has saved the footprint otherwise.
LEMMA SetStatesKeeps ==
  ASSUME NEW e \in Effects, NEW t \in Threads, NEW a \in Attempts(e), NEW w, NEW other,
         Fit(e, t, w, other)
  PROVE  LET v == SetStates(w, t, a) IN
         /\ Fit(e, t, v, other) /\ Confined(e, w, v, other)
         /\ v.j.active = w.j.active /\ v.fx = w.fx
         /\ w.j.active \/ w.fx.mode = "saving" => Keeps(w, v)
<1> DEFINE v == SetStates(w, t, a)
<1>1. /\ w \in WorldType /\ w.j \in Journal /\ w.nat \in [open : BOOLEAN, saved : Saved]
      /\ w.dev \in [Slots -> Values]
  BY DEF Fit, Sound, WorldType
<1>2. /\ Sound(v, other) /\ v.fx = w.fx /\ v.j.active = w.j.active
      /\ v.j.native = w.j.native /\ v.j.disabled = w.j.disabled
  <2>1. Sound(w, other)
    BY DEF Fit
  <2>2. Sound(v, other)
    BY <2>1, SetStatesSound
  <2>3. /\ v.fx = w.fx /\ v.j.active = w.j.active
        /\ v.j.native = w.j.native /\ v.j.disabled = w.j.disabled
    BY <1>1, SetStatesCarries
  <2> QED BY <2>2, <2>3
<1>3. DOMAIN a.write \subseteq Footprint[e] /\ a.readable \subseteq Footprint[e] /\ Footprint[e] \subseteq Slots
  BY WritesFootprint
<1>4. CASE ~w.j.active
  <2>1. v = [w EXCEPT !.dev = Written(a, w.dev)]
    BY <1>4 DEF SetStates
  <2>2. v.j = w.j /\ v.nat = w.nat /\ v.fx = w.fx /\ v.dev = Written(a, w.dev)
    BY <1>1, <2>1 DEF WorldType
  <2> HIDE DEF v
  <2>3. Pend(v) = w.fx.saved /\ Pend(w) = w.fx.saved
    BY <1>4, <2>2 DEF Pend
  <2>4. \A s \in Slots : s \notin DOMAIN a.write => v.dev[s] = w.dev[s]
    BY <2>2 DEF Written
  <2>5. Confined(e, w, v, other)
    BY <1>3, <2>2, <2>4 DEF Confined
  <2>6. w.fx.mode = "saving" => Keeps(w, v)
    BY <1>3, <2>3, <2>4 DEF Keeps, Undone, Fit, FxSound
  <2>7. Fit(e, t, v, other)
    BY <1>2, <1>4, <2>2, <2>3 DEF Fit, v
  <2> QED BY <1>4, <2>2, <2>5, <2>6, <2>7 DEF v
<1>5. CASE w.j.active
  <2> DEFINE k == Recorded(w, a)
             n == IF w.j.native THEN NativeCapture(w.nat, DOMAIN a.write, w.dev) ELSE w.nat
  <2>1. w.j.owner = t /\ ~w.j.disabled
    BY <1>5 DEF Fit
  <2>2. v = [w EXCEPT !.dev = Written(a, w.dev), !.nat = n, !.j = k]
    BY <1>5, <2>1 DEF SetStates
  <2>3. v.dev = Written(a, w.dev) /\ v.nat = n /\ v.j = k /\ v.fx = w.fx
    <3> HIDE DEF k, n
    <3> QED BY <1>1, <2>2 DEF WorldType
  <2>3a. \A s \in Slots : s \notin DOMAIN a.write => v.dev[s] = w.dev[s]
    BY <2>3 DEF Written
  <2> DEFINE touched == DOMAIN a.write \union a.readable
             c == Capture(w.j, touched, w.dev)
  <2>4. CASE w.j.native
    <3>1. Pend(v) = n.saved /\ Pend(w) = w.nat.saved
      BY <1>2, <1>5, <2>3, <2>4 DEF Pend
    <3>2. n.saved = [s \in Slots |-> IF s \in DOMAIN a.write /\ w.nat.saved[s] = None
                                     THEN w.dev[s] ELSE w.nat.saved[s]]
      BY <1>1, <2>4 DEF NativeCapture
    <3>3. k.owner = w.j.owner
      BY <1>1, <2>4 DEF Recorded, Journal
    <3>4. other => FALSE
      BY <1>5, <2>4, Zenon DEF Fit, Sound, Owns
    <3> HIDE DEF n, k, v
    <3>5. \A s \in Slots : /\ Pend(w)[s] # None => Pend(v)[s] = Pend(w)[s]
                           /\ Pend(w)[s] = None => Pend(v)[s] \in {None, w.dev[s]}
                           /\ s \in DOMAIN a.write => Pend(v)[s] # None
                           /\ s \notin DOMAIN a.write => Pend(v)[s] = Pend(w)[s]
      BY <1>1, <3>1, <3>2
    <3>6. Keeps(w, v)
      BY <2>3a, <3>5 DEF Keeps, Undone
    <3>7. Confined(e, w, v, other)
      BY <1>3, <2>3a, <3>4 DEF Confined
    <3>8. Fit(e, t, v, other)
      BY <1>2, <1>3, <2>1, <2>3, <3>3, <3>5 DEF Fit, v
    <3> QED BY <1>2, <3>6, <3>7, <3>8 DEF v
  <2>5. CASE ~w.j.native
    <3>1. Pend(v) = k.captured /\ Pend(w) = w.j.captured /\ n = w.nat
      BY <1>2, <1>5, <2>3, <2>5 DEF Pend
    <3>2. k = [c EXCEPT !.failed = w.j.failed \/ a.refused # {}]
      BY <2>5 DEF Recorded
    <3>3. c.captured = [s \in Slots |-> IF s \in FirstTouched(w.j, touched)
                                        THEN w.dev[s] ELSE w.j.captured[s]]
          /\ c.owner = w.j.owner /\ DOMAIN c = DOMAIN w.j
      BY <1>1 DEF Capture, Journal
    <3>4. k.captured = c.captured /\ k.owner = w.j.owner
      <4> HIDE DEF c
      <4> QED BY <1>1, <3>2, <3>3 DEF Journal
    <3>5. \A s \in Slots : s \in FirstTouched(w.j, touched) <=>
                             s \in touched /\ w.j.captured[s] = None
      <4>1. \A s \in Slots : w.j.stamp[s] = w.j.generation <=> w.j.captured[s] # None
        BY <1>5, <2>5 DEF Fit, Sound, Stamped
      <4> QED BY <1>3, <4>1 DEF FirstTouched
    <3> HIDE DEF n, k, v, c
    <3>6. \A s \in Slots : /\ Pend(w)[s] # None => Pend(v)[s] = Pend(w)[s]
                           /\ Pend(w)[s] = None => Pend(v)[s] \in {None, w.dev[s]}
                           /\ s \in DOMAIN a.write => Pend(v)[s] # None
                           /\ s \notin touched => Pend(v)[s] = Pend(w)[s]
      <4>1. \A s \in Slots : s \in DOMAIN a.write => s \in touched
        OBVIOUS
      <4> HIDE DEF touched
      <4>2. \A s \in Slots : Pend(v)[s] = IF s \in touched /\ Pend(w)[s] = None
                                          THEN w.dev[s] ELSE Pend(w)[s]
        BY <3>1, <3>3, <3>4, <3>5
      <4>3. \A s \in Slots : w.dev[s] # None
        BY <1>1
      <4> QED BY <4>1, <4>2, <4>3
    <3>7. Keeps(w, v)
      BY <2>3a, <3>6 DEF Keeps, Undone
    <3>8. Confined(e, w, v, other)
      BY <1>3, <2>3, <2>3a, <3>1 DEF Confined
    <3>9. Fit(e, t, v, other)
      BY <1>2, <1>3, <2>1, <2>3, <3>4, <3>6 DEF Fit, v
    <3> QED BY <1>2, <3>7, <3>8, <3>9 DEF v
  <2> QED BY <1>1, <2>4, <2>5 DEF Journal
<1> QED BY <1>4, <1>5

LEMMA InactiveFit ==
  ASSUME NEW e, NEW t, NEW w, NEW other, Sound(w, other), FxSound(e, w.fx), ~w.j.active
  PROVE  Fit(e, t, w, other)
<1>1. Pend(w) = w.fx.saved
  BY DEF Pend
<1> QED BY <1>1 DEF Fit, FxSound

LEMMA RestoreNativeKeeps ==
  ASSUME ~ResetInside, NEW e \in Effects, NEW t \in Threads, NEW w, NEW other,
         Fit(e, t, w, other), Owns(w.j)
  PROVE  LET v == RestoreNative(w) IN
         /\ \A s \in Slots : v.dev[s] = Undone(w, s)
         /\ v.nat = w.nat \/ ~other
<1> DEFINE k == Finished(w.j)
           done == [w EXCEPT !.j = k, !.ok = TRUE]
           closed == [open |-> FALSE, saved |-> Nothing]
           r == [done EXCEPT !.dev = PutBack(w.nat.saved, w.dev), !.nat = closed]
<1>1. w \in WorldType /\ w.nat.open /\ ~other
  BY Zenon DEF Fit, Sound
<1>2. RestoreNative(w) = r
  BY <1>1 DEF RestoreNative
<1> HIDE DEF closed, k
<1>3. r.dev = PutBack(w.nat.saved, w.dev)
  BY <1>1 DEF WorldType
<1>4. Pend(w) = w.nat.saved
  BY DEF Pend, Owns
<1> HIDE DEF r
<1> QED BY <1>1, <1>2, <1>3, <1>4 DEF PutBack, Undone

LEMMA RestoreLocalKeeps ==
  ASSUME NEW e \in Effects, NEW t \in Threads, NEW w, NEW other, NEW lost,
         Fit(e, t, w, other), w.j.active, ~w.j.native
  PROVE  LET v == RestoreLocal(w, lost) IN
         /\ \A s \in Slots \ Footprint[e] : v.dev[s] = w.dev[s]
         /\ v.ok => \A s \in Slots : v.dev[s] = Undone(w, s)
         /\ ~v.ok => v.j.disabled
         /\ v.nat = w.nat
         /\ lost \subseteq Slots /\ (\A s \in Slots : Pend(w)[s] = None) => v.ok
<1> DEFINE k == Finished(w.j)
           dev == PutBack(Replayed(w.j, lost), w.dev)
           done == [w EXCEPT !.dev = dev, !.j = k, !.ok = TRUE]
           v == RestoreLocal(w, lost)
<1>1. w \in WorldType /\ w.j \in Journal /\ Stamped(w.j) /\ Pend(w) = w.j.captured
  BY DEF Fit, Sound, WorldType, Pend
<1>2. v = IF \A s \in lost : w.j.captured[s] = None THEN done ELSE Distrusted(done)
  BY DEF RestoreLocal
<1>3. \A s \in Slots : dev[s] = IF s \notin lost /\ w.j.captured[s] # None
                                THEN w.j.captured[s] ELSE w.dev[s]
  BY DEF PutBack, Replayed
<1>4. dev \in [Slots -> Values]
  <2>1. Replayed(w.j, lost) \in Saved
    BY <1>1 DEF Replayed, Saved, Journal
  <2>2. w.dev \in [Slots -> Values]
    BY <1>1 DEF WorldType
  <2> QED BY <2>1, <2>2, PutBackType
<1>5. k \in Journal
  BY <1>1, FinishedFields
<1> HIDE DEF dev, k
<1>6. done \in WorldType /\ done.dev = dev /\ done.nat = w.nat /\ done.ok
  BY <1>1, <1>4, <1>5 DEF WorldType
<1> HIDE DEF done
<1>7. /\ Distrusted(done).dev = dev /\ Distrusted(done).nat = w.nat /\ ~Distrusted(done).ok
      /\ Distrusted(done).j.disabled
  BY <1>6, DistrustedFields
<1>8. v.dev = dev /\ v.nat = w.nat /\ (v.ok <=> \A s \in lost : w.j.captured[s] = None)
      /\ (~v.ok => v.j.disabled)
  BY <1>2, <1>6, <1>7
<1>9. \A s \in Slots \ Footprint[e] : w.j.captured[s] = None
  BY <1>1 DEF Fit
<1> HIDE DEF v
<1>10. v.ok => \A s \in Slots : v.dev[s] = Undone(w, s)
  BY <1>1, <1>3, <1>8 DEF Undone
<1>11. lost \subseteq Slots /\ (\A s \in Slots : Pend(w)[s] = None) => v.ok
  BY <1>1, <1>8
<1> QED BY <1>3, <1>8, <1>9, <1>10, <1>11 DEF v

\* Restoring leaves no transaction, and either the device as the effect owes it
\* or a disabled journal.
Restores(e, t, w, v, lost, other) ==
  /\ Fit(e, t, v, other) /\ Confined(e, w, v, other)
  /\ ~v.j.active /\ v.fx = w.fx
  /\ v.ok => \A s \in Slots : v.dev[s] = IF w.j.active THEN Undone(w, s) ELSE w.dev[s]
  /\ ~v.ok => v.j.disabled
  /\ lost \subseteq Slots /\ (\A s \in Slots : Pend(w)[s] = None) => v.ok

LEMMA RestoreKeeps ==
  ASSUME ~ResetInside, NEW e \in Effects, NEW t \in Threads, NEW w, NEW other, NEW lost,
         Fit(e, t, w, other)
  PROVE  Restores(e, t, w, Restore(w, t, lost), lost, other)
<1> DEFINE v == Restore(w, t, lost)
<1> SUFFICES Restores(e, t, w, v, lost, other)
  OBVIOUS
<1> USE DEF Restores
<1>1. /\ w \in WorldType /\ Sound(w, other) /\ FxSound(e, w.fx)
      /\ w.j.active \in BOOLEAN /\ w.j.native \in BOOLEAN
  BY DEF Fit, Sound, WorldType, Journal
<1>2. Sound(v, other) /\ v.fx = w.fx
  BY <1>1, RestoreSound
<1>3. CASE ~w.j.active
  <2>1. v = [w EXCEPT !.ok = TRUE]
    BY <1>3 DEF Restore
  <2>2. v.j = w.j /\ v.nat = w.nat /\ v.fx = w.fx /\ v.dev = w.dev /\ v.ok
    BY <1>1, <2>1 DEF WorldType
  <2> HIDE DEF v
  <2>3. Fit(e, t, v, other)
    BY <1>1, <1>2, <1>3, <2>2, InactiveFit
  <2> QED BY <1>3, <2>2, <2>3 DEF v, Confined
<1>4. CASE w.j.active /\ w.j.native
  <2>1. v = RestoreNative(w) /\ Owns(w.j)
    BY <1>4 DEF Restore, Owns
  <2>2. ~v.j.active
    BY <1>1, <2>1, RestoreNativeCarries
  <2>3. (\A s \in Slots : v.dev[s] = Undone(w, s)) /\ (v.nat = w.nat \/ ~other)
    BY <2>1, RestoreNativeKeeps
  <2>4. v.ok
    <3>1. w.nat.open
      BY <2>1, Zenon DEF Fit, Sound
    <3> QED BY <1>1, <2>1, <3>1 DEF RestoreNative, WorldType
  <2> HIDE DEF v
  <2>5. Fit(e, t, v, other)
    BY <1>1, <1>2, <2>2, InactiveFit
  <2>6. Confined(e, w, v, other)
    BY <2>3 DEF Confined, Undone, Fit
  <2> QED BY <1>2, <1>4, <2>2, <2>3, <2>4, <2>5, <2>6 DEF v
<1>5. CASE w.j.active /\ ~w.j.native
  <2>1. v = RestoreLocal(w, lost) /\ ~Owns(w.j)
    BY <1>5 DEF Restore, Owns, Fit
  <2>2. ~v.j.active
    BY <1>1, <2>1, RestoreLocalCarries
  <2>3. /\ \A s \in Slots \ Footprint[e] : v.dev[s] = w.dev[s]
        /\ v.ok => \A s \in Slots : v.dev[s] = Undone(w, s)
        /\ ~v.ok => v.j.disabled
        /\ v.nat = w.nat
        /\ lost \subseteq Slots /\ (\A s \in Slots : Pend(w)[s] = None) => v.ok
    BY <1>5, <2>1, RestoreLocalKeeps
  <2> HIDE DEF v
  <2>4. Fit(e, t, v, other)
    BY <1>1, <1>2, <2>2, InactiveFit
  <2>5. Confined(e, w, v, other)
    BY <2>3 DEF Confined
  <2> QED BY <1>2, <1>5, <2>2, <2>3, <2>4, <2>5 DEF v
<1> QED BY <1>1, <1>3, <1>4, <1>5

\* With no transaction open, disabling is only a mark.
LEMMA DisableKeeps ==
  ASSUME NEW e \in Effects, NEW t \in Threads, NEW w, NEW other, NEW lost,
         Fit(e, t, w, other), ~w.j.active
  PROVE  LET v == Disable(w, t, lost) IN
         /\ Fit(e, t, v, other) /\ Confined(e, w, v, other)
         /\ ~v.j.active /\ v.j.disabled /\ v.fx = w.fx /\ v.dev = w.dev
<1> DEFINE v == Disable(w, t, lost)
           k == [w.j EXCEPT !.disabled = TRUE]
<1>1. w \in WorldType /\ w.j \in Journal /\ Sound(w, other) /\ FxSound(e, w.fx)
  BY DEF Fit, Sound, WorldType
<1>2. Sound(v, other)
  BY <1>1, DisableSound
<1>3. v = [w EXCEPT !.j = k]
  BY <1>1 DEF Disable, WorldType
<1>4. ~k.active /\ k.disabled
  BY <1>1 DEF Journal
<1> HIDE DEF k
<1>5. v.j = k /\ v.nat = w.nat /\ v.fx = w.fx /\ v.dev = w.dev
  BY <1>1, <1>3 DEF WorldType
<1> HIDE DEF v
<1>6. Fit(e, t, v, other)
  BY <1>1, <1>2, <1>4, <1>5, InactiveFit DEF v
<1> QED BY <1>4, <1>5, <1>6 DEF v, Confined

\* The scope around a call of D3DX always opens.
LEMMA CaptureScopeKeeps ==
  ASSUME ~ResetInside, NEW e \in Effects, NEW t \in Threads, NEW w, NEW other,
         Fit(e, t, w, other)
  PROVE  LET v == CaptureScope(w) IN
         /\ v.ok /\ Fit(e, t, v, other) /\ Confined(e, w, v, other) /\ Keeps(w, v)
         /\ Pend(v) = Pend(w) /\ v.dev = w.dev /\ v.fx = w.fx /\ v.j = w.j
<1> DEFINE v == CaptureScope(w)
<1>1. w \in WorldType /\ Sound(w, other) /\ (Owns(w.j) => w.nat.open)
  BY Zenon DEF Fit, Sound
<1>2. v = [w EXCEPT !.ok = TRUE]
  BY <1>1 DEF CaptureScope, Owns
<1>3. v.j = w.j /\ v.nat = w.nat /\ v.fx = w.fx /\ v.dev = w.dev /\ v.ok
  BY <1>1, <1>2 DEF WorldType
<1>4. Sound(v, other)
  BY <1>1, CaptureScopeSound
<1> HIDE DEF v
<1>5. Pend(v) = Pend(w) /\ Keeps(w, v) /\ Confined(e, w, v, other)
  BY <1>3, SamePend
<1>6. Fit(e, t, v, other)
  BY <1>3, <1>4, <1>5 DEF Fit
<1> QED BY <1>3, <1>5, <1>6 DEF v

\* A transaction starts with nothing to put back.
LEMMA StartTransactionKeeps ==
  ASSUME NEW e \in Effects, NEW t \in Threads, NEW w, NEW other, Fit(e, t, w, other),
         ~w.j.disabled
  PROVE  LET v == StartTransaction(w, t) IN
         /\ Fit(e, t, v, other) /\ Confined(e, w, v, other)
         /\ v.j.active /\ v.dev = w.dev /\ v.fx = w.fx
         /\ \A s \in Slots : Pend(v)[s] = None
<1> DEFINE fresh == ClearJournal(AdvanceGeneration(w.j))
           granted == NativePolicy /\ ~w.nat.open
           k == [fresh EXCEPT !.active = TRUE, !.native = granted, !.failed = FALSE,
                              !.passActive = FALSE, !.owner = t]
           n == IF granted THEN [open |-> TRUE, saved |-> Nothing] ELSE w.nat
           v == StartTransaction(w, t)
<1>1. /\ w \in WorldType /\ w.j \in Journal /\ Stamped(w.j) /\ Sound(w, other)
      /\ FxSound(e, w.fx) /\ (other => w.nat.open)
  BY Zenon DEF Fit, Sound, WorldType
<1>2. fresh \in Journal /\ \A s \in Slots : fresh.captured[s] = None
  BY <1>1, AdvanceFresh
<1>3. fresh.disabled = w.j.disabled
  BY <1>1 DEF ClearJournal, AdvanceGeneration, Journal
<1>4. v = [w EXCEPT !.j = k, !.nat = n, !.ok = TRUE]
  BY DEF StartTransaction
<1>5. other => n = w.nat
  BY <1>1
<1>6. granted => n.saved = Nothing
  OBVIOUS
<1> HIDE DEF fresh, n, granted
<1>7. /\ k.active /\ k.native = granted /\ k.captured = fresh.captured /\ k.owner = t
      /\ ~k.disabled
  BY <1>2, <1>3 DEF Journal
<1> HIDE DEF k
<1>8. v.j = k /\ v.nat = n /\ v.fx = w.fx /\ v.dev = w.dev
  BY <1>1, <1>4 DEF WorldType
<1>9. Sound(v, other)
  BY <1>1, StartTransactionSound
<1> HIDE DEF v
<1>10. \A s \in Slots : Pend(v)[s] = None
  BY <1>2, <1>6, <1>7, <1>8 DEF Pend, Nothing
<1>11. Fit(e, t, v, other)
  BY <1>1, <1>7, <1>8, <1>9, <1>10 DEF Fit
<1> QED BY <1>5, <1>7, <1>8, <1>10, <1>11 DEF v, Confined

\* D3DX begins an idle effect: saving the footprint before it writes, or with
\* the journal saving what it writes.
Begins(e, t, w, v, mode, other) ==
  /\ Fit(e, t, v, other) /\ Confined(e, w, v, other)
  /\ v.j.active = w.j.active
  /\ w.j.active => Keeps(w, v)
  /\ ~w.j.active /\ v.fx.mode = "saving" => \A s \in Slots : Undone(v, s) = w.dev[s]
  /\ v.fx = w.fx \/ (v.ok /\ v.fx.mode = mode /\ v.fx.phase = "begun")

LEMMA D3dxBeginKeeps ==
  ASSUME NEW e \in Effects, NEW t \in Threads, NEW a \in Attempts(e), NEW w, NEW other,
         Fit(e, t, w, other), NEW mode \in {"saving", "plain", "journaled"},
         w.fx.phase = "idle", w.j.active => mode = "journaled"
  PROVE  Begins(e, t, w, D3dxBegin(w, t, a, e, mode), mode, other)
<1> DEFINE v == D3dxBegin(w, t, a, e, mode)
           u == SetStates(w, t, a)
           block == [s \in Slots |-> IF mode = "saving" /\ s \in Footprint[e] THEN w.dev[s] ELSE None]
           f == [phase |-> "begun", mode |-> mode, saved |-> block]
<1> SUFFICES /\ Fit(e, t, v, other) /\ Confined(e, w, v, other)
             /\ v.j.active = w.j.active
             /\ w.j.active => Keeps(w, v)
             /\ ~w.j.active /\ v.fx.mode = "saving" => \A s \in Slots : Undone(v, s) = w.dev[s]
             /\ v.fx = w.fx \/ (v.ok /\ v.fx.mode = mode /\ v.fx.phase = "begun")
  BY Zenon DEF Begins
<1>1. /\ w \in WorldType /\ Sound(w, other) /\ w.fx.mode = "plain"
      /\ w.dev \in [Slots -> Values]
  BY DEF Fit, Sound, FxSound, WorldType
<1>2. /\ Fit(e, t, u, other) /\ Confined(e, w, u, other)
      /\ u.j.active = w.j.active /\ u.fx = w.fx /\ (w.j.active => Keeps(w, u))
  BY SetStatesKeeps
<1>3. u \in WorldType
  BY <1>2 DEF Fit, Sound
<1>4. Sound(v, other)
  BY <1>1, D3dxBeginSound
<1>5. CASE ~a.ok
  <2>1. v = [u EXCEPT !.ok = FALSE]
    BY <1>5 DEF D3dxBegin
  <2> HIDE DEF u
  <2>2. v.j = u.j /\ v.nat = u.nat /\ v.fx = u.fx /\ v.dev = u.dev
    BY <1>3, <2>1 DEF WorldType
  <2> HIDE DEF v
  <2>3. Pend(v) = Pend(u) /\ Keeps(u, v) /\ Confined(e, u, v, other)
    BY <2>2, SamePend
  <2>4. Confined(e, w, v, other) /\ (w.j.active => Keeps(w, v))
    BY <1>2, <2>3, KeepsOn, ConfinedOn
  <2>5. Fit(e, t, v, other)
    BY <1>2, <1>4, <2>2, <2>3 DEF Fit, v
  <2> QED BY <1>1, <1>2, <2>2, <2>4, <2>5 DEF v
<1>6. CASE a.ok
  <2>1. v = [u EXCEPT !.ok = TRUE, !.fx = f]
    BY <1>6 DEF D3dxBegin
  <2>2. FxSound(e, f) /\ f.mode = mode /\ f.phase = "begun"
    <3>1. ASSUME NEW s \in Slots PROVE block[s] # None <=> mode = "saving" /\ s \in Footprint[e]
      BY <1>1
    <3> QED BY <3>1 DEF FxSound
  <2>3. \A s \in Slots : f.saved[s] = IF mode = "saving" /\ s \in Footprint[e] THEN w.dev[s] ELSE None
    OBVIOUS
  <2> HIDE DEF u, f
  <2>4. v.j = u.j /\ v.nat = u.nat /\ v.fx = f /\ v.dev = u.dev /\ v.ok
    BY <1>3, <2>1 DEF WorldType
  <2> HIDE DEF v
  <2>5. Confined(e, w, v, other)
    BY <1>2, <2>4 DEF Confined
  <2>6. CASE w.j.active
    <3>1. Pend(v) = Pend(u)
      BY <1>2, <2>4, <2>6 DEF Pend
    <3>2. Keeps(u, v)
      BY <2>4, <3>1 DEF Keeps, Undone
    <3>3. Fit(e, t, v, other)
      BY <1>2, <1>4, <2>2, <2>4, <3>1 DEF Fit, v
    <3>4. Keeps(w, v)
      BY <1>2, <2>6, <3>2, KeepsOn
    <3> QED BY <1>2, <2>2, <2>4, <2>5, <2>6, <3>3, <3>4 DEF v
  <2>7. CASE ~w.j.active
    <3>1. Pend(v) = f.saved
      BY <1>2, <2>4, <2>7 DEF Pend
    <3>2. Fit(e, t, v, other)
      BY <1>2, <1>4, <2>2, <2>4, <2>7, InactiveFit DEF v
    <3>3. ASSUME mode = "saving", NEW s \in Slots PROVE Undone(v, s) = w.dev[s]
      <4>1. s \notin Footprint[e] => v.dev[s] = w.dev[s]
        BY <2>5 DEF Confined
      <4>2. w.dev[s] # None
        BY <1>1
      <4> QED BY <2>3, <3>1, <3>3, <4>1, <4>2 DEF Undone
    <3> QED BY <1>2, <2>2, <2>4, <2>5, <2>7, <3>2, <3>3 DEF v
  <2> QED BY <2>6, <2>7
<1> QED BY <1>5, <1>6

\* What a call within a begun effect does.
Within(e, t, w, v, other) ==
  /\ Fit(e, t, v, other) /\ Confined(e, w, v, other)
  /\ v.j.active = w.j.active /\ v.fx.mode = w.fx.mode
  /\ w.j.active \/ w.fx.mode = "saving" => Keeps(w, v)

LEMMA WithinOn ==
  ASSUME NEW e, NEW t, NEW other, NEW u, NEW v, NEW w,
         Within(e, t, u, v, other), Within(e, t, v, w, other)
  PROVE  Within(e, t, u, w, other)
BY KeepsOn, ConfinedOn DEF Within

LEMMA SameWithin ==
  ASSUME NEW e, NEW t, NEW other, NEW w, NEW v, Fit(e, t, w, other), Sound(v, other),
         v.j.active = w.j.active, v.j.native = w.j.native, v.j.disabled = w.j.disabled,
         v.j.owner = w.j.owner, v.j.captured = w.j.captured, v.nat = w.nat, v.dev = w.dev,
         v.fx.saved = w.fx.saved, v.fx.mode = w.fx.mode,
         v.fx.phase = "idle" => w.fx.phase = "idle"
  PROVE  Within(e, t, w, v, other)
<1>1. Pend(v) = Pend(w) /\ Keeps(w, v) /\ Confined(e, w, v, other)
  BY SamePend
<1>2. FxSound(e, v.fx)
  BY DEF Fit, FxSound
<1> QED BY <1>1, <1>2 DEF Fit, Within

LEMMA D3dxBeginPassKeeps ==
  ASSUME NEW e \in Effects, NEW t \in Threads, NEW a \in Attempts(e), NEW w, NEW other,
         Fit(e, t, w, other)
  PROVE  Within(e, t, w, D3dxBeginPass(w, t, a), other)
<1> DEFINE v == D3dxBeginPass(w, t, a)
           u == SetStates(w, t, a)
           phase == IF a.ok THEN "pass" ELSE "begun"
           f == [u.fx EXCEPT !.phase = phase]
<1>1. w \in WorldType /\ Sound(w, other)
  BY DEF Fit, Sound
<1>2. Sound(v, other)
  BY <1>1, D3dxBeginPassSound
<1>3. CASE w.fx.phase # "begun"
  <2>1. v = [w EXCEPT !.ok = FALSE]
    BY <1>3 DEF D3dxBeginPass
  <2>2. v.j = w.j /\ v.nat = w.nat /\ v.fx = w.fx /\ v.dev = w.dev
    BY <1>1, <2>1 DEF WorldType
  <2> HIDE DEF v
  <2> QED BY <1>2, <2>2, SameWithin DEF v
<1>4. CASE w.fx.phase = "begun"
  <2>1. v = [u EXCEPT !.ok = a.ok, !.fx.phase = phase]
    BY <1>4 DEF D3dxBeginPass
  <2>2. Within(e, t, w, u, other)
    BY SetStatesKeeps DEF Within
  <2>3. u \in WorldType /\ Fit(e, t, u, other)
    BY <2>2 DEF Within, Fit, Sound
  <2> HIDE DEF u
  <2>4. f.phase # "idle" /\ f.mode = u.fx.mode /\ f.saved = u.fx.saved
    BY <2>3 DEF WorldType, Fx
  <2>5. v = [u EXCEPT !.ok = a.ok, !.fx = f]
    BY <2>1, <2>3 DEF WorldType
  <2> HIDE DEF f
  <2>6. v.j = u.j /\ v.nat = u.nat /\ v.fx = f /\ v.dev = u.dev
    BY <2>3, <2>5 DEF WorldType
  <2> HIDE DEF v
  <2>7. Within(e, t, u, v, other)
    BY <1>2, <2>3, <2>4, <2>6, SameWithin DEF v
  <2> QED BY <2>2, <2>7, WithinOn DEF v
<1> QED BY <1>3, <1>4

LEMMA D3dxCommitChangesKeeps ==
  ASSUME NEW e \in Effects, NEW t \in Threads, NEW a \in Attempts(e), NEW w, NEW other,
         Fit(e, t, w, other)
  PROVE  Within(e, t, w, D3dxCommitChanges(w, t, a), other)
<1> DEFINE v == D3dxCommitChanges(w, t, a)
           u == SetStates(w, t, a)
<1>1. w \in WorldType /\ Sound(w, other)
  BY DEF Fit, Sound
<1>2. Sound(v, other)
  BY <1>1, D3dxCommitChangesSound
<1>3. Within(e, t, w, u, other)
  BY SetStatesKeeps DEF Within
<1>4. u \in WorldType /\ Fit(e, t, u, other)
  BY <1>3 DEF Within, Fit, Sound
<1>5. v = [w EXCEPT !.ok = FALSE] \/ v = [u EXCEPT !.ok = a.ok]
  BY DEF D3dxCommitChanges
<1> HIDE DEF u, v
<1>6. CASE v = [w EXCEPT !.ok = FALSE]
  <2>1. v.j = w.j /\ v.nat = w.nat /\ v.fx = w.fx /\ v.dev = w.dev
    BY <1>1, <1>6 DEF WorldType
  <2> QED BY <1>2, <2>1, SameWithin DEF v
<1>7. CASE v = [u EXCEPT !.ok = a.ok]
  <2>1. v.j = u.j /\ v.nat = u.nat /\ v.fx = u.fx /\ v.dev = u.dev
    BY <1>4, <1>7 DEF WorldType
  <2>2. Within(e, t, u, v, other)
    BY <1>2, <1>4, <2>1, SameWithin
  <2> QED BY <1>3, <2>2, WithinOn DEF v
<1> QED BY <1>5, <1>6, <1>7

LEMMA PassActiveKeeps ==
  ASSUME NEW e, NEW t, NEW w, NEW other, Fit(e, t, w, other), NEW active \in BOOLEAN
  PROVE  Within(e, t, w, [w EXCEPT !.j.passActive = active], other)
<1> DEFINE v == [w EXCEPT !.j.passActive = active]
           k == [w.j EXCEPT !.passActive = active]
<1>1. w \in WorldType /\ w.j \in Journal /\ Sound(w, other)
  BY DEF Fit, Sound, WorldType
<1>2. Sound(v, other)
  BY <1>1, PassActiveSound
<1>3. v = [w EXCEPT !.j = k]
  BY <1>1 DEF WorldType
<1>4. /\ k.active = w.j.active /\ k.native = w.j.native /\ k.captured = w.j.captured
      /\ k.disabled = w.j.disabled /\ k.owner = w.j.owner
  BY <1>1 DEF Journal
<1> HIDE DEF k, v
<1>5. v.j = k /\ v.nat = w.nat /\ v.fx = w.fx /\ v.dev = w.dev
  BY <1>1, <1>3 DEF WorldType
<1>6. Within(e, t, w, v, other)
  BY <1>2, <1>4, <1>5, SameWithin
<1> QED BY <1>6 DEF v

LEMMA BeginPassCallKeeps ==
  ASSUME NEW e \in Effects, NEW t \in Threads, NEW a \in Attempts(e), NEW w, NEW other,
         Fit(e, t, w, other)
  PROVE  Within(e, t, w, BeginPassCall(w, t, a), other)
<1> DEFINE u == D3dxBeginPass(w, t, a)
           v == BeginPassCall(w, t, a)
<1>1. Within(e, t, w, u, other) /\ Fit(e, t, u, other)
  BY D3dxBeginPassKeeps DEF Within
<1>2. v = u \/ v = [u EXCEPT !.j.passActive = TRUE]
  BY DEF BeginPassCall
<1> HIDE DEF u
<1>3. Within(e, t, u, [u EXCEPT !.j.passActive = TRUE], other)
  BY <1>1, PassActiveKeeps
<1> HIDE DEF v
<1>4. Within(e, t, w, v, other)
  BY <1>1, <1>2, <1>3, WithinOn
<1> QED BY <1>4 DEF v

LEMMA EndPassCallKeeps ==
  ASSUME NEW e \in Effects, NEW t \in Threads, NEW w, NEW other, Fit(e, t, w, other)
  PROVE  Within(e, t, w, EndPassCall(w), other)
<1> DEFINE u == D3dxEndPass(w)
           f == [w.fx EXCEPT !.phase = "begun"]
           v == EndPassCall(w)
<1>1. w \in WorldType /\ Sound(w, other) /\ w.fx \in Fx
  BY DEF Fit, Sound, WorldType
<1>2. Sound(u, other)
  BY <1>1, D3dxEndPassSound
<1>3. u = [w EXCEPT !.ok = FALSE] \/ u = [w EXCEPT !.ok = TRUE, !.fx = f]
  BY <1>1 DEF D3dxEndPass, WorldType
<1>4. f.phase # "idle" /\ f.mode = w.fx.mode /\ f.saved = w.fx.saved
  BY <1>1 DEF Fx
<1> HIDE DEF f, u
<1>5. u.j = w.j /\ u.nat = w.nat /\ u.dev = w.dev /\ (u.fx = w.fx \/ u.fx = f)
  BY <1>1, <1>3 DEF WorldType
<1>6. Within(e, t, w, u, other)
  BY <1>2, <1>4, <1>5, SameWithin
<1>7. Within(e, t, u, [u EXCEPT !.j.passActive = FALSE], other)
  BY <1>6, PassActiveKeeps DEF Within
<1>8. v = u \/ v = [u EXCEPT !.j.passActive = FALSE]
  BY DEF EndPassCall, u
<1> HIDE DEF v
<1>9. Within(e, t, w, v, other)
  BY <1>6, <1>7, <1>8, WithinOn
<1> QED BY <1>9 DEF v

\* D3DX, ended, has put back what it saved.
LEMMA D3dxEndKeeps ==
  ASSUME NEW e \in Effects, NEW t \in Threads, NEW w, NEW other, Fit(e, t, w, other),
         w.j.active => w.fx.mode # "saving"
  PROVE  LET v == D3dxEnd(w) IN
         /\ Fit(e, t, v, other) /\ Confined(e, w, v, other)
         /\ v.j = w.j /\ v.fx.phase = "idle" /\ v.fx.mode = "plain"
         /\ \A s \in Slots : Undone(v, s) = Undone(w, s)
         /\ w.j.active => Keeps(w, v)
<1> DEFINE v == D3dxEnd(w)
           dev == PutBack(w.fx.saved, w.dev)
           f == [phase |-> "idle", mode |-> "plain", saved |-> Nothing]
<1>1. w \in WorldType /\ Sound(w, other) /\ FxSound(e, w.fx)
  BY DEF Fit, Sound
<1>2. Sound(v, other)
  BY <1>1, D3dxEndSound
<1>3. CASE w.fx.phase = "idle"
  <2>1. v = [w EXCEPT !.ok = FALSE]
    BY <1>3 DEF D3dxEnd
  <2>2. v.j = w.j /\ v.nat = w.nat /\ v.fx = w.fx /\ v.dev = w.dev
    BY <1>1, <2>1 DEF WorldType
  <2> HIDE DEF v
  <2>3. Keeps(w, v) /\ Pend(v) = Pend(w) /\ Confined(e, w, v, other)
    BY <2>2, SamePend
  <2>4. Fit(e, t, v, other)
    BY <1>2, <2>2, <2>3 DEF Fit, v
  <2> QED BY <1>1, <1>3, <2>2, <2>3, <2>4 DEF v, Keeps, FxSound
<1>4. CASE w.fx.phase # "idle"
  <2>1. v = [w EXCEPT !.ok = TRUE, !.dev = dev, !.fx = f]
    BY <1>4 DEF D3dxEnd
  <2>2. FxSound(e, f) /\ f.mode = "plain" /\ f.phase = "idle" /\ \A s \in Slots : f.saved[s] = None
    BY DEF FxSound, Nothing
  <2>3. \A s \in Slots : dev[s] = IF w.fx.saved[s] # None THEN w.fx.saved[s] ELSE w.dev[s]
    BY DEF PutBack
  <2> HIDE DEF dev, f
  <2>4. v.j = w.j /\ v.nat = w.nat /\ v.fx = f /\ v.dev = dev
    BY <1>1, <2>1 DEF WorldType
  <2> HIDE DEF v
  <2>5. Confined(e, w, v, other)
    BY <1>1, <2>3, <2>4 DEF Confined, FxSound
  <2>6. CASE w.j.active
    <3>1. \A s \in Slots : v.dev[s] = w.dev[s]
      BY <1>1, <2>3, <2>4, <2>6 DEF FxSound
    <3>2. Pend(v) = Pend(w)
      BY <2>4, <2>6 DEF Pend
    <3>3. Keeps(w, v)
      BY <3>1, <3>2 DEF Keeps, Undone
    <3>4. Fit(e, t, v, other)
      BY <1>2, <2>2, <2>4, <3>2 DEF Fit, v
    <3> QED BY <2>2, <2>4, <2>5, <3>3, <3>4 DEF v, Keeps
  <2>7. CASE ~w.j.active
    <3>1. Pend(v) = f.saved /\ Pend(w) = w.fx.saved
      BY <2>4, <2>7 DEF Pend
    <3>2. \A s \in Slots : Undone(v, s) = Undone(w, s)
      BY <2>2, <2>3, <2>4, <3>1 DEF Undone
    <3>3. Fit(e, t, v, other)
      BY <1>2, <2>2, <2>4, <2>7, InactiveFit DEF v
    <3> QED BY <2>2, <2>4, <2>5, <2>7, <3>2, <3>3 DEF v
  <2> QED BY <2>6, <2>7
<1> QED BY <1>3, <1>4

-----------------------------------------------------------------------------
(* What a handler promises, from the world it found.                        *)

Saves(w) == w.j.active \/ w.fx.mode = "saving"

\* Between handlers a transaction is open only while D3DX runs under it.
Kempt(e, t, w, other) ==
  /\ Fit(e, t, w, other)
  /\ w.j.active => w.fx.mode = "journaled" /\ w.fx.phase # "idle"

Answers(w, v) ==
  /\ Saves(w) /\ Saves(v) => Keeps(w, v)
  /\ Saves(w) /\ ~Saves(v) => (\A s \in Slots : v.dev[s] = Undone(w, s)) \/ v.j.disabled
  /\ ~Saves(w) /\ Saves(v) => \A s \in Slots : Undone(v, s) = w.dev[s]

Promised(e, t, v) ==
  /\ Settle(e, v) /\ Kempt(e, t, v, Others(e))
  /\ Confined(e, World(e), v, Others(e)) /\ Answers(World(e), v)

LEMMA UnsavedUndone ==
  ASSUME NEW e, NEW t, NEW other, NEW w, Fit(e, t, w, other), ~Saves(w), NEW s \in Slots
  PROVE  Pend(w)[s] = None /\ Undone(w, s) = w.dev[s]
BY DEF Saves, Pend, Undone, Fit, FxSound

\* D3DX does not begin what it has begun.
LEMMA D3dxBeginRefused ==
  ASSUME NEW w \in WorldType, NEW t, NEW a, NEW e, NEW mode, w.fx.phase # "idle"
  PROVE  LET v == D3dxBegin(w, t, a, e, mode) IN
         v.j = w.j /\ v.nat = w.nat /\ v.fx = w.fx /\ v.dev = w.dev /\ ~v.ok
<1> DEFINE v == D3dxBegin(w, t, a, e, mode)
<1>1. v = [w EXCEPT !.ok = FALSE]
  BY DEF D3dxBegin
<1> HIDE DEF v
<1> QED BY <1>1 DEF WorldType, v

\* An effect that saves nothing begins on the baseline, on the device it found.
LEMMA BaselineBeginPromised ==
  ASSUME NEW e \in Effects, NEW t \in Threads, NEW w, Fit(e, t, w, Others(e)),
         ~w.j.active, w.fx.phase = "idle", ~Saves(World(e)),
         Confined(e, World(e), w, Others(e)),
         \A s \in Slots : w.dev[s] = World(e).dev[s], BaselineBegin(e, w, t)
  PROVE  \E v : Promised(e, t, v)
<1>1. PICK a \in Baselines(e) : Settle(e, D3dxBegin(w, t, a, e, "saving"))
  BY DEF BaselineBegin
<1>2. a \in Attempts(e) /\ w.fx.mode = "plain"
  BY DEF Baselines, Fit, FxSound
<1> DEFINE v == D3dxBegin(w, t, a, e, "saving")
<1>3. /\ Fit(e, t, v, Others(e)) /\ Confined(e, w, v, Others(e)) /\ ~v.j.active
      /\ v.fx.mode = "saving" => \A s \in Slots : Undone(v, s) = w.dev[s]
  BY <1>2, D3dxBeginKeeps DEF Begins
<1>4. Settle(e, v)
  BY <1>1
<1> HIDE DEF v
<1>5. Promised(e, t, v)
  BY <1>3, <1>4, ConfinedOn DEF Promised, Kempt, Answers, Saves
<1> QED BY <1>5

\* A journaled Begin of an idle effect that failed is undone before it is
\* retried.
LEMMA BeginFallbackPromised ==
  ASSUME ~ResetInside, NEW e \in Effects, NEW t \in Threads, NEW w, Fit(e, t, w, Others(e)),
         w.j.active, w.fx.mode # "saving", ~w.ok => w.fx.phase = "idle" /\ w.fx.mode = "plain",
         ~Saves(World(e)), Confined(e, World(e), w, Others(e)),
         \A s \in Slots : Undone(w, s) = World(e).dev[s],
         BeginFallback(e, w, t)
  PROVE  \E v : Promised(e, t, v)
<1> DEFINE ended == IF w.ok THEN D3dxEnd(w) ELSE w
           restored(lost) == Restore(ended, t, lost)
           disabled(lost) == Disable(restored(lost), t, {})
<1>1. PICK lost \in Losses(w.j) :
        IF restored(lost).ok THEN BaselineBegin(e, disabled(lost), t)
        ELSE Settle(e, disabled(lost))
  BY DEF BeginFallback
<1>2. /\ Fit(e, t, ended, Others(e)) /\ Confined(e, World(e), ended, Others(e))
      /\ ended.j.active /\ ended.fx.phase = "idle" /\ ended.fx.mode = "plain"
      /\ \A s \in Slots : Undone(ended, s) = World(e).dev[s]
  <2>1. CASE w.ok
    <3> DEFINE d == D3dxEnd(w)
    <3>1. /\ Fit(e, t, d, Others(e)) /\ Confined(e, w, d, Others(e))
          /\ d.j = w.j /\ d.fx.phase = "idle" /\ d.fx.mode = "plain"
          /\ \A s \in Slots : Undone(d, s) = Undone(w, s)
      BY D3dxEndKeeps
    <3>2. ended = d
      BY <2>1
    <3> HIDE DEF d, ended
    <3> QED BY <3>1, <3>2, ConfinedOn
  <2>2. CASE ~w.ok
    BY <2>2
  <2> QED BY <2>1, <2>2
<1> HIDE DEF ended
<1>3. /\ Fit(e, t, restored(lost), Others(e)) /\ Confined(e, ended, restored(lost), Others(e))
      /\ ~restored(lost).j.active /\ restored(lost).fx = ended.fx
      /\ restored(lost).ok => \A s \in Slots : restored(lost).dev[s] = World(e).dev[s]
  <2>1. Restores(e, t, ended, restored(lost), lost, Others(e))
    BY <1>2, RestoreKeeps
  <2> HIDE DEF restored
  <2> QED BY <1>2, <2>1 DEF Restores
<1> HIDE DEF restored
<1>4. /\ Fit(e, t, disabled(lost), Others(e))
      /\ Confined(e, restored(lost), disabled(lost), Others(e))
      /\ ~disabled(lost).j.active /\ disabled(lost).fx = restored(lost).fx
      /\ disabled(lost).dev = restored(lost).dev
  BY <1>3, DisableKeeps
<1> HIDE DEF disabled
<1>5. Confined(e, World(e), disabled(lost), Others(e))
  BY <1>2, <1>3, <1>4, ConfinedOn
<1>6. CASE restored(lost).ok /\ BaselineBegin(e, disabled(lost), t)
  BY <1>2, <1>3, <1>4, <1>5, <1>6, BaselineBeginPromised
<1>7. CASE Settle(e, disabled(lost))
  <2>1. ~Saves(disabled(lost))
    BY <1>2, <1>3, <1>4 DEF Saves
  <2> QED BY <1>4, <1>5, <1>7, <2>1 DEF Promised, Kempt, Answers
<1> QED BY <1>1, <1>6, <1>7

\* A journaled Begin of an effect that D3DX has begun already is refused there,
\* and leaves the device and what it has saved.
LEMMA BeginAgainPromised ==
  ASSUME ~ResetInside, NEW e \in Effects, NEW t \in Threads, NEW w, Fit(e, t, w, Others(e)),
         w.j.active, ~w.ok, w.fx.phase # "idle", w.fx = World(e).fx, ~World(e).j.active,
         Confined(e, World(e), w, Others(e)), w.dev = World(e).dev,
         \A s \in Slots : Pend(w)[s] = None,
         BeginFallback(e, w, t)
  PROVE  \E v : Promised(e, t, v)
<1> DEFINE restored(lost) == Restore(w, t, lost)
           disabled(lost) == Disable(restored(lost), t, {})
<1>1. PICK lost \in Losses(w.j) :
        IF restored(lost).ok THEN BaselineBegin(e, disabled(lost), t)
        ELSE Settle(e, disabled(lost))
  BY DEF BeginFallback
<1>2. lost \subseteq Slots
  BY <1>1 DEF Losses, Captured
<1>3. /\ Fit(e, t, restored(lost), Others(e)) /\ Confined(e, w, restored(lost), Others(e))
      /\ ~restored(lost).j.active /\ restored(lost).fx = w.fx /\ restored(lost).ok
      /\ \A s \in Slots : restored(lost).dev[s] = w.dev[s]
  <2>1. Restores(e, t, w, restored(lost), lost, Others(e))
    BY RestoreKeeps
  <2> HIDE DEF restored
  <2>2. restored(lost).ok
    BY <1>2, <2>1 DEF Restores
  <2> QED BY <2>1, <2>2 DEF Restores, Undone
<1> HIDE DEF restored
<1>4. /\ Fit(e, t, disabled(lost), Others(e))
      /\ Confined(e, restored(lost), disabled(lost), Others(e))
      /\ ~disabled(lost).j.active /\ disabled(lost).fx = restored(lost).fx
      /\ disabled(lost).dev = restored(lost).dev
  BY <1>3, DisableKeeps
<1> HIDE DEF disabled
<1>5. PICK a \in Baselines(e) : Settle(e, D3dxBegin(disabled(lost), t, a, e, "saving"))
  BY <1>1, <1>3 DEF BaselineBegin
<1> DEFINE v == D3dxBegin(disabled(lost), t, a, e, "saving")
<1>6. /\ v.j = disabled(lost).j /\ v.nat = disabled(lost).nat
      /\ v.fx = disabled(lost).fx /\ v.dev = disabled(lost).dev
  BY <1>3, <1>4, D3dxBeginRefused DEF Fit, Sound
<1>7. Sound(v, Others(e))
  BY <1>4, <1>5, D3dxBeginSound DEF Baselines, Fit
<1>8. Settle(e, v)
  BY <1>5
<1> HIDE DEF v
<1>9. Fit(e, t, v, Others(e))
  BY <1>4, <1>6, <1>7, InactiveFit DEF Fit
<1>10. Confined(e, World(e), v, Others(e))
  BY <1>3, <1>4, <1>6, ConfinedOn DEF Confined
<1>11. Pend(v) = Pend(World(e)) /\ \A s \in Slots : v.dev[s] = World(e).dev[s]
  BY <1>3, <1>4, <1>6 DEF Pend
<1>12. Keeps(World(e), v) /\ (Saves(v) = Saves(World(e)))
  BY <1>3, <1>4, <1>6, <1>11 DEF Keeps, Undone, Saves
<1>13. Promised(e, t, v)
  BY <1>4, <1>6, <1>8, <1>9, <1>10, <1>12 DEF Promised, Kempt, Answers
<1> QED BY <1>13

\* The restart puts back what the journal saved, and lets D3DX save the same
\* slots itself; or the effect ends there.
LEMMA RestartBaselinePromised ==
  ASSUME ~ResetInside, NEW e \in Effects, NEW t \in Threads, NEW w, Fit(e, t, w, Others(e)),
         w.j.active, w.fx.mode # "saving", Saves(World(e)),
         Confined(e, World(e), w, Others(e)), Keeps(World(e), w),
         RestartBaseline(e, w, t)
  PROVE  \E v : Promised(e, t, v)
<1> DEFINE passed == IF w.j.passActive THEN EndPassCall(w) ELSE w
           ended == D3dxEnd(passed)
           restored(lost) == Restore(ended, t, lost)
           disabled(lost) == Disable(restored(lost), t, {})
           block(lost) == [s \in Slots |-> IF s \in Footprint[e] THEN disabled(lost).dev[s] ELSE None]
           f(lost) == [phase |-> "begun", mode |-> "saving", saved |-> block(lost)]
           begun(lost) == [disabled(lost) EXCEPT !.ok = TRUE, !.fx = f(lost)]
<1>1. PICK lost \in Losses(w.j), begins \in BOOLEAN :
        IF restored(lost).ok /\ begins
        THEN \E a \in Baselines(e) : Settle(e, D3dxBeginPass(begun(lost), t, a))
        ELSE Settle(e, disabled(lost))
  BY DEF RestartBaseline
<1>2. /\ Fit(e, t, passed, Others(e)) /\ Confined(e, World(e), passed, Others(e))
      /\ Keeps(World(e), passed) /\ passed.j.active /\ passed.fx.mode # "saving"
  <2>1. Within(e, t, w, EndPassCall(w), Others(e))
    BY EndPassCallKeeps
  <2> QED BY <2>1, ConfinedOn, KeepsOn DEF Within
<1> HIDE DEF passed
<1>3. /\ Fit(e, t, ended, Others(e)) /\ Confined(e, World(e), ended, Others(e))
      /\ Keeps(World(e), ended) /\ ended.j.active /\ ended.fx.mode = "plain"
  <2>1. /\ Fit(e, t, ended, Others(e)) /\ Confined(e, passed, ended, Others(e))
        /\ Keeps(passed, ended) /\ ended.j = passed.j /\ ended.fx.mode = "plain"
    BY <1>2, D3dxEndKeeps
  <2> HIDE DEF ended
  <2> QED BY <1>2, <2>1, ConfinedOn, KeepsOn
<1> HIDE DEF ended
<1>4. Restores(e, t, ended, restored(lost), lost, Others(e))
  BY <1>3, RestoreKeeps
<1> HIDE DEF restored
<1>5. Fit(e, t, restored(lost), Others(e)) /\ ~restored(lost).j.active
  BY <1>4 DEF Restores
<1>6. /\ Fit(e, t, disabled(lost), Others(e))
      /\ Confined(e, restored(lost), disabled(lost), Others(e))
      /\ ~disabled(lost).j.active /\ disabled(lost).j.disabled
      /\ disabled(lost).fx = restored(lost).fx /\ disabled(lost).dev = restored(lost).dev
  BY <1>5, DisableKeeps
<1> HIDE DEF disabled
<1>7. Confined(e, World(e), disabled(lost), Others(e)) /\ disabled(lost).fx.mode = "plain"
  BY <1>3, <1>4, <1>6, ConfinedOn DEF Restores
<1>8. CASE Settle(e, disabled(lost))
  BY <1>6, <1>7, <1>8 DEF Promised, Kempt, Answers, Saves
<1>9. ASSUME restored(lost).ok, NEW a \in Baselines(e),
             Settle(e, D3dxBeginPass(begun(lost), t, a))
      PROVE  \E v : Promised(e, t, v)
  <2>1. /\ disabled(lost) \in WorldType /\ Sound(disabled(lost), Others(e))
        /\ disabled(lost).dev \in [Slots -> Values] /\ a \in Attempts(e)
    BY <1>6 DEF Fit, Sound, WorldType, Baselines
  <2>2. /\ f(lost) \in Fx /\ f(lost).mode = "saving" /\ FxSound(e, f(lost))
        /\ \A s \in Slots : f(lost).saved[s] = IF s \in Footprint[e] THEN disabled(lost).dev[s]
                                               ELSE None
    <3>1. /\ block(lost) \in Saved /\ \A s \in Slots : block(lost)[s] # None <=> s \in Footprint[e]
          /\ \A s \in Slots : block(lost)[s] = IF s \in Footprint[e] THEN disabled(lost).dev[s] ELSE None
      BY <2>1 DEF Saved
    <3> HIDE DEF block
    <3> QED BY <3>1 DEF Fx, FxSound
  <2> HIDE DEF f
  <2>3. /\ begun(lost) \in WorldType /\ begun(lost).j = disabled(lost).j
        /\ begun(lost).nat = disabled(lost).nat /\ begun(lost).fx = f(lost)
        /\ begun(lost).dev = disabled(lost).dev
    BY <2>1, <2>2 DEF WorldType
  <2> HIDE DEF begun
  <2>4. Sound(begun(lost), Others(e))
    BY <2>1, <2>3, SameJournalSound
  <2>5. Fit(e, t, begun(lost), Others(e))
    BY <1>6, <2>2, <2>3, <2>4, InactiveFit
  <2>6. Keeps(World(e), begun(lost))
    <3>1. \A s \in Slots : Undone(ended, s) = Undone(World(e), s)
                           /\ (Pend(World(e))[s] # None => s \in Footprint[e])
      BY <1>3 DEF Keeps, Fit
    <3>2. \A s \in Slots : disabled(lost).dev[s] = Undone(ended, s)
      BY <1>3, <1>4, <1>6, <1>9 DEF Restores
    <3>3. Pend(begun(lost)) = f(lost).saved
      BY <1>6, <2>3 DEF Pend
    <3>4. \A s \in Slots : disabled(lost).dev[s] # None
      BY <2>1
    <3>5. \A s \in Slots : Undone(begun(lost), s) = disabled(lost).dev[s]
      BY <2>2, <2>3, <3>3 DEF Undone
    <3> QED BY <2>2, <3>1, <3>2, <3>3, <3>4, <3>5 DEF Keeps
  <2>7. Confined(e, World(e), begun(lost), Others(e))
    BY <1>7, <2>3 DEF Confined
  <2> DEFINE v == D3dxBeginPass(begun(lost), t, a)
  <2>8. Within(e, t, begun(lost), v, Others(e))
    BY <2>1, <2>5, D3dxBeginPassKeeps
  <2>9. Settle(e, v)
    BY <1>9
  <2> HIDE DEF v
  <2>10. /\ Fit(e, t, v, Others(e)) /\ ~v.j.active /\ v.fx.mode = "saving"
         /\ Keeps(begun(lost), v) /\ Confined(e, begun(lost), v, Others(e))
    BY <1>6, <2>2, <2>3, <2>8 DEF Within
  <2>11. Keeps(World(e), v) /\ Confined(e, World(e), v, Others(e))
    BY <2>6, <2>7, <2>10, KeepsOn, ConfinedOn
  <2>12. Promised(e, t, v)
    BY <2>9, <2>10, <2>11 DEF Promised, Kempt, Answers, Saves
  <2> QED BY <2>12
<1> QED BY <1>1, <1>8, <1>9

\* A call within a begun effect, or the restart it led to.
LEMMA SettledPromised ==
  ASSUME ~ResetInside, NEW e \in Effects, NEW t \in Threads, NEW w,
         Kempt(e, t, World(e), Others(e)), Within(e, t, World(e), w, Others(e)),
         w.j.active => w.fx.phase # "idle", Settled(e, w, t)
  PROVE  \E v : Promised(e, t, v)
<1>1. Settle(e, w) \/ (w.j.active /\ RestartBaseline(e, w, t))
  BY DEF Settled, NeedsRestart
<1>2. CASE Settle(e, w)
  BY <1>2 DEF Promised, Kempt, Answers, Saves, Within
<1>3. CASE w.j.active /\ RestartBaseline(e, w, t)
  <2>1. /\ Fit(e, t, w, Others(e)) /\ Confined(e, World(e), w, Others(e))
        /\ Keeps(World(e), w) /\ Saves(World(e)) /\ w.fx.mode # "saving"
    BY <1>3 DEF Within, Saves, Kempt
  <2> QED BY <1>3, <2>1, RestartBaselinePromised
<1> QED BY <1>1, <1>2, <1>3

LEMMA PassPromised ==
  ASSUME ~ResetInside, IInv, NEW e \in Effects, NEW t \in Threads,
         Kempt(e, t, World(e), Others(e)), BeginPass(e, t) \/ CommitChanges(e, t)
  PROVE  \E v : Promised(e, t, v)
<1> DEFINE w == CaptureScope(World(e))
<1>1. World(e).fx = fx[e] /\ Fit(e, t, World(e), Others(e)) /\ fx[e].phase # "idle"
  BY DEF World, Kempt, BeginPass, CommitChanges
<1>2. /\ w.ok /\ Fit(e, t, w, Others(e)) /\ Confined(e, World(e), w, Others(e))
      /\ Keeps(World(e), w) /\ w.fx = World(e).fx /\ w.j = World(e).j
  BY <1>1, CaptureScopeKeeps
<1>3. Within(e, t, World(e), w, Others(e))
  BY <1>2 DEF Within
<1>4. \E a \in Attempts(e) : \/ Settled(e, BeginPassCall(w, t, a), t)
                             \/ Settled(e, D3dxCommitChanges(w, t, a), t)
  BY <1>2 DEF BeginPass, CommitChanges
<1> HIDE DEF w
<1>5. Sound(w, Others(e))
  BY <1>2 DEF Fit
<1>6. ASSUME NEW a \in Attempts(e), Settled(e, BeginPassCall(w, t, a), t)
      PROVE  \E v : Promised(e, t, v)
  <2> DEFINE v == BeginPassCall(w, t, a)
  <2>1. Within(e, t, w, v, Others(e))
    BY <1>2, BeginPassCallKeeps
  <2>2. v.fx.phase # "idle" /\ Settled(e, v, t)
    BY <1>1, <1>2, <1>5, <1>6, BeginPassCallSound
  <2> HIDE DEF v
  <2>3. Within(e, t, World(e), v, Others(e))
    BY <1>3, <2>1, WithinOn
  <2> QED BY <2>2, <2>3, SettledPromised
<1>7. ASSUME NEW a \in Attempts(e), Settled(e, D3dxCommitChanges(w, t, a), t)
      PROVE  \E v : Promised(e, t, v)
  <2> DEFINE v == D3dxCommitChanges(w, t, a)
  <2>1. Within(e, t, w, v, Others(e))
    BY <1>2, D3dxCommitChangesKeeps
  <2>2. v.fx = w.fx /\ Settled(e, v, t)
    BY <1>5, <1>7, D3dxCommitChangesSound
  <2> HIDE DEF v
  <2>3. Within(e, t, World(e), v, Others(e))
    BY <1>3, <2>1, WithinOn
  <2> QED BY <1>1, <1>2, <2>2, <2>3, SettledPromised
<1> QED BY <1>4, <1>6, <1>7

LEMMA EndPassPromised ==
  ASSUME IInv, NEW e \in Effects, NEW t \in Threads, Kempt(e, t, World(e), Others(e)), EndPass(e)
  PROVE  \E v : Promised(e, t, v)
<1> DEFINE v == EndPassCall(World(e))
<1>1. Fit(e, t, World(e), Others(e)) /\ World(e).fx = fx[e]
  BY DEF Kempt, World
<1>2. Within(e, t, World(e), v, Others(e))
  BY <1>1, EndPassCallKeeps
<1>3. Sound(World(e), Others(e))
  BY <1>1 DEF Fit
<1>4. Settle(e, v) /\ v.fx.phase # "idle"
  BY <1>1, <1>3, EndPassCallSound DEF EndPass
<1> HIDE DEF v
<1>5. Promised(e, t, v)
  BY <1>2, <1>4 DEF Promised, Kempt, Answers, Saves, Within
<1> QED BY <1>5

LEMMA RefusedFit ==
  ASSUME NEW e \in Effects, NEW t \in Threads, NEW a \in Attempts(e), NEW w, NEW other,
         Fit(e, t, w, other), NEW mode \in {"saving", "plain", "journaled"}, w.fx.phase # "idle"
  PROVE  Within(e, t, w, D3dxBegin(w, t, a, e, mode), other)
<1> DEFINE v == D3dxBegin(w, t, a, e, mode)
<1>1. w \in WorldType /\ Sound(w, other)
  BY DEF Fit, Sound
<1>2. v.j = w.j /\ v.nat = w.nat /\ v.fx = w.fx /\ v.dev = w.dev
  BY <1>1, D3dxBeginRefused
<1>3. Sound(v, other)
  BY <1>1, D3dxBeginSound
<1> HIDE DEF v
<1>4. Within(e, t, w, v, other)
  BY <1>2, <1>3, SameWithin
<1> QED BY <1>4 DEF v

\* Begin with D3DX saving by itself, or nothing saved.
LEMMA PlainBeginPromised ==
  ASSUME NEW e \in Effects, NEW t \in Threads, NEW a \in Attempts(e),
         Kempt(e, t, World(e), Others(e)), NEW mode \in {"saving", "plain"},
         Settle(e, D3dxBegin(World(e), t, a, e, mode))
  PROVE  \E v : Promised(e, t, v)
<1> DEFINE w == World(e)
           v == D3dxBegin(w, t, a, e, mode)
<1>1. Fit(e, t, w, Others(e)) /\ (w.j.active => w.fx.phase # "idle")
  BY DEF Kempt
<1>2. Settle(e, v)
  OBVIOUS
<1> HIDE DEF w
<1>3. CASE w.fx.phase = "idle"
  <2>1. /\ Fit(e, t, v, Others(e)) /\ Confined(e, w, v, Others(e)) /\ ~v.j.active
        /\ v.fx.mode = "saving" => \A s \in Slots : Undone(v, s) = w.dev[s]
    BY <1>1, <1>3, D3dxBeginKeeps DEF Begins
  <2> HIDE DEF v
  <2>2. ~Saves(w)
    BY <1>1, <1>3 DEF Saves, Fit, FxSound
  <2>3. Promised(e, t, v)
    BY <1>2, <2>1, <2>2 DEF Promised, Kempt, Answers, Saves, w
  <2> QED BY <2>3
<1>4. CASE w.fx.phase # "idle"
  <2>1. Within(e, t, w, v, Others(e))
    BY <1>1, <1>4, RefusedFit
  <2>2. v.fx = w.fx
    BY <1>1, <1>4, D3dxBeginRefused DEF Fit, Sound
  <2> HIDE DEF v
  <2>3. Promised(e, t, v)
    BY <1>2, <1>4, <2>1, <2>2 DEF Promised, Kempt, Answers, Saves, Within, w
  <2> QED BY <2>3
<1> QED BY <1>3, <1>4

LEMMA JournaledBeginPromised ==
  ASSUME ~ResetInside, NEW e \in Effects, NEW t \in Threads,
         Kempt(e, t, World(e), Others(e)), JournaledBegin(e, t)
  PROVE  \E v : Promised(e, t, v)
<1> DEFINE begun == BeginTransaction(World(e), t, {})
           w(a) == D3dxBegin(begun, t, a, e, "journaled")
<1>1. PICK a \in Attempts(e) :
        IF w(a).ok /\ ~w(a).j.failed THEN Settle(e, w(a)) ELSE BeginFallback(e, w(a), t)
  BY DEF JournaledBegin
<1>2. begun.ok
  BY DEF JournaledBegin
<1>3. Fit(e, t, World(e), Others(e)) /\ World(e) \in WorldType
      /\ World(e).j.active \in BOOLEAN /\ World(e).j.disabled \in BOOLEAN
      /\ (World(e).j.active => World(e).fx.mode = "journaled")
  BY DEF Kempt, Fit, Sound, WorldType, Journal
<1>4. ~World(e).j.active /\ ~World(e).j.disabled /\ begun = StartTransaction(World(e), t)
  <2>1. CASE World(e).j.disabled
    <3>1. begun = [World(e) EXCEPT !.ok = FALSE]
      BY <2>1 DEF BeginTransaction
    <3> QED BY <1>2, <1>3, <3>1 DEF WorldType
  <2>2. CASE ~World(e).j.disabled /\ World(e).j.active
    <3> DEFINE r == Restore(World(e), t, {})
    <3>1. begun = [r EXCEPT !.j.disabled = TRUE, !.ok = FALSE]
      BY <2>2 DEF BeginTransaction
    <3>2. r \in WorldType
      BY <1>3, RestoreSound DEF Fit, Sound
    <3> HIDE DEF r
    <3>3. ~begun.ok
      BY <3>1, <3>2 DEF WorldType
    <3> QED BY <1>2, <3>3
  <2>3. CASE ~World(e).j.disabled /\ ~World(e).j.active
    BY <2>3 DEF BeginTransaction
  <2> QED BY <1>3, <2>1, <2>2, <2>3
<1>5. /\ Fit(e, t, begun, Others(e)) /\ Confined(e, World(e), begun, Others(e))
      /\ begun.j.active /\ begun.dev = World(e).dev /\ begun.fx = World(e).fx
      /\ \A s \in Slots : Pend(begun)[s] = None
  BY <1>3, <1>4, StartTransactionKeeps
<1> HIDE DEF begun
<1>6. Sound(begun, Others(e)) /\ begun \in WorldType
  BY <1>5 DEF Fit, Sound
<1>7. CASE World(e).fx.phase = "idle"
  <2>1. ~Saves(World(e)) /\ World(e).fx.mode = "plain"
    BY <1>3, <1>4, <1>7 DEF Saves, Fit, FxSound
  <2>2. /\ Fit(e, t, w(a), Others(e)) /\ Confined(e, begun, w(a), Others(e))
        /\ w(a).j.active /\ Keeps(begun, w(a))
        /\ \/ w(a).fx = begun.fx
           \/ w(a).ok /\ w(a).fx.mode = "journaled" /\ w(a).fx.phase = "begun"
    <3>1. Fit(e, t, begun, Others(e)) /\ begun.j.active /\ begun.fx.phase = "idle"
      BY <1>5, <1>7
    <3>2. Begins(e, t, begun, w(a), "journaled", Others(e))
      BY <3>1, D3dxBeginKeeps
    <3> HIDE DEF w
    <3> QED BY <3>1, <3>2 DEF Begins
  <2>3. w(a).ok => w(a).fx.phase = "begun"
    BY <1>6, D3dxBeginSound
  <2> HIDE DEF w
  <2>4. Confined(e, World(e), w(a), Others(e))
    BY <1>5, <2>2, ConfinedOn
  <2>5. \A s \in Slots : Undone(w(a), s) = World(e).dev[s]
    BY <1>5, <2>2 DEF Keeps, Undone
  <2>6. CASE w(a).ok /\ Settle(e, w(a))
    <3>1. w(a).fx.mode = "journaled" /\ w(a).fx.phase = "begun"
      BY <1>5, <1>7, <2>2, <2>3, <2>6
    <3>2. Promised(e, t, w(a))
      BY <2>1, <2>2, <2>4, <2>5, <2>6, <3>1 DEF Promised, Kempt, Answers
    <3> QED BY <3>2
  <2>7. CASE BeginFallback(e, w(a), t)
    <3>1. /\ w(a).fx.mode # "saving"
          /\ ~w(a).ok => w(a).fx.phase = "idle" /\ w(a).fx.mode = "plain"
      BY <1>5, <1>7, <2>1, <2>2
    <3> QED BY <2>1, <2>2, <2>4, <2>5, <2>7, <3>1, BeginFallbackPromised
  <2> QED BY <1>1, <2>6, <2>7
<1>8. CASE World(e).fx.phase # "idle"
  <2>1. Within(e, t, begun, w(a), Others(e))
    BY <1>5, <1>8, RefusedFit
  <2>2. /\ w(a).j = begun.j /\ w(a).nat = begun.nat /\ w(a).fx = begun.fx
        /\ w(a).dev = begun.dev /\ ~w(a).ok
    BY <1>5, <1>6, <1>8, D3dxBeginRefused
  <2> HIDE DEF w
  <2>3. Pend(w(a)) = Pend(begun)
    BY <2>2 DEF Pend
  <2>4. Fit(e, t, w(a), Others(e)) /\ Confined(e, World(e), w(a), Others(e))
    BY <1>5, <2>1, ConfinedOn DEF Within
  <2>5. BeginFallback(e, w(a), t)
    BY <1>1, <2>2
  <2> QED BY <1>4, <1>5, <1>8, <2>2, <2>3, <2>4, <2>5, BeginAgainPromised
<1> QED BY <1>7, <1>8

LEMMA RefusedBeginPromised ==
  ASSUME ~ResetInside, NEW e \in Effects, NEW t \in Threads,
         Kempt(e, t, World(e), Others(e)), RefusedBegin(e, t)
  PROVE  \E v : Promised(e, t, v)
<1> DEFINE begun(lost) == BeginTransaction(World(e), t, lost)
           d(lost) == Disable(begun(lost), t, {})
<1>1. PICK lost \in Losses(journal[e]) :
        /\ ~begun(lost).ok
        /\ Settle(e, d(lost)) \/ Settle(e, begun(lost))
  BY DEF RefusedBegin
<1>2. Fit(e, t, World(e), Others(e)) /\ World(e) \in WorldType /\ Sound(World(e), Others(e))
      /\ World(e).j.active \in BOOLEAN /\ World(e).j.disabled \in BOOLEAN
      /\ (World(e).j.active => World(e).fx.mode = "journaled" /\ ~World(e).j.disabled)
  BY DEF Kempt, Fit, Sound, WorldType, Journal
<1>3. Sound(begun(lost), Others(e))
  BY <1>2, BeginTransactionSound
<1>4. CASE ~World(e).j.active
  <2>1. World(e).j.disabled
    <3>1. SUFFICES ASSUME ~World(e).j.disabled PROVE FALSE
      BY <1>2
    <3>2. begun(lost) = StartTransaction(World(e), t)
      BY <1>4, <3>1 DEF BeginTransaction
    <3>3. begun(lost).ok
      BY <1>2, <3>2 DEF StartTransaction, WorldType
    <3> QED BY <1>1, <3>3
  <2>2. begun(lost) = [World(e) EXCEPT !.ok = FALSE]
    BY <2>1 DEF BeginTransaction
  <2>3. /\ begun(lost).j = World(e).j /\ begun(lost).nat = World(e).nat
        /\ begun(lost).fx = World(e).fx /\ begun(lost).dev = World(e).dev
    BY <1>2, <2>2 DEF WorldType
  <2> HIDE DEF begun
  <2>4. Within(e, t, World(e), begun(lost), Others(e))
    BY <1>2, <1>3, <2>3, SameWithin
  <2>5. /\ Fit(e, t, d(lost), Others(e)) /\ Confined(e, begun(lost), d(lost), Others(e))
        /\ ~d(lost).j.active /\ d(lost).fx = begun(lost).fx /\ d(lost).dev = begun(lost).dev
    BY <1>4, <2>3, <2>4, DisableKeeps DEF Within
  <2> HIDE DEF d
  <2>6. Confined(e, World(e), d(lost), Others(e)) /\ Confined(e, World(e), begun(lost), Others(e))
    BY <2>4, <2>5, ConfinedOn DEF Within
  <2>7. Keeps(World(e), d(lost)) /\ Keeps(World(e), begun(lost))
    <3>1. Pend(d(lost)) = Pend(World(e)) /\ Pend(begun(lost)) = Pend(World(e))
      BY <1>4, <2>3, <2>5 DEF Pend
    <3> QED BY <2>3, <2>5, <3>1 DEF Keeps, Undone
  <2>8. (Saves(d(lost)) = Saves(World(e))) /\ (Saves(begun(lost)) = Saves(World(e)))
    BY <1>4, <2>3, <2>5 DEF Saves
  <2>9. Kempt(e, t, d(lost), Others(e)) /\ Kempt(e, t, begun(lost), Others(e))
    BY <1>4, <2>3, <2>4, <2>5 DEF Kempt, Within
  <2>10. Promised(e, t, d(lost)) \/ Promised(e, t, begun(lost))
    BY <1>1, <2>6, <2>7, <2>8, <2>9 DEF Promised, Answers
  <2> QED BY <2>10
<1>5. CASE World(e).j.active
  <2> DEFINE r == Restore(World(e), t, lost)
  <2>1. begun(lost) = [r EXCEPT !.j.disabled = TRUE, !.ok = FALSE]
    BY <1>2, <1>5 DEF BeginTransaction
  <2>2. Restores(e, t, World(e), r, lost, Others(e))
    BY <1>2, RestoreKeeps
  <2>3. r \in WorldType /\ r.j \in Journal /\ ~r.j.active /\ r.fx = World(e).fx
        /\ Confined(e, World(e), r, Others(e))
    BY <2>2 DEF Restores, Fit, Sound, WorldType
  <2> HIDE DEF r
  <2> DEFINE k == [r.j EXCEPT !.disabled = TRUE]
  <2>4. k.disabled /\ ~k.active
    BY <2>3 DEF Journal
  <2>5. begun(lost) = [r EXCEPT !.j = k, !.ok = FALSE]
    BY <2>1, <2>3 DEF WorldType
  <2> HIDE DEF k, begun
  <2>6. begun(lost).j = k /\ begun(lost).nat = r.nat /\ begun(lost).fx = r.fx /\ begun(lost).dev = r.dev
    BY <2>3, <2>5 DEF WorldType
  <2>7. Confined(e, World(e), begun(lost), Others(e))
    BY <2>3, <2>6 DEF Confined
  <2>8. Fit(e, t, begun(lost), Others(e))
    BY <1>2, <1>3, <2>3, <2>4, <2>6, InactiveFit DEF Fit
  <2>9. /\ Fit(e, t, d(lost), Others(e)) /\ Confined(e, begun(lost), d(lost), Others(e))
        /\ ~d(lost).j.active /\ d(lost).j.disabled /\ d(lost).fx = begun(lost).fx
    BY <2>4, <2>6, <2>8, DisableKeeps
  <2> HIDE DEF d
  <2>10. Confined(e, World(e), d(lost), Others(e))
    BY <2>7, <2>9, ConfinedOn
  <2>11. ~Saves(d(lost)) /\ ~Saves(begun(lost))
    BY <1>2, <1>5, <2>3, <2>4, <2>6, <2>9 DEF Saves
  <2>12. Promised(e, t, d(lost)) \/ Promised(e, t, begun(lost))
    BY <1>1, <2>4, <2>6, <2>7, <2>8, <2>9, <2>10, <2>11 DEF Promised, Kempt, Answers
  <2> QED BY <2>12
<1> QED BY <1>4, <1>5

LEMMA BeginPromised ==
  ASSUME ~ResetInside, NEW e \in Effects, NEW t \in Threads, NEW saving \in BOOLEAN,
         Kempt(e, t, World(e), Others(e)), Begin(e, t, saving)
  PROVE  \E v : Promised(e, t, v)
<1>1. CASE \E a \in Attempts(e) :
             Settle(e, D3dxBegin(World(e), t, a, e, IF saving THEN "saving" ELSE "plain"))
  <2> DEFINE mode == IF saving THEN "saving" ELSE "plain"
  <2>1. PICK a \in Attempts(e) : Settle(e, D3dxBegin(World(e), t, a, e, mode))
    BY <1>1
  <2>2. mode \in {"saving", "plain"}
    OBVIOUS
  <2> HIDE DEF mode
  <2> QED BY <2>1, <2>2, PlainBeginPromised
<1> QED BY <1>1, JournaledBeginPromised, RefusedBeginPromised DEF Begin

LEMMA EndPromised ==
  ASSUME ~ResetInside, NEW e \in Effects, NEW t \in Threads,
         Kempt(e, t, World(e), Others(e)), End(e, t)
  PROVE  \E v : Promised(e, t, v)
<1> DEFINE scope == CaptureScope(World(e))
           ended == IF scope.ok THEN D3dxEnd(scope) ELSE scope
           restored(lost) == Restore(ended, t, lost)
           disabled(lost) == Disable(restored(lost), t, {})
<1>1. /\ scope.ok /\ Fit(e, t, scope, Others(e)) /\ Confined(e, World(e), scope, Others(e))
      /\ Keeps(World(e), scope) /\ scope.fx = World(e).fx /\ scope.j = World(e).j
      /\ World(e).j.active => World(e).fx.mode # "saving"
  BY CaptureScopeKeeps DEF Kempt
<1>2. \/ ~ended.j.active /\ Settle(e, ended)
      \/ ended.j.active /\ \E lost \in Losses(ended.j) :
           \/ Settle(e, disabled(lost))
           \/ restored(lost).ok /\ Settle(e, restored(lost))
  BY DEF End
<1>3. ended = D3dxEnd(scope)
  BY <1>1
<1> HIDE DEF scope, ended
<1>4. /\ Fit(e, t, ended, Others(e)) /\ Confined(e, scope, ended, Others(e))
      /\ ended.j = scope.j /\ ended.fx.mode = "plain"
      /\ \A s \in Slots : Undone(ended, s) = Undone(scope, s)
  BY <1>1, <1>3, D3dxEndKeeps
<1>5. Confined(e, World(e), ended, Others(e))
      /\ \A s \in Slots : Undone(ended, s) = Undone(World(e), s)
  BY <1>1, <1>4, ConfinedOn DEF Keeps
<1>6. CASE ~ended.j.active /\ Settle(e, ended)
  <2>1. ~Saves(ended)
    BY <1>4, <1>6 DEF Saves
  <2>2. \A s \in Slots : ended.dev[s] = Undone(World(e), s)
    BY <1>4, <1>5, <2>1, UnsavedUndone
  <2>3. Promised(e, t, ended)
    BY <1>4, <1>5, <1>6, <2>1, <2>2 DEF Promised, Kempt, Answers
  <2> QED BY <2>3
<1>7. ASSUME ended.j.active, NEW lost,
             \/ Settle(e, disabled(lost))
             \/ restored(lost).ok /\ Settle(e, restored(lost))
      PROVE  \E v : Promised(e, t, v)
  <2>1. Restores(e, t, ended, restored(lost), lost, Others(e))
    BY <1>4, RestoreKeeps
  <2>2. \/ Settle(e, disabled(lost))
        \/ restored(lost).ok /\ Settle(e, restored(lost))
    BY <1>7
  <2> HIDE DEF restored
  <2>3. /\ Fit(e, t, disabled(lost), Others(e))
        /\ Confined(e, restored(lost), disabled(lost), Others(e))
        /\ ~disabled(lost).j.active /\ disabled(lost).j.disabled
        /\ disabled(lost).fx = restored(lost).fx
    BY <2>1, DisableKeeps DEF Restores
  <2> HIDE DEF disabled
  <2>4. /\ Confined(e, World(e), restored(lost), Others(e))
        /\ Confined(e, World(e), disabled(lost), Others(e))
        /\ ~Saves(restored(lost)) /\ ~Saves(disabled(lost))
    BY <1>4, <1>5, <2>1, <2>3, ConfinedOn DEF Restores, Saves
  <2>5. restored(lost).ok => \A s \in Slots : restored(lost).dev[s] = Undone(World(e), s)
    BY <1>5, <1>7, <2>1 DEF Restores
  <2>6. Promised(e, t, disabled(lost)) \/ Promised(e, t, restored(lost))
    BY <2>1, <2>2, <2>3, <2>4, <2>5 DEF Promised, Kempt, Answers, Restores
  <2> QED BY <2>6
<1> QED BY <1>2, <1>6, <1>7

-----------------------------------------------------------------------------
(* The contract, kept step by step by the one thread that renders.          *)

CInv(t) == IInv /\ \A e \in Effects : Kempt(e, t, World(e), Others(e))

LEMMA ReplayedAll ==
  ASSUME NEW j \in Journal
  PROVE  Replayed(j, {}) = j.captured
BY DEF Replayed, Journal, Saved

LEMMA PendingOwed ==
  ASSUME TypeOK, NEW e \in Effects
  PROVE  Pending(e) = Pend(World(e))
<1>1. journal[e] \in Journal
  BY DEF TypeOK
<1>2. Replayed(journal[e], {}) = journal[e].captured
  BY <1>1, ReplayedAll
<1> QED BY <1>1, <1>2 DEF Pending, Pend, World, Journal

LEMMA InitCInv ==
  ASSUME NEW t \in Threads, Init
  PROVE  CInv(t)
<1>1. IInv
  BY InitIInv
<1>2. ASSUME NEW e \in Effects PROVE Kempt(e, t, World(e), Others(e))
  <2>1. /\ fx[e] = [phase |-> "idle", mode |-> "plain", saved |-> Nothing]
        /\ ~journal[e].active
    BY DEF Init
  <2>2. Sound(World(e), Others(e)) /\ World(e).j = journal[e] /\ World(e).fx = fx[e]
    BY <1>1, WorldReady
  <2>3. FxSound(e, World(e).fx) /\ ~World(e).j.active
    BY <2>1, <2>2 DEF FxSound, Nothing
  <2> QED BY <2>2, <2>3, InactiveFit DEF Kempt
<1> QED BY <1>1, <1>2 DEF CInv

LEMMA SameKempt ==
  ASSUME NEW e, NEW t, NEW u, NEW v, NEW other, NEW others, Sound(u, others),
         u.j = v.j, u.fx = v.fx, Pend(u) = Pend(v), Kempt(e, t, v, other)
  PROVE  Kempt(e, t, u, others)
BY DEF Kempt, Fit

LEMMA SameWorldPend ==
  ASSUME NEW u, NEW v, u.j = v.j, u.fx = v.fx, u.j.active => u.nat = v.nat
  PROVE  Pend(u) = Pend(v)
BY DEF Pend

\* What a handler of e leaves: its own world, and every other as it was.
LEMMA PromisedLeaves ==
  ASSUME ~ResetInside, NEW t \in Threads, CInv(t), IInv', NEW e \in Effects, NEW v, Promised(e, t, v)
  PROVE  /\ state' = v.dev /\ journal'[e] = v.j /\ fx'[e] = v.fx /\ backend' = v.nat
         /\ Others(e)' = Others(e)
         /\ Pending(e)' = Pend(v)
         /\ \A f \in Effects \ {e} :
              journal'[f] = journal[f] /\ fx'[f] = fx[f] /\ Pending(f)' = Pending(f)
<1>1. /\ state' = v.dev /\ backend' = v.nat
      /\ journal' = [journal EXCEPT ![e] = v.j] /\ fx' = [fx EXCEPT ![e] = v.fx]
  BY DEF Promised, Settle
<1>2. TypeOK /\ TypeOK'
  BY DEF CInv, IInv
<1>3. /\ journal'[e] = v.j /\ fx'[e] = v.fx /\ v.j \in Journal
      /\ \A f \in Effects \ {e} : journal'[f] = journal[f] /\ fx'[f] = fx[f]
  BY <1>1, <1>2 DEF TypeOK
<1>4. Others(e)' = Others(e)
  BY <1>3 DEF Others
<1>5. Pending(e)' = Pend(v)
  <2>1. Replayed(journal'[e], {}) = v.j.captured
    BY <1>3, ReplayedAll
  <2> QED BY <1>1, <1>3, <2>1 DEF Pending, Pend, Journal
<1>6. ASSUME NEW f \in Effects \ {e} PROVE Pending(f)' = Pending(f)
  <2>1. CASE Owns(journal[f])
    <3>1. Others(e)
      BY <2>1 DEF Others
    <3>2. backend' = backend
      BY <1>1, <3>1 DEF Promised, Confined, World
    <3> QED BY <1>3, <3>2 DEF Pending
  <2>2. CASE ~Owns(journal[f])
    BY <1>3, <2>2 DEF Pending, Owns
  <2> QED BY <2>1, <2>2
<1> QED BY <1>1, <1>3, <1>4, <1>5, <1>6

LEMMA PromisedCInv ==
  ASSUME ~ResetInside, NEW t \in Threads, CInv(t), IInv', NEW e \in Effects, NEW v, Promised(e, t, v)
  PROVE  CInv(t)'
<1>1. ASSUME NEW f \in Effects PROVE Kempt(f, t, World(f)', Others(f)')
  <2> DEFINE u == World(f)'
  <2>1. u.j = journal'[f] /\ u.fx = fx'[f] /\ u.nat = backend' /\ u.dev = state'
    BY DEF World
  <2>2. Sound(u, Others(f)')
    BY DEF IInv, Ready
  <2>3. TypeOK' /\ u \in WorldType
    BY <2>2 DEF IInv, Sound
  <2>4. CASE f = e
    <3>1. u.j = v.j /\ u.fx = v.fx /\ u.nat = v.nat /\ Kempt(e, t, v, Others(e))
          /\ Others(f)' = Others(e)
      BY <2>1, <2>4, PromisedLeaves DEF Promised
    <3> HIDE DEF u
    <3>2. Pend(u) = Pend(v)
      BY <3>1, SameWorldPend
    <3> QED BY <2>2, <2>4, <3>1, <3>2, SameKempt DEF u
  <2>5. CASE f # e
    <3>1. /\ journal'[f] = journal[f] /\ fx'[f] = fx[f] /\ Pending(f)' = Pending(f)
          /\ Kempt(f, t, World(f), Others(f)) /\ World(f).j = journal[f] /\ World(f).fx = fx[f]
      BY <2>5, PromisedLeaves DEF CInv, World
    <3>2. Pend(u) = Pend(World(f))
      <4>1. Pending(f) = Pend(World(f))
        BY PendingOwed DEF CInv, IInv
      <4>2. Pending(f)' = Pend(u)
        <5>1. Replayed(u.j, {}) = u.j.captured /\ u.j \in Journal
          BY <2>3, ReplayedAll DEF WorldType
        <5> QED BY <2>1, <5>1 DEF Pending, Pend, Journal
      <4> QED BY <3>1, <4>1, <4>2
    <3> QED BY <2>1, <2>2, <3>1, <3>2, SameKempt
  <2> QED BY <2>4, <2>5
<1> QED BY <1>1 DEF CInv

\* The game writes the device or resets it, or nothing happens: the effects are
\* left alone, and so is what they owe.
LEMMA DeviceLeaves ==
  ASSUME ~ResetInside, NEW t \in Threads, CInv(t), IInv',
         Reset \/ (\E s \in Slots, v \in Values : SetState(s, v)) \/ UNCHANGED vars
  PROVE  /\ UNCHANGED <<journal, fx>>
         /\ \A f \in Effects : Pending(f)' = Pending(f)
         /\ CInv(t)'
<1>1. UNCHANGED <<journal, fx>>
  BY DEF Reset, SetState, vars
<1>2. ASSUME NEW f \in Effects PROVE journal[f].active => backend' = backend
  <2>1. journal[f].active => fx[f].phase # "idle"
    BY DEF CInv, Kempt, World
  <2> QED BY <2>1 DEF Reset, SetState, vars
<1>3. ASSUME NEW f \in Effects PROVE Pending(f)' = Pending(f)
  BY <1>1, <1>2 DEF Pending
<1>4. ASSUME NEW f \in Effects PROVE Kempt(f, t, World(f)', Others(f)')
  <2> DEFINE u == World(f)'
  <2>1. u.j = World(f).j /\ u.fx = World(f).fx /\ u.nat = backend'
        /\ (World(f).j.active => u.nat = World(f).nat)
    BY <1>1, <1>2 DEF World
  <2>2. Sound(u, Others(f)')
    BY DEF IInv, Ready
  <2>3. Pend(u) = Pend(World(f))
    BY <2>1, SameWorldPend
  <2>4. Kempt(f, t, World(f), Others(f))
    BY DEF CInv
  <2> QED BY <2>1, <2>2, <2>3, <2>4, SameKempt
<1> QED BY <1>1, <1>3, <1>4 DEF CInv

\* The contract's state, of the effects' and the device's.
Opened == {e \in Effects : journal[e].active \/ fx[e].mode = "saving"}
Owing == [e \in Effects |-> Pending(e)]
Trusted == {e \in Effects : ~journal[e].disabled}

\* Trust is lost for good.
LEMMA TrustOnlyLost ==
  ASSUME IInv, [Next]_vars
  PROVE  Trusted' \subseteq Trusted
<1> SUFFICES ASSUME NEW f \in Effects, journal[f].disabled PROVE journal'[f].disabled
  BY DEF Trusted
<1>1. CASE UNCHANGED <<journal, fx>>
  BY <1>1
<1>2. ASSUME NEW e \in Effects, NEW v, Moved(e, v) PROVE journal'[f].disabled
  BY <1>2, MovedFields DEF Moved, Carries, World
<1> QED BY <1>1, <1>2, NextMoved

LEMMA OpenedOwing ==
  ASSUME ~ResetInside, NEW t \in Threads, CInv(t), IInv', NEW e \in Effects, NEW v, Promised(e, t, v)
  PROVE  /\ e \in Opened <=> Saves(World(e))
         /\ Opened' = IF Saves(v) THEN Opened \union {e} ELSE Opened \ {e}
         /\ Owing[e] = Pend(World(e))
         /\ Owing' = [Owing EXCEPT ![e] = Pend(v)]
<1>1. World(e).j = journal[e] /\ World(e).fx = fx[e]
  BY DEF World
<1>2. e \in Opened <=> Saves(World(e))
  BY <1>1 DEF Opened, Saves
<1>3. /\ journal'[e] = v.j /\ fx'[e] = v.fx /\ Pending(e)' = Pend(v)
      /\ \A f \in Effects \ {e} :
           journal'[f] = journal[f] /\ fx'[f] = fx[f] /\ Pending(f)' = Pending(f)
  BY PromisedLeaves
<1>4. ASSUME NEW f \in Effects
      PROVE  f \in Opened' <=> f \in (IF Saves(v) THEN Opened \union {e} ELSE Opened \ {e})
  BY <1>3 DEF Opened, Saves
<1>5. Owing[e] = Pend(World(e))
  BY PendingOwed DEF Owing, CInv, IInv
<1>6. Owing' = [Owing EXCEPT ![e] = Pend(v)]
  <2>1. Owing' = [f \in Effects |-> Pending(f)']
    BY DEF Owing
  <2> QED BY <1>3, <2>1 DEF Owing
<1>7. Opened' = IF Saves(v) THEN Opened \union {e} ELSE Opened \ {e}
  BY <1>4 DEF Opened
<1> QED BY <1>2, <1>5, <1>6, <1>7

\* An effect that still saves has only used what the contract allows.
LEMMA KeepsUses ==
  ASSUME NEW w \in WorldType, NEW v \in WorldType, Keeps(w, v)
  PROVE  \A s \in Slots :
           /\ \/ Pend(v)[s] = Pend(w)[s]
              \/ Pend(w)[s] = None /\ Pend(v)[s] = w.dev[s]
           /\ v.dev[s] # w.dev[s] => Pend(v)[s] # None
BY DEF Keeps, Undone

\* What the contract lets an effect do in its own handlers: the contract's Write
\* is left to the game, and to an effect that saves nothing.
Answered(e) ==
  /\ e \in Opened /\ e \in Opened' => Contract!Draw(e)
  /\ e \notin Opened /\ e \in Opened' => Contract!Open(e)
  /\ e \in Opened /\ e \notin Opened' => Contract!Close(e) \/ Contract!Lose(e)

LEMMA HandlerRefines ==
  ASSUME ~ResetInside, NEW t \in Threads, CInv(t), IInv', [Next]_vars,
         NEW e \in Effects, NEW v, Promised(e, t, v)
  PROVE  Contract!Next /\ Answered(e)
<1> DEFINE w == World(e)
<1>1. /\ e \in Opened <=> Saves(w)
      /\ Opened' = IF Saves(v) THEN Opened \union {e} ELSE Opened \ {e}
      /\ Owing[e] = Pend(w)
      /\ Owing' = [Owing EXCEPT ![e] = Pend(v)]
  BY OpenedOwing
<1>2. DOMAIN Owing = Effects
  BY DEF Owing
<1>3. state' = v.dev /\ state = w.dev /\ journal'[e] = v.j
  BY PromisedLeaves DEF World
<1>4. Trusted' \subseteq Trusted
  BY TrustOnlyLost DEF CInv
<1>5. /\ Fit(e, t, w, Others(e)) /\ Fit(e, t, v, Others(e))
      /\ Confined(e, w, v, Others(e)) /\ Answers(w, v)
  BY DEF CInv, Kempt, Promised
<1>6. w \in WorldType /\ v \in WorldType
  BY <1>5 DEF Fit, Sound
<1>7. /\ Pend(v) \in Saved /\ v.dev \in [Slots -> Values] /\ w.dev \in [Slots -> Values]
  BY <1>6, PendType
<1> HIDE DEF w
<1>8. Saves(v) => Contract!Use(e)
  <2> SUFFICES ASSUME Saves(v) PROVE Contract!Use(e)
    OBVIOUS
  <2>1. Keeps(w, v)
    <3>1. CASE Saves(w)
      BY <1>5, <3>1 DEF Answers
    <3>2. CASE ~Saves(w)
      <4>1. \A s \in Slots : Pend(w)[s] = None /\ Undone(w, s) = w.dev[s]
        BY <1>5, <3>2, UnsavedUndone
      <4> QED BY <1>5, <3>2, <4>1 DEF Answers, Keeps
    <3> QED BY <3>1, <3>2
  <2>2. /\ \A s \in Slots :
             \/ Owing'[e][s] = Owing[e][s]
             \/ Owing[e][s] = None /\ Owing'[e][s] = state[s]
        /\ \A s \in Slots : state'[s] # state[s] => Owing'[e][s] # None
    BY <1>1, <1>2, <1>3, <1>6, <2>1, KeepsUses
  <2>3. \A f \in Effects \ {e} : Owing'[f] = Owing[f]
    BY <1>1, <1>2
  <2> QED BY <2>2, <2>3 DEF Contract!Use, Owing
<1>9. ~Saves(v) => Owing' = [Owing EXCEPT ![e] = Nothing]
  <2> SUFFICES ASSUME ~Saves(v) PROVE Pend(v) = Nothing
    BY <1>1
  <2>1. \A s \in Slots : Pend(v)[s] = None
    BY <1>5, UnsavedUndone
  <2> QED BY <1>7, <2>1 DEF Saved, Nothing
<1>10. CASE Saves(w) /\ Saves(v)
  <2>1. Contract!Draw(e)
    BY <1>1, <1>8, <1>10 DEF Contract!Draw, Opened
  <2> QED BY <1>1, <1>4, <1>10, <2>1 DEF Contract!Next, Contract!Distrust, Trusted, Answered
<1>11. CASE ~Saves(w) /\ Saves(v)
  <2>1. Contract!Open(e)
    BY <1>1, <1>8, <1>11 DEF Contract!Open, Opened
  <2> QED BY <1>1, <1>4, <1>11, <2>1 DEF Contract!Next, Contract!Distrust, Trusted, Answered
<1>12. CASE Saves(w) /\ ~Saves(v) /\ \A s \in Slots : v.dev[s] = Undone(w, s)
  <2>1. state' = PutBack(Owing[e], state)
    BY <1>1, <1>3, <1>7, <1>12 DEF PutBack, Undone
  <2>2. Contract!Close(e)
    BY <1>1, <1>9, <1>12, <2>1
       DEF Contract!Close, Contract!PutBack, Contract!Nothing, PutBack, Nothing, Opened, Owing
  <2> QED BY <1>1, <1>4, <1>12, <2>2 DEF Contract!Next, Contract!Distrust, Trusted, Answered
<1>13. CASE Saves(w) /\ ~Saves(v) /\ v.j.disabled
  <2>1. e \notin Trusted'
    BY <1>3, <1>13 DEF Trusted
  <2>2. \A s \in Slots \ Footprint[e] : state'[s] = state[s]
    BY <1>3, <1>5 DEF Confined
  <2>3. Contract!Lose(e)
    BY <1>1, <1>9, <1>13, <2>1, <2>2
       DEF Contract!Lose, Contract!Nothing, Nothing, Opened, Owing, Trusted
  <2> QED BY <1>1, <1>4, <1>13, <2>3 DEF Contract!Next, Contract!Distrust, Trusted, Answered
<1>14. CASE ~Saves(w) /\ ~Saves(v)
  <2>1. Opened' = Opened
    BY <1>1, <1>14
  <2>2. Owing' = Owing
    <3>1. Pend(w) = Nothing
      <4>1. Pend(w) \in Saved /\ \A s \in Slots : Pend(w)[s] = None
        BY <1>5, <1>6, <1>14, PendType, UnsavedUndone
      <4> QED BY <4>1 DEF Saved, Nothing
    <3> QED BY <1>1, <1>2, <1>9, <1>14, <3>1 DEF Owing
  <2>3. Contract!Write
    BY <1>3, <1>7, <2>1, <2>2 DEF Contract!Write, Opened, Owing
  <2> QED BY <1>1, <1>4, <1>14, <2>3 DEF Contract!Next, Contract!Distrust, Trusted, Answered
<1> QED BY <1>5, <1>10, <1>11, <1>12, <1>13, <1>14 DEF Answers

Handled(e) ==
  \E t \in Threads : \/ \E saving \in BOOLEAN : Begin(e, t, saving)
                     \/ BeginPass(e, t) \/ CommitChanges(e, t)
                     \/ EndPass(e) \/ End(e, t)

LEMMA NextRefines ==
  ASSUME ~ResetInside, NEW t, Threads = {t}, CInv(t), [Next]_vars
  PROVE  /\ CInv(t)' /\ (Contract!Next \/ UNCHANGED Contract!vars)
         /\ \A e \in Effects : Handled(e) => Answered(e)
<1>1. IInv /\ IInv' /\ t \in Threads
  BY NextIInv DEF CInv
<1>2. Trusted' \subseteq Trusted
  BY <1>1, TrustOnlyLost
<1>3. ASSUME NEW e \in Effects, NEW v, Promised(e, t, v)
      PROVE  CInv(t)' /\ Contract!Next /\ Answered(e)
  BY <1>1, <1>3, PromisedCInv, HandlerRefines
<1>4. ASSUME Reset \/ (\E s \in Slots, v \in Values : SetState(s, v)) \/ UNCHANGED vars
      PROVE  CInv(t)' /\ Contract!Next
  <2>1. /\ CInv(t)' /\ UNCHANGED <<journal, fx>>
        /\ \A f \in Effects : Pending(f)' = Pending(f)
    BY <1>1, <1>4, DeviceLeaves
  <2>2. Opened' = Opened /\ Owing' = Owing
    BY <2>1 DEF Opened, Owing
  <2>3. state' \in [Slots -> Values]
    BY <1>1 DEF IInv, TypeOK
  <2>4. Contract!Write
    BY <2>2, <2>3 DEF Contract!Write, Opened, Owing
  <2> QED BY <1>2, <2>1, <2>4 DEF Contract!Next, Contract!Distrust, Trusted
<1>5. \A e \in Effects : Kempt(e, t, World(e), Others(e))
  BY DEF CInv
<1>6. ASSUME NEW e \in Effects, Handled(e) PROVE \E v : Promised(e, t, v)
  BY <1>1, <1>5, <1>6, BeginPromised, PassPromised, EndPassPromised, EndPromised DEF Handled
<1>7. CASE \E e \in Effects : Handled(e)
  BY <1>3, <1>6, <1>7
<1>8. CASE ~\E e \in Effects : Handled(e)
  <2>1. Reset \/ (\E s \in Slots, v \in Values : SetState(s, v)) \/ UNCHANGED vars
    BY <1>1, <1>8 DEF Next, Handled
  <2> QED BY <1>4, <1>8, <2>1
<1> QED BY <1>7, <1>8

\* On the one thread that renders, in a game that does not Reset the device
\* inside an effect, and however often it begins one again, whatever an effect
\* wrote is put back at its End, or the effect is not journaled again: the
\* hooks, the journal, the backend's journal and the fallbacks keep the promise
\* of EffectContract.  Code: first-touch capture, Restore, the restart on the
\* baseline.
THEOREM ContractKept ==
  ASSUME ~ResetInside, NEW t, Threads = {t}
  PROVE  Spec => ImplementsContract
<1>1. Init => CInv(t) /\ Contract!Init
  <2> SUFFICES ASSUME Init PROVE CInv(t) /\ Contract!Init
    OBVIOUS
  <2>1. CInv(t)
    BY InitCInv
  <2>2. \A e \in Effects : /\ ~journal[e].active /\ ~journal[e].disabled
                           /\ fx[e].mode = "plain" /\ fx[e].saved = Nothing
    BY DEF Init
  <2>3. \A e \in Effects : Pending(e) = Nothing
    BY <2>2 DEF Pending
  <2>4. Opened = {} /\ Trusted = Effects /\ Owing = [e \in Effects |-> Nothing]
    BY <2>2, <2>3 DEF Opened, Trusted, Owing
  <2>5. state \in [Slots -> Values]
    BY DEF Init
  <2> QED BY <2>1, <2>4, <2>5
         DEF Contract!Init, Contract!Nothing, Nothing, Opened, Trusted, Owing
<1>2. CInv(t) /\ [Next]_vars => CInv(t)' /\ [Contract!Next]_(Contract!vars)
  BY NextRefines
<1> QED BY <1>1, <1>2, PTL DEF Spec, ImplementsContract, Contract!Spec

\* Under the same hypotheses no handler of an effect writes the device behind
\* the contract's back: it opens the effect, uses it, closes it with all put
\* back, or loses it, and what it writes while the effect is open is saved
\* first.  Code: the setters of the state manager in every hook.
THEOREM HandlersAnswer ==
  ASSUME ~ResetInside, NEW t, Threads = {t}
  PROVE  Spec => [][\A e \in Effects : Handled(e) => Answered(e)]_vars
<1>1. Init => CInv(t)
  BY InitCInv
<1>2. CInv(t) /\ [Next]_vars =>
        CInv(t)' /\ [\A e \in Effects : Handled(e) => Answered(e)]_vars
  BY NextRefines
<1> QED BY <1>1, <1>2, PTL DEF Spec

=============================================================================
