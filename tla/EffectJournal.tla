---------------------------- MODULE EffectJournal ----------------------------
(***************************************************************************)
(* The Bridge's effect hooks with the state journal they run D3DX under:   *)
(* instead of letting D3DX save the device state at Begin, the hooks ask   *)
(* it not to, and install a state manager that records, in the backend's   *)
(* selective journal or slot by slot by itself, what D3DX overwrites.      *)
(*                                                                         *)
(* Source: src/bridge/legacy/ProperShadersStateJournal.cpp (the journal)   *)
(* and BridgeD3D9.cpp (the hooks).  A handler runs to its end on the       *)
(* calling thread; it is a chain of calls, each of which maps the journal, *)
(* the effect and the device it finds to those it leaves (World).  Which   *)
(* calls D3DX makes and which of them the device refuses is the attempt.   *)
(***************************************************************************)
EXTENDS Integers, FiniteSets

CONSTANTS
  Effects,   \* ID3DXEffect objects with a journal on the one device
  Direct,    \* those hooked at their call sites, not in their vtable
  Slots,     \* journaled states, all kinds alike
  Values,
  Default,   \* value after device creation and Reset
  Footprint, \* effect -> slots its technique writes, which D3DX saves
  Threads,
  GenMod,    \* 2^32, the range of m_generation
  NativePolicy, \* the backend's journal is used when it is free
  Reentrant, \* the game may Begin an effect it has begun
  ResetInside, \* the game may Reset the device between Begin and End
  None

ASSUME JournalAssumption ==
  /\ Direct \subseteq Effects
  /\ Default \in Values /\ None \notin Values
  /\ Footprint \in [Effects -> SUBSET Slots]
  /\ GenMod \in Nat /\ GenMod > 1
  /\ NativePolicy \in BOOLEAN /\ Reentrant \in BOOLEAN /\ ResetInside \in BOOLEAN

Generation == 0 .. GenMod - 1
Saved == [Slots -> Values \union {None}]
Nothing == [s \in Slots |-> None]
PutBack(block, st) == [s \in Slots |-> IF block[s] # None THEN block[s] ELSE st[s]]

VARIABLES
  state,   \* the device: slot -> value
  backend, \* the backend's selective journal: [open, saved]
  journal, \* effect -> ProperShadersStateJournal
  fx       \* effect -> the ID3DXEffect itself

vars == <<state, backend, journal, fx>>

Journal ==
  [active : BOOLEAN, native : BOOLEAN, disabled : BOOLEAN, failed : BOOLEAN,
   passActive : BOOLEAN, owner : Threads \union {None}, generation : Generation,
   stamp : [Slots -> Generation], captured : Saved]

\* mode is how D3DX was begun: saving by itself, as the game asked or at a
\* fallback; not saving, because the game said so; journaled by the hooks.
Fx == [phase : {"idle", "begun", "pass"}, mode : {"saving", "plain", "journaled"},
       saved : Saved]

TypeOK ==
  /\ state \in [Slots -> Values]
  /\ backend \in [open : BOOLEAN, saved : Saved]
  /\ journal \in [Effects -> Journal]
  /\ fx \in [Effects -> Fx]

Init ==
  /\ state = [s \in Slots |-> Default]
  /\ backend = [open |-> FALSE, saved |-> Nothing]
  /\ journal = [e \in Effects |->
       [active |-> FALSE, native |-> FALSE, disabled |-> FALSE, failed |-> FALSE,
        passActive |-> FALSE, owner |-> None, generation |-> 1,
        stamp |-> [s \in Slots |-> 0], captured |-> Nothing]]
  /\ fx = [e \in Effects |-> [phase |-> "idle", mode |-> "plain", saved |-> Nothing]]

-----------------------------------------------------------------------------
(* Calls.  w is the world a call finds: dev, nat, j, fx, and ok, the result *)
(* of the call before.                                                      *)

World(e) == [dev |-> state, nat |-> backend, j |-> journal[e], fx |-> fx[e], ok |-> TRUE]

\* What D3DX tries in one call: it writes some slots, the device refuses
\* at most one more (before or after the journal read it), and D3DX reports failure
\* or not.
Attempts(e) ==
  {a \in [write : UNION {[S -> Values] : S \in SUBSET Footprint[e]},
          refused : SUBSET Footprint[e], readable : SUBSET Footprint[e], ok : BOOLEAN] :
     /\ DOMAIN a.write \intersect a.refused = {}
     /\ a.readable \subseteq a.refused
     /\ \A s, r \in a.refused : s = r}

Fail(w) == [w EXCEPT !.j.failed = TRUE, !.ok = FALSE]

Written(a, st) == [s \in Slots |-> IF s \in DOMAIN a.write THEN a.write[s] ELSE st[s]]

\* Mutant: the first-touch test is dropped.
AnyTouched(j, slots) == slots

FirstTouched(j, slots) == {s \in slots : j.stamp[s] # j.generation}

Capture(j, slots, st) ==
  LET new == FirstTouched(j, slots)
  IN  [j EXCEPT
         !.stamp = [s \in Slots |-> IF s \in new THEN j.generation ELSE j.stamp[s]],
         !.captured = [s \in Slots |-> IF s \in new THEN st[s] ELSE j.captured[s]]]

NativeCapture(nat, slots, st) ==
  [nat EXCEPT !.saved = [s \in Slots |->
     IF s \in slots /\ nat.saved[s] = None THEN st[s] ELSE nat.saved[s]]]

\* Mutant: a disabled journal goes on capturing.
SetStatesWhenDisabled(w, t, a) ==
  CASE ~w.j.active -> [w EXCEPT !.dev = Written(a, @)]
    [] w.j.active /\ w.j.owner # t -> [w EXCEPT !.j.failed = TRUE]
    [] w.j.active /\ w.j.owner = t ->
         [w EXCEPT !.dev = Written(a, @), !.j = Capture(@, DOMAIN a.write, w.dev)]

Recorded(w, a) ==
  LET j == IF w.j.native THEN w.j
           ELSE Capture(w.j, DOMAIN a.write \union a.readable, w.dev)
  IN  [j EXCEPT !.failed = w.j.failed \/ a.refused # {}]

\* The state manager's setters, called by D3DX within one of its calls.
SetStates(w, t, a) ==
  CASE ~w.j.active ->
         [w EXCEPT !.dev = Written(a, w.dev)]
    [] w.j.active /\ (w.j.disabled \/ w.j.owner # t) ->
         IF DOMAIN a.write = {} /\ a.refused = {} THEN w ELSE [w EXCEPT !.j.failed = TRUE]
    [] w.j.active /\ ~w.j.disabled /\ w.j.owner = t ->
         [w EXCEPT !.dev = Written(a, w.dev),
                   !.nat = IF w.j.native THEN NativeCapture(w.nat, DOMAIN a.write, w.dev)
                           ELSE w.nat,
                   !.j = Recorded(w, a)]

-----------------------------------------------------------------------------
(* ProperShadersStateJournal.                                               *)

\* Mutant: the generation does not wrap.
AdvanceUnwrapped(j) == [j EXCEPT !.generation = @ + 1]

\* Mutant: the stamps are not cleared when the generation wraps.
AdvanceUncleared(j) ==
  [j EXCEPT !.generation = IF j.generation + 1 = GenMod THEN 1 ELSE j.generation + 1]

AdvanceGeneration(j) ==
  IF j.generation + 1 = GenMod
  THEN [j EXCEPT !.generation = 1, !.stamp = [s \in Slots |-> 0]]
  ELSE [j EXCEPT !.generation = j.generation + 1]

\* captured stands for the values with the lists of what was touched: a value
\* that is in no list is never read.
ClearJournal(j) == [j EXCEPT !.captured = Nothing]

Finished(j) == ClearJournal([j EXCEPT !.active = FALSE, !.native = FALSE, !.passActive = FALSE])

Distrusted(w) == [w EXCEPT !.j.disabled = TRUE, !.j.failed = TRUE, !.ok = FALSE]

\* lost are the slots the device refuses to take back.
Replayed(j, lost) ==
  [s \in Slots |-> IF s \notin lost THEN j.captured[s] ELSE None]

\* Mutant: the backend's answer is ignored.
RestoreNativeUnchecked(w) ==
  [w EXCEPT !.dev = PutBack(w.nat.saved, @), !.nat = [open |-> FALSE, saved |-> Nothing],
            !.j = Finished(@), !.ok = TRUE]

RestoreNative(w) ==
  LET done == [w EXCEPT !.j = Finished(w.j), !.ok = TRUE]
  IN  IF w.nat.open
      THEN [done EXCEPT !.dev = PutBack(w.nat.saved, w.dev),
                        !.nat = [open |-> FALSE, saved |-> Nothing]]
      ELSE Distrusted(done)

RestoreLocal(w, lost) ==
  LET done == [w EXCEPT !.dev = PutBack(Replayed(w.j, lost), w.dev), !.j = Finished(w.j),
                          !.ok = TRUE]
  IN  IF \A s \in lost : w.j.captured[s] = None THEN done ELSE Distrusted(done)

\* Mutant: a thread that is not the owner drops a transaction without closing
\* the backend's journal.
RestoreDropped(w, t, lost) ==
  CASE ~w.j.active -> [w EXCEPT !.ok = TRUE]
    [] w.j.active /\ w.j.owner # t -> Distrusted([w EXCEPT !.j = Finished(@)])
    [] w.j.active /\ w.j.native /\ w.j.owner = t -> RestoreNative(w)
    [] w.j.active /\ ~w.j.native /\ w.j.owner = t -> RestoreLocal(w, lost)

\* The native journal is restored on whatever thread asks; a local one only
\* on its own, and it stays active otherwise.
Restore(w, t, lost) ==
  CASE ~w.j.active -> [w EXCEPT !.ok = TRUE]
    [] w.j.active /\ w.j.native -> RestoreNative(w)
    [] w.j.active /\ ~w.j.native /\ w.j.owner = t -> RestoreLocal(w, lost)
    [] w.j.active /\ ~w.j.native /\ w.j.owner # t -> Distrusted(w)

Disable(w, t, lost) ==
  [IF w.j.active /\ w.j.owner = t THEN Restore(w, t, lost) ELSE w EXCEPT !.j.disabled = TRUE]

\* Mutant: the backend's refusal is taken for a grant.
StartUnchecked(w, t) ==
  [w EXCEPT !.j = [ClearJournal(AdvanceGeneration(@)) EXCEPT
                     !.active = TRUE, !.native = NativePolicy, !.failed = FALSE,
                     !.passActive = FALSE, !.owner = t],
            !.nat = [open |-> TRUE, saved |-> Nothing],
            !.ok = TRUE]

StartTransaction(w, t) ==
  LET granted == NativePolicy /\ ~w.nat.open
      fresh == ClearJournal(AdvanceGeneration(w.j))
  IN  [w EXCEPT !.j = [fresh EXCEPT !.active = TRUE, !.native = granted, !.failed = FALSE,
                                    !.passActive = FALSE, !.owner = t],
                !.nat = IF granted THEN [open |-> TRUE, saved |-> Nothing] ELSE w.nat,
                !.ok = TRUE]

BeginTransaction(w, t, lost) ==
  CASE w.j.disabled -> [w EXCEPT !.ok = FALSE]
    [] ~w.j.disabled /\ w.j.active ->
         [Restore(w, t, lost) EXCEPT !.j.disabled = TRUE, !.ok = FALSE]
    [] ~w.j.disabled /\ ~w.j.active -> StartTransaction(w, t)

\* A capture scope opens around each call of D3DX; it cannot when the backend
\* has discarded the journal.
CaptureScope(w) ==
  IF w.j.active /\ w.j.native /\ ~w.nat.open THEN Fail(w) ELSE [w EXCEPT !.ok = TRUE]

-----------------------------------------------------------------------------
(* D3DX, as the hooks use it: calls out of order fail and change nothing.   *)

D3dxBegin(w, t, a, e, mode) ==
  IF w.fx.phase # "idle" THEN [w EXCEPT !.ok = FALSE]
  ELSE LET v == SetStates(w, t, a) IN
       IF ~a.ok THEN [v EXCEPT !.ok = FALSE]
       ELSE [v EXCEPT !.ok = TRUE,
                      !.fx = [phase |-> "begun", mode |-> mode,
                              saved |-> [s \in Slots |->
                                IF mode = "saving" /\ s \in Footprint[e] THEN w.dev[s] ELSE None]]]

D3dxBeginPass(w, t, a) ==
  IF w.fx.phase # "begun" THEN [w EXCEPT !.ok = FALSE]
  ELSE [SetStates(w, t, a) EXCEPT !.ok = a.ok, !.fx.phase = IF a.ok THEN "pass" ELSE "begun"]

D3dxCommitChanges(w, t, a) ==
  IF w.fx.phase # "pass" THEN [w EXCEPT !.ok = FALSE]
  ELSE [SetStates(w, t, a) EXCEPT !.ok = a.ok]

D3dxEndPass(w) ==
  IF w.fx.phase # "pass" THEN [w EXCEPT !.ok = FALSE]
  ELSE [w EXCEPT !.ok = TRUE, !.fx.phase = "begun"]

D3dxEnd(w) ==
  IF w.fx.phase = "idle" THEN [w EXCEPT !.ok = FALSE]
  ELSE [w EXCEPT !.ok = TRUE, !.dev = PutBack(w.fx.saved, w.dev),
                 !.fx = [phase |-> "idle", mode |-> "plain", saved |-> Nothing]]

-----------------------------------------------------------------------------
(* The hooks.                                                               *)

Settle(e, w) ==
  /\ state' = w.dev
  /\ backend' = w.nat
  /\ journal' = [journal EXCEPT ![e] = w.j]
  /\ fx' = [fx EXCEPT ![e] = w.fx]

Captured(j) == {s \in Slots : j.captured[s] # None}

\* Slots a local replay may fail to take back.
Losses(j) == IF j.active /\ ~j.native THEN SUBSET Captured(j) ELSE {{}}

\* D3DX begins as the game asked, saving by itself, after the journal gave up.
Baselines(e) == {a \in Attempts(e) : a.refused = {}}

BaselineBegin(e, w, t) ==
  \E a \in Baselines(e) : Settle(e, D3dxBegin(w, t, a, e, "saving"))

\* Mutant: D3DX is not ended before it is begun again.
BeginFallbackUnended(e, w, t) ==
  \E lost \in Losses(w.j) :
    LET restored == Restore(w, t, lost)
        disabled == Disable(restored, t, {})
    IN  IF restored.ok THEN BaselineBegin(e, disabled, t) ELSE Settle(e, disabled)

\* A journaled Begin that failed is undone, and retried on the baseline.
BeginFallback(e, w, t) ==
  \E lost \in Losses(w.j) :
    LET ended == IF w.ok THEN D3dxEnd(w) ELSE w
        restored == Restore(ended, t, lost)
        disabled == Disable(restored, t, {})
    IN  IF restored.ok THEN BaselineBegin(e, disabled, t) ELSE Settle(e, disabled)

JournaledBegin(e, t) ==
  LET begun == BeginTransaction(World(e), t, {})
  IN  /\ begun.ok
      /\ \E a \in Attempts(e) :
           LET w == D3dxBegin(begun, t, a, e, "journaled")
           IN  IF w.ok /\ ~w.j.failed THEN Settle(e, w) ELSE BeginFallback(e, w, t)

\* The effect's transaction was still open: it is restored, and D3DX, which
\* has begun the effect, refuses to begin it again.
RefusedBegin(e, t) ==
  \E lost \in Losses(journal[e]) :
    LET begun == BeginTransaction(World(e), t, lost)
    IN  /\ ~begun.ok
        /\ Settle(e, IF begun.j.failed \/ e \in Direct THEN Disable(begun, t, {}) ELSE begun)

\* HookedProperShadersGeneralBegin and OptimizedProperShadersBegin.  The
\* latter journals whatever the flags say; its callers ask for saving.
Begin(e, t, saving) ==
  /\ Reentrant \/ fx[e].phase = "idle"
  /\ e \in Direct => saving
  /\ IF journal[e].disabled \/ ~saving
     THEN \E a \in Attempts(e) :
            Settle(e, D3dxBegin(World(e), t, a, e, IF saving THEN "saving" ELSE "plain"))
     ELSE JournaledBegin(e, t) \/ RefusedBegin(e, t)

EndPassCall(w) ==
  LET v == D3dxEndPass(w)
  IN  IF v.ok /\ v.j.active THEN [v EXCEPT !.j.passActive = FALSE] ELSE v

\* RestartProperShadersBaselinePass: what the effect did is taken back and
\* D3DX begins it again, with its pass, as the game asked.
RestartBaseline(e, w, t) ==
  \E lost \in Losses(w.j), begins \in BOOLEAN :
    LET ended == D3dxEnd(IF w.j.passActive THEN EndPassCall(w) ELSE w)
        restored == Restore(ended, t, lost)
        disabled == Disable(restored, t, {})
        begun == [disabled EXCEPT !.ok = TRUE, !.fx =
                   [phase |-> "begun", mode |-> "saving", saved |-> [s \in Slots |->
                     IF s \in Footprint[e] THEN disabled.dev[s] ELSE None]]]
    IN  IF restored.ok /\ begins
        THEN \E a \in Baselines(e) : Settle(e, D3dxBeginPass(begun, t, a))
        ELSE Settle(e, disabled)

\* The vtable hooks restart when a setter failed under the journal, the call
\* site hooks whenever the call failed.
NeedsRestart(e, w) ==
  journal[e].active /\ w.j.active /\ (w.j.failed \/ (e \in Direct /\ ~w.ok))

BeginPassCall(w, t, a) ==
  LET v == D3dxBeginPass(w, t, a)
  IN  IF v.ok /\ v.j.active THEN [v EXCEPT !.j.passActive = TRUE] ELSE v

Settled(e, w, t) ==
  IF NeedsRestart(e, w) THEN RestartBaseline(e, w, t) ELSE Settle(e, w)

\* HookedProperShadersGenericBeginPass, OptimizedProperShadersBeginPass.
BeginPass(e, t) ==
  LET w == CaptureScope(World(e))
  IN  /\ fx[e].phase = "begun"
      /\ IF w.ok THEN \E a \in Attempts(e) : Settled(e, BeginPassCall(w, t, a), t)
         ELSE RestartBaseline(e, w, t)

\* HookedProperShadersGeneralCommitChanges, OptimizedProperShadersCommitChanges.
CommitChanges(e, t) ==
  LET w == CaptureScope(World(e))
  IN  /\ fx[e].phase = "pass"
      /\ IF w.ok THEN \E a \in Attempts(e) : Settled(e, D3dxCommitChanges(w, t, a), t)
         ELSE RestartBaseline(e, w, t)

\* HookedProperShadersGenericEndPass, OptimizedProperShadersEndPass.
EndPass(e) == fx[e].phase = "pass" /\ Settle(e, EndPassCall(World(e)))

\* HookedProperShadersGeneralEnd, OptimizedProperShadersEnd: the transaction
\* is restored even when D3DX could not be ended.
End(e, t) ==
  LET scope == CaptureScope(World(e))
      ended == IF scope.ok THEN D3dxEnd(scope) ELSE scope
  IN  /\ fx[e].phase # "idle"
      /\ IF ~ended.j.active THEN Settle(e, ended)
         ELSE \E lost \in Losses(ended.j) :
                LET restored == Restore(ended, t, lost)
                IN  Settle(e, IF ended.j.failed \/ ~restored.ok
                              THEN Disable(restored, t, {}) ELSE restored)

-----------------------------------------------------------------------------
(* The game.                                                                *)

SetState(s, v) ==
  /\ state' = [state EXCEPT ![s] = v]
  /\ UNCHANGED <<backend, journal, fx>>

\* Reset gives every state its default and discards the backend's journal.
Reset ==
  /\ ResetInside \/ \A e \in Effects : fx[e].phase = "idle"
  /\ state' = [s \in Slots |-> Default]
  /\ backend' = [open |-> FALSE, saved |-> Nothing]
  /\ UNCHANGED <<journal, fx>>

Next ==
  \/ \E e \in Effects, t \in Threads, saving \in BOOLEAN : Begin(e, t, saving)
  \/ \E e \in Effects, t \in Threads : BeginPass(e, t)
  \/ \E e \in Effects, t \in Threads : CommitChanges(e, t)
  \/ \E e \in Effects : EndPass(e)
  \/ \E e \in Effects, t \in Threads : End(e, t)
  \/ \E s \in Slots, v \in Values : SetState(s, v)
  \/ Reset

Spec == Init /\ [][Next]_vars

-----------------------------------------------------------------------------
(* Properties.                                                              *)

\* What End will put back: the journal's captures while its transaction is
\* open, D3DX's own saved state otherwise.
Pending(e) ==
  CASE journal[e].active /\ journal[e].native -> backend.saved
    [] journal[e].active /\ ~journal[e].native -> Replayed(journal[e], {})
    [] ~journal[e].active -> fx[e].saved

Contract == INSTANCE EffectContract WITH
  open <- {e \in Effects : journal[e].active \/ fx[e].mode = "saving"},
  saved <- [e \in Effects |-> Pending(e)],
  trusted <- {e \in Effects : ~journal[e].disabled}

\* Whatever fails inside an effect, and whether the journal, the backend or
\* D3DX saves the state, the effect's End puts back exactly the values its
\* slots had before it first wrote them, or the effect is never journaled
\* again.  Code: first-touch capture, Restore, the baseline restart.
ImplementsContract == Contract!Spec

\* D3DX runs without saving state, by the hooks' doing, only while the
\* journal's transaction of that effect is open, so every write in between
\* is put back.  Code: the order of End, Restore and Begin in the fallbacks.
JournaledMeansActive ==
  \A e \in Effects : fx[e].mode = "journaled" => journal[e].active

\* The backend has one journal: at most one effect takes it for its own, and
\* it is really open for that effect.  Code: BeginTransaction, Restore.
OneBackendOwner ==
  \A e \in Effects : journal[e].active /\ journal[e].native =>
    /\ backend.open
    /\ \A f \in Effects \ {e} : ~(journal[f].active /\ journal[f].native)

\* An effect whose stamp says "captured in this transaction" was, and its
\* captured value is a value of this transaction's replay.  Code: the
\* generation stamps across their wrap.
StampsCurrent ==
  \A e \in Effects, s \in Slots :
    LET j == journal[e]
    IN  j.active /\ ~j.native =>
          (j.stamp[s] = j.generation <=> j.captured[s] # None)

\* A transaction another thread tried to end is stranded: disabled, but open
\* until its own thread replays it.  Until then it captures nothing more, so
\* what is replayed is still what the effect found.  Code: CheckTransaction,
\* Restore (ProperShadersStateJournal.cpp:236-241, 1065-1069).
StrandedFrozen ==
  [][\A e \in Effects :
       journal[e].active /\ ~journal[e].native /\ journal[e].disabled =>
         journal'[e].captured = journal[e].captured \/ ~journal'[e].active]_vars

\* The transactions that took the backend's journal for their own.
Claims == {e \in Effects : journal[e].active /\ journal[e].native}

\* How many of them have lost it: a Reset discarded it, or, once another effect
\* has opened it anew, an End that was not that effect's closed it.
CutOff == Cardinality(Claims) - (IF backend.open THEN 1 ELSE 0)

\* Each loss of the backend's journal costs a transaction its success: when
\* there is one less that has lost it, a transaction has ended, and its journal
\* has failed and is disabled for good.  It need not be the one the
\* Reset cut off: if another effect has opened the journal since, the first End
\* restores it unreported, and the other's End reports.  Code: Restore
\* (ProperShadersStateJournal.cpp:1042-1063) and the hooks' fallbacks.
LossesReported ==
  [][CutOff' < CutOff =>
       \E e \in Claims \ Claims' : journal'[e].disabled /\ journal'[e].failed]_vars

\* The backend's journal is never open without a transaction that will close
\* it: it would capture on, and be refused to every later transaction.  Code:
\* every path from BeginTransaction to Restore.
BackendClaimed == backend.open => Claims # {}

=============================================================================
