--------------------------- MODULE MCEffectBindings ---------------------------
(* A small instance of EffectBindings.                                        *)
EXTENDS EffectBindings, TLC

CONSTANTS t1, t2, e1, e2, e3, a1, a2

TwoThreads == {t1, t2}
ThreeEffects == {e1, e2, e3}
TwoAddresses == {a1, a2}

Interchangeable ==
  Permutations(TwoThreads) \cup Permutations(ThreeEffects) \cup Permutations(TwoAddresses)

=============================================================================
