--------------------------- MODULE MCEffectJournal ---------------------------
(* Small instances of EffectJournal.                                        *)
EXTENDS EffectJournal, TLC

CONSTANTS e1, e2, s1, s2

\* Every technique writes every slot, so effects share all of them.
MCFootprint == [e \in Effects |-> Slots]

\* One technique writes both slots, the other shares one of them.
TwoSlotFootprint == e1 :> {s1, s2} @@ e2 :> {s2}

=============================================================================
