--------------------------- MODULE EffectContract ---------------------------
(* What an effect that saves state promises the code around it: between its *)
(* Begin and its End whatever it writes to the device is remembered, as it  *)
(* was before the effect touched it, and closing the effect puts exactly    *)
(* that back.  D3DX keeps the promise with a state block taken at Begin,    *)
(* the Bridge with a journal filled slot by slot at the first write; the    *)
(* contract allows both, and a change from one to the other in mid-effect.  *)
(* An effect that cannot put everything back is not trusted again.          *)

CONSTANTS Effects, Slots, Values,
          Footprint, \* effect -> the slots it may write
          None    \* "this slot is not saved", not a value

VARIABLES state,    \* slot -> value, the device
          open,     \* the effects between Begin and End that must put back
          saved,    \* effect -> slot -> what End must put back, or None
          trusted   \* the effects that never failed to put back

vars == <<state, open, saved, trusted>>

Nothing == [s \in Slots |-> None]
PutBack(block, st) == [s \in Slots |-> IF block[s] # None THEN block[s] ELSE st[s]]

Init ==
  /\ state \in [Slots -> Values]
  /\ open = {}
  /\ saved = [e \in Effects |-> Nothing]
  /\ trusted = Effects

\* Trust is never regained.
Distrust == trusted' \subseteq trusted

\* The game, and an effect told not to save, write the device as they like.
Write == state' \in [Slots -> Values] /\ UNCHANGED <<open, saved>>

\* An open effect writes: a slot it changes is saved, with the value it had
\* before, and what was saved already stays as it was.
Use(e) ==
  /\ \A s \in Slots :
       \/ saved'[e][s] = saved[e][s]
       \/ saved[e][s] = None /\ saved'[e][s] = state[s]
  /\ \A s \in Slots : state'[s] # state[s] => saved'[e][s] # None
  /\ \A f \in Effects \ {e} : saved'[f] = saved[f]

Open(e) == e \notin open /\ open' = open \union {e} /\ Use(e)

Draw(e) == e \in open /\ open' = open /\ Use(e)

Close(e) ==
  /\ e \in open
  /\ open' = open \ {e}
  /\ state' = PutBack(saved[e], state)
  /\ saved' = [saved EXCEPT ![e] = Nothing]

\* Some of what the effect wrote could not be put back.
Lose(e) ==
  /\ e \in open
  /\ open' = open \ {e}
  /\ e \notin trusted'
  /\ \A s \in Slots \ Footprint[e] : state'[s] = state[s]
  /\ saved' = [saved EXCEPT ![e] = Nothing]

Next ==
  /\ Distrust
  /\ \/ Write
     \/ \E e \in Effects : Open(e) \/ Draw(e) \/ Close(e) \/ Lose(e)

Spec == Init /\ [][Next]_vars

=============================================================================
