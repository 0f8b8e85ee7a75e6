------------------------- MODULE MCEffectParameters -------------------------
(***************************************************************************)
(* A matrix and a vector that a direct context holds, one parameter of     *)
(* every other kind, and two values.                                       *)
(*                                                                         *)
(* Both filters are on: a write whose filter another effect or Present has *)
(* emptied goes on as it does without the filter.  Filters do not read     *)
(* each other, so at most one remembers a held parameter.  A parameter     *)
(* left to D3DX is followed while the pass it is written in lasts: the     *)
(* next BeginPass applies it.                                              *)
(***************************************************************************)
EXTENDS EffectParameters, TLC

CONSTANTS world, material, ambient, texture, sun, v1, v2

MCParam == {world, material, ambient, texture, sun}
MCHeld == {world, material}
MCCopied == {ambient, texture}
MCRequired == {world, material, texture}
MCFiltered == {world, material, ambient}
MCMatrix == {world}
MCValue == {v1, v2}
ValueSymmetry == Permutations(MCValue)

Followed ==
  /\ filtered = MCFiltered
  /\ None \in {cache[world], cache[material]}
  /\ sun \in dirty => phase = "pass"

=============================================================================
