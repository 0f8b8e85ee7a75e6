---------------------------- MODULE BindingContract ----------------------------
(***************************************************************************)
(* What deferring and caching the backend's bindings must not change: a    *)
(* draw uses the shaders, input layout, textures and samplers the device's *)
(* state asks for at that moment, whatever was bound and skipped before.   *)
(***************************************************************************)
VARIABLES
  pipeline,  \* [vs, ps, layout] the state asks for
  resources, \* slot -> what the state asks to be bound there
  drawn      \* what the call just made drew with, Nothing if it drew nothing

CONSTANT Nothing

vars == <<pipeline, resources, drawn>>

Init == drawn = Nothing

\* Any other call: the state may change, nothing is drawn.
Change == drawn' = Nothing

\* A call that samples the slots of used; ps is what it shades fragments with.
DrawWith(call, ps) ==
  /\ UNCHANGED <<pipeline, resources>>
  /\ \E used \in SUBSET DOMAIN resources :
       drawn' = [call |-> call,
                 pipeline |-> [pipeline EXCEPT !.ps = ps],
                 resources |-> [s \in used |-> resources[s]]]

Draw == DrawWith("Draw", pipeline.ps)

\* Vertices streamed out to a buffer, with no fragments.
ProcessVertices == DrawWith("ProcessVertices", Nothing)

Next == Change \/ Draw \/ ProcessVertices

Spec == Init /\ [][Next]_vars

=============================================================================
