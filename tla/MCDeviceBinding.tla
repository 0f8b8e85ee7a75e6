---------------------------- MODULE MCDeviceBinding ----------------------------
(* Small instances of DeviceBinding.                                        *)
EXTENDS DeviceBinding, TLC

CONSTANTS v1, p1, d1, d2, c1, c2, xyz, rhw

Plain(n) == [count |-> n, instanceData |-> FALSE]
Instance(n) == [count |-> n, instanceData |-> TRUE]

\* Stream 0 gives the number of instances, stream 1 may hold instance data.
MCSettings ==
  [s \in Stream |-> IF s = 0 THEN {Plain(1), Plain(2)} ELSE {Plain(1), Instance(1)}]

\* The depth texture alone has a format of its own.
MCFormat == [t \in Textures |-> IF t \in Shadow THEN "depth" ELSE "color"]

\* What is explored: shaders and layout, or textures and samplers, while the
\* others are as they were at first but for what draws and resets do to them.
ShadersAtRest ==
  /\ vertexShader = None /\ pixelShader = None /\ vertexDecl \in {None, d1}
  /\ code = [o \in VertexShaders \union PixelShaders |-> c1] /\ elements = [d \in Decls |-> xyz]
  /\ streamFreq = [s \in Stream |-> PerVertex] /\ instanced = {}
  /\ tracker["vs"] = tracker["ps"]
  /\ tracker["vs"].bound \in {FixedFunction, Unknown}

ResourcesAtRest ==
  /\ texture = NoTexture /\ filter = [s \in Slots |-> DefaultFilter] /\ srgb = NoSrgb
  /\ lod = [t \in Textures |-> 0]
  /\ depth = {} /\ textureDirty = {} /\ samplerDirty = {}
  /\ viewCache = [s \in Slots |-> Unknown]

OneSide == ShadersAtRest \/ ResourcesAtRest

=============================================================================
