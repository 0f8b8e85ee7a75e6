---------------------- MODULE VulkanPassRegistry_proofs ----------------------
(***************************************************************************)
(* Proofs about VulkanPassRegistry for any number of threads, passes and   *)
(* priorities: the count is exact, equal priorities keep their order, and  *)
(* the registry implements PassContract.                                   *)
(***************************************************************************)
EXTENDS VulkanPassRegistry, FiniteSetTheorems, TLAPS

USE PriorityAssumption, MaxTokenAssumption, NoneAssumption DEF Token

\* PassInv, and the finiteness its count needs.
IInv == PassInv /\ IsFiniteSet(Enabled)

-----------------------------------------------------------------------------
(* The entries one action touches. *)

\* At most one entry carries a token, so unregistering a token lowers the
\* number of enabled entries by the size of what it removes.
LEMMA RemovedEnabled ==
  ASSUME EntriesDistinct, IsFiniteSet(Enabled), NEW t
  PROVE  /\ IsFiniteSet(Enabled \ Removed(t))
         /\ Cardinality(Removed(t) \cap Enabled) \in Int
         /\ Cardinality(Enabled \ Removed(t)) =
              Cardinality(Enabled) - Cardinality(Removed(t) \cap Enabled)
<1>0. Cardinality(Enabled) \in Nat
  BY FS_CardinalityType
<1>1. CASE Removed(t) \cap Enabled = {}
  <2>1. Enabled \ Removed(t) = Enabled
    BY <1>1
  <2>2. QED
    BY <1>0, <1>1, <2>1, FS_EmptySet
<1>2. CASE Removed(t) \cap Enabled # {}
  <2>1. PICK p \in Enabled : p.token = t
    BY <1>2 DEF Removed
  <2>2. Removed(t) \cap Enabled = {p}
    BY <2>1 DEF Removed, Enabled, EntriesDistinct
  <2>3. Enabled \ Removed(t) = Enabled \ {p}
    BY <2>2
  <2>4. Cardinality({p}) = 1
    BY FS_Singleton
  <2>5. IsFiniteSet(Enabled \ {p}) /\ Cardinality(Enabled \ {p}) = Cardinality(Enabled) - 1
    BY FS_RemoveElement
  <2>6. IsFiniteSet(Enabled \ Removed(t)) /\ Cardinality(Enabled \ Removed(t)) = Cardinality(Enabled) - 1
    BY <2>3, <2>5, Zenon
  <2>7. Cardinality(Removed(t) \cap Enabled) = 1
    BY <2>2, <2>4, Zenon
  <2>8. QED
    BY <1>0, <2>6, <2>7
<1>3. QED
  BY <1>1, <1>2

\* The entry whose callback runs is the only one with its token.
LEMMA RecordingAlone ==
  ASSUME TypeOK, EntriesDistinct, FrameLive, recording # None
  PROVE  Removed(recording.token) = {recording} /\ recording \in Enabled
<1>1. recording \in Enabled
  BY DEF FrameLive
<1>2. QED
  BY <1>1 DEF Enabled, Removed, EntriesDistinct

-----------------------------------------------------------------------------
(* Every step preserves the invariant. *)

\* The registry starts empty.
LEMMA InitInv == Init => IInv
<1> SUFFICES ASSUME Init PROVE IInv
  OBVIOUS
<1>1. Enabled = {} /\ Live = {}
  BY DEF Init, Enabled, Live, Tokens
<1>2. CountExact /\ IsFiniteSet(Enabled)
  BY <1>1, FS_EmptySet DEF Init, CountExact
<1>3. TypeOK
  <2>1. earlier \in [Token -> SUBSET Token]
    BY DEF Init
  <2>2. /\ registering \in [Client -> Pass \cup {None}]
        /\ unregistering \in [Client -> Token \cup {None}]
    BY DEF Init
  <2>3. nextToken \in 1 .. MaxToken + 1 /\ nextSequence \in 1 .. MaxToken + 1 /\ passCount \in Int
    BY DEF Init
  <2>4. passes \subseteq Pass /\ frame \subseteq Pass /\ retired \subseteq Token
    BY DEF Init
  <2>5. cs \in {"idle", "checked", "recording"} /\ destroyed \in BOOLEAN /\ recording \in Pass \cup {None}
    BY DEF Init
  <2>6. QED
    BY <2>1, <2>2, <2>3, <2>4, <2>5 DEF TypeOK
<1>4. EntriesDistinct /\ PendingFresh /\ FrameLive /\ EarlierSmaller
  BY <1>1 DEF Init, EntriesDistinct, PendingFresh, FrameLive, EarlierSmaller
<1>5. QED
  BY <1>2, <1>3, <1>4 DEF IInv, PassInv

\* A registration draws a token no entry, frame or history knows.
LEMMA DrawTokenInv ==
  ASSUME IInv, NEW c \in Client, NEW priority \in Priority, DrawToken(c, priority)
  PROVE  IInv'
<1> USE DEF IInv, PassInv
<1> DEFINE e == [token |-> nextToken, sequence |-> 0, priority |-> priority, enabled |-> TRUE]
<1>1. e \in Pass /\ nextToken \in Token
  BY DEF DrawToken, TypeOK, Pass
<1>2. UNCHANGED <<passes, passCount, nextSequence, unregistering, cs, frame, recording, destroyed, retired>>
  BY DEF DrawToken, csVars
<1>3. nextToken' = nextToken + 1 /\ registering' = [registering EXCEPT ![c] = e]
  BY DEF DrawToken
<1>4. earlier' = [earlier EXCEPT ![nextToken] = Tokens(passes)]
  BY DEF DrawToken
<1>5. Tokens(passes) \subseteq Token
  BY DEF Tokens, TypeOK, Pass
<1>6. Enabled' = Enabled /\ Live' = Live
  BY <1>2 DEF Enabled, Live, Tokens
<1>7. TypeOK'
  BY <1>1, <1>2, <1>3, <1>4, <1>5 DEF TypeOK
<1>8. CountExact' /\ IsFiniteSet(Enabled)' /\ FrameLive'
  BY <1>2, <1>6 DEF CountExact, FrameLive
<1>9. EntriesDistinct'
  BY <1>2, <1>3, <1>6 DEF EntriesDistinct, TypeOK, Pass
<1>10. PendingFresh'
  <2> SUFFICES ASSUME NEW d \in Client, registering'[d] # None
               PROVE  /\ registering'[d].enabled
                      /\ registering'[d].token < nextToken'
                      /\ registering'[d].sequence < nextSequence'
                      /\ registering'[d].token \notin retired'
                      /\ \A p \in passes' : p.token # registering'[d].token /\ p.sequence # registering'[d].sequence
                      /\ \A f \in Client \ {d} : registering'[f] # None =>
                           /\ registering'[f].token # registering'[d].token
                           /\ registering'[f].sequence = registering'[d].sequence => registering'[d].sequence = 0
    BY DEF PendingFresh
  <2>1. \A f \in Client : registering'[f] = IF f = c THEN e ELSE registering[f]
    BY <1>3 DEF TypeOK
  <2>2. \A f \in Client : registering[f] # None => registering[f] \in Pass
    BY DEF TypeOK
  <2>3. \A p \in passes : p \in Pass /\ p.sequence # 0
    BY DEF TypeOK, EntriesDistinct
  <2>4. CASE d = c
    BY <2>4, <2>1, <2>2, <2>3, <1>2, <1>3 DEF PendingFresh, EntriesDistinct, TypeOK, Pass
  <2>5. CASE d # c
    BY <2>5, <2>1, <2>2, <2>3, <1>2, <1>3 DEF PendingFresh, EntriesDistinct, TypeOK, Pass
  <2>6. QED
    BY <2>4, <2>5
<1>11. EarlierSmaller'
  <2>1. \A t \in Token : earlier'[t] = IF t = nextToken THEN Tokens(passes) ELSE earlier[t]
    BY <1>4 DEF TypeOK
  <2>2. \A u \in Tokens(passes) : u \in Token /\ u < nextToken
    BY <1>5 DEF Tokens, EntriesDistinct
  <2>3. \A p \in passes : p.token \in Token /\ p.token # nextToken
    BY DEF EntriesDistinct, TypeOK, Pass
  <2>4. \A f \in Client : registering'[f] = IF f = c THEN e ELSE registering[f]
    BY <1>3 DEF TypeOK
  <2>5. \A f \in Client : registering[f] # None =>
          /\ registering[f].token \in Token
          /\ registering[f].token < nextToken
          /\ registering[f].token \notin Tokens(passes)
    BY DEF PendingFresh, TypeOK, Pass, Tokens
  <2>6. \A t \in Token : \A u \in earlier'[t] : u < nextToken'
    BY <2>1, <2>2, <1>3 DEF EarlierSmaller, TypeOK
  <2>7. \A p, q \in passes : q.token \in earlier'[p.token] => q.sequence < p.sequence
    BY <2>1, <2>3 DEF EarlierSmaller
  <2>8. \A f \in Client : registering'[f] # None =>
          \A t \in Token : registering'[f].token \notin earlier'[t]
    BY <2>1, <2>2, <2>4, <2>5, <1>1 DEF EarlierSmaller, TypeOK
  <2>9. \A f \in Client : registering'[f] # None /\ registering'[f].sequence # 0 =>
          \A q \in passes : q.token \in earlier'[registering'[f].token] =>
                              q.sequence < registering'[f].sequence
    BY <2>1, <2>4, <2>5 DEF EarlierSmaller, TypeOK
  <2>10. QED
    BY <2>6, <2>7, <2>8, <2>9, <1>2 DEF EarlierSmaller
<1>12. QED
  BY <1>7, <1>8, <1>9, <1>10, <1>11

\* A registration draws a sequence past every inserted entry's.
LEMMA DrawSequenceInv ==
  ASSUME IInv, NEW c \in Client, DrawSequence(c)
  PROVE  IInv'
<1> USE DEF IInv, PassInv
<1> DEFINE e == [registering[c] EXCEPT !.sequence = nextSequence]
<1>1. registering[c] \in Pass /\ registering[c].sequence = 0
  BY DEF DrawSequence, TypeOK
<1>2. UNCHANGED <<passes, passCount, nextToken, unregistering, cs, frame, recording, destroyed, earlier, retired>>
  BY DEF DrawSequence, csVars, history
<1>3. /\ nextSequence' = nextSequence + 1
      /\ registering' = [registering EXCEPT ![c] = e]
      /\ nextSequence \in 1 .. MaxToken
  BY <1>1 DEF DrawSequence, TypeOK
<1>4. /\ e \in Pass
      /\ e.token = registering[c].token /\ e.sequence = nextSequence /\ e.enabled = registering[c].enabled
  BY <1>1, <1>3 DEF Pass
<1>5. Enabled' = Enabled /\ Live' = Live
  BY <1>2 DEF Enabled, Live, Tokens
<1>6. \A f \in Client : registering'[f] = IF f = c THEN e ELSE registering[f]
  BY <1>3 DEF TypeOK
<1>7. \A f \in Client : registering[f] # None => registering[f] \in Pass
  BY DEF TypeOK
<1>8. TypeOK'
  <2>1. registering' \in [Client -> Pass \cup {None}]
    BY <1>3, <1>4 DEF TypeOK
  <2>2. nextSequence' \in 1 .. MaxToken + 1
    BY <1>3
  <2>3. QED
    BY <1>2, <2>1, <2>2 DEF TypeOK
<1>9. CountExact' /\ IsFiniteSet(Enabled)' /\ FrameLive'
  BY <1>2, <1>5 DEF CountExact, FrameLive
<1>10. EntriesDistinct'
  BY <1>2, <1>3, <1>5 DEF EntriesDistinct, TypeOK, Pass
<1>11. \A p \in passes : p \in Pass /\ p.sequence \in 1 .. nextSequence - 1
  BY DEF EntriesDistinct, TypeOK
<1>12. PendingFresh'
  <2> SUFFICES ASSUME NEW d \in Client, registering'[d] # None
               PROVE  /\ registering'[d].enabled
                      /\ registering'[d].token < nextToken'
                      /\ registering'[d].sequence < nextSequence'
                      /\ registering'[d].token \notin retired'
                      /\ \A p \in passes' : p.token # registering'[d].token /\ p.sequence # registering'[d].sequence
                      /\ \A f \in Client \ {d} : registering'[f] # None =>
                           /\ registering'[f].token # registering'[d].token
                           /\ registering'[f].sequence = registering'[d].sequence => registering'[d].sequence = 0
    BY DEF PendingFresh
  <2>1. CASE d = c
    BY <2>1, <1>1, <1>2, <1>3, <1>4, <1>6, <1>7, <1>11 DEF PendingFresh, Pass
  <2>2. CASE d # c
    BY <2>2, <1>1, <1>2, <1>3, <1>4, <1>6, <1>7, <1>11 DEF PendingFresh, Pass
  <2>3. QED
    BY <2>1, <2>2
<1>13. EarlierSmaller'
  <2>1. \A f \in Client : registering'[f] # None => registering'[f].token = registering[f].token /\ registering[f] # None
    BY <1>1, <1>4, <1>6
  <2>2. \A f \in Client : registering'[f] # None =>
          \A t \in Token : registering'[f].token \notin earlier[t]
    BY <2>1 DEF EarlierSmaller
  <2>3. \A f \in Client : registering'[f] # None /\ registering'[f].sequence # 0 =>
          \A q \in passes : q.token \in earlier[registering'[f].token] =>
                              q.sequence < registering'[f].sequence
    BY <2>1, <1>3, <1>4, <1>6, <1>11 DEF EarlierSmaller
  <2>4. QED
    BY <2>2, <2>3, <1>2 DEF EarlierSmaller
<1>14. QED
  BY <1>8, <1>9, <1>10, <1>12, <1>13

\* The inserted entry is new, so the count grows with the enabled entries.
LEMMA InsertPassInv ==
  ASSUME IInv, NEW c \in Client, InsertPass(c)
  PROVE  IInv'
<1> USE DEF IInv, PassInv
<1> DEFINE e == registering[c]
<1>1. /\ e # None /\ e \in Pass /\ e.sequence # 0 /\ e.enabled
      /\ e.token < nextToken /\ e.sequence < nextSequence /\ e.token \notin retired
      /\ \A p \in passes : p.token # e.token /\ p.sequence # e.sequence
  BY DEF InsertPass, TypeOK, PendingFresh
<1>2. UNCHANGED <<nextToken, nextSequence, unregistering, cs, frame, recording, destroyed, earlier, retired>>
  BY DEF InsertPass, csVars, history
<1>3. /\ passes' = passes \cup {e}
      /\ passCount' = passCount + 1
      /\ registering' = [registering EXCEPT ![c] = None]
  BY DEF InsertPass
<1>4. /\ Enabled' = Enabled \cup {e}
      /\ e \notin Enabled
      /\ Live' = Live \cup {e.token}
  BY <1>1, <1>3 DEF Enabled, Live, Tokens
<1>5. \A f \in Client : registering'[f] = IF f = c THEN None ELSE registering[f]
  BY <1>3 DEF TypeOK
<1>6. TypeOK'
  BY <1>1, <1>2, <1>3 DEF TypeOK
<1>7. CountExact' /\ IsFiniteSet(Enabled)'
  <2>1. IsFiniteSet(Enabled \cup {e}) /\ Cardinality(Enabled \cup {e}) = Cardinality(Enabled) + 1
    BY <1>4, FS_AddElement
  <2>2. Cardinality(Enabled') = Cardinality(Enabled) + 1 /\ IsFiniteSet(Enabled')
    BY <2>1, <1>4, Zenon
  <2>3. QED
    BY <2>2, <1>3 DEF CountExact
<1>8. FrameLive'
  BY <1>2, <1>4 DEF FrameLive
<1>9. \A p \in passes : p \in Pass /\ p.token < nextToken /\ p.sequence \in 1 .. nextSequence - 1
  BY DEF EntriesDistinct, TypeOK
<1>10. EntriesDistinct'
  <2>1. \A p \in passes' : p.token < nextToken' /\ p.sequence \in 1 .. nextSequence' - 1
    BY <1>1, <1>2, <1>3, <1>9 DEF TypeOK, Pass
  <2>2. \A p, q \in passes' : p.token = q.token \/ p.sequence = q.sequence => p = q
    BY <1>1, <1>3 DEF EntriesDistinct
  <2>3. \A t \in retired' : t < nextToken' /\ t \notin Live'
    BY <1>1, <1>2, <1>4 DEF EntriesDistinct
  <2>4. QED
    BY <2>1, <2>2, <2>3 DEF EntriesDistinct
<1>11. PendingFresh'
  <2>1. \A d \in Client : registering'[d] # None =>
          /\ d # c /\ registering[d] # None /\ registering'[d] = registering[d]
          /\ registering[d].token # e.token
          /\ registering[d].sequence # e.sequence
    BY <1>1, <1>5 DEF PendingFresh
  <2>2. QED
    BY <2>1, <1>1, <1>2, <1>3, <1>5 DEF PendingFresh
<1>12. EarlierSmaller'
  <2>1. \A t \in Token : e.token \notin earlier[t]
    BY <1>1 DEF EarlierSmaller
  <2>2. \A q \in passes : q.token \in earlier[e.token] => q.sequence < e.sequence
    BY <1>1 DEF EarlierSmaller
  <2>3. \A p \in passes' : p.token \in Token
    BY <1>1, <1>3, <1>9 DEF Pass
  <2>4. \A p, q \in passes' : q.token \in earlier[p.token] => q.sequence < p.sequence
    BY <1>3, <2>1, <2>2, <2>3 DEF EarlierSmaller
  <2>5. \A f \in Client : registering'[f] # None =>
          registering'[f] = registering[f] /\ registering[f] # None /\ registering[f] \in Pass
    BY <1>5 DEF TypeOK
  <2>6. \A f \in Client : registering'[f] # None =>
          /\ \A t \in Token : registering'[f].token \notin earlier[t]
          /\ registering'[f].sequence # 0 =>
               \A q \in passes' : q.token \in earlier[registering'[f].token] =>
                                    q.sequence < registering'[f].sequence
    BY <1>3, <2>1, <2>5 DEF EarlierSmaller, Pass
  <2>7. QED
    BY <1>2, <2>4, <2>6 DEF EarlierSmaller
<1>13. QED
  BY <1>6, <1>7, <1>8, <1>10, <1>11, <1>12

\* Removing or disabling entries disturbs neither registrations in progress
\* nor the order of the entries that stay.
LEMMA ShrinkInv ==
  ASSUME TypeOK, EntriesDistinct, PendingFresh, EarlierSmaller,
         \A p \in passes' : \E q \in passes : q.token = p.token /\ q.sequence = p.sequence,
         NEW gone \in SUBSET Live, retired' = retired \cup gone,
         Live' = Live \ gone,
         UNCHANGED <<nextToken, nextSequence, registering, earlier>>
  PROVE  /\ PendingFresh' /\ EarlierSmaller'
         /\ \A p \in passes' : p.token < nextToken' /\ p.sequence \in 1 .. nextSequence' - 1
         /\ \A t \in retired' : t < nextToken' /\ t \notin Live'
<1>1. \A t \in Live : \E p \in passes : p.token = t
  BY DEF Live, Tokens, Enabled
<1>2. PendingFresh'
  BY <1>1 DEF PendingFresh
<1>3. EarlierSmaller'
  <2>1. \A p, q \in passes' : q.token \in earlier[p.token] => q.sequence < p.sequence
    <3> SUFFICES ASSUME NEW p \in passes', NEW q \in passes', q.token \in earlier[p.token]
                 PROVE  q.sequence < p.sequence
      OBVIOUS
    <3>1. PICK p1 \in passes : p1.token = p.token /\ p1.sequence = p.sequence
      OBVIOUS
    <3>2. PICK q1 \in passes : q1.token = q.token /\ q1.sequence = q.sequence
      OBVIOUS
    <3>3. QED
      BY <3>1, <3>2 DEF EarlierSmaller
  <2>2. QED
    BY <2>1 DEF EarlierSmaller
<1>4. \A p \in passes' : p.token < nextToken' /\ p.sequence \in 1 .. nextSequence' - 1
  BY DEF EntriesDistinct
<1>5. \A t \in retired' : t < nextToken' /\ t \notin Live'
  BY <1>1 DEF EntriesDistinct
<1>6. QED
  BY <1>2, <1>3, <1>4, <1>5

\* Unregistration lowers the count exactly when the entry was enabled, and
\* no frame is being recorded.
LEMMA UnregisterReturnInv ==
  ASSUME IInv, NEW c \in Client, UnregisterReturn(c)
  PROVE  IInv'
<1> USE DEF IInv, PassInv
<1> DEFINE gone == Removed(unregistering[c])
           retiring == Tokens(gone \cap Enabled)
<1>1. UNCHANGED <<nextToken, nextSequence, registering, cs, frame, recording, destroyed, earlier>>
  BY DEF UnregisterReturn, csVars
<1>2. /\ passes' = passes \ gone
      /\ passCount' = passCount - Cardinality(gone \cap Enabled)
      /\ retired' = retired \cup retiring
      /\ unregistering' = [unregistering EXCEPT ![c] = None]
      /\ cs # "recording"
  BY DEF UnregisterReturn, Retire
<1>3. Enabled' = Enabled \ gone
  BY <1>2 DEF Enabled
<1>4. retiring \in SUBSET Live /\ Live' = Live \ retiring
  <2>1. \A p, q \in Enabled : p.token = q.token => (p \in gone <=> q \in gone)
    BY DEF Enabled, Removed
  <2>2. QED
    BY <1>3, <2>1 DEF Live, Tokens
<1>5. /\ IsFiniteSet(Enabled \ gone)
      /\ Cardinality(gone \cap Enabled) \in Int
      /\ Cardinality(Enabled \ gone) = Cardinality(Enabled) - Cardinality(gone \cap Enabled)
  BY RemovedEnabled
<1>6. CountExact' /\ IsFiniteSet(Enabled)'
  <2>1. Cardinality(Enabled') = Cardinality(Enabled \ gone) /\ IsFiniteSet(Enabled')
    BY <1>3, <1>5, Zenon
  <2>2. QED
    BY <2>1, <1>2, <1>5 DEF CountExact
<1>7. TypeOK'
  <2>1. passCount' \in Int
    BY <1>2, <1>5 DEF TypeOK
  <2>2. passes' \subseteq Pass /\ retired' \subseteq Token
    BY <1>2 DEF TypeOK, Enabled, Tokens, Pass
  <2>3. QED
    BY <1>1, <1>2, <2>1, <2>2 DEF TypeOK
<1>8. FrameLive'
  BY <1>1, <1>2 DEF FrameLive
<1>9. /\ PendingFresh' /\ EarlierSmaller'
      /\ \A p \in passes' : p.token < nextToken' /\ p.sequence \in 1 .. nextSequence' - 1
      /\ \A t \in retired' : t < nextToken' /\ t \notin Live'
  BY <1>1, <1>2, <1>4, ShrinkInv
<1>10. EntriesDistinct'
  BY <1>2, <1>9 DEF EntriesDistinct
<1>11. QED
  BY <1>6, <1>7, <1>8, <1>9, <1>10

\* The device's end retires every live pass while no frame is recorded.
LEMMA DestroyDeviceInv ==
  ASSUME IInv, DestroyDevice
  PROVE  IInv'
<1> USE DEF IInv, PassInv
<1>1. UNCHANGED <<nextToken, nextSequence, registering, unregistering, cs, frame, recording, earlier>>
  BY DEF DestroyDevice, csVars, clients
<1>2. passes' = {} /\ passCount' = 0 /\ retired' = retired \cup Live /\ destroyed' = TRUE /\ cs # "recording"
  BY DEF DestroyDevice, Retire
<1>3. Enabled' = {} /\ Live' = {}
  BY <1>2 DEF Enabled, Live, Tokens
<1>4. CountExact' /\ IsFiniteSet(Enabled)'
  <2>1. Cardinality(Enabled') = 0 /\ IsFiniteSet(Enabled')
    BY <1>3, FS_EmptySet, Zenon
  <2>2. QED
    BY <2>1, <1>2 DEF CountExact
<1>5. TypeOK'
  <2>1. Live \subseteq Token
    BY DEF TypeOK, Live, Enabled, Tokens, Pass
  <2>2. passes' \subseteq Pass /\ retired' \subseteq Token /\ passCount' \in Int
    BY <1>2, <2>1 DEF TypeOK
  <2>3. QED
    BY <1>1, <1>2, <2>2 DEF TypeOK
<1>6. FrameLive'
  BY <1>1, <1>2 DEF FrameLive
<1>7. /\ PendingFresh' /\ EarlierSmaller'
      /\ \A p \in passes' : p.token < nextToken' /\ p.sequence \in 1 .. nextSequence' - 1
      /\ \A t \in retired' : t < nextToken' /\ t \notin Live'
  BY <1>1, <1>2, <1>3, ShrinkInv
<1>8. EntriesDistinct'
  BY <1>2, <1>7 DEF EntriesDistinct
<1>9. QED
  BY <1>4, <1>5, <1>6, <1>7, <1>8

\* A failing callback disables its own entry and no other.
LEMMA CallbackFailsInv ==
  ASSUME IInv, CallbackFails
  PROVE  IInv'
<1> USE DEF IInv, PassInv
<1> DEFINE r == recording
           off == [r EXCEPT !.enabled = FALSE]
<1>1. UNCHANGED <<nextToken, nextSequence, registering, unregistering, cs, frame, destroyed, earlier>>
  BY DEF CallbackFails, clients
<1>2. r # None /\ recording' = None
  BY DEF CallbackFails
<1>3. Removed(r.token) = {r} /\ r \in Enabled /\ r \in Pass /\ r \in passes /\ r \notin frame
  BY <1>2, RecordingAlone DEF TypeOK, FrameLive, Enabled
<1>4. /\ off \in Pass /\ ~off.enabled
      /\ off.token = r.token /\ off.sequence = r.sequence
  BY <1>3 DEF Pass
<1>5. \A p \in passes : p.token = r.token => p = r
  BY <1>3 DEF Removed
<1>6. passes' = (passes \ {r}) \cup {off}
  <2>1. passes' = {IF p.token = r.token THEN [p EXCEPT !.enabled = FALSE] ELSE p : p \in passes}
    BY DEF CallbackFails
  <2>2. QED
    BY <2>1, <1>3, <1>5
<1>7. Removed(r.token) \cap Enabled = {r}
  BY <1>3
<1>8. Cardinality(Removed(r.token) \cap Enabled) = 1 /\ Tokens(Removed(r.token) \cap Enabled) = {r.token}
  <2>1. Cardinality({r}) = 1 /\ Tokens({r}) = {r.token}
    BY FS_Singleton DEF Tokens
  <2>2. QED
    BY <1>7, <2>1, Zenon
<1>9. passCount' = passCount - 1 /\ retired' = retired \cup {r.token}
  BY <1>8 DEF CallbackFails, Retire
<1>10. Enabled' = Enabled \ {r}
  BY <1>4, <1>6 DEF Enabled
<1>11. {r.token} \in SUBSET Live /\ Live' = Live \ {r.token}
  BY <1>3, <1>5, <1>10 DEF Live, Tokens, Enabled
<1>12. CountExact' /\ IsFiniteSet(Enabled)'
  <2>1. IsFiniteSet(Enabled \ {r}) /\ Cardinality(Enabled \ {r}) = Cardinality(Enabled) - 1
    BY <1>3, FS_RemoveElement
  <2>2. Cardinality(Enabled') = Cardinality(Enabled) - 1 /\ IsFiniteSet(Enabled')
    BY <2>1, <1>10, Zenon
  <2>3. QED
    BY <2>2, <1>9 DEF CountExact
<1>13. TypeOK'
  <2>1. passes' \subseteq Pass
    BY <1>4, <1>6 DEF TypeOK
  <2>2. retired' \subseteq Token
    BY <1>3, <1>9 DEF TypeOK, Pass
  <2>3. passCount' \in Int
    BY <1>9 DEF TypeOK
  <2>4. QED
    BY <1>1, <1>2, <2>1, <2>2, <2>3 DEF TypeOK
<1>14. FrameLive'
  BY <1>1, <1>2, <1>3, <1>10 DEF FrameLive
<1>15. \A p \in passes' : \E q \in passes : q.token = p.token /\ q.sequence = p.sequence
  BY <1>3, <1>4, <1>6
<1>16. /\ PendingFresh' /\ EarlierSmaller'
       /\ \A p \in passes' : p.token < nextToken' /\ p.sequence \in 1 .. nextSequence' - 1
       /\ \A t \in retired' : t < nextToken' /\ t \notin Live'
  BY <1>1, <1>9, <1>11, <1>15, ShrinkInv
<1>17. \A p, q \in passes' : p.token = q.token \/ p.sequence = q.sequence => p = q
  <2>1. \A p, q \in passes : p.token = q.token \/ p.sequence = q.sequence => p = q
    BY DEF EntriesDistinct
  <2>2. \A p \in passes \ {r} : p.token # off.token /\ p.sequence # off.sequence
    BY <1>3, <1>4, <2>1
  <2>3. QED
    BY <1>6, <2>1, <2>2
<1>18. EntriesDistinct'
  BY <1>16, <1>17 DEF EntriesDistinct
<1>19. QED
  BY <1>12, <1>13, <1>14, <1>16, <1>18

\* The other steps of the CS thread move it and its snapshot, nothing else.
LEMMA CsInv ==
  ASSUME IInv, UNCHANGED <<shared, clients, history>>,
         \/ CheckPasses \/ TakeSnapshot \/ CallbackReturns \/ EndFrame
         \/ \E p \in frame : InvokePass(p)
  PROVE  IInv'
<1> USE DEF IInv, PassInv, shared, clients, history
<1>1. Enabled' = Enabled /\ Live' = Live
  BY DEF Enabled, Live, Tokens
<1>2. TypeOK'
  <2>1. CASE CheckPasses
    BY <2>1 DEF CheckPasses, TypeOK
  <2>2. CASE TakeSnapshot
    BY <2>2 DEF TakeSnapshot, TypeOK, Enabled
  <2>3. CASE CallbackReturns
    BY <2>3 DEF CallbackReturns, TypeOK
  <2>4. CASE EndFrame
    BY <2>4 DEF EndFrame, TypeOK
  <2>5. ASSUME NEW p \in frame, InvokePass(p) PROVE TypeOK'
    BY <2>5 DEF InvokePass, TypeOK
  <2>6. QED
    BY <2>1, <2>2, <2>3, <2>4, <2>5
<1>3. FrameLive'
  <2>1. CASE CheckPasses
    BY <1>1, <2>1 DEF CheckPasses, FrameLive
  <2>2. CASE TakeSnapshot
    BY <1>1, <2>2 DEF TakeSnapshot, FrameLive
  <2>3. CASE CallbackReturns
    BY <1>1, <2>3 DEF CallbackReturns, FrameLive
  <2>4. CASE EndFrame
    BY <1>1, <2>4 DEF EndFrame, FrameLive
  <2>5. ASSUME NEW p \in frame, InvokePass(p) PROVE FrameLive'
    BY <1>1, <2>5 DEF InvokePass, FrameLive
  <2>6. QED
    BY <2>1, <2>2, <2>3, <2>4, <2>5
<1>4. CountExact' /\ IsFiniteSet(Enabled)'
  BY <1>1 DEF CountExact
<1>5. EntriesDistinct' /\ PendingFresh' /\ EarlierSmaller'
  BY <1>1 DEF EntriesDistinct, PendingFresh, EarlierSmaller
<1>6. QED
  BY <1>2, <1>3, <1>4, <1>5

\* PassInv is inductive.
LEMMA NextInv == IInv /\ [Next]_vars => IInv'
<1> SUFFICES ASSUME IInv, [Next]_vars PROVE IInv'
  OBVIOUS
<1>1. ASSUME NEW c \in Client, NEW priority \in Priority, DrawToken(c, priority) PROVE IInv'
  BY <1>1, DrawTokenInv
<1>2. ASSUME NEW c \in Client, DrawSequence(c) PROVE IInv'
  BY <1>2, DrawSequenceInv
<1>3. ASSUME NEW c \in Client, InsertPass(c) PROVE IInv'
  BY <1>3, InsertPassInv
<1>4. ASSUME NEW c \in Client, NEW t \in 1 .. nextToken - 1, UnregisterCall(c, t) PROVE IInv'
  <2>1. UNCHANGED <<shared, registering, csVars, history>>
    BY <1>4 DEF UnregisterCall
  <2>2. Enabled' = Enabled /\ Live' = Live
    BY <2>1 DEF shared, Enabled, Live, Tokens
  <2>3. t \in Token
    BY DEF IInv, PassInv, TypeOK
  <2>4. TypeOK'
    BY <1>4, <2>1, <2>3 DEF UnregisterCall, IInv, PassInv, TypeOK, shared, csVars, history
  <2>5. /\ CountExact' /\ IsFiniteSet(Enabled)' /\ EntriesDistinct'
        /\ PendingFresh' /\ FrameLive' /\ EarlierSmaller'
    BY <2>1, <2>2 DEF IInv, PassInv, CountExact, EntriesDistinct, PendingFresh, FrameLive,
       EarlierSmaller, shared, csVars, history
  <2>6. QED
    BY <2>4, <2>5 DEF IInv, PassInv
<1>5. ASSUME NEW c \in Client, UnregisterReturn(c) PROVE IInv'
  BY <1>5, UnregisterReturnInv
<1>6. CASE DestroyDevice
  BY <1>6, DestroyDeviceInv
<1>7. CASE CallbackFails
  BY <1>7, CallbackFailsInv
<1>8. CASE \/ CheckPasses \/ TakeSnapshot \/ CallbackReturns \/ EndFrame
           \/ \E p \in frame : InvokePass(p)
  <2>1. UNCHANGED <<shared, clients, history>>
    BY <1>8 DEF CheckPasses, TakeSnapshot, CallbackReturns, EndFrame, InvokePass
  <2>2. QED
    BY <1>8, <2>1, CsInv
<1>9. CASE UNCHANGED vars
  <2>1. Enabled' = Enabled /\ Live' = Live
    BY <1>9 DEF vars, shared, Enabled, Live, Tokens
  <2>2. QED
    BY <1>9, <2>1 DEF IInv, PassInv, TypeOK, CountExact, EntriesDistinct, PendingFresh, FrameLive,
       EarlierSmaller, vars, shared, clients, csVars, history
<1>10. QED
  BY <1>1, <1>2, <1>3, <1>4, <1>5, <1>6, <1>7, <1>8, <1>9 DEF Next, Register, RunVulkanPasses

-----------------------------------------------------------------------------
(* The theorems. *)

\* What is left of a frame's snapshot matches the registry in every reachable
\* state of RunVulkanPasses, and the tokens, sequences and types are right.
THEOREM PassInvInductive == Spec => []PassInv
<1>1. IInv => PassInv
  BY DEF IInv
<1>2. QED
  BY <1>1, InitInv, NextInv, PTL DEF Spec

\* Passes, tokens, frames and calls are always of their types: a token is
\* drawn before it is used.  Code: RegisterVulkanPass, UnregisterVulkanPass.
THEOREM TypeCorrect == Spec => []TypeOK
<1>1. PassInv => TypeOK
  BY DEF PassInv
<1>2. QED
  BY <1>1, PassInvInductive, PTL

\* m_passCount, read without a lock, always counts the enabled entries.
THEOREM CountCorrect == Spec => []CountExact
<1>1. PassInv => CountExact
  BY DEF PassInv
<1>2. QED
  BY <1>1, PassInvInductive, PTL

\* RunVulkanPasses calls passes by priority, and equal priorities in the order
\* their registrations were made.
THEOREM OrderCorrect == Spec => OrderKept
<1> DEFINE Ordered ==
      recording = None /\ recording' # None =>
        \A q \in frame' :
          /\ q.priority >= recording'.priority
          /\ q.priority = recording'.priority => q.token \notin earlier[recording'.token]
<1>1. PassInv /\ [Next]_vars => [Ordered]_vars
  <2> SUFFICES ASSUME PassInv, Next, recording = None, recording' # None
               PROVE  Ordered
    BY DEF vars
  <2>1. PICK p \in frame : InvokePass(p)
    <3>1. ASSUME UNCHANGED csVars PROVE FALSE
      BY <3>1 DEF csVars
    <3>2. ~\E c \in Client : \E priority \in Priority : DrawToken(c, priority)
      BY <3>1 DEF DrawToken
    <3>3. ~\E c \in Client : Register(c)
      BY <3>1 DEF Register, DrawSequence, InsertPass
    <3>4. ~\E c \in Client : \E t \in 1 .. nextToken - 1 : UnregisterCall(c, t)
      BY <3>1 DEF UnregisterCall
    <3>5. ~\E c \in Client : UnregisterReturn(c)
      BY <3>1 DEF UnregisterReturn
    <3>6. ~DestroyDevice
      BY <3>1 DEF DestroyDevice
    <3>7. RunVulkanPasses
      BY <3>2, <3>3, <3>4, <3>5, <3>6 DEF Next
    <3>8. QED
      BY <3>7 DEF RunVulkanPasses, CheckPasses, TakeSnapshot, CallbackReturns, CallbackFails, EndFrame
  <2>2. /\ recording' = p /\ frame' = frame \ {p}
        /\ \A q \in frame : ~Before(q, p)
    BY <2>1 DEF InvokePass
  <2>3. \A q \in frame : q \in passes /\ q \in Pass /\ q.priority \in Int /\ q.sequence \in Int
    <3>1. frame \subseteq Enabled /\ passes \subseteq Pass
      BY DEF PassInv, FrameLive, TypeOK
    <3>2. frame \subseteq passes
      BY <3>1 DEF Enabled
    <3>3. \A q \in Pass : q.priority \in Int /\ q.sequence \in Int
      <4> TAKE q \in Pass
      <4>1. q.priority \in Priority /\ q.sequence \in 0 .. MaxToken
        BY DEF Pass
      <4>2. q.priority \in Int
        BY <4>1, PriorityAssumption, Zenon
      <4>3. q.sequence \in Int
        BY <4>1
      <4>4. QED
        BY <4>2, <4>3
    <3>4. QED
      BY <3>1, <3>2, <3>3
  <2>4. \A q \in frame : q.token \in earlier[p.token] => q.sequence < p.sequence
    <3>1. \A u, q \in passes : q.token \in earlier[u.token] => q.sequence < u.sequence
      BY DEF PassInv, EarlierSmaller
    <3>2. QED
      BY <2>3, <3>1
  <2>5. QED
    BY <2>2, <2>3, <2>4 DEF Before
<1>2. QED
  BY <1>1, PassInvInductive, PTL DEF Spec, OrderKept

\* The registry implements PassContract: a callback that RunVulkanPasses calls
\* belongs to a pass that is live, and stays live while it runs.
THEOREM ContractCorrect == Spec => RefinesContract
<1>1. Init => Contract!Init
  BY DEF Init, Contract!Init, Live, Tokens, Enabled
<1>2. IInv /\ [Next]_vars => [Contract!Next]_(Contract!vars)
  <2> SUFFICES ASSUME IInv, [Next]_vars
               PROVE  Contract!Next \/ UNCHANGED Contract!vars
    OBVIOUS
  <2> USE DEF IInv, PassInv
  <2> DEFINE run == IF recording = None THEN None ELSE recording.token
  <2>1. recording # None => recording \in Enabled /\ recording.token \in Token /\ recording.token # None
    BY DEF TypeOK, FrameLive, Pass
  <2>2. Live \subseteq Token
    BY DEF Live, Tokens, Enabled, TypeOK, Pass
  <2>3. ASSUME UNCHANGED <<passes, recording, retired>> PROVE UNCHANGED Contract!vars
    BY <2>3 DEF Contract!vars, Live, Tokens, Enabled
  <2>4. ASSUME NEW c \in Client, NEW priority \in Priority, DrawToken(c, priority)
        PROVE  UNCHANGED Contract!vars
    BY <2>3, <2>4 DEF DrawToken, csVars
  <2>5. ASSUME NEW c \in Client, DrawSequence(c) PROVE UNCHANGED Contract!vars
    BY <2>3, <2>5 DEF DrawSequence, csVars, history
  <2>6. ASSUME NEW c \in Client, InsertPass(c)
        PROVE  \E t \in Token : Contract!Add(t)
    <3> DEFINE e == registering[c]
    <3>1. /\ e \in Pass /\ e.enabled /\ e.token \in Token
          /\ e.token \notin Live /\ e.token \notin retired
      BY <2>6 DEF InsertPass, PendingFresh, TypeOK, Pass, Live, Tokens, Enabled
    <3>2. passes' = passes \cup {e} /\ UNCHANGED <<recording, retired>>
      BY <2>6 DEF InsertPass, csVars, history
    <3>3. Live' = Live \cup {e.token}
      BY <3>1, <3>2 DEF Live, Tokens, Enabled
    <3>4. Contract!Add(e.token)
      BY <3>1, <3>2, <3>3 DEF Contract!Add
    <3>5. QED
      BY <3>1, <3>4
  <2>7. ASSUME NEW c \in Client, NEW t \in 1 .. nextToken - 1, UnregisterCall(c, t)
        PROVE  UNCHANGED Contract!vars
    BY <2>3, <2>7 DEF UnregisterCall, shared, csVars, history
  <2>8. ASSUME NEW c \in Client, UnregisterReturn(c)
        PROVE  \E gone \in SUBSET Token : Contract!Remove(gone)
    <3> DEFINE removed == Removed(unregistering[c])
               gone == Tokens(removed \cap Enabled)
    <3>1. /\ passes' = passes \ removed /\ retired' = retired \cup gone
          /\ recording' = recording /\ recording = None
      BY <2>8 DEF UnregisterReturn, Retire, csVars, FrameLive
    <3>2. Enabled' = Enabled \ removed
      BY <3>1 DEF Enabled
    <3>3. \A p, q \in Enabled : p.token = q.token => (p \in removed <=> q \in removed)
      BY DEF Enabled, Removed
    <3>4. gone \subseteq Live /\ Live' = Live \ gone
      BY <3>2, <3>3 DEF Live, Tokens
    <3>5. Contract!Remove(gone)
      BY <3>1, <3>4 DEF Contract!Remove
    <3>6. QED
      BY <3>4, <3>5, <2>2
  <2>9. ASSUME DestroyDevice PROVE \E gone \in SUBSET Token : Contract!Remove(gone)
    <3>1. /\ Live' = {} /\ retired' = retired \cup Live
          /\ recording' = recording /\ recording = None
      BY <2>9 DEF DestroyDevice, Retire, csVars, FrameLive, Live, Tokens, Enabled
    <3>2. Contract!Remove(Live)
      BY <3>1 DEF Contract!Remove
    <3>3. QED
      BY <3>2, <2>2
  <2>10. CASE CheckPasses \/ TakeSnapshot \/ EndFrame
    BY <2>3, <2>10 DEF CheckPasses, TakeSnapshot, EndFrame, shared, history
  <2>11. ASSUME NEW p \in frame, InvokePass(p) PROVE \E t \in Token : Contract!Run(t)
    <3>1. /\ recording = None /\ recording' = p
          /\ UNCHANGED <<passes, retired>>
      BY <2>11 DEF InvokePass, shared, history
    <3>2. p \in Pass /\ p \in Enabled /\ p.token \in Token
      BY DEF TypeOK, FrameLive, Pass
    <3>3. p.token \in Live /\ Live' = Live /\ p # None
      BY <3>1, <3>2 DEF Live, Tokens, Enabled
    <3>4. Contract!Run(p.token)
      BY <3>1, <3>3 DEF Contract!Run
    <3>5. QED
      BY <3>2, <3>4
  <2>12. CASE CallbackReturns
    <3>1. /\ recording # None /\ recording' = None
          /\ Live' = Live /\ retired' = retired
      BY <2>12 DEF CallbackReturns, shared, history, Live, Tokens, Enabled
    <3>2. Contract!Finish
      BY <2>1, <3>1 DEF Contract!Finish
    <3>3. QED
      BY <3>2 DEF Contract!Next
  <2>13. CASE CallbackFails
    <3> DEFINE r == recording
               off == [r EXCEPT !.enabled = FALSE]
    <3>1. r # None /\ recording' = None
      BY <2>13 DEF CallbackFails
    <3>2. Removed(r.token) = {r} /\ r \in Enabled
      BY <3>1, RecordingAlone
    <3>3. Removed(r.token) \cap Enabled = {r} /\ Tokens({r}) = {r.token}
      BY <3>2 DEF Tokens
    <3>4. retired' = retired \cup {r.token}
      BY <2>13, <3>3 DEF CallbackFails, Retire
    <3>5. passes' = {IF p.token = r.token THEN [p EXCEPT !.enabled = FALSE] ELSE p : p \in passes}
      BY <2>13 DEF CallbackFails
    <3>6. \A p \in passes : p.token = r.token => p = r
      BY <3>2 DEF Removed
    <3>7. r \in Pass /\ r \in passes
      BY <3>2 DEF TypeOK, Enabled
    <3>8. off.token = r.token /\ ~off.enabled
      BY <3>7 DEF Pass
    <3>9. passes' = (passes \ {r}) \cup {off}
      BY <3>5, <3>6, <3>7
    <3>10. Enabled' = Enabled \ {r}
      BY <3>8, <3>9 DEF Enabled
    <3>11. Live' = Live \ {r.token}
      BY <3>2, <3>6, <3>10 DEF Live, Tokens, Enabled
    <3>12. Contract!Fail
      BY <2>1, <3>1, <3>4, <3>11 DEF Contract!Fail
    <3>13. QED
      BY <3>12 DEF Contract!Next
  <2>14. CASE UNCHANGED vars
    BY <2>3, <2>14 DEF vars, shared, csVars, history
  <2>15. QED
    BY <2>4, <2>5, <2>6, <2>7, <2>8, <2>9, <2>10, <2>11, <2>12, <2>13, <2>14
       DEF Next, Register, RunVulkanPasses, Contract!Next
<1>3. QED
  BY <1>1, <1>2, InitInv, NextInv, PTL DEF Spec, RefinesContract, Contract!Spec


=============================================================================
