------------------------ MODULE StateJournalHistory ------------------------
(***************************************************************************)
(* GtaSaStateJournal with history variables: what the device looked like   *)
(* when the open journal was begun, which slots a side effect overwrote    *)
(* before the journal knew them, and what each slot held when a journaled  *)
(* call first changed it.  They restrict no step; they state what a        *)
(* restore owes.                                                           *)
(***************************************************************************)
EXTENDS GtaSaStateJournal

VARIABLES
  atBegin,     \* slots and lights when the journal was begun
  overwritten, \* slots a draw or a target change wrote before they were journaled
  firstTouch   \* contents before the first captured change

history == <<atBegin, overwritten, firstTouch>>
hvars == <<vars, history>>

NoTouch == [k \in {} |-> Null]

HInit ==
  /\ Init
  /\ atBegin = None
  /\ overwritten = {}
  /\ firstTouch = NoTouch

\* What the caller asked for: everything, or what it switched capture on for.
CaptureOwed == journal # None /\ (selective => captureEnabled)

Changed == {k \in Key : key'[k] # key[k]}

\* Extends firstTouch by the slots this step changed for the first time.
Touch ==
  LET fresh == Changed \ DOMAIN firstTouch
  IN  firstTouch' = [k \in DOMAIN firstTouch \cup fresh |->
                       IF k \in fresh THEN key[k] ELSE firstTouch[k]]

Remember ==
  IF journal' = None
  THEN atBegin' = None /\ overwritten' = {} /\ firstTouch' = NoTouch
  ELSE IF journal = None
  THEN /\ atBegin' = [key |-> key, light |-> light]
       /\ UNCHANGED <<overwritten, firstTouch>>
  ELSE /\ UNCHANGED atBegin
       /\ IF SideEffect THEN overwritten' = overwritten \cup (Changed \ DOMAIN firstTouch) /\ UNCHANGED firstTouch
          ELSE /\ UNCHANGED overwritten
               /\ IF CaptureOwed THEN Touch ELSE UNCHANGED firstTouch

HNext == Next /\ Remember

HSpec == HInit /\ [][HNext]_hvars

(***************************************************************************)
(* What a restore owes the caller.                                         *)
(***************************************************************************)
\* A transaction under a full journal is invisible once restored: every slot
\* and every light is as RestoreGtaSaStateJournal's caller left it at
\* BeginGtaSaStateJournal, apart from slots a draw or a target change wrote
\* before a journaled call first changed them.
FullRestoreExact ==
  [][journal # None /\ ~selective /\ RestoreStateJournal =>
       /\ \A k \in Key \ overwritten : key'[k] = atBegin.key[k]
       /\ light' = atBegin.light]_hvars

\* Under a selective journal a slot goes back to what it held before the first
\* change made while capture was on, and a slot that was only changed while
\* capture was off (SetGtaSaStateJournalCaptureEnabled) keeps that change.  A
\* transform may be captured by a multiplication that changes nothing.
SelectiveRestoreExact ==
  [][journal # None /\ RestoreStateJournal =>
       \A k \in Key \ TransformKey :
         key'[k] = IF k \in DOMAIN firstTouch THEN firstTouch[k] ELSE key[k]]_hvars

=============================================================================
