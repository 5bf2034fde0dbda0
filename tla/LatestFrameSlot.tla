--------------------------- MODULE LatestFrameSlot ---------------------------
(***************************************************************************)
(* What the frame-broadcast channel promises its readers, stated without  *)
(* the mutex, the events, the mapping or the steps of Create and           *)
(* WriteFrame: a single "latest frame" register that a producer publishes *)
(* into, and that every attached reader samples, each keeping its own      *)
(* last-seen frame number.                                                 *)
(*                                                                         *)
(*  - A read hands out the latest frame together with the payload that    *)
(*    was published with it (no torn frame), and only when it is newer    *)
(*    than what this reader saw since it attached.                         *)
(*  - Attaching resets the reader's last-seen number to 0.                 *)
(*  - When the producer is gone and nobody is attached any more, the       *)
(*    register may vanish (the named objects are destroyed).              *)
(***************************************************************************)
EXTENDS Naturals

CONSTANTS
  Readers,    \* the reading processes
  MaxFrame,   \* bound on the frame numbers published
  Payloads    \* the payloads a frame may carry (0: none)

VARIABLES
  live,       \* a producer has opened the channel and not closed it
  latest,     \* number of the latest published frame (0: none yet)
  payload,    \* payload published with frame `latest`
  attached,   \* readers currently attached
  seen,       \* per reader: last frame number it was handed
  out         \* per reader: the last frame it was handed

slotVars == <<live, latest, payload, attached, seen, out>>

NoFrame == [frame |-> 0, data |-> 0]

Init ==
  /\ live = FALSE /\ latest = 0 /\ payload = 0 /\ attached = {}
  /\ seen = [r \in Readers |-> 0]
  /\ out = [r \in Readers |-> NoFrame]

\* The register vanishes together with the named objects.
Vanishes == latest' = 0 /\ payload' = 0

Open ==
  /\ ~live
  /\ live' = TRUE /\ Vanishes
  /\ UNCHANGED <<attached, seen, out>>

Publish ==
  /\ live /\ latest < MaxFrame
  /\ latest' = latest + 1
  /\ payload' \in Payloads
  /\ UNCHANGED <<live, attached, seen, out>>

\* The producer leaves; with no reader attached the objects may go too.
Close ==
  /\ live
  /\ live' = FALSE
  /\ UNCHANGED <<latest, payload>> \/ (attached = {} /\ Vanishes)
  /\ UNCHANGED <<attached, seen, out>>

\* The last holder that is not an attached reader leaves a dead channel.
Vanish ==
  /\ ~live /\ attached = {}
  /\ Vanishes
  /\ UNCHANGED <<live, attached, seen, out>>

Attach(r) ==
  /\ r \notin attached
  /\ attached' = attached \cup {r}
  /\ seen' = [seen EXCEPT ![r] = 0]
  /\ UNCHANGED <<live, latest, payload, out>>

Detach(r) ==
  /\ r \in attached
  /\ attached' = attached \ {r}
  /\ UNCHANGED <<latest, payload>> \/ (~live /\ attached' = {} /\ Vanishes)
  /\ UNCHANGED <<live, seen, out>>

Read(r) ==
  /\ r \in attached /\ live
  /\ latest > seen[r]
  /\ seen' = [seen EXCEPT ![r] = latest]
  /\ out' = [out EXCEPT ![r] = [frame |-> latest, data |-> payload]]
  /\ UNCHANGED <<live, latest, payload, attached>>

Next ==
  \/ Open \/ Publish \/ Close \/ Vanish
  \/ \E r \in Readers : Attach(r) \/ Detach(r) \/ Read(r)

Spec == Init /\ [][Next]_slotVars

\* The type of the abstract state.
SlotTypeOK ==
  /\ live \in BOOLEAN /\ latest \in 0..MaxFrame /\ payload \in Payloads
  /\ attached \subseteq Readers
  /\ seen \in [Readers -> 0..MaxFrame]
  /\ out \in [Readers -> [frame : 0..MaxFrame, data : Payloads]]
==============================================================================
