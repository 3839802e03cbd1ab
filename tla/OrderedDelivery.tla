--------------------------- MODULE OrderedDelivery ---------------------------
(***************************************************************************)
(* What the event bus, the dispatcher and the per-source workers promise   *)
(* together, whatever channels, drain windows and catch-up passes they are *)
(* built from: an accepted event is delivered to the conversation of its   *)
(* session key at most once, in the order of acceptance, and is only ever  *)
(* thrown away after shutdown was requested.                               *)
(***************************************************************************)
EXTENDS Naturals

CONSTANTS Key,            \* session keys, one conversation each
          Event,          \* records with a field id
          KeyOf(_)        \* the session key an event belongs to

VARIABLES accepted,       \* number of events accepted so far
          pending,        \* the set of events accepted and not yet delivered
          delivered,      \* [Key -> SUBSET Event]
          stopping        \* shutdown was requested

vars == <<accepted, pending, delivered, stopping>>

Init ==
  /\ accepted = 0
  /\ pending = {}
  /\ delivered = [k \in Key |-> {}]
  /\ stopping = FALSE

(* Events are numbered in the order they are accepted. *)
Accept(e) ==
  /\ e.id = accepted + 1
  /\ accepted' = e.id
  /\ pending' = pending \cup {e}
  /\ UNCHANGED <<delivered, stopping>>

(* A batch holds the oldest undelivered events of one key, none left out. *)
OldestOf(k, batch) ==
  /\ batch # {}
  /\ \A e \in batch : KeyOf(e) = k
  /\ \A e \in batch, f \in pending \ batch : KeyOf(f) = k => e.id < f.id

Deliver(k, batch) ==
  /\ OldestOf(k, batch)
  /\ pending' = pending \ batch
  /\ delivered' = [delivered EXCEPT ![k] = @ \cup batch]
  /\ UNCHANGED <<accepted, stopping>>

Stop ==
  /\ ~stopping
  /\ stopping' = TRUE
  /\ UNCHANGED <<accepted, pending, delivered>>

(* A batch that was being put together when shutdown came is dropped. *)
Discard(k, batch) ==
  /\ stopping
  /\ OldestOf(k, batch)
  /\ pending' = pending \ batch
  /\ UNCHANGED <<accepted, delivered, stopping>>

Next ==
  \/ \E e \in Event : Accept(e)
  \/ \E k \in Key, batch \in SUBSET pending : Deliver(k, batch)
  \/ Stop
  \/ \E k \in Key, batch \in SUBSET pending : Discard(k, batch)

Spec == Init /\ [][Next]_vars
=============================================================================
