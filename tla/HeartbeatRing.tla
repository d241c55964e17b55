--------------------------- MODULE HeartbeatRing ---------------------------
(***************************************************************************)
(* The RAM ring of bos_server_reg_heartbeat.c: a fixed array, the index of   *)
(* the oldest entry and the number of entries.  Both indices are kept        *)
(* modulo the capacity; Entry numbers the entries from the oldest.           *)
(***************************************************************************)
EXTENDS Naturals

CONSTANT Cap   \* BOS_REG_HEARTBEAT_BUFFER_CAP

ASSUME CapAssumption == Cap \in Nat \ {0}

Slots == 0 .. Cap - 1

Rings == [buffer : [Slots -> Nat], head : Slots, count : 0 .. Cap]

EmptyRing == [buffer |-> [i \in Slots |-> 0], head |-> 0, count |-> 0]

Full(ring) == ring.count = Cap

Oldest(ring) == ring.buffer[ring.head]

Pop(ring) ==
  [buffer |-> ring.buffer, head |-> (ring.head + 1) % Cap, count |-> ring.count - 1]

\* A full ring loses its oldest entry.
Push(ring, entry) ==
  LET room == IF Full(ring) THEN Pop(ring) ELSE ring
      next == (room.head + room.count) % Cap
  IN  [buffer |-> [room.buffer EXCEPT ![next] = entry],
       head |-> room.head, count |-> room.count + 1]

\* The entries, oldest first, are Entry(ring, 1) to Entry(ring, ring.count).
Entry(ring, i) == ring.buffer[(ring.head + (i - 1)) % Cap]
=============================================================================
