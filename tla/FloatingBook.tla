---------------------------- MODULE FloatingBook ----------------------------
(***************************************************************************)
(* The floating book: a row for each unpaired device the scan of the SRP      *)
(* server met, stamped with the router's clock, the oldest row dropped when    *)
(* the book is full, saved to NVS between two scans.  The scan and the save   *)
(* are one task; the tasks of the clock run alongside.                        *)
(***************************************************************************)
EXTENDS WallClock, Sequences

CONSTANTS
  Unpaired,   \* EUI-64s, canonical form
  Fields,     \* the other columns of a row that a device announces
  BookRows    \* BOS_FLOATING_MAX_ROWS

ASSUME FloatingAssumption == BookRows \in Nat \ {0}

VARIABLES
  floating,   \* s_rows
  dirty,      \* s_dirty
  flashed,    \* the blob in NVS
  keeper,     \* the scan task: scanning, stamping a new row, or saving
  blob,       \* the rows it is saving
  lost,       \* history: a failed save could not set s_dirty again
  unread      \* history: the start could not read the saved rows, nor was any saved since

bookVars == <<floating, dirty, flashed, keeper, blob, lost, unread>>
floatingVars == <<clockVars, bookVars>>

RowOf(e) == {i \in DOMAIN floating : floating[i].eui = e}

\* Ring semantics: the oldest drops first.
Ring(rs, r) == Append(IF Len(rs) = BookRows THEN Tail(rs) ELSE rs, r)

-----------------------------------------------------------------------------
(* bos_floating_book_touch.  A device that is paired, or has no EUI-64, is not *)
(* touched at all; a touch that does not get the lock changes nothing.         *)

\* update_field on every column; the stamp stays.
TouchKnown(e, f) ==
  /\ keeper = "scan"
  /\ \E i \in RowOf(e) :
       /\ floating' = [floating EXCEPT ![i].fields = f]
       /\ dirty' = (dirty \/ floating[i].fields # f)
  /\ UNCHANGED <<flashed, keeper, blob, lost, unread>>

\* stamp_discovered_at reads the time first ...
TouchNew(e, f) ==
  /\ keeper = "scan" /\ RowOf(e) = {}
  /\ floating' = Ring(floating, [eui |-> e, fields |-> f, at |-> clock, synced |-> FALSE])
  /\ keeper' = "stamp"
  /\ UNCHANGED <<dirty, flashed, blob, lost, unread>>

\* ... and whether the clock is synced after that.
TouchStamps ==
  /\ keeper = "stamp"
  /\ floating' = [floating EXCEPT ![Len(floating)].synced = IsSynced]
  /\ dirty' = TRUE /\ keeper' = "scan"
  /\ UNCHANGED <<flashed, blob, lost, unread>>

-----------------------------------------------------------------------------
(* bos_floating_book_persist_if_dirty. *)

PersistTakes ==
  /\ keeper = "scan" /\ dirty
  /\ blob' = floating /\ dirty' = FALSE /\ keeper' = "save"
  /\ UNCHANGED <<floating, flashed, lost, unread>>

PersistWrites ==
  /\ keeper = "save"
  /\ flashed' = blob /\ blob' = <<>> /\ keeper' = "scan" /\ lost' = FALSE
  /\ unread' = FALSE
  /\ UNCHANGED <<floating, dirty>>

\* Mutant: what could not be saved is not tried again.
Redirty_Never == UNCHANGED <<dirty, lost>>

\* s_dirty is set again, if the lock can be had within half a second.
Redirty ==
  \/ dirty' = TRUE /\ UNCHANGED lost
  \/ lost' = TRUE /\ UNCHANGED dirty

PersistRefused ==
  /\ keeper = "save"
  /\ Redirty /\ blob' = <<>> /\ keeper' = "scan"
  /\ flashed' \in {flashed, blob}   \* the write or its commit
  /\ UNCHANGED <<floating, unread>>

\* load_from_nvs; whatever keeps it from the rows leaves the book empty and clean.
BookReloads ==
  /\ \/ floating' = flashed /\ unread' = FALSE
     \/ floating' = <<>> /\ unread' = TRUE
  /\ dirty' = FALSE /\ lost' = FALSE
  /\ keeper' = "scan" /\ blob' = <<>> /\ UNCHANGED flashed

BookInit ==
  /\ floating = <<>> /\ dirty = FALSE /\ flashed = <<>>
  /\ keeper = "scan" /\ blob = <<>> /\ lost = FALSE /\ unread = FALSE

BookStep ==
  \/ \E e \in Unpaired, f \in Fields : TouchKnown(e, f) \/ TouchNew(e, f)
  \/ TouchStamps \/ PersistTakes \/ PersistWrites \/ PersistRefused

FloatingInit == ClockInit /\ BookInit

FloatingNext ==
  \/ ClockStep /\ UNCHANGED bookVars
  \/ BookStep /\ UNCHANGED clockVars
  \/ ClockRestarts /\ BookReloads

-----------------------------------------------------------------------------
FloatingRow == [eui : Unpaired, fields : Fields, at : Times, synced : BOOLEAN]

FloatingTypeOK ==
  /\ ClockTypeOK
  /\ \A b \in {floating, flashed, blob} :
       Len(b) <= BookRows /\ \A i \in DOMAIN b : b[i] \in FloatingRow
  /\ keeper \in {"scan", "stamp", "save"} /\ dirty \in BOOLEAN /\ lost \in BOOLEAN
  /\ unread \in BOOLEAN

\* Between two scans nothing the book gained or changed is left unsaved with
\* nobody to save it: a save that failed is due again, however the scans, the
\* failures and the restarts fall, but for one that could not have the lock.  NVS
\* then holds the book, or the book is empty because the start could not read it.
\* (bos_floating_book_persist_if_dirty, load_from_nvs.)
BookIsSaved ==
  keeper = "scan" /\ ~dirty /\ ~lost => flashed = floating \/ (unread /\ floating = <<>>)

\* What was saved stays saved until newer rows push it out of the ring.  After a
\* start that could not read it the first row found is saved in its place.
SavedIsKept ==
  [][\A i \in DOMAIN flashed : Len(flashed') < BookRows =>
       \E j \in DOMAIN flashed' : flashed'[j].eui = flashed[i].eui]_floatingVars

\* bos_time.h: a clock that is not synced is marked so, "so a pre-sync discovery
\* stamp cannot masquerade as real time".  The time is read before the mark.
\* (stamp_discovered_at, bos_floating_book.c.)
StampIsTrue ==
  \A i \in DOMAIN floating : floating[i].synced => floating[i].at \in Setters
=============================================================================
