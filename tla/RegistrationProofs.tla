------------------------- MODULE RegistrationProofs -------------------------
(***************************************************************************)
(* Proofs about Registration and its ring, for any capacity, ids, hosts,    *)
(* threshold, bounds and faults.                                            *)
(***************************************************************************)
EXTENDS Registration, FiniteSetTheorems, SequenceTheorems, TLAPS

USE CapAssumption, RegistrationAssumption

-----------------------------------------------------------------------------
(* The ring. *)

LEMMA Wrap ==
  ASSUME NEW h \in Slots, NEW k \in 0 .. Cap
  PROVE  /\ h + k < Cap => (h + k) % Cap = h + k
         /\ h + k >= Cap => (h + k) % Cap = h + k - Cap
         /\ (h + k) % Cap \in Slots
<1>1. /\ h + k < Cap => (h + k) % Cap = h + k
      /\ h + k >= Cap => (h + k) % Cap = h + k - Cap
  BY DEF Slots
<1>. QED  BY <1>1 DEF Slots

\* The slots of different entries differ, and one step wraps to the next.
LEMMA WrapApart ==
  ASSUME NEW h \in Slots, NEW j \in 0 .. Cap - 1, NEW k \in 0 .. Cap - 1, j # k
  PROVE  (h + j) % Cap # (h + k) % Cap
<1>1. j \in 0 .. Cap /\ k \in 0 .. Cap
  OBVIOUS
<1>2. /\ h + j < Cap => (h + j) % Cap = h + j
      /\ h + j >= Cap => (h + j) % Cap = h + j - Cap
  BY <1>1, Wrap
<1>3. /\ h + k < Cap => (h + k) % Cap = h + k
      /\ h + k >= Cap => (h + k) % Cap = h + k - Cap
  BY <1>1, Wrap
<1>. QED  BY <1>2, <1>3 DEF Slots

LEMMA WrapStep ==
  ASSUME NEW h \in Slots, NEW k \in 0 .. Cap - 1
  PROVE  (((h + 1) % Cap) + k) % Cap = (h + (k + 1)) % Cap
<1>. DEFINE g == (h + 1) % Cap
<1>1. g \in Slots /\ g = IF h + 1 < Cap THEN h + 1 ELSE h + 1 - Cap
  <2>1. 1 \in 0 .. Cap
    OBVIOUS
  <2>2. /\ h + 1 < Cap => (h + 1) % Cap = h + 1
        /\ h + 1 >= Cap => (h + 1) % Cap = h + 1 - Cap
        /\ (h + 1) % Cap \in Slots
    BY <2>1, Wrap
  <2>. QED  BY <2>2 DEF Slots
<1>. HIDE DEF g
<1>5. k \in 0 .. Cap
  OBVIOUS
<1>2. /\ g + k < Cap => (g + k) % Cap = g + k
      /\ g + k >= Cap => (g + k) % Cap = g + k - Cap
  BY <1>1, <1>5, Wrap
<1>3. /\ h + (k + 1) < Cap => (h + (k + 1)) % Cap = h + (k + 1)
      /\ h + (k + 1) >= Cap => (h + (k + 1)) % Cap = h + (k + 1) - Cap
  BY Wrap
<1>4. (g + k) % Cap = (h + (k + 1)) % Cap
  BY <1>1, <1>2, <1>3 DEF Slots
<1>. QED  BY <1>4 DEF g

\* Popping removes the first entry and keeps the order of the others.
LEMMA PopEntries ==
  ASSUME NEW r \in Rings, r.count > 0
  PROVE  /\ Pop(r) \in Rings /\ Pop(r).count = r.count - 1
         /\ \A i \in 1 .. r.count - 1 : Entry(Pop(r), i) = Entry(r, i + 1)
<1>1. r.head \in Slots /\ r.count \in 1 .. Cap /\ r.buffer \in [Slots -> Nat]
  BY DEF Rings
<1>2. (r.head + 1) % Cap \in Slots
  BY <1>1, Wrap
<1>3. Pop(r) = [buffer |-> r.buffer, head |-> (r.head + 1) % Cap, count |-> r.count - 1]
  BY DEF Pop
<1>4. Pop(r) \in Rings /\ Pop(r).count = r.count - 1
  BY <1>1, <1>2, <1>3 DEF Rings
<1>5. ASSUME NEW i \in 1 .. r.count - 1
      PROVE  Entry(Pop(r), i) = Entry(r, i + 1)
  <2>1. i - 1 \in 0 .. Cap - 1 /\ (i - 1) + 1 = (i + 1) - 1
    BY <1>1
  <2>2. (((r.head + 1) % Cap) + (i - 1)) % Cap = (r.head + ((i + 1) - 1)) % Cap
    BY <1>1, <2>1, WrapStep
  <2>. QED  BY <1>3, <2>2 DEF Entry
<1>. QED  BY <1>4, <1>5

\* Where there is room, an entry is appended.
LEMMA PushEntries ==
  ASSUME NEW r \in Rings, ~Full(r), NEW e \in Nat
  PROVE  /\ Push(r, e) \in Rings /\ Push(r, e).count = r.count + 1
         /\ \A i \in 1 .. r.count : Entry(Push(r, e), i) = Entry(r, i)
         /\ Entry(Push(r, e), r.count + 1) = e
<1>1. r.head \in Slots /\ r.count \in 0 .. Cap - 1 /\ r.buffer \in [Slots -> Nat]
  BY DEF Rings, Full
<1>. DEFINE at == (r.head + r.count) % Cap
<1>2. at \in Slots
  BY <1>1, Wrap
<1>3. Push(r, e) = [buffer |-> [r.buffer EXCEPT ![at] = e], head |-> r.head,
                    count |-> r.count + 1]
  BY DEF Push
<1>4. Push(r, e) \in Rings /\ Push(r, e).count = r.count + 1
  BY <1>1, <1>2, <1>3 DEF Rings
<1>5. ASSUME NEW i \in 1 .. r.count
      PROVE  Entry(Push(r, e), i) = Entry(r, i)
  <2>1. i - 1 \in 0 .. Cap - 1 /\ i - 1 \in 0 .. Cap /\ i - 1 # r.count
    BY <1>1
  <2>2. (r.head + (i - 1)) % Cap # at
    BY <1>1, <2>1, WrapApart
  <2>3. (r.head + (i - 1)) % Cap \in Slots
    BY <1>1, <2>1, Wrap
  <2>. QED  BY <1>1, <1>2, <1>3, <2>2, <2>3 DEF Entry
<1>6. Entry(Push(r, e), r.count + 1) = e
  <2>1. (r.count + 1) - 1 = r.count
    BY <1>1
  <2>. QED  BY <1>1, <1>2, <1>3, <2>1 DEF Entry
<1>. QED  BY <1>4, <1>5, <1>6

\* A full ring first loses its oldest entry.
LEMMA FullPush ==
  ASSUME NEW r \in Rings, Full(r), NEW e \in Nat
  PROVE  /\ Push(r, e) \in Rings /\ Push(r, e).count = Cap
         /\ \A i \in 1 .. Cap - 1 : Entry(Push(r, e), i) = Entry(r, i + 1)
         /\ Entry(Push(r, e), Cap) = e
<1>1. r.count = Cap /\ r.count > 0
  BY DEF Full
<1>2. /\ Pop(r) \in Rings /\ Pop(r).count = Cap - 1
      /\ \A i \in 1 .. Cap - 1 : Entry(Pop(r), i) = Entry(r, i + 1)
  BY <1>1, PopEntries
<1>3. ~Full(Pop(r))
  BY <1>2 DEF Full
<1>4. Push(r, e) = Push(Pop(r), e)
  BY <1>3 DEF Push
<1>5. /\ Push(Pop(r), e) \in Rings /\ Push(Pop(r), e).count = Cap - 1 + 1
      /\ \A i \in 1 .. Cap - 1 : Entry(Push(Pop(r), e), i) = Entry(Pop(r), i)
      /\ Entry(Push(Pop(r), e), Cap - 1 + 1) = e
  BY <1>2, <1>3, PushEntries
<1>. QED  BY <1>2, <1>4, <1>5

LEMMA OldestFirst ==
  ASSUME NEW r \in Rings
  PROVE  Oldest(r) = Entry(r, 1) /\ Oldest(r) \in Nat
<1>1. r.head \in Slots /\ r.buffer \in [Slots -> Nat]
  BY DEF Rings
<1>2. r.head + 0 = r.head /\ r.head + 0 < Cap /\ 1 - 1 = 0
  BY <1>1 DEF Slots
<1>3. (r.head + (1 - 1)) % Cap = r.head
  BY <1>1, <1>2, Wrap
<1>. QED  BY <1>1, <1>3 DEF Oldest, Entry

-----------------------------------------------------------------------------
(* Steps that leave the heartbeats alone. *)

\* The steps of the registration task that neither take nor send a heartbeat.
Aside ==
  \/ RegLoad \/ Discover \/ (Check /\ UNCHANGED beat)
  \/ Send("claim", "claiming") \/ ClaimAnswered \/ StoreToken
  \/ (StoreId /\ UNCHANGED beat)
  \/ Post \/ PostAnswered

WebTask == WebRequest \/ WebLoad \/ EraseId \/ EraseToken

LEMMA AsideQuiet ==
  ASSUME Aside, beat \in Nat
  PROVE  Sending = {} /\ Sending' = {} /\ UNCHANGED beatVars /\ reg' \notin {"sending", "flushing"}
<1>1. CASE RegLoad
  BY <1>1 DEF RegLoad, Sending
<1>2. CASE Discover \/ (Check /\ UNCHANGED beat)
  <2>1. CASE Discover
    BY <2>1 DEF Discover, Sending
  <2>2. CASE Check /\ UNCHANGED beat
    BY <2>2 DEF Check, TakeBeat, Sending, beatVars
  <2>. QED  BY <1>2, <2>1, <2>2
<1>3. CASE Send("claim", "claiming") \/ Post
  BY <1>3 DEF Send, Post, Sending
<1>4. CASE ClaimAnswered \/ StoreToken \/ (StoreId /\ UNCHANGED beat)
  <2>1. CASE ClaimAnswered
    BY <2>1 DEF ClaimAnswered, Sending
  <2>2. CASE StoreToken
    BY <2>2 DEF StoreToken, Sending
  <2>3. CASE StoreId /\ UNCHANGED beat
    BY <2>3 DEF StoreId, TakeBeat, Sending, beatVars
  <2>. QED  BY <1>4, <2>1, <2>2, <2>3
<1>5. CASE PostAnswered
  BY <1>5 DEF PostAnswered, Sending
<1>. QED  BY <1>1, <1>2, <1>3, <1>4, <1>5 DEF Aside

\* Reading, sending and waiting keep the order and the account.
LEMMA Quiet ==
  ASSUME Ordered, NothingSilentlyLost, UNCHANGED beatVars, Sending' = Sending,
         reg' = "sending" => ring.count = 0, reg' = "flushing" => ring.count > 0
  PROVE  Ordered' /\ NothingSilentlyLost'
<1>1. ring' = ring /\ beat' = beat /\ heard' = heard /\ dropped' = dropped
  BY DEF beatVars
<1>2. Ordered'
  BY <1>1 DEF Ordered, Entry, Oldest
<1>3. Missing' = Missing
  BY <1>1 DEF Missing, InRing, Entry
<1>. QED  BY <1>1, <1>2, <1>3 DEF NothingSilentlyLost

\* A heartbeat that is heard leaves nothing missing that was not.
LEMMA Account ==
  ASSUME NothingSilentlyLost, beat \in Nat, dropped \in Nat,
         Missing' \subseteq Missing, dropped' = dropped
  PROVE  NothingSilentlyLost'
<1>1. IsFiniteSet(1 .. beat)
  BY FS_Interval
<1>2. IsFiniteSet(Missing)
  BY <1>1, FS_Difference DEF Missing
<1>3. IsFiniteSet(Missing') /\ Cardinality(Missing') <= Cardinality(Missing)
  BY <1>2, FS_Subset
<1>4. Cardinality(Missing) \in Nat /\ Cardinality(Missing') \in Nat
  BY <1>2, <1>3, FS_CardinalityType
<1>. QED  BY <1>3, <1>4 DEF NothingSilentlyLost

\* A new heartbeat: nothing is being sent, the ring is older.
LEMMA Taken ==
  ASSUME TypeOK, Ordered, NothingSilentlyLost, TakeBeat, UNCHANGED <<ring, dropped, heard>>,
         Sending = {}, reg' = "flush"
  PROVE  Ordered' /\ NothingSilentlyLost'
<1>1. Sending' = {beat'} /\ beat' = beat + 1 /\ beat \in Nat /\ ring' = ring /\ heard' = heard
  BY DEF Sending, TakeBeat, TypeOK
<1>2. Ordered'
  BY <1>1 DEF Ordered, Entry, Oldest
<1>3. InRing' = InRing
  BY <1>1 DEF InRing, Entry
<1>4. Missing' \subseteq Missing
  BY <1>1, <1>3 DEF Missing
<1>. QED  BY <1>1, <1>2, <1>4, Account DEF TypeOK

\* Delivery of the oldest entry, whether it leaves the ring or its answer is lost.
LEMMA HeadHeard ==
  ASSUME TypeOK, Ordered, NothingSilentlyLost, FlushAnswered, ring.count > 0
  PROVE  Ordered' /\ NothingSilentlyLost'
<1>1. ring \in Rings /\ heard \subseteq 1 .. beat /\ beat \in Nat /\ dropped \in Nat
  BY DEF TypeOK
<1>. DEFINE o == Oldest(ring)
<1>2. /\ o = Entry(ring, 1) /\ o \in 1 .. beat
      /\ ring.count \in 1 .. Cap /\ \A c \in heard : c <= o
  BY <1>1, OldestFirst DEF Ordered, Rings
<1>3. Sending = {beat} /\ Sending' = {beat} /\ beat' = beat /\ dropped' = dropped
  BY DEF FlushAnswered, Sending
<1>4. CASE ring' = Pop(ring) /\ heard' = heard \cup {o} /\ reg' = "flush"
  <2>1. /\ Pop(ring) \in Rings /\ Pop(ring).count = ring.count - 1
        /\ \A i \in 1 .. ring.count - 1 : Entry(Pop(ring), i) = Entry(ring, i + 1)
    BY <1>1, <1>2, PopEntries
  <2>2. ring.count - 1 > 0 => Oldest(Pop(ring)) = Entry(ring, 2)
    <3>1. Oldest(Pop(ring)) = Entry(Pop(ring), 1)
      BY <2>1, OldestFirst
    <3>2. ring.count - 1 > 0 => Entry(Pop(ring), 1) = Entry(ring, 1 + 1)
      BY <1>2, <2>1
    <3>. QED  BY <3>1, <3>2
  <2>3. ASSUME NEW i \in 1 .. ring.count - 1
        PROVE  /\ i + 1 \in 1 .. ring.count /\ Entry(Pop(ring), i) = Entry(ring, i + 1)
               /\ Entry(Pop(ring), i) \in 1 .. beat /\ Entry(Pop(ring), i) < beat
    BY <1>2, <1>3, <2>1 DEF Ordered
  <2>4. \A i, j \in 1 .. ring.count - 1 : i < j => Entry(Pop(ring), i) < Entry(Pop(ring), j)
    BY <1>2, <2>3 DEF Ordered
  <2>5. ring.count - 1 > 0 => \A c \in heard' : c <= Oldest(Pop(ring))
    <3>1. ring.count - 1 > 0 => o < Entry(ring, 2) /\ Entry(ring, 2) \in 1 .. beat
      BY <1>2 DEF Ordered
    <3>. QED  BY <1>1, <1>2, <1>4, <2>2, <3>1
  <2>6. Ordered'
    BY <1>3, <1>4, <2>1, <2>3, <2>4, <2>5 DEF Ordered, Entry, Oldest
  <2>7. ASSUME NEW x \in InRing
        PROVE  x \in InRing' \cup heard'
    <3>1. PICK i \in 1 .. ring.count : x = Entry(ring, i)
      BY DEF InRing
    <3>2. CASE i = 1
      BY <1>2, <1>4, <3>1, <3>2
    <3>3. CASE i # 1
      <4>1. i - 1 \in 1 .. ring.count - 1 /\ (i - 1) + 1 = i
        BY <1>2, <3>3
      <4>2. x = Entry(Pop(ring), i - 1)
        BY <2>1, <3>1, <4>1
      <4>. QED  BY <1>4, <2>1, <4>1, <4>2 DEF InRing, Entry
    <3>. QED  BY <3>2, <3>3
  <2>8. Missing' \subseteq Missing
    BY <1>3, <1>4, <2>7 DEF Missing
  <2>. QED  BY <1>1, <1>3, <2>6, <2>8, Account
<1>5. CASE ring' = ring /\ heard' \in {heard, heard \cup {o}} /\ reg' = "buffer"
  <2>1. Ordered'
    BY <1>1, <1>2, <1>3, <1>5 DEF Ordered, Entry, Oldest
  <2>2. InRing' = InRing
    BY <1>5 DEF InRing, Entry
  <2>3. Missing' \subseteq Missing
    BY <1>3, <1>5, <2>2 DEF Missing
  <2>. QED  BY <1>1, <1>3, <2>1, <2>3, Account
<1>. QED  BY <1>4, <1>5 DEF FlushAnswered, Delivered, Failed, Lost

LEMMA BeatHeard ==
  ASSUME TypeOK, Ordered, NothingSilentlyLost, LiveAnswered
  PROVE  Ordered' /\ NothingSilentlyLost'
<1>1. ring.count = 0 /\ Sending = {beat} /\ beat > 0 /\ beat \in Nat /\ dropped \in Nat
  BY DEF TypeOK, Ordered, LiveAnswered, Sending
<1>2. ring' = ring /\ beat' = beat /\ dropped' = dropped
  BY DEF LiveAnswered
<1>3. Ordered'
  <2>1. reg' \notin {"sending", "flushing"}
    BY DEF LiveAnswered
  <2>2. 1 .. ring'.count = {}
    BY <1>1, <1>2
  <2>. QED  BY <1>1, <1>2, <2>1, <2>2 DEF Ordered
<1>4. InRing' = InRing
  BY <1>2 DEF InRing, Entry
<1>5. Missing' \subseteq Missing
  <2>1. heard' = heard \cup {beat} \/ (heard' = heard /\ Sending' = {beat})
    BY <1>2 DEF LiveAnswered, Delivered, Failed, Lost, Sending
  <2>2. heard \subseteq heard' /\ Sending \subseteq heard' \cup Sending'
    BY <1>1, <2>1
  <2>. QED  BY <1>2, <1>4, <2>2 DEF Missing
<1>. QED  BY <1>1, <1>2, <1>3, <1>5, Account

\* Buffering: where the ring is full, the oldest entry is missing from now on,
\* and counted.
LEMMA Buffered ==
  ASSUME TypeOK, Ordered, NothingSilentlyLost, BufferBeat
  PROVE  Ordered' /\ NothingSilentlyLost'
<1>1. /\ ring \in Rings /\ heard \subseteq 1 .. beat /\ beat \in Nat /\ dropped \in Nat
      /\ ring.count \in 0 .. Cap
  BY DEF TypeOK, Rings
<1>2. /\ Sending = {beat} /\ Sending' = {} /\ beat > 0 /\ reg' = "post"
      /\ beat' = beat /\ heard' = heard /\ ring' = Push(ring, beat)
  BY DEF BufferBeat, Sending, Ordered
<1>3. ring' \in Rings
  BY <1>1, <1>2, PushEntries, FullPush
<1>4. Oldest(ring) = Entry(ring, 1) /\ Oldest(ring') = Entry(ring', 1)
  BY <1>1, <1>3, OldestFirst
<1>5. CASE ~Full(ring)
  <2>1. /\ ring'.count = ring.count + 1
        /\ \A i \in 1 .. ring.count : Entry(ring', i) = Entry(ring, i)
        /\ Entry(ring', ring.count + 1) = beat
    BY <1>1, <1>2, <1>5, PushEntries
  <2>2. ASSUME NEW i \in 1 .. ring'.count
        PROVE  /\ Entry(ring', i) \in 1 .. beat
               /\ i \in 1 .. ring.count => Entry(ring', i) = Entry(ring, i) /\ Entry(ring, i) < beat
               /\ i \notin 1 .. ring.count => i = ring.count + 1 /\ Entry(ring', i) = beat
    BY <1>1, <1>2, <2>1 DEF Ordered
  <2>3. \A i, j \in 1 .. ring'.count : i < j => Entry(ring', i) < Entry(ring', j)
    BY <1>1, <2>1, <2>2 DEF Ordered
  <2>4. \A c \in heard' : c <= Oldest(ring')
    <3>1. CASE ring.count > 0
      <4>1. Oldest(ring') = Oldest(ring)
        BY <1>1, <1>4, <2>1, <3>1
      <4>. QED  BY <1>2, <3>1, <4>1 DEF Ordered
    <3>2. CASE ring.count = 0
      <4>1. Oldest(ring') = beat
        BY <1>4, <2>1, <3>2
      <4>. QED  BY <1>1, <1>2, <4>1
    <3>. QED  BY <1>1, <3>1, <3>2
  <2>5. Ordered'
    BY <1>2, <2>2, <2>3, <2>4 DEF Ordered
  <2>6. ASSUME NEW x \in InRing \cup {beat}
        PROVE  x \in InRing'
    <3>1. CASE x = beat
      <4>1. ring.count + 1 \in 1 .. ring'.count /\ Entry(ring', ring.count + 1) = x
        BY <1>1, <2>1, <3>1
      <4>. QED  BY <4>1 DEF InRing, Entry
    <3>2. CASE x \in InRing
      <4>1. PICK i \in 1 .. ring.count : x = Entry(ring, i)
        BY <3>2 DEF InRing
      <4>2. i \in 1 .. ring'.count /\ x = Entry(ring', i)
        BY <1>1, <2>1, <4>1
      <4>. QED  BY <4>2 DEF InRing, Entry
    <3>. QED  BY <3>1, <3>2
  <2>7. Missing' \subseteq Missing
    BY <1>2, <2>6 DEF Missing
  <2>8. dropped' = dropped
    BY <1>5 DEF BufferBeat
  <2>. QED  BY <1>1, <2>5, <2>7, <2>8, Account
<1>6. CASE Full(ring)
  <2>1. /\ ring'.count = Cap /\ ring.count = Cap
        /\ \A i \in 1 .. Cap - 1 : Entry(ring', i) = Entry(ring, i + 1)
        /\ Entry(ring', Cap) = beat
    BY <1>1, <1>2, <1>6, FullPush DEF Full
  <2>2. ASSUME NEW i \in 1 .. ring'.count
        PROVE  /\ Entry(ring', i) \in 1 .. beat
               /\ i # Cap => /\ i + 1 \in 1 .. Cap
                             /\ Entry(ring', i) = Entry(ring, i + 1) /\ Entry(ring, i + 1) < beat
               /\ i = Cap => Entry(ring', i) = beat
    BY <1>1, <1>2, <2>1 DEF Ordered
  <2>3. \A i, j \in 1 .. ring'.count : i < j => Entry(ring', i) < Entry(ring', j)
    BY <1>1, <2>1, <2>2 DEF Ordered
  <2>4. \A c \in heard' : c <= Oldest(ring')
    <3>1. CASE Cap > 1
      <4>1. 1 \in 1 .. ring'.count /\ 1 # Cap
        BY <2>1, <3>1
      <4>2. Oldest(ring') = Entry(ring, 2) /\ 2 \in 1 .. Cap
        BY <1>4, <2>2, <4>1
      <4>3. Oldest(ring) \in 1 .. beat /\ Entry(ring, 2) \in 1 .. beat
        BY <1>4, <2>1, <4>2 DEF Ordered
      <4>4. Oldest(ring) < Entry(ring, 2)
        BY <1>4, <2>1, <4>2 DEF Ordered
      <4>. QED  BY <1>1, <1>2, <2>1, <4>2, <4>3, <4>4 DEF Ordered
    <3>2. CASE Cap = 1
      <4>1. Oldest(ring') = beat
        BY <1>4, <2>1, <3>2
      <4>. QED  BY <1>1, <1>2, <4>1
    <3>. QED  BY <3>1, <3>2
  <2>5. Ordered'
    BY <1>2, <2>2, <2>3, <2>4 DEF Ordered
  <2>6. ASSUME NEW x \in InRing \cup {beat}, x # Oldest(ring)
        PROVE  x \in InRing'
    <3>1. CASE x = beat
      <4>1. Cap \in 1 .. ring'.count /\ Entry(ring', Cap) = x
        BY <2>1, <3>1
      <4>. QED  BY <4>1 DEF InRing, Entry
    <3>2. CASE x \in InRing
      <4>1. PICK i \in 1 .. ring.count : x = Entry(ring, i)
        BY <3>2 DEF InRing
      <4>2. i - 1 \in 1 .. Cap - 1 /\ (i - 1) + 1 = i
        BY <1>4, <2>1, <2>6, <4>1
      <4>3. i - 1 \in 1 .. ring'.count /\ x = Entry(ring', i - 1)
        BY <2>1, <4>1, <4>2
      <4>. QED  BY <4>3 DEF InRing, Entry
    <3>. QED  BY <3>1, <3>2
  <2>7. Missing' \subseteq Missing \cup {Oldest(ring)}
    BY <1>2, <2>6 DEF Missing
  <2>8. dropped' = dropped + 1
    BY <1>6 DEF BufferBeat
  <2>9. IsFiniteSet(Missing)
    <3>1. IsFiniteSet(1 .. beat)
      BY <1>1, FS_Interval
    <3>. QED  BY <3>1, FS_Difference DEF Missing
  <2>10. /\ IsFiniteSet(Missing \cup {Oldest(ring)})
         /\ Cardinality(Missing \cup {Oldest(ring)}) <= Cardinality(Missing) + 1
    <3>1. Cardinality(Missing \cup {Oldest(ring)}) =
            IF Oldest(ring) \in Missing THEN Cardinality(Missing) ELSE Cardinality(Missing) + 1
      BY <2>9, FS_AddElement
    <3>2. IsFiniteSet(Missing \cup {Oldest(ring)}) /\ Cardinality(Missing) \in Nat
      BY <2>9, FS_AddElement, FS_CardinalityType
    <3>. QED  BY <3>1, <3>2
  <2>11. /\ IsFiniteSet(Missing')
         /\ Cardinality(Missing') <= Cardinality(Missing \cup {Oldest(ring)})
    BY <2>7, <2>10, FS_Subset
  <2>12. /\ Cardinality(Missing) \in Nat /\ Cardinality(Missing') \in Nat
         /\ Cardinality(Missing \cup {Oldest(ring)}) \in Nat
    BY <2>9, <2>10, <2>11, FS_CardinalityType
  <2>13. NothingSilentlyLost'
    BY <1>1, <2>8, <2>10, <2>11, <2>12 DEF NothingSilentlyLost
  <2>. QED  BY <2>5, <2>13
<1>. QED  BY <1>5, <1>6

\* A restart begins with an empty ring and no heartbeats.
LEMMA BootBeats ==
  ASSUME Boot
  PROVE  Ordered' /\ NothingSilentlyLost'
<1>1. /\ ring'.count = 0 /\ beat' = 0 /\ heard' = {} /\ dropped' = 0
      /\ reg' = "load" /\ Sending' = {}
  BY DEF Boot, EmptyRing, Sending
<1>2. 1 .. ring'.count = {} /\ 1 .. beat' = {}
  BY <1>1
<1>3. Ordered'
  BY <1>1, <1>2 DEF Ordered
<1>4. Missing' = {}
  BY <1>2 DEF Missing
<1>. QED  BY <1>1, <1>3, <1>4, FS_EmptySet DEF NothingSilentlyLost

LEMMA WebQuiet ==
  ASSUME WebTask \/ GatewayMoves
  PROVE  UNCHANGED beatVars /\ reg' = reg /\ Sending' = Sending
<1>1. UNCHANGED beatVars /\ reg' = reg
  BY DEF WebTask, WebRequest, WebLoad, EraseId, EraseToken, WebStep, GatewayMoves
<1>. QED  BY <1>1 DEF Sending, beatVars

\* Next, by what it does to the heartbeats.
LEMMA Steps ==
  ASSUME Next
  PROVE  \/ Aside \/ WebTask \/ GatewayMoves \/ Boot
         \/ TakeBeat /\ (Check \/ StoreId)
         \/ Flush \/ Live \/ FlushAnswered \/ LiveAnswered \/ BufferBeat
<1>1. CASE Check
  BY <1>1 DEF Check, Aside
<1>2. CASE StoreId
  BY <1>2 DEF StoreId, Aside
<1>. QED  BY <1>1, <1>2 DEF Next, RegTask, Aside, WebTask, PowerLoss, ResetRestart

LEMMA BeatStep ==
  ASSUME TypeOK, Ordered, NothingSilentlyLost, [Next]_vars
  PROVE  Ordered' /\ NothingSilentlyLost'
<1>1. CASE Aside
  <2>1. Sending = {} /\ Sending' = {} /\ UNCHANGED beatVars /\ reg' \notin {"sending", "flushing"}
    BY <1>1, AsideQuiet DEF TypeOK
  <2>. QED  BY <2>1, Quiet
<1>2. CASE WebTask \/ GatewayMoves
  BY <1>2, WebQuiet, Quiet DEF Ordered
<1>3. CASE TakeBeat /\ (Check \/ StoreId)
  <2>1. Sending = {} /\ reg' = "flush" /\ UNCHANGED <<ring, dropped, heard>>
    BY <1>3 DEF Check, StoreId, TakeBeat, Sending, TypeOK
  <2>. QED  BY <1>3, <2>1, Taken
<1>4. CASE Flush \/ Live
  <2>1. /\ UNCHANGED beatVars /\ Sending' = Sending
        /\ reg' = "sending" => ring.count = 0
        /\ reg' = "flushing" => ring.count > 0
    BY <1>4 DEF Flush, Live, Send, Sending, beatVars
  <2>. QED  BY <2>1, Quiet
<1>5. CASE FlushAnswered
  BY <1>5, HeadHeard DEF FlushAnswered, Ordered
<1>6. CASE UNCHANGED vars
  <2>1. UNCHANGED beatVars /\ Sending' = Sending /\ reg' = reg
    BY <1>6 DEF vars, Sending, beatVars
  <2>. QED  BY <2>1, Quiet DEF Ordered
<1>. QED  BY <1>1, <1>2, <1>3, <1>4, <1>5, <1>6, BeatHeard, Buffered, BootBeats, Steps

-----------------------------------------------------------------------------
(* Types. *)

Requests == [id : StoredIds, token : StoredIds, host : Urls, named : StoredIds]

LEMMA RequestType ==
  ASSUME TypeOK
  PROVE  /\ ActiveUrl \in Urls
         /\ NoRequest \in Requests
         /\ [id |-> id, token |-> nvs.token, host |-> ActiveUrl, named |-> NoId]
              \in Requests
         /\ req \in Requests
         /\ req.id \in StoredIds /\ req.named \in StoredIds /\ IssuedFor \in StoredIds
         /\ nvs.id \in StoredIds /\ nvs.token \in StoredIds
<1>1. ActiveUrl \in Urls
  BY DEF TypeOK, ActiveUrl
<1>2. req \in Requests
  BY DEF TypeOK, Requests
<1>. QED  BY <1>1, <1>2 DEF TypeOK, NoRequest, StoredIds, Urls, Requests, IssuedFor

\* What the answers do to the discovery.
LEMMA AnswerType ==
  ASSUME TypeOK, NoteAnswer \/ NoteSilence \/ UNCHANGED findVars
  PROVE  url' \in Urls /\ failures' \in 0 .. Threshold /\ mute' \in 0 .. Threshold + 1
BY DEF TypeOK, NoteAnswer, NoteSilence, findVars

LEMMA Answers ==
  ASSUME NEW fits, Silence \/ Status(fits) \/ Success(fits) \/ Fails \/ Unsent
  PROVE  NoteAnswer \/ NoteSilence \/ UNCHANGED findVars
BY DEF Silence, Status, Success, Fails, Unsent

LEMMA BeatAnswers ==
  ASSUME NEW b, Delivered(b) \/ Failed(b)
  PROVE  /\ NoteAnswer \/ NoteSilence \/ UNCHANGED findVars
         /\ heard' \subseteq heard \cup {b}
<1>1. NoteAnswer \/ NoteSilence \/ UNCHANGED findVars
  BY DEF Delivered, Failed, Lost, Fails, Unsent, Silence, Status, Success
<1>. QED  BY <1>1 DEF Delivered, Failed, Lost

LEMMA AsideType ==
  ASSUME TypeOK, Aside
  PROVE  TypeOK'
<1>1. beat' = beat /\ heard' = heard /\ ring' = ring /\ dropped' = dropped
  BY AsideQuiet DEF TypeOK, beatVars
<1>2. CASE RegLoad
  <2>1. id' \in StoredIds /\ nvs' \in [id : StoredIds, token : StoredIds] /\ torn' = torn
    BY <1>2 DEF RegLoad, LoadStored, FindNone, Derive, StoreDerived, StoreFails, idVars, TypeOK, StoredIds
  <2>. QED  BY <1>1, <1>2, <2>1 DEF RegLoad, TypeOK, Requests, RegStates, envVars, findVars
<1>3. CASE Discover
  <2>1. url' \in Urls /\ failures' \in 0 .. Threshold /\ mute' \in 0 .. Threshold + 1
    BY <1>3 DEF Discover, KeepGateway, OneMoreRound, Found, NotFound, TypeOK, Urls
  <2>. QED  BY <1>1, <1>3, <2>1 DEF Discover, TypeOK, Requests, RegStates, envVars, idVars
<1>4. CASE Check /\ UNCHANGED beat
  BY <1>1, <1>4 DEF Check, TypeOK, Requests, RegStates, envVars, idVars, findVars
<1>5. CASE Send("claim", "claiming") \/ Post
  BY <1>1, <1>5, RequestType DEF Send, Post, TypeOK, Requests, RegStates, envVars, idVars, findVars
<1>6. CASE ClaimAnswered
  <2>1. url' \in Urls /\ failures' \in 0 .. Threshold /\ mute' \in 0 .. Threshold + 1
    BY <1>6, Answers, AnswerType DEF ClaimAnswered
  <2>2. req' \in Requests
    <3>1. ASSUME NEW n \in Named PROVE [req EXCEPT !.named = n] \in Requests
      <4>1. n \in StoredIds
        BY RequestType DEF Named, StoredIds
      <4>. QED  BY <4>1, RequestType DEF Requests
    <3>. QED  BY <1>6, <3>1, RequestType DEF ClaimAnswered
  <2>. QED  BY <1>1, <1>6, <2>1, <2>2 DEF Requests, ClaimAnswered, TypeOK, Requests, RegStates, envVars, idVars
<1>7. CASE StoreToken
  <2>1. nvs' \in [id : StoredIds, token : StoredIds] /\ torn' \in BOOLEAN
    BY <1>7, RequestType DEF StoreToken, TypeOK
  <2>. QED  BY <1>1, <1>7, <2>1, RequestType DEF StoreToken, TypeOK, Requests, RegStates, envVars, findVars
<1>8. CASE StoreId /\ UNCHANGED beat
  <2>1. nvs' \in [id : StoredIds, token : StoredIds] /\ id' \in StoredIds /\ torn' \in BOOLEAN
    BY <1>8, RequestType DEF StoreId, TypeOK, idVars
  <2>. QED  BY <1>1, <1>8, <2>1, RequestType DEF StoreId, TypeOK, Requests, RegStates, envVars, findVars
<1>9. CASE PostAnswered
  <2>1. url' \in Urls /\ failures' \in 0 .. Threshold /\ mute' \in 0 .. Threshold + 1
    BY <1>9, Answers, AnswerType DEF PostAnswered
  <2>. QED  BY <1>1, <1>9, <2>1, RequestType DEF PostAnswered, TypeOK, Requests, RegStates, envVars, idVars
<1>. QED  BY <1>2, <1>3, <1>4, <1>5, <1>6, <1>7, <1>8, <1>9 DEF Aside

LEMMA WebType ==
  ASSUME TypeOK, WebTask \/ GatewayMoves
  PROVE  TypeOK'
<1>1. /\ reg' = reg /\ beat' = beat /\ heard' = heard /\ ring' = ring /\ dropped' = dropped
  BY WebQuiet DEF beatVars
<1>2. CASE WebRequest
  <2>1. web' \in [pc : WebStates, route : {"status", "reset"}]
    BY <1>2 DEF WebRequest, WebStates
  <2>. QED  BY <1>1, <1>2, <2>1 DEF WebRequest, TypeOK, envVars, idVars, findVars
<1>3. CASE WebLoad
  <2>1. web' \in [pc : WebStates, route : {"status", "reset"}]
    BY <1>3 DEF WebLoad, WebStep, WebStates, Loaded, TypeOK
  <2>2. id' \in StoredIds /\ nvs' \in [id : StoredIds, token : StoredIds] /\ torn' = torn
    BY <1>3 DEF WebLoad, LoadStored, FindNone, Derive, StoreDerived, StoreFails, idVars, TypeOK, StoredIds
  <2>. QED  BY <1>1, <1>3, <2>1, <2>2 DEF WebLoad, WebStep, TypeOK, envVars, findVars
<1>4. CASE EraseId \/ EraseToken
  <2>1. web' \in [pc : WebStates, route : {"status", "reset"}]
    BY <1>4 DEF EraseId, EraseToken, WebStep, WebStates, TypeOK
  <2>2. nvs' \in [id : StoredIds, token : StoredIds]
    BY <1>4 DEF EraseId, EraseToken, TypeOK, StoredIds
  <2>. QED  BY <1>1, <1>4, <2>1, <2>2 DEF EraseId, EraseToken, WebStep, TypeOK, envVars, findVars
<1>5. CASE GatewayMoves
  BY <1>1, <1>5 DEF GatewayMoves, TypeOK, idVars, findVars
<1>. QED  BY <1>2, <1>3, <1>4, <1>5 DEF WebTask

LEMMA EmptyRingType == EmptyRing \in Rings /\ 0 \in 0 .. Threshold /\ 0 \in 0 .. Threshold + 1
BY DEF EmptyRing, Rings, Slots

LEMMA TypeStep ==
  ASSUME TypeOK, Ordered, [Next]_vars
  PROVE  TypeOK'
<1>1. CASE Boot
  BY <1>1, EmptyRingType DEF Boot, TypeOK, NoRequest, StoredIds, Urls, RegStates, WebStates, envVars
<1>2. CASE TakeBeat /\ (Check \/ StoreId)
  <2>1. beat' \in Nat /\ heard' = heard /\ heard' \subseteq 1 .. beat' /\ ring' = ring
        /\ dropped' = dropped
    BY <1>2 DEF TakeBeat, Check, StoreId, TypeOK
  <2>2. nvs' \in [id : StoredIds, token : StoredIds] /\ id' \in StoredIds /\ torn' \in BOOLEAN
    BY <1>2, RequestType DEF Check, StoreId, TypeOK, idVars
  <2>3. req' \in Requests /\ reg' \in RegStates
    BY <1>2, RequestType DEF Check, StoreId, TypeOK, RegStates
  <2>. QED  BY <1>2, <2>1, <2>2, <2>3 DEF Check, StoreId, TypeOK, Requests, envVars, findVars
<1>3. CASE Flush \/ Live
  BY <1>3, RequestType DEF Flush, Live, Send, TypeOK, Requests, RegStates, envVars, idVars, findVars, beatVars
<1>4. CASE FlushAnswered
  <2>1. ring.count > 0 /\ ring \in Rings /\ beat' = beat /\ dropped' = dropped
    BY <1>4 DEF FlushAnswered, Ordered, TypeOK
  <2>2. Oldest(ring) \in 1 .. beat
    <3>1. ring.count \in 1 .. Cap
      BY <2>1 DEF Rings
    <3>2. Entry(ring, 1) \in 1 .. beat
      BY <3>1 DEF Ordered
    <3>. QED  BY <2>1, <3>2, OldestFirst
  <2>3. ring' \in Rings
    BY <1>4, <2>1, PopEntries DEF FlushAnswered
  <2>4. heard' \subseteq 1 .. beat
    BY <1>4, <2>2, BeatAnswers DEF FlushAnswered, TypeOK
  <2>5. url' \in Urls /\ failures' \in 0 .. Threshold /\ mute' \in 0 .. Threshold + 1
    BY <1>4, BeatAnswers, AnswerType DEF FlushAnswered
  <2>. QED  BY <1>4, <2>1, <2>3, <2>4, <2>5, RequestType
       DEF FlushAnswered, TypeOK, Requests, RegStates, envVars, idVars
<1>5. CASE LiveAnswered
  <2>1. beat' = beat /\ dropped' = dropped /\ ring' = ring
    BY <1>5 DEF LiveAnswered
  <2>2. heard' \subseteq 1 .. beat
    <3>1. beat \in 1 .. beat
      BY <1>5 DEF LiveAnswered, Ordered, Sending, TypeOK
    <3>. QED  BY <1>5, <3>1, BeatAnswers DEF LiveAnswered, TypeOK
  <2>3. url' \in Urls /\ failures' \in 0 .. Threshold /\ mute' \in 0 .. Threshold + 1
    BY <1>5, BeatAnswers, AnswerType DEF LiveAnswered
  <2>. QED  BY <1>5, <2>1, <2>2, <2>3, RequestType DEF LiveAnswered, TypeOK, Requests, RegStates, envVars, idVars
<1>6. CASE BufferBeat
  <2>1. ring' \in Rings /\ dropped' \in Nat
    BY <1>6, PushEntries, FullPush DEF BufferBeat, TypeOK
  <2>. QED  BY <1>6, <2>1 DEF BufferBeat, TypeOK, Requests, RegStates, envVars, idVars, findVars
<1>7. CASE UNCHANGED vars
  BY <1>7 DEF vars, TypeOK, envVars, idVars, findVars, beatVars
<1>. QED  BY <1>1, <1>2, <1>3, <1>4, <1>5, <1>6, <1>7, AsideType, WebType, Steps

LEMMA InitHolds ==
  ASSUME Init
  PROVE  TypeOK /\ Ordered /\ NothingSilentlyLost /\ Identity /\ Discovery
<1>1. TypeOK
  <2>1. nvs \in [id : StoredIds, token : StoredIds] /\ id \in StoredIds
    BY DEF Init, StoredIds
  <2>2. req \in Requests
    BY DEF Init, NoRequest, Requests, StoredIds, Urls
  <2>. QED  BY <2>1, <2>2, EmptyRingType DEF Init, TypeOK, Requests, Urls, RegStates, WebStates
<1>2. /\ ring.count = 0 /\ beat = 0 /\ heard = {} /\ dropped = 0 /\ reg = "load" /\ Sending = {}
  BY DEF Init, EmptyRing, Sending
<1>3. 1 .. ring.count = {} /\ 1 .. beat = {}
  BY <1>2
<1>4. Ordered
  BY <1>2, <1>3 DEF Ordered
<1>5. NothingSilentlyLost
  <2>1. Missing = {}
    BY <1>3 DEF Missing
  <2>. QED  BY <1>2, <2>1, FS_EmptySet DEF NothingSilentlyLost
<1>6. Identity /\ Discovery
  BY <1>2 DEF Init, Identity, Agree, Deriving, Discovery
<1>. QED  BY <1>1, <1>4, <1>5, <1>6

-----------------------------------------------------------------------------
(* Identity and discovery, where nothing is reset and NVS can be read. *)

LEMMA FaultsStay ==
  ASSUME [Next]_vars
  PROVE  faults' = faults
BY DEF Next, RegTask, RegLoad, Discover, Check, Send, ClaimAnswered, StoreToken, StoreId,
   Flush, FlushAnswered, Live, LiveAnswered, BufferBeat, Post, PostAnswered, WebRequest,
   WebLoad, EraseId, EraseToken, WebStep, ResetRestart, GatewayMoves, PowerLoss, Boot,
   envVars, vars

\* Steps that change neither an id nor the httpd task.
LEMMA IdentityKept ==
  ASSUME Identity, UNCHANGED <<idVars, web>>, reg' \notin {"derive", "keep", "store_id"},
         reg \notin {"load", "derive", "keep", "gone"},
         reg' \in {"claim", "claiming", "store_token"} => ~torn,
         reg' \in {"claiming", "store_token"} => req'.id = id,
         reg' \in {"flush", "flushing", "sending", "buffer", "post", "posting"} => nvs.token # NoId,
         reg' \in {"flushing", "sending", "posting"} => req'.token # NoId
  PROVE  Identity'
<1>1. nvs' = nvs /\ id' = id /\ torn' = torn /\ web' = web /\ Deriving' = Deriving
  BY DEF idVars, Deriving
<1>2. ~torn' => Agree'
  BY <1>1 DEF Identity, Agree
<1>. QED  BY <1>1, <1>2 DEF Identity

\* load_device_id on the registration task.
LEMMA RegLoadIdentity ==
  ASSUME TypeOK, Undisturbed, Identity, RegLoad
  PROVE  Identity'
<1>1. web' = web /\ torn' = torn /\ Deriving' = Deriving
  BY DEF RegLoad, LoadStored, FindNone, Derive, StoreDerived, StoreFails, idVars, Deriving
<1>2. reg' \in {"derive", "keep", "discover", "gone"} /\ nvs'.token = nvs.token
  BY DEF RegLoad, LoadStored, FindNone, Derive, StoreDerived, StoreFails, idVars, TypeOK
<1>3. ASSUME ~torn PROVE Agree'
  <2>1. Agree
    BY <1>3 DEF Identity
  <2>2. id' # NoId => id' = IF nvs'.id = NoId THEN Derived ELSE nvs'.id
    BY <2>1 DEF RegLoad, LoadStored, FindNone, Derive, StoreDerived, StoreFails, CannotRead,
       Undisturbed, idVars, Agree, TypeOK, StoredIds
  <2>3. nvs'.token \in {NoId, nvs'.id}
    BY <2>1 DEF RegLoad, LoadStored, FindNone, Derive, StoreDerived, StoreFails, CannotRead,
       Undisturbed, idVars, Agree, TypeOK, StoredIds
  <2>4. Deriving \/ reg' \in {"derive", "keep"} => nvs'.id \in {NoId, Derived}
    BY <2>1 DEF RegLoad, LoadStored, FindNone, Derive, StoreDerived, StoreFails, CannotRead,
       Undisturbed, idVars, Agree, TypeOK, StoredIds
  <2>5. /\ reg' = "keep" \/ web.pc = "keep" => id' # NoId
        /\ reg' = "discover" => id' # NoId /\ nvs'.id = id'
    BY <2>1 DEF RegLoad, LoadStored, FindNone, Derive, StoreDerived, StoreFails, CannotRead,
       Undisturbed, idVars, Agree, TypeOK, StoredIds
  <2>. QED  BY <1>1, <1>2, <2>2, <2>3, <2>4, <2>5 DEF Agree
<1>. QED  BY <1>1, <1>2, <1>3 DEF Identity

\* ... and on the httpd task.
LEMMA WebLoadIdentity ==
  ASSUME TypeOK, Undisturbed, Identity, WebLoad
  PROVE  Identity'
<1>1. /\ reg' = reg /\ req' = req /\ torn' = torn /\ nvs'.token = nvs.token
      /\ web'.route = "status" /\ web'.pc \in {"idle", "derive", "keep"}
  BY DEF WebLoad, WebStep, Loaded, LoadStored, FindNone, Derive, StoreDerived, StoreFails,
     idVars, Identity, TypeOK
<1>3. \/ LoadStored /\ web'.pc = "idle"
      \/ FindNone /\ web'.pc = "derive"
      \/ web.pc = "derive" /\ Derive /\ web'.pc = "keep"
      \/ web.pc = "keep" /\ (StoreDerived \/ StoreFails) /\ web'.pc = "idle"
  BY DEF WebLoad, WebStep, Loaded, Identity, TypeOK
<1>2. ASSUME ~torn PROVE Agree'
  <2>1. Agree
    BY <1>2 DEF Identity
  <2>2. id' # NoId => id' = IF nvs'.id = NoId THEN Derived ELSE nvs'.id
    BY <1>3, <2>1 DEF LoadStored, FindNone, Derive, StoreDerived, StoreFails,
       CannotRead, Undisturbed, idVars, Agree, Deriving, TypeOK, StoredIds
  <2>3. nvs'.token \in {NoId, nvs'.id}
    BY <1>3, <2>1 DEF LoadStored, FindNone, Derive, StoreDerived, StoreFails,
       CannotRead, Undisturbed, idVars, Agree, Deriving, TypeOK, StoredIds
  <2>4. Deriving' \/ reg \in {"derive", "keep"} => nvs'.id \in {NoId, Derived}
    BY <1>3, <2>1 DEF LoadStored, FindNone, Derive, StoreDerived, StoreFails,
       CannotRead, Undisturbed, idVars, Agree, Deriving, TypeOK, StoredIds
  <2>5. reg = "keep" \/ web'.pc = "keep" => id' # NoId
    BY <1>3, <2>1 DEF LoadStored, FindNone, Derive, StoreDerived, StoreFails,
       CannotRead, Undisturbed, idVars, Agree, Deriving, TypeOK, StoredIds
  <2>6. reg \notin {"load", "derive", "keep", "gone"} => id' = id /\ nvs'.id = nvs.id
    BY <1>3, <2>1 DEF LoadStored, FindNone, Derive, StoreDerived, StoreFails,
       CannotRead, Undisturbed, idVars, Agree, Deriving, TypeOK, StoredIds
  <2>. QED  BY <1>1, <2>1, <2>2, <2>3, <2>4, <2>5, <2>6 DEF Agree
<1>. QED  BY <1>1, <1>2 DEF Identity, IssuedFor

\* The token is stored before the id that the response names; a claim that
\* names another id is torn until that id is stored as well.
LEMMA StoreIdentity ==
  ASSUME TypeOK, Undisturbed, Identity, StoreToken \/ StoreId
  PROVE  Identity'
<1>1. CASE StoreToken /\ reg' = "store_id"
  <2>1. /\ nvs'.id = nvs.id /\ nvs'.token = IssuedFor /\ id' = id /\ web' = web /\ req' = req
        /\ torn' = (IssuedFor # req.id) /\ reg = "store_token" /\ Deriving' = Deriving
    BY <1>1 DEF StoreToken, TypeOK, Deriving
  <2>2. Agree /\ req.id = id /\ id # NoId /\ nvs.id = id
    BY <2>1 DEF Identity, Agree
  <2>3. IssuedFor # NoId /\ (IssuedFor # req.id => req.named # NoId) /\ IssuedFor' = IssuedFor
    BY <2>1, <2>2 DEF IssuedFor
  <2>4. ~torn' => Agree'
    BY <1>1, <2>1, <2>2 DEF Agree
  <2>. QED  BY <1>1, <2>1, <2>3, <2>4 DEF Identity
<1>2. CASE StoreToken /\ reg' = "discover"
  <2>1. reg = "store_token" /\ UNCHANGED <<idVars, web>>
    BY <1>2 DEF StoreToken, idVars
  <2>. QED  BY <1>2, <2>1, IdentityKept
<1>3. CASE StoreId /\ reg' = "flush"
  <2>1. /\ reg = "store_id" /\ web' = web /\ torn' = (torn /\ Deriving) /\ nvs.token # NoId
        /\ nvs.token = IssuedFor /\ nvs'.token = nvs.token /\ Deriving' = Deriving
        /\ IF req.named = NoId THEN nvs'.id = nvs.id /\ id' = id
           ELSE nvs'.id = req.named /\ id' = req.named
    BY <1>3 DEF StoreId, Identity, TypeOK, Deriving
  <2>2. CASE torn
    <3>1. req.named # NoId /\ IssuedFor = req.named
      BY <2>1, <2>2 DEF Identity, IssuedFor
    <3>2. ~torn' => Agree'
      BY <1>3, <2>1, <2>2, <3>1 DEF Agree, Deriving
    <3>. QED  BY <1>3, <2>1, <3>2 DEF Identity
  <2>3. CASE ~torn
    <3>1. Agree /\ IssuedFor = req.id /\ req.id = id /\ nvs.id = id /\ id # NoId
      BY <2>1, <2>3 DEF Identity, Agree
    <3>2. nvs'.id = nvs.id /\ id' = id
      BY <2>1, <3>1 DEF IssuedFor
    <3>3. Agree'
      BY <1>3, <2>1, <3>1, <3>2 DEF Agree
    <3>. QED  BY <1>3, <2>1, <2>3, <3>3 DEF Identity
  <2>. QED  BY <2>2, <2>3
<1>4. CASE StoreId /\ reg' = "discover"
  <2>1. reg = "store_id" /\ UNCHANGED <<idVars, web>>
    BY <1>4 DEF StoreId
  <2>. QED  BY <1>4, <2>1, IdentityKept
<1>. QED  BY <1>1, <1>2, <1>3, <1>4 DEF StoreToken, StoreId

LEMMA IdentityStep ==
  ASSUME TypeOK, Undisturbed, Identity, [Next]_vars
  PROVE  Identity'
<1>1. CASE RegLoad
  BY <1>1, RegLoadIdentity
<1>2. CASE Discover \/ Check
  <2>1. /\ UNCHANGED <<idVars, web>> /\ reg \in {"discover", "check"}
        /\ reg' \in {"discover", "check", "claim", "flush"}
        /\ reg' = "claim" => nvs.token = NoId
        /\ reg' = "flush" => nvs.token # NoId
    BY <1>2 DEF Discover, Check, CannotRead, Undisturbed
  <2>. QED  BY <2>1, IdentityKept DEF Identity
<1>3. CASE Send("claim", "claiming")
  <2>1. reg = "claim" /\ reg' = "claiming" /\ req'.id = id /\ UNCHANGED <<idVars, web>>
    BY <1>3 DEF Send
  <2>. QED  BY <2>1, IdentityKept DEF Identity
<1>4. CASE Flush \/ Live \/ Post
  <2>1. /\ reg \in {"flush", "post"} /\ reg' \in {"flushing", "sending", "posting"}
        /\ req'.token = nvs.token /\ UNCHANGED <<idVars, web>>
    BY <1>4 DEF Flush, Live, Post, Send
  <2>. QED  BY <2>1, IdentityKept DEF Identity
<1>5. CASE ClaimAnswered
  <2>1. /\ reg = "claiming" /\ reg' \in {"discover", "store_token"}
        /\ reg' = "store_token" => req'.id = req.id
        /\ UNCHANGED <<idVars, web>>
    BY <1>5 DEF ClaimAnswered, TypeOK
  <2>2. ~torn /\ req.id = id
    BY <2>1 DEF Identity, Agree
  <2>. QED  BY <2>1, <2>2, IdentityKept
<1>6. CASE StoreToken \/ StoreId
  BY <1>6, StoreIdentity
<1>8. CASE FlushAnswered \/ LiveAnswered \/ PostAnswered \/ BufferBeat
  <2>1. /\ UNCHANGED <<idVars, web>>
        /\ reg \in {"flushing", "sending", "posting", "buffer"}
        /\ reg' \in {"flush", "buffer", "post", "discover"}
    BY <1>8 DEF FlushAnswered, LiveAnswered, PostAnswered, BufferBeat
  <2>. QED  BY <2>1, IdentityKept DEF Identity
<1>9. CASE Boot
  BY <1>9 DEF Boot, Identity, Agree, Deriving
<1>10. CASE WebRequest
  <2>1. web' = [pc |-> "load", route |-> "status"] /\ UNCHANGED <<idVars, reg, req>>
    BY <1>10 DEF WebRequest, Undisturbed
  <2>2. ~torn => Agree'
    BY <2>1 DEF Identity, Agree, Deriving, idVars
  <2>. QED  BY <2>1, <2>2 DEF Identity, IssuedFor, idVars
<1>11. CASE WebLoad
  BY <1>11, WebLoadIdentity
<1>12. CASE EraseId \/ EraseToken
  BY <1>12 DEF EraseId, EraseToken, WebStep, Identity
<1>13. CASE GatewayMoves \/ UNCHANGED vars
  <2>1. UNCHANGED <<idVars, reg, req, web>>
    BY <1>13 DEF GatewayMoves, vars
  <2>2. ~torn => Agree'
    BY <2>1 DEF Identity, Agree, Deriving, idVars
  <2>. QED  BY <2>1, <2>2 DEF Identity, IssuedFor, idVars
<1>. QED  BY <1>1, <1>2, <1>3, <1>4, <1>5, <1>6, <1>8, <1>9, <1>10, <1>11, <1>12, <1>13
     DEF Next, RegTask, ResetRestart, PowerLoss

\* An answer clears the count of silent rounds, silence raises the failures.
LEMMA Answered ==
  ASSUME TypeOK, mute <= failures + 1, mute <= Threshold, url = NoHost => mute = 0,
         NoteAnswer \/ NoteSilence
  PROVE  /\ mute' <= failures' /\ mute' <= failures' + 1 /\ mute' <= Threshold
         /\ url' = NoHost => mute' = 0
BY DEF TypeOK, NoteAnswer, NoteSilence

LEMMA DiscoveryStep ==
  ASSUME TypeOK, Undisturbed, Identity, Discovery, [Next]_vars
  PROVE  Discovery'
<1>1. CASE Discover
  BY <1>1 DEF Discover, Discovery, KeepGateway, OneMoreRound, Found, NotFound, Browse, TypeOK
<1>2. CASE Check
  BY <1>2 DEF Check, Discovery, ActiveUrl, findVars, TypeOK
<1>3. CASE RegLoad
  BY <1>3 DEF RegLoad, Discovery, findVars, TypeOK
<1>4. CASE Send("claim", "claiming") \/ Flush \/ Live \/ Post
  BY <1>4 DEF Send, Flush, Live, Post, Discovery, findVars
<1>5. CASE StoreToken \/ StoreId
  <2>1. mute = 0 /\ UNCHANGED findVars /\ failures \in Nat
    BY <1>5 DEF StoreToken, StoreId, Discovery, TypeOK
  <2>. QED  BY <2>1 DEF Discovery, findVars
<1>6. CASE BufferBeat
  BY <1>6 DEF BufferBeat, Discovery, findVars
<1>7. CASE ClaimAnswered
  <2>1. /\ NoteAnswer \/ NoteSilence
        /\ reg' = "store_token" => NoteAnswer
        /\ reg' \in {"discover", "store_token"}
    BY <1>7 DEF ClaimAnswered, Silence, Status, Success
  <2>2. reg' = "store_token" => mute' = 0
    BY <2>1 DEF NoteAnswer
  <2>3. /\ mute' <= failures' /\ mute' <= failures' + 1 /\ mute' <= Threshold
        /\ url' = NoHost => mute' = 0
    BY <2>1, Answered DEF Discovery
  <2>. QED  BY <2>1, <2>2, <2>3 DEF Discovery
<1>8. CASE FlushAnswered \/ LiveAnswered \/ PostAnswered
  <2>1. reg \in {"flushing", "sending", "posting"} /\ req.token # NoId /\ ~CannotRead
    BY <1>8 DEF FlushAnswered, LiveAnswered, PostAnswered, Identity, Undisturbed, CannotRead
  <2>2. Fails => NoteAnswer \/ NoteSilence
    BY <2>1 DEF Fails, Unsent, Silence, Status
  <2>3. NoteAnswer \/ NoteSilence
    BY <1>8, <2>2 DEF FlushAnswered, LiveAnswered, PostAnswered, Delivered, Failed, Lost, Success
  <2>4. reg' \in {"flush", "buffer", "post", "discover"}
    BY <1>8 DEF FlushAnswered, LiveAnswered, PostAnswered
  <2>5. /\ mute' <= failures' /\ mute' <= failures' + 1 /\ mute' <= Threshold
        /\ url' = NoHost => mute' = 0
    BY <2>3, Answered DEF Discovery
  <2>. QED  BY <2>4, <2>5 DEF Discovery
<1>9. CASE Boot
  BY <1>9 DEF Boot, Discovery
<1>10. CASE WebTask \/ GatewayMoves \/ UNCHANGED vars
  <2>1. UNCHANGED <<reg, findVars>>
    BY <1>10 DEF WebTask, WebRequest, WebLoad, EraseId, EraseToken, WebStep, GatewayMoves, vars
  <2>. QED  BY <2>1 DEF Discovery, findVars
<1>. QED  BY <1>1, <1>2, <1>3, <1>4, <1>5, <1>6, <1>7, <1>8, <1>9, <1>10
     DEF Next, RegTask, WebTask, ResetRestart, PowerLoss

-----------------------------------------------------------------------------
(* Theorems. *)

LEMMA RegStep ==
  ASSUME RegInv, [Next]_vars
  PROVE  RegInv'
<1>1. TypeOK' /\ Ordered' /\ NothingSilentlyLost'
  BY TypeStep, BeatStep DEF RegInv
<1>2. Undisturbed' => Undisturbed /\ Identity' /\ Discovery'
  <2>1. Undisturbed' <=> Undisturbed
    BY FaultsStay DEF Undisturbed
  <2>. QED  BY <2>1, IdentityStep, DiscoveryStep DEF RegInv
<1>. QED  BY <1>1, <1>2 DEF RegInv

\* RegInv is an invariant of the registration task and the httpd routes.
THEOREM Inductive == Spec => []RegInv
<1>1. Init => RegInv
  BY InitHolds DEF RegInv
<1>. QED  BY <1>1, RegStep, PTL DEF Spec

\* Every variable keeps its type.
THEOREM TypeCorrect == Spec => []TypeOK
<1>1. RegInv => TypeOK
  BY DEF RegInv
<1>. QED  BY <1>1, Inductive, PTL

\* Heartbeats lost for good are at most those the drop counter admits, for a
\* ring of any capacity.
THEOREM NoSilentLoss == Spec => []NothingSilentlyLost
<1>1. RegInv => NothingSilentlyLost
  BY DEF RegInv
<1>. QED  BY <1>1, Inductive, PTL

\* A discovered gateway that is silent is left within the threshold.
THEOREM SilenceBounded == Spec => []SilentGatewayLeft
<1>1. RegInv => SilentGatewayLeft
  BY DEF RegInv, Discovery, SilentGatewayLeft
<1>. QED  BY <1>1, Inductive, PTL

\* Token, stored id and id in use agree, whatever the two tasks interleave and
\* wherever writes fail or power is lost, unless the gateway named another id and
\* that id could not be stored whole.
THEOREM IdentityWhole == Spec => []OneIdentity
<1>1. RegInv => OneIdentity
  BY DEF RegInv, Identity, Agree, OneIdentity, TypeOK
<1>. QED  BY <1>1, Inductive, PTL

\* New heartbeats reach the gateway in capture order.
THEOREM CaptureOrder == Spec => InOrder
<1>1. ASSUME RegInv, [Next]_vars
      PROVE  [\A b \in heard' \ heard : \A c \in heard : (c \in heard' => c < b)]_vars
  <2>1. ASSUME NEW b \in heard' \ heard, NEW c \in heard
        PROVE  c < b
    <3>1. /\ ring \in Rings /\ heard \subseteq 1 .. beat /\ beat \in Nat /\ Ordered
      BY <1>1 DEF RegInv, TypeOK
    <3>2. CASE FlushAnswered
      <4>1. ring.count > 0 /\ ring.count \in 1 .. Cap /\ b = Oldest(ring)
        BY <2>1, <3>1, <3>2, BeatAnswers DEF FlushAnswered, Ordered, Rings
      <4>2. c <= b /\ c # b /\ b \in Nat
        BY <2>1, <3>1, <4>1, OldestFirst DEF Ordered
      <4>. QED  BY <3>1, <4>2
    <3>3. CASE LiveAnswered
      <4>1. b = beat
        BY <2>1, <3>3, BeatAnswers DEF LiveAnswered
      <4>. QED  BY <2>1, <3>1, <4>1
    <3>4. CASE ~FlushAnswered /\ ~LiveAnswered
      <4>1. heard' \subseteq heard
        <5>1. CASE Aside \/ WebTask \/ GatewayMoves
          BY <3>1, <5>1, AsideQuiet, WebQuiet DEF beatVars
        <5>2. CASE Boot
          BY <5>2 DEF Boot
        <5>3. CASE Check \/ StoreId \/ Flush \/ Live \/ BufferBeat \/ UNCHANGED vars
          BY <5>3 DEF Check, StoreId, Flush, Live, Send, BufferBeat, beatVars, vars
        <5>. QED  BY <1>1, <3>4, <5>1, <5>2, <5>3, Steps
      <4>. QED  BY <2>1, <4>1
    <3>. QED  BY <3>2, <3>3, <3>4
  <2>. QED  BY <2>1
<1>. QED  BY <1>1, Inductive, PTL DEF Spec, InOrder

-----------------------------------------------------------------------------
(* The ring is a queue: Registration implements HeartbeatFeed. *)

Contents(r) == [i \in 1 .. r.count |-> Entry(r, i)]

LEMMA ContentsSeq ==
  ASSUME NEW r \in Rings
  PROVE  /\ Contents(r) \in Seq(Nat) /\ Len(Contents(r)) = r.count
         /\ \A i \in 1 .. r.count : Contents(r)[i] = Entry(r, i)
<1>1. r.head \in Slots /\ r.buffer \in [Slots -> Nat] /\ r.count \in 0 .. Cap
  BY DEF Rings
<1>2. ASSUME NEW i \in 1 .. r.count
      PROVE  Entry(r, i) \in Nat
  <2>1. i - 1 \in 0 .. Cap
    BY <1>1
  <2>2. (r.head + (i - 1)) % Cap \in Slots
    BY <1>1, <2>1, Wrap
  <2>. QED  BY <1>1, <2>2 DEF Entry
<1>. QED  BY <1>1, <1>2 DEF Contents

LEMMA NothingKept ==
  ASSUME NEW r \in Rings
  PROVE  r.count = 0 <=> Contents(r) = <<>>
BY ContentsSeq, EmptySeq DEF Rings

LEMMA PopIsTail ==
  ASSUME NEW r \in Rings, r.count > 0
  PROVE  Contents(r) # <<>> /\ Head(Contents(r)) = Oldest(r) /\ Contents(Pop(r)) = Tail(Contents(r))
<1>1. /\ Contents(r) \in Seq(Nat) /\ Len(Contents(r)) = r.count
      /\ \A i \in 1 .. r.count : Contents(r)[i] = Entry(r, i)
  BY ContentsSeq
<1>2. /\ Pop(r) \in Rings /\ Pop(r).count = r.count - 1
      /\ \A i \in 1 .. r.count - 1 : Entry(Pop(r), i) = Entry(r, i + 1)
  BY PopEntries
<1>3. /\ Contents(Pop(r)) \in Seq(Nat) /\ Len(Contents(Pop(r))) = r.count - 1
      /\ \A i \in 1 .. r.count - 1 : Contents(Pop(r))[i] = Entry(r, i + 1)
  BY <1>2, ContentsSeq
<1>4. Contents(r) # <<>> /\ r.count \in Nat
  BY NothingKept DEF Rings
<1>5. /\ Tail(Contents(r)) \in Seq(Nat) /\ Len(Tail(Contents(r))) = r.count - 1
      /\ \A i \in 1 .. r.count - 1 : Tail(Contents(r))[i] = Contents(r)[i + 1]
  BY <1>1, <1>4, HeadTailProperties
<1>6. ASSUME NEW i \in 1 .. r.count - 1
      PROVE  Contents(Pop(r))[i] = Tail(Contents(r))[i]
  <2>1. i + 1 \in 1 .. r.count
    BY <1>4
  <2>. QED  BY <1>1, <1>3, <1>5, <2>1
<1>7. Contents(Pop(r)) = Tail(Contents(r))
  BY <1>3, <1>5, <1>6, SeqEqual
<1>8. Head(Contents(r)) = Oldest(r)
  <2>1. Head(Contents(r)) = Contents(r)[1] /\ 1 \in 1 .. r.count
    BY <1>1, <1>4
  <2>. QED  BY <1>1, <2>1, OldestFirst
<1>. QED  BY <1>4, <1>7, <1>8

LEMMA PushIsAppend ==
  ASSUME NEW r \in Rings, NEW e \in Nat
  PROVE  /\ ~Full(r) => Contents(Push(r, e)) = Append(Contents(r), e)
         /\ Full(r) => Contents(Push(r, e)) = Append(Tail(Contents(r)), e)
<1>1. ASSUME NEW s \in Rings, ~Full(s)
      PROVE  Contents(Push(s, e)) = Append(Contents(s), e)
  <2>1. /\ Contents(s) \in Seq(Nat) /\ Len(Contents(s)) = s.count
        /\ \A i \in 1 .. s.count : Contents(s)[i] = Entry(s, i)
    BY ContentsSeq
  <2>2. /\ Push(s, e) \in Rings /\ Push(s, e).count = s.count + 1
        /\ \A i \in 1 .. s.count : Entry(Push(s, e), i) = Entry(s, i)
        /\ Entry(Push(s, e), s.count + 1) = e
    BY <1>1, PushEntries
  <2>3. /\ Contents(Push(s, e)) \in Seq(Nat) /\ Len(Contents(Push(s, e))) = s.count + 1
        /\ \A i \in 1 .. s.count + 1 : Contents(Push(s, e))[i] = Entry(Push(s, e), i)
    BY <2>2, ContentsSeq
  <2>4. /\ Append(Contents(s), e) \in Seq(Nat) /\ Len(Append(Contents(s), e)) = s.count + 1
        /\ \A i \in 1 .. s.count : Append(Contents(s), e)[i] = Contents(s)[i]
        /\ Append(Contents(s), e)[s.count + 1] = e
    BY <2>1, AppendProperties
  <2>5. ASSUME NEW i \in 1 .. s.count + 1
        PROVE  Contents(Push(s, e))[i] = Append(Contents(s), e)[i]
    <3>1. s.count \in Nat
      BY DEF Rings
    <3>2. CASE i = s.count + 1
      BY <2>2, <2>3, <2>4, <3>2
    <3>3. CASE i # s.count + 1
      <4>1. i \in 1 .. s.count
        BY <3>1, <3>3
      <4>. QED  BY <2>1, <2>2, <2>3, <2>4, <4>1
    <3>. QED  BY <3>2, <3>3
  <2>. QED  BY <2>3, <2>4, <2>5, SeqEqual
<1>2. CASE Full(r)
  <2>1. r.count = Cap /\ r.count > 0
    BY <1>2 DEF Full
  <2>2. Pop(r) \in Rings /\ Pop(r).count = Cap - 1 /\ ~Full(Pop(r))
    BY <2>1, PopEntries DEF Full
  <2>3. Push(r, e) = Push(Pop(r), e)
    BY <1>2, <2>2 DEF Push
  <2>4. Contents(Push(Pop(r), e)) = Append(Contents(Pop(r)), e)
    BY <1>1, <2>2
  <2>. QED  BY <1>2, <2>1, <2>3, <2>4, PopIsTail
<1>. QED  BY <1>1, <1>2

\* Steps that leave the heartbeats alone leave the feed alone.
LEMMA FeedQuiet ==
  ASSUME UNCHANGED beatVars, Sending' = Sending
  PROVE  UNCHANGED Feed!feedVars
BY DEF beatVars, InHand, Kept, Entry, Feed!feedVars

\* A request that is answered, or whose answer is lost.
LEMMA FeedAnswer ==
  ASSUME RegInv, FlushAnswered \/ LiveAnswered
  PROVE  Feed!Answered \/ Feed!Unanswered \/ UNCHANGED Feed!feedVars
<1>1. ring \in Rings /\ beat \in Nat /\ Ordered
  BY DEF RegInv, TypeOK
<1>2. Sending = {beat} /\ InHand = beat /\ beat > 0 /\ beat' = beat /\ dropped' = dropped
  BY <1>1 DEF Sending, InHand, Ordered, FlushAnswered, LiveAnswered
<1>3. Kept = Contents(ring) /\ Kept' = Contents(ring')
  BY DEF Kept, Contents, Entry
<1>4. CASE FlushAnswered
  <2>1. ring.count > 0 /\ Sending' = {beat} /\ InHand' = beat
    BY <1>1, <1>2, <1>4 DEF FlushAnswered, Ordered, Sending, InHand
  <2>2. Kept # <<>> /\ Head(Kept) = Oldest(ring) /\ Contents(Pop(ring)) = Tail(Kept)
    BY <1>1, <1>3, <2>1, PopIsTail
  <2>3. CASE ring' = Pop(ring) /\ heard' = heard \cup {Oldest(ring)}
    BY <1>2, <1>3, <2>1, <2>2, <2>3 DEF Feed!Answered, Feed!Receive, Feed!Upcoming
  <2>4. CASE ring' = ring /\ heard' = heard \cup {Oldest(ring)}
    BY <1>2, <1>3, <2>1, <2>2, <2>4 DEF Feed!Unanswered, Feed!Receive, Feed!Upcoming
  <2>5. CASE ring' = ring /\ heard' = heard
    BY <1>2, <1>3, <2>1, <2>5 DEF Feed!feedVars
  <2>. QED  BY <1>4, <2>3, <2>4, <2>5 DEF FlushAnswered, Delivered, Failed, Lost
<1>5. CASE LiveAnswered
  <2>1. Kept = <<>> /\ Kept' = Kept
    BY <1>1, <1>3, <1>5, NothingKept DEF LiveAnswered, Ordered
  <2>2. CASE reg' = "post" /\ heard' = heard \cup {beat}
    <3>1. InHand' = 0
      BY <2>2 DEF InHand, Sending
    <3>. QED  BY <1>2, <2>1, <2>2, <3>1 DEF Feed!Answered, Feed!Receive, Feed!Upcoming
  <2>3. ASSUME reg' = "buffer"
        PROVE  InHand' = beat
    BY <1>2, <2>3 DEF InHand, Sending
  <2>4. CASE reg' = "buffer" /\ heard' = heard \cup {beat}
    BY <1>2, <2>1, <2>3, <2>4 DEF Feed!Unanswered, Feed!Receive, Feed!Upcoming
  <2>5. CASE reg' = "buffer" /\ heard' = heard
    BY <1>2, <2>1, <2>3, <2>5 DEF Feed!feedVars
  <2>. QED  BY <1>5, <2>2, <2>4, <2>5 DEF LiveAnswered, Delivered, Failed, Lost
<1>. QED  BY <1>4, <1>5

LEMMA FeedKeep ==
  ASSUME RegInv, BufferBeat
  PROVE  Feed!Keep
<1>1. ring \in Rings /\ beat \in Nat /\ Ordered
  BY DEF RegInv, TypeOK
<1>2. /\ InHand = beat /\ beat > 0 /\ InHand' = 0 /\ beat' = beat /\ heard' = heard
      /\ ring' = Push(ring, beat) /\ dropped' = IF Full(ring) THEN dropped + 1 ELSE dropped
  BY <1>1 DEF Sending, InHand, Ordered, BufferBeat
<1>3. Kept = Contents(ring) /\ Kept' = Contents(ring')
  BY DEF Kept, Contents, Entry
<1>4. Len(Kept) = Cap <=> Full(ring)
  BY <1>1, <1>3, ContentsSeq DEF Full
<1>5. Kept' = IF Full(ring) THEN Append(Tail(Kept), beat) ELSE Append(Kept, beat)
  BY <1>1, <1>2, <1>3, PushIsAppend
<1>. QED  BY <1>2, <1>4, <1>5 DEF Feed!Keep

LEMMA FeedStep ==
  ASSUME RegInv, [Next]_vars
  PROVE  [Feed!FeedNext]_(Feed!feedVars)
<1>1. CASE Aside \/ Flush \/ Live \/ UNCHANGED vars
  <2>1. UNCHANGED beatVars /\ Sending' = Sending
    <3>1. CASE Aside
      BY <3>1, AsideQuiet DEF RegInv, TypeOK
    <3>2. CASE Flush \/ Live \/ UNCHANGED vars
      BY <3>2 DEF Flush, Live, Send, Sending, vars, beatVars
    <3>. QED  BY <1>1, <3>1, <3>2
  <2>. QED  BY <2>1, FeedQuiet
<1>2. CASE WebTask \/ GatewayMoves
  BY <1>2, WebQuiet, FeedQuiet
<1>3. CASE Boot
  <2>1. beat' = 0 /\ InHand' = 0 /\ dropped' = 0 /\ heard' = {} /\ ring' = EmptyRing
    BY <1>3 DEF Boot, InHand, Sending
  <2>2. Kept' = <<>>
    <3>1. Kept' = Contents(EmptyRing)
      BY <2>1 DEF Kept, Contents, Entry
    <3>2. EmptyRing \in Rings /\ EmptyRing.count = 0
      BY EmptyRingType DEF EmptyRing
    <3>. QED  BY <3>1, <3>2, NothingKept
  <2>. QED  BY <2>1, <2>2 DEF Feed!FeedNext, Feed!Restart
<1>4. CASE TakeBeat /\ (Check \/ StoreId)
  <2>1. /\ Sending = {} /\ beat \in Nat /\ beat' = beat + 1
        /\ ring' = ring /\ dropped' = dropped /\ heard' = heard /\ reg' = "flush"
    BY <1>4 DEF RegInv, TypeOK, TakeBeat, Check, StoreId, Sending
  <2>2. InHand = 0 /\ InHand' = beat + 1 /\ Kept' = Kept
    BY <2>1 DEF InHand, Sending, Kept, Entry
  <2>. QED  BY <2>1, <2>2 DEF Feed!FeedNext, Feed!Take
<1>5. CASE FlushAnswered \/ LiveAnswered
  BY <1>5, FeedAnswer DEF Feed!FeedNext
<1>6. CASE BufferBeat
  BY <1>6, FeedKeep DEF Feed!FeedNext
<1>. QED  BY <1>1, <1>2, <1>3, <1>4, <1>5, <1>6, Steps

\* The array of bos_server_reg_heartbeat.c, with its head, its count and its
\* wrapping, is a bounded queue that gives up its oldest entry, for any capacity:
\* each step of the tasks is one of HeartbeatFeed or leaves it alone.
THEOREM RingIsQueue == Spec => ImplementsFeed
<1>1. Init => Feed!FeedInit
  <2>1. ASSUME Init
        PROVE  beat = 0 /\ InHand = 0 /\ dropped = 0 /\ heard = {} /\ Kept = Contents(EmptyRing)
    BY <2>1 DEF Init, InHand, Sending, Kept, Contents
  <2>2. EmptyRing \in Rings /\ EmptyRing.count = 0
    BY EmptyRingType DEF EmptyRing
  <2>. QED  BY <2>1, <2>2, NothingKept DEF Feed!FeedInit
<1>2. RegInv /\ [Next]_vars => [Feed!FeedNext]_(Feed!feedVars)
  BY FeedStep
<1>. QED  BY <1>1, <1>2, Inductive, PTL DEF Spec, ImplementsFeed, Feed!FeedSpec
=============================================================================
