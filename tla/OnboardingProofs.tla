-------------------------- MODULE OnboardingProofs --------------------------
(***************************************************************************)
(* What holds of the start of the border router for any networks, numbers of  *)
(* attempts and identities: it comes back on its network, a network of its     *)
(* own is anchored before it runs, and an identity that was answered is whole.  *)
(***************************************************************************)
EXTENDS Onboarding, WellFoundedInduction, TLAPS

-----------------------------------------------------------------------------
(* The network. *)

\* The dataset the bring-up task would find.
Found == IF settings # NoNet THEN settings ELSE anchor

\* The stores name the chosen network, and the one the task is about to start;
\* what runs is in the settings; the network formed last is in the anchor
\* before it is anywhere else.
NetInv ==
  /\ {settings, anchor, chosen, formed} \subseteq Nets \cup {NoNet}
  /\ running \in {NoNet, settings}
  /\ main = "init" => running = NoNet
  /\ main # "up" => task = "none"
  /\ IF task = "start" THEN tlvs = Found /\ tlvs # NoNet ELSE tlvs = NoNet
  /\ chosen # NoNet => Found = chosen
  /\ settings # NoNet /\ settings = formed => anchor = formed
  /\ BackOnItsNetwork

\* There is a network that nothing holds.
LEMMA NewNetIsNew ==
  ASSUME NetInv
  PROVE  NewNet \in Nets /\ NewNet # NoNet /\ NewNet # formed
<1>1. {tlvs, settings, anchor, running, chosen, formed} \subseteq Nets \cup {NoNet}
  BY DEF NetInv, Found
<1>2. \E n \in Nets : n \notin {tlvs, settings, anchor, running, chosen, formed}
  <2>1. /\ tlvs \in Nets \cup {NoNet} /\ settings \in Nets \cup {NoNet}
        /\ anchor \in Nets \cup {NoNet} /\ running \in Nets \cup {NoNet}
        /\ chosen \in Nets \cup {NoNet} /\ formed \in Nets \cup {NoNet}
    BY <1>1
  <2> DEFINE Spare(a, b, c, d, e, f) == Nets \ {a, b, c, d, e, f} # {}
  <2>2. \A a, b, c, d, e, f \in Nets \cup {NoNet} : Spare(a, b, c, d, e, f)
    BY BringUpAssumption
  <2>3. Spare(tlvs, settings, anchor, running, chosen, formed)
    <3> HIDE DEF Spare
    <3>1. QED
      BY <2>1, <2>2, Zenon
  <2>4. QED
    BY <2>3
<1>3. NewNet \in Nets /\ NewNet \notin {tlvs, settings, anchor, running, chosen, formed}
  BY <1>2, Zenon DEF NewNet
<1>4. QED
  BY <1>3, BringUpAssumption

LEMMA MainKeeps ==
  ASSUME NetInv, Reboots \/ MainStep
  PROVE  NetInv'
<1>1. CASE Reboots
  BY <1>1 DEF Reboots, Restart, NetInv, Found, BackOnItsNetwork
<1>2. CASE NvsErased
  BY <1>2 DEF NvsErased, NetInv, Found, BackOnItsNetwork
<1>3. CASE AppInit \/ BackboneConnect \/ LaunchOpenThread
  BY <1>3 DEF AppInit, BackboneConnect, LaunchOpenThread, NetInv, Found, BackOnItsNetwork
<1>4. QED
  BY <1>1, <1>2, <1>3 DEF MainStep

LEMMA TaskKeeps ==
  ASSUME NetInv, BringUpStep
  PROVE  NetInv'
<1>1. CASE BorderRouterInit \/ BorderRouterReady \/ BringUpFinish
  BY <1>1 DEF BorderRouterInit, BorderRouterReady, BringUpFinish, AttemptFails, NetInv, Found,
              BackOnItsNetwork
<1>2. CASE ApplyStored
  BY <1>2 DEF ApplyStored, NetInv, Found, BackOnItsNetwork
<1>3. CASE FormNew
  <2>1. NewNet \in Nets /\ NewNet # NoNet
    BY NewNetIsNew
  <2>2. settings = NoNet /\ anchor = NoNet /\ running = NoNet /\ chosen = NoNet
    BY <1>3 DEF FormNew, NetInv, Found
  <2>3. QED
    BY <1>3, <2>1, <2>2 DEF FormNew, AttemptFails, NetInv, Found, BackOnItsNetwork
<1>4. CASE AutoStart
  <2>1. tlvs = Found /\ tlvs # NoNet /\ task = "start"
    BY <1>4 DEF AutoStart, NetInv
  <2>2. main # "init"
    BY <2>1 DEF NetInv
  <2>3. QED
    BY <1>4, <2>1, <2>2 DEF AutoStart, AttemptFails, NetInv, Found, BackOnItsNetwork
<1>5. QED
  BY <1>1, <1>2, <1>3, <1>4 DEF BringUpStep

\* The requests of the web server, which find no attempt under way.
LEMMA WebKeeps ==
  ASSUME NetInv, WebNetwork \/ WebPutDataset \/ WebNodeState \/ WebDelete \/ ThreadReset
  PROVE  NetInv'
<1>1. NewNet \in Nets /\ NewNet # NoNet /\ NewNet # formed
  BY NewNetIsNew
<1>2. CASE WebNetwork \/ WebPutDataset
  BY <1>1, <1>2 DEF WebNetwork, WebPutDataset, WebFree, LockFree, webFrame, taskFrame, NetInv, Found,
                    BackOnItsNetwork
<1>3. CASE WebNodeState \/ WebDelete
  BY <1>3 DEF WebNodeState, WebDelete, WebFree, LockFree, webFrame, taskFrame, NetInv, Found,
              BackOnItsNetwork
<1>4. CASE ThreadReset
  BY <1>4 DEF ThreadReset, ThreadResetDown, ThreadResetUp, ThreadResetAbandoned, WebFree, LockFree,
              taskFrame, NetInv, Found, BackOnItsNetwork
<1>5. QED
  BY <1>2, <1>3, <1>4

LEMMA NetAlways == Spec => []NetInv
<1>1. Init => NetInv
  BY DEF Init, BringUpInit, NetInv, Found, BackOnItsNetwork
<1>2. NetInv /\ [Next]_vars => NetInv'
  <2>1. ASSUME NetInv, BringUpNext PROVE NetInv'
    BY <2>1, MainKeeps, TaskKeeps, WebKeeps DEF BringUpNext
  <2>2. ASSUME NetInv, UNCHANGED upVars PROVE NetInv'
    BY <2>2 DEF NetInv, Found, BackOnItsNetwork, upVars
  <2>3. QED
    BY <2>1, <2>2 DEF Next, vars, MeshNext, IdentityNext
<1>3. QED
  BY <1>1, <1>2, PTL DEF Spec

\* Whatever fails, and wherever the power goes, the border router comes back on
\* its network (BackOnItsNetwork; bos_thread_dataset_anchor_apply_or_form).
THEOREM BackOnNetwork == Spec => []BackOnItsNetwork
<1>1. NetInv => BackOnItsNetwork
  BY DEF NetInv
<1>2. QED
  BY <1>1, NetAlways, PTL

\* A network the border router formed runs only once the anchor holds it
\* (OwnNetworkIsAnchored; the same function).
THEOREM OwnAnchored == Spec => []OwnNetworkIsAnchored
<1>1. NetInv => OwnNetworkIsAnchored
  BY DEF NetInv, OwnNetworkIsAnchored
<1>2. QED
  BY <1>1, NetAlways, PTL

-----------------------------------------------------------------------------
(* The identity. *)

\* The keys written so far are of the request that is handled, and what was last
\* answered is in all of them until the next request.
IdentityInv ==
  /\ stored \in [KeyNames -> Identities \cup {NoIdentity}]
  /\ posted \in Identities \cup {NoIdentity} /\ written \in 0 .. 8
  /\ posted # NoIdentity =>
       /\ answered = NoIdentity
       /\ \A i \in 1 .. written : stored[IdentityKeys[i]] = posted
  /\ answered # NoIdentity => \A k \in KeyNames : stored[k] = answered

LEMMA KeysAre ==
  /\ DOMAIN IdentityKeys = 1 .. 8 /\ Len(IdentityKeys) = 8
  /\ \A i \in 1 .. 8 : IdentityKeys[i] \in KeyNames
  /\ \A k \in KeyNames : \E i \in 1 .. 8 : k = IdentityKeys[i]
  /\ "spatial_id" \in KeyNames
<1>1. DOMAIN IdentityKeys = 1 .. 8 /\ Len(IdentityKeys) = 8 /\ IdentityKeys[1] = "spatial_id"
  BY DEF IdentityKeys
<1>2. QED
  BY <1>1, 1 \in 1 .. 8 DEF KeyNames

LEMMA CommissionKeeps ==
  ASSUME IdentityInv, CommissionNext
  PROVE  IdentityInv'
<1>1. ASSUME NEW id \in Identities, CommissionPost(id) PROVE IdentityInv'
  BY <1>1 DEF CommissionPost, IdentityInv
<1>2. CASE PersistNext
  <2>1. written \in 0 .. 7 /\ written' = written + 1 /\ IdentityKeys[written + 1] \in KeyNames
    BY <1>2, KeysAre DEF PersistNext, IdentityInv
  <2>2. stored' = [stored EXCEPT ![IdentityKeys[written + 1]] = posted]
        /\ UNCHANGED <<posted, answered>> /\ posted # NoIdentity
    BY <1>2 DEF PersistNext
  <2>3. \A i \in 1 .. written' : stored'[IdentityKeys[i]] = posted
    BY <2>1, <2>2, KeysAre DEF IdentityInv
  <2>4. stored' \in [KeyNames -> Identities \cup {NoIdentity}]
    BY <2>1, <2>2 DEF IdentityInv
  <2>5. QED
    BY <2>1, <2>2, <2>3, <2>4 DEF IdentityInv
<1>3. CASE PersistFails \/ CommissionCrash
  BY <1>3 DEF PersistFails, CommissionCrash, CommissionEnds, IdentityInv
<1>4. CASE CommissionAnswered
  <2>1. written = 8 /\ posted # NoIdentity /\ posted' = NoIdentity /\ written' = 0
        /\ answered' \in {posted, NoIdentity} /\ stored' = stored
    BY <1>4, KeysAre DEF CommissionAnswered, CommissionEnds
  <2>2. \A k \in KeyNames : stored[k] = posted
    BY <2>1, KeysAre DEF IdentityInv
  <2>3. QED
    BY <2>1, <2>2 DEF IdentityInv
<1>5. QED
  BY <1>1, <1>2, <1>3, <1>4 DEF CommissionNext

LEMMA IdentityAlways == Spec => []IdentityInv
<1>1. Init => IdentityInv
  BY DEF Init, CommissionInit, IdentityInv
<1>2. IdentityInv /\ [Next]_vars => IdentityInv'
  <2>1. ASSUME IdentityInv, UNCHANGED commVars PROVE IdentityInv'
    BY <2>1 DEF IdentityInv, commVars
  <2>2. QED
    BY <2>1, CommissionKeeps DEF Next, vars, MeshNext, IdentityNext
<1>3. QED
  BY <1>1, <1>2, PTL DEF Spec

\* An identity that was answered 200 is the one all fields are of
\* (AnsweredIdentityIsWhole; persist_identity).
THEOREM AnsweredWhole == Spec => []AnsweredIdentityIsWhole
<1>1. IdentityInv => AnsweredIdentityIsWhole
  BY KeysAre DEF IdentityInv, AnsweredIdentityIsWhole, IdentityRead
<1>2. QED
  BY <1>1, IdentityAlways, PTL

-----------------------------------------------------------------------------
(* The queue of joiners: what a recursive function over its slots computes, by
   induction over the number of slots. *)

\* A set of naturals has a first element.
LEMMA FirstOf ==
  ASSUME NEW S \in SUBSET Nat, S # {}
  PROVE  \E k \in S : \A j \in S : k <= j
<1> DEFINE R == OpToRel(<, Nat)
<1>1. IsWellFoundedOn(R, Nat)
  BY NatLessThanWellFounded
<1>2. \A j, k \in Nat : j < k => <<j, k>> \in R
  BY DEF OpToRel
<1> HIDE DEF R
<1>3. PICK k \in S : \A j \in S : <<j, k>> \notin R
  BY <1>1, WFMin
<1>4. S \subseteq Nat
  OBVIOUS
<1>5. \A j \in S : ~(j < k)
  BY <1>2, <1>3, <1>4, Zenon
<1>6. \A j \in S : k <= j
  BY <1>4, <1>5
<1>7. QED
  BY <1>6

\* Induction, with a set for the predicate.
LEMMA Induction ==
  ASSUME NEW S, 0 \in S, \A n \in Nat : n \in S => n + 1 \in S
  PROVE  \A n \in Nat : n \in S
<1> SUFFICES ASSUME Nat \ S # {} PROVE FALSE
  OBVIOUS
<1>1. PICK k \in Nat \ S : \A j \in Nat \ S : k <= j
  BY FirstOf
<1>2. k # 0 /\ k - 1 \in Nat /\ (k - 1) + 1 = k
  BY <1>1
<1>3. k - 1 \in S
  BY <1>1, <1>2
<1>4. QED
  BY <1>1, <1>2, <1>3

\* The last of the slots with a property; slots is any set of them.
LEMMA LastOf ==
  ASSUME NEW n \in Nat, NEW slots \in SUBSET (1 .. n), slots # {}
  PROVE  \E i \in slots : \A j \in slots : j <= i
<1> DEFINE bounds == {b \in Nat : \A j \in slots : j <= b}
<1>1. n \in bounds
  OBVIOUS
<1>2. PICK b \in bounds : \A c \in bounds : b <= c
  BY <1>1, FirstOf
<1>3. b \in slots
  <2> SUFFICES ASSUME b \notin slots PROVE FALSE
    OBVIOUS
  <2>1. \A j \in slots : j \in 1 .. n /\ j <= b /\ j # b
    BY <1>2
  <2>2. b \in Nat /\ b # 0
    <3>1. PICK j \in slots : j \in 1 .. n /\ j <= b
      BY <2>1
    <3>2. b \in Nat
      OBVIOUS
    <3>3. QED
      BY <3>1, <3>2
  <2>3. b - 1 \in bounds
    BY <2>1, <2>2
  <2>4. QED
    BY <1>2, <2>2, <2>3
<1>4. QED
  BY <1>2, <1>3

\* One otCommissionerAddJoiner touches one entry, and a full table stays full.
LEMMA WithJoinerIs ==
  ASSUME NEW table, NEW eui, NEW pskd
  PROVE  LET new == WithJoiner(table, eui, pskd)
         IN  /\ DOMAIN table \subseteq DOMAIN new /\ DOMAIN new \subseteq DOMAIN table \cup {eui}
             /\ \A e \in DOMAIN table : e # eui => new[e] = table[e]
             /\ eui \in DOMAIN new => new[eui] = pskd \/ pskd = BadPskd
             /\ ~Refused(table, eui, pskd) => eui \in DOMAIN new /\ new[eui] = pskd
             /\ Refused(table, eui, pskd) => new = table
             /\ \/ eui \in DOMAIN new
                \/ pskd = BadPskd
                \/ Cardinality(DOMAIN new) = TableMax
             /\ Cardinality(DOMAIN table) = TableMax => Cardinality(DOMAIN new) = TableMax
<1> DEFINE new == WithJoiner(table, eui, pskd)
<1>1. CASE Refused(table, eui, pskd)
  <2>1. new = table
    BY <1>1 DEF WithJoiner
  <2>2. QED
    BY <1>1, <2>1 DEF Refused
<1>2. CASE ~Refused(table, eui, pskd)
  <2>1. new = [e \in DOMAIN table \cup {eui} |-> IF e = eui THEN pskd ELSE table[e]]
    BY <1>2 DEF WithJoiner
  <2> HIDE DEF new
  <2>2. /\ DOMAIN new = DOMAIN table \cup {eui} /\ new[eui] = pskd
        /\ \A e \in DOMAIN table : e # eui => new[e] = table[e]
    BY <2>1
  <2>3. Cardinality(DOMAIN table) = TableMax => DOMAIN new = DOMAIN table
    BY <1>2, <2>2 DEF Refused
  <2>4. QED
    BY <1>2, <2>2, <2>3 DEF new
<1>3. QED
  BY <1>1, <1>2

\* The recursion of AfterSlots has a solution on any number of slots.
LEMMA SlotsSolution ==
  \A n \in Nat : \E g : g = [k \in 0 .. n |->
    IF k = 0 THEN joiners ELSE WithJoiner(g[k - 1], pending[k].eui, pending[k].pskd)]
<1> DEFINE Rule(g, k) == IF k = 0 THEN joiners
                         ELSE WithJoiner(g[k - 1], pending[k].eui, pending[k].pskd)
           S == {n \in Nat : \E g : g = [k \in 0 .. n |-> Rule(g, k)]}
<1>1. 0 \in S
  <2> DEFINE g == [k \in 0 .. 0 |-> joiners]
  <2>1. g = [k \in 0 .. 0 |-> Rule(g, k)]
    OBVIOUS
  <2>2. QED
    BY <2>1
<1>2. ASSUME NEW n \in Nat, n \in S PROVE n + 1 \in S
  <2>1. PICK g : g = [k \in 0 .. n |-> Rule(g, k)]
    BY <1>2
  <2> DEFINE h == [k \in 0 .. n + 1 |->
                     IF k = n + 1 THEN WithJoiner(g[n], pending[n + 1].eui, pending[n + 1].pskd)
                     ELSE g[k]]
  <2>2. ASSUME NEW k \in 0 .. n + 1 PROVE h[k] = Rule(h, k)
    <3>1. CASE k = n + 1
      <4>1. h[k] = WithJoiner(g[n], pending[n + 1].eui, pending[n + 1].pskd)
        BY <3>1
      <4>2. n \in 0 .. n + 1 /\ n # n + 1 /\ k - 1 = n /\ k # 0
        BY <3>1
      <4>3. h[k - 1] = g[n]
        BY <4>2
      <4> HIDE DEF h
      <4>4. QED
        BY <3>1, <4>1, <4>2, <4>3
    <3>2. CASE k # n + 1
      <4>1. k \in 0 .. n
        BY <3>2
      <4>2. h[k] = g[k] /\ g[k] = Rule(g, k)
        BY <2>1, <3>2, <4>1
      <4>3. k # 0 => k - 1 \in 0 .. n + 1 /\ k - 1 # n + 1
        BY <4>1
      <4>4. k # 0 => h[k - 1] = g[k - 1]
        BY <4>3
      <4> HIDE DEF h
      <4>5. QED
        BY <4>2, <4>4
    <3>3. QED
      BY <3>1, <3>2
  <2>3. h = [k \in 0 .. n + 1 |-> Rule(h, k)]
    <3>1. h = [k \in 0 .. n + 1 |-> h[k]]
      OBVIOUS
    <3> HIDE DEF h, Rule
    <3>2. QED
      BY <2>2, <3>1
  <2> HIDE DEF h
  <2>4. n + 1 \in Nat /\ \E f : f = [k \in 0 .. n + 1 |-> Rule(f, k)]
    BY <2>3
  <2>5. QED
    BY <2>4
<1> HIDE DEF S
<1>3. \A n \in Nat : n \in S
  BY <1>1, <1>2, Induction
<1>4. QED
  BY <1>3 DEF S

LEMMA SlotBySlot ==
  ASSUME pending \in Seq(Entry)
  PROVE  /\ AfterSlots[0] = joiners
         /\ \A n \in 1 .. Len(pending) :
              AfterSlots[n] = WithJoiner(AfterSlots[n - 1], pending[n].eui, pending[n].pskd)
<1>1. Len(pending) \in Nat
  OBVIOUS
<1>2. \E g : g = [k \in 0 .. Len(pending) |->
        IF k = 0 THEN joiners ELSE WithJoiner(g[k - 1], pending[k].eui, pending[k].pskd)]
  BY <1>1, SlotsSolution
<1>3. AfterSlots = [k \in 0 .. Len(pending) |->
        IF k = 0 THEN joiners ELSE WithJoiner(AfterSlots[k - 1], pending[k].eui, pending[k].pskd)]
  BY <1>2 DEF AfterSlots
<1>4. AfterSlots[0] = joiners
  BY <1>1, <1>3
<1>5. ASSUME NEW n \in 1 .. Len(pending)
      PROVE  AfterSlots[n] = WithJoiner(AfterSlots[n - 1], pending[n].eui, pending[n].pskd)
  <2>1. n \in 0 .. Len(pending) /\ n # 0
    BY <1>1
  <2>2. QED
    BY <1>3, <2>1
<1>6. QED
  BY <1>4, <1>5

\* What the table holds after the first n slots: only joiners of the table before
\* and of those slots, each with its own entry or the one its last slot holds; a
\* slot without an entry was refused, or found the table full.
SlotsAre(n, table) ==
  /\ DOMAIN table \subseteq DOMAIN joiners \cup {pending[i].eui : i \in 1 .. n}
  /\ \A e \in DOMAIN table : table[e] \in Pskds
  /\ \A e \in DOMAIN table :
       (\A i \in 1 .. n : pending[i].eui # e) => e \in DOMAIN joiners /\ table[e] = joiners[e]
  /\ \A i \in 1 .. n :
       /\ pending[i].eui \in DOMAIN table
       /\ \A j \in 1 .. n : j > i => pending[j].eui # pending[i].eui
       => table[pending[i].eui] = pending[i].pskd \/ pending[i].pskd = BadPskd
  /\ \A i \in 1 .. n :
       \/ pending[i].eui \in DOMAIN table
       \/ pending[i].pskd = BadPskd
       \/ Cardinality(DOMAIN table) = TableMax

LEMMA SlotStep ==
  ASSUME NEW n \in Nat, NEW table, SlotsAre(n, table), pending[n + 1] \in Entry
  PROVE  SlotsAre(n + 1, WithJoiner(table, pending[n + 1].eui, pending[n + 1].pskd))
<1> DEFINE eui == pending[n + 1].eui
           pskd == pending[n + 1].pskd
           new == WithJoiner(table, eui, pskd)
<1>1. /\ DOMAIN table \subseteq DOMAIN new /\ DOMAIN new \subseteq DOMAIN table \cup {eui}
      /\ \A e \in DOMAIN table : e # eui => new[e] = table[e]
      /\ eui \in DOMAIN new => new[eui] = pskd \/ pskd = BadPskd
      /\ ~Refused(table, eui, pskd) => eui \in DOMAIN new /\ new[eui] = pskd
      /\ Refused(table, eui, pskd) => new = table
      /\ eui \in DOMAIN new \/ pskd = BadPskd \/ Cardinality(DOMAIN new) = TableMax
      /\ Cardinality(DOMAIN table) = TableMax => Cardinality(DOMAIN new) = TableMax
  BY WithJoinerIs
<1>2. eui = pending[n + 1].eui /\ pskd = pending[n + 1].pskd /\ pskd \in Pskds
  BY DEF Entry
<1>3. 1 .. n + 1 = (1 .. n) \cup {n + 1}
  OBVIOUS
<1> HIDE DEF eui, pskd, new
<1>4. DOMAIN new \subseteq DOMAIN joiners \cup {pending[i].eui : i \in 1 .. n + 1}
  BY <1>1, <1>2, <1>3 DEF SlotsAre
<1>5. \A e \in DOMAIN new : new[e] \in Pskds
  BY <1>1, <1>2 DEF SlotsAre
<1>6. \A e \in DOMAIN new :
        (\A i \in 1 .. n + 1 : pending[i].eui # e) => e \in DOMAIN joiners /\ new[e] = joiners[e]
  BY <1>1, <1>2, <1>3 DEF SlotsAre
<1>7. ASSUME NEW i \in 1 .. n + 1, pending[i].eui \in DOMAIN new,
             \A j \in 1 .. n + 1 : j > i => pending[j].eui # pending[i].eui
      PROVE  new[pending[i].eui] = pending[i].pskd \/ pending[i].pskd = BadPskd
  <2>1. CASE i = n + 1
    BY <1>1, <1>2, <1>7, <2>1
  <2>2. CASE i # n + 1
    <3>1. i \in 1 .. n /\ n + 1 > i /\ n + 1 \in 1 .. n + 1
      BY <2>2
    <3>2. eui # pending[i].eui
      BY <1>2, <1>7, <3>1
    <3>3. pending[i].eui \in DOMAIN table /\ new[pending[i].eui] = table[pending[i].eui]
      BY <1>1, <1>7, <3>2
    <3>4. \A j \in 1 .. n : j > i => pending[j].eui # pending[i].eui
      BY <1>3, <1>7
    <3>5. QED
      BY <3>1, <3>3, <3>4 DEF SlotsAre
  <2>3. QED
    BY <2>1, <2>2
<1>8. \A i \in 1 .. n + 1 :
        \/ pending[i].eui \in DOMAIN new
        \/ pending[i].pskd = BadPskd
        \/ Cardinality(DOMAIN new) = TableMax
  <2>1. ASSUME NEW i \in 1 .. n
        PROVE  \/ pending[i].eui \in DOMAIN new
               \/ pending[i].pskd = BadPskd
               \/ Cardinality(DOMAIN new) = TableMax
    BY <1>1 DEF SlotsAre
  <2>2. QED
    BY <1>1, <1>2, <1>3, <2>1
<1>9. SlotsAre(n + 1, new)
  BY <1>4, <1>5, <1>6, <1>7, <1>8 DEF SlotsAre
<1>10. QED
  BY <1>9 DEF new, eui, pskd

LEMMA FlushedIs ==
  ASSUME pending \in Seq(Entry), \A e \in DOMAIN joiners : joiners[e] \in Pskds
  PROVE  SlotsAre(Len(pending), Flushed)
<1> DEFINE S == {n \in Nat : n <= Len(pending) => SlotsAre(n, AfterSlots[n])}
<1>1. 0 \in S
  <2>1. 1 .. 0 = {}
    OBVIOUS
  <2>2. SlotsAre(0, joiners)
    BY <2>1 DEF SlotsAre
  <2>3. QED
    BY <2>2, SlotBySlot
<1>2. ASSUME NEW n \in Nat, n \in S PROVE n + 1 \in S
  <2> SUFFICES ASSUME n + 1 <= Len(pending) PROVE SlotsAre(n + 1, AfterSlots[n + 1])
    OBVIOUS
  <2>1. n <= Len(pending) /\ n + 1 \in 1 .. Len(pending) /\ (n + 1) - 1 = n
    OBVIOUS
  <2>2. SlotsAre(n, AfterSlots[n])
    BY <1>2, <2>1
  <2>3. pending[n + 1] \in Entry
    BY <2>1
  <2>4. AfterSlots[n + 1] = WithJoiner(AfterSlots[n], pending[n + 1].eui, pending[n + 1].pskd)
    BY <2>1, SlotBySlot
  <2>5. QED
    BY <2>2, <2>3, <2>4, SlotStep
<1> HIDE DEF S
<1>3. \A n \in Nat : n \in S
  BY <1>1, <1>2, Induction
<1>4. Len(pending) \in Nat /\ Len(pending) \in S
  BY <1>3
<1>5. QED
  BY <1>4 DEF S, Flushed

\* The entry of a joiner after the queue is added: the one last accepted for it.
LEMMA FlushedCredentials ==
  ASSUME JoinerTypeOK, CredentialInv, NEW e \in Euis, e \in DOMAIN Flushed
  PROVE  Flushed[e] = accepted[e] \/ accepted[e] = BadPskd
<1> DEFINE slots == {i \in 1 .. Len(pending) : pending[i].eui = e}
<1>1. /\ pending \in Seq(Entry) /\ Len(pending) \in Nat /\ DOMAIN pending = 1 .. Len(pending)
      /\ SlotsAre(Len(pending), Flushed)
  BY FlushedIs DEF JoinerTypeOK
<1>2. CASE slots = {}
  <2>1. \A i \in 1 .. Len(pending) : pending[i].eui # e
    BY <1>2
  <2>2. e \in DOMAIN joiners /\ Flushed[e] = joiners[e]
    BY <1>1, <2>1 DEF SlotsAre
  <2>3. joiners[e] = accepted[e] \/ accepted[e] = BadPskd
    BY <1>1, <2>1, <2>2 DEF CredentialInv
  <2>4. QED
    BY <2>2, <2>3
<1>3. CASE slots # {}
  <2>1. PICK i \in slots : \A j \in slots : j <= i
    BY <1>1, <1>3, LastOf
  <2>2. /\ i \in 1 .. Len(pending) /\ pending[i].eui = e
        /\ \A j \in 1 .. Len(pending) : j > i => pending[j].eui # pending[i].eui
    BY <1>1, <2>1
  <2>3. pending[i].pskd = accepted[e]
    BY <1>1, <2>2 DEF CredentialInv
  <2>4. Flushed[e] = pending[i].pskd \/ pending[i].pskd = BadPskd
    BY <1>1, <2>2 DEF SlotsAre
  <2>5. QED
    BY <2>3, <2>4
<1>4. QED
  BY <1>2, <1>3

QueueInv == JoinerTypeOK /\ CredentialInv

\* The table the queue is added to is of joiners and credentials.
LEMMA FlushedTyped ==
  ASSUME JoinerTypeOK
  PROVE  /\ DOMAIN Flushed \subseteq Euis \cup {AnyEui}
         /\ \A e \in DOMAIN Flushed : Flushed[e] \in Pskds
<1>1. /\ pending \in Seq(Entry) /\ DOMAIN pending = 1 .. Len(pending)
      /\ SlotsAre(Len(pending), Flushed) /\ DOMAIN joiners \subseteq Euis \cup {AnyEui}
  BY FlushedIs DEF JoinerTypeOK
<1>2. \A i \in 1 .. Len(pending) : pending[i].eui \in Euis
  <2>1. ASSUME NEW i \in 1 .. Len(pending) PROVE pending[i] \in Entry
    BY <1>1
  <2>2. QED
    BY <2>1 DEF Entry
<1>3. QED
  BY <1>1, <1>2 DEF SlotsAre

LEMMA AcceptKeeps ==
  ASSUME QueueInv, NEW e \in Euis, NEW p \in Pskds, AcceptActive(e, p) \/ AcceptQueued(e, p)
  PROVE  QueueInv'
<1>1. CASE AcceptActive(e, p)
  <2> DEFINE new == WithJoiner(Flushed, e, p)
  <2>1. /\ DOMAIN new \subseteq DOMAIN Flushed \cup {e}
        /\ \A f \in DOMAIN Flushed : f # e => new[f] = Flushed[f]
        /\ e \in DOMAIN new => new[e] = p \/ p = BadPskd
        /\ ~Refused(Flushed, e, p) => e \in DOMAIN new /\ new[e] = p
        /\ Refused(Flushed, e, p) => new = Flushed
    BY WithJoinerIs
  <2>2. /\ comm = "active" /\ comm' = comm /\ owner' = owner
        /\ joiners' = new /\ pending' = <<>>
        /\ IF Refused(Flushed, e, p) THEN accepted' = accepted
           ELSE accepted' = [accepted EXCEPT ![e] = p]
    BY <1>1 DEF AcceptActive, Accepted
  <2> HIDE DEF new
  <2>3. /\ accepted' \in [Euis -> Pskds \cup {NoPskd}]
        /\ \A f \in Euis : f # e => accepted'[f] = accepted[f]
        /\ ~Refused(Flushed, e, p) => accepted'[e] = p
    BY <2>2 DEF QueueInv, JoinerTypeOK
  <2>4. /\ DOMAIN Flushed \subseteq Euis \cup {AnyEui}
        /\ \A f \in DOMAIN Flushed : Flushed[f] \in Pskds
    BY FlushedTyped DEF QueueInv
  <2>5. DOMAIN joiners' \subseteq Euis \cup {AnyEui} /\ \A f \in DOMAIN joiners' : joiners'[f] \in Pskds
    BY <2>1, <2>2, <2>4
  <2>6. JoinerTypeOK'
    BY <2>2, <2>3, <2>5, JoinerAssumption DEF QueueInv, JoinerTypeOK
  <2>7. ASSUME NEW f \in Euis \cap DOMAIN joiners'
        PROVE  joiners'[f] = accepted'[f] \/ accepted'[f] = BadPskd
    <3>1. CASE Refused(Flushed, e, p)
      BY <2>1, <2>2, <2>7, <3>1, FlushedCredentials DEF QueueInv
    <3>2. CASE ~Refused(Flushed, e, p) /\ f = e
      BY <2>1, <2>2, <2>3, <3>2
    <3>3. CASE ~Refused(Flushed, e, p) /\ f # e
      <4>1. f \in DOMAIN Flushed /\ joiners'[f] = Flushed[f] /\ accepted'[f] = accepted[f]
        BY <2>1, <2>2, <2>3, <2>7, <3>3
      <4>2. QED
        BY <4>1, FlushedCredentials DEF QueueInv
    <3>4. QED
      BY <3>1, <3>2, <3>3
  <2>8. CredentialInv'
    BY <2>2, <2>7 DEF CredentialInv
  <2>9. QED
    BY <2>6, <2>8 DEF QueueInv
<1>2. CASE AcceptQueued(e, p)
  <2>1. /\ comm # "active" /\ comm' = "petition" /\ owner' \in {"bos", owner}
        /\ Len(pending) < PendingMax /\ pending' = Append(pending, [eui |-> e, pskd |-> p])
        /\ accepted' = [accepted EXCEPT ![e] = p] /\ joiners' = joiners
    BY <1>2 DEF AcceptQueued, Accepted
  <2>2. pending \in Seq(Entry) /\ [eui |-> e, pskd |-> p] \in Entry
    BY DEF QueueInv, JoinerTypeOK, Entry
  <2>3. /\ pending' \in Seq(Entry) /\ Len(pending') = Len(pending) + 1
        /\ DOMAIN pending = 1 .. Len(pending) /\ DOMAIN pending' = 1 .. Len(pending) + 1
        /\ pending'[Len(pending) + 1] = [eui |-> e, pskd |-> p]
        /\ \A i \in DOMAIN pending : pending'[i] = pending[i]
        /\ Len(pending) \in Nat
    BY <2>1, <2>2
  <2>4. /\ accepted' \in [Euis -> Pskds \cup {NoPskd}] /\ accepted'[e] = p
        /\ \A f \in Euis : f # e => accepted'[f] = accepted[f]
    BY <2>1 DEF QueueInv, JoinerTypeOK
  <2>5. JoinerTypeOK'
    BY <2>1, <2>3, <2>4, JoinerAssumption DEF QueueInv, JoinerTypeOK
  <2>6. DOMAIN joiners' = {}
    BY <2>1 DEF QueueInv, CredentialInv
  <2>7. ASSUME NEW i \in DOMAIN pending',
               \A j \in DOMAIN pending' : j > i => pending'[j].eui # pending'[i].eui
        PROVE  pending'[i].pskd = accepted'[pending'[i].eui]
    <3>1. CASE i = Len(pending) + 1
      BY <2>3, <2>4, <3>1
    <3>2. CASE i # Len(pending) + 1
      <4>1. /\ i \in DOMAIN pending /\ pending'[i] = pending[i] /\ pending[i].eui \in Euis
            /\ Len(pending) + 1 > i /\ Len(pending) + 1 \in DOMAIN pending'
        <5>1. i \in 1 .. Len(pending) /\ Len(pending) + 1 > i
              /\ Len(pending) + 1 \in DOMAIN pending'
          BY <2>3, <3>2
        <5>2. pending[i] \in Entry
          BY <2>2, <5>1
        <5>3. QED
          BY <2>3, <5>1, <5>2 DEF Entry
      <4>2. pending[i].eui # e
        BY <2>3, <2>7, <4>1
      <4>3. \A j \in DOMAIN pending : j > i => pending[j].eui # pending[i].eui
        BY <2>3, <2>7, <4>1
      <4>4. pending[i].pskd = accepted[pending[i].eui]
        BY <4>1, <4>3 DEF QueueInv, CredentialInv
      <4>5. QED
        BY <2>4, <4>1, <4>2, <4>4
    <3>3. QED
      BY <3>1, <3>2
  <2>8. CredentialInv'
    BY <2>6, <2>7 DEF CredentialInv
  <2>9. QED
    BY <2>5, <2>8 DEF QueueInv
<1>3. QED
  BY <1>1, <1>2

LEMMA OthersKeepQueue ==
  ASSUME QueueInv,
         \/ AcceptNotStarted \/ WebStarts \/ PetitionGranted \/ CommissionerStops
         \/ \E p \in Pskds : WebAdds(p)
         \/ \E e \in Euis \cup {AnyEui} : EntryRemoved(e)
  PROVE  QueueInv'
<1>1. CASE AcceptNotStarted
  BY <1>1, JoinerAssumption DEF AcceptNotStarted, QueueInv, JoinerTypeOK, CredentialInv
<1>2. CASE WebStarts
  BY <1>2 DEF WebStarts, QueueInv, JoinerTypeOK, CredentialInv
<1>3. CASE CommissionerStops
  <2>1. DOMAIN joiners' = {} /\ pending' \in {<<>>, pending}
    BY <1>3 DEF CommissionerStops, NoJoiners
  <2>2. QED
    BY <1>3, <2>1, JoinerAssumption DEF CommissionerStops, QueueInv, JoinerTypeOK, CredentialInv
<1>4. CASE PetitionGranted /\ owner = "bos"
  <2>1. /\ comm' = "active" /\ joiners' = Flushed /\ pending' = <<>>
        /\ owner' = owner /\ accepted' = accepted
    BY <1>4 DEF PetitionGranted
  <2>2. JoinerTypeOK'
    BY <2>1, FlushedTyped, JoinerAssumption DEF QueueInv, JoinerTypeOK
  <2>3. CredentialInv'
    BY <2>1, FlushedCredentials DEF QueueInv, CredentialInv
  <2>4. QED
    BY <2>2, <2>3 DEF QueueInv
<1>5. CASE PetitionGranted /\ owner # "bos"
  BY <1>5 DEF PetitionGranted, QueueInv, JoinerTypeOK, CredentialInv
<1>6. ASSUME NEW p \in Pskds, WebAdds(p) PROVE QueueInv'
  <2> DEFINE new == WithJoiner(joiners, AnyEui, p)
  <2>1. /\ DOMAIN new \subseteq DOMAIN joiners \cup {AnyEui}
        /\ \A f \in DOMAIN joiners : f # AnyEui => new[f] = joiners[f]
        /\ ~Refused(joiners, AnyEui, p) => AnyEui \in DOMAIN new /\ new[AnyEui] = p
        /\ Refused(joiners, AnyEui, p) => new = joiners
    BY WithJoinerIs
  <2>2. /\ comm = "active" /\ joiners' = new
        /\ UNCHANGED <<comm, owner, pending, accepted>>
    BY <1>6 DEF WebAdds
  <2> HIDE DEF new
  <2>3. \A f \in DOMAIN joiners' : joiners'[f] \in Pskds
    BY <2>1, <2>2 DEF QueueInv, JoinerTypeOK
  <2>4. JoinerTypeOK'
    BY <2>1, <2>2, <2>3 DEF QueueInv, JoinerTypeOK
  <2>5. \A f \in Euis \cap DOMAIN joiners' : f \in DOMAIN joiners /\ joiners'[f] = joiners[f]
    BY <2>1, <2>2, JoinerAssumption
  <2>6. CredentialInv'
    BY <2>2, <2>5 DEF QueueInv, CredentialInv
  <2>7. QED
    BY <2>4, <2>6 DEF QueueInv
<1>7. ASSUME NEW e \in Euis \cup {AnyEui}, EntryRemoved(e) PROVE QueueInv'
  <2>1. /\ DOMAIN joiners' = DOMAIN joiners \ {e}
        /\ \A f \in DOMAIN joiners' : joiners'[f] = joiners[f]
        /\ UNCHANGED <<comm, owner, pending, accepted>>
    BY <1>7 DEF EntryRemoved
  <2>2. QED
    BY <2>1 DEF QueueInv, JoinerTypeOK, CredentialInv
<1>8. QED
  BY <1>1, <1>2, <1>3, <1>4, <1>5, <1>6, <1>7

LEMMA QueueAlways == Spec => []QueueInv
<1>1. Init => QueueInv
  <2>1. ASSUME JoinerInit PROVE JoinerTypeOK /\ DOMAIN joiners = {} /\ DOMAIN pending = {}
    BY <2>1, JoinerAssumption DEF JoinerInit, JoinerTypeOK, NoJoiners
  <2>2. QED
    BY <2>1 DEF Init, QueueInv, CredentialInv
<1>2. QueueInv /\ [Next]_vars => QueueInv'
  <2>1. ASSUME QueueInv, JoinerNext PROVE QueueInv'
    BY <2>1, AcceptKeeps, OthersKeepQueue DEF JoinerNext
  <2>2. ASSUME QueueInv, JoinerForgets PROVE QueueInv'
    <3>1. JoinerTypeOK' /\ DOMAIN joiners' = {} /\ DOMAIN pending' = {}
      BY <2>2, JoinerAssumption DEF JoinerForgets, JoinerTypeOK, NoJoiners
    <3>2. QED
      BY <3>1 DEF QueueInv, CredentialInv
  <2>3. ASSUME QueueInv, UNCHANGED joinerVars PROVE QueueInv'
    BY <2>3 DEF joinerVars, QueueInv, JoinerTypeOK, CredentialInv
  <2>4. QED
    BY <2>1, <2>2, <2>3 DEF Next, vars, MeshNext, JoinerStep, IdentityNext
<1>3. QED
  BY <1>1, <1>2, PTL DEF Spec

\* The last slot of a joiner is the largest index that holds it.
LEMMA LastSlot ==
  ASSUME pending \in Seq(Entry), NEW e,
         NEW slots, slots = {i \in DOMAIN pending : pending[i].eui = e}, slots # {}
  PROVE  /\ Max(slots) \in DOMAIN pending /\ pending[Max(slots)].eui = e
         /\ \A j \in DOMAIN pending : j > Max(slots) => pending[j].eui # e
<1>1. DOMAIN pending = 1 .. Len(pending) /\ Len(pending) \in Nat
  OBVIOUS
<1>2. PICK i \in slots : \A j \in slots : j <= i
  BY <1>1, LastOf
<1>3. Max(slots) \in slots /\ \A j \in slots : j <= Max(slots)
  <2>1. \E x \in slots : \A y \in slots : x >= y
    BY <1>1, <1>2
  <2>2. QED
    BY <2>1, Zenon DEF Max
<1>4. Max(slots) \in Nat /\ DOMAIN pending \subseteq Nat
  BY <1>1, <1>3
<1> DEFINE m == Max(slots)
<1>5. m \in Nat /\ m \in slots /\ \A j \in slots : j <= m
  BY <1>3, <1>4
<1> HIDE DEF m
<1>6. m \in DOMAIN pending /\ pending[m].eui = e
  BY <1>5
<1>7. ASSUME NEW j \in DOMAIN pending, j > m PROVE pending[j].eui # e
  BY <1>4, <1>5, <1>7
<1>8. QED
  BY <1>6, <1>7 DEF m

\* Whatever order accepts, petitions of either owner and lost sessions come in,
\* the credential in force for a joiner is the one last accepted
\* (LastAcceptedWins; flush_pending_joiners after enqueue_pending_joiner).
THEOREM LastCredentialWins == Spec => []LastAcceptedWins
<1>1. QueueInv => LastAcceptedWins
  <2> SUFFICES ASSUME QueueInv, NEW e \in Euis,
                      e \in DOMAIN joiners \cup {pending[i].eui : i \in DOMAIN pending}
               PROVE  Effective(e) = accepted[e] \/ accepted[e] = BadPskd
    BY DEF LastAcceptedWins, JoinerStatus
  <2> DEFINE slots == {i \in DOMAIN pending : pending[i].eui = e}
  <2>1. CASE slots = {}
    <3>1. Effective(e) = joiners[e]
      BY <2>1 DEF Effective
    <3>2. QED
      BY <2>1, <3>1 DEF QueueInv, CredentialInv
  <2>2. CASE slots # {}
    <3>1. Effective(e) = pending[Max(slots)].pskd
      BY <2>2 DEF Effective
    <3>2. /\ Max(slots) \in DOMAIN pending /\ pending[Max(slots)].eui = e
          /\ \A j \in DOMAIN pending : j > Max(slots) => pending[j].eui # e
      BY <2>2, LastSlot DEF QueueInv, JoinerTypeOK
    <3> HIDE DEF slots
    <3>3. pending[Max(slots)].pskd = accepted[e]
      BY <3>2 DEF QueueInv, CredentialInv
    <3>4. QED
      BY <3>1, <3>3
  <2>3. QED
    BY <2>1, <2>2
<1>2. QED
  BY <1>1, QueueAlways, PTL

\* The accepted queue is added, or refused by OpenThread, in the step that empties
\* it (QueuedIsNotForgotten; flush_pending_joiners and commissioner_state_callback).
THEOREM QueueNotForgotten == Spec => QueuedIsNotForgotten
<1> DEFINE Kept(i) == \/ pending[i].eui \in DOMAIN joiners'
                      \/ pending[i].pskd = BadPskd
                      \/ Cardinality(DOMAIN joiners') = TableMax
           Step == pending' = <<>> /\ comm' # "disabled" => \A i \in DOMAIN pending : Kept(i)
<1>1. ASSUME QueueInv PROVE DOMAIN pending = 1 .. Len(pending) /\ SlotsAre(Len(pending), Flushed)
  BY <1>1, FlushedIs DEF QueueInv, JoinerTypeOK
<1>2. ASSUME QueueInv, JoinerNext PROVE Step
  <2>1. ASSUME NEW e \in Euis, NEW p \in Pskds, AcceptActive(e, p) PROVE Step
    <3> DEFINE new == WithJoiner(Flushed, e, p)
    <3>1. /\ DOMAIN Flushed \subseteq DOMAIN new
          /\ Cardinality(DOMAIN Flushed) = TableMax => Cardinality(DOMAIN new) = TableMax
      BY WithJoinerIs
    <3>2. joiners' = new
      BY <2>1 DEF AcceptActive
    <3> HIDE DEF new
    <3>3. ASSUME NEW i \in DOMAIN pending PROVE Kept(i)
      BY <1>1, <1>2, <3>1, <3>2 DEF SlotsAre
    <3>4. QED
      BY <3>3
  <2>2. ASSUME NEW e \in Euis, NEW p \in Pskds, AcceptQueued(e, p) PROVE Step
    <3>1. pending \in Seq(Entry) /\ pending' = Append(pending, [eui |-> e, pskd |-> p])
      BY <1>2, <2>2 DEF AcceptQueued, QueueInv, JoinerTypeOK
    <3>2. pending' # <<>>
      BY <3>1
    <3>3. QED
      BY <3>2
  <2>3. CASE AcceptNotStarted \/ CommissionerStops
    BY <2>3 DEF AcceptNotStarted, CommissionerStops
  <2>4. CASE PetitionGranted /\ owner = "bos"
    <3>1. joiners' = Flushed
      BY <2>4 DEF PetitionGranted
    <3>2. ASSUME NEW i \in DOMAIN pending PROVE Kept(i)
      BY <1>1, <1>2, <3>1 DEF SlotsAre
    <3>3. QED
      BY <3>2
  <2>5. ASSUME pending' = pending PROVE Step
    BY <2>5
  <2>6. CASE (PetitionGranted /\ owner # "bos") \/ WebStarts
    BY <2>5, <2>6 DEF PetitionGranted, WebStarts
  <2>7. ASSUME (\E p \in Pskds : WebAdds(p)) \/ (\E e \in Euis \cup {AnyEui} : EntryRemoved(e))
        PROVE  Step
    BY <2>5, <2>7 DEF WebAdds, EntryRemoved
  <2>8. QED
    BY <1>2, <2>1, <2>2, <2>3, <2>4, <2>6, <2>7 DEF JoinerNext
<1>3. ASSUME QueueInv, [Next]_vars PROVE Step \/ UNCHANGED joinerVars
  <2>1. ASSUME JoinerForgets PROVE Step
    BY <2>1 DEF JoinerForgets
  <2> HIDE DEF Step
  <2>2. QED
    BY <1>2, <1>3, <2>1 DEF Next, vars, MeshNext, JoinerStep, IdentityNext, joinerVars
<1>4. QueueInv /\ [Next]_vars =>
        [\A i \in DOMAIN pending :
           pending' = <<>> /\ comm' # "disabled" =>
             \/ pending[i].eui \in JoinerStatus'.joiners
             \/ pending[i].pskd = BadPskd
             \/ Cardinality(JoinerStatus'.joiners) = TableMax]_joinerVars
  BY <1>3 DEF JoinerStatus
<1>5. QED
  BY <1>4, QueueAlways, PTL DEF Spec, QueuedIsNotForgotten

-----------------------------------------------------------------------------
(* Types. *)

LEMMA TypedStart ==
  ASSUME NetInv, BringUpTypeOK, MainStep \/ BringUpStep \/ Reboots
  PROVE  BringUpTypeOK'
<1>1. MaxAttempts \in Nat /\ MaxAttempts > 0 /\ tries \in 0 .. MaxAttempts
  BY BringUpAssumption DEF BringUpTypeOK
<1>2. 0 \in 0 .. MaxAttempts /\ 1 \in 0 .. MaxAttempts
  BY <1>1
<1>3. ASSUME AttemptFails PROVE tries' \in 0 .. MaxAttempts /\ task' \in {"attempt", "finish"}
  BY <1>1, <1>3 DEF AttemptFails
<1>4. CASE Reboots
  BY <1>2, <1>4 DEF Reboots, Restart, BringUpTypeOK
<1>5. CASE NvsErased /\ UNCHANGED reset
  BY <1>5 DEF NvsErased, BringUpTypeOK
<1>6. CASE (AppInit \/ BackboneConnect \/ LaunchOpenThread) /\ UNCHANGED reset
  <2>1. tries' \in 0 .. MaxAttempts
    BY <1>1, <1>2, <1>6 DEF AppInit, BackboneConnect, LaunchOpenThread
  <2>2. QED
    BY <1>6, <2>1 DEF AppInit, BackboneConnect, LaunchOpenThread, BringUpTypeOK
<1>7. CASE (BorderRouterInit \/ BorderRouterReady \/ BringUpFinish) /\ UNCHANGED reset
  BY <1>3, <1>7 DEF BorderRouterInit, BorderRouterReady, BringUpFinish, BringUpTypeOK
<1>8. CASE ApplyStored /\ UNCHANGED reset
  BY <1>8 DEF ApplyStored, BringUpTypeOK
<1>9. CASE FormNew /\ UNCHANGED reset
  BY <1>3, <1>9, NewNetIsNew DEF FormNew, BringUpTypeOK
<1>10. CASE AutoStart /\ UNCHANGED reset
  BY <1>3, <1>10 DEF AutoStart, BringUpTypeOK
<1>11. QED
  BY <1>4, <1>5, <1>6, <1>7, <1>8, <1>9, <1>10 DEF MainStep, BringUpStep

LEMMA TypedRequest ==
  ASSUME NetInv, BringUpTypeOK,
         WebNetwork \/ WebPutDataset \/ WebNodeState \/ WebDelete \/ ThreadReset
  PROVE  BringUpTypeOK'
<1>1. CASE WebNetwork \/ WebPutDataset
  BY <1>1, NewNetIsNew DEF WebNetwork, WebPutDataset, webFrame, taskFrame, BringUpTypeOK
<1>2. CASE WebNodeState \/ WebDelete
  BY <1>2 DEF WebNodeState, WebDelete, webFrame, taskFrame, BringUpTypeOK
<1>3. CASE ThreadReset
  BY <1>3 DEF ThreadReset, ThreadResetDown, ThreadResetUp, ThreadResetAbandoned, taskFrame,
              BringUpTypeOK
<1>4. QED
  BY <1>1, <1>2, <1>3

\* Every variable of the start, the queue and the identity keeps its type; in
\* particular no loop goes beyond its attempts and no queue beyond its slots
\* (max_attempts, BOS_JOINER_PENDING_MAX).
THEOREM TypeCorrect == Spec => []TypeOK
<1>1. Init => BringUpTypeOK
  <2>1. 0 \in 0 .. MaxAttempts
    BY BringUpAssumption
  <2>2. QED
    BY <2>1 DEF Init, BringUpInit, BringUpTypeOK
<1>2. NetInv /\ BringUpTypeOK /\ [Next]_vars => BringUpTypeOK'
  <2>1. ASSUME NetInv, BringUpTypeOK, BringUpNext PROVE BringUpTypeOK'
    BY <2>1, TypedStart, TypedRequest DEF BringUpNext
  <2>2. ASSUME BringUpTypeOK, UNCHANGED upVars PROVE BringUpTypeOK'
    BY <2>2 DEF BringUpTypeOK, upVars
  <2>3. QED
    BY <2>1, <2>2 DEF Next, vars, MeshNext, IdentityNext
<1>3. IdentityInv => CommissionTypeOK
  <2>1. IdentityInv => answered \in Identities \cup {NoIdentity}
    BY KeysAre DEF IdentityInv
  <2>2. QED
    BY <2>1, KeysAre DEF IdentityInv, CommissionTypeOK
<1>4. QueueInv => JoinerTypeOK
  BY DEF QueueInv
<1>5. BringUpTypeOK /\ JoinerTypeOK /\ CommissionTypeOK => TypeOK
  BY DEF TypeOK
<1>6. QED
  BY <1>1, <1>2, <1>3, <1>4, <1>5, NetAlways, QueueAlways, IdentityAlways, PTL DEF Spec
=============================================================================
