------------------------------- MODULE Joiner -------------------------------
(***************************************************************************)
(* bos_joiner and the commissioner request of the web server.                *)
(*                                                                          *)
(* POST /bos/joiner/accept adds a joiner to OpenThread's commissioner, or    *)
(* queues it while the petition for that role is in flight; the state        *)
(* callback adds what is queued, or drops it.  The web server's commission   *)
(* request starts the same commissioner with callbacks of its own.           *)
(*                                                                          *)
(* Every step below holds the OpenThread lock from its first read to its     *)
(* last write.  Requests that are refused before the lock is taken (no       *)
(* token, a body that does not parse) change nothing and are left out.       *)
(***************************************************************************)
EXTENDS Naturals, FiniteSets, SequencesExt

CONSTANTS
  Euis,        \* joiners the operator may accept
  AnyEui,      \* the entry for every joiner, used by the web server only
  Pskds,       \* credentials
  BadPskd,     \* one outside the Thread alphabet: OpenThread refuses it
  NoPskd,      \* nothing accepted yet
  PendingMax,  \* BOS_JOINER_PENDING_MAX
  TableMax     \* CONFIG_OPENTHREAD_COMM_MAX_JOINER_ENTRIES

ASSUME JoinerAssumption ==
  /\ AnyEui \notin Euis
  /\ BadPskd \in Pskds /\ NoPskd \notin Pskds
  /\ PendingMax \in Nat \ {0} /\ TableMax \in Nat \ {0}

VARIABLES
  comm,     \* the commissioner: "disabled", "petition" or "active"
  owner,    \* whose callbacks OpenThread holds: "bos" or "web"
  pending,  \* s_pending, slot by slot: slots are filled in order and
            \* emptied together
  joiners,  \* OpenThread's joiner table
  accepted  \* history: the credential last accepted for each joiner

joinerVars == <<comm, owner, pending, joiners, accepted>>

Entry == [eui : Euis, pskd : Pskds]

-----------------------------------------------------------------------------
(* otCommissionerAddJoiner: replaces the entry of the same joiner, and fails on
   a credential it does not like or when there is no free entry. *)

Refused(table, eui, pskd) ==
  \/ pskd = BadPskd
  \/ eui \notin DOMAIN table /\ Cardinality(DOMAIN table) = TableMax

WithJoiner(table, eui, pskd) ==
  IF Refused(table, eui, pskd)
    THEN table
    ELSE [e \in DOMAIN table \cup {eui} |-> IF e = eui THEN pskd ELSE table[e]]

NoJoiners == [e \in {} |-> NoPskd]

\* Mutant: the slots are added newest first.
Flushed_NewestFirst ==
  FoldRight(LAMBDA p, table : WithJoiner(table, p.eui, p.pskd), pending, joiners)

\* flush_pending_joiners: slot by slot, as a recursive function of the number of
\* slots done; an entry that is refused is only logged.
AfterSlots[n \in 0 .. Len(pending)] ==
  IF n = 0 THEN joiners
  ELSE WithJoiner(AfterSlots[n - 1], pending[n].eui, pending[n].pskd)

Flushed == AfterSlots[Len(pending)]

\* bos_joiner_status_http_get and bos_joiner_commissioner_json.
JoinerStatus ==
  [state   |-> comm,
   joiners |-> DOMAIN joiners,
   pending |-> {pending[i].eui : i \in DOMAIN pending}]

-----------------------------------------------------------------------------
(* POST /bos/joiner/accept. *)

Accepted(eui, pskd) == accepted' = [accepted EXCEPT ![eui] = pskd]

\* The commissioner is active: what is queued first, then this one.
AcceptActive(eui, pskd) ==
  /\ comm = "active"
  /\ joiners' = WithJoiner(Flushed, eui, pskd)
  /\ pending' = <<>>
  /\ IF Refused(Flushed, eui, pskd) THEN UNCHANGED accepted ELSE Accepted(eui, pskd)
  /\ UNCHANGED <<comm, owner>>

\* Otherwise it is queued, and the petition sent if nobody has.
AcceptQueued(eui, pskd) ==
  /\ comm # "active" /\ Len(pending) < PendingMax
  /\ pending' = Append(pending, [eui |-> eui, pskd |-> pskd])
  /\ Accepted(eui, pskd)
  /\ comm' = "petition"
  /\ owner' = IF comm = "disabled" THEN "bos" ELSE owner
  /\ UNCHANGED joiners

\* The petition cannot be sent (not attached, no buffers): the whole queue goes.
AcceptNotStarted ==
  /\ comm = "disabled" /\ Len(pending) < PendingMax
  /\ pending' = <<>>
  /\ UNCHANGED <<comm, owner, joiners, accepted>>

-----------------------------------------------------------------------------
(* The web server's commission request holds the lock over its five rounds, so
   it sees the petition it started only as one in flight and adds nothing;
   with an active commissioner it adds the entry for every joiner. *)

WebStarts ==
  /\ comm = "disabled" /\ comm' = "petition" /\ owner' = "web"
  /\ UNCHANGED <<pending, joiners, accepted>>

WebAdds(pskd) ==
  /\ comm = "active" /\ joiners' = WithJoiner(joiners, AnyEui, pskd)
  /\ UNCHANGED <<comm, owner, pending, accepted>>

-----------------------------------------------------------------------------
(* OpenThread: the petition is answered, a session ends, an entry goes.  The
   web server's state callback only logs. *)

\* Mutant: the callback empties the queue without adding.
PetitionGranted_Forgets ==
  /\ comm = "petition" /\ comm' = "active"
  /\ pending' = IF owner = "bos" THEN <<>> ELSE pending
  /\ UNCHANGED <<owner, joiners, accepted>>

\* Mutant: nothing is added when the petition is granted.
PetitionGranted_Idle ==
  /\ comm = "petition" /\ comm' = "active"
  /\ UNCHANGED <<owner, pending, joiners, accepted>>

\* commissioner_state_callback with ACTIVE.
PetitionGranted ==
  /\ comm = "petition" /\ comm' = "active"
  /\ IF owner = "bos"
       THEN joiners' = Flushed /\ pending' = <<>>
       ELSE UNCHANGED <<joiners, pending>>
  /\ UNCHANGED <<owner, accepted>>

\* commissioner_state_callback with DISABLED: a petition that is refused, or a
\* session that is lost; the joiner table goes with it.
CommissionerStops ==
  /\ comm # "disabled" /\ comm' = "disabled"
  /\ joiners' = NoJoiners
  /\ pending' = IF owner = "bos" THEN <<>> ELSE pending
  /\ UNCHANGED <<owner, accepted>>

\* An entry expires, or its joiner has joined.
EntryRemoved(eui) ==
  /\ eui \in DOMAIN joiners
  /\ joiners' = [e \in DOMAIN joiners \ {eui} |-> joiners[e]]
  /\ UNCHANGED <<comm, owner, pending, accepted>>

-----------------------------------------------------------------------------
JoinerInit ==
  /\ comm = "disabled" /\ owner = "bos" /\ pending = <<>>
  /\ joiners = NoJoiners /\ accepted = [e \in Euis |-> NoPskd]

JoinerNext ==
  \/ \E e \in Euis, p \in Pskds : AcceptActive(e, p) \/ AcceptQueued(e, p)
  \/ AcceptNotStarted
  \/ WebStarts
  \/ \E p \in Pskds : WebAdds(p)
  \/ PetitionGranted \/ CommissionerStops
  \/ \E e \in Euis \cup {AnyEui} : EntryRemoved(e)

\* OpenThread answers a petition, after its own retries, one way or the other.
JoinerFairness == WF_joinerVars(comm = "petition" /\ (PetitionGranted \/ CommissionerStops))

JoinerSpec == JoinerInit /\ [][JoinerNext]_joinerVars
JoinerFairSpec == JoinerSpec /\ JoinerFairness

-----------------------------------------------------------------------------
JoinerTypeOK ==
  /\ comm \in {"disabled", "petition", "active"}
  /\ owner \in {"bos", "web"}
  /\ pending \in Seq(Entry) /\ Len(pending) <= PendingMax
  /\ DOMAIN joiners \subseteq Euis \cup {AnyEui}
  /\ \A e \in DOMAIN joiners : joiners[e] \in Pskds
  /\ accepted \in [Euis -> Pskds \cup {NoPskd}]

\* The credential a joiner will be asked for: the one in the last slot, if any.
Effective(eui) ==
  LET slots == {i \in DOMAIN pending : pending[i].eui = eui}
  IN  IF slots # {} THEN pending[Max(slots)].pskd ELSE joiners[eui]

\* However accepts, petitions of either owner and lost sessions interleave, the
\* credential in force for a joiner is the one the operator was last told is
\* accepted: an older one that was queued never overwrites it.  (A credential
\* outside the Thread alphabet is accepted into the queue and refused later,
\* which leaves the older entry.)
LastAcceptedWins ==
  \A e \in Euis :
    e \in JoinerStatus.joiners \cup JoinerStatus.pending =>
      Effective(e) = accepted[e] \/ accepted[e] = BadPskd

\* What makes it inductive: the last slot of a joiner holds what was last accepted
\* for it, and so does OpenThread's table if there is no slot; the table is empty
\* unless the commissioner is active.
CredentialInv ==
  /\ comm # "active" => DOMAIN joiners = {}
  /\ \A i \in DOMAIN pending :
       (\A j \in DOMAIN pending : j > i => pending[j].eui # pending[i].eui)
         => pending[i].pskd = accepted[pending[i].eui]
  /\ \A e \in Euis \cap DOMAIN joiners :
       (\A i \in DOMAIN pending : pending[i].eui # e)
         => joiners[e] = accepted[e] \/ accepted[e] = BadPskd

\* A joiner leaves the queue only into OpenThread's table, because OpenThread
\* refuses it (its credential, or a full table), or because the petition could
\* not be sent or has ended.
QueuedIsNotForgotten ==
  [][\A i \in DOMAIN pending :
        pending' = <<>> /\ comm' # "disabled" =>
          \/ pending[i].eui \in JoinerStatus'.joiners
          \/ pending[i].pskd = BadPskd
          \/ Cardinality(JoinerStatus'.joiners) = TableMax]_joinerVars

\* A queue that waits for bos_joiner's own petition is settled.
QueueIsSettled ==
  (pending # <<>> /\ comm = "petition" /\ owner = "bos") ~> (pending = <<>>)

\* bos_joiner.h: a queued joiner is added from the state callback once the
\* petition succeeds.  It is not when the web server sent the petition.
ActiveMeansAdded == comm = "active" => pending = <<>>
=============================================================================
