--------------------------- MODULE Commissioning ---------------------------
(***************************************************************************)
(* bos_commissioning: POST /bos/commission stores the identity of the border *)
(* router as eight NVS strings, one write after the other; /bos/status reads  *)
(* them back.  Both run on the httpd task, so a reader never meets a write    *)
(* in progress; a failed write or a power loss between two of them does.      *)
(* Requests that are refused (no token, a body that does not parse, fields    *)
(* that contradict spatial_id) change nothing and are left out.               *)
(***************************************************************************)
EXTENDS Naturals, Sequences

CONSTANTS
  Identities,   \* identities an operator may post
  NoIdentity    \* nothing stored under a key, or nothing answered

ASSUME CommissioningAssumption == NoIdentity \notin Identities

\* persist_identity writes in this order; the first key marks the device as
\* commissioned.
IdentityKeys == <<"spatial_id", "site_id", "building", "level", "space",
                  "device_index", "device_class", "tags_csv">>

KeyNames == {IdentityKeys[i] : i \in DOMAIN IdentityKeys}

VARIABLES
  stored,    \* the bos_identity namespace: for each key the identity it is of
  posted,    \* the identity of the request being handled
  written,   \* keys written so far for it
  answered   \* history: the identity of the last request, once answered 200

commVars == <<stored, posted, written, answered>>

-----------------------------------------------------------------------------
\* bos_commissioning_http_post, up to the first write.
CommissionPost(id) ==
  /\ posted = NoIdentity
  /\ posted' = id /\ written' = 0 /\ answered' = NoIdentity
  /\ UNCHANGED stored

CommissionEnds(result) ==
  posted' = NoIdentity /\ written' = 0 /\ answered' = result

\* Mutant: only the last write decides, an earlier failure is overwritten.
PersistNext_LastDecides ==
  /\ posted # NoIdentity /\ written < Len(IdentityKeys)
  /\ written' = written + 1
  /\ \/ stored' = [stored EXCEPT ![IdentityKeys[written + 1]] = posted]
     \/ written + 1 < Len(IdentityKeys) /\ UNCHANGED stored
  /\ UNCHANGED <<posted, answered>>

\* persist_identity: the next key, if its write succeeds.
PersistNext ==
  /\ posted # NoIdentity /\ written < Len(IdentityKeys)
  /\ stored' = [stored EXCEPT ![IdentityKeys[written + 1]] = posted]
  /\ written' = written + 1
  /\ UNCHANGED <<posted, answered>>

\* A write fails: the ones before it stay, the answer is a 500.
PersistFails ==
  /\ posted # NoIdentity /\ written < Len(IdentityKeys)
  /\ CommissionEnds(NoIdentity) /\ UNCHANGED stored

\* The commit, and the answer; a commit that fails answers 500.
CommissionAnswered ==
  /\ posted # NoIdentity /\ written = Len(IdentityKeys)
  /\ \E result \in {posted, NoIdentity} : CommissionEnds(result)
  /\ UNCHANGED stored

\* A power loss while the keys are written.
CommissionCrash ==
  /\ posted # NoIdentity
  /\ CommissionEnds(NoIdentity) /\ UNCHANGED stored

-----------------------------------------------------------------------------
CommissionInit ==
  /\ stored = [k \in KeyNames |-> NoIdentity]
  /\ posted = NoIdentity /\ written = 0 /\ answered = NoIdentity

CommissionNext ==
  \/ \E id \in Identities : CommissionPost(id)
  \/ PersistNext \/ PersistFails \/ CommissionAnswered \/ CommissionCrash

\* bos_commissioning_get_identity and bos_commissioning_identity_json: without
\* the marker nothing is read; a missing key reads as the empty string.
IdentityRead ==
  IF stored["spatial_id"] = NoIdentity THEN {} ELSE {stored[k] : k \in KeyNames}

-----------------------------------------------------------------------------
CommissionTypeOK ==
  /\ stored \in [KeyNames -> Identities \cup {NoIdentity}]
  /\ posted \in Identities \cup {NoIdentity}
  /\ written \in 0 .. Len(IdentityKeys)
  /\ answered \in Identities \cup {NoIdentity}

\* Once a request has been answered 200, the device reports that identity and
\* no field of another one, whatever was interrupted or failed before it: a
\* device that reads as half of one identity and half of another after a power
\* loss is repaired by posting again.
AnsweredIdentityIsWhole == answered # NoIdentity => IdentityRead = {answered}
=============================================================================
