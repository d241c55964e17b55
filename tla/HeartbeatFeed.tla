--------------------------- MODULE HeartbeatFeed ---------------------------
(***************************************************************************)
(* What the heartbeats promise the gateway, with no array, no requests and  *)
(* no identity: a queue of bounded length that is sent oldest first and     *)
(* gives up its oldest entry, counted, when it is full.  Registration       *)
(* implements this specification.                                           *)
(***************************************************************************)
EXTENDS Naturals, Sequences

CONSTANT Cap   \* heartbeats kept while the gateway does not answer

VARIABLES
  taken,      \* heartbeats taken since the start
  live,       \* the one taken in this round, 0 when it has been dealt with
  queue,      \* the ones kept for later, oldest first
  lost,       \* how many had to give way
  received    \* the ones the gateway has seen

feedVars == <<taken, live, queue, lost, received>>

FeedInit == taken = 0 /\ live = 0 /\ queue = <<>> /\ lost = 0 /\ received = {}

Take ==
  /\ live = 0
  /\ taken' = taken + 1 /\ live' = taken + 1
  /\ UNCHANGED <<queue, lost, received>>

\* What is kept goes before the live one.
Upcoming == IF queue # <<>> THEN Head(queue) ELSE live

Receive == live # 0 /\ received' = received \cup {Upcoming}

\* The gateway answers, and the heartbeat is done with.
Answered ==
  /\ Receive
  /\ IF queue # <<>> THEN queue' = Tail(queue) /\ UNCHANGED live
                     ELSE live' = 0 /\ UNCHANGED queue
  /\ UNCHANGED <<taken, lost>>

\* Its answer is lost, so that it will be sent again.
Unanswered == Receive /\ UNCHANGED <<taken, live, queue, lost>>

Keep ==
  /\ live # 0 /\ live' = 0
  /\ IF Len(queue) = Cap
       THEN queue' = Append(Tail(queue), live) /\ lost' = lost + 1
       ELSE queue' = Append(queue, live) /\ UNCHANGED lost
  /\ UNCHANGED <<taken, received>>

\* What is kept is kept in RAM.
Restart == taken' = 0 /\ live' = 0 /\ queue' = <<>> /\ lost' = 0 /\ received' = {}

FeedNext == Take \/ Answered \/ Unanswered \/ Keep \/ Restart

FeedSpec == FeedInit /\ [][FeedNext]_feedVars
=============================================================================
