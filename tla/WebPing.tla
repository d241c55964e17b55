------------------------------ MODULE WebPing ------------------------------
(***************************************************************************)
(* The web pages' ping.  The request resets the replies and the statistics,   *)
(* starts OpenThread's ping sender, and waits for its statistics callback, a  *)
(* second longer than the sender should need; then it stops the sender and    *)
(* answers with what there is.  All requests run on one task, so the mutex    *)
(* that refuses a second ping is always free.                                *)
(***************************************************************************)
EXTENDS Naturals

CONSTANTS
  PingMax,   \* bound: pings
  ReplyMax   \* PING_MAX_COUNT

ASSUME PingAssumption == PingMax \in Nat /\ ReplyMax \in Nat

VARIABLES
  pinger,   \* how far the request is
  sender,   \* the ping OpenThread sends; 0: none
  pings,    \* pings started
  replies,  \* s_ping_reply_count
  stats,    \* the ping s_ping_statistics is of; 0: zeroed
  pingTok,  \* s_ping_done_semaphore
  pinged    \* the last answer: the ping asked for, the statistics' ping

pingVars == <<pinger, sender, pings, replies, stats, pingTok, pinged>>

PingBegins ==
  /\ pinger = "idle" /\ pinger' = "send" /\ replies' = 0 /\ stats' = 0
  /\ UNCHANGED <<sender, pings, pingTok, pinged>>

\* A bad address, or a sender that is busy, ends the request with an error.
PingSends ==
  /\ pinger = "send"
  /\ \/ /\ sender = 0 /\ pings < PingMax
        /\ pings' = pings + 1 /\ sender' = pings + 1 /\ pinger' = "wait"
     \/ pinger' = "idle" /\ UNCHANGED <<pings, sender>>
  /\ UNCHANGED <<replies, stats, pingTok, pinged>>

\* ping_reply_callback, up to the table's size.
PingReply ==
  /\ sender # 0
  /\ replies' = IF replies < ReplyMax THEN replies + 1 ELSE replies
  /\ UNCHANGED <<pinger, sender, pings, stats, pingTok, pinged>>

\* ping_statistics_callback.
PingStatistics ==
  /\ sender # 0 /\ sender' = 0 /\ stats' = sender /\ pingTok' = TRUE
  /\ UNCHANGED <<pinger, pings, replies, pinged>>

PingTakes ==
  /\ pinger = "wait" /\ pingTok /\ pingTok' = FALSE /\ pinger' = "answer"
  /\ UNCHANGED <<sender, pings, replies, stats, pinged>>

PingTimesOut ==
  /\ pinger = "wait" /\ ~pingTok /\ pinger' = "stop"
  /\ UNCHANGED <<sender, pings, replies, stats, pingTok, pinged>>

\* otPingSenderStop: no callback follows.
PingStops ==
  /\ pinger = "stop" /\ sender' = 0 /\ pinger' = "answer"
  /\ UNCHANGED <<pings, replies, stats, pingTok, pinged>>

PingAnswers ==
  /\ pinger = "answer" /\ pinger' = "idle" /\ pinged' = <<pings, stats>>
  /\ UNCHANGED <<sender, pings, replies, stats, pingTok>>

PingInit ==
  /\ pinger = "idle" /\ sender = 0 /\ pings = 0 /\ replies = 0 /\ stats = 0
  /\ pingTok = FALSE /\ pinged = <<0, 0>>

PingStep == PingSends \/ PingTakes \/ PingTimesOut \/ PingStops \/ PingAnswers

PingNext == PingBegins \/ PingReply \/ PingStatistics \/ PingStep

PingTypeOK ==
  /\ pinger \in {"idle", "send", "wait", "stop", "answer"}
  /\ {sender, pings, stats} \subseteq 0 .. PingMax /\ replies \in 0 .. ReplyMax

\* A ping's answer carries its own statistics or none.
PingAnswersItself == pinged[2] \in {0, pinged[1]}
=============================================================================
