--------------------------- MODULE WebDiagnostics ---------------------------
(***************************************************************************)
(* The topology page's collection of network diagnostics.  The request asks   *)
(* itself and all routers, then polls until enough have answered and it is    *)
(* quiet, or a limit is reached; OpenThread's task applies each answer to     *)
(* the collection's set, under a mutex and only while one is collecting.      *)
(* OpenThread cannot tell which request an answer belongs to, and an answer   *)
(* may come late.  The poll reads the tick before it reads when the last      *)
(* answer came, and not under the mutex.                                     *)
(***************************************************************************)
EXTENDS Naturals, FiniteSets

CONSTANTS
  Routers,    \* the mesh's routers, this one among them
  Self,
  NoSet,      \* s_diagnosticTlv_set is NULL
  MinWait,    \* DIAG_MIN_WAIT_MS, in polls
  Quiet,      \* DIAG_QUIET_PERIOD_MS
  MaxTimeout, \* DIAG_MAX_TIMEOUT_MS
  TickSpan    \* 2^32, the range of TickType_t, in polls

ASSUME DiagAssumption ==
  /\ Self \in Routers /\ IsFiniteSet(Routers)
  /\ \A S \in SUBSET Routers : NoSet # S
  /\ {MinWait, Quiet, MaxTimeout, TickSpan} \subseteq Nat \ {0}
  /\ MinWait < MaxTimeout /\ Quiet < MaxTimeout /\ MaxTimeout + Cardinality(Routers) < TickSpan

VARIABLES
  collector,  \* how far the request is
  collecting, \* s_diag_collecting
  tlvs,       \* s_diagnosticTlv_set: routers that answered
  count,      \* s_diag_response_count
  last,       \* s_diag_last_response_tick
  tick,       \* xTaskGetTickCount
  start,      \* the request's locals: when it began to poll,
  now,        \* the tick of its last poll,
  expected,   \* the routers OpenThread knows
  underWay,   \* answers that may still come
  age,        \* polls since the start, and when the last answer was applied (history)
  lastAge,
  early       \* it ended before the limit

diagVars == <<collector, collecting, tlvs, count, last, tick, start, now, expected,
              underWay, age, lastAge, early>>

requestVars == <<start, now, expected>>

\* The difference of two ticks, a TickType_t.
\* Mutant: without the wrap.
Elapsed_Signed(from, to) == IF to < from THEN 0 ELSE to - from

Elapsed(from, to) == (to + TickSpan - from) % TickSpan

\* bound: past the limit nothing is told apart.
Aged(d) == LET most == MaxTimeout + Cardinality(Routers) IN IF age + d > most THEN most ELSE age + d

\* handle_ot_resource_network_diagnostics_request: the set is made new, and
\* answers are taken from now on; the tick is anything.
DiagBegins ==
  /\ collector = "idle" /\ collector' = "send"
  /\ collecting' = TRUE /\ tlvs' = {} /\ count' = 0
  /\ tick' \in {0, TickSpan - 2} /\ last' = tick' /\ age' = 0 /\ lastAge' = 0
  /\ UNCHANGED <<requestVars, underWay, early>>

\* build_thread_network_topology: itself, then all routers, this one too; its
\* failure is not looked at.  Then the router table.
DiagSends ==
  /\ collector = "send" /\ collector' = "poll"
  /\ underWay' \in {underWay, underWay \cup {<<Self, "own">>},
                    underWay \cup {<<Self, "own">>} \cup {<<r, "all">> : r \in Routers}}
  /\ expected' \in 0 .. Cardinality(Routers) /\ start' = tick
  /\ UNCHANGED <<collecting, tlvs, count, last, tick, now, age, lastAge, early>>

\* Mutant: an answer is applied to whatever set there is.
DiagAnswer_Always(a) ==
  /\ a \in underWay /\ underWay' = underWay \ {a}
  /\ tlvs' = IF tlvs = NoSet THEN {"freed"} ELSE tlvs \cup {a[1]}
  /\ count' = count + 1 /\ last' = tick /\ lastAge' = age
  /\ UNCHANGED <<collector, collecting, tick, requestVars, age, early>>

\* diagnosticTlv_result_handler: dropped when the heap is low or the mutex is
\* not free in time, or when nothing collects.
DiagAnswer(a) ==
  /\ a \in underWay /\ underWay' = underWay \ {a}
  /\ \/ /\ collecting /\ tlvs' = tlvs \cup {a[1]} /\ count' = count + 1
        /\ \E d \in {0, 1} : tick' = (tick + d) % TickSpan /\ age' = Aged(d)
        /\ last' = tick' /\ lastAge' = age'
     \/ UNCHANGED <<tlvs, count, tick, age, last, lastAge>>
  /\ UNCHANGED <<collector, collecting, requestVars, early>>

\* vTaskDelay, then the tick.
DiagSamples ==
  /\ collector = "poll" /\ collector' = "decide"
  /\ tick' = (tick + 1) % TickSpan /\ now' = tick' /\ age' = Aged(1)
  /\ UNCHANGED <<collecting, tlvs, count, last, start, expected, underWay, lastAge, early>>

\* The limit; the least wait; all expected and quiet.
DiagDecides ==
  LET elapsed == Elapsed(start, now)
      enough  == count >= expected /\ Elapsed(last, now) >= Quiet
  IN
  /\ collector = "decide"
  /\ IF elapsed >= MaxTimeout \/ (elapsed >= MinWait /\ enough)
       THEN collector' = "end" /\ early' = (elapsed < MaxTimeout)
       ELSE collector' = "poll" /\ UNCHANGED early
  /\ UNCHANGED <<collecting, tlvs, count, last, tick, requestVars, underWay, age, lastAge>>

\* Answered with the set, which is freed.
DiagEnds ==
  /\ collector = "end" /\ collector' = "idle"
  /\ collecting' = FALSE /\ tlvs' = NoSet
  /\ tick' = 0 /\ last' = 0 /\ start' = 0 /\ now' = 0 /\ age' = 0 /\ lastAge' = 0
  /\ UNCHANGED <<count, expected, underWay, early>>

DiagInit ==
  /\ collector = "idle" /\ collecting = FALSE /\ tlvs = NoSet /\ count = 0 /\ last = 0
  /\ tick = 0 /\ start = 0 /\ now = 0 /\ expected = 0 /\ underWay = {}
  /\ age = 0 /\ lastAge = 0 /\ early = FALSE

DiagStep == DiagSends \/ DiagSamples \/ DiagDecides \/ DiagEnds

DiagNext == DiagBegins \/ DiagStep \/ \E a \in underWay : DiagAnswer(a)

DiagTypeOK ==
  /\ collector \in {"idle", "send", "poll", "decide", "end"}
  /\ collecting \in BOOLEAN /\ early \in BOOLEAN
  /\ {tick, last, start, now} \subseteq 0 .. TickSpan - 1
  /\ underWay \subseteq Routers \X {"own", "all"}

\* An answer, however late, is never applied to a set that has been freed, and
\* while there is a set only routers of the mesh are in it.
NoLateWrite ==
  /\ collecting <=> tlvs # NoSet
  /\ collecting => tlvs \subseteq Routers

\* A collection ends, at any value of the tick counter and whoever answers.
CollectionEnds == (collector = "send") ~> (collector = "idle")

\* A collection that is ended before the limit is ended in quiet: "no new
\* response for DIAG_QUIET_PERIOD_MS (responses done)".  An answer applied between
\* the two reads of the poll makes their difference wrap.
\* (handle_ot_resource_network_diagnostics_request.)
QuietBeforeEnd ==
  [][collector = "decide" /\ collector' = "end" /\ early' => age - lastAge >= Quiet]_diagVars
=============================================================================
