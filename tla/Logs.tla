---------------------------------- MODULE Logs ----------------------------------
(***************************************************************************)
(* What is kept of a request that was served: a line of the access log,    *)
(* written behind its back (src/src/core/file-logger.ts,                   *)
(* src/src/api/logs.ts), and a count for the rate of the last minute       *)
(* (src/src/core/perf-metrics.ts).  One process.                           *)
(***************************************************************************)
EXTENDS Integers, Sequences, FiniteSets, SequencesExt, FiniteSetsExt

CONSTANTS Requests,     \* requests served
          Span,         \* buckets of the rate: 60 in the code
          Word,         \* a bucket counts modulo Word: 2^32 in the code
          MaxBuffered,  \* lines that fill the buffer: 4 MiB in the code
          MaxSecond,    \* the last second; a day is two
          MaxHits       \* requests counted in a second: fewer than a bucket counts

ASSUME LogsAssumption ==
  /\ Span \in Nat \ {0} /\ Word \in Nat \ {0} /\ MaxBuffered \in Nat \ {0}
  /\ MaxSecond \in Nat /\ MaxHits \in 0 .. Word - 1

VARIABLES second,
          served,       \* a request: "no", then "yes" until its line is buffered, then "logged"
          pending,      \* the buffer, by day
          timer,        \* the flush timer is set
          flight,       \* the flush under way: lines by day, and the days not yet written
          file,         \* the files, by day
          reader,       \* GET /admin/logs, and the shutdown: "idle", "awaits" a flush, "reads"
          up,           \* the process runs
          gone,         \* history: lines lost with a failed write or a kill
          made,         \* history: the lines in the order they were made
          buckets, lastTick,      \* RpsTracker
          hits,         \* history: requests finished, by second
          astray        \* history: the tracker slept for longer than Span, or was read at a turn

logVars == <<served, pending, timer, flight, file, reader, up, gone, made>>
rateVars == <<buckets, lastTick, hits, astray>>

Days == 0..(MaxSecond \div 2)
Today == second \div 2
NoLines == [d \in Days |-> <<>>]
NoFlight == [on |-> FALSE, lines |-> NoLines, rest |-> {}]
Callers == {"reader", "exit"}

LogsInit ==
  /\ second = 0 /\ served = [r \in Requests |-> "no"] /\ pending = NoLines /\ timer = FALSE
  /\ flight = NoFlight /\ file = NoLines /\ reader = [c \in Callers |-> "idle"] /\ up = TRUE
  /\ gone = {} /\ made = <<>>
  /\ buckets = [i \in 0..(Span - 1) |-> 0] /\ lastTick = 0
  /\ hits = [s \in 0..MaxSecond |-> 0] /\ astray = FALSE

----------------------------------------------------------------------------
\* RpsTracker.bump: the seconds since the last tick, but no more than Span, are cleared.
Drift == Min({Span, second - lastTick})
ClearedToo == [i \in DOMAIN buckets |->                        \* mutant: the second begun is kept
                IF \E s \in (lastTick + 1)..(lastTick + Drift - 1) : s % Span = i THEN 0 ELSE buckets[i]]
Cleared == [i \in DOMAIN buckets |->
              IF \E s \in (lastTick + 1)..(lastTick + Drift) : s % Span = i THEN 0 ELSE buckets[i]]
Ticked == [Cleared EXCEPT ![second % Span] = (@ + 1) % Word]

Finish ==
  /\ hits[second] < MaxHits
  /\ buckets' = Ticked /\ lastTick' = lastTick + Drift
  /\ hits' = [hits EXCEPT ![second] = @ + 1]
  /\ astray' = (astray \/ second - lastTick > Span)
  /\ UNCHANGED <<second, logVars>>

\* rps1min: a bump, taken back; at the turn of a second it is taken from the next bucket.
ReadRate ==
  /\ \E s \in {second, second + 1} :
       /\ buckets' = [Ticked EXCEPT ![s % Span] = (@ - 1) % Word]
       /\ astray' = (astray \/ second - lastTick > Span \/ s # second)
  /\ lastTick' = lastTick + Drift
  /\ UNCHANGED <<second, logVars, hits>>

Second ==
  /\ second < MaxSecond /\ second' = second + 1
  /\ UNCHANGED <<logVars, rateVars>>

----------------------------------------------------------------------------
\* A request is answered; its line follows, unawaited.
Serve(r) ==
  /\ up /\ served[r] = "no" /\ served' = [served EXCEPT ![r] = "yes"]
  /\ UNCHANGED <<second, pending, timer, flight, file, reader, up, gone, made, rateVars>>

\* BufferedLogWriter.flushNow, of what is buffered: it joins the flush under way, or takes
\* all that is buffered.
Held(lines) == {d \in Days : lines[d] # <<>>}

LeftIn(lines) == lines                                          \* mutant: cleared with the flush's end
Emptied(lines) == NoLines

Flush(lines) ==
  /\ timer' = FALSE
  /\ IF flight.on \/ Held(lines) = {} THEN pending' = lines /\ flight' = flight
     ELSE /\ flight' = [on |-> TRUE, lines |-> lines, rest |-> Held(lines)]
          /\ pending' = Emptied(lines)

\* insertLog, appendLogEntry, enqueue: the line goes to the day it is made.
Enqueue(r) ==
  LET lines == [pending EXCEPT ![Today] = Append(@, r)] IN
  /\ up /\ served[r] = "yes" /\ served' = [served EXCEPT ![r] = "logged"] /\ made' = Append(made, r)
  /\ IF SumFunction([d \in Days |-> Len(lines[d])]) >= MaxBuffered THEN Flush(lines)
     ELSE pending' = lines /\ timer' = TRUE /\ flight' = flight
  /\ UNCHANGED <<second, file, reader, up, gone, rateVars>>

TimerFires ==
  /\ up /\ timer /\ Flush(pending)
  /\ UNCHANGED <<second, served, file, reader, up, gone, made, rateVars>>

\* readLogs and the shutdown drain the buffer first.
Drain(c) ==
  /\ up /\ reader[c] = "idle" /\ Flush(pending)
  /\ reader' = [reader EXCEPT ![c] = IF flight'.on THEN "awaits" ELSE "reads"]
  /\ UNCHANGED <<second, served, file, up, gone, made, rateVars>>

\* A day's lines are appended, or the error is swallowed; with the last the flush is over.
WriteDay(d, fails) ==
  LET rest == flight.rest \ {d} IN
  /\ up /\ d \in flight.rest
  /\ file' = IF fails THEN file ELSE [file EXCEPT ![d] = @ \o flight.lines[d]]
  /\ gone' = IF fails THEN gone \cup ToSet(flight.lines[d]) ELSE gone
  /\ flight' = IF rest = {} THEN NoFlight ELSE [flight EXCEPT !.rest = rest]
  /\ reader' = IF rest # {} THEN reader
               ELSE [c \in Callers |-> IF reader[c] = "awaits" THEN "reads" ELSE reader[c]]
  /\ UNCHANGED <<second, served, pending, timer, up, made, rateVars>>

Read ==
  /\ up /\ reader["reader"] = "reads" /\ reader' = [reader EXCEPT !["reader"] = "idle"]
  /\ UNCHANGED <<second, served, pending, timer, flight, file, up, gone, made, rateVars>>

\* process.exit, whose handler writes what is buffered; it follows at once on the drain.
Exit ==
  /\ up /\ reader["exit"] = "reads" /\ up' = FALSE
  /\ file' = [d \in Days |-> file[d] \o pending[d]] /\ pending' = NoLines /\ timer' = FALSE
  /\ UNCHANGED <<second, served, flight, reader, gone, made, rateVars>>

\* The process is killed.
Kill ==
  /\ up /\ up' = FALSE
  /\ gone' = gone \cup (UNION {ToSet(pending[d]) : d \in Days})
                  \cup (UNION {ToSet(flight.lines[d]) : d \in flight.rest})
  /\ pending' = NoLines /\ timer' = FALSE /\ flight' = NoFlight
  /\ UNCHANGED <<second, served, file, reader, made, rateVars>>

\* The meter, and the log while the process runs.
RateNext == Finish \/ ReadRate
WriterNext ==
  IF reader["exit"] = "reads" /\ up THEN Exit
  ELSE \/ TimerFires \/ Read \/ Kill
       \/ \E r \in Requests : Serve(r) \/ Enqueue(r)
       \/ \E c \in Callers : Drain(c)
       \/ \E d \in Days, fails \in BOOLEAN : WriteDay(d, fails)
LogsNext == Second \/ RateNext \/ WriterNext

LogsSpec == LogsInit /\ [][LogsNext]_<<second, logVars, rateVars>>


----------------------------------------------------------------------------
\* Flushes that join one another, a full buffer, midnight and an orderly exit in their
\* midst: every line is in one place once, and in its file when the process has ended,
\* unless its write failed or the process was killed; and a file's lines are in the order
\* in which they were made.
InFlight == UNION {ToSet(flight.lines[d]) : d \in flight.rest}
Places(r) == Cardinality({d \in Days : Contains(file[d], r)}) + Cardinality({d \in Days : Contains(pending[d], r)})
             + (IF r \in InFlight THEN 1 ELSE 0) + (IF r \in gone THEN 1 ELSE 0)
Before(q, r) == \E k, m \in DOMAIN made : k < m /\ made[k] = q /\ made[m] = r
InOrder(lines) ==
  /\ \A n \in DOMAIN lines : Contains(made, lines[n])
  /\ \A m, n \in DOMAIN lines : m < n => Before(lines[m], lines[n])
LoggedOnce ==
  /\ \A r \in Requests : served[r] = "logged" => Places(r) = 1
  /\ ~up => flight = NoFlight /\ Held(pending) = {}
  /\ \A d \in Days : InOrder(file[d])

\* The rate of the last Span seconds counts each request of them once, whenever a second
\* begins or is skipped; but once no request came for longer than Span, or the rate was read
\* just as a second turned, it is wrong.
RateCounts ==
  ~astray /\ lastTick = second =>
    SumFunction(buckets) = SumFunction([s \in {x \in 0..MaxSecond : x > second - Span} |-> hits[s]])

\* Every request is accounted for once, in the log and in the rate.
Accounted == LoggedOnce /\ RateCounts
=============================================================================
