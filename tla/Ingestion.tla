------------------------------ MODULE Ingestion ------------------------------
(***************************************************************************)
(* services/ingestion: one session fetched from OpenF1 channel by channel,  *)
(* published, and its row in the database.  A run is one call of            *)
(* ingest_session in a process of its own; runs of a session follow each    *)
(* other, and what the earlier ones left stays.                             *)
(*                                                                         *)
(* A run is one task: requests are sequential, so the client's semaphore    *)
(* and the limiter's lock are never contended.                              *)
(***************************************************************************)
EXTENDS RateLimiter, Sequences, FiniteSets

CONSTANTS
    Bulk,         \* _BULK_CHANNELS, in order
    SessionStart, \* date_start and date_end of the session record
    SessionEnd,
    Padding,      \* the minute added at each end
    WindowSize,   \* window_seconds
    IncludeTelemetry,
    MaxWindows,   \* max_windows
    MaxRetries,   \* settings.max_retries
    MaxRuns,      \* bound of the model: runs of the session
    FaultKinds,   \* what may go wrong
    MaxFaults     \* bound of the model: how often, retryable answers not counted

ASSUME IngestionAssumption ==
    /\ SessionStart \in Nat /\ SessionEnd \in Nat /\ Padding \in Nat
    /\ Bulk \in Seq({"laps", "weather", "race_control", "position", "intervals"})
    /\ WindowSize \in Nat \ {0}
    /\ IncludeTelemetry \in BOOLEAN
    /\ MaxWindows \in Nat
    /\ MaxRetries \in Nat
    /\ MaxRuns \in Nat /\ MaxFaults \in Nat

Channels == {"session_meta", "car_data", "location"} \union {Bulk[i] : i \in DOMAIN Bulk}

\* report.channels(): the published counts behind the availability flags.
Flagged == {"car_data", "location", "laps", "weather", "race_control"}

Chunk(start, end, i) == <<start + (i - 1) * WindowSize, Least(start + i * WindowSize, end)>>

\* Mutant: whole windows only.
WholeWindows(start, end) == [i \in 1..((end - start) \div WindowSize) |-> Chunk(start, end, i)]

\* chunk_windows: as many windows as it takes, the last one cut at the end.
ChunkWindows(start, end) ==
    [i \in 1..((end - start + WindowSize - 1) \div WindowSize) |-> Chunk(start, end, i)]

SpanStart == SessionStart - Padding
SpanEnd   == SessionEnd + Padding
Windows   == LET all == ChunkWindows(SpanStart, SpanEnd)
             IN  IF IncludeTelemetry THEN SubSeq(all, 1, Least(MaxWindows, Len(all))) ELSE <<>>

\* A step is a request or one of "session_meta", "flush" and "record".
Whole(name) == <<name, <<>>>>
BulkSteps   == [i \in DOMAIN Bulk |-> Whole(Bulk[i])]
WindowSteps == [i \in 1..(2 * Len(Windows)) |->
                  <<IF i % 2 = 1 THEN "car_data" ELSE "location", Windows[(i + 1) \div 2]>>]
Plan == <<Whole("sessions"), Whole("drivers"), Whole("stints"), Whole("session_meta")>>
        \o BulkSteps \o WindowSteps \o <<Whole("flush"), Whole("record")>>

FlushStep   == Len(Plan) - 1
FirstWindow == 5 + Len(Bulk)

VARIABLES
    pc,          \* where the task is
    step,        \* index in Plan
    attempt,     \* attempt of get(), counted from 1
    runs,        \* runs started
    dated,       \* the session record has both dates
    published,   \* channels with a positive count in report.published
    errors,      \* steps with an entry in report.errors
    asked,       \* step -> calls of get() this run made for it (history)
    fetched,     \* requests of this run that succeeded (history)
    row,         \* the session's row: status and flags (database)
    buffered,    \* channels of which the producer holds records
    settled,     \* channels of which this run's producer holds none any more (history)
    onTopic,     \* channels with events on their topics (broker)
    lost,        \* channels whose records a producer accepted and lost (history)
    faults       \* faults so far

reportVars == <<published, errors, fetched>>
sendVars   == <<buffered, settled, onTopic, lost>>
storeVars  == <<row, sendVars>>
vars == <<pc, step, attempt, runs, dated, reportVars, asked, storeVars, faults, limiterVars>>

NothingAsked == [i \in 1..Len(Plan) |-> 0]

NoRow == [status |-> "none", flags |-> {}]

\* "returned" and "raised" are the two ways ingest_session ends.
Places == {"idle", "acquire", "request", "backoff", "local", "returned", "raised"}

TypeOK ==
    /\ pc \in Places
    /\ step \in 1..Len(Plan)
    /\ attempt \in 1..(MaxRetries + 1)
    /\ runs \in 0..MaxRuns
    /\ dated \in BOOLEAN
    /\ published \subseteq Channels
    /\ errors \subseteq {Plan[i] : i \in 1..Len(Plan)} \union {Whole("telemetry")}
    /\ row.status \in {"none", "running", "complete", "partial", "failed"}
    /\ row.flags \subseteq Flagged
    /\ asked \in [1..Len(Plan) -> Nat]
    /\ buffered \subseteq Channels /\ settled \subseteq Channels
    /\ onTopic \subseteq Channels /\ lost \subseteq Channels
    /\ faults \in 0..MaxFaults
    /\ LimiterTypeOK

Init ==
    /\ pc = "idle" /\ step = 1 /\ attempt = 1 /\ runs = 0 /\ dated = TRUE
    /\ published = {} /\ errors = {} /\ fetched = {}
    /\ asked = NothingAsked
    /\ row = NoRow
    /\ buffered = {} /\ settled = {} /\ onTopic = {} /\ lost = {}
    /\ faults = 0
    /\ LimiterInit

Spend(k) == k \in FaultKinds /\ faults < MaxFaults /\ faults' = faults + 1

Name    == Plan[step][1]

GoTo(next) ==
    /\ step' = next
    /\ attempt' = 1
    /\ pc' = IF Plan[next][1] \in {"session_meta", "flush", "record"} THEN "local" ELSE "acquire"

\* The step is over, with these errors.  Windows need both dates.
Proceed(failed) ==
    IF step + 1 = FirstWindow /\ IncludeTelemetry /\ ~dated
    THEN errors' = errors \union failed \union {Whole("telemetry")} /\ GoTo(FlushStep)
    ELSE errors' = errors \union failed /\ GoTo(step + 1)

Ends(place) == pc' = place /\ UNCHANGED <<step, attempt>>

\* The producer of the last run has been closed, which empties its buffer.
StartRun ==
    /\ pc \in {"idle", "returned", "raised"}
    /\ buffered = {}
    /\ runs < MaxRuns
    /\ runs' = runs + 1
    /\ pc' = "acquire" /\ step' = 1 /\ attempt' = 1
    /\ published' = {} /\ errors' = {} /\ fetched' = {}
    /\ asked' = NothingAsked
    /\ settled' = {}
    /\ LimiterFresh
    /\ UNCHANGED <<dated, row, buffered, onTopic, lost, faults>>

-----------------------------------------------------------------------------
(* OpenF1Client.get *)

\* One attempt has its token.
TokenTaken ==
    /\ pc = "acquire"
    /\ Acquire
    /\ pc' = "request"
    /\ asked' = IF attempt = 1 THEN [asked EXCEPT ![step] = @ + 1] ELSE asked
    /\ UNCHANGED <<step, attempt, runs, dated, reportVars, storeVars, faults>>

TokenAwaited ==
    /\ pc = "acquire"
    /\ LookAgain
    /\ UNCHANGED <<pc, step, attempt, runs, dated, reportVars, asked, storeVars, faults>>

\* 429, 5xx, a timeout or a broken connection: sleep, whatever comes next.
Retryable ==
    /\ pc = "request"
    /\ "http" \in FaultKinds
    /\ pc' = "backoff"
    /\ UNCHANGED <<step, attempt, runs, dated, reportVars, asked, storeVars, limiterVars, faults>>

\* Mutant: one attempt too many.
RetriesOnceMore ==
    /\ pc = "backoff"
    /\ attempt <= MaxRetries + 1
    /\ attempt' = attempt + 1
    /\ pc' = "acquire"
    /\ UNCHANGED <<step, runs, dated, reportVars, asked, storeVars, limiterVars, faults>>

Retries ==
    /\ pc = "backoff"
    /\ attempt <= MaxRetries
    /\ attempt' = attempt + 1
    /\ pc' = "acquire"
    /\ UNCHANGED <<step, runs, dated, reportVars, asked, storeVars, limiterVars, faults>>

\* Mutant: an OpenF1Error is logged and not reported.
Swallowed == IF Name = "sessions" THEN Ends("returned") /\ UNCHANGED errors ELSE Proceed({})

\* Who catches an OpenF1Error: all but the session lookup go on.
Caught ==
    IF Name = "sessions" THEN Ends("returned") /\ errors' = errors \union {Plan[step]}
    ELSE Proceed({Plan[step]})

\* Attempts are exhausted (after one more sleep), or the answer is final: a
\* status that is not retried, or JSON that is no array.
RequestFails ==
    /\ \/ pc = "backoff" /\ attempt = MaxRetries + 1 /\ UNCHANGED faults
       \/ pc = "request" /\ Spend("refused")
    /\ Caught
    /\ UNCHANGED <<runs, dated, published, fetched, asked, storeVars, limiterVars>>

\* A 200 that is no JSON, or an httpx error that is no TransportError: nobody
\* catches it and the run is over.
RequestRaises ==
    /\ pc = "request"
    /\ Spend("invalid")
    /\ Ends("raised")
    /\ UNCHANGED <<runs, dated, reportVars, asked, storeVars, limiterVars>>

-----------------------------------------------------------------------------
(* What ingest_session does with the records. *)

\* upstream knows the session; its row says running from here on.
SessionFound ==
    /\ pc = "request" /\ Name = "sessions"
    /\ fetched' = fetched \union {Plan[step]}
    /\ dated' \in BOOLEAN
    /\ row' = [row EXCEPT !.status = "running"]
    /\ Proceed({})
    /\ UNCHANGED <<runs, published, asked, sendVars, limiterVars, faults>>

SessionUnknown ==
    /\ pc = "request" /\ Name = "sessions"
    /\ errors' = errors \union {Plan[step]}
    /\ Ends("returned")
    /\ UNCHANGED <<runs, dated, published, fetched, asked, storeVars, limiterVars, faults>>

\* upsert_drivers, upsert_stints
ReferenceStored ==
    /\ pc = "request" /\ Name \in {"drivers", "stints"}
    /\ fetched' = fetched \union {Plan[step]}
    /\ Proceed({})
    /\ UNCHANGED <<runs, dated, published, asked, storeVars, limiterVars, faults>>

\* A statement of the metadata repository raises: no handler for it.
DatabaseFails ==
    /\ \/ pc = "request" /\ Name \in {"sessions", "drivers", "stints"}
       \/ pc = "local" /\ Name = "record"
    /\ Spend("database")
    /\ Ends("raised")
    /\ UNCHANGED <<runs, dated, reportVars, asked, storeVars, limiterVars>>

\* What the producer holds of a channel reaches the broker, or is given up.
Settles(channel) ==
    /\ channel \in buffered
    /\ buffered' = buffered \ {channel}
    /\ settled' = settled \union {channel}
    /\ \/ onTopic' = onTopic \union {channel} /\ UNCHANGED <<lost, faults>>
       \/ Spend("delivery") /\ lost' = lost \union {channel} /\ UNCHANGED onTopic
    /\ UNCHANGED <<pc, step, attempt, runs, dated, reportVars, asked, row, limiterVars>>

\* send(wait=True) of the session_meta event; any exception is caught.
MetaSent ==
    /\ pc = "local" /\ Name = "session_meta"
    /\ published' = published \union {Name}
    /\ onTopic' = onTopic \union {Name}
    /\ Proceed({})
    /\ UNCHANGED <<runs, dated, fetched, asked, row, buffered, settled, lost, limiterVars, faults>>

MetaFails ==
    /\ pc = "local" /\ Name = "session_meta"
    /\ Spend("broker")
    /\ Proceed({Plan[step]})
    /\ UNCHANGED <<runs, dated, published, fetched, asked, storeVars, limiterVars>>

\* send_many: some record is mapped, and the producer takes it into its buffer.
RecordsPublished ==
    /\ pc = "request" /\ Name \in Channels
    /\ fetched' = fetched \union {Plan[step]}
    /\ published' = published \union {Name}
    /\ buffered' = buffered \union {Name}
    /\ Proceed({})
    /\ UNCHANGED <<runs, dated, asked, row, settled, onTopic, lost, limiterVars, faults>>

\* No record, none that can be mapped, or none the producer accepts.
NothingPublished ==
    /\ pc = "request" /\ Name \in Channels
    /\ fetched' = fetched \union {Plan[step]}
    /\ Proceed({})
    /\ UNCHANGED <<runs, dated, published, asked, storeVars, limiterVars, faults>>

\* Mutant: the outcome is recorded without waiting for the buffer.
FlushUnawaited ==
    /\ pc = "local" /\ Name = "flush"
    /\ Proceed({})
    /\ UNCHANGED <<runs, dated, published, fetched, asked, storeVars, limiterVars, faults>>

\* producer.flush() returns once every buffered record is settled.
Flush ==
    /\ pc = "local" /\ Name = "flush"
    /\ buffered = {}
    /\ Proceed({})
    /\ UNCHANGED <<runs, dated, published, fetched, asked, storeVars, limiterVars, faults>>

\* _final_status
FinalStatus == IF published = {} THEN "failed" ELSE IF errors # {} THEN "partial" ELSE "complete"

\* record_availability
Record ==
    /\ pc = "local" /\ Name = "record"
    /\ row' = [status |-> FinalStatus, flags |-> published \intersect Flagged]
    /\ Ends("returned")
    /\ UNCHANGED <<runs, dated, reportVars, asked, sendVars, limiterVars, faults>>

\* The process is killed, with what its producer holds.
Killed ==
    /\ pc \notin {"idle", "returned", "raised"} \/ buffered # {}
    /\ Spend("kill")
    /\ Ends("raised")
    /\ buffered' = {}
    /\ UNCHANGED <<runs, dated, reportVars, asked, row, settled, onTopic, lost, limiterVars>>

TimePasses ==
    /\ Tick
    /\ UNCHANGED <<pc, step, attempt, runs, dated, reportVars, asked, storeVars, faults>>

Works ==
    \/ TokenTaken \/ TokenAwaited
    \/ Retryable \/ Retries \/ RequestFails \/ RequestRaises
    \/ SessionFound \/ SessionUnknown \/ ReferenceStored \/ DatabaseFails
    \/ MetaSent \/ MetaFails \/ RecordsPublished \/ NothingPublished
    \/ Flush \/ Record
    \/ \E channel \in buffered : Settles(channel)

Next == StartRun \/ Works \/ Killed \/ TimePasses

Spec == Init /\ [][Next]_vars

\* The clock runs and the task is scheduled.
FairSpec == Spec /\ WF_vars(Works) /\ WF_vars(TimePasses)

-----------------------------------------------------------------------------
(* Properties *)

\* The run has written its outcome.
Recorded == pc = "returned" /\ step = Len(Plan)

Requests == {Plan[i] : i \in 1..Len(Plan)}
            \ {Whole(name) : name \in {"session_meta", "flush", "record"}}

\* service.py:347: a session marked complete was fetched whole, and one marked
\* failed put nothing on the stream.  What --max-windows leaves out is no
\* request of the run, and such a run is marked complete as well.
StatusIsHonest ==
    Recorded =>
        /\ row.status # "running"
        /\ row.status = "complete" => Requests \subseteq fetched
        /\ row.status = "failed" => published = {}

\* Where windows meet, by the rule: every WindowSize from the start, and the end.
Edges == {t \in SpanStart..SpanEnd : (t - SpanStart) % WindowSize = 0 \/ t = SpanEnd}

\* The calls of this run that ask channel c for the instant t, where upstream
\* reads "date>" and "date<" (openf1.py:271-272, 289-290) as >= and <=.
Asking(c, t) == {i \in 1..Len(Plan) : /\ asked[i] # 0 /\ Plan[i][1] = c
                                      /\ Plan[i][2][1] <= t /\ t <= Plan[i][2][2]}

\* service.py:234 and 297: one bad channel or window costs only itself.  A run
\* that records its outcome called get() once for every channel and window, or
\* the report names the missing windows.  Inside a window an instant is asked
\* for by one call; where two windows meet it is asked for by both, since both
\* send it as their limit (and by neither if upstream reads the limits strictly).
NothingSkipped ==
    Recorded =>
        /\ \A i \in 1..Len(Plan) :
              Plan[i] \in Requests =>
                  asked[i] = 1 \/ (i >= FirstWindow /\ Whole("telemetry") \in errors)
        /\ IncludeTelemetry /\ Whole("telemetry") \notin errors /\ SpanStart < SpanEnd =>
              \A c \in {"car_data", "location"} : \A t \in SpanStart..SpanEnd :
                  Cardinality(Asking(c, t)) =
                      IF t \in Edges \ {SpanStart, SpanEnd} THEN 2 ELSE 1

\* metadata.py:200-204, producer.py:71-81: an availability flag is a fact.  One
\* that is set stands for events on the channel's topic, or lost by a producer
\* that had accepted them, and never for events still in a buffer; one that a
\* run leaves unset is of a channel that this run sent nothing of, although an
\* earlier run's events may be on the topic.
FlagsAreTrue ==
    /\ row.flags \subseteq onTopic \union lost
    /\ Recorded => row.flags = settled \intersect Flagged

\* A run ends whatever upstream answers: attempts are bounded and the bucket
\* refills.
RunEnds == pc \notin {"idle", "returned", "raised"} ~> pc \in {"returned", "raised"}
=============================================================================
