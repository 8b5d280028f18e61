------------------------------ MODULE MapSource ------------------------------
(***************************************************************************)
(* map_data_source: the two ways a pipeline applies a function to several  *)
(* examples at a time.  The deterministic one fills a buffer and maps it   *)
(* before any of it is returned; the other hands examples to the threads   *)
(* of a pool, which append their results to a queue in the order in which  *)
(* they finish.  Above it, data_pipeline::next() calls again after a       *)
(* recoverable error while it has warnings left.                           *)
(*                                                                         *)
(* The consumer and the pool threads share a mutex and one condition       *)
(* variable.  A test of a predicate and the sleep that follows it are two  *)
(* steps with the mutex held: tasks_in_flight_ changes without it.         *)
(***************************************************************************)
EXTENDS Integers, Sequences, FiniteSets

CONSTANTS
    MapSize,      \* number of examples of the inner source
    InnerBad,     \* the ones the inner source may fail to give, recoverably
    FnBad,        \* the ones the function may fail on
    Workers,      \* the threads of pool_: num_parallel_calls_ of them, at least 2
    MapWarnings,  \* max_num_warnings of the pipeline
    MapCalls      \* bound on calls other than next()

NumParallelCalls == Cardinality(Workers)

ASSUME MapAssumption ==
    /\ MapSize \in Nat /\ InnerBad \subseteq 1..MapSize /\ FnBad \subseteq 1..MapSize
    /\ IsFiniteSet(Workers) /\ NumParallelCalls >= 2
    /\ MapWarnings \in Nat /\ MapCalls \in Nat

VARIABLES
    deterministic, \* deterministic_
    innerPos,      \* examples read from inner_
    buffer,        \* buffer_
    bufferPos,     \* buffer_pos_ - buffer_.begin()
    reserved,      \* buffer_ still has the capacity the constructor reserved
    outputs,       \* async_queue_
    queued,        \* tasks_ of the pool
    worker,        \* what each pool thread does, and with which example
    inFlight,      \* tasks_in_flight_
    finished,      \* finished_
    raised,        \* exception_ptr_ is set
    consumer,      \* where the consumer is
    asked,         \* the call it is making
    slot,          \* the loop variable of fill_buffer_async
    record,        \* the recorded position
    result,        \* what the last next() returned
    warned,        \* warning_count_
    mapBroken,     \* is_broken_ of the pipeline
    mapCalls,
    delivered,     \* history: the examples returned since the beginning
    skipped,       \* history: the examples lost to an error or a loose record
    spoiled        \* history: fill_buffer() failed, which leaves the buffer unmapped

bufferVars == <<buffer, bufferPos, reserved>>
poolVars   == <<outputs, queued, worker, inFlight, finished, raised>>
frontVars  == <<deterministic, record, warned, mapBroken, mapCalls>>
history    == <<delivered, skipped, spoiled>>
mapVars == <<bufferVars, poolVars, frontVars, history, innerPos, consumer,
             asked, slot, result>>

-----------------------------------------------------------------------------
Raw(e)    == <<"raw", e>>
Mapped(e) == <<"mapped", e>>
NoData    == <<"none", 0>>       \* std::nullopt
Failure   == <<"error", 0>>
NoRecord  == [strict |-> FALSE, pos |-> -1, buffer |-> <<>>, bufferPos |-> 0,
              outputs |-> <<>>, delivered |-> {}, skipped |-> {}, spoiled |-> FALSE]

Idle == <<"idle", 0>>

MapInit ==
    /\ deterministic \in BOOLEAN
    /\ innerPos = 0
    /\ buffer = <<>> /\ bufferPos = 0 /\ reserved = TRUE
    /\ outputs = <<>> /\ queued = <<>>
    /\ worker = [w \in Workers |-> Idle]
    /\ inFlight = 0 /\ finished = FALSE /\ raised = FALSE
    /\ consumer = "idle" /\ asked = "none" /\ slot = 0
    /\ record = NoRecord /\ result = NoData
    /\ warned = 0 /\ mapBroken = FALSE /\ mapCalls = 0
    /\ delivered = {} /\ skipped = {} /\ spoiled = FALSE

\* A call returns v.
Return(v) == consumer' = "idle" /\ result' = v

\* data_pipeline::next() on a recoverable error: once more, or give up.
Recover ==
    IF warned < MapWarnings
    THEN /\ consumer' = IF deterministic THEN "yield" ELSE "fill"
         /\ warned' = warned + 1
         /\ UNCHANGED result
    ELSE Return(Failure) /\ UNCHANGED warned

\* Any other error ends the pipeline.
Break == Return(Failure) /\ mapBroken' = TRUE

CallMapNext ==
    /\ consumer = "idle" /\ ~mapBroken
    /\ asked' = "next"
    /\ consumer' = IF deterministic THEN "yield" ELSE "fill"
    /\ slot' = inFlight
    /\ UNCHANGED <<bufferVars, poolVars, frontVars, history, innerPos, result>>

-----------------------------------------------------------------------------
\* The deterministic mode of next().
Yield ==
    /\ consumer = "yield" /\ bufferPos < Len(buffer)
    /\ Return(buffer[bufferPos + 1])
    /\ bufferPos' = bufferPos + 1
    /\ delivered' = delivered \cup {buffer[bufferPos + 1][2]}
    /\ UNCHANGED <<buffer, reserved, poolVars, frontVars, skipped, spoiled, innerPos,
                   asked, slot>>

\* The examples fill_buffer() asks for.
Wanted == {e \in 1..MapSize : innerPos < e /\ e <= innerPos + NumParallelCalls}

\* fill_buffer(): an error of the inner source leaves the examples read before
\* it in the buffer, unmapped, and the position in the buffer as it was; where
\* that points once the buffer was allocated anew is undefined.
FillError ==
    /\ consumer = "yield" /\ bufferPos >= Len(buffer)
    /\ \E e \in Wanted \cap InnerBad :
        /\ innerPos' = e
        /\ buffer' = [i \in 1..(e - innerPos - 1) |-> Raw(innerPos + i)]
        /\ skipped' = skipped \cup {e}
    /\ spoiled' = TRUE
    /\ \/ reserved /\ bufferPos' = bufferPos
       \/ ~reserved /\ bufferPos' \in 0..NumParallelCalls
    /\ Recover
    /\ UNCHANGED <<reserved, poolVars, deterministic, record, mapBroken, mapCalls,
                   delivered, asked, slot>>

\* Mutant of FillBuffer: the last example that fits is not read.
FillBufferShort ==
    /\ consumer = "yield" /\ bufferPos >= Len(buffer)
    /\ innerPos' = innerPos + Cardinality(Wanted)
    /\ bufferPos' = 0
    /\ buffer' = [i \in 1..(Cardinality(Wanted) - 1) |-> Mapped(innerPos + i)]
    /\ IF Cardinality(Wanted) < 2 THEN Return(NoData) ELSE UNCHANGED <<consumer, result>>
    /\ UNCHANGED <<mapBroken, skipped, spoiled, reserved, poolVars, deterministic,
                   record, warned, mapCalls, delivered, asked, slot>>

FillBuffer ==
    /\ consumer = "yield" /\ bufferPos >= Len(buffer)
    /\ innerPos' = innerPos + Cardinality(Wanted)
    /\ bufferPos' = 0
    /\ buffer' = [i \in 1..Cardinality(Wanted) |-> Mapped(innerPos + i)]
    /\ \/ /\ Wanted = {}
          /\ Return(NoData)
          /\ UNCHANGED <<mapBroken, skipped>>
       \/ /\ Wanted \cap FnBad # {}
          /\ Break
          /\ skipped' = skipped \cup (Wanted \cap FnBad)
       \/ /\ Wanted # {}
          /\ UNCHANGED <<consumer, result, mapBroken, skipped>>
    /\ UNCHANGED <<reserved, poolVars, deterministic, record, warned, mapCalls,
                   delivered, spoiled, asked, slot>>

-----------------------------------------------------------------------------
\* The other mode: fill_buffer_async() keeps num_parallel_calls tasks running.
Enqueue ==
    /\ consumer = "fill" /\ slot < NumParallelCalls
    /\ innerPos < MapSize
    /\ innerPos' = innerPos + 1
    /\ inFlight' = inFlight + 1
    /\ queued' = Append(queued, innerPos + 1)
    /\ slot' = slot + 1
    /\ UNCHANGED <<bufferVars, outputs, worker, finished, raised, frontVars,
                   history, consumer, asked, result>>

EnqueueError ==
    /\ consumer = "fill" /\ slot < NumParallelCalls
    /\ innerPos < MapSize /\ innerPos + 1 \in InnerBad
    /\ innerPos' = innerPos + 1
    /\ skipped' = skipped \cup {innerPos + 1}
    /\ Recover
    /\ slot' = inFlight
    /\ UNCHANGED <<bufferVars, poolVars, deterministic, record, mapBroken,
                   mapCalls, delivered, spoiled, asked>>

Filled ==
    /\ consumer = "fill"
    /\ \/ slot >= NumParallelCalls /\ UNCHANGED finished
       \/ slot < NumParallelCalls /\ innerPos = MapSize /\ finished' = TRUE
    /\ consumer' = "check"
    /\ UNCHANGED <<bufferVars, outputs, queued, worker, inFlight, raised,
                   frontVars, history, innerPos, asked, slot, result>>

\* !finished_ || tasks_in_flight_ > 0 || has_async_output(), read one by one.
Check ==
    /\ consumer = "check"
    /\ consumer' = IF ~finished \/ inFlight > 0 THEN "wait" ELSE "checkQueue"
    /\ UNCHANGED <<bufferVars, poolVars, frontVars, history, innerPos, asked,
                   slot, result>>

CheckQueue ==
    /\ consumer = "checkQueue"
    /\ IF outputs # <<>> THEN consumer' = "wait" /\ UNCHANGED result
       ELSE Return(NoData)
    /\ UNCHANGED <<bufferVars, poolVars, frontVars, history, innerPos, asked, slot>>

\* The predicates of the two waits on read_output_condition_.
Ready ==
    \/ raised
    \/ consumer = "wait"  /\ outputs # <<>>
    \/ consumer = "drain" /\ inFlight = 0

\* The consumer has tested its predicate and still holds the mutex.
Holding == consumer \in {"sleepOutput", "sleepDrained"}

NotReady ==
    /\ consumer \in {"wait", "drain"} /\ ~Ready
    /\ consumer' = IF consumer = "wait" THEN "sleepOutput" ELSE "sleepDrained"
    /\ UNCHANGED <<bufferVars, poolVars, frontVars, history, innerPos, asked,
                   slot, result>>

Sleep ==
    /\ Holding
    /\ consumer' = IF consumer = "sleepOutput" THEN "parkedOutput" ELSE "parkedDrained"
    /\ UNCHANGED <<bufferVars, poolVars, frontVars, history, innerPos, asked,
                   slot, result>>

Rethrown ==
    /\ consumer \in {"wait", "drain"} /\ raised
    /\ Break
    /\ UNCHANGED <<bufferVars, poolVars, deterministic, record, warned, mapCalls,
                   history, innerPos, asked, slot>>

Take ==
    /\ consumer = "wait" /\ ~raised /\ outputs # <<>>
    /\ Return(Head(outputs))
    /\ outputs' = Tail(outputs)
    /\ delivered' = delivered \cup {Head(outputs)[2]}
    /\ UNCHANGED <<bufferVars, queued, worker, inFlight, finished, raised,
                   frontVars, skipped, spoiled, innerPos, asked, slot>>

-----------------------------------------------------------------------------
\* A pool thread: AsyncMapTask::operator().
Start(w) ==
    /\ worker[w] = Idle /\ queued # <<>>
    /\ worker' = [worker EXCEPT ![w] = <<"mapping", Head(queued)>>]
    /\ queued' = Tail(queued)
    /\ UNCHANGED <<bufferVars, outputs, inFlight, finished, raised, frontVars,
                   history, innerPos, consumer, asked, slot, result>>

Push(w) ==
    /\ worker[w][1] = "mapping" /\ ~Holding
    /\ \/ /\ worker[w][2] \in FnBad
          /\ raised' = TRUE
          /\ skipped' = skipped \cup {worker[w][2]}
          /\ UNCHANGED outputs
       \/ /\ outputs' = Append(outputs, Mapped(worker[w][2]))
          /\ UNCHANGED <<raised, skipped>>
    /\ worker' = [worker EXCEPT ![w][1] = "pushed"]
    /\ UNCHANGED <<bufferVars, queued, inFlight, finished, frontVars, delivered,
                   spoiled, innerPos, consumer, asked, slot, result>>

CountDown(w) ==
    /\ worker[w][1] = "pushed"
    /\ worker' = [worker EXCEPT ![w][1] = "counted"]
    /\ inFlight' = inFlight - 1
    /\ UNCHANGED <<bufferVars, outputs, queued, finished, raised, frontVars,
                   history, innerPos, consumer, asked, slot, result>>

Notify(w) ==
    /\ worker[w][1] = "counted"
    /\ worker' = [worker EXCEPT ![w] = Idle]
    /\ consumer' = CASE consumer = "parkedOutput"  -> "wait"
                     [] consumer = "parkedDrained" -> "drain"
                     [] OTHER -> consumer
    /\ UNCHANGED <<bufferVars, outputs, queued, inFlight, finished, raised,
                   frontVars, history, innerPos, asked, slot, result>>

-----------------------------------------------------------------------------
\* reset(), record_position() and reload_position(): all but a loose record,
\* and all in deterministic mode but for reset and a loose reload, first wait
\* for the tasks in flight.
CallMap(c) ==
    /\ consumer = "idle" /\ ~mapBroken
    /\ mapCalls < MapCalls
    /\ mapCalls' = mapCalls + 1
    /\ c = "reload" => record # NoRecord
    /\ asked' = c
    /\ consumer' =
         IF \/ c = "loose"
            \/ deterministic /\ c = "record"
            \/ deterministic /\ c = "reload" /\ record.strict
         THEN "act" ELSE "drain"
    /\ UNCHANGED <<bufferVars, poolVars, deterministic, record, warned, mapBroken,
                   history, innerPos, slot, result>>

Drained ==
    /\ consumer = "drain" /\ ~raised /\ inFlight = 0
    /\ consumer' = "act"
    /\ UNCHANGED <<bufferVars, poolVars, frontVars, history, innerPos, asked,
                   slot, result>>

MapReset ==
    /\ consumer = "act" /\ asked = "reset"
    /\ buffer' = <<>> /\ bufferPos' = 0
    /\ outputs' = <<>> /\ finished' = FALSE
    /\ innerPos' = 0
    /\ delivered' = {} /\ skipped' = {} /\ spoiled' = FALSE
    /\ consumer' = "idle"
    /\ UNCHANGED <<reserved, queued, worker, inFlight, raised, frontVars, asked,
                   slot, result>>

MapRecord ==
    /\ consumer = "act" /\ asked \in {"record", "loose"}
    /\ LET strict == asked = "record" IN
       record' =
         [strict    |-> strict,
          pos       |-> innerPos,
          buffer    |-> IF strict /\ deterministic THEN buffer ELSE <<>>,
          bufferPos |-> IF strict /\ deterministic THEN bufferPos ELSE 0,
          outputs   |-> IF strict /\ ~deterministic THEN outputs ELSE <<>>,
          delivered |-> delivered,
          skipped   |-> IF strict THEN skipped ELSE (1..innerPos) \ delivered,
          spoiled   |-> strict /\ spoiled]
    /\ consumer' = "idle"
    /\ UNCHANGED <<bufferVars, poolVars, deterministic, warned, mapBroken, mapCalls,
                   history, innerPos, asked, slot, result>>

MapReload ==
    /\ consumer = "act" /\ asked = "reload"
    /\ buffer' = record.buffer /\ bufferPos' = record.bufferPos
    /\ reserved' = (reserved /\ ~(record.strict /\ deterministic))
    /\ outputs' = record.outputs
    /\ finished' = IF deterministic /\ record.strict THEN finished ELSE FALSE
    /\ innerPos' = record.pos
    /\ delivered' = record.delivered /\ skipped' = record.skipped
    /\ spoiled' = record.spoiled
    /\ consumer' = "idle"
    /\ UNCHANGED <<queued, worker, inFlight, raised, frontVars, asked, slot,
                   result>>

-----------------------------------------------------------------------------
\* Nobody will ever wake the consumer.
Hung ==
    /\ consumer \in {"parkedOutput", "parkedDrained"}
    /\ queued = <<>> /\ \A w \in Workers : worker[w] = Idle

\* A consumer need not read on, and cannot when it is asleep for good.
MapDone == (consumer = "idle" \/ Hung) /\ UNCHANGED mapVars

ConsumerStep ==
    \/ Yield \/ FillBuffer \/ FillError
    \/ Enqueue \/ EnqueueError \/ Filled \/ Check \/ CheckQueue
    \/ NotReady \/ Sleep \/ Rethrown \/ Take
    \/ Drained \/ MapReset \/ MapRecord \/ MapReload

WorkerStep(w) == Start(w) \/ Push(w) \/ CountDown(w) \/ Notify(w)

MapCall == CallMapNext \/ \E c \in {"reset", "record", "loose", "reload"} : CallMap(c)

MapNext == ConsumerStep \/ (\E w \in Workers : WorkerStep(w)) \/ MapCall \/ MapDone

MapFairness == WF_mapVars(ConsumerStep) /\ \A w \in Workers : WF_mapVars(WorkerStep(w))

MapSpec == MapInit /\ [][MapNext]_mapVars /\ MapFairness

-----------------------------------------------------------------------------
\* Examples in the hands of the pool whose result is not in the queue yet.
BeingMapped == {queued[i] : i \in DOMAIN queued} \cup
               {worker[w][2] : w \in {v \in Workers : worker[v][1] = "mapping"}}

Buffered == {buffer[i][2] : i \in (bufferPos + 1)..Len(buffer)}
Output   == {outputs[i][2] : i \in DOMAIN outputs}

\* tasks_in_flight_, the pool, the queue, the buffer and the recorded position
\* together hold every example that was read and not returned, once: nothing is
\* lost and nothing returned twice, over resets, records and reloads too.  The
\* deterministic mode returns the examples in their order, however they finish.
Conserved ==
    mapBroken \/ spoiled \/
    /\ delivered \cup skipped \cup BeingMapped \cup Buffered \cup Output = 1..innerPos
    /\ Cardinality(delivered) + Cardinality(skipped) + Cardinality(BeingMapped)
         + Cardinality(Buffered) + Len(outputs) = innerPos
    /\ deterministic =>
          \A d \in delivered, e \in BeingMapped \cup Buffered : d < e

\* While there is an example left to return, a call to next() returns: a thread
\* that has put one into the queue wakes the consumer.
NextReturns ==
    (asked = "next" /\ consumer # "idle" /\ BeingMapped \cup Output # {})
        ~> consumer = "idle"
=============================================================================
