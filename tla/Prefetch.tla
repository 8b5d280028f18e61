------------------------------- MODULE Prefetch -------------------------------
(***************************************************************************)
(* prefetch_data_source: the thread that reads ahead of the consumer, the  *)
(* two queues between them and the mutex and two condition variables that  *)
(* guard them, under the data_pipeline that retries recoverable errors.    *)
(*                                                                         *)
(* A critical section is one action.  A condition variable is modelled by  *)
(* its waiter: a thread whose predicate is false parks, and runs again     *)
(* only when the other one notifies it.                                    *)
(***************************************************************************)
EXTENDS Integers, Sequences, FiniteSets

CONSTANTS
    Size,         \* number of examples of the inner source
    Bad,          \* the ones whose read may raise a recoverable error
    NumExamples,  \* num_examples_, not 0 (0 reads the inner source directly)
    MaxWarnings,  \* max_num_warnings of the pipeline
    Strict,       \* whether positions are recorded with the queues
    MaxCalls      \* bound on calls other than next()

ASSUME SizeAssumption ==
    /\ Size \in Nat /\ NumExamples \in Nat \ {0}
    /\ MaxWarnings \in Nat /\ MaxCalls \in Nat

ASSUME BadAssumption == Bad \subseteq 1..Size /\ Strict \in BOOLEAN

VARIABLES
    state,       \* state_
    thread,      \* where prefetch_thread_ is; "none" when not joinable
    held,        \* maybe_example: what the thread's last read gave
    failed,      \* exception_ptr_ is set
    shouldStop,  \* should_stop_prefetch_
    fill,        \* fill_queue_
    next,        \* next_queue_
    inner,       \* position of the inner source
    caller,      \* where the calling thread is
    call,        \* the call it is making
    tape,        \* the recorded position
    out,         \* the result of the last next()
    warnings,    \* warning_count_
    broken,      \* is_broken_
    calls

threadVars == <<held, failed, inner>>
queueVars  == <<fill, next>>
callVars   == <<call, tape, out, warnings, broken, calls>>
vars == <<state, thread, threadVars, shouldStop, queueVars, caller, callVars>>

-----------------------------------------------------------------------------
Eod        == 0
Error      == -1
NoPosition == [inner |-> -1, fill |-> <<>>, next |-> <<>>]

Init ==
    /\ state = "not_running" /\ thread = "none"
    /\ held = Eod /\ failed = FALSE /\ inner = 0
    /\ shouldStop = FALSE
    /\ fill = <<>> /\ next = <<>>
    /\ caller = "idle" /\ call = "none"
    /\ tape = NoPosition /\ out = Eod
    /\ warnings = 0 /\ broken = FALSE /\ calls = 0

\* Notifying a condition variable lets its waiter test its predicate again.
WakeThread == thread' = IF thread = "parked" THEN "put" ELSE thread
WakeCaller == caller' = IF caller = "parked" THEN "wait" ELSE caller

-----------------------------------------------------------------------------
\* The thread: prefetch().
Read ==
    /\ thread = "loop" /\ state = "running"
    /\ thread' = "put"
    /\ IF inner < Size
       THEN /\ inner'  = inner + 1
            /\ held'   = inner + 1
            /\ \/ failed' = failed
               \/ inner + 1 \in Bad /\ failed' = TRUE
       ELSE held' = Eod /\ UNCHANGED <<inner, failed>>
    /\ UNCHANGED <<state, shouldStop, queueVars, caller, callVars>>

Exit ==
    /\ thread = "loop" /\ state # "running"
    /\ thread' = "exited"
    /\ UNCHANGED <<state, threadVars, shouldStop, queueVars, caller, callVars>>

HasRoom == shouldStop \/ Len(fill) < NumExamples

Park ==
    /\ thread = "put" /\ ~HasRoom
    /\ thread' = "parked"
    /\ UNCHANGED <<state, threadVars, shouldStop, queueVars, caller, callVars>>

Put ==
    /\ thread = "put" /\ HasRoom
    /\ \/ failed /\ state' = "faulted" /\ UNCHANGED fill
       \/ ~failed /\ held = Eod /\ state' = "eod" /\ UNCHANGED fill
       \/ /\ ~failed /\ held # Eod
          /\ fill'  = Append(fill, held)
          /\ state' = IF shouldStop THEN "not_running" ELSE state
    /\ thread' = "notify"
    /\ UNCHANGED <<threadVars, shouldStop, next, caller, callVars>>

NotifyRead ==
    /\ thread = "notify"
    /\ thread' = "loop"
    /\ WakeCaller
    /\ UNCHANGED <<state, threadVars, shouldStop, queueVars, callVars>>

-----------------------------------------------------------------------------
\* The caller: data_pipeline::next() over prefetch_data_source::next().
CallNext ==
    /\ caller = "idle" /\ ~broken
    /\ call' = "next"
    /\ caller' = IF next = <<>> THEN "ensure" ELSE "pop"
    /\ UNCHANGED <<state, thread, threadVars, shouldStop, queueVars, tape, out,
                   warnings, broken, calls>>

\* ensure_prefetch_thread_running().
Ensure ==
    /\ caller = "ensure"
    /\ caller' = "wait"
    /\ IF state \in {"eod", "faulted"} \/ thread # "none"
       THEN UNCHANGED <<state, thread>>
       ELSE state' = "running" /\ thread' = "loop"
    /\ UNCHANGED <<threadVars, shouldStop, queueVars, callVars>>

Readable == state # "running" \/ fill # <<>>

ParkCaller ==
    /\ caller = "wait" /\ ~Readable
    /\ caller' = "parked"
    /\ UNCHANGED <<state, thread, threadVars, shouldStop, queueVars, callVars>>

Swap ==
    /\ caller = "wait" /\ Readable /\ state # "faulted"
    /\ caller' = "notify"
    /\ next' = fill /\ fill' = next
    /\ UNCHANGED <<state, thread, threadVars, shouldStop, callVars>>

\* Mutant of Rethrow: the warning is not counted.
RethrowUncounted ==
    /\ caller = "wait" /\ state = "faulted"
    /\ IF warnings < MaxWarnings
       THEN caller' = "ensure" /\ UNCHANGED out
       ELSE caller' = "idle" /\ out' = Error
    /\ UNCHANGED <<state, thread, threadVars, shouldStop, queueVars, call, tape,
                   warnings, broken, calls>>

\* The error of the inner source, rethrown; data_pipeline::next() calls again
\* while the error is recoverable and warnings are left.  The prefetcher stays
\* faulted, so each call meets the same error again.
Rethrow ==
    /\ caller = "wait" /\ state = "faulted"
    /\ IF warnings < MaxWarnings
       THEN caller' = "ensure" /\ warnings' = warnings + 1 /\ UNCHANGED out
       ELSE caller' = "idle" /\ out' = Error /\ UNCHANGED warnings
    /\ UNCHANGED <<state, thread, threadVars, shouldStop, queueVars, call, tape,
                   broken, calls>>

\* Mutant of NotifyFill: the thread is not told that there is room.
NotifyNobody ==
    /\ caller = "notify"
    /\ caller' = "pop"
    /\ UNCHANGED <<state, thread, threadVars, shouldStop, queueVars, callVars>>

NotifyFill ==
    /\ caller = "notify"
    /\ caller' = "pop"
    /\ WakeThread
    /\ UNCHANGED <<state, threadVars, shouldStop, queueVars, callVars>>

Pop ==
    /\ caller = "pop"
    /\ caller' = "idle"
    /\ IF next = <<>> THEN out' = Eod /\ UNCHANGED next
       ELSE out' = Head(next) /\ next' = Tail(next)
    /\ UNCHANGED <<state, thread, threadVars, shouldStop, fill, call, tape,
                   warnings, broken, calls>>

-----------------------------------------------------------------------------
\* reset(), record_position(), reload_position() and the destructor all stop
\* the thread first: stop_prefetch_thread().
CallStop(c) ==
    /\ caller = "idle" /\ ~broken
    /\ calls < MaxCalls
    /\ calls' = calls + 1
    /\ call' = c
    /\ c = "reload" => tape # NoPosition
    /\ caller' = IF thread = "none" THEN "act" ELSE "stop"
    /\ UNCHANGED <<state, thread, threadVars, shouldStop, queueVars, tape, out,
                   warnings, broken>>

SetStop ==
    /\ caller = "stop"
    /\ shouldStop' = TRUE
    /\ caller' = "notifyStop"
    /\ UNCHANGED <<state, thread, threadVars, queueVars, callVars>>

NotifyStop ==
    /\ caller = "notifyStop"
    /\ caller' = "join"
    /\ WakeThread
    /\ UNCHANGED <<state, threadVars, shouldStop, queueVars, callVars>>

Join ==
    /\ caller = "join" /\ thread = "exited"
    /\ thread' = "none"
    /\ shouldStop' = FALSE
    /\ caller' = "act"
    /\ UNCHANGED <<state, threadVars, queueVars, callVars>>

\* An error of the inner source ends the pipeline for good.
Broken ==
    /\ caller = "act" /\ state = "faulted"
    /\ IF call = "close" THEN caller' = "closed" /\ UNCHANGED broken
       ELSE caller' = "idle" /\ broken' = TRUE
    /\ UNCHANGED <<state, thread, threadVars, shouldStop, queueVars, call, tape,
                   out, warnings, calls>>

Acting(c) == caller = "act" /\ call = c /\ state # "faulted" /\ caller' = "idle"

Reset ==
    /\ Acting("reset")
    /\ state' = "not_running"
    /\ fill' = <<>> /\ next' = <<>>
    /\ inner' = 0
    /\ UNCHANGED <<thread, held, failed, shouldStop, callVars>>

\* Mutant of RecordPosition: the two queues are recorded in the wrong order.
RecordSwapped ==
    /\ Acting("record")
    /\ tape' = [inner |-> inner,
                fill |-> IF Strict THEN next ELSE <<>>,
                next |-> IF Strict THEN fill ELSE <<>>]
    /\ UNCHANGED <<state, thread, threadVars, shouldStop, queueVars, call, out,
                   warnings, broken, calls>>

RecordPosition ==
    /\ Acting("record")
    /\ tape' = [inner |-> inner,
                fill |-> IF Strict THEN fill ELSE <<>>,
                next |-> IF Strict THEN next ELSE <<>>]
    /\ UNCHANGED <<state, thread, threadVars, shouldStop, queueVars, call, out,
                   warnings, broken, calls>>

ReloadPosition ==
    /\ Acting("reload")
    /\ state' = "not_running"
    /\ fill' = tape.fill /\ next' = tape.next
    /\ inner' = tape.inner
    /\ UNCHANGED <<thread, held, failed, shouldStop, callVars>>

Close ==
    /\ caller = "act" /\ call = "close" /\ state # "faulted"
    /\ caller' = "closed"
    /\ UNCHANGED <<state, thread, threadVars, shouldStop, queueVars, callVars>>

\* A consumer need not read on.
Done ==
    /\ caller \in {"idle", "closed"}
    /\ UNCHANGED vars

-----------------------------------------------------------------------------
ThreadStep == Read \/ Exit \/ Park \/ Put \/ NotifyRead

CallerStep ==
    \/ Ensure \/ ParkCaller \/ Swap \/ Rethrow \/ NotifyFill \/ Pop
    \/ SetStop \/ NotifyStop \/ Join
    \/ Broken \/ Reset \/ RecordPosition \/ ReloadPosition \/ Close

Call == CallNext \/ \E c \in {"reset", "record", "reload", "close"} : CallStop(c)

Next == ThreadStep \/ CallerStep \/ Call \/ Done

Spec == Init /\ [][Next]_vars

\* Both threads are scheduled; nobody is obliged to call.
FairSpec == Spec /\ WF_vars(ThreadStep) /\ WF_vars(CallerStep)

-----------------------------------------------------------------------------
Example == 1..Size

\* The type of every variable.
TypeOK ==
    /\ state \in {"not_running", "running", "eod", "faulted"}
    /\ thread \in {"none", "loop", "put", "parked", "notify", "exited"}
    /\ held \in Example \cup {Eod} /\ failed \in BOOLEAN
    /\ inner \in 0..Size
    /\ shouldStop \in BOOLEAN
    /\ fill \in Seq(Example) /\ next \in Seq(Example)
    /\ caller \in {"idle", "ensure", "wait", "parked", "notify", "pop", "stop",
                   "notifyStop", "join", "act", "closed"}
    /\ call \in {"none", "next", "reset", "record", "reload", "close"}
    /\ tape \in [inner : -1..Size, fill : Seq(Example), next : Seq(Example)]
    /\ out \in Example \cup {Eod, Error}
    /\ warnings \in 0..MaxWarnings /\ broken \in BOOLEAN /\ calls \in 0..MaxCalls

\* num_examples bounds what is read ahead; an example in hand while the thread
\* is stopped goes in on top of it.
QueueBound ==
    /\ Len(fill) <= NumExamples + 1
    /\ Len(next) <= NumExamples + 1

\* wait() and notify_one(): neither thread sleeps on a condition that holds
\* unless the other is about to wake it.
NoLostWakeup ==
    /\ caller = "parked" => ~Readable \/ thread = "notify"
    /\ thread = "parked" => ~HasRoom \/ caller \in {"notify", "notifyStop"}

\* stop_prefetch_thread(): the caller is alone with the inner source and the
\* queues once it has joined the thread, and no stop request is left over for
\* the next thread.
AloneWhenActing ==
    caller = "act" => thread = "none" /\ ~shouldStop /\ state # "running"

\* Every call returns, while the threads are scheduled.
CallsReturn == caller # "idle" ~> caller \in {"idle", "closed"}

-----------------------------------------------------------------------------
\* The refinement: what was delivered is what was read and is not in between.
InHand ==
    IF (thread \in {"put", "parked"} /\ held # Eod) \/ state = "faulted"
    THEN 1 ELSE 0

Delivered == inner - InHand - Len(fill) - Len(next)

Position(t) == t.inner - Len(t.fill) - Len(t.next)

Source == INSTANCE DataSource WITH at <- Delivered, saved <- Position(tape)

\* Behind the two queues and the thread, prefetch_data_source is a data source
\* like its inner one.
ImplementsSource == Source!SourceSpec
=============================================================================
