---------------------------- MODULE PipelineProofs ----------------------------
(***************************************************************************)
(* Proofs about the two data sources that run threads.  Prefetch, for any  *)
(* number of examples, any queue size and any faulty examples: neither     *)
(* thread misses a wake-up, the queues are bounded, and behind both of     *)
(* them the source is the inner one.  MapSource, for any number of         *)
(* examples and pool threads: an example that was read is in one place,    *)
(* and in one place only.                                                  *)
(***************************************************************************)
EXTENDS Prefetch, MapSource, FiniteSetTheorems, TLAPS

-----------------------------------------------------------------------------
(* Prefetch *)

InPut == thread \in {"put", "parked"}

\* Who may be where.
Sites ==
    /\ thread = "none" => state # "running"
    /\ InPut => state = "running"
    /\ thread = "exited" => state # "running"
    /\ shouldStop <=> caller \in {"notifyStop", "join"}
    /\ caller \in {"stop", "notifyStop", "join"} => thread # "none"
    /\ caller = "act" => thread = "none"
    /\ caller \in {"wait", "parked", "notify"} =>
         thread # "none" \/ state \in {"eod", "faulted"}
    /\ state = "not_running" => ~InPut /\ (thread = "none" \/ caller = "join" \/ shouldStop)
    /\ caller \in {"stop", "notifyStop", "join", "act"} =>
         call \in {"reset", "record", "reload", "close"}

\* What the thread holds.
Hand ==
    /\ InPut => (held = inner /\ held # Eod) \/ (held = Eod /\ inner = Size /\ ~failed)
    /\ failed => (InPut /\ held # Eod /\ inner \in Bad) \/ state = "faulted"
    /\ state = "faulted" => inner \in Bad /\ failed
    /\ state = "eod" => inner = Size
    /\ caller \in {"notify", "pop"} /\ next = <<>> => state = "eod" /\ fill = <<>>

\* The queues hold the examples up to the inner position, in order.
Contents ==
    /\ Delivered >= 0
    /\ \A i \in 1..Len(fill) : fill[i] = inner - InHand - Len(fill) + i
    /\ \A i \in 1..Len(next) : next[i] = inner - InHand - Len(fill) - Len(next) + i

\* So do those of the recorded position.
TapeOK ==
    tape.inner # -1 =>
        /\ Position(tape) >= 0
        /\ \A i \in 1..Len(tape.fill) : tape.fill[i] = tape.inner - Len(tape.fill) + i
        /\ \A i \in 1..Len(tape.next) :
              tape.next[i] = tape.inner - Len(tape.fill) - Len(tape.next) + i
\* A position is only reloaded after one was recorded.
TapeNone ==
    /\ tape.inner = -1 => tape = NoPosition
    /\ call = "reload" => tape.inner # -1

\* Only a reload leaves more than num_examples in fill_queue_ while the thread
\* runs, and the consumer takes it at once.
Bounds ==
    /\ QueueBound
    /\ Len(tape.fill) <= NumExamples + 1 /\ Len(tape.next) <= NumExamples + 1
    /\ Len(fill) > NumExamples => state # "running" \/ caller = "wait"
    /\ caller \in {"ensure", "wait", "parked"} => next = <<>>

IInv == TypeOK /\ Sites /\ Hand /\ Contents /\ TapeOK /\ TapeNone /\ Bounds
        /\ NoLostWakeup

-----------------------------------------------------------------------------
\* Every variable keeps its type.
LEMMA TypeStep == TypeOK /\ TapeNone /\ [Next]_vars => (TypeOK /\ TapeNone)'
  <1> SUFFICES ASSUME TypeOK /\ TapeNone, [Next]_vars PROVE (TypeOK /\ TapeNone)'
    OBVIOUS
  <1> USE SizeAssumption, BadAssumption DEF TypeOK, TapeNone, Example, NoPosition
  <1>1. CASE Read
    <2>1. CASE inner < Size
      <3>1. inner + 1 \in 1..Size /\ inner + 1 \in 0..Size
        BY <2>1
      <3>2. failed' \in BOOLEAN
        BY <1>1, <2>1 DEF Read
      <3> QED
        BY <1>1, <2>1, <3>1, <3>2 DEF Read, queueVars, callVars
    <2>2. CASE ~(inner < Size)
      BY <1>1, <2>2 DEF Read, queueVars, callVars
    <2> QED
      BY <2>1, <2>2
  <1>2. CASE Exit
    BY <1>2 DEF Exit, threadVars, queueVars, callVars
  <1>3. CASE Park
    BY <1>3 DEF Park, HasRoom, threadVars, queueVars, callVars
  <1>4. CASE Put
    <2>1. fill' \in Seq(1..Size)
      <3>1. CASE held # Eod /\ fill' = Append(fill, held)
        <4>1. held \in 1..Size
          BY <3>1 DEF Eod
        <4> QED
          BY <3>1, <4>1
      <3> QED
        BY <1>4, <3>1 DEF Put
    <2>2. state' \in {"not_running", "running", "eod", "faulted"}
      BY <1>4 DEF Put
    <2> QED
      BY <1>4, <2>1, <2>2 DEF Put, threadVars, callVars
  <1>5. CASE NotifyRead
    BY <1>5 DEF NotifyRead, WakeCaller, threadVars, queueVars, callVars
  <1>6. CASE Ensure
    BY <1>6 DEF Ensure, threadVars, queueVars, callVars
  <1>7. CASE ParkCaller
    BY <1>7 DEF ParkCaller, Readable, threadVars, queueVars, callVars
  <1>8. CASE Swap
    BY <1>8 DEF Swap, Readable, threadVars, queueVars, callVars
  <1>9. CASE Rethrow
    BY <1>9 DEF Rethrow, threadVars, queueVars, callVars
  <1>10. CASE NotifyFill
    BY <1>10 DEF NotifyFill, WakeThread, threadVars, queueVars, callVars
  <1>11. CASE Pop
    <2>1. CASE next = <<>>
      BY <1>11, <2>1 DEF Pop, threadVars
    <2>2. CASE next # <<>>
      <3>1. Head(next) \in 1..Size /\ Tail(next) \in Seq(1..Size)
        <4> DEFINE E == 1..Size
        <4>1. next \in Seq(E)
          OBVIOUS
        <4> HIDE DEF E
        <4>2. Head(next) \in E /\ Tail(next) \in Seq(E)
          BY ONLY <2>2, <4>1
        <4> QED
          BY <4>2 DEF E
      <3>2. out' \in 1..Size /\ next' \in Seq(1..Size)
        BY <1>11, <2>2, <3>1 DEF Pop
      <3> QED
        BY <1>11, <2>2, <3>2 DEF Pop, threadVars
    <2> QED
      BY <2>1, <2>2
  <1>12. CASE SetStop
    BY <1>12 DEF SetStop, threadVars, queueVars, callVars
  <1>13. CASE NotifyStop
    BY <1>13 DEF NotifyStop, WakeThread, threadVars, queueVars, callVars
  <1>14. CASE Join
    <2>1. /\ thread' = "none" /\ shouldStop' = FALSE /\ caller' = "act"
          /\ UNCHANGED <<state, held, failed, inner, fill, next, call, tape, out, warnings,
                         broken, calls>>
      BY ONLY <1>14 DEF Join, threadVars, queueVars, callVars
    <2>2. TypeOK'
      BY <2>1
    <2>3. TapeNone'
      BY <2>1
    <2> QED
      BY <2>2, <2>3
  <1>15. CASE Broken
    <2>1. broken' \in BOOLEAN /\ caller' \in {"idle", "closed"}
      BY <1>15 DEF Broken
    <2> QED
      BY <1>15, <2>1 DEF Broken, threadVars, queueVars
  <1>16. CASE Reset
    BY <1>16 DEF Reset, Acting, threadVars, queueVars, callVars
  <1>17. CASE RecordPosition
    <2>1. tape' \in [inner : -1..Size, fill : Seq(1..Size), next : Seq(1..Size)]
      <3>1. inner \in -1..Size /\ <<>> \in Seq(1..Size)
        OBVIOUS
      <3>2. CASE Strict
        BY <1>17, <3>1, <3>2 DEF RecordPosition
      <3>3. CASE ~Strict
        BY <1>17, <3>1, <3>3 DEF RecordPosition
      <3> QED
        BY <3>2, <3>3
    <2>2. tape'.inner # -1
      BY <1>17 DEF RecordPosition
    <2> QED
      BY <1>17, <2>1, <2>2 DEF RecordPosition, Acting, threadVars, queueVars
  <1>18. CASE ReloadPosition
    <2>1. /\ tape.inner \in 0..Size
          /\ tape.fill \in Seq(1..Size) /\ tape.next \in Seq(1..Size)
      BY <1>18 DEF ReloadPosition, Acting
    <2> QED
      BY <1>18, <2>1 DEF ReloadPosition, Acting, callVars
  <1>19. CASE Close
    BY <1>19 DEF Close, threadVars, queueVars, callVars
  <1>20. CASE CallNext
    BY <1>20 DEF CallNext, threadVars, queueVars, callVars
  <1>21. ASSUME NEW c \in {"reset", "record", "reload", "close"}, CallStop(c) PROVE (TypeOK /\ TapeNone)'
    BY <1>21 DEF CallStop, threadVars, queueVars, callVars
  <1>22. CASE UNCHANGED vars
    BY <1>22 DEF vars, threadVars, queueVars, callVars
  <1> QED
    BY <1>1, <1>2, <1>3, <1>4, <1>5, <1>6, <1>7, <1>8, <1>9, <1>10,
       <1>11, <1>12, <1>13, <1>14, <1>15, <1>16, <1>17, <1>18, <1>19,
       <1>20, <1>21, <1>22
    DEF Next, ThreadStep, CallerStep, Call, Done

\* The two threads stay where the other may find them.
LEMMA SitesStep == TypeOK /\ Sites /\ [Next]_vars => Sites'
  <1> SUFFICES ASSUME TypeOK /\ Sites, [Next]_vars PROVE Sites'
    OBVIOUS
  <1> USE SizeAssumption, BadAssumption DEF TypeOK, Sites, InPut
  <1>1. CASE Read
    BY <1>1 DEF Read, threadVars, queueVars, callVars
  <1>2. CASE Exit
    BY <1>2 DEF Exit, threadVars, queueVars, callVars
  <1>3. CASE Park
    BY <1>3 DEF Park, HasRoom, threadVars, queueVars, callVars
  <1>4. CASE Put
    BY <1>4 DEF Put, HasRoom, threadVars, queueVars, callVars
  <1>5. CASE NotifyRead
    BY <1>5 DEF NotifyRead, WakeCaller, threadVars, queueVars, callVars
  <1>6. CASE Ensure
    BY <1>6 DEF Ensure, threadVars, queueVars, callVars
  <1>7. CASE ParkCaller
    BY <1>7 DEF ParkCaller, Readable, threadVars, queueVars, callVars
  <1>8. CASE Swap
    BY <1>8 DEF Swap, Readable, threadVars, queueVars, callVars
  <1>9. CASE Rethrow
    BY <1>9 DEF Rethrow, threadVars, queueVars, callVars
  <1>10. CASE NotifyFill
    BY <1>10 DEF NotifyFill, WakeThread, threadVars, queueVars, callVars
  <1>11. CASE Pop
    BY <1>11 DEF Pop, threadVars, queueVars, callVars
  <1>12. CASE SetStop
    BY <1>12 DEF SetStop, threadVars, queueVars, callVars
  <1>13. CASE NotifyStop
    BY <1>13 DEF NotifyStop, WakeThread, threadVars, queueVars, callVars
  <1>14. CASE Join
    <2>1. ~shouldStop' /\ caller' = "act" /\ thread' = "none" /\ state' = state
      BY <1>14 DEF Join
    <2>2. state # "running" /\ call' \in {"reset", "record", "reload", "close"}
      BY <1>14 DEF Join, callVars
    <2> QED
      BY <2>1, <2>2
  <1>15. CASE Broken
    BY <1>15 DEF Broken, threadVars, queueVars, callVars
  <1>16. CASE Reset
    BY <1>16 DEF Reset, Acting, threadVars, queueVars, callVars
  <1>17. CASE RecordPosition
    BY <1>17 DEF RecordPosition, Acting, threadVars, queueVars, callVars
  <1>18. CASE ReloadPosition
    BY <1>18 DEF ReloadPosition, Acting, threadVars, queueVars, callVars
  <1>19. CASE Close
    BY <1>19 DEF Close, threadVars, queueVars, callVars
  <1>20. CASE CallNext
    BY <1>20 DEF CallNext, threadVars, queueVars, callVars
  <1>21. ASSUME NEW c \in {"reset", "record", "reload", "close"}, CallStop(c) PROVE Sites'
    BY <1>21 DEF CallStop, threadVars, queueVars, callVars
  <1>22. CASE UNCHANGED vars
    BY <1>22 DEF vars, threadVars, queueVars, callVars
  <1> QED
    BY <1>1, <1>2, <1>3, <1>4, <1>5, <1>6, <1>7, <1>8, <1>9, <1>10,
       <1>11, <1>12, <1>13, <1>14, <1>15, <1>16, <1>17, <1>18, <1>19,
       <1>20, <1>21, <1>22
    DEF Next, ThreadStep, CallerStep, Call, Done

\* Whoever makes a condition true is about to notify its waiter.
LEMMA WakeStep == TypeOK /\ Sites /\ NoLostWakeup /\ [Next]_vars => NoLostWakeup'
  <1> SUFFICES ASSUME TypeOK /\ Sites /\ NoLostWakeup, [Next]_vars PROVE NoLostWakeup'
    OBVIOUS
  <1> USE SizeAssumption, BadAssumption DEF TypeOK, Sites, InPut, NoLostWakeup, HasRoom, Readable
  <1>1. CASE Read
    BY <1>1 DEF Read, threadVars, queueVars, callVars
  <1>2. CASE Exit
    BY <1>2 DEF Exit, threadVars, queueVars, callVars
  <1>3. CASE Park
    BY <1>3 DEF Park, HasRoom, threadVars, queueVars, callVars
  <1>4. CASE Put
    BY <1>4 DEF Put, HasRoom, threadVars, queueVars, callVars
  <1>5. CASE NotifyRead
    BY <1>5 DEF NotifyRead, WakeCaller, threadVars, queueVars, callVars
  <1>6. CASE Ensure
    BY <1>6 DEF Ensure, threadVars, queueVars, callVars
  <1>7. CASE ParkCaller
    BY <1>7 DEF ParkCaller, Readable, threadVars, queueVars, callVars
  <1>8. CASE Swap
    BY <1>8 DEF Swap, Readable, threadVars, queueVars, callVars
  <1>9. CASE Rethrow
    BY <1>9 DEF Rethrow, threadVars, queueVars, callVars
  <1>10. CASE NotifyFill
    BY <1>10 DEF NotifyFill, WakeThread, threadVars, queueVars, callVars
  <1>11. CASE Pop
    BY <1>11 DEF Pop, threadVars, queueVars, callVars
  <1>12. CASE SetStop
    BY <1>12 DEF SetStop, threadVars, queueVars, callVars
  <1>13. CASE NotifyStop
    BY <1>13 DEF NotifyStop, WakeThread, threadVars, queueVars, callVars
  <1>14. CASE Join
    BY <1>14 DEF Join, threadVars, queueVars, callVars
  <1>15. CASE Broken
    BY <1>15 DEF Broken, threadVars, queueVars, callVars
  <1>16. CASE Reset
    BY <1>16 DEF Reset, Acting, threadVars, queueVars, callVars
  <1>17. CASE RecordPosition
    BY <1>17 DEF RecordPosition, Acting, threadVars, queueVars, callVars
  <1>18. CASE ReloadPosition
    BY <1>18 DEF ReloadPosition, Acting, threadVars, queueVars, callVars
  <1>19. CASE Close
    BY <1>19 DEF Close, threadVars, queueVars, callVars
  <1>20. CASE CallNext
    BY <1>20 DEF CallNext, threadVars, queueVars, callVars
  <1>21. ASSUME NEW c \in {"reset", "record", "reload", "close"}, CallStop(c) PROVE NoLostWakeup'
    BY <1>21 DEF CallStop, threadVars, queueVars, callVars
  <1>22. CASE UNCHANGED vars
    BY <1>22 DEF vars, threadVars, queueVars, callVars
  <1> QED
    BY <1>1, <1>2, <1>3, <1>4, <1>5, <1>6, <1>7, <1>8, <1>9, <1>10,
       <1>11, <1>12, <1>13, <1>14, <1>15, <1>16, <1>17, <1>18, <1>19,
       <1>20, <1>21, <1>22
    DEF Next, ThreadStep, CallerStep, Call, Done

\* num_examples bounds the queues.
LEMMA BoundsStep == TypeOK /\ Sites /\ Bounds /\ [Next]_vars => Bounds'
  <1> SUFFICES ASSUME TypeOK /\ Sites /\ Bounds, [Next]_vars PROVE Bounds'
    OBVIOUS
  <1> USE SizeAssumption, BadAssumption DEF TypeOK, Sites, InPut, Bounds, QueueBound, HasRoom, Readable, Example
  <1>1. CASE Read
    BY <1>1 DEF Read, threadVars, queueVars, callVars
  <1>2. CASE Exit
    BY <1>2 DEF Exit, threadVars, queueVars, callVars
  <1>3. CASE Park
    BY <1>3 DEF Park, HasRoom, threadVars, queueVars, callVars
  <1>4. CASE Put
    BY <1>4 DEF Put, HasRoom, threadVars, queueVars, callVars
  <1>5. CASE NotifyRead
    BY <1>5 DEF NotifyRead, WakeCaller, threadVars, queueVars, callVars
  <1>6. CASE Ensure
    BY <1>6 DEF Ensure, threadVars, queueVars, callVars
  <1>7. CASE ParkCaller
    BY <1>7 DEF ParkCaller, Readable, threadVars, queueVars, callVars
  <1>8. CASE Swap
    BY <1>8 DEF Swap, Readable, threadVars, queueVars, callVars
  <1>9. CASE Rethrow
    BY <1>9 DEF Rethrow, threadVars, queueVars, callVars
  <1>10. CASE NotifyFill
    BY <1>10 DEF NotifyFill, WakeThread, threadVars, queueVars, callVars
  <1>11. CASE Pop
    BY <1>11 DEF Pop, threadVars, queueVars, callVars
  <1>12. CASE SetStop
    BY <1>12 DEF SetStop, threadVars, queueVars, callVars
  <1>13. CASE NotifyStop
    BY <1>13 DEF NotifyStop, WakeThread, threadVars, queueVars, callVars
  <1>14. CASE Join
    BY <1>14 DEF Join, threadVars, queueVars, callVars
  <1>15. CASE Broken
    BY <1>15 DEF Broken, threadVars, queueVars, callVars
  <1>16. CASE Reset
    BY <1>16 DEF Reset, Acting, threadVars, queueVars, callVars
  <1>17. CASE RecordPosition
    BY <1>17 DEF RecordPosition, Acting, threadVars, queueVars, callVars
  <1>18. CASE ReloadPosition
    BY <1>18 DEF ReloadPosition, Acting, threadVars, queueVars, callVars
  <1>19. CASE Close
    BY <1>19 DEF Close, threadVars, queueVars, callVars
  <1>20. CASE CallNext
    BY <1>20 DEF CallNext, threadVars, queueVars, callVars
  <1>21. ASSUME NEW c \in {"reset", "record", "reload", "close"}, CallStop(c) PROVE Bounds'
    BY <1>21 DEF CallStop, threadVars, queueVars, callVars
  <1>22. CASE UNCHANGED vars
    BY <1>22 DEF vars, threadVars, queueVars, callVars
  <1> QED
    BY <1>1, <1>2, <1>3, <1>4, <1>5, <1>6, <1>7, <1>8, <1>9, <1>10,
       <1>11, <1>12, <1>13, <1>14, <1>15, <1>16, <1>17, <1>18, <1>19,
       <1>20, <1>21, <1>22
    DEF Next, ThreadStep, CallerStep, Call, Done

\* What the thread holds is the example it read last.
LEMMA HandStep == TypeOK /\ Sites /\ Bounds /\ Hand /\ [Next]_vars => Hand'
  <1> SUFFICES ASSUME TypeOK /\ Sites /\ Bounds /\ Hand, [Next]_vars PROVE Hand'
    OBVIOUS
  <1> USE SizeAssumption, BadAssumption DEF TypeOK, Sites, InPut, Bounds, Hand, HasRoom, Readable, Example, Eod
  <1>1. CASE Read
    BY <1>1 DEF Read, threadVars, queueVars, callVars
  <1>2. CASE Exit
    BY <1>2 DEF Exit, threadVars, queueVars, callVars
  <1>3. CASE Park
    BY <1>3 DEF Park, HasRoom, threadVars, queueVars, callVars
  <1>4. CASE Put
    <2>1. CASE failed /\ state' = "faulted" /\ fill' = fill
      <3>1. inner \in Bad
        BY <1>4, <2>1 DEF Put
      <3> QED
        BY <1>4, <2>1, <3>1 DEF Put, threadVars, callVars
    <2>2. CASE ~failed /\ held = 0 /\ state' = "eod" /\ fill' = fill
      <3>1. inner = Size
        BY <1>4, <2>2 DEF Put
      <3> QED
        BY <1>4, <2>2, <3>1 DEF Put, threadVars, callVars
    <2>3. CASE /\ ~failed /\ held # 0 /\ fill' = Append(fill, held)
               /\ state' = IF shouldStop THEN "not_running" ELSE state
      <3>1. state = "running" /\ (caller \in {"notify", "pop"} => next # <<>>)
        BY <1>4 DEF Put
      <3> QED
        BY <1>4, <2>3, <3>1 DEF Put, threadVars, callVars
    <2> QED
      BY <1>4, <2>1, <2>2, <2>3 DEF Put
  <1>5. CASE NotifyRead
    BY <1>5 DEF NotifyRead, WakeCaller, threadVars, queueVars, callVars
  <1>6. CASE Ensure
    BY <1>6 DEF Ensure, threadVars, queueVars, callVars
  <1>7. CASE ParkCaller
    BY <1>7 DEF ParkCaller, Readable, threadVars, queueVars, callVars
  <1>8. CASE Swap
    BY <1>8 DEF Swap, Readable, threadVars, queueVars, callVars
  <1>9. CASE Rethrow
    BY <1>9 DEF Rethrow, threadVars, queueVars, callVars
  <1>10. CASE NotifyFill
    BY <1>10 DEF NotifyFill, WakeThread, threadVars, queueVars, callVars
  <1>11. CASE Pop
    BY <1>11 DEF Pop, threadVars, queueVars, callVars
  <1>12. CASE SetStop
    BY <1>12 DEF SetStop, threadVars, queueVars, callVars
  <1>13. CASE NotifyStop
    BY <1>13 DEF NotifyStop, WakeThread, threadVars, queueVars, callVars
  <1>14. CASE Join
    BY <1>14 DEF Join, threadVars, queueVars, callVars
  <1>15. CASE Broken
    BY <1>15 DEF Broken, threadVars, queueVars, callVars
  <1>16. CASE Reset
    BY <1>16 DEF Reset, Acting, threadVars, queueVars, callVars
  <1>17. CASE RecordPosition
    BY <1>17 DEF RecordPosition, Acting, threadVars, queueVars, callVars
  <1>18. CASE ReloadPosition
    BY <1>18 DEF ReloadPosition, Acting, threadVars, queueVars, callVars
  <1>19. CASE Close
    BY <1>19 DEF Close, threadVars, queueVars, callVars
  <1>20. CASE CallNext
    BY <1>20 DEF CallNext, threadVars, queueVars, callVars
  <1>21. ASSUME NEW c \in {"reset", "record", "reload", "close"}, CallStop(c) PROVE Hand'
    BY <1>21 DEF CallStop, threadVars, queueVars, callVars
  <1>22. CASE UNCHANGED vars
    BY <1>22 DEF vars, threadVars, queueVars, callVars
  <1> QED
    BY <1>1, <1>2, <1>3, <1>4, <1>5, <1>6, <1>7, <1>8, <1>9, <1>10,
       <1>11, <1>12, <1>13, <1>14, <1>15, <1>16, <1>17, <1>18, <1>19,
       <1>20, <1>21, <1>22
    DEF Next, ThreadStep, CallerStep, Call, Done

\* The queues hold what lies between the inner position and the consumer.
LEMMA ContentsStep == TypeOK /\ Sites /\ Bounds /\ Hand /\ TapeNone /\ TapeOK /\ Contents /\ [Next]_vars => Contents'
  <1> SUFFICES ASSUME TypeOK /\ Sites /\ Bounds /\ Hand /\ TapeNone /\ TapeOK /\ Contents, [Next]_vars PROVE Contents'
    OBVIOUS
  <1> USE SizeAssumption, BadAssumption DEF TypeOK, Sites, InPut, Bounds, Hand, HasRoom, Readable, Example, Eod, TapeOK, TapeNone, Contents, InHand, Delivered, Position
  <1>1. CASE Read
    <2>1. InHand = 0 /\ state = "running"
      BY <1>1 DEF Read
    <2>2. CASE inner < Size
      <3>1. inner' = inner + 1 /\ held' = inner + 1 /\ thread' = "put" /\ state' = state
            /\ fill' = fill /\ next' = next
        BY <1>1, <2>2 DEF Read, queueVars
      <3>2. InHand' = 1
        BY <2>1, <3>1
      <3> QED
        BY <2>1, <3>1, <3>2
    <2>3. CASE ~(inner < Size)
      <3>1. inner' = inner /\ held' = 0 /\ thread' = "put" /\ state' = state
            /\ fill' = fill /\ next' = next
        BY <1>1, <2>3 DEF Read, queueVars
      <3>2. InHand' = 0
        BY <2>1, <3>1
      <3> QED
        BY <2>1, <3>1, <3>2
    <2> QED
      BY <2>2, <2>3
  <1>2. CASE Exit
    BY <1>2 DEF Exit, threadVars, queueVars, callVars
  <1>3. CASE Park
    BY <1>3 DEF Park, HasRoom, threadVars, queueVars, callVars
  <1>4. CASE Put
    <2>0. InPut /\ state = "running" /\ inner' = inner /\ held' = held /\ next' = next
          /\ thread' = "notify"
      BY <1>4 DEF Put, threadVars
    <2>1. CASE failed /\ state' = "faulted" /\ fill' = fill
      <3>1. InHand = 1 /\ InHand' = 1
        BY <2>0, <2>1
      <3> QED
        BY <2>0, <2>1, <3>1
    <2>2. CASE ~failed /\ held = 0 /\ state' = "eod" /\ fill' = fill
      <3>1. InHand = 0 /\ InHand' = 0
        BY <2>0, <2>2
      <3> QED
        BY <2>0, <2>2, <3>1
    <2>3. CASE /\ ~failed /\ held # 0 /\ fill' = Append(fill, held)
               /\ state' = IF shouldStop THEN "not_running" ELSE state
      <3>1. InHand = 1 /\ InHand' = 0 /\ held = inner
        BY <2>0, <2>3
      <3>2. /\ Len(fill') = Len(fill) + 1 /\ fill'[Len(fill) + 1] = inner
            /\ \A i \in 1..Len(fill) : fill'[i] = fill[i]
        BY <2>3, <3>1
      <3>3. Delivered' = Delivered
        BY <2>0, <3>1, <3>2
      <3>4. ASSUME NEW i \in 1..Len(fill')
            PROVE  fill'[i] = inner' - InHand' - Len(fill') + i
        <4>1. /\ inner \in Int /\ i \in Int /\ Len(fill) \in Int
              /\ i <= Len(fill) => i \in 1..Len(fill)
              /\ i <= Len(fill) \/ i = Len(fill) + 1
          BY <3>2, <3>4
        <4>2. i <= Len(fill) => fill[i] = inner - InHand - Len(fill) + i
          BY <4>1
        <4> HIDE DEF InHand, Delivered, TypeOK, Contents
        <4> QED
          BY <2>0, <3>1, <3>2, <4>1, <4>2
      <3>5. \A i \in 1..Len(next') :
               next'[i] = inner' - InHand' - Len(fill') - Len(next') + i
        BY <2>0, <3>1, <3>2
      <3> QED
        BY <3>3, <3>4, <3>5
    <2> QED
      BY <1>4, <2>1, <2>2, <2>3 DEF Put
  <1>5. CASE NotifyRead
    BY <1>5 DEF NotifyRead, WakeCaller, threadVars, queueVars, callVars
  <1>6. CASE Ensure
    BY <1>6 DEF Ensure, threadVars, queueVars, callVars
  <1>7. CASE ParkCaller
    BY <1>7 DEF ParkCaller, Readable, threadVars, queueVars, callVars
  <1>8. CASE Swap
    BY <1>8 DEF Swap, Readable, threadVars, queueVars, callVars
  <1>9. CASE Rethrow
    BY <1>9 DEF Rethrow, threadVars, queueVars, callVars
  <1>10. CASE NotifyFill
    BY <1>10 DEF NotifyFill, WakeThread, threadVars, queueVars, callVars
  <1>11. CASE Pop
    <2>0. inner' = inner /\ fill' = fill /\ InHand' = InHand
      BY <1>11 DEF Pop, threadVars
    <2>1. CASE next = <<>>
      BY <1>11, <2>0, <2>1 DEF Pop
    <2>2. CASE next # <<>>
      <3>1. next' = Tail(next)
        BY <1>11, <2>2 DEF Pop
      <3>2. Len(next') = Len(next) - 1 /\ \A i \in 1..Len(next') : next'[i] = next[i + 1]
        BY <2>2, <3>1
      <3>3. Delivered' = Delivered + 1
        BY <2>0, <3>2
      <3>4. \A i \in 1..Len(fill') : fill'[i] = inner' - InHand' - Len(fill') + i
        BY <2>0
      <3>5. ASSUME NEW i \in 1..Len(next')
            PROVE  next'[i] = inner' - InHand' - Len(fill') - Len(next') + i
        <4>1. i + 1 \in 1..Len(next)
          BY <3>2, <3>5
        <4>2. next[i + 1] = inner - InHand - Len(fill) - Len(next) + (i + 1)
          BY <4>1
        <4>3. /\ InHand \in Int /\ inner \in Int /\ i \in Int
              /\ Len(fill) \in Int /\ Len(next) \in Int
          OBVIOUS
        <4> HIDE DEF InHand, Delivered, TypeOK, Contents
        <4> QED
          BY <2>0, <3>2, <3>5, <4>2, <4>3
      <3> QED
        BY <3>3, <3>4, <3>5
    <2> QED
      BY <2>1, <2>2
  <1>12. CASE SetStop
    BY <1>12 DEF SetStop, threadVars, queueVars, callVars
  <1>13. CASE NotifyStop
    BY <1>13 DEF NotifyStop, WakeThread, threadVars, queueVars, callVars
  <1>14. CASE Join
    BY <1>14 DEF Join, threadVars, queueVars, callVars
  <1>15. CASE Broken
    BY <1>15 DEF Broken, threadVars, queueVars, callVars
  <1>16. CASE Reset
    BY <1>16 DEF Reset, Acting, threadVars, queueVars, callVars
  <1>17. CASE RecordPosition
    BY <1>17 DEF RecordPosition, Acting, threadVars, queueVars, callVars
  <1>18. CASE ReloadPosition
    BY <1>18 DEF ReloadPosition, Acting, threadVars, queueVars, callVars
  <1>19. CASE Close
    BY <1>19 DEF Close, threadVars, queueVars, callVars
  <1>20. CASE CallNext
    BY <1>20 DEF CallNext, threadVars, queueVars, callVars
  <1>21. ASSUME NEW c \in {"reset", "record", "reload", "close"}, CallStop(c) PROVE Contents'
    BY <1>21 DEF CallStop, threadVars, queueVars, callVars
  <1>22. CASE UNCHANGED vars
    BY <1>22 DEF vars, threadVars, queueVars, callVars
  <1> QED
    BY <1>1, <1>2, <1>3, <1>4, <1>5, <1>6, <1>7, <1>8, <1>9, <1>10,
       <1>11, <1>12, <1>13, <1>14, <1>15, <1>16, <1>17, <1>18, <1>19,
       <1>20, <1>21, <1>22
    DEF Next, ThreadStep, CallerStep, Call, Done

\* So does the recorded position.
LEMMA TapeStep == TypeOK /\ Sites /\ Hand /\ TapeNone /\ TapeOK /\ Contents /\ [Next]_vars => TapeOK'
  <1> SUFFICES ASSUME TypeOK /\ Sites /\ Hand /\ TapeNone /\ TapeOK /\ Contents, [Next]_vars PROVE TapeOK'
    OBVIOUS
  <1> USE SizeAssumption, BadAssumption DEF TypeOK, Sites, InPut, Hand, TapeOK, TapeNone, Contents, InHand, Delivered, Position, Example, Eod
  <1>1. CASE Read
    BY <1>1 DEF Read, threadVars, queueVars, callVars
  <1>2. CASE Exit
    BY <1>2 DEF Exit, threadVars, queueVars, callVars
  <1>3. CASE Park
    BY <1>3 DEF Park, HasRoom, threadVars, queueVars, callVars
  <1>4. CASE Put
    BY <1>4 DEF Put, HasRoom, threadVars, queueVars, callVars
  <1>5. CASE NotifyRead
    BY <1>5 DEF NotifyRead, WakeCaller, threadVars, queueVars, callVars
  <1>6. CASE Ensure
    BY <1>6 DEF Ensure, threadVars, queueVars, callVars
  <1>7. CASE ParkCaller
    BY <1>7 DEF ParkCaller, Readable, threadVars, queueVars, callVars
  <1>8. CASE Swap
    BY <1>8 DEF Swap, Readable, threadVars, queueVars, callVars
  <1>9. CASE Rethrow
    BY <1>9 DEF Rethrow, threadVars, queueVars, callVars
  <1>10. CASE NotifyFill
    BY <1>10 DEF NotifyFill, WakeThread, threadVars, queueVars, callVars
  <1>11. CASE Pop
    BY <1>11 DEF Pop, threadVars, queueVars, callVars
  <1>12. CASE SetStop
    BY <1>12 DEF SetStop, threadVars, queueVars, callVars
  <1>13. CASE NotifyStop
    BY <1>13 DEF NotifyStop, WakeThread, threadVars, queueVars, callVars
  <1>14. CASE Join
    BY <1>14 DEF Join, threadVars, queueVars, callVars
  <1>15. CASE Broken
    BY <1>15 DEF Broken, threadVars, queueVars, callVars
  <1>16. CASE Reset
    BY <1>16 DEF Reset, Acting, threadVars, queueVars, callVars
  <1>17. CASE RecordPosition
    BY <1>17 DEF RecordPosition, Acting, threadVars, queueVars, callVars
  <1>18. CASE ReloadPosition
    BY <1>18 DEF ReloadPosition, Acting, threadVars, queueVars, callVars
  <1>19. CASE Close
    BY <1>19 DEF Close, threadVars, queueVars, callVars
  <1>20. CASE CallNext
    BY <1>20 DEF CallNext, threadVars, queueVars, callVars
  <1>21. ASSUME NEW c \in {"reset", "record", "reload", "close"}, CallStop(c) PROVE TapeOK'
    BY <1>21 DEF CallStop, threadVars, queueVars, callVars
  <1>22. CASE UNCHANGED vars
    BY <1>22 DEF vars, threadVars, queueVars, callVars
  <1> QED
    BY <1>1, <1>2, <1>3, <1>4, <1>5, <1>6, <1>7, <1>8, <1>9, <1>10,
       <1>11, <1>12, <1>13, <1>14, <1>15, <1>16, <1>17, <1>18, <1>19,
       <1>20, <1>21, <1>22
    DEF Next, ThreadStep, CallerStep, Call, Done

\* Every step is a step of the data source or leaves it as it is.
LEMMA SourceStep == IInv /\ [Next]_vars => [Source!SourceNext]_(Source!sourceVars)
  <1> SUFFICES ASSUME IInv, [Next]_vars PROVE [Source!SourceNext]_(Source!sourceVars)
    OBVIOUS
  <1> USE SizeAssumption, BadAssumption DEF IInv, TypeOK, Sites, InPut, Hand, TapeOK, TapeNone, InHand, Delivered, Position, Example, Eod, Source!sourceVars
  <1>1. CASE Read
    <2>1. InHand = 0 /\ UNCHANGED <<fill, next, state, tape, out>> /\ state = "running"
      BY <1>1 DEF Read, queueVars, callVars
    <2>2. inner' = inner + InHand'
      BY <1>1, <2>1 DEF Read
    <2> QED
      BY <2>1, <2>2
  <1>2. CASE Exit
    BY <1>2 DEF Exit, threadVars, queueVars, callVars
  <1>3. CASE Park
    BY <1>3 DEF Park, HasRoom, threadVars, queueVars, callVars
  <1>4. CASE Put
    <2>0. InPut /\ state = "running" /\ inner' = inner /\ next' = next
          /\ thread' = "notify" /\ out' = out /\ tape' = tape
      BY <1>4 DEF Put, threadVars, callVars
    <2>1. CASE failed /\ state' = "faulted" /\ fill' = fill
      BY <2>0, <2>1
    <2>2. CASE ~failed /\ held = 0 /\ state' = "eod" /\ fill' = fill
      BY <2>0, <2>2
    <2>3. CASE /\ ~failed /\ held # 0 /\ fill' = Append(fill, held)
               /\ state' = IF shouldStop THEN "not_running" ELSE state
      <3>1. InHand = 1 /\ InHand' = 0 /\ Len(fill') = Len(fill) + 1
        BY <2>0, <2>3
      <3> QED
        BY <2>0, <3>1
    <2> QED
      BY <1>4, <2>1, <2>2, <2>3 DEF Put
  <1>5. CASE NotifyRead
    BY <1>5 DEF NotifyRead, WakeCaller, threadVars, queueVars, callVars
  <1>6. CASE Ensure
    BY <1>6 DEF Ensure, threadVars, queueVars, callVars
  <1>7. CASE ParkCaller
    BY <1>7 DEF ParkCaller, Readable, threadVars, queueVars, callVars
  <1>8. CASE Swap
    BY <1>8 DEF Swap, Readable, threadVars, queueVars, callVars
  <1>9. CASE Rethrow
    <2>1. UNCHANGED <<Delivered, Position(tape)>>
      BY <1>9 DEF Rethrow, threadVars, queueVars
    <2>2. inner \in Bad /\ inner > Delivered
      BY <1>9 DEF Rethrow
    <2>3. out' = out \/ out' = Error
      BY <1>9 DEF Rethrow
    <2> QED
      BY <2>1, <2>2, <2>3 DEF Source!SourceNext, Source!Fail, Source!Error, Error
  <1>10. CASE NotifyFill
    BY <1>10 DEF NotifyFill, WakeThread, threadVars, queueVars, callVars
  <1>11. CASE Pop
    <2>0. UNCHANGED <<inner, fill, InHand, Position(tape)>>
      BY <1>11 DEF Pop, threadVars
    <2>1. CASE next = <<>>
      <3>1. Delivered = Size /\ UNCHANGED Delivered /\ out' = 0
        BY <1>11, <2>0, <2>1 DEF Pop
      <3> QED
        BY <2>0, <3>1 DEF Source!SourceNext, Source!End, Source!Eod
    <2>2. CASE next # <<>>
      <3>1. out' = next[1] /\ Len(next') = Len(next) - 1 /\ 1 \in 1..Len(next)
        BY <1>11, <2>2 DEF Pop
      <3>2. next[1] = Delivered + 1
        BY <3>1 DEF Contents
      <3>3. Delivered' = Delivered + 1 /\ Delivered < Size
        BY <2>0, <3>1
      <3> QED
        BY <2>0, <3>1, <3>2, <3>3 DEF Source!SourceNext, Source!Deliver
    <2> QED
      BY <2>1, <2>2
  <1>12. CASE SetStop
    BY <1>12 DEF SetStop, threadVars, queueVars, callVars
  <1>13. CASE NotifyStop
    BY <1>13 DEF NotifyStop, WakeThread, threadVars, queueVars, callVars
  <1>14. CASE Join
    BY <1>14 DEF Join, threadVars, queueVars, callVars
  <1>15. CASE Broken
    BY <1>15 DEF Broken, threadVars, queueVars, callVars
  <1>16. CASE Reset
    <2>1. Len(<<>>) = 0 /\ 0 - 0 - 0 - 0 = 0
      OBVIOUS
    <2>2. InHand' = 0 /\ inner' = 0 /\ fill' = <<>> /\ next' = <<>>
      BY <1>16 DEF Reset, Acting
    <2>3. Delivered' = 0
      BY <2>1, <2>2
    <2>4. UNCHANGED <<Position(tape), out>>
      BY <1>16 DEF Reset, callVars
    <2> QED
      BY <2>3, <2>4 DEF Source!SourceNext, Source!Reset
  <1>17. CASE RecordPosition
    <2>1. UNCHANGED <<Delivered, out>> /\ InHand = 0
      BY <1>17 DEF RecordPosition, Acting, threadVars, queueVars
    <2>2. CASE Strict
      <3>1. Position(tape)' = Delivered
        BY <1>17, <2>1, <2>2 DEF RecordPosition
      <3> QED
        BY <2>1, <2>2, <3>1 DEF Source!SourceNext, Source!Record
    <2>3. CASE ~Strict
      <3>1. Position(tape)' = inner /\ inner \in Delivered..Size
        BY <1>17, <2>1, <2>3 DEF RecordPosition
      <3> QED
        BY <2>1, <2>3, <3>1 DEF Source!SourceNext, Source!Record
    <2> QED
      BY <2>2, <2>3
  <1>18. CASE ReloadPosition
    <2>1. Delivered' = Position(tape) /\ UNCHANGED <<Position(tape), out>>
      BY <1>18 DEF ReloadPosition, Acting, callVars
    <2>2. Position(tape) # -1
      BY <1>18 DEF ReloadPosition, Acting
    <2> QED
      BY <2>1, <2>2 DEF Source!SourceNext, Source!Reload, Source!NoPosition
  <1>19. CASE Close
    BY <1>19 DEF Close, threadVars, queueVars, callVars
  <1>20. CASE CallNext
    BY <1>20 DEF CallNext, threadVars, queueVars, callVars
  <1>21. ASSUME NEW c \in {"reset", "record", "reload", "close"}, CallStop(c) PROVE [Source!SourceNext]_(Source!sourceVars)
    BY <1>21 DEF CallStop, threadVars, queueVars, callVars
  <1>22. CASE UNCHANGED vars
    BY <1>22 DEF vars, threadVars, queueVars, callVars
  <1> QED
    BY <1>1, <1>2, <1>3, <1>4, <1>5, <1>6, <1>7, <1>8, <1>9, <1>10,
       <1>11, <1>12, <1>13, <1>14, <1>15, <1>16, <1>17, <1>18, <1>19,
       <1>20, <1>21, <1>22
    DEF Next, ThreadStep, CallerStep, Call, Done

-----------------------------------------------------------------------------
\* The initial states satisfy every part of the invariant.
LEMMA InitIInv == Init => IInv
  <1> SUFFICES ASSUME Init PROVE IInv
    OBVIOUS
  <1> USE SizeAssumption, BadAssumption DEF Init, Example, Eod, NoPosition
  <1>1. TypeOK /\ TapeNone
    <2>1. <<>> \in Seq(1..Size) /\ -1 \in -1..Size /\ 0 \in 0..Size
      OBVIOUS
    <2>2. tape \in [inner : -1..Size, fill : Seq(1..Size), next : Seq(1..Size)]
      BY <2>1
    <2>3. 0 \in 0..MaxWarnings /\ 0 \in 0..MaxCalls
      OBVIOUS
    <2>4. TypeOK
      BY <2>1, <2>2, <2>3 DEF TypeOK
    <2> QED
      BY <2>4 DEF TapeNone
  <1>2. Sites /\ Hand /\ NoLostWakeup
    BY DEF Sites, Hand, InPut, NoLostWakeup, HasRoom, Readable
  <1>3. Contents /\ TapeOK /\ Bounds
    BY DEF Contents, Delivered, InHand, TapeOK, Position, Bounds, QueueBound
  <1> QED
    BY <1>1, <1>2, <1>3 DEF IInv

\* The invariant that the properties below follow from.
THEOREM Inductive == Spec => []IInv
  <1>1. IInv /\ [Next]_vars => IInv'
    BY TypeStep, SitesStep, WakeStep, BoundsStep, HandStep, ContentsStep, TapeStep
    DEF IInv
  <1> QED
    BY InitIInv, <1>1, PTL DEF Spec

\* Every variable of the prefetcher keeps its type, whatever the queue size.
THEOREM TypeCorrect == Spec => []TypeOK
  BY Inductive, PTL DEF IInv

\* wait() and notify_one() of next() and prefetch(): no thread sleeps on a
\* condition that holds with nobody about to wake it.
THEOREM WakeupsAreNotLost == Spec => []NoLostWakeup
  BY Inductive, PTL DEF IInv

\* fill_queue_ and next_queue_ never outgrow num_examples by more than the
\* example in hand.
THEOREM QueuesAreBounded == Spec => []QueueBound
  BY Inductive, PTL DEF IInv, Bounds

\* reset(), record_position(), reload_position() and the destructor touch the
\* inner source and the queues with the thread gone.
THEOREM AloneAfterJoin == Spec => []AloneWhenActing
  <1>1. IInv => AloneWhenActing
    BY DEF IInv, Sites, AloneWhenActing
  <1> QED
    BY Inductive, <1>1, PTL

\* prefetch_data_source, thread and queues included, is a data source: examples
\* in order, each once, and recorded positions that continue where they were
\* taken.
THEOREM IsADataSource == Spec => ImplementsSource
  <1>1. ASSUME Init PROVE Source!SourceInit
    <2>1. Len(<<>>) = 0 /\ 0 - 0 - 0 - 0 = 0 /\ -1 - 0 - 0 = -1
      OBVIOUS
    <2>2. InHand = 0
      BY <1>1 DEF Init, InHand, Eod
    <2>3. Delivered = 0 /\ Position(tape) = -1
      BY <1>1, <2>1, <2>2 DEF Init, Delivered, Position, NoPosition
    <2>4. out = 0
      BY <1>1 DEF Init, Eod
    <2> QED
      BY <2>3, <2>4 DEF Source!SourceInit, Source!Eod, Source!NoPosition
  <1> QED
    BY Inductive, <1>1, SourceStep, PTL DEF Spec, ImplementsSource, Source!SourceSpec

-----------------------------------------------------------------------------
(* MapSource *)

Ordinal == 1..MapSize
Labelled == {"raw", "mapped"} \X Ordinal
Task == {Idle} \cup ({"mapping", "pushed", "counted"} \X Ordinal)

Site == {"idle", "yield", "fill", "check", "checkQueue", "wait", "drain", "sleepOutput",
         "sleepDrained", "parkedOutput", "parkedDrained", "act"}

Record ==
    [strict : BOOLEAN, pos : 0..MapSize, buffer : Seq(Labelled), bufferPos : Nat,
     outputs : Seq(Labelled), delivered : SUBSET Ordinal, skipped : SUBSET Ordinal,
     spoiled : BOOLEAN]

MapTypeOK ==
    /\ deterministic \in BOOLEAN /\ innerPos \in 0..MapSize
    /\ buffer \in Seq(Labelled) /\ bufferPos \in Nat /\ reserved \in BOOLEAN
    /\ outputs \in Seq(Labelled) /\ queued \in Seq(Ordinal)
    /\ worker \in [Workers -> Task] /\ inFlight \in Int
    /\ finished \in BOOLEAN /\ raised \in BOOLEAN /\ mapBroken \in BOOLEAN
    /\ consumer \in Site
    /\ asked \in {"none", "next", "reset", "record", "loose", "reload"}
    /\ record \in Record \cup {NoRecord} /\ (asked = "reload" => record # NoRecord)
    /\ delivered \in SUBSET Ordinal /\ skipped \in SUBSET Ordinal /\ spoiled \in BOOLEAN

\* The two modes share the state and use a part of it each.
ModeOK ==
    /\ deterministic =>
         /\ outputs = <<>> /\ queued = <<>> /\ record.outputs = <<>> /\ inFlight = 0
         /\ \A w \in Workers : worker[w][1] = "idle"
         /\ consumer \notin {"fill", "check", "checkQueue", "wait", "sleepOutput", "parkedOutput"}
    /\ ~deterministic =>
         /\ buffer = <<>> /\ record.buffer = <<>> /\ ~spoiled /\ ~record.spoiled
         /\ consumer # "yield"
    /\ mapBroken => consumer = "idle"

\* What was read lies at or before the position of the inner source.
ReadOK ==
    /\ delivered \subseteq 1..innerPos
    /\ \A i \in DOMAIN buffer : buffer[i][2] <= innerPos
    /\ record # NoRecord =>
         /\ record.delivered \subseteq 1..record.pos
         /\ \A i \in DOMAIN record.buffer : record.buffer[i][2] <= record.pos

Busy == {w \in Workers : worker[w][1] \in {"mapping", "pushed"}}

\* tasks_in_flight_ counts the tasks, and is zero once they were waited for.
PoolOK ==
    /\ inFlight = Len(queued) + Cardinality(Busy)
    /\ consumer = "act" /\ asked # "loose" => inFlight = 0

\* The sets d, s, b, o and m hold every example up to position p, once.
Apart(A, B) == A \cap B = {}

Split(d, s, m, b, o, p) ==
    /\ d \cup s \cup m \cup b \cup o = 1..p
    /\ Apart(d, s) /\ Apart(d, m) /\ Apart(d, b) /\ Apart(d, o)
    /\ Apart(s, m) /\ Apart(s, b) /\ Apart(s, o)
    /\ Apart(m, b) /\ Apart(m, o) /\ Apart(b, o)

\* No example is in two places of a queue.
Once(q) == \A i, j \in DOMAIN q : q[i] = q[j] => i = j

OutputOnce(q) == \A i, j \in DOMAIN q : q[i][2] = q[j][2] => i = j

MappedOnce ==
    /\ Once(queued)
    /\ \A v, w \in Workers :
         worker[v][1] = "mapping" /\ worker[w][1] = "mapping" /\ worker[v][2] = worker[w][2] => v = w
    /\ \A w \in Workers, i \in DOMAIN queued : worker[w][1] = "mapping" => worker[w][2] # queued[i]

\* The deterministic buffer holds the last examples that were read, in their order.
InOrder(b, n, p) ==
    /\ Len(b) <= p /\ n <= Len(b)
    /\ \A i \in 1..Len(b) : b[i][2] = p - Len(b) + i

Rest(b, n) == {b[i][2] : i \in (n + 1)..Len(b)}
Results(q) == {q[i][2] : i \in DOMAIN q}

Sound ==
    /\ Split(delivered, skipped, BeingMapped, Buffered, Output, innerPos)
    /\ MappedOnce /\ OutputOnce(outputs)
    /\ deterministic => InOrder(buffer, bufferPos, innerPos)

RecordSound ==
    /\ Split(record.delivered, record.skipped, {}, Rest(record.buffer, record.bufferPos),
             Results(record.outputs), record.pos)
    /\ OutputOnce(record.outputs)
    /\ deterministic => InOrder(record.buffer, record.bufferPos, record.pos)

MInv ==
    /\ MapTypeOK /\ ModeOK /\ ReadOK /\ PoolOK
    /\ mapBroken \/ spoiled \/ Sound
    /\ record = NoRecord \/ record.spoiled \/ RecordSound

-----------------------------------------------------------------------------
(***************************************************************************)
(* Sequences and pairs.                                                    *)
(***************************************************************************)
LEMMA AppendIs ==
    ASSUME NEW T, NEW q \in Seq(T), NEW x \in T
    PROVE  /\ Append(q, x) \in Seq(T) /\ Len(Append(q, x)) = Len(q) + 1
           /\ DOMAIN Append(q, x) = 1..(Len(q) + 1) /\ DOMAIN q = 1..Len(q)
           /\ \A i \in 1..Len(q) : Append(q, x)[i] = q[i]
           /\ Append(q, x)[Len(q) + 1] = x
  OBVIOUS

LEMMA TailIs ==
    ASSUME NEW T, NEW q \in Seq(T), q # <<>>
    PROVE  /\ Tail(q) \in Seq(T) /\ Len(q) \in Nat \ {0} /\ Len(Tail(q)) = Len(q) - 1
           /\ DOMAIN Tail(q) = 1..(Len(q) - 1) /\ DOMAIN q = 1..Len(q)
           /\ \A i \in 1..(Len(q) - 1) : Tail(q)[i] = q[i + 1]
           /\ Head(q) = q[1] /\ Head(q) \in T
  OBVIOUS

LEMMA EmptyIs == \A T : <<>> \in Seq(T) /\ Len(<<>>) = 0 /\ DOMAIN <<>> = {}
  OBVIOUS

\* Changing the state of a worker leaves its example.
LEMMA RelabelIs ==
    ASSUME NEW p \in Task, p[1] # "idle", NEW x \in {"mapping", "pushed", "counted"}
    PROVE  /\ p[2] \in Ordinal /\ [p EXCEPT ![1] = x] \in Task
           /\ [p EXCEPT ![1] = x][1] = x /\ [p EXCEPT ![1] = x][2] = p[2]
  BY DEF Task, Idle

LEMMA FunctionIs ==
    ASSUME NEW T, NEW n \in Nat, NEW f \in [1..n -> T]
    PROVE  f \in Seq(T) /\ Len(f) = n
  OBVIOUS

LEMMA IntervalSize ==
    ASSUME NEW a \in Int, NEW n \in Nat
    PROVE  IsFiniteSet((a + 1)..(a + n)) /\ Cardinality((a + 1)..(a + n)) = n
  <1> DEFINE lo == a + 1
             hi == a + n
  <1>1. lo \in Int /\ hi \in Int
    OBVIOUS
  <1>2. lo > hi <=> n = 0
    OBVIOUS
  <1>3. hi - lo + 1 = n
    OBVIOUS
  <1> HIDE DEF lo, hi
  <1>4. IsFiniteSet(lo..hi) /\ Cardinality(lo..hi) = IF lo > hi THEN 0 ELSE hi - lo + 1
    BY <1>1, FS_Interval
  <1>5. IsFiniteSet(lo..hi) /\ Cardinality(lo..hi) = n
    BY <1>2, <1>3, <1>4
  <1> QED
    BY <1>5 DEF lo, hi

LEMMA NumParallelIs == NumParallelCalls \in Nat /\ NumParallelCalls >= 2
  BY MapAssumption, FS_CardinalityType DEF NumParallelCalls

\* fill_buffer() asks for the next few examples there are.
LEMMA WantedIs ==
    ASSUME innerPos \in 0..MapSize
    PROVE  /\ Cardinality(Wanted) \in Nat /\ innerPos + Cardinality(Wanted) <= MapSize
           /\ Wanted = (innerPos + 1)..(innerPos + Cardinality(Wanted))
  <1> USE MapAssumption, NumParallelIs
  <1> DEFINE k == IF innerPos + NumParallelCalls <= MapSize THEN NumParallelCalls
                  ELSE MapSize - innerPos
  <1>1. k \in Nat /\ innerPos + k <= MapSize
    OBVIOUS
  <1>2. Wanted = (innerPos + 1)..(innerPos + k)
    BY DEF Wanted
  <1> HIDE DEF k
  <1>3. Cardinality((innerPos + 1)..(innerPos + k)) = k
    <2>1. innerPos \in Int
      OBVIOUS
    <2> QED
      BY <1>1, <2>1, IntervalSize
  <1> QED
    BY <1>1, <1>2, <1>3

-----------------------------------------------------------------------------
(***************************************************************************)
(* Types.                                                                  *)
(***************************************************************************)
LEMMA MapTypeInit == MapInit => MapTypeOK
  <1> SUFFICES ASSUME MapInit PROVE MapTypeOK
    OBVIOUS
  <1> USE MapAssumption, EmptyIs DEF MapInit
  <1>1. worker \in [Workers -> Task]
    BY DEF Task
  <1>3. buffer \in Seq(Labelled) /\ outputs \in Seq(Labelled) /\ queued \in Seq(Ordinal)
    OBVIOUS
  <1>4. /\ innerPos \in 0..MapSize /\ bufferPos \in Nat /\ inFlight \in Int
        /\ delivered \in SUBSET Ordinal /\ skipped \in SUBSET Ordinal
    OBVIOUS
  <1> QED
    BY <1>1, <1>3, <1>4 DEF MapTypeOK, Site

LEMMA MapTypeStep == MapTypeOK /\ [MapNext]_mapVars => MapTypeOK'
  <1> SUFFICES ASSUME MapTypeOK, [MapNext]_mapVars PROVE MapTypeOK'
    OBVIOUS
  <1> USE MapAssumption, EmptyIs
      DEF MapTypeOK, bufferVars, poolVars, frontVars, history, Return, Break, Recover
  <1>1. CASE CallMapNext
    BY <1>1 DEF CallMapNext, Site
  <1>2. CASE Yield
    <2>1. buffer[bufferPos + 1][2] \in Ordinal
      BY <1>2 DEF Yield, Labelled
    <2> QED
      BY <1>2, <2>1 DEF Yield, Site
  <1>3. CASE FillError
    <2>1. PICK e \in Wanted \cap InnerBad :
            /\ innerPos' = e
            /\ buffer' = [i \in 1..(e - innerPos - 1) |-> Raw(innerPos + i)]
            /\ skipped' = skipped \cup {e}
      BY <1>3 DEF FillError
    <2>2. e \in Ordinal /\ innerPos < e
      BY <2>1 DEF Wanted, Ordinal
    <2>3. buffer' \in Seq(Labelled)
      <3>1. \A i \in 1..(e - innerPos - 1) : Raw(innerPos + i) \in Labelled
        BY <2>2 DEF Raw, Labelled, Ordinal
      <3> QED
        BY <2>1, <2>2, <3>1 DEF Ordinal
    <2>4. bufferPos' \in Nat
      BY <1>3, NumParallelIs DEF FillError
    <2>5. consumer' \in Site
      BY <1>3 DEF FillError, Site
    <2> QED
      BY <1>3, <2>1, <2>2, <2>3, <2>4, <2>5 DEF FillError, Ordinal
  <1>4. CASE FillBuffer
    <2>1. /\ Cardinality(Wanted) \in Nat /\ innerPos + Cardinality(Wanted) <= MapSize
          /\ Wanted = (innerPos + 1)..(innerPos + Cardinality(Wanted))
      BY WantedIs
    <2>2. buffer' \in Seq(Labelled)
      <3>1. \A i \in 1..Cardinality(Wanted) : Mapped(innerPos + i) \in Labelled
        BY <2>1 DEF Mapped, Labelled, Ordinal
      <3>2. buffer' \in [1..Cardinality(Wanted) -> Labelled]
        BY <1>4, <3>1 DEF FillBuffer
      <3> QED
        BY <2>1, <3>2, FunctionIs
    <2>3. skipped' \in SUBSET Ordinal
      BY <1>4 DEF FillBuffer, Wanted, Ordinal
    <2>4. innerPos' \in 0..MapSize /\ bufferPos' \in Nat
      BY <1>4, <2>1 DEF FillBuffer
    <2>5. consumer' \in Site /\ mapBroken' \in BOOLEAN
      BY <1>4 DEF FillBuffer, Site
    <2> QED
      BY <1>4, <2>2, <2>3, <2>4, <2>5 DEF FillBuffer
  <1>5. CASE Enqueue
    <2>1. queued' \in Seq(Ordinal)
      BY <1>5, AppendIs DEF Enqueue, Ordinal
    <2> QED
      BY <1>5, <2>1 DEF Enqueue
  <1>6. CASE EnqueueError
    BY <1>6 DEF EnqueueError, Ordinal, Site
  <1>7. CASE Filled \/ Check \/ CheckQueue \/ NotReady \/ Sleep \/ Rethrown \/ Drained
    <2>1. /\ UNCHANGED <<deterministic, innerPos, buffer, bufferPos, reserved, outputs, queued,
                         worker, inFlight, raised, record, asked, delivered, skipped, spoiled>>
          /\ finished' \in BOOLEAN
      BY <1>7 DEF Filled, Check, CheckQueue, NotReady, Sleep, Rethrown, Drained
    <2>2. consumer' \in Site /\ mapBroken' \in BOOLEAN
      BY <1>7 DEF Filled, Check, CheckQueue, NotReady, Sleep, Rethrown, Drained, Site
    <2> QED
      BY <2>1, <2>2
  <1>8. CASE Take
    <2>1. outputs' \in Seq(Labelled)
      BY <1>8, TailIs DEF Take
    <2>2. Head(outputs)[2] \in Ordinal
      BY <1>8, TailIs DEF Take, Labelled
    <2>3. delivered' \in SUBSET Ordinal /\ consumer' \in Site
      BY <1>8, <2>2 DEF Take, Site
    <2>4. UNCHANGED <<deterministic, innerPos, buffer, bufferPos, reserved, queued, worker,
                      inFlight, finished, raised, mapBroken, record, asked, skipped, spoiled>>
      BY <1>8 DEF Take
    <2> QED
      BY <2>1, <2>3, <2>4
  <1>9. CASE MapReset
    <2>0. <<>> \in Seq(Labelled) /\ 0 \in 0..MapSize /\ 0 \in Nat
      OBVIOUS
    <2>1. /\ innerPos' \in 0..MapSize /\ buffer' \in Seq(Labelled) /\ bufferPos' \in Nat
          /\ outputs' \in Seq(Labelled) /\ delivered' \in SUBSET Ordinal
          /\ skipped' \in SUBSET Ordinal /\ spoiled' \in BOOLEAN
      BY <1>9, <2>0 DEF MapReset
    <2>2. /\ finished' \in BOOLEAN /\ consumer' \in Site
          /\ UNCHANGED <<reserved, deterministic, queued, worker, inFlight, raised, mapBroken,
                         record, asked>>
      BY <1>9 DEF MapReset, Site
    <2> QED
      BY <2>1, <2>2
  <1>17. CASE MapReload
    <2>1. record \in Record
      BY <1>17 DEF MapReload
    <2>2. /\ innerPos' \in 0..MapSize /\ buffer' \in Seq(Labelled) /\ bufferPos' \in Nat
          /\ outputs' \in Seq(Labelled) /\ delivered' \in SUBSET Ordinal
          /\ skipped' \in SUBSET Ordinal /\ spoiled' \in BOOLEAN
      BY <1>17, <2>1 DEF MapReload, Record
    <2>3. /\ finished' \in BOOLEAN /\ reserved' \in BOOLEAN /\ consumer' \in Site
          /\ UNCHANGED <<deterministic, queued, worker, inFlight, raised, mapBroken, record, asked>>
      BY <1>17 DEF MapReload, Site
    <2> QED
      BY <2>2, <2>3
  <1>10. CASE MapRecord
    <2>1. record' \in Record
      BY <1>10 DEF MapRecord, Record, Ordinal
    <2> QED
      BY <1>10, <2>1 DEF MapRecord, Site
  <1>11. ASSUME NEW w \in Workers, Start(w) PROVE MapTypeOK'
    <2>1. Head(queued) \in Ordinal /\ queued' \in Seq(Ordinal)
      BY <1>11, TailIs DEF Start
    <2>2. worker' \in [Workers -> Task]
      BY <1>11, <2>1 DEF Start, Task, Ordinal
    <2> QED
      BY <1>11, <2>1, <2>2 DEF Start
  <1>12. ASSUME NEW w \in Workers, Push(w) PROVE MapTypeOK'
    <2>1. worker' \in [Workers -> Task]
      BY <1>12, RelabelIs DEF Push
    <2>2. worker[w][2] \in Ordinal
      BY <1>12, RelabelIs DEF Push
    <2>3. outputs' \in Seq(Labelled)
      <3>1. Mapped(worker[w][2]) \in Labelled
        BY <2>2 DEF Mapped, Labelled
      <3>2. outputs' \in {outputs, Append(outputs, Mapped(worker[w][2]))}
        BY <1>12 DEF Push
      <3>3. Append(outputs, Mapped(worker[w][2])) \in Seq(Labelled)
        BY <3>1, AppendIs
      <3> QED
        BY <3>2, <3>3
    <2>4. skipped' \in SUBSET Ordinal /\ raised' \in BOOLEAN
      BY <1>12, <2>2 DEF Push
    <2> QED
      BY <1>12, <2>1, <2>3, <2>4 DEF Push
  <1>13. ASSUME NEW w \in Workers, CountDown(w) PROVE MapTypeOK'
    <2>1. worker' \in [Workers -> Task]
      BY <1>13, RelabelIs DEF CountDown, Idle
    <2> QED
      BY <1>13, <2>1 DEF CountDown
  <1>14. ASSUME NEW w \in Workers, Notify(w) PROVE MapTypeOK'
    <2>1. worker' \in [Workers -> Task]
      BY <1>14 DEF Notify, Idle, Task
    <2> QED
      BY <1>14, <2>1 DEF Notify, Site
  <1>15. ASSUME NEW c \in {"reset", "record", "loose", "reload"}, CallMap(c) PROVE MapTypeOK'
    BY <1>15 DEF CallMap, Site
  <1>16. CASE MapDone \/ UNCHANGED mapVars
    BY <1>16 DEF MapDone, mapVars
  <1> QED
    BY <1>1, <1>2, <1>3, <1>4, <1>5, <1>6, <1>7, <1>8, <1>9, <1>10, <1>11, <1>12, <1>13,
       <1>14, <1>15, <1>16, <1>17
    DEF MapNext, ConsumerStep, WorkerStep, MapCall

-----------------------------------------------------------------------------
(***************************************************************************)
(* The two modes, and what is read.                                        *)
(***************************************************************************)
LEMMA ModeStep ==
    ASSUME MapTypeOK, ModeOK, [MapNext]_mapVars PROVE ModeOK'
  <1> USE MapAssumption, EmptyIs
      DEF ModeOK, bufferVars, poolVars, frontVars, history, Return, Break, Recover
  <1>1. CASE CallMapNext \/ Yield \/ Filled \/ Check \/ CheckQueue \/ NotReady \/ Sleep
    BY <1>1 DEF CallMapNext, Yield, Filled, Check, CheckQueue, NotReady, Sleep, Holding
  <1>2. CASE Rethrown \/ Drained \/ Take \/ Enqueue \/ EnqueueError
    BY <1>2 DEF Rethrown, Drained, Take, Enqueue, EnqueueError
  <1>3. CASE FillError
    BY <1>3 DEF FillError
  <1>4. CASE FillBuffer
    BY <1>4 DEF FillBuffer
  <1>5. CASE MapReset
    BY <1>5 DEF MapReset
  <1>6. CASE MapReload
    BY <1>6 DEF MapReload
  <1>7. CASE MapRecord
    BY <1>7 DEF MapRecord
  <1>8. ASSUME NEW w \in Workers, Start(w) PROVE ModeOK'
    BY <1>8 DEF Start
  <1>9. ASSUME NEW w \in Workers, Push(w) PROVE ModeOK'
    BY <1>9 DEF Push
  <1>10. ASSUME NEW w \in Workers, CountDown(w) PROVE ModeOK'
    BY <1>10 DEF CountDown
  <1>11. ASSUME NEW w \in Workers, Notify(w) PROVE ModeOK'
    <2>1. ~deterministic /\ deterministic' = deterministic
      <3>1. worker[w][1] = "counted"
        BY <1>11 DEF Notify
      <3>2. deterministic' = deterministic
        BY <1>11 DEF Notify
      <3> QED
        BY <3>1, <3>2
    <2>2. consumer # "yield" => consumer' # "yield"
      BY <1>11 DEF Notify
    <2>3. consumer = "idle" => consumer' = "idle"
      BY <1>11 DEF Notify
    <2>4. UNCHANGED <<buffer, record, spoiled, mapBroken>>
      BY <1>11 DEF Notify
    <2>5. buffer' = <<>> /\ record'.buffer = <<>> /\ ~spoiled' /\ ~record'.spoiled
      BY <2>1, <2>4
    <2>6. consumer' # "yield" /\ (mapBroken' => consumer' = "idle")
      BY <2>1, <2>2, <2>3, <2>4
    <2>7. ~deterministic'
      BY <2>1
    <2> QED
      BY <2>5, <2>6, <2>7
  <1>12. ASSUME NEW c \in {"reset", "record", "loose", "reload"}, CallMap(c) PROVE ModeOK'
    BY <1>12 DEF CallMap
  <1>13. CASE MapDone \/ UNCHANGED mapVars
    BY <1>13 DEF MapDone, mapVars
  <1> QED
    BY <1>1, <1>2, <1>3, <1>4, <1>5, <1>6, <1>7, <1>8, <1>9, <1>10, <1>11, <1>12, <1>13
    DEF MapNext, ConsumerStep, WorkerStep, MapCall

LEMMA ReadStep ==
    ASSUME MapTypeOK, ModeOK, ReadOK, mapBroken \/ spoiled \/ Sound, [MapNext]_mapVars
    PROVE  ReadOK'
  <1> USE MapAssumption
      DEF ReadOK, bufferVars, poolVars, frontVars, history, Return, Break, Recover
  <1>0. /\ innerPos \in 0..MapSize /\ buffer \in Seq(Labelled) /\ bufferPos \in Nat
        /\ record \in Record \cup {NoRecord}
    BY DEF MapTypeOK
  <1>1. CASE UNCHANGED <<delivered, buffer, record, innerPos>>
    BY <1>1
  <1>2. CASE Yield
    <2>1. bufferPos + 1 \in DOMAIN buffer
      BY <1>0, <1>2 DEF Yield
    <2>2. buffer[bufferPos + 1][2] \in 1..innerPos
      BY <1>0, <2>1 DEF Labelled, Ordinal
    <2> QED
      BY <1>2, <2>2 DEF Yield
  <1>3. CASE FillError
    <2>1. PICK e \in Wanted \cap InnerBad :
            /\ innerPos' = e
            /\ buffer' = [i \in 1..(e - innerPos - 1) |-> Raw(innerPos + i)]
      BY <1>3 DEF FillError
    <2>2. innerPos < e /\ e \in Int
      BY <2>1 DEF Wanted
    <2>3. \A i \in DOMAIN buffer' : buffer'[i][2] <= innerPos'
      BY <1>0, <2>1, <2>2 DEF Raw
    <2> QED
      BY <1>0, <1>3, <2>1, <2>2, <2>3 DEF FillError
  <1>4. CASE FillBuffer
    <2>1. Cardinality(Wanted) \in Nat
      BY <1>0, WantedIs
    <2>2. \A i \in DOMAIN buffer' : buffer'[i][2] <= innerPos'
      BY <1>0, <1>4, <2>1 DEF FillBuffer, Mapped
    <2> QED
      BY <1>0, <1>4, <2>1, <2>2 DEF FillBuffer
  <1>5. CASE Enqueue \/ EnqueueError
    <2>1. /\ UNCHANGED <<delivered, buffer, record>> /\ innerPos' = innerPos + 1
      BY <1>5 DEF Enqueue, EnqueueError
    <2>2. \A i \in DOMAIN buffer : buffer[i][2] \in Int
      BY <1>0 DEF Labelled, Ordinal
    <2> QED
      BY <1>0, <2>1, <2>2
  <1>6. CASE Take
    <2>1. ~deterministic /\ ~mapBroken
      BY <1>6 DEF Take, ModeOK
    <2>2. outputs \in Seq(Labelled) /\ outputs # <<>>
      BY <1>6 DEF Take, MapTypeOK
    <2>3. 1 \in DOMAIN outputs /\ Head(outputs) = outputs[1]
      BY <2>2, TailIs
    <2>4. Head(outputs)[2] \in 1..innerPos
      BY <2>1, <2>3 DEF ModeOK, Sound, Split, Output
    <2> QED
      BY <1>6, <2>4 DEF Take
  <1>7. CASE MapReset
    BY <1>7, EmptyIs DEF MapReset
  <1>8. CASE MapRecord
    <2>1. /\ UNCHANGED <<delivered, buffer, innerPos>>
          /\ record'.pos = innerPos /\ record'.delivered = delivered
          /\ record'.buffer \in {buffer, <<>>}
      BY <1>8 DEF MapRecord
    <2> QED
      BY <2>1, EmptyIs
  <1>9. CASE MapReload
    BY <1>9 DEF MapReload, MapTypeOK
  <1>10. ASSUME NEW w \in Workers, WorkerStep(w)
         PROVE  UNCHANGED <<delivered, buffer, record, innerPos>>
    BY <1>10 DEF WorkerStep, Start, Push, CountDown, Notify
  <1>11. CASE Filled \/ Check \/ CheckQueue \/ NotReady \/ Sleep \/ Rethrown \/ Drained \/ MapCall
              \/ MapDone \/ UNCHANGED mapVars
    BY <1>1, <1>11 DEF Filled, Check, CheckQueue, NotReady, Sleep, Rethrown, Drained, MapCall,
       CallMapNext, CallMap, MapDone, mapVars
  <1> QED
    BY <1>1, <1>2, <1>3, <1>4, <1>5, <1>6, <1>7, <1>8, <1>9, <1>10, <1>11
    DEF MapNext, ConsumerStep

LEMMA BusyFinite ==
    IsFiniteSet(Busy) /\ Cardinality(Busy) \in Nat /\ (Cardinality(Busy) = 0 <=> Busy = {})
  <1>1. IsFiniteSet(Busy)
    BY MapAssumption, FS_Subset DEF Busy
  <1> QED
    BY <1>1, FS_EmptySet, FS_CardinalityType

\* What a pool thread does to the count of busy threads.
LEMMA BusyIs ==
    ASSUME NEW w \in Workers, worker \in [Workers -> Task]
    PROVE  /\ Cardinality(Busy \cup {w}) = IF w \in Busy THEN Cardinality(Busy) ELSE Cardinality(Busy) + 1
           /\ Cardinality(Busy \ {w}) = IF w \in Busy THEN Cardinality(Busy) - 1 ELSE Cardinality(Busy)
  BY BusyFinite, FS_AddElement, FS_RemoveElement

LEMMA PoolStep ==
    ASSUME MapTypeOK, ModeOK, PoolOK, [MapNext]_mapVars PROVE PoolOK'
  <1> USE MapAssumption
      DEF PoolOK, bufferVars, poolVars, frontVars, history, Return, Break, Recover
  <1>0. /\ worker \in [Workers -> Task] /\ queued \in Seq(Ordinal) /\ inFlight \in Int
        /\ Len(queued) \in Nat /\ Cardinality(Busy) \in Nat
    BY BusyFinite DEF MapTypeOK
  <1>1. CASE UNCHANGED <<worker, queued, inFlight>>
             /\ (consumer' = "act" /\ asked' # "loose" =>
                   inFlight = 0 \/ (consumer = "act" /\ asked # "loose"))
    BY <1>1 DEF Busy
  <1>2. CASE Enqueue
    <2>1. Len(queued') = Len(queued) + 1
      <3>1. innerPos + 1 \in Ordinal
        BY <1>2 DEF Enqueue, MapTypeOK, Ordinal
      <3> QED
        BY <1>0, <1>2, <3>1, AppendIs DEF Enqueue
    <2>2. worker' = worker /\ inFlight' = inFlight + 1 /\ consumer' = "fill"
      BY <1>2 DEF Enqueue
    <2> QED
      BY <1>0, <2>1, <2>2 DEF Busy
  <1>3. ASSUME NEW w \in Workers, Start(w) PROVE PoolOK'
    <2>1. Len(queued') = Len(queued) - 1 /\ Len(queued) # 0
      BY <1>0, <1>3, TailIs DEF Start
    <2>2. Busy' = Busy \cup {w} /\ w \notin Busy
      BY <1>0, <1>3 DEF Start, Busy, Idle
    <2>3. UNCHANGED <<inFlight, consumer, asked>>
      BY <1>3 DEF Start
    <2>4. Cardinality(Busy') = Cardinality(Busy) + 1
      BY <1>0, <2>2, BusyIs
    <2> QED
      BY <1>0, <2>1, <2>3, <2>4
  <1>4. ASSUME NEW w \in Workers, Push(w) PROVE PoolOK'
    <2>1. worker[w] \in Task /\ worker[w][1] = "mapping"
      BY <1>0, <1>4 DEF Push
    <2>2. worker'[w][1] = "pushed" /\ \A v \in Workers : v # w => worker'[v] = worker[v]
      BY <1>0, <1>4, <2>1, RelabelIs DEF Push
    <2>3. Busy' = Busy
      BY <2>1, <2>2 DEF Busy
    <2> QED
      BY <1>4, <2>3 DEF Push
  <1>5. ASSUME NEW w \in Workers, CountDown(w) PROVE PoolOK'
    <2>1. worker[w] \in Task /\ worker[w][1] = "pushed"
      BY <1>0, <1>5 DEF CountDown
    <2>2. worker'[w][1] = "counted" /\ \A v \in Workers : v # w => worker'[v] = worker[v]
      BY <1>0, <1>5, <2>1, RelabelIs DEF CountDown
    <2>3. Busy' = Busy \ {w} /\ w \in Busy
      BY <2>1, <2>2 DEF Busy
    <2>4. Cardinality(Busy') = Cardinality(Busy) - 1 /\ Cardinality(Busy') \in Nat
      <3>1. Cardinality(Busy \ {w}) = Cardinality(Busy) - 1
        BY <1>0, <2>3, BusyIs
      <3>2. Cardinality(Busy) # 0
        BY <2>3, BusyFinite
      <3> QED
        BY <1>0, <2>3, <3>1, <3>2
    <2>5. inFlight' = inFlight - 1 /\ UNCHANGED <<queued, consumer, asked>>
      BY <1>5 DEF CountDown
    <2> QED
      BY <1>0, <2>4, <2>5
  <1>6. ASSUME NEW w \in Workers, Notify(w) PROVE PoolOK'
    <2>1. Busy' = Busy
      BY <1>0, <1>6 DEF Notify, Busy, Idle
    <2>2. consumer' = "act" => consumer = "act"
      BY <1>6 DEF Notify
    <2>3. UNCHANGED <<queued, inFlight, asked>>
      BY <1>6 DEF Notify
    <2> QED
      BY <2>1, <2>2, <2>3
  <1>7. CASE Yield \/ FillBuffer \/ FillError \/ EnqueueError \/ Filled \/ Check \/ CheckQueue
             \/ NotReady \/ Sleep \/ Rethrown \/ Take \/ MapReset \/ MapRecord \/ MapReload
             \/ CallMapNext
    <2>1. UNCHANGED <<worker, queued, inFlight>>
      BY <1>7 DEF Yield, FillBuffer, FillError, EnqueueError, Filled, Check, CheckQueue, NotReady,
         Sleep, Rethrown, Take, MapReset, MapRecord, MapReload, CallMapNext
    <2>2. consumer' = "act" => consumer = "act" /\ asked' = asked
      BY <1>7 DEF Yield, FillBuffer, FillError, EnqueueError, Filled, Check, CheckQueue, NotReady,
         Sleep, Rethrown, Take, MapReset, MapRecord, MapReload, CallMapNext
    <2> QED
      BY <1>1, <2>1, <2>2
  <1>8. CASE Drained
    BY <1>1, <1>8 DEF Drained
  <1>9. ASSUME NEW c \in {"reset", "record", "loose", "reload"}, CallMap(c) PROVE PoolOK'
    <2>1. UNCHANGED <<worker, queued, inFlight>>
      BY <1>9 DEF CallMap
    <2>2. deterministic => inFlight = 0
      BY DEF ModeOK
    <2>3. consumer' = "act" /\ asked' # "loose" => deterministic
      BY <1>9 DEF CallMap
    <2>4. consumer' = "act" /\ asked' # "loose" => inFlight = 0
      BY <2>2, <2>3
    <2>5. Busy' = Busy
      BY <2>1 DEF Busy
    <2>6. inFlight' = Len(queued') + Cardinality(Busy')
      BY <2>1, <2>5
    <2> QED
      BY <2>1, <2>4, <2>6
  <1>10. CASE MapDone \/ UNCHANGED mapVars
    BY <1>1, <1>10 DEF MapDone, mapVars
  <1> QED
    BY <1>2, <1>3, <1>4, <1>5, <1>6, <1>7, <1>8, <1>9, <1>10
    DEF MapNext, ConsumerStep, WorkerStep, MapCall

-----------------------------------------------------------------------------
(***************************************************************************)
(* Moving an example from one place to another.                            *)
(***************************************************************************)
LEMMA SplitRead ==
    ASSUME NEW d, NEW s, NEW m, NEW b, NEW o, NEW p \in Nat, Split(d, s, m, b, o, p)
    PROVE  /\ p + 1 \notin m
           /\ Split(d, s \cup {p + 1}, m, b, o, p + 1)
           /\ Split(d, s, m \cup {p + 1}, b, o, p + 1)
  <1>1. 1..(p + 1) = (1..p) \cup {p + 1} /\ p + 1 \notin 1..p
    OBVIOUS
  <1>2. p + 1 \notin d /\ p + 1 \notin s /\ p + 1 \notin m /\ p + 1 \notin b /\ p + 1 \notin o
    BY <1>1 DEF Split
  <1>3. Split(d, s \cup {p + 1}, m, b, o, p + 1)
    BY <1>1, <1>2 DEF Split, Apart
  <1>4. Split(d, s, m \cup {p + 1}, b, o, p + 1)
    BY <1>1, <1>2 DEF Split, Apart
  <1> QED
    BY <1>2, <1>3, <1>4

LEMMA SplitMove ==
    ASSUME NEW d, NEW s, NEW m, NEW b, NEW o, NEW p, Split(d, s, m, b, o, p), NEW e
    PROVE  /\ e \in b => Split(d \cup {e}, s, m, b \ {e}, o, p)
           /\ e \in o => Split(d \cup {e}, s, m, b, o \ {e}, p)
           /\ e \in m => /\ Split(d, s \cup {e}, m \ {e}, b, o, p)
                         /\ Split(d, s, m \ {e}, b, o \cup {e}, p)
                         /\ e \notin o
  <1>1. e \in b => Split(d \cup {e}, s, m, b \ {e}, o, p)
    BY DEF Split, Apart
  <1>2. e \in o => Split(d \cup {e}, s, m, b, o \ {e}, p)
    BY DEF Split, Apart
  <1>3. e \in m => Split(d, s \cup {e}, m \ {e}, b, o, p)
    BY DEF Split, Apart
  <1>4. e \in m => Split(d, s, m \ {e}, b, o \cup {e}, p)
    BY DEF Split, Apart
  <1>5. e \in m => e \notin o
    BY DEF Split, Apart
  <1> QED
    BY <1>1, <1>2, <1>3, <1>4, <1>5

\* The queue of results, as it grows and shrinks.
LEMMA ResultsAppend ==
    ASSUME NEW q \in Seq(Labelled), NEW e \in Ordinal, OutputOnce(q), e \notin Results(q)
    PROVE  /\ Results(Append(q, Mapped(e))) = Results(q) \cup {e}
           /\ OutputOnce(Append(q, Mapped(e)))
  <1> DEFINE r == Append(q, Mapped(e))
  <1>1. Mapped(e) \in Labelled /\ Mapped(e)[2] = e
    BY DEF Mapped, Labelled
  <1>2. /\ DOMAIN r = 1..(Len(q) + 1) /\ DOMAIN q = 1..Len(q) /\ Len(q) \in Nat
        /\ \A i \in 1..Len(q) : r[i] = q[i]
        /\ r[Len(q) + 1] = Mapped(e)
    <2>1. Len(q) \in Nat
      OBVIOUS
    <2> QED
      BY <1>1, <2>1, AppendIs
  <1> HIDE DEF r
  <1>3. \A i \in DOMAIN r :
           (i \in DOMAIN q /\ r[i] = q[i]) \/ (i = Len(q) + 1 /\ r[i][2] = e)
    BY <1>1, <1>2
  <1>4. \A i \in DOMAIN q : i \in DOMAIN r /\ r[i] = q[i]
    BY <1>2
  <1>5. Len(q) + 1 \in DOMAIN r /\ r[Len(q) + 1][2] = e
    BY <1>1, <1>2
  <1>6. Results(r) = Results(q) \cup {e}
    BY <1>3, <1>4, <1>5 DEF Results
  <1>7. OutputOnce(r)
    BY <1>3 DEF OutputOnce, Results
  <1> QED
    BY <1>6, <1>7 DEF r

LEMMA ResultsTail ==
    ASSUME NEW q \in Seq(Labelled), q # <<>>, OutputOnce(q)
    PROVE  /\ Head(q)[2] \in Results(q)
           /\ Results(Tail(q)) = Results(q) \ {Head(q)[2]}
           /\ OutputOnce(Tail(q))
  <1> DEFINE r == Tail(q)
             h == Head(q)
  <1>1. /\ DOMAIN r = 1..(Len(q) - 1) /\ DOMAIN q = 1..Len(q) /\ Len(q) \in Nat \ {0}
        /\ \A i \in 1..(Len(q) - 1) : r[i] = q[i + 1]
        /\ h = q[1]
    BY TailIs
  <1> HIDE DEF r, h
  <1>2. 1 \in DOMAIN q
    BY <1>1
  <1>3. \A i \in DOMAIN r : i + 1 \in DOMAIN q /\ i + 1 # 1 /\ r[i] = q[i + 1]
    BY <1>1
  <1>4. \A i \in DOMAIN q : i # 1 => i - 1 \in DOMAIN r /\ r[i - 1] = q[i]
    BY <1>1
  <1>5. h[2] \in Results(q)
    BY <1>1, <1>2 DEF Results
  <1>6. ASSUME NEW e \in Results(r) PROVE e \in Results(q) \ {h[2]}
    <2>1. PICK i \in DOMAIN r : e = r[i][2]
      BY DEF Results
    <2> QED
      BY <1>1, <1>2, <1>3, <2>1 DEF Results, OutputOnce
  <1>7. ASSUME NEW e \in Results(q) \ {h[2]} PROVE e \in Results(r)
    <2>1. PICK i \in DOMAIN q : e = q[i][2]
      BY DEF Results
    <2>2. i # 1
      BY <1>1, <2>1
    <2> QED
      BY <1>4, <2>1, <2>2 DEF Results
  <1>8. OutputOnce(r)
    <2> SUFFICES ASSUME NEW i \in DOMAIN r, NEW j \in DOMAIN r, r[i][2] = r[j][2] PROVE i = j
      BY DEF OutputOnce
    <2>1. i + 1 = j + 1
      BY <1>3 DEF OutputOnce
    <2> QED
      BY <1>1, <2>1
  <1> QED
    BY <1>5, <1>6, <1>7, <1>8 DEF r, h

\* No task in flight: the pool holds no example.
LEMMA QuietIs ==
    ASSUME MapTypeOK, PoolOK, inFlight = 0 PROVE BeingMapped = {} /\ MappedOnce
  <1>1. Len(queued) \in Nat /\ queued \in Seq(Ordinal)
    BY DEF MapTypeOK
  <1>2. Len(queued) = 0 /\ Cardinality(Busy) = 0
    BY <1>1, BusyFinite DEF PoolOK
  <1>3. DOMAIN queued = {}
    BY <1>1, <1>2
  <1>4. \A w \in Workers : worker[w][1] # "mapping"
    BY <1>2, BusyFinite DEF Busy
  <1> QED
    BY <1>3, <1>4 DEF BeingMapped, MappedOnce, Once

\* A pool thread that holds no example of its own changes nothing.
LEMMA IdleMapping ==
    ASSUME NEW w \in Workers, worker[w][1] # "mapping", worker'[w][1] # "mapping",
           \A v \in Workers : v # w => worker'[v] = worker[v], queued' = queued
    PROVE  BeingMapped' = BeingMapped /\ (MappedOnce => MappedOnce')
  <1>1. \A v \in Workers : worker'[v][1] = "mapping" => v # w /\ worker'[v] = worker[v]
    OBVIOUS
  <1>2. \A v \in Workers : worker[v][1] = "mapping" => v # w /\ worker'[v] = worker[v]
    OBVIOUS
  <1>3. BeingMapped' = BeingMapped
    BY <1>1, <1>2 DEF BeingMapped
  <1>4. MappedOnce => MappedOnce'
    BY <1>1 DEF MappedOnce, Once
  <1> QED
    BY <1>3, <1>4

\* A pool thread takes a task, and gives it back.
LEMMA StartMapping ==
    ASSUME MapTypeOK, MappedOnce, NEW w \in Workers, Start(w)
    PROVE  BeingMapped' = BeingMapped /\ MappedOnce'
  <1> DEFINE h == Head(queued)
  <1>1. /\ worker \in [Workers -> Task] /\ queued \in Seq(Ordinal)
    BY DEF MapTypeOK
  <1>2. /\ DOMAIN queued' = 1..(Len(queued) - 1) /\ DOMAIN queued = 1..Len(queued)
        /\ Len(queued) \in Nat \ {0} /\ h = queued[1]
        /\ \A i \in 1..(Len(queued) - 1) : queued'[i] = queued[i + 1]
    BY <1>1, TailIs DEF Start
  <1>3. /\ worker[w][1] = "idle" /\ worker'[w][1] = "mapping" /\ worker'[w][2] = h
        /\ \A v \in Workers : v # w => worker'[v] = worker[v]
    BY <1>1 DEF Start, Idle
  <1> HIDE DEF h
  <1>4. \A i \in DOMAIN queued' : i + 1 \in DOMAIN queued /\ i + 1 # 1 /\ queued'[i] = queued[i + 1]
    BY <1>2
  <1>5. 1 \in DOMAIN queued
        /\ \A i \in DOMAIN queued : i # 1 => i - 1 \in DOMAIN queued' /\ queued'[i - 1] = queued[i]
    BY <1>2
  <1>6. ASSUME NEW e \in BeingMapped PROVE e \in BeingMapped'
    <2>1. CASE e \in {queued[i] : i \in DOMAIN queued}
      <3>1. PICK i \in DOMAIN queued : e = queued[i]
        BY <2>1
      <3>2. CASE i = 1
        BY <1>2, <1>3, <3>1, <3>2 DEF BeingMapped
      <3>3. CASE i # 1
        BY <1>5, <3>1, <3>3 DEF BeingMapped
      <3> QED
        BY <3>2, <3>3
    <2>2. CASE \E v \in Workers : worker[v][1] = "mapping" /\ worker[v][2] = e
      BY <1>3, <2>2 DEF BeingMapped
    <2> QED
      BY <2>1, <2>2 DEF BeingMapped
  <1>7. ASSUME NEW e \in BeingMapped' PROVE e \in BeingMapped
    <2>1. CASE e \in {queued'[i] : i \in DOMAIN queued'}
      BY <1>4, <2>1 DEF BeingMapped
    <2>2. CASE \E v \in Workers : worker'[v][1] = "mapping" /\ worker'[v][2] = e
      <3>1. PICK v \in Workers : worker'[v][1] = "mapping" /\ worker'[v][2] = e
        BY <2>2
      <3>2. CASE v = w
        BY <1>2, <1>3, <1>5, <3>1, <3>2 DEF BeingMapped
      <3>3. CASE v # w
        BY <1>3, <3>1, <3>3 DEF BeingMapped
      <3> QED
        BY <3>2, <3>3
    <2> QED
      BY <2>1, <2>2 DEF BeingMapped
  <1>8. Once(queued')
    <2> SUFFICES ASSUME NEW i \in DOMAIN queued', NEW j \in DOMAIN queued', queued'[i] = queued'[j]
                 PROVE  i = j
      BY DEF Once
    <2>1. i + 1 = j + 1
      BY <1>4 DEF Once, MappedOnce
    <2> QED
      BY <1>2, <2>1
  <1>9. ASSUME NEW v \in Workers, NEW u \in Workers, worker'[v][1] = "mapping",
               worker'[u][1] = "mapping", worker'[v][2] = worker'[u][2]
        PROVE  v = u
    <2>1. \A x \in Workers : x # w /\ worker'[x][1] = "mapping" => worker'[x][2] # h
      BY <1>2, <1>3, <1>5 DEF MappedOnce
    <2> QED
      BY <1>3, <1>9, <2>1 DEF MappedOnce
  <1>10. ASSUME NEW v \in Workers, NEW i \in DOMAIN queued', worker'[v][1] = "mapping"
         PROVE  worker'[v][2] # queued'[i]
    <2>1. CASE v = w
      <3>1. queued[i + 1] # queued[1]
        BY <1>4, <1>5 DEF MappedOnce, Once
      <3> QED
        BY <1>2, <1>3, <1>4, <2>1, <3>1
    <2>2. CASE v # w
      BY <1>3, <1>4, <1>10, <2>2 DEF MappedOnce
    <2> QED
      BY <2>1, <2>2
  <1> QED
    BY <1>6, <1>7, <1>8, <1>9, <1>10 DEF MappedOnce

LEMMA PushMapping ==
    ASSUME MapTypeOK, MappedOnce, NEW w \in Workers, Push(w)
    PROVE  /\ worker[w][2] \in BeingMapped /\ worker[w][2] \in Ordinal
           /\ BeingMapped' = BeingMapped \ {worker[w][2]} /\ MappedOnce'
  <1>1. worker \in [Workers -> Task] /\ worker[w][1] = "mapping" /\ queued' = queued
    BY DEF MapTypeOK, Push
  <1>2. worker'[w][1] = "pushed" /\ \A v \in Workers : v # w => worker'[v] = worker[v]
    BY <1>1, RelabelIs DEF Push
  <1>3. worker[w][2] \in BeingMapped /\ worker[w][2] \in Ordinal
    BY <1>1, RelabelIs DEF BeingMapped
  <1>4. \A v \in Workers : worker'[v][1] = "mapping" => v # w /\ worker'[v] = worker[v]
    BY <1>2
  <1>5. MappedOnce'
    BY <1>1, <1>4 DEF MappedOnce, Once
  <1>6. ASSUME NEW e \in BeingMapped' PROVE e \in BeingMapped \ {worker[w][2]}
    <2>1. CASE \E i \in DOMAIN queued : e = queued[i]
      BY <1>1, <2>1 DEF BeingMapped, MappedOnce
    <2>2. CASE \E v \in Workers : worker'[v][1] = "mapping" /\ worker'[v][2] = e
      BY <1>1, <1>4, <2>2 DEF BeingMapped, MappedOnce
    <2> QED
      BY <1>1, <2>1, <2>2 DEF BeingMapped
  <1>7. ASSUME NEW e \in BeingMapped \ {worker[w][2]} PROVE e \in BeingMapped'
    <2>1. CASE \E i \in DOMAIN queued : e = queued[i]
      BY <1>1, <2>1 DEF BeingMapped
    <2>2. CASE \E v \in Workers : worker[v][1] = "mapping" /\ worker[v][2] = e
      <3>1. PICK v \in Workers : worker[v][1] = "mapping" /\ worker[v][2] = e
        BY <2>2
      <3>2. v # w
        BY <1>7, <3>1
      <3> QED
        BY <1>2, <3>1, <3>2 DEF BeingMapped
    <2> QED
      BY <2>1, <2>2 DEF BeingMapped
  <1> QED
    BY <1>3, <1>5, <1>6, <1>7

LEMMA EnqueueMapping ==
    ASSUME MapTypeOK, MappedOnce, Enqueue, innerPos + 1 \notin BeingMapped
    PROVE  BeingMapped' = BeingMapped \cup {innerPos + 1} /\ MappedOnce'
  <1> DEFINE n == innerPos + 1
             k == Len(queued) + 1
  <1>1. n \in Ordinal /\ queued \in Seq(Ordinal) /\ worker' = worker
    BY MapAssumption DEF MapTypeOK, Enqueue, Ordinal
  <1>2. /\ DOMAIN queued' = 1..k /\ DOMAIN queued = 1..(k - 1) /\ k \in Nat
        /\ \A i \in 1..(k - 1) : queued'[i] = queued[i]
        /\ queued'[k] = n
    <2>1. Len(queued) \in Nat /\ k - 1 = Len(queued)
      BY <1>1
    <2> QED
      BY <1>1, <2>1, AppendIs DEF Enqueue
  <1>3. n \notin BeingMapped
    OBVIOUS
  <1> HIDE DEF n
  <1>4. \A i \in DOMAIN queued' : (i \in DOMAIN queued /\ queued'[i] = queued[i])
                                  \/ (i = k /\ queued'[i] = n)
    BY <1>2
  <1>5. \A i \in DOMAIN queued : i \in DOMAIN queued' /\ queued'[i] = queued[i]
    BY <1>2
  <1>6. k \in DOMAIN queued' /\ queued'[k] = n
    BY <1>2
  <1> HIDE DEF k
  <1>7. BeingMapped' = BeingMapped \cup {n}
    BY <1>1, <1>4, <1>5, <1>6 DEF BeingMapped
  <1>8. \A i \in DOMAIN queued : queued[i] # n
    BY <1>3 DEF BeingMapped
  <1>9. \A w \in Workers : worker[w][1] = "mapping" => worker[w][2] # n
    BY <1>3 DEF BeingMapped
  <1>10. Once(queued')
    BY <1>4, <1>8 DEF MappedOnce, Once
  <1>11. \A w \in Workers, i \in DOMAIN queued' :
            worker'[w][1] = "mapping" => worker'[w][2] # queued'[i]
    BY <1>1, <1>4, <1>9 DEF MappedOnce
  <1> QED
    BY <1>1, <1>7, <1>10, <1>11 DEF MappedOnce, n

\* In the deterministic mode the pool holds nothing between two calls.
LEMMA DeterministicIs ==
    ASSUME ModeOK, deterministic PROVE BeingMapped = {} /\ Output = {} /\ MappedOnce
  <1>1. outputs = <<>> /\ queued = <<>> /\ \A w \in Workers : worker[w][1] # "mapping"
    BY DEF ModeOK
  <1>2. DOMAIN queued = {} /\ DOMAIN outputs = {}
    BY <1>1, EmptyIs
  <1> QED
    BY <1>1, <1>2 DEF BeingMapped, Output, MappedOnce, Once

\* What Yield and FillBuffer do to the buffer.
LEMMA BufferYield ==
    ASSUME NEW b \in Seq(Labelled), NEW n \in Nat, NEW p \in Nat, n < Len(b), InOrder(b, n, p)
    PROVE  /\ b[n + 1][2] \in Rest(b, n) /\ Rest(b, n + 1) = Rest(b, n) \ {b[n + 1][2]}
           /\ InOrder(b, n + 1, p)
  <1>1. Len(b) \in Nat
    OBVIOUS
  <1>2. \A i \in (n + 1)..Len(b) : b[i][2] = p - Len(b) + i
    BY <1>1 DEF InOrder
  <1>3. Rest(b, n) = {p - Len(b) + i : i \in (n + 1)..Len(b)}
    BY <1>2 DEF Rest
  <1>9. \A i \in ((n + 1) + 1)..Len(b) : b[i][2] = p - Len(b) + i
    BY <1>1, <1>2
  <1>4. Rest(b, n + 1) = {p - Len(b) + i : i \in ((n + 1) + 1)..Len(b)}
    BY <1>9 DEF Rest
  <1>5. b[n + 1][2] = p - Len(b) + (n + 1)
    BY <1>1, <1>2
  <1>6. Rest(b, n + 1) = Rest(b, n) \ {b[n + 1][2]}
    BY <1>1, <1>3, <1>4, <1>5
  <1>7. b[n + 1][2] \in Rest(b, n)
    BY <1>1 DEF Rest
  <1>8. InOrder(b, n + 1, p)
    BY <1>1 DEF InOrder
  <1> QED
    BY <1>6, <1>7, <1>8

LEMMA BufferFill ==
    ASSUME NEW p \in Nat, NEW n \in Nat, NEW b, b = [i \in 1..n |-> Mapped(p + i)]
    PROVE  Rest(b, 0) = (p + 1)..(p + n) /\ InOrder(b, 0, p + n)
  <1>1. Len(b) = n
    OBVIOUS
  <1>2. \A i \in 1..n : b[i][2] = p + i
    BY DEF Mapped
  <1>3. InOrder(b, 0, p + n)
    BY <1>1, <1>2 DEF InOrder
  <1>4. Rest(b, 0) = {b[i][2] : i \in 1..n}
    <2>1. (0 + 1)..Len(b) = 1..n
      BY <1>1
    <2> QED
      BY <2>1 DEF Rest
  <1>5. \A e \in (p + 1)..(p + n) : e - p \in 1..n /\ e = p + (e - p)
    OBVIOUS
  <1>6. Rest(b, 0) = (p + 1)..(p + n)
    <2>1. ASSUME NEW e \in Rest(b, 0) PROVE e \in (p + 1)..(p + n)
      <3>1. PICK i \in 1..n : e = b[i][2]
        BY <1>4, <2>1
      <3>2. e = p + i
        BY <1>2, <3>1
      <3> QED
        BY <3>1, <3>2
    <2>2. ASSUME NEW e \in (p + 1)..(p + n) PROVE e \in Rest(b, 0)
      BY <1>2, <1>4, <1>5
    <2> QED
      BY <2>1, <2>2
  <1> QED
    BY <1>3, <1>6

LEMMA EmptyPlaces == \A n \in Nat : Rest(<<>>, n) = {} /\ Results(<<>>) = {} /\ OutputOnce(<<>>)
                                    /\ InOrder(<<>>, 0, 0)
  BY EmptyIs DEF Rest, Results, OutputOnce, InOrder

-----------------------------------------------------------------------------
(***************************************************************************)
(* Every example is in one place.                                          *)
(***************************************************************************)
LEMMA SoundStep ==
    ASSUME MInv, [MapNext]_mapVars PROVE mapBroken' \/ spoiled' \/ Sound'
  <1> SUFFICES ASSUME ~mapBroken', ~spoiled' PROVE Sound'
    OBVIOUS
  <1> USE MapAssumption
      DEF bufferVars, poolVars, frontVars, history, Return, Break, Recover
  <1>0. /\ MapTypeOK /\ ModeOK /\ ReadOK /\ PoolOK
        /\ innerPos \in Nat /\ innerPos \in 0..MapSize /\ buffer \in Seq(Labelled)
        /\ bufferPos \in Nat /\ outputs \in Seq(Labelled)
    BY DEF MInv, MapTypeOK
  <1>1. /\ Buffered = Rest(buffer, bufferPos) /\ Output = Results(outputs)
        /\ Buffered' = Rest(buffer', bufferPos') /\ Output' = Results(outputs')
    BY DEF Buffered, Output, Rest, Results
  <1>2. CASE UNCHANGED <<delivered, skipped, buffer, bufferPos, outputs, innerPos, deterministic>>
             /\ ~mapBroken /\ ~spoiled /\ BeingMapped' = BeingMapped /\ (MappedOnce => MappedOnce')
    BY <1>1, <1>2 DEF MInv, Sound
  <1>3. CASE Yield
    <2> DEFINE e == buffer[bufferPos + 1][2]
    <2>1. ~mapBroken /\ ~spoiled /\ deterministic
      BY <1>0, <1>3 DEF Yield, ModeOK
    <2>2. Sound /\ bufferPos < Len(buffer)
      BY <1>3, <2>1 DEF MInv, Yield
    <2>3. /\ e \in Buffered /\ Buffered' = Buffered \ {e}
          /\ InOrder(buffer', bufferPos', innerPos')
      <3>1. /\ e \in Rest(buffer, bufferPos)
            /\ Rest(buffer, bufferPos + 1) = Rest(buffer, bufferPos) \ {e}
            /\ InOrder(buffer, bufferPos + 1, innerPos)
        BY <1>0, <2>1, <2>2, BufferYield DEF Sound
      <3>2. buffer' = buffer /\ bufferPos' = bufferPos + 1 /\ innerPos' = innerPos
        BY <1>3 DEF Yield
      <3> QED
        BY <1>1, <3>1, <3>2
    <2>4. /\ delivered' = delivered \cup {e}
          /\ UNCHANGED <<skipped, outputs, innerPos, queued, worker, deterministic>>
      BY <1>3 DEF Yield
    <2> HIDE DEF e
    <2>5. BeingMapped' = BeingMapped /\ Output' = Output
      BY <2>4 DEF BeingMapped, Output
    <2>6. Split(delivered, skipped, BeingMapped, Buffered, Output, innerPos)
      BY <2>2 DEF Sound
    <2>7. Split(delivered \cup {e}, skipped, BeingMapped, Buffered \ {e}, Output, innerPos)
      BY <2>3, <2>6, SplitMove
    <2>8. MappedOnce' /\ OutputOnce(outputs')
      BY <2>2, <2>4 DEF Sound, MappedOnce, Once
    <2> QED
      BY <2>3, <2>4, <2>5, <2>7, <2>8 DEF Sound
  <1>4. CASE FillError
    BY <1>4 DEF FillError
  <1>5. CASE FillBuffer
    <2> DEFINE k == Cardinality(Wanted)
    <2>1. ~mapBroken /\ ~spoiled /\ deterministic
      BY <1>0, <1>5 DEF FillBuffer, ModeOK
    <2>2. Sound /\ bufferPos >= Len(buffer)
      BY <1>5, <2>1 DEF MInv, FillBuffer
    <2>3. k \in Nat /\ Wanted = (innerPos + 1)..(innerPos + k)
      BY <1>0, WantedIs
    <2>4. /\ innerPos' = innerPos + k /\ bufferPos' = 0
          /\ buffer' = [i \in 1..k |-> Mapped(innerPos + i)]
          /\ UNCHANGED <<delivered, outputs, queued, worker, deterministic>>
      BY <1>5 DEF FillBuffer
    <2>5. skipped' = skipped
      BY <1>5 DEF FillBuffer
    <2> HIDE DEF k
    <2>6. Buffered' = (innerPos + 1)..(innerPos + k) /\ InOrder(buffer', bufferPos', innerPos')
      BY <1>0, <1>1, <2>3, <2>4, BufferFill
    <2>7. Buffered = {}
      <3>1. Len(buffer) \in Nat
        BY <1>0
      <3>2. (bufferPos + 1)..Len(buffer) = {}
        BY <1>0, <2>2, <3>1
      <3> QED
        BY <3>2 DEF Buffered
    <2>8. BeingMapped = {} /\ Output = {} /\ MappedOnce
      BY <1>0, <2>1, DeterministicIs
    <2>9. BeingMapped' = {} /\ Output' = {} /\ MappedOnce' /\ OutputOnce(outputs')
      BY <2>2, <2>4, <2>8 DEF BeingMapped, Output, MappedOnce, Once, Sound
    <2>10. delivered \cup skipped = 1..innerPos /\ Apart(delivered, skipped)
      BY <2>2, <2>7, <2>8 DEF Sound, Split
    <2>11. /\ 1..(innerPos + k) = (1..innerPos) \cup ((innerPos + 1)..(innerPos + k))
           /\ Apart(1..innerPos, (innerPos + 1)..(innerPos + k))
      BY <1>0, <2>3 DEF Apart
    <2>12. Split(delivered, skipped, {}, (innerPos + 1)..(innerPos + k), {}, innerPos + k)
      BY <2>10, <2>11 DEF Split, Apart
    <2> QED
      BY <2>4, <2>5, <2>6, <2>9, <2>12 DEF Sound
  <1>6. CASE Enqueue
    <2>1. ~mapBroken /\ ~spoiled /\ ~deterministic /\ deterministic' = deterministic
      BY <1>0, <1>6 DEF Enqueue, ModeOK
    <2>2. Sound
      BY <2>1 DEF MInv
    <2>3. /\ UNCHANGED <<delivered, skipped, buffer, bufferPos, outputs>>
          /\ innerPos' = innerPos + 1
      BY <1>6 DEF Enqueue
    <2>4. /\ innerPos + 1 \notin BeingMapped
          /\ Split(delivered, skipped, BeingMapped \cup {innerPos + 1}, Buffered, Output, innerPos + 1)
      BY <1>0, <2>2, SplitRead DEF Sound
    <2>5. BeingMapped' = BeingMapped \cup {innerPos + 1} /\ MappedOnce'
      BY <1>0, <1>6, <2>2, <2>4, EnqueueMapping DEF Sound
    <2>6. Buffered' = Buffered /\ Output' = Output /\ OutputOnce(outputs')
      BY <1>1, <2>2, <2>3 DEF Sound
    <2> QED
      BY <2>1, <2>3, <2>4, <2>5, <2>6 DEF Sound
  <1>7. CASE EnqueueError
    <2>1. ~mapBroken /\ ~spoiled /\ ~deterministic /\ deterministic' = deterministic
      BY <1>0, <1>7 DEF EnqueueError, ModeOK
    <2>2. Sound
      BY <2>1 DEF MInv
    <2>3. /\ UNCHANGED <<delivered, buffer, bufferPos, outputs, queued, worker>>
          /\ innerPos' = innerPos + 1 /\ skipped' = skipped \cup {innerPos + 1}
      BY <1>7 DEF EnqueueError
    <2>4. Split(delivered, skipped \cup {innerPos + 1}, BeingMapped, Buffered, Output, innerPos + 1)
      BY <1>0, <2>2, SplitRead DEF Sound
    <2>5. BeingMapped' = BeingMapped /\ MappedOnce'
      BY <2>2, <2>3 DEF Sound, BeingMapped, MappedOnce, Once
    <2>6. Buffered' = Buffered /\ Output' = Output /\ OutputOnce(outputs')
      BY <1>1, <2>2, <2>3 DEF Sound
    <2> QED
      BY <2>1, <2>3, <2>4, <2>5, <2>6 DEF Sound
  <1>8. CASE Take
    <2> DEFINE e == Head(outputs)[2]
    <2>1. ~mapBroken /\ ~spoiled /\ ~deterministic /\ deterministic' = deterministic
      BY <1>0, <1>8 DEF Take, ModeOK
    <2>2. Sound
      BY <2>1 DEF MInv
    <2>3. /\ e \in Results(outputs) /\ Results(Tail(outputs)) = Results(outputs) \ {e}
          /\ OutputOnce(Tail(outputs))
      BY <1>0, <1>8, <2>2, ResultsTail DEF Sound, Take
    <2>4. /\ UNCHANGED <<skipped, buffer, bufferPos, innerPos, queued, worker>>
          /\ outputs' = Tail(outputs) /\ delivered' = delivered \cup {e}
      BY <1>8 DEF Take
    <2> HIDE DEF e
    <2>5. Split(delivered \cup {e}, skipped, BeingMapped, Buffered, Output \ {e}, innerPos)
      <3>1. e \in Output
        BY <1>1, <2>3
      <3>2. Split(delivered, skipped, BeingMapped, Buffered, Output, innerPos)
        BY <2>2 DEF Sound
      <3> QED
        BY <3>1, <3>2, SplitMove
    <2>6. BeingMapped' = BeingMapped /\ MappedOnce'
      BY <2>2, <2>4 DEF Sound, BeingMapped, MappedOnce, Once
    <2>7. Buffered' = Buffered /\ Output' = Output \ {e} /\ OutputOnce(outputs')
      BY <1>1, <2>3, <2>4
    <2> QED
      BY <2>1, <2>4, <2>5, <2>6, <2>7 DEF Sound
  <1>9. CASE MapReset
    <2>1. inFlight = 0 /\ UNCHANGED <<queued, worker>>
      BY <1>0, <1>9 DEF MapReset, PoolOK
    <2>2. BeingMapped = {} /\ MappedOnce
      BY <1>0, <2>1, QuietIs
    <2>3. BeingMapped' = {} /\ MappedOnce'
      BY <2>1, <2>2 DEF BeingMapped, MappedOnce, Once
    <2>4. /\ buffer' = <<>> /\ bufferPos' = 0 /\ outputs' = <<>> /\ innerPos' = 0
          /\ delivered' = {} /\ skipped' = {}
      BY <1>9 DEF MapReset
    <2>5. /\ Buffered' = {} /\ Output' = {} /\ OutputOnce(outputs')
          /\ InOrder(buffer', bufferPos', innerPos')
      <3>1. 0 \in Nat
        OBVIOUS
      <3> QED
        BY <1>1, <2>4, <3>1, EmptyPlaces
    <2>6. Split({}, {}, {}, {}, {}, 0)
      BY DEF Split, Apart
    <2> QED
      BY <2>3, <2>4, <2>5, <2>6 DEF Sound
  <1>10. CASE MapRecord
    <2>1. /\ UNCHANGED <<delivered, skipped, buffer, bufferPos, outputs, innerPos, deterministic>>
          /\ UNCHANGED <<queued, worker>> /\ ~mapBroken /\ ~spoiled
      BY <1>10 DEF MapRecord
    <2>2. BeingMapped' = BeingMapped /\ (MappedOnce => MappedOnce')
      BY <2>1 DEF BeingMapped, MappedOnce, Once
    <2> QED
      BY <1>2, <2>1, <2>2
  <1>11. CASE MapReload
    <2>1. /\ inFlight = 0 /\ UNCHANGED <<queued, worker, deterministic>>
          /\ record # NoRecord /\ ~record.spoiled
      BY <1>0, <1>11 DEF MapReload, PoolOK, MapTypeOK
    <2>2. BeingMapped = {} /\ MappedOnce
      BY <1>0, <2>1, QuietIs
    <2>3. BeingMapped' = {} /\ MappedOnce'
      BY <2>1, <2>2 DEF BeingMapped, MappedOnce, Once
    <2>4. RecordSound
      BY <2>1 DEF MInv
    <2>5. /\ buffer' = record.buffer /\ bufferPos' = record.bufferPos
          /\ outputs' = record.outputs /\ innerPos' = record.pos
          /\ delivered' = record.delivered /\ skipped' = record.skipped
      BY <1>11 DEF MapReload
    <2>6. /\ Buffered' = Rest(record.buffer, record.bufferPos)
          /\ Output' = Results(record.outputs)
      BY <1>1, <2>5
    <2> QED
      BY <2>1, <2>3, <2>4, <2>5, <2>6 DEF Sound, RecordSound
  <1>12. ASSUME NEW w \in Workers, Start(w) PROVE Sound'
    <2>1. UNCHANGED <<delivered, skipped, buffer, bufferPos, outputs, innerPos, deterministic,
                      mapBroken, spoiled>>
      BY <1>12 DEF Start
    <2>2. Sound
      BY <2>1 DEF MInv
    <2>3. BeingMapped' = BeingMapped /\ MappedOnce'
      BY <1>0, <1>12, <2>2, StartMapping DEF Sound
    <2> QED
      BY <1>2, <2>1, <2>3
  <1>13. ASSUME NEW w \in Workers, Push(w) PROVE Sound'
    <2> DEFINE e == worker[w][2]
    <2>1. UNCHANGED <<delivered, buffer, bufferPos, innerPos, deterministic, mapBroken, spoiled>>
      BY <1>13 DEF Push
    <2>2. Sound
      BY <2>1 DEF MInv
    <2>3. /\ e \in BeingMapped /\ e \in Ordinal
          /\ BeingMapped' = BeingMapped \ {e} /\ MappedOnce'
      BY <1>0, <1>13, <2>2, PushMapping DEF Sound
    <2>4. \/ skipped' = skipped \cup {e} /\ outputs' = outputs
          \/ skipped' = skipped /\ outputs' = Append(outputs, Mapped(e))
      BY <1>13 DEF Push
    <2> HIDE DEF e
    <2>5. /\ Split(delivered, skipped \cup {e}, BeingMapped \ {e}, Buffered, Output, innerPos)
          /\ Split(delivered, skipped, BeingMapped \ {e}, Buffered, Output \cup {e}, innerPos)
          /\ e \notin Output
      <3>1. Split(delivered, skipped, BeingMapped, Buffered, Output, innerPos)
        BY <2>2 DEF Sound
      <3> QED
        BY <2>3, <3>1, SplitMove
    <2>6. Buffered' = Buffered
      BY <1>1, <2>1
    <2>7. CASE skipped' = skipped \cup {e} /\ outputs' = outputs
      <3>1. Output' = Output
        BY <1>1, <2>7
      <3> QED
        BY <2>1, <2>2, <2>3, <2>5, <2>6, <2>7, <3>1 DEF Sound
    <2>8. CASE skipped' = skipped /\ outputs' = Append(outputs, Mapped(e))
      <3>1. Output' = Output \cup {e} /\ OutputOnce(outputs')
        BY <1>0, <1>1, <2>2, <2>3, <2>5, <2>8, ResultsAppend DEF Sound
      <3> QED
        BY <2>1, <2>2, <2>3, <2>5, <2>6, <2>8, <3>1 DEF Sound
    <2> QED
      BY <2>4, <2>7, <2>8
  <1>14. ASSUME NEW w \in Workers, CountDown(w) \/ Notify(w) PROVE Sound'
    <2>1. /\ UNCHANGED <<delivered, skipped, buffer, bufferPos, outputs, innerPos, deterministic>>
          /\ UNCHANGED <<mapBroken, spoiled, queued>>
      BY <1>14 DEF CountDown, Notify
    <2>2. worker \in [Workers -> Task] /\ worker[w] \in Task
      BY <1>0 DEF MapTypeOK
    <2>3. worker[w][1] # "mapping" /\ worker[w][1] # "idle"
      BY <1>14 DEF CountDown, Notify
    <2>4. worker'[w][1] # "mapping" /\ \A v \in Workers : v # w => worker'[v] = worker[v]
      <3>1. CASE CountDown(w)
        BY <2>2, <2>3, <3>1, RelabelIs DEF CountDown
      <3>2. CASE Notify(w)
        BY <2>2, <3>2 DEF Notify, Idle
      <3> QED
        BY <1>14, <3>1, <3>2
    <2>5. BeingMapped' = BeingMapped /\ (MappedOnce => MappedOnce')
      BY <2>1, <2>3, <2>4, IdleMapping
    <2> QED
      BY <1>2, <2>1, <2>5
  <1>15. CASE Filled \/ Check \/ CheckQueue \/ NotReady \/ Sleep \/ Rethrown \/ Drained \/ MapCall
              \/ MapDone \/ UNCHANGED mapVars
    <2>1. /\ UNCHANGED <<delivered, skipped, buffer, bufferPos, outputs, innerPos, deterministic>>
          /\ UNCHANGED <<spoiled, queued, worker>> /\ ~mapBroken
      BY <1>15 DEF Filled, Check, CheckQueue, NotReady, Sleep, Rethrown, Drained, MapCall,
         CallMapNext, CallMap, MapDone, mapVars
    <2>2. BeingMapped' = BeingMapped /\ (MappedOnce => MappedOnce')
      BY <2>1 DEF BeingMapped, MappedOnce, Once
    <2> QED
      BY <1>2, <2>1, <2>2
  <1> QED
    BY <1>3, <1>4, <1>5, <1>6, <1>7, <1>8, <1>9, <1>10, <1>11, <1>12, <1>13, <1>14, <1>15
    DEF MapNext, ConsumerStep, WorkerStep

\* A recorded position is sound when it is the recorded state that is.
LEMMA RecordStep ==
    ASSUME MInv, [MapNext]_mapVars
    PROVE  record' = NoRecord \/ record'.spoiled \/ RecordSound'
  <1>0. /\ MapTypeOK /\ ModeOK /\ ReadOK /\ PoolOK
        /\ innerPos \in Nat /\ bufferPos \in Nat
        /\ (record = NoRecord \/ record.spoiled \/ RecordSound)
    BY DEF MInv, MapTypeOK
  <1> USE DEF bufferVars, poolVars, frontVars, history, Return, Break, Recover
  <1>1. CASE record' = record /\ deterministic' = deterministic
    BY <1>0, <1>1 DEF RecordSound
  <1>2. CASE MapRecord
    <2>1. ~mapBroken /\ deterministic' = deterministic
      BY <1>0, <1>2 DEF MapRecord, ModeOK
    <2>2. CASE asked = "record"
      <3>1. record' =
              [strict |-> TRUE, pos |-> innerPos,
               buffer    |-> IF deterministic THEN buffer ELSE <<>>,
               bufferPos |-> IF deterministic THEN bufferPos ELSE 0,
               outputs   |-> IF ~deterministic THEN outputs ELSE <<>>,
               delivered |-> delivered, skipped |-> skipped, spoiled |-> spoiled]
        <4>1. spoiled \in BOOLEAN
          BY <1>0 DEF MapTypeOK
        <4>2. (TRUE /\ spoiled) = spoiled
          BY <4>1
        <4> QED
          BY <1>2, <2>2, <4>1, <4>2 DEF MapRecord
      <3>2. SUFFICES ASSUME ~spoiled PROVE RecordSound'
        BY <3>1
      <3>3. Sound
        BY <2>1, <3>2 DEF MInv
      <3>4. BeingMapped = {}
        <4>1. inFlight = 0
          BY <1>0, <1>2, <2>2 DEF MapRecord, PoolOK
        <4> QED
          BY <1>0, <4>1, QuietIs
      <3>5. /\ Rest(record'.buffer, record'.bufferPos) = Buffered
            /\ Results(record'.outputs) = Output
            /\ OutputOnce(record'.outputs)
        <4>1. CASE deterministic
          <5>1. record'.buffer = buffer /\ record'.bufferPos = bufferPos /\ record'.outputs = <<>>
            BY <3>1, <4>1
          <5>2. outputs = <<>>
            BY <1>0, <4>1 DEF ModeOK
          <5> QED
            BY <3>3, <5>1, <5>2 DEF Rest, Buffered, Results, Output, Sound
        <4>2. CASE ~deterministic
          <5>1. record'.buffer = <<>> /\ record'.bufferPos = 0 /\ record'.outputs = outputs
            BY <3>1, <4>2
          <5>2. buffer = <<>>
            BY <1>0, <4>2 DEF ModeOK
          <5>3. Rest(<<>>, 0) = {} /\ Rest(<<>>, bufferPos) = {}
            BY <1>0, EmptyPlaces
          <5> QED
            BY <3>3, <5>1, <5>2, <5>3 DEF Rest, Buffered, Results, Output, Sound
        <4> QED
          BY <4>1, <4>2
      <3>6. /\ record'.delivered = delivered /\ record'.skipped = skipped
            /\ record'.pos = innerPos
        BY <3>1
      <3>7. deterministic' => InOrder(record'.buffer, record'.bufferPos, record'.pos)
        BY <2>1, <3>1, <3>3 DEF Sound
      <3>8. Split(delivered, skipped, {}, Buffered, Output, innerPos)
        BY <3>3, <3>4 DEF Sound
      <3> QED
        BY <3>5, <3>6, <3>7, <3>8 DEF RecordSound
    <2>3. CASE asked = "loose"
      <3>1. record' =
              [strict |-> FALSE, pos |-> innerPos, buffer |-> <<>>, bufferPos |-> 0,
               outputs |-> <<>>, delivered |-> delivered,
               skipped |-> (1..innerPos) \ delivered, spoiled |-> FALSE]
        BY <1>2, <2>3 DEF MapRecord
      <3>2. /\ Rest(record'.buffer, record'.bufferPos) = {} /\ Results(record'.outputs) = {}
            /\ OutputOnce(record'.outputs)
        <4>1. 0 \in Nat
          OBVIOUS
        <4> QED
          BY <3>1, <4>1, EmptyPlaces
      <3>3. delivered \subseteq 1..innerPos
        BY <1>0 DEF ReadOK
      <3>4. Split(delivered, (1..innerPos) \ delivered, {}, {}, {}, innerPos)
        BY <3>3 DEF Split, Apart
      <3>5. InOrder(record'.buffer, record'.bufferPos, record'.pos)
        BY <1>0, <3>1, EmptyIs DEF InOrder
      <3> QED
        BY <3>1, <3>2, <3>4, <3>5 DEF RecordSound
    <2> QED
      BY <1>2, <2>2, <2>3 DEF MapRecord
  <1>3. ASSUME NEW w \in Workers, WorkerStep(w)
        PROVE  record' = record /\ deterministic' = deterministic
    BY <1>3 DEF WorkerStep, Start, Push, CountDown, Notify
  <1>4. CASE Yield \/ FillBuffer \/ FillError \/ Enqueue \/ EnqueueError \/ Filled \/ Check
             \/ CheckQueue \/ NotReady \/ Sleep \/ Rethrown \/ Take \/ Drained \/ MapReset
             \/ MapReload \/ MapCall \/ MapDone \/ UNCHANGED mapVars
    <2>1. record' = record /\ deterministic' = deterministic
      BY <1>4 DEF Yield, FillBuffer, FillError, Enqueue, EnqueueError, Filled, Check,
         CheckQueue, NotReady, Sleep, Rethrown, Take, Drained, MapReset, MapReload, MapCall,
         CallMapNext, CallMap, MapDone, mapVars
    <2> QED
      BY <1>1, <2>1
  <1> QED
    BY <1>1, <1>2, <1>3, <1>4 DEF MapNext, ConsumerStep

LEMMA MInit == MapInit => MInv
  <1> SUFFICES ASSUME MapInit PROVE MInv
    OBVIOUS
  <1>1. MapTypeOK
    BY MapTypeInit
  <1>2. /\ \A w \in Workers : worker[w][1] = "idle"
        /\ buffer = <<>> /\ bufferPos = 0 /\ outputs = <<>> /\ queued = <<>> /\ innerPos = 0
        /\ delivered = {} /\ skipped = {} /\ inFlight = 0 /\ record = NoRecord
    BY DEF MapInit, Idle
  <1>3. ModeOK
    BY <1>2 DEF MapInit, ModeOK, NoRecord
  <1>4. ReadOK
    BY <1>2, EmptyIs DEF ReadOK
  <1>5. PoolOK
    <2>1. Busy = {}
      BY <1>2 DEF Busy
    <2>2. Cardinality(Busy) = 0
      BY <2>1, BusyFinite
    <2> QED
      BY <1>2, <2>2, EmptyIs DEF MapInit, PoolOK
  <1>6. Sound
    <2>1. BeingMapped = {} /\ MappedOnce
      BY <1>1, <1>2, <1>5, QuietIs
    <2>2. /\ Buffered = {} /\ Output = {} /\ OutputOnce(outputs)
          /\ InOrder(buffer, bufferPos, innerPos)
      BY <1>2, EmptyIs DEF Buffered, Output, OutputOnce, InOrder
    <2>3. Split({}, {}, {}, {}, {}, 0)
      BY DEF Split, Apart
    <2> QED
      BY <1>2, <2>1, <2>2, <2>3 DEF Sound
  <1> QED
    BY <1>1, <1>2, <1>3, <1>4, <1>5, <1>6 DEF MInv

LEMMA MStep == MInv /\ [MapNext]_mapVars => MInv'
  <1> SUFFICES ASSUME MInv, [MapNext]_mapVars PROVE MInv'
    OBVIOUS
  <1>0. /\ MapTypeOK /\ ModeOK /\ ReadOK /\ PoolOK
        /\ (mapBroken \/ spoiled \/ Sound)
    BY DEF MInv
  <1>1. MapTypeOK' /\ ModeOK' /\ ReadOK' /\ PoolOK'
    BY <1>0, MapTypeStep, ModeStep, ReadStep, PoolStep
  <1>2. (mapBroken' \/ spoiled' \/ Sound') /\ (record' = NoRecord \/ record'.spoiled \/ RecordSound')
    BY SoundStep, RecordStep
  <1> QED
    BY <1>1, <1>2 DEF MInv, NoRecord

-----------------------------------------------------------------------------
(***************************************************************************)
(* What follows.                                                           *)
(***************************************************************************)
LEMMA ResultsSize ==
    ASSUME NEW q \in Seq(Labelled), OutputOnce(q)
    PROVE  IsFiniteSet(Results(q)) /\ Cardinality(Results(q)) = Len(q)
  <1> DEFINE f == [i \in 1..Len(q) |-> q[i][2]]
  <1>1. DOMAIN q = 1..Len(q) /\ Len(q) \in Nat
    OBVIOUS
  <1>2. f \in Surjection(1..Len(q), Results(q))
    BY <1>1 DEF Surjection, Results
  <1>3. f \in Injection(1..Len(q), Results(q))
    BY <1>1 DEF Injection, IsInjective, Results, OutputOnce
  <1>4. IsFiniteSet(1..Len(q)) /\ Cardinality(1..Len(q)) = Len(q)
    <2>0. 0 \in Int /\ Len(q) \in Nat
      OBVIOUS
    <2>1. IsFiniteSet((0 + 1)..(0 + Len(q))) /\ Cardinality((0 + 1)..(0 + Len(q))) = Len(q)
      BY <2>0, IntervalSize
    <2>2. (0 + 1)..(0 + Len(q)) = 1..Len(q)
      BY <1>1
    <2> QED
      BY <2>1, <2>2
  <1> QED
    BY <1>2, <1>3, <1>4, FS_Surjection

\* The cardinality of what is apart adds up.
LEMMA UnionSize ==
    ASSUME NEW A, NEW B, IsFiniteSet(A), IsFiniteSet(B), Apart(A, B)
    PROVE  IsFiniteSet(A \cup B) /\ Cardinality(A \cup B) = Cardinality(A) + Cardinality(B)
  <1>1. /\ IsFiniteSet(A \cup B)
        /\ Cardinality(A \cup B) = Cardinality(A) + Cardinality(B) - Cardinality(A \cap B)
    BY FS_Union
  <1>2. Cardinality(A \cap B) = 0
    BY FS_EmptySet DEF Apart
  <1>3. Cardinality(A) \in Nat /\ Cardinality(B) \in Nat
    BY FS_CardinalityType
  <1> QED
    BY <1>1, <1>2, <1>3

LEMMA SplitSize ==
    ASSUME NEW d, NEW s, NEW m, NEW b, NEW o, NEW p \in Nat, Split(d, s, m, b, o, p)
    PROVE  Cardinality(d) + Cardinality(s) + Cardinality(m) + Cardinality(b) + Cardinality(o) = p
  <1>1. IsFiniteSet(1..p) /\ Cardinality(1..p) = p
    <2>1. IsFiniteSet((0 + 1)..(0 + p)) /\ Cardinality((0 + 1)..(0 + p)) = p
      BY IntervalSize
    <2>2. (0 + 1)..(0 + p) = 1..p
      OBVIOUS
    <2> QED
      BY <2>1, <2>2
  <1>2. /\ d \subseteq 1..p /\ s \subseteq 1..p /\ m \subseteq 1..p /\ b \subseteq 1..p
        /\ o \subseteq 1..p
    BY DEF Split
  <1>3. IsFiniteSet(d) /\ IsFiniteSet(s) /\ IsFiniteSet(m) /\ IsFiniteSet(b) /\ IsFiniteSet(o)
    BY <1>1, <1>2, FS_Subset
  <1>4. /\ Apart(d, s) /\ Apart(d \cup s, m) /\ Apart((d \cup s) \cup m, b)
        /\ Apart(((d \cup s) \cup m) \cup b, o)
    BY DEF Split, Apart
  <1> DEFINE x == d \cup s
             y == x \cup m
             z == y \cup b
  <1>5. IsFiniteSet(x) /\ Cardinality(x) = Cardinality(d) + Cardinality(s)
    BY <1>3, <1>4, UnionSize
  <1>6. Apart(x, m) /\ Apart(y, b) /\ Apart(z, o) /\ z \cup o = 1..p
    BY <1>4 DEF Split
  <1> HIDE DEF x
  <1>7. IsFiniteSet(y) /\ Cardinality(y) = Cardinality(x) + Cardinality(m)
    BY <1>3, <1>5, <1>6, UnionSize
  <1> HIDE DEF y
  <1>8. IsFiniteSet(z) /\ Cardinality(z) = Cardinality(y) + Cardinality(b)
    BY <1>3, <1>6, <1>7, UnionSize
  <1> HIDE DEF z
  <1>9. Cardinality(z \cup o) = Cardinality(z) + Cardinality(o)
    BY <1>3, <1>6, <1>8, UnionSize
  <1> QED
    BY <1>1, <1>5, <1>6, <1>7, <1>8, <1>9

LEMMA InOrderIs ==
    ASSUME NEW b \in Seq(Labelled), NEW n \in Nat, NEW p \in Nat, InOrder(b, n, p),
           NEW d \in 1..p, d \notin Rest(b, n), NEW e \in Rest(b, n)
    PROVE  d < e
  <1>1. Len(b) \in Nat /\ Len(b) <= p
    BY DEF InOrder
  <1>2. PICK i \in (n + 1)..Len(b) : e = b[i][2]
    BY DEF Rest
  <1>3. i \in 1..Len(b) /\ e = p - Len(b) + i
    BY <1>1, <1>2 DEF InOrder
  <1>4. ASSUME d >= e PROVE FALSE
    <2> DEFINE j == d - p + Len(b)
    <2>1. j \in (n + 1)..Len(b) /\ j \in 1..Len(b) /\ d = p - Len(b) + j
      BY <1>1, <1>2, <1>3, <1>4
    <2> HIDE DEF j
    <2>2. b[j][2] = d
      BY <2>1 DEF InOrder
    <2> QED
      BY <2>1, <2>2 DEF Rest
  <1> QED
    BY <1>1, <1>3, <1>4

LEMMA MInvConserves == MInv => Conserved
  <1> SUFFICES ASSUME MInv, ~mapBroken, ~spoiled PROVE Conserved
    BY DEF Conserved
  <1>1. /\ Sound /\ innerPos \in Nat /\ outputs \in Seq(Labelled) /\ buffer \in Seq(Labelled)
        /\ bufferPos \in Nat /\ ModeOK /\ ReadOK
    BY DEF MInv, MapTypeOK
  <1>2. Split(delivered, skipped, BeingMapped, Buffered, Output, innerPos)
    BY <1>1 DEF Sound
  <1>3. delivered \cup skipped \cup BeingMapped \cup Buffered \cup Output = 1..innerPos
    BY <1>2 DEF Split
  <1>4. Cardinality(delivered) + Cardinality(skipped) + Cardinality(BeingMapped)
          + Cardinality(Buffered) + Cardinality(Output) = innerPos
    BY <1>1, <1>2, SplitSize
  <1>5. Cardinality(Output) = Len(outputs)
    <2>1. Cardinality(Results(outputs)) = Len(outputs)
      BY <1>1, ResultsSize DEF Sound
    <2> QED
      BY <2>1 DEF Results, Output
  <1>6. ASSUME deterministic, NEW d \in delivered, NEW e \in BeingMapped \cup Buffered
        PROVE  d < e
    <2>1. e \in Buffered
      BY <1>1, <1>6, DeterministicIs
    <2>2. Buffered = Rest(buffer, bufferPos)
      BY DEF Buffered, Rest
    <2>3. d \in 1..innerPos /\ d \notin Buffered
      BY <1>1, <1>2 DEF Split, Apart, ReadOK
    <2>4. InOrder(buffer, bufferPos, innerPos)
      BY <1>1, <1>6 DEF Sound
    <2> QED
      BY <1>1, <2>1, <2>2, <2>3, <2>4, InOrderIs
  <1> QED
    BY <1>3, <1>4, <1>5, <1>6 DEF Conserved

THEOREM MapInductive == MapSpec => []MInv
  BY MInit, MStep, PTL DEF MapSpec

\* map_data_source keeps its state what its code takes it for, in either mode.
THEOREM MapTypeCorrect == MapSpec => []MapTypeOK
  <1>1. MInv => MapTypeOK
    BY DEF MInv
  <1> QED
    BY <1>1, MapInductive, PTL

\* For any number of examples and of pool threads, and whatever fails, is recorded, reset
\* or reloaded: every example that was read is in one place, and in one place only.
THEOREM NothingIsLost == MapSpec => []Conserved
  BY MInvConserves, MapInductive, PTL
=============================================================================
