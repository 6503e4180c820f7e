-------------------------- MODULE Telemetry_proofs --------------------------
(***************************************************************************)
(* That the collector loses and duplicates no event, for every batch size  *)
(* and any number of events.                                               *)
(***************************************************************************)
EXTENDS Telemetry, TLAPS

\* A goroutine of recordEvent is started by one event.
FlushersStarted == flushers <= recorded

IInv == TypeOK /\ FlushersStarted /\ OnePlace /\ ShutdownEmpties

LEMMA InitIInv == Init => IInv
<1> SUFFICES ASSUME Init PROVE IInv
  OBVIOUS
<1> USE DEF Init
<1>1. TypeOK /\ FlushersStarted
  <2>1. recorded \in 0..MaxEvents /\ flushers \in 0..MaxEvents /\ flushers <= recorded
    BY EventsAssumption
  <2>2. failed \in BOOLEAN
    BY Zenon
  <2> QED
    BY <2>1, <2>2, Zenon DEF TypeOK, FlushersStarted
<1>2. 1..recorded = {}
  OBVIOUS
<1>3. UNION inFlight = {}
  BY Zenon
<1>4. OnePlace /\ ShutdownEmpties
  BY <1>2, <1>3 DEF OnePlace, ShutdownEmpties
<1> QED
  BY <1>1, <1>4 DEF IInv

-----------------------------------------------------------------------------
\* What the callers of flush share: it keeps the types, the places of the events and an
\* empty buffer.
LEMMA FlushKeeps ==
  ASSUME IInv, Flush, UNCHANGED <<recorded, delivered, refused>>
  PROVE  /\ buffer' \subseteq Events
         /\ inFlight' \subseteq (SUBSET Events) \ {{}}
         /\ OnePlace'
         /\ buffer' = {}
<1> USE DEF IInv
<1>1. CASE buffer = {}
  BY <1>1 DEF Flush, OnePlace, TypeOK
<1>2. CASE buffer # {}
  <2>1. buffer' = {} /\ inFlight' = inFlight \cup {buffer}
    BY <1>2 DEF Flush
  <2>2. UNION inFlight' = buffer \cup (UNION inFlight)
    BY <2>1
  <2>3. (buffer \cup (UNION inFlight) \cup delivered \cup refused = 1..recorded)'
    BY <2>1, <2>2 DEF OnePlace
  <2>4. \A b \in inFlight' : b \cap (buffer' \cup delivered' \cup refused') = {}
    BY <2>1 DEF OnePlace
  <2>5. \A b, c \in inFlight' : b = c \/ b \cap c = {}
    BY <2>1 DEF OnePlace
  <2>6. inFlight' \subseteq (SUBSET Events) \ {{}}
    BY <2>1, <1>2 DEF TypeOK
  <2> QED
    BY <2>1, <2>3, <2>4, <2>5, <2>6 DEF OnePlace
<1> QED
  BY <1>1, <1>2

LEMMA StepIInv == IInv /\ [Next]_vars => IInv'
<1> SUFFICES ASSUME IInv, [Next]_vars
             PROVE  IInv'
  OBVIOUS
<1> USE DEF IInv
<1>1. CASE Record
  <2>1. /\ recorded' = recorded + 1 /\ recorded' \in 1..MaxEvents
        /\ buffer' = buffer \cup {recorded'}
    BY <1>1, EventsAssumption DEF Record, TypeOK
  <2>2. flushers' \in 0..MaxEvents /\ flushers' <= recorded'
    BY <1>1, <2>1, EventsAssumption DEF Record, TypeOK, FlushersStarted
  <2>3. TypeOK'
    BY <1>1, <2>1, <2>2 DEF Record, TypeOK, Events
  <2>4. UNCHANGED <<main, failed, inFlight, delivered, refused>> /\ main = "command"
    BY <1>1 DEF Record
  <2>5. recorded' \notin 1..recorded /\ 1..recorded' = (1..recorded) \cup {recorded'}
    BY <2>1 DEF TypeOK
  <2>6. recorded' \notin buffer \cup (UNION inFlight) \cup delivered \cup refused
    BY <2>5 DEF OnePlace
  <2>7. (buffer \cup (UNION inFlight) \cup delivered \cup refused = 1..recorded)'
    BY <2>1, <2>4, <2>5 DEF OnePlace
  <2>8. \A b \in inFlight : recorded' \notin b
    BY <2>6
  <2>9. OnePlace'
    BY <2>1, <2>4, <2>6, <2>7, <2>8 DEF OnePlace
  <2> QED
    BY <2>2, <2>3, <2>4, <2>9 DEF FlushersStarted, ShutdownEmpties
<1>2. CASE FlushFull
  <2>1. flushers' \in 0..MaxEvents /\ flushers' <= recorded'
    BY <1>2, EventsAssumption DEF FlushFull, TypeOK, FlushersStarted
  <2>2. Flush /\ UNCHANGED <<main, failed, background, recorded, delivered, refused>>
    BY <1>2 DEF FlushFull
  <2> QED
    BY <2>1, <2>2, FlushKeeps DEF TypeOK, FlushersStarted, ShutdownEmpties
<1>3. CASE Tick
  <2>1. Flush /\ UNCHANGED <<main, failed, background, recorded, flushers, delivered, refused>>
    BY <1>3 DEF Tick
  <2> QED
    BY <2>1, FlushKeeps DEF TypeOK, FlushersStarted, ShutdownEmpties
<1>4. CASE StopBackground
  <2>1. /\ Flush /\ background' = "done"
        /\ UNCHANGED <<main, failed, recorded, flushers, delivered, refused>>
    BY <1>4 DEF StopBackground
  <2> QED
    BY <2>1, FlushKeeps DEF TypeOK, FlushersStarted, ShutdownEmpties
<1>5. CASE ShutdownFlush
  <2>1. /\ Flush /\ main' = "leaving"
        /\ UNCHANGED <<failed, background, recorded, flushers, delivered, refused>>
    BY <1>5 DEF ShutdownFlush
  <2> QED
    BY <2>1, FlushKeeps DEF TypeOK, FlushersStarted, ShutdownEmpties
<1>6. ASSUME NEW batch \in inFlight, Send(batch)
      PROVE  IInv'
  <2>1. /\ inFlight' = inFlight \ {batch}
        /\ delivered' \cup refused' = delivered \cup refused \cup batch
        /\ delivered' = delivered \cup batch \/ delivered' = delivered
        /\ refused' = refused \cup batch \/ refused' = refused
        /\ delivered' = delivered \/ refused' = refused
        /\ UNCHANGED <<main, failed, background, recorded, buffer, flushers>>
    BY <1>6 DEF Send
  <2>2. batch \subseteq Events /\ batch \cap (buffer \cup delivered \cup refused) = {}
    BY <1>6 DEF TypeOK, OnePlace
  <2>3. TypeOK'
    BY <2>1, <2>2 DEF TypeOK
  <2>4. UNION inFlight = batch \cup (UNION inFlight')
    BY <2>1
  <2>5. (buffer \cup (UNION inFlight) \cup delivered \cup refused = 1..recorded)'
    BY <2>1, <2>4 DEF OnePlace
  <2>6. \A b \in inFlight' : b \in inFlight /\ b \cap batch = {}
    BY <2>1 DEF OnePlace
  <2>7. \A b \in inFlight' : b \cap (buffer' \cup delivered' \cup refused') = {}
    BY <2>1, <2>6 DEF OnePlace
  <2>8. (buffer \cap (delivered \cup refused) = {})' /\ (delivered \cap refused = {})'
    BY <2>1, <2>2 DEF OnePlace
  <2>9. OnePlace'
    BY <2>1, <2>5, <2>6, <2>7, <2>8 DEF OnePlace
  <2> QED
    BY <2>1, <2>3, <2>9 DEF FlushersStarted, ShutdownEmpties
<1>7. CASE Succeed \/ Leave \/ Fail \/ Gone
  <2>1. UNCHANGED <<background, recorded, buffer, flushers, inFlight, delivered, refused>>
    BY <1>7 DEF Succeed, Leave, Fail, Gone, vars
  <2>2. /\ main' \in {"command", "stopping", "leaving", "gone"} /\ failed' \in BOOLEAN
        /\ main' \in {"leaving", "gone"} /\ ~failed' => main \in {"leaving", "gone"} /\ ~failed
    BY <1>7 DEF Succeed, Leave, Fail, Gone, vars, TypeOK
  <2> QED
    BY <2>1, <2>2 DEF TypeOK, FlushersStarted, OnePlace, ShutdownEmpties
<1>8. CASE UNCHANGED vars
  BY <1>8 DEF vars, TypeOK, FlushersStarted, OnePlace, ShutdownEmpties
<1> QED
  BY <1>1, <1>2, <1>3, <1>4, <1>5, <1>6, <1>7, <1>8 DEF Next

LEMMA AlwaysIInv == Spec => []IInv
  BY InitIInv, StepIInv, PTL DEF Spec

-----------------------------------------------------------------------------
\* The collector's variables keep their types: no more flushes are pending than events
\* were recorded.
THEOREM TypeCorrect == Spec => []TypeOK
  BY AlwaysIInv, PTL DEF IInv

\* Whatever the interleaving of recordEvent with the flushes of the ticker, of full
\* batches and of Shutdown, every event is in exactly one place.
THEOREM NoEventLost == Spec => []OnePlace
  BY AlwaysIInv, PTL DEF IInv

\* When Shutdown has returned the buffer is empty.
THEOREM ShutdownLeavesNothing == Spec => []ShutdownEmpties
  BY AlwaysIInv, PTL DEF IInv
=============================================================================
