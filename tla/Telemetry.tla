----------------------------- MODULE Telemetry -----------------------------
(***************************************************************************)
(* The collector of telemetry/telemetry.go inside one run of the CLI       *)
(* (cli/main.go): the command records events under the collector's mutex,  *)
(* flush takes the buffer and leaves the sending to a goroutine of its     *)
(* own, a background goroutine flushes every 30 seconds and once more when *)
(* Shutdown closes stopChan.  The end of main ends every goroutine.        *)
(***************************************************************************)
EXTENDS Naturals, FiniteSets

CONSTANTS
  BatchSize, \* batchSize: 10 in InitTelemetry
  MaxEvents  \* bound: events one run of the CLI records

ASSUME BatchAssumption == BatchSize \in Nat \ {0}
ASSUME EventsAssumption == MaxEvents \in Nat

Events == 1..MaxEvents

VARIABLES
  main,       \* "command", "stopping" (in wg.Wait), "leaving" (flushed), "gone"
  failed,     \* the command returned an error
  background, \* "looping" or "done": the goroutine of startBackgroundFlush
  recorded,   \* events recorded so far; the n-th event is the number n
  buffer,     \* tc.events
  flushers,   \* goroutines `go tc.flush()' that did not run yet
  inFlight,   \* batches of the sendEvents goroutines that did not end yet
  delivered,  \* events the endpoint has got
  refused     \* events of requests that failed

vars == <<main, failed, background, recorded, buffer, flushers, inFlight, delivered, refused>>

TypeOK ==
  /\ main \in {"command", "stopping", "leaving", "gone"}
  /\ failed \in BOOLEAN
  /\ background \in {"looping", "done"}
  /\ recorded \in 0..MaxEvents
  /\ buffer \subseteq Events
  /\ flushers \in 0..MaxEvents
  /\ inFlight \subseteq (SUBSET Events) \ {{}}
  /\ delivered \subseteq Events
  /\ refused \subseteq Events

\* InitTelemetry; whether telemetry is enabled shows in the goroutine it starts.
Init ==
  /\ main = "command" /\ failed = FALSE
  /\ background \in {"looping", "done"}
  /\ recorded = 0 /\ flushers = 0
  /\ buffer = {} /\ inFlight = {} /\ delivered = {} /\ refused = {}

Alive == main # "gone"
-----------------------------------------------------------------------------
\* RecordCommand, RecordError, RecordPerformance; a disabled collector ignores them.
Record ==
  /\ main = "command" /\ background = "looping" /\ recorded < MaxEvents
  /\ recorded' = recorded + 1
  /\ buffer' = buffer \cup {recorded'}
  /\ flushers' = IF Cardinality(buffer') >= BatchSize THEN flushers + 1 ELSE flushers
  /\ UNCHANGED <<main, failed, background, inFlight, delivered, refused>>

\* Mutant of Flush: copies the buffer and empties it in two critical sections.
Flush_keeps ==
  /\ inFlight' = IF buffer = {} THEN inFlight ELSE inFlight \cup {buffer}
  /\ buffer' \in {buffer, {}}

\* Mutant of Flush: sends full batches only.
Flush_fullOnly ==
  IF Cardinality(buffer) < BatchSize
    THEN UNCHANGED <<buffer, inFlight>>
    ELSE buffer' = {} /\ inFlight' = inFlight \cup {buffer}

\* flush; the batch is handed to `go tc.sendEvents(events)'.
Flush ==
  IF buffer = {}
    THEN UNCHANGED <<buffer, inFlight>>
    ELSE buffer' = {} /\ inFlight' = inFlight \cup {buffer}

\* Mutant of FlushFull: the ticker's flush is taken for one of them.
FlushFull_unstarted ==
  /\ Alive /\ background = "looping"
  /\ flushers' = flushers - 1
  /\ Flush
  /\ UNCHANGED <<main, failed, background, recorded, delivered, refused>>

\* The goroutine started by recordEvent gets the mutex.
FlushFull ==
  /\ Alive /\ flushers > 0
  /\ flushers' = flushers - 1
  /\ Flush
  /\ UNCHANGED <<main, failed, background, recorded, delivered, refused>>

\* select: <-ticker.C
Tick ==
  /\ Alive /\ background = "looping"
  /\ Flush
  /\ UNCHANGED <<main, failed, background, recorded, flushers, delivered, refused>>

\* Mutant of StopBackground: the select has no case for stopChan.
StopBackground_never ==
  /\ Alive /\ background = "looping" /\ FALSE
  /\ UNCHANGED vars

\* select: <-tc.stopChan
StopBackground ==
  /\ Alive /\ background = "looping" /\ main = "stopping"
  /\ Flush
  /\ background' = "done"
  /\ UNCHANGED <<main, failed, recorded, flushers, delivered, refused>>

\* sendEvents: the endpoint answers, or the request fails, or is given up after 5 seconds.
Send(batch) ==
  /\ Alive /\ batch \in inFlight
  /\ inFlight' = inFlight \ {batch}
  /\ \/ delivered' = delivered \cup batch /\ UNCHANGED refused
     \/ refused' = refused \cup batch /\ UNCHANGED delivered
  /\ UNCHANGED <<main, failed, background, recorded, buffer, flushers>>

-----------------------------------------------------------------------------
\* commands.Execute returned nil: the deferred Shutdown closes stopChan ...
Succeed ==
  /\ main = "command"
  /\ main' = "stopping"
  /\ UNCHANGED <<failed, background, recorded, buffer, flushers, inFlight, delivered, refused>>

\* ... waits for the background goroutine and flushes.
ShutdownFlush ==
  /\ main = "stopping" /\ background = "done"
  /\ Flush
  /\ main' = "leaving"
  /\ UNCHANGED <<failed, background, recorded, flushers, delivered, refused>>

\* main returns.
Leave ==
  /\ main = "leaving"
  /\ main' = "gone"
  /\ UNCHANGED <<failed, background, recorded, buffer, flushers, inFlight, delivered, refused>>

\* commands.Execute returned an error: os.Exit(1) runs no deferred call.
Fail ==
  /\ main = "command"
  /\ main' = "gone" /\ failed' = TRUE
  /\ UNCHANGED <<background, recorded, buffer, flushers, inFlight, delivered, refused>>

Gone == main = "gone" /\ UNCHANGED vars

Next ==
  \/ Record \/ FlushFull \/ Tick \/ StopBackground
  \/ \E batch \in inFlight : Send(batch)
  \/ Succeed \/ ShutdownFlush \/ Leave \/ Fail \/ Gone

\* The scheduler runs every goroutine, the ticker keeps ticking and a request ends
\* within its timeout; nothing makes a command end.
Fairness ==
  /\ WF_vars(FlushFull) /\ WF_vars(Tick) /\ WF_vars(StopBackground)
  /\ WF_vars(ShutdownFlush) /\ WF_vars(Leave)
  /\ WF_vars(\E batch \in inFlight : Send(batch))

Spec == Init /\ [][Next]_vars
FairSpec == Spec /\ Fairness

-----------------------------------------------------------------------------
\* Every recorded event is in exactly one place: in the buffer, in one batch on its
\* way, delivered or refused; recordEvent and the three callers of flush neither lose
\* nor duplicate one.
OnePlace ==
  /\ buffer \cup (UNION inFlight) \cup delivered \cup refused = 1..recorded
  /\ \A b \in inFlight : b \cap (buffer \cup delivered \cup refused) = {}
  /\ \A b, c \in inFlight : b = c \/ b \cap c = {}
  /\ buffer \cap (delivered \cup refused) = {}
  /\ delivered \cap refused = {}

\* A command that succeeds leaves no event in the buffer when Shutdown has returned.
ShutdownEmpties == main \in {"leaving", "gone"} /\ ~failed => buffer = {}

\* An event does not stay in the buffer of a running CLI (the 30 seconds ticker).
BufferDrains == \A e \in Events : e \in buffer ~> (e \notin buffer \/ ~Alive)

\* Shutdown returns: wg.Wait waits for a goroutine that sees stopChan.
ShutdownReturns == main = "stopping" ~> ~Alive
=============================================================================
