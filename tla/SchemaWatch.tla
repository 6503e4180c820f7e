---------------------------- MODULE SchemaWatch ----------------------------
(***************************************************************************)
(* `prisma-go generate --watch': runGenerateWatch of                       *)
(* cli/commands/generate.go with the Watcher of cli/internal/watch, whose  *)
(* goroutine collects the write events of the schema, waits until they     *)
(* pause for 500 ms and generates the client from what the file holds by   *)
(* then.  An editor saves at any moment, also while a client is generated. *)
(***************************************************************************)
EXTENDS Naturals

CONSTANTS
  SavesByRename, \* the editor writes another file and renames it to the schema
  MaxSaves       \* bound: contents the schema file takes, partial ones included

VARIABLES
  phase,    \* "first" callback, "attach", "start" callback, "loop" or "gone"
  callback, \* "none", or what the callback does next: "read", "models" or "client"
  file,     \* the content of the schema file, numbered by the saves
  seen,     \* the content the callback has read
  models,   \* the content models.go was generated from; 0: an earlier run's
  client,   \* the content client.go was generated from
  reported, \* the last content a callback failed on
  events,   \* Write events of the schema file that nobody took from the channel
  timer,    \* debounceTimer: "off", "running" or "fired"
  armed     \* debounceCh # nil

vars == <<phase, callback, file, seen, models, client, reported, events, timer, armed>>

\* --watch-only skips the first call of the callback.
Init ==
  /\ \/ phase = "attach" /\ callback = "none"
     \/ phase = "first" /\ callback = "read"
  /\ file = 1
  /\ seen = 0 /\ models = 0 /\ client = 0 /\ reported = 0
  /\ events = 0 /\ timer = "off" /\ armed = FALSE

Attached == phase \in {"start", "loop"}
-----------------------------------------------------------------------------
\* Only events with the Write bit count, and a rename has none.
Save ==
  /\ phase # "gone" /\ file < MaxSaves
  /\ file' = file + 1
  /\ events' = IF Attached /\ ~SavesByRename THEN events + 1 ELSE events
  /\ UNCHANGED <<phase, callback, seen, models, client, reported, timer, armed>>

\* NewWatcher watches the directory, then Start calls the callback.
Attach ==
  /\ phase = "attach"
  /\ phase' = "start" /\ callback' = "read"
  /\ UNCHANGED <<file, seen, models, client, reported, events, timer, armed>>

\* The callback has ended; the loop forgets the debounce channel.
Return(ok) ==
  /\ callback' = "none"
  /\ phase' = CASE phase = "loop" -> "loop"
                [] ~ok -> "gone"
                [] phase = "first" -> "attach"
                [] phase = "start" -> "loop"
  /\ armed' = FALSE

ReadSchema ==
  /\ callback = "read" /\ phase # "gone"
  /\ seen' = file
  /\ callback' = "models"
  /\ UNCHANGED <<phase, file, models, client, reported, events, timer, armed>>

WriteModels ==
  /\ callback = "models" /\ phase # "gone"
  /\ models' = seen
  /\ callback' = "client"
  /\ UNCHANGED <<phase, file, seen, client, reported, events, timer, armed>>

\* Mutant of WriteClient: drops the events that came while the client was generated.
WriteClient_drains ==
  /\ callback = "client" /\ phase # "gone"
  /\ client' = seen
  /\ events' = 0
  /\ Return(TRUE)
  /\ UNCHANGED <<file, seen, models, reported, timer>>

WriteClient ==
  /\ callback = "client" /\ phase # "gone"
  /\ client' = seen
  /\ Return(TRUE)
  /\ UNCHANGED <<file, seen, models, reported, events, timer>>

\* The schema cannot be read or is not valid, or a file cannot be written.
GenerateFails ==
  /\ callback # "none" /\ phase # "gone"
  /\ reported' = IF callback = "read" THEN file ELSE seen
  /\ Return(FALSE)
  /\ UNCHANGED <<file, seen, models, client, events, timer>>

-----------------------------------------------------------------------------
InLoop == phase = "loop" /\ callback = "none"

\* select: event := <-w.watcher.Events.  Reset drops a tick nobody received.
TakeEvent ==
  /\ InLoop /\ events > 0
  /\ events' = events - 1
  /\ timer' = "running" /\ armed' = TRUE
  /\ UNCHANGED <<phase, callback, file, seen, models, client, reported>>

TimerFires ==
  /\ timer = "running" /\ phase # "gone"
  /\ timer' = "fired"
  /\ UNCHANGED <<phase, callback, file, seen, models, client, reported, events, armed>>

\* select: <-debounceCh
Debounced ==
  /\ InLoop /\ armed /\ timer = "fired"
  /\ timer' = "off" /\ callback' = "read"
  /\ UNCHANGED <<phase, file, seen, models, client, reported, events, armed>>

\* Ctrl-C: main returns and takes the goroutine with it, wherever that is.
Interrupt ==
  /\ phase # "gone"
  /\ phase' = "gone"
  /\ UNCHANGED <<callback, file, seen, models, client, reported, events, timer, armed>>

Gone == phase = "gone" /\ UNCHANGED vars

Next ==
  \/ Save \/ Attach \/ ReadSchema \/ WriteModels \/ WriteClient \/ GenerateFails
  \/ TakeEvent \/ TimerFires \/ Debounced \/ Interrupt \/ Gone

\* The CLI is scheduled, its timer fires and a callback ends.  A select with two ready
\* cases chooses at random, so a fired debounce is not passed over for ever.
Fairness ==
  /\ WF_vars(Attach) /\ WF_vars(ReadSchema) /\ WF_vars(WriteModels) /\ WF_vars(WriteClient)
  /\ WF_vars(TakeEvent) /\ WF_vars(TimerFires) /\ SF_vars(Debounced)

Spec == Init /\ [][Next]_vars
FairSpec == Spec /\ Fairness

-----------------------------------------------------------------------------
\* What the schema file holds is generated or reported as an error, unless it is
\* overwritten or the watch ends: no save is missed, neither between the initial
\* generation and the watch nor while a client is generated.
LastSaveGenerated ==
  \A v \in 1..MaxSaves :
    file = v ~> \/ models = v /\ client = v
                \/ reported = v
                \/ file # v
                \/ phase = "gone"
=============================================================================
