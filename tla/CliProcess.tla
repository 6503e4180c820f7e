------------------------------ MODULE CliProcess ------------------------------
(***************************************************************************)
(* One process of the CLI (cli/main.go): the collector of telemetry beside *)
(* the command.  `migrate dev' records events; `generate --watch' records  *)
(* none and lasts until it is interrupted, with the collector's ticker     *)
(* beside it.                                                              *)
(***************************************************************************)
EXTENDS Telemetry

CONSTANTS SavesByRename, MaxSaves \* of SchemaWatch

ASSUME SavesAssumption == SavesByRename \in BOOLEAN /\ MaxSaves \in Nat \ {0}

VARIABLES
  watching, \* the command is `generate --watch'
  phase, callback, file, seen, models, client, reported, events, timer, armed

W == INSTANCE SchemaWatch

watchVars == <<phase, callback, file, seen, models, client, reported, events, timer, armed>>
processVars == <<vars, watching, watchVars>>

ProcessInit ==
  /\ Init
  /\ \/ watching = TRUE /\ W!Init
     \/ /\ watching = FALSE
        /\ phase = "gone" /\ callback = "none" /\ file = 1
        /\ seen = 0 /\ models = 0 /\ client = 0 /\ reported = 0
        /\ events = 0 /\ timer = "off" /\ armed = FALSE

\* A watch records nothing, and main waits for it; the goroutines of the collector do not.
CollectorStep ==
  /\ Next
  /\ watching => UNCHANGED recorded
  /\ phase # "gone" => UNCHANGED main
  /\ UNCHANGED <<watching, watchVars>>

\* An interrupted watch returns to main, one that cannot start with an error.
WatchStep == Alive /\ W!Next /\ UNCHANGED <<vars, watching>>

ProcessNext == CollectorStep \/ WatchStep

ProcessSpec ==
  /\ ProcessInit /\ [][ProcessNext]_processVars
  /\ Fairness /\ W!Fairness

-----------------------------------------------------------------------------
\* SchemaWatch: what the schema holds is generated or reported, beside a collector too.
LastSaveGenerated == W!LastSaveGenerated
=============================================================================
