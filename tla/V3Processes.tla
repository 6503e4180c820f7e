----------------------------- MODULE V3Processes -----------------------------
(***************************************************************************)
(* The processes of v3: commands of the CLI that migrate (MigrationService)*)
(* and applications that use the runtime, whose goroutines share a client  *)
(* (RuntimeClient), or that send one operation through a chain of          *)
(* middlewares (MiddlewareChain).  The runtime keeps no state across these *)
(* and reads no history, so that one behaviour follows one of the three.   *)
(***************************************************************************)
EXTENDS MigrationService, Sequences

CONSTANTS Callers, PoolSize, BatchSize, MaxCalls, MaxPools,
          Chains, MaxRetries, MaxGoroutines

ASSUME RuntimeAssumption ==
  /\ IsFiniteSet(Callers) /\ MaxCalls \in Nat /\ MaxPools \in Nat
  /\ PoolSize \in Nat \ {0} /\ BatchSize \in Nat \ {0}
  /\ <<>> \in Chains /\ Chains \subseteq Seq({"pass", "retry", "timeout"})
  /\ MaxRetries \in Nat /\ MaxGoroutines \in Nat

VARIABLES
  running,  \* "migrate", "client" or "chain"
  timeout, connected, db, opened, caller, call, pool, sent, rowsOpen, cancelled, answer, stored, calls,
  chain, index, step, stack, local, context, done, channel, result, runs, panicked

Client == INSTANCE RuntimeClient WITH pc <- caller
Chain == INSTANCE MiddlewareChain WITH pc <- step

clientVars == <<timeout, connected, db, opened, caller, call, pool, sent, rowsOpen, cancelled,
                answer, stored, calls>>
chainVars == <<chain, index, step, stack, local, context, done, channel, result, runs, panicked>>
v3Vars == <<vars, running, clientVars, chainVars>>

NoClient ==
  /\ timeout = TRUE /\ connected = FALSE /\ db = 0 /\ opened = MaxPools
  /\ caller = [g \in Callers |-> "idle"] /\ call = [g \in Callers |-> "exec"]
  /\ pool = [g \in Callers |-> 0] /\ sent = [g \in Callers |-> 0]
  /\ rowsOpen = [g \in Callers |-> FALSE] /\ cancelled = [g \in Callers |-> FALSE]
  /\ answer = [g \in Callers |-> "none"] /\ stored = [g \in Callers |-> 0]
  /\ calls = MaxCalls

NoChain ==
  LET all == 0..MaxGoroutines
  IN  /\ chain = <<>> /\ index = 0
      /\ step = [g \in all |-> "ended"] /\ stack = [g \in all |-> <<>>]
      /\ local = [g \in all |-> 0] /\ context = [g \in all |-> {}] /\ done = all \ {0}
      /\ channel = [g \in all |-> "empty"] /\ result = [g \in all |-> "none"]
      /\ runs = 0 /\ panicked = FALSE

V3Init ==
  /\ Init
  /\ \/ running = "migrate" /\ NoClient /\ NoChain
     \/ running = "client" /\ Client!Init /\ NoChain
     \/ running = "chain" /\ NoClient /\ Chain!Init

V3Next ==
  /\ \/ running = "migrate" /\ Next /\ UNCHANGED <<clientVars, chainVars>>
     \/ running = "client" /\ Client!Next /\ UNCHANGED <<vars, chainVars>>
     \/ running = "chain" /\ Chain!Next /\ UNCHANGED <<vars, clientVars>>
  /\ UNCHANGED running

\* The fairness of the three, each for the behaviours that follow it.
V3Fairness ==
  /\ Fairness
  /\ \A g \in Callers :
       /\ SF_clientVars(running = "client" /\ Client!Proceed(g))
       /\ WF_clientVars(running = "client" /\ Client!CancelledRows(g))
  /\ \A g \in 0..MaxGoroutines :
       /\ WF_chainVars(running = "chain" /\ Chain!Proceeds(g))
       /\ WF_chainVars(running = "chain" /\ Chain!TimePasses(g))
       /\ WF_chainVars(running = "chain" /\ Chain!HandlerGivesUp(g))

V3Spec == V3Init /\ [][V3Next]_v3Vars /\ V3Fairness

-----------------------------------------------------------------------------
\* Type correctness of the three, with the limit of the pool.
V3TypeOK == TypeOK /\ Client!TypeOK /\ Chain!TypeOK

\* RuntimeClient: calls that fail store nothing, batches everything or nothing.
AllOrNothing == Client!AllOrNothing

\* RuntimeClient: under a query timeout connections come back to the pool.
ConnectionsReturn == Client!ConnectionsReturn

\* MiddlewareChain: every middleware is entered once, and a later attempt of a retry passes
\* over those inside it; retries add up, and no two handlers run at once.
EnteredOnce == Chain!EnteredOnce

\* MiddlewareChain: the goroutines of timeouts end.
GoroutinesEnd == Chain!GoroutinesEnd
=============================================================================
