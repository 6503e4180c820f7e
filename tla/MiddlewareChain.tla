--------------------------- MODULE MiddlewareChain ---------------------------
(***************************************************************************)
(* One Execute of a chain of middlewares (v3/runtime/middleware.go; the    *)
(* chain of runtime/client/middleware.go has the same index).  All calls   *)
(* of next share one index, so that each of them goes one middleware       *)
(* further, whoever makes it.  TimeoutMiddleware runs the rest of the      *)
(* chain in a goroutine of its own and may leave it behind; that goroutine *)
(* and a RetryMiddleware outside it then use the index at the same time,   *)
(* without a lock.                                                         *)
(*                                                                         *)
(* Goroutine 0 calls Execute; the others are started by timeouts.  "pass"  *)
(* stands for the middlewares that call next once, logging and metrics.    *)
(***************************************************************************)
EXTENDS Integers, Sequences, FiniteSets, SequencesExt

CONSTANTS
  Chains,        \* the chains to choose from, sequences of "pass", "retry" and "timeout"
  MaxRetries,    \* the argument of RetryMiddleware
  MaxGoroutines  \* bound: goroutines that timeouts start

VARIABLES
  chain,    \* the middlewares
  index,    \* the next one
  pc,       \* what a goroutine does
  stack,    \* its middlewares that wait for next to return
  local,    \* the value of index it is incrementing
  context,  \* the timeouts its context is derived from, named by their goroutines
  done,     \* the timeouts that have expired or were cancelled
  channel,  \* the result in the channel of a timeout
  result,   \* the result a goroutine is returning
  runs,     \* calls of the handler
  panicked  \* an index was out of range, and the process is gone

vars == <<chain, index, pc, stack, local, context, done, channel, result, runs, panicked>>

Goroutines == 0..MaxGoroutines
Results == {"ok", "error", "not_found", "timeout"}
NotRetried == {"ok", "not_found"}

Cancelled(g) == context[g] \cap done # {}
Waiting(g) == pc[g] = "wait"
Child(g) == Last(stack[g]).child

Init ==
  /\ chain \in Chains
  /\ index = 0
  /\ pc = [g \in Goroutines |-> IF g = 0 THEN "call" ELSE "none"]
  /\ stack = [g \in Goroutines |-> <<>>]
  /\ local = [g \in Goroutines |-> 0]
  /\ context = [g \in Goroutines |-> {}]
  /\ done = {}
  /\ channel = [g \in Goroutines |-> "empty"]
  /\ result = [g \in Goroutines |-> "none"]
  /\ runs = 0
  /\ panicked = FALSE

Goto(g, label) == pc' = [pc EXCEPT ![g] = label]

\* Mutant of CallNext: off by one.
CallNext_offByOne(g) ==
  /\ pc[g] = "call"
  /\ IF index < Len(chain) - 1 THEN Goto(g, "fetch") /\ UNCHANGED runs
     ELSE Goto(g, "handler") /\ runs' = runs + 1
  /\ UNCHANGED <<chain, index, stack, local, context, done, channel, result, panicked>>

\* next: the test of the index; past the end it calls the handler.
CallNext(g) ==
  /\ pc[g] = "call"
  /\ IF index < Len(chain) THEN Goto(g, "fetch") /\ UNCHANGED runs
     ELSE Goto(g, "handler") /\ runs' = runs + 1
  /\ UNCHANGED <<chain, index, stack, local, context, done, channel, result, panicked>>

Fetch(g) ==
  /\ pc[g] = "fetch"
  /\ IF index < Len(chain)
     THEN /\ stack' = [stack EXCEPT ![g] = Append(@, [mw |-> index + 1, attempt |-> 0, child |-> 0])]
          /\ Goto(g, "read")
          /\ UNCHANGED panicked
     ELSE panicked' = TRUE /\ UNCHANGED <<pc, stack>>
  /\ UNCHANGED <<chain, index, local, context, done, channel, result, runs>>

\* index++ is a read and a write.
ReadIndex(g) ==
  /\ pc[g] = "read"
  /\ local' = [local EXCEPT ![g] = index]
  /\ Goto(g, "write")
  /\ UNCHANGED <<chain, index, stack, context, done, channel, result, runs, panicked>>

WriteIndex(g) ==
  /\ pc[g] = "write"
  /\ index' = local[g] + 1
  /\ Goto(g, IF chain[Last(stack[g]).mw] = "timeout" THEN "spawn" ELSE "call")
  /\ UNCHANGED <<chain, stack, local, context, done, channel, result, runs, panicked>>

\* The context the rest of the chain runs under.
SpawnContext(g, c) == context[g] \cup {c}

\* TimeoutMiddleware starts its goroutine.
Spawn(g) ==
  /\ pc[g] = "spawn"
  /\ \E c \in Goroutines :
       /\ pc[c] = "none" /\ \A d \in 1..(c - 1) : pc[d] # "none"
       /\ pc' = [pc EXCEPT ![g] = "wait", ![c] = "call"]
       /\ stack' = [stack EXCEPT ![g][Len(stack[g])].child = c]
       /\ context' = [context EXCEPT ![c] = SpawnContext(g, c)]
  /\ UNCHANGED <<chain, index, local, done, channel, result, runs, panicked>>

\* The middleware on top of the stack returns r to the one before it.
Leave(g, r) ==
  /\ stack' = [stack EXCEPT ![g] = Front(@)]
  /\ result' = [result EXCEPT ![g] = r]
  /\ Goto(g, "return")

\* The select of TimeoutMiddleware; the deferred cancel follows in either case.
Receive(g) ==
  /\ Waiting(g) /\ channel[Child(g)] # "empty"
  /\ channel' = [channel EXCEPT ![Child(g)] = "empty"]
  /\ done' = done \cup {Child(g)}
  /\ Leave(g, channel[Child(g)])
  /\ UNCHANGED <<chain, index, local, context, runs, panicked>>

GiveUp(g) ==
  /\ Waiting(g) /\ (Child(g) \in done \/ Cancelled(g))
  /\ done' = done \cup {Child(g)}
  /\ Leave(g, "timeout")
  /\ UNCHANGED <<chain, index, local, context, channel, runs, panicked>>

\* The deadline of a timeout.
Expire(c) ==
  /\ pc[c] # "none" /\ c # 0 /\ c \notin done
  /\ done' = done \cup {c}
  /\ UNCHANGED <<chain, index, pc, stack, local, context, channel, result, runs, panicked>>

\* The handler returns; one whose context is done may notice it.
HandlerReturns(g) ==
  /\ pc[g] = "handler"
  /\ \E r \in Results :
       /\ r = "timeout" => Cancelled(g)
       /\ result' = [result EXCEPT ![g] = r]
  /\ Goto(g, "return")
  /\ UNCHANGED <<chain, index, stack, local, context, done, channel, runs, panicked>>

\* RetryMiddleware goes round its loop once more.
TriesAgain(g) ==
  /\ chain[Last(stack[g]).mw] = "retry"
  /\ result[g] \notin NotRetried
  /\ Last(stack[g]).attempt < MaxRetries

\* next has returned to the middleware that called it.
Return(g) ==
  /\ pc[g] = "return" /\ stack[g] # <<>>
  /\ IF TriesAgain(g)
     THEN /\ stack' = [stack EXCEPT ![g][Len(stack[g])].attempt = @ + 1]
          /\ Goto(g, "call")
          /\ UNCHANGED result
     ELSE Leave(g, result[g])
  /\ UNCHANGED <<chain, index, local, context, done, channel, runs, panicked>>

\* Mutant of CanSend: a channel without room.
CanSend_unbuffered(g) == \E p \in Goroutines : Waiting(p) /\ Child(p) = g

\* The channel of a timeout has room for its only result.
CanSend(g) == channel[g] = "empty"

End(g) ==
  /\ pc[g] = "return" /\ stack[g] = <<>>
  /\ g # 0 => CanSend(g)
  /\ channel' = IF g = 0 THEN channel ELSE [channel EXCEPT ![g] = result[g]]
  /\ Goto(g, "ended")
  /\ UNCHANGED <<chain, index, stack, local, context, done, result, runs, panicked>>

Step(g) ==
  \/ CallNext(g) \/ Fetch(g) \/ ReadIndex(g) \/ WriteIndex(g) \/ Spawn(g)
  \/ Receive(g) \/ GiveUp(g) \/ Return(g) \/ End(g)

Next ==
  /\ ~panicked
  /\ \E g \in Goroutines : Step(g) \/ Expire(g) \/ HandlerReturns(g)

Proceeds(g) == ~panicked /\ Step(g)
TimePasses(g) == ~panicked /\ Expire(g)
HandlerGivesUp(g) == ~panicked /\ Cancelled(g) /\ HandlerReturns(g)

\* Goroutines run, and time passes.  A handler may hang, but gives up when its
\* context is done, as the drivers of database/sql do.
Fairness ==
  \A g \in Goroutines :
    WF_vars(Proceeds(g)) /\ WF_vars(TimePasses(g)) /\ WF_vars(HandlerGivesUp(g))

Spec == Init /\ [][Next]_vars /\ Fairness

-----------------------------------------------------------------------------
\* Type correctness.
TypeOK ==
  /\ chain \in Chains
  /\ index \in Nat
  /\ pc \in [Goroutines -> {"none", "call", "fetch", "read", "write", "spawn", "wait", "handler", "return", "ended"}]
  /\ \A g \in Goroutines : \A i \in DOMAIN stack[g] :
       stack[g][i] \in [mw : DOMAIN chain, attempt : 0..MaxRetries, child : Goroutines]
  /\ context \in [Goroutines -> SUBSET Goroutines]
  /\ done \subseteq Goroutines
  /\ channel \in [Goroutines -> Results \cup {"empty"}]
  /\ result \in [Goroutines -> Results \cup {"none"}]

\* A retry outside a timeout goes on with the index while the goroutine the timeout
\* left behind still uses it.
SharesIndex == \E i \in DOMAIN chain : \E j \in (i + 1)..Len(chain) :
                 chain[i] = "retry" /\ chain[j] = "timeout"

\* Every middleware is entered once.  The first call of the handler comes when all of them
\* have been; every later one is made by a retry itself, which tries again past the
\* middlewares inside it, so that they see nothing of that attempt.  Nested retries
\* therefore add attempts, and do not multiply them, two handlers of one Execute never
\* run at once, and no index leaves the chain.
EnteredOnce ==
  ~SharesIndex =>
    /\ runs > 0 => index = Len(chain)
    /\ \A g \in Goroutines : pc[g] = "handler" /\ runs > 1 =>
         stack[g] # <<>> /\ chain[Last(stack[g]).mw] = "retry" /\ Last(stack[g]).attempt > 0
    /\ runs <= 1 + MaxRetries * Cardinality({i \in DOMAIN chain : chain[i] = "retry"})
    /\ Cardinality({g \in Goroutines : pc[g] = "handler"}) <= 1
    /\ ~panicked

\* Behind an outermost timeout Execute returns, even if the handler hangs, and whenever
\* Execute has returned the goroutines that timeouts have left behind end.
GoroutinesEnd ==
  (pc[0] = "ended" \/ (chain # <<>> /\ chain[1] = "timeout")) ~>
    (panicked \/ \A g \in Goroutines : pc[g] = "ended" \/ (g # 0 /\ pc[g] = "none"))
=============================================================================
