------------------------- MODULE NestedTransactions -------------------------
(***************************************************************************)
(* What transactions within transactions promise.  Every level that        *)
(* returns an error has its work undone, now or, once the transaction is   *)
(* doomed, by the level around it; the work of the others is committed     *)
(* together when the outermost level returns without one.  Two errors say  *)
(* less: a level whose own context is over may leave its work to the level *)
(* around, and where the commit itself fails either may be the case.       *)
(***************************************************************************)
EXTENDS Naturals, Sequences

CONSTANT Works

VARIABLES
  committed, \* the work in the database
  current,   \* the work as the transaction sees it
  levels,    \* what it saw when each open level began, outermost first
  voided,    \* the database has ended the transaction by itself: nothing is promised
  doomed,    \* nothing of the innermost level can be kept any more
  expired,   \* the context of the innermost level is over: up to its caller
  outcome    \* of the level that ended last: "none", "ok", "error" or "unsure"

vars == <<committed, current, levels, doomed, expired, voided, outcome>>

Init ==
  /\ committed = {} /\ current = {}
  /\ levels = <<>>
  /\ doomed = FALSE /\ expired = FALSE /\ voided = FALSE
  /\ outcome = "none"

Innermost == levels[Len(levels)]
Outer == SubSeq(levels, 1, Len(levels) - 1)

Begin ==
  /\ levels = <<>>
  /\ levels' = <<committed>> /\ current' = committed
  /\ doomed' = FALSE /\ outcome' = "none"
  /\ UNCHANGED committed

Work(w) ==
  /\ levels # <<>> /\ ~doomed
  /\ current' = current \cup {w}
  /\ UNCHANGED <<committed, levels, doomed, outcome>>

Doom ==
  /\ levels # <<>>
  /\ doomed' = TRUE
  /\ UNCHANGED <<committed, current, levels, outcome>>

Expire == UNCHANGED <<committed, current, levels, doomed, outcome>>

Open ==
  /\ levels # <<>> /\ ~doomed
  /\ levels' = Append(levels, current)
  /\ UNCHANGED <<committed, current, doomed, outcome>>

Keep ==
  /\ Len(levels) > 1 /\ ~doomed
  /\ levels' = Outer /\ outcome' = "ok"
  /\ UNCHANGED <<committed, current, doomed>>

Undo ==
  /\ Len(levels) > 1
  /\ levels' = Outer /\ current' = Innermost
  /\ doomed' = FALSE /\ outcome' = "error"
  /\ UNCHANGED committed

\* The level cannot even be undone by itself: what it did goes with the one around it.
GiveUp ==
  /\ Len(levels) > 1 /\ (doomed \/ expired)
  /\ levels' = Outer /\ outcome' = "error"
  /\ UNCHANGED <<committed, current, doomed>>

Commit ==
  /\ Len(levels) = 1 /\ ~doomed
  /\ committed' = current
  /\ levels' = <<>> /\ outcome' = "ok"
  /\ UNCHANGED <<current, doomed>>

Abort ==
  /\ Len(levels) = 1
  /\ levels' = <<>> /\ outcome' = "error"
  /\ current' = committed /\ doomed' = FALSE
  /\ UNCHANGED committed

\* The commit fails, and may have taken effect all the same.
CommitFails ==
  /\ Len(levels) = 1
  /\ levels' = <<>> /\ outcome' = "unsure"
  /\ committed' \in {committed} \cup (IF doomed THEN {} ELSE {current})
  /\ current' = committed' /\ doomed' = FALSE

Promised ==
  \/ Begin \/ Doom \/ Expire \/ Open \/ Keep \/ Undo \/ GiveUp
  \/ Commit \/ CommitFails \/ Abort
  \/ \E w \in Works : Work(w)

Next == voided' \/ (~voided' /\ Promised)

Spec == Init /\ [][Next]_vars
=============================================================================
