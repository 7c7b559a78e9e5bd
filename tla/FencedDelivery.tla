---------------------------- MODULE FencedDelivery ----------------------------
(***************************************************************************)
(* What the ingestion queue promises about one job, whatever its workers   *)
(* do: the job is handed out at most Limit times; each hand-out fences off *)
(* the one before it; the result of a hand-out is stored at most once, and *)
(* only while that hand-out is the newest one.  It does not promise that a *)
(* job is stored at most once: two hand-outs may each store.               *)
(***************************************************************************)
EXTENDS Naturals

CONSTANTS
  Tasks,   \* what is handed out
  Limit    \* how many times a task may be handed out

VARIABLES
  given,   \* given[t]: number of the newest hand-out of t, 0 if none
  live,    \* live[t]: may the newest hand-out of t still store?
  stored   \* stored[t][n]: how often hand-out n of t has stored

vars == <<given, live, stored>>

Init ==
  /\ given = [t \in Tasks |-> 0]
  /\ live = [t \in Tasks |-> FALSE]
  /\ stored = [t \in Tasks |-> [n \in 1..Limit |-> 0]]

\* Hand t out once more; whoever held it can no longer store.
Deliver(t) ==
  /\ given[t] < Limit
  /\ given' = [given EXCEPT ![t] = @ + 1]
  /\ live' = [live EXCEPT ![t] = TRUE]
  /\ UNCHANGED stored

\* The newest holder stores the result.
Store(t) ==
  /\ live[t]
  /\ stored[t][given[t]] = 0
  /\ stored' = [stored EXCEPT ![t][given[t]] = 1]
  /\ live' = [live EXCEPT ![t] = FALSE]
  /\ UNCHANGED given

\* The newest holder fails, gives up or dies.
Abandon(t) ==
  /\ live[t]
  /\ live' = [live EXCEPT ![t] = FALSE]
  /\ UNCHANGED <<given, stored>>

Next == \E t \in Tasks : Deliver(t) \/ Store(t) \/ Abandon(t)

Spec == Init /\ [][Next]_vars
===============================================================================
