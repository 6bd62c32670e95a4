------------------------ MODULE LatestValueDelivery ------------------------
(***************************************************************************)
(* What a delta connection promises a client that may be slower than the   *)
(* sources: it may skip intermediate values, but whenever it is handed any *)
(* it is handed the newest of every key, and it never goes back.  (docs:   *)
(* "Values are correct - the delta contains the latest values, only        *)
(* intermediate updates were dropped".)  What is handed over at once may   *)
(* be several messages, one for each context.                              *)
(*                                                                         *)
(* A key stands for one context:path:$source combination and a value for   *)
(* its position in the order in which the source published it.             *)
(***************************************************************************)
EXTENDS Naturals

CONSTANT Keys      \* the context:path:$source combinations the client reads

VARIABLES
  latest,          \* [Keys -> Nat]: the newest value published for each key
  delivered,       \* [Keys -> Nat]: the newest value handed to the client
  open             \* the connection still accepts writes

vars == <<latest, delivered, open>>

Init ==
  /\ latest = [k \in Keys |-> 0]
  /\ delivered = [k \in Keys |-> 0]
  /\ open = TRUE

\* Sources publish the next value of the keys in S.
Advance(S) == latest' = [k \in Keys |-> IF k \in S THEN latest[k] + 1 ELSE latest[k]]

\* The client falls behind: values are published and not handed over.
Publish ==
  /\ \E S \in SUBSET Keys : Advance(S)
  /\ UNCHANGED <<delivered, open>>

\* The client is brought up to date, by messages that are written in one go.
Synchronise ==
  /\ open
  /\ \E S \in SUBSET Keys : Advance(S)
  /\ delivered' = latest'
  /\ open' \in BOOLEAN

Disconnect ==
  /\ open' = FALSE
  /\ \E S \in SUBSET Keys : Advance(S)
  /\ UNCHANGED delivered

Next == Publish \/ Synchronise \/ Disconnect

Spec == Init /\ [][Next]_vars
=============================================================================
