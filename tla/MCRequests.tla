----------------------------- MODULE MCRequests -----------------------------
(* Instances of Requests for TLC.                                          *)
EXTENDS Requests

\* Requesters choose distinct identifiers, as with the uuids the server uses.
UniqueIds == [a \in Attempts |-> a]
=============================================================================
