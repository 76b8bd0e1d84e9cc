----------------------------- MODULE Deliveries -----------------------------
(***************************************************************************)
(* The surroundings of a checkpointer on its own: the events that the loop *)
(* takes and produces, and the delivery reports that poll and flush serve. *)
(* An event may come again, and then it is produced and reported again.    *)
(***************************************************************************)
EXTENDS Integers

CONSTANTS
  MaxCursor,       \* cursors are 1..MaxCursor
  MaxDeliveries    \* how often one of them is delivered at most (a bound)

ASSUME DeliveriesAssumption == MaxCursor \in Nat /\ MaxDeliveries \in Nat

VARIABLES
  delivered,       \* how often each cursor was registered and produced
  inFlight,        \* for how many of these no report has been served
  confirmed        \* auxiliary: the cursors with a success among the reports

history == <<delivered, inFlight, confirmed>>

Cursor == 1..MaxCursor

registered == { c \in Cursor : delivered[c] > 0 }

HistoryTypeOK ==
  /\ delivered \in [Cursor -> 0..MaxDeliveries]
  /\ inFlight \in [Cursor -> 0..MaxDeliveries]
  /\ \A c \in Cursor : inFlight[c] <= delivered[c]
  /\ confirmed \subseteq registered

HistoryInit ==
  /\ delivered = [c \in Cursor |-> 0]
  /\ inFlight = [c \in Cursor |-> 0]
  /\ confirmed = {}

\* The client delivers in the order of the stream, and a reconnect begins after
\* the latest cursor or, if the server replays inclusively, with it.
Deliver(c) ==
  /\ \A r \in registered : r <= c
  /\ delivered[c] < MaxDeliveries
  /\ delivered' = [delivered EXCEPT ![c] = @ + 1]
  /\ inFlight' = [inFlight EXCEPT ![c] = @ + 1]
  /\ UNCHANGED confirmed

\* The report of one delivery of c is served.
ServeReport(c, success) ==
  /\ inFlight[c] > 0
  /\ inFlight' = [inFlight EXCEPT ![c] = @ - 1]
  /\ confirmed' = IF success THEN confirmed \cup {c} ELSE confirmed
  /\ UNCHANGED delivered

-----------------------------------------------------------------------------
\* The longest run of registered cursors that all have been confirmed.
AckedPrefix == { c \in registered : \A r \in registered : r <= c => r \in confirmed }

\* The cursors whose deliveries have all failed and that do not come again, for
\* a later one has been delivered.
GivenUp ==
  { c \in registered \ confirmed : inFlight[c] = 0 /\ \E r \in registered : c < r }
=============================================================================
