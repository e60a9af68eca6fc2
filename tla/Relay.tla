-------------------------------- MODULE Relay --------------------------------
(***************************************************************************)
(* What a session promises about the client's messages, whichever backend  *)
(* connections it goes through: a message reaches at most one connection,  *)
(* once, and each connection sees the messages in the client's order.      *)
(* Nothing says that every message arrives.                                *)
(***************************************************************************)
EXTENDS Naturals, Sequences

CONSTANTS NumMsgs, Conns

VARIABLES
  accepted,   \* messages taken from the client
  delivered   \* per connection, the messages its backend received

Init == accepted = 0 /\ delivered = [c \in Conns |-> <<>>]

Accept ==
  /\ accepted < NumMsgs
  /\ accepted' = accepted + 1
  /\ UNCHANGED delivered

Deliver(c, n) ==
  /\ \A d \in Conns : \A i \in DOMAIN delivered[d] : delivered[d][i] # n
  /\ \A i \in DOMAIN delivered[c] : delivered[c][i] < n
  /\ delivered' = [delivered EXCEPT ![c] = Append(@, n)]
  /\ UNCHANGED accepted

Next == Accept \/ \E c \in Conns, n \in 1..accepted : Deliver(c, n)

Spec == Init /\ [][Next]_<<accepted, delivered>>

=============================================================================
