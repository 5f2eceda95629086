------------------------------ MODULE Channels ------------------------------
(***************************************************************************)
(* What the network between the schedulers and the cores promises: a FIFO  *)
(* channel between every two nodes.  In one tick every source hands over   *)
(* at most one update and every destination receives at most one, the      *)
(* oldest one some source has under way to it.  Nothing is lost, invented, *)
(* duplicated or overtaken by a later update of the same source to the     *)
(* same destination.                                                       *)
(***************************************************************************)
EXTENDS Sequences

CONSTANTS Node, None

VARIABLES
  offered,    \* offered[s]: the update s hands over in this tick, or None
  inflight,   \* inflight[s][d]: updates from s to d not received yet
  delivered   \* delivered[d]: the update d receives in this tick, or None

channelVars == <<offered, inflight, delivered>>

ChannelInit ==
  /\ offered = [s \in Node |-> None]
  /\ inflight = [s \in Node |-> [d \in Node |-> <<>>]]
  /\ delivered = [d \in Node |-> None]

(* d receives the oldest update s has sent it.                             *)
Receive(s, d) ==
  /\ inflight[s][d] # <<>>
  /\ delivered'[d] = Head(inflight[s][d])

(* What is left of the channel, and what is added to it.                   *)
Channel(s, d) ==
  LET left == IF delivered'[d] # None /\ delivered'[d].from = s
              THEN Tail(inflight[s][d]) ELSE inflight[s][d]
  IN inflight'[s][d] = IF offered'[s] # None /\ offered'[s].to = d
                       THEN Append(left, offered'[s]) ELSE left

ChannelNext ==
  /\ \A d \in Node : delivered'[d] # None => \E s \in Node : Receive(s, d)
  /\ \A s \in Node : \A d \in Node : Channel(s, d)

ChannelSpec == ChannelInit /\ [][ChannelNext]_channelVars
=============================================================================
