------------------------------- MODULE Relay -------------------------------
(***************************************************************************)
(* What the daemon promises about data, whatever happens to descriptors,   *)
(* links and events: a chunk that was read from a node is only ever passed *)
(* on to the nodes configured to receive from it, while it is the newest   *)
(* one, and a bounded number of times.  Losing a chunk is allowed: the     *)
(* daemon keeps one buffer per node and empties it in every iteration.     *)
(*                                                                         *)
(* SerialProxy implements this specification (its property RelaySpec).     *)
(***************************************************************************)
EXTENDS Naturals, Sequences, FiniteSets

CONSTANTS Port,        \* the nodes
          NoPort,
          Source,      \* the node that each node receives from, or NoPort
          Copies       \* how often a node may be sent the same chunk

VARIABLES read,        \* chunks read from each node so far
          sent         \* the chunks sent to each node

relayVars == <<read, sent>>

Newest(p) == <<Source[p], read[Source[p]]>>

Times(p) == Cardinality({i \in DOMAIN sent[p] : sent[p][i] = Newest(p)})

Read(p) == /\ UNCHANGED sent
           /\ read' = [read EXCEPT ![p] = @ + 1]

Send(p) == /\ UNCHANGED read
           /\ Source[p] # NoPort
           /\ sent' = [sent EXCEPT ![p] = Append(@, Newest(p))]
           /\ read[Source[p]] > 0
           /\ Times(p) < Copies[p]

RelayInit == /\ read = [p \in Port |-> 0]
             /\ sent = [p \in Port |-> <<>>]

RelayNext == \E p \in Port : Read(p) \/ Send(p)

Promise == RelayInit /\ [][RelayNext]_relayVars
=============================================================================
