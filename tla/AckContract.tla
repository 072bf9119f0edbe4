---------------------------- MODULE AckContract ----------------------------
(***************************************************************************)
(* What the shipper promises the clients of its gRPC endpoint about the    *)
(* indices it hands out, without queues, batches or outputs.               *)
(*                                                                         *)
(* Every accepted event gets the next index of the current generation of   *)
(* indices.  An event is concluded when an output has sent it or has given *)
(* it up.  The persisted index only ever advances over concluded events,   *)
(* and skips none.  Replacing the queue starts a new generation: indices   *)
(* begin at zero again and whatever was not concluded is gone.             *)
(***************************************************************************)
EXTENDS Naturals

VARIABLES
  generation,   \* which queue the indices belong to
  accepted,     \* number of events accepted in this generation
  concluded,    \* indices whose event was sent or discarded
  persisted     \* the index PersistedIndex reports

contractVars == <<generation, accepted, concluded, persisted>>

Init ==
  /\ generation = 0
  /\ accepted = 0
  /\ concluded = {}
  /\ persisted = 0

Accept ==
  /\ accepted' = accepted + 1
  /\ UNCHANGED <<generation, concluded, persisted>>

Conclude(id) ==
  /\ id < accepted
  /\ id \notin concluded
  /\ concluded' = concluded \cup {id}
  /\ UNCHANGED <<generation, accepted, persisted>>

Persist(index) ==
  /\ persisted < index
  /\ \A id \in 0..(index - 1) : id \in concluded
  /\ persisted' = index
  /\ UNCHANGED <<generation, accepted, concluded>>

NewGeneration ==
  /\ generation' = generation + 1
  /\ accepted' = 0
  /\ concluded' = {}
  /\ persisted' = 0

Next ==
  \/ Accept
  \/ \E id \in 0..(accepted - 1) : Conclude(id)
  \/ \E index \in 1..accepted : Persist(index)
  \/ NewGeneration

Spec == Init /\ [][Next]_contractVars

-----------------------------------------------------------------------------
(* What a client may conclude from the contract alone *)

\* An index below the persisted one was handed out, and its event has been sent
\* or given up: a client that forgets such an event loses nothing.
PersistedIsSound ==
  /\ generation \in Nat /\ persisted \in Nat /\ accepted \in Nat
  /\ persisted <= accepted
  /\ concluded \subseteq 0..(accepted - 1)
  /\ 0..(persisted - 1) \subseteq concluded

\* What was reported stays true as long as the indices mean the same events.
NothingIsTakenBack ==
  [][generation' = generation =>
       /\ accepted <= accepted'
       /\ persisted <= persisted'
       /\ concluded \subseteq concluded']_contractVars
=============================================================================
