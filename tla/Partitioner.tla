---------------------------- MODULE Partitioner ----------------------------
(***************************************************************************)
(* output/kafka/partition.go: the partitioner of a topic.  The goroutine   *)
(* of sarama that has the topic calls it for one message at a time, with   *)
(* the number of partitions there are now: those of the topic, to which    *)
(* Kafka may add, or with reachable_only those that have a leader, which   *)
(* come and go.  MaxInt32 is that of the code, or any other.               *)
(***************************************************************************)
EXTENDS Integers, FiniteSets

CONSTANTS
  MaxInt32,        \* the largest int32; the largest uint32 is 2 * MaxInt32 + 1
  MaxPartitions,   \* bound: partitions of the topic
  MaxGroup,        \* bound: group_events
  MaxRound,        \* bound: messages to a partition before their number changes
  Keys,            \* keys of messages, or values of the fields to hash
  HashValues,      \* values of the 32 bit FNV hash
  Nil              \* no key; a field that is missing or cannot be hashed

ASSUME PartitionerAssumption ==
  /\ MaxInt32 \in Nat
  /\ MaxPartitions \in 1..MaxInt32
  /\ MaxGroup \in Nat \ {0}
  /\ MaxRound \in Nat
  /\ HashValues \subseteq 0..(2 * MaxInt32 + 1)
  /\ Nil \notin Keys

VARIABLES
  strategy,        \* [name, group, dropFail, reachable]
  count,           \* messages of the current group
  partition,       \* the partition of the current group
  partitions,      \* MessagePartitioner.partitions: number seen last
  numPartitions,   \* the number of partitions there are
  sum32,           \* the FNV hash of every key
  msg,             \* the message in hand: key, hash, partition
  start,           \* history: the first value of partition
  begun,           \* history: the number of partitions the group began with
  answer,          \* history: the partition returned last, and of how many
  tally,           \* history: messages per partition since the number changed
  placed           \* history: where each key went, by number of partitions

groupVars == <<count, partition, begun>>
history == <<answer, tally, placed>>
config == <<strategy, sum32, start>>
partitionerVars == <<config, groupVars, partitions, numPartitions, msg, history>>

Strategies ==
  [name : {"random", "round_robin"}, group : 1..MaxGroup, dropFail : {FALSE},
   reachable : BOOLEAN]
  \cup [name : {"hash", "fields"}, group : {1}, dropFail : BOOLEAN,
        reachable : BOOLEAN]

Hashing == strategy.name \in {"hash", "fields"}
NoTally == [p \in 0..(MaxPartitions - 1) |-> 0]

\* int32(x): two's complement.
Int32(x) ==
  LET size == 2 * (MaxInt32 + 1)
      low == x % size
  IN  IF low > MaxInt32 THEN low - size ELSE low

\* makePartitioner and initPartitionStrategy, for a configuration they accept.
PartitionerInit ==
  /\ strategy \in Strategies
  /\ start \in IF strategy.name = "round_robin" THEN 0..MaxInt32 ELSE {0}
  /\ sum32 \in IF Hashing THEN [Keys -> HashValues] ELSE {[k \in Keys |-> 0]}
  /\ count = strategy.group
  /\ partition = start
  /\ partitions = 0
  /\ numPartitions \in 1..MaxPartitions
  /\ msg = [key |-> Nil, hash |-> 0, partition |-> -1]
  /\ begun = 0
  /\ answer = [partition |-> 0, of |-> 0]
  /\ tally = NoTally
  /\ placed = [k \in Keys |-> [n \in 1..MaxPartitions |-> -1]]

-----------------------------------------------------------------------------
(* Kafka and sarama *)

\* The brokers change.
Repartition ==
  /\ numPartitions' \in (1..MaxPartitions) \ {numPartitions}
  /\ strategy.reachable \/ numPartitions' > numPartitions
  /\ tally' = NoTally
  /\ UNCHANGED <<config, groupVars, partitions, msg, answer, placed>>

\* Mutant: the hash of the message before it is kept.
GetEventMessageKeepsHash(k) ==
  /\ k # Nil => Hashing
  /\ tally[0] < MaxRound
  /\ msg' = [msg EXCEPT !.key = k, !.partition = -1]
  /\ UNCHANGED <<config, groupVars, partitions, numPartitions, history>>

\* getEventMessage: every event, and every retry of one, is a new message.
\* Only hashing looks at the key.
GetEventMessage(k) ==
  /\ k # Nil => Hashing
  /\ tally[0] < MaxRound
  /\ msg' = [key |-> k, hash |-> 0, partition |-> -1]
  /\ UNCHANGED <<config, groupVars, partitions, numPartitions, history>>

-----------------------------------------------------------------------------
(* The strategies: what they do to the group and the hash of the message, and *)
(* the partition they return                                                  *)

\* Mutant: the first message of a group is not counted.
NextOfGroupUncounted ==
  IF count = strategy.group
    THEN count' = 0 /\ begun' = numPartitions
    ELSE count' = count + 1 /\ UNCHANGED begun

\* A group ends after group_events messages.
NextOfGroup ==
  IF count = strategy.group
    THEN count' = 1 /\ begun' = numPartitions
    ELSE count' = count + 1 /\ UNCHANGED begun

Random ==
  /\ NextOfGroup
  /\ partition' \in IF count = strategy.group THEN 0..(numPartitions - 1) ELSE {partition}

\* The increment is that of an int32.
RoundRobin ==
  /\ NextOfGroup
  /\ LET next == Int32(partition + 1) IN
     partition' = IF count # strategy.group THEN partition
                  ELSE IF next >= numPartitions THEN 0 ELSE next

\* Mutant: the sign is kept, as Go's % does.
Hash2PartitionSigned(hash, n) ==
  IF Int32(hash) < 0 THEN -((-Int32(hash)) % n) ELSE Int32(hash) % n

\* The mask takes the sign bit away.
Hash2Partition(hash, n) == (hash % (MaxInt32 + 1)) % n

\* hashFieldValue finds every field, with a value that has bytes to hash.
HashFieldValue(k) == k # Nil

\* The hash of a message is computed once, unless it is 0.
HashOf(k) == IF msg.hash = 0 THEN sum32[k] ELSE msg.hash

-----------------------------------------------------------------------------
(* MessagePartitioner.Partition *)

\* The message keeps its partition while the number stays the same.
Settled ==
  /\ numPartitions = partitions
  /\ msg.partition \in 0..(numPartitions - 1)

Return(p) == answer' = [partition |-> p, of |-> numPartitions]

Assign(p, hash) ==
  /\ msg' = [msg EXCEPT !.partition = p, !.hash = hash]
  /\ partitions' = numPartitions
  /\ Return(p)

Reuse ==
  /\ Settled
  /\ Return(msg.partition)
  /\ UNCHANGED <<config, groupVars, partitions, numPartitions, msg, tally, placed>>

\* random and round_robin
PartitionByGroup ==
  /\ ~Settled
  /\ \/ strategy.name = "random" /\ Random
     \/ strategy.name = "round_robin" /\ RoundRobin
  /\ Assign(partition', msg.hash)
  /\ tally' = IF strategy.name = "round_robin" /\ partition' \in DOMAIN tally
                THEN [tally EXCEPT ![partition'] = @ + 1] ELSE tally
  /\ UNCHANGED <<config, numPartitions, placed>>

\* hash and hash over fields
PartitionByHash ==
  /\ ~Settled
  /\ \/ strategy.name = "hash" /\ msg.key # Nil
     \/ strategy.name = "fields" /\ HashFieldValue(msg.key)
  /\ LET p == Hash2Partition(HashOf(msg.key), numPartitions) IN
       /\ Assign(p, HashOf(msg.key))
       /\ placed' = [placed EXCEPT ![msg.key][numPartitions] = p]
  /\ UNCHANGED <<config, groupVars, numPartitions, tally>>

\* No key: any partition will do.
PartitionWithoutKey ==
  /\ ~Settled
  /\ strategy.name = "hash"
  /\ msg.key = Nil
  /\ \E p \in 0..(numPartitions - 1) : Assign(p, msg.hash)
  /\ UNCHANGED <<config, groupVars, numPartitions, tally, placed>>

\* A field cannot be hashed: a random hash, kept with the message ...
PartitionWithoutField ==
  /\ ~Settled
  /\ strategy.name = "fields"
  /\ ~HashFieldValue(msg.key)
  /\ ~strategy.dropFail
  /\ \E h \in IF msg.hash = 0 THEN HashValues ELSE {msg.hash} :
       Assign(Hash2Partition(h, numPartitions), h)
  /\ UNCHANGED <<config, groupVars, numPartitions, tally, placed>>

\* ... or an error, for which Partition returns 0 and remembers nothing.
HashingFails ==
  /\ ~Settled
  /\ strategy.name = "fields"
  /\ ~HashFieldValue(msg.key)
  /\ strategy.dropFail
  /\ Return(0)
  /\ UNCHANGED <<config, groupVars, partitions, numPartitions, msg, tally, placed>>

Partition ==
  \/ Reuse
  \/ PartitionByGroup
  \/ PartitionByHash
  \/ PartitionWithoutKey
  \/ PartitionWithoutField
  \/ HashingFails

PartitionerNext ==
  \/ Repartition
  \/ \E k \in Keys \cup {Nil} : GetEventMessage(k)
  \/ Partition

PartitionerSpec == PartitionerInit /\ [][PartitionerNext]_partitionerVars

-----------------------------------------------------------------------------
(* Properties *)

\* The state has the shape the Go types give it.
PartitionerTypeOK ==
  /\ strategy \in Strategies
  /\ start \in 0..MaxInt32
  /\ sum32 \in [Keys -> HashValues \cup {0}]
  /\ count \in 1..strategy.group
  /\ partition \in (-MaxInt32 - 1)..MaxInt32
  /\ partitions \in 0..MaxPartitions
  /\ numPartitions \in 1..MaxPartitions
  /\ msg \in [key : Keys \cup {Nil}, hash : HashValues \cup {0},
              partition : (-MaxInt32 - 1)..MaxInt32]
  /\ begun \in 0..MaxPartitions
  /\ answer \in [partition : (-MaxInt32 - 1)..MaxInt32, of : 0..MaxPartitions]
  /\ tally \in [0..(MaxPartitions - 1) -> Nat]
  /\ placed \in [Keys -> [1..MaxPartitions -> Int]]

\* A group has a partition that existed when it began; before the first group
\* there is only the start, and only a start at the largest int32 overflows.
GroupInv ==
  /\ begun = 0 => count = strategy.group /\ partition = start
  /\ begun > 0 => partition < begun
  /\ begun > numPartitions => strategy.reachable
  /\ start > 0 => strategy.name = "round_robin"
  /\ partition < 0 => start = MaxInt32 /\ start > 0

\* A message has no hash or that of its key, and keys went where it says.
HashInv ==
  /\ Hashing /\ msg.key # Nil => msg.hash \in {0, sum32[msg.key]}
  /\ \A k \in Keys : \A n \in 1..MaxPartitions :
       placed[k][n] # -1 => placed[k][n] = Hash2Partition(sum32[k], n)

\* Round robin comes to p before q, neither of which is the current one.
Sooner(p, q) ==
  \/ p < q /\ (partition < p \/ q < partition)
  \/ q < partition /\ partition < p

\* Where a round stands: the partition it comes to next has the fewest
\* messages, the one it has just left the most, a group more at most, and the
\* current one had no more than any other when its group began.
RoundInv ==
  IF strategy.name # "round_robin"
    THEN tally = NoTally
    ELSE \A p \in 0..(numPartitions - 1) :
           IF partition \notin 0..(numPartitions - 1)
             THEN tally[p] = 0
             ELSE p # partition =>
                    /\ tally[partition] - count <= tally[p]
                    /\ tally[p] <= tally[partition] - count + strategy.group
                    /\ \A q \in (0..(numPartitions - 1)) \ {partition} :
                         Sooner(p, q) => /\ tally[p] <= tally[q]
                                         /\ tally[q] <= tally[p] + strategy.group

\* The partition returned is one of those there are, also for hashes with the
\* sign bit set and when the number changes between calls, but for two cases
\* the code has: a round robin that began at the largest int32 is below zero
\* after its first step, and a group begun with more partitions, which only
\* reachable_only allows, keeps the partition it has.
PartitionExists ==
  /\ answer.of > 0 /\ answer.partition < 0
       => strategy.name = "round_robin" /\ start = MaxInt32
  /\ answer.of > 0 /\ answer.partition >= answer.of
       => strategy.reachable /\ strategy.group > 1 /\ begun > answer.of

\* Inductive.
PartitionerInv ==
  /\ PartitionerTypeOK
  /\ GroupInv
  /\ HashInv
  /\ RoundInv
  /\ PartitionExists

\* Messages with the same key go to the same partition whenever there are as
\* many partitions, whatever was sent in between and however often the number
\* has changed: once a key has gone somewhere, it goes there again.
KeysStayTogether ==
  [][\A k \in Keys : \A n \in 1..MaxPartitions :
       placed[k][n] # -1 => placed'[k][n] = placed[k][n]]_partitionerVars

\* Round robin is even: while the number of partitions does not change, no
\* partition is ahead of another by more than one group, wherever in a group
\* the number last changed.
RoundRobinIsEven ==
  \A p, q \in 0..(numPartitions - 1) :
    tally[p] - tally[q] <= strategy.group
=============================================================================
