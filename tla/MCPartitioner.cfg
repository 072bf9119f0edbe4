\* Integers from -4 to 3, up to three partitions, groups of one or two; hashes
\* of either sign, zero among them.
CONSTANTS
  MaxInt32 = 3
  MaxPartitions = 3
  MaxGroup = 2
  MaxRound = 5
  k1 = k1
  k2 = k2
  Nil = Nil
  Keys = {k1, k2}
  HashValues = {0, 2, 5, 7}
SPECIFICATION PartitionerSpec
INVARIANTS
  PartitionerInv
  RoundRobinIsEven
PROPERTIES
  KeysStayTogether
