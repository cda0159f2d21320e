------------------------------- MODULE Bloom -------------------------------
(***************************************************************************)
(* The Bloom filter of src/bloom.rs: every item has num_hashes places,     *)
(* made of two hashes by double hashing, and is taken for contained when   *)
(* all of them are set.                                                    *)
(***************************************************************************)
EXTENDS Integers

CONSTANTS
  hash_pair,   \* item |-> <<h1, h2>>
  HashSpace,   \* the hashes are numbers below it, and wrap around (2^64)
  num_bits, num_hashes

VARIABLE bits  \* the places that are set

Init == bits = {}

bit_idx(item, i) ==
  ((hash_pair[item][1] + i * hash_pair[item][2]) % HashSpace) % num_bits

places(item) == {bit_idx(item, i) : i \in 0..(num_hashes - 1)}

contains(item) == places(item) \subseteq bits

insert(item) == bits' = bits \cup places(item)

\* insert_and_check returns whether it takes the item for new.
insert_and_check(item, is_new) ==
  \/ is_new /\ ~contains(item) /\ insert(item)
  \/ ~is_new /\ contains(item) /\ UNCHANGED bits

=============================================================================
