------------------------------ MODULE IdIndex ------------------------------
(***************************************************************************)
(* IdIndex<K, V> and ChangeIdIndexImpl (default_revset_engine.rs): a      *)
(* vector of (key, value) pairs sorted by key, asked for the entries whose *)
(* key has a given hexadecimal prefix and for the shortest prefix length  *)
(* that tells a key apart from every other key.                            *)
(*                                                                         *)
(* A key is a sequence of KeyLen hex digits (KeyLen even: two digits a    *)
(* byte), digits drawn from a small set of naturals that contains 0, so   *)
(* that keys share prefixes and duplicate keys occur.  Comparing the      *)
(* bytes of two keys is comparing their digit sequences lexicographically.*)
(* The values are the positions of the revset's entries, distinct as in   *)
(* RevsetImpl::change_id_index.  HexPrefix and common_hex_len are outside *)
(* this file and are modelled from the specification.                     *)
(***************************************************************************)
EXTENDS Naturals, Sequences, SequencesExt, FiniteSetsExt, Functions

CONSTANTS Digits,      \* the hex digits that occur
          KeyLen,      \* number of hex digits of a key
          MaxEntries   \* the largest number of entries tried

ASSUME IdIndexAssumption ==
  /\ Digits \subseteq Nat /\ 0 \in Digits
  /\ KeyLen \in Nat /\ KeyLen % 2 = 0
  /\ MaxEntries \in Nat

Keys == [1 .. KeyLen -> Digits]

\* HexPrefix::new: every string of at most KeyLen hex digits.
HexPrefixes == UNION {[1 .. n -> Digits] : n \in 0 .. KeyLen}

VARIABLES input,   \* the (change id, position) pairs, in the revset's order
          index,   \* IdIndex.0
          built,   \* has from_vec run?
          out      \* the latest query and its answer

vars == <<input, index, built, out>>

\* The order of byte strings: lexicographic, a proper prefix first.
BytesLess(a, b) ==
  \E i \in 0 .. Len(a) :
    /\ i <= Len(b)
    /\ SubSeq(a, 1, i) = SubSeq(b, 1, i)
    /\ \/ i < Len(a) /\ i < Len(b) /\ a[i + 1] < b[i + 1]
       \/ i = Len(a) /\ i < Len(b)

\* HexPrefix::min_prefix_bytes: an odd-length prefix padded with digit 0.
MinPrefixBytes(prefix) ==
  IF Len(prefix) % 2 = 0 THEN prefix ELSE Append(prefix, 0)

\* HexPrefix::matches
PrefixMatches(prefix, key) == IsPrefix(prefix, key)

\* backend::common_hex_len: the number of leading hex digits a and b share.
CommonHexLen(a, b) ==
  Max({n \in 0 .. KeyLen : SubSeq(a, 1, n) = SubSeq(b, 1, n)})

\* slice::partition_point on a slice partitioned by P: the length of its
\* leading run of elements satisfying P.
PartitionPoint(v, P(_)) ==
  CHOOSE i \in 0 .. Len(v) :
    /\ \A j \in 1 .. i : P(v[j])
    /\ i = Len(v) \/ ~P(v[i + 1])

\* `vec.sort_unstable_by(|(k0, _), (k1, _)| k0.cmp(k1))`: any order of the
\* entries whose keys do not decrease; entries with equal keys in any order.
SortedByKey(v) ==
  {s \in {[i \in DOMAIN v |-> v[f[i]]] : f \in Bijection(DOMAIN v, DOMAIN v)} :
     \A i \in 1 .. Len(s) - 1 : ~BytesLess(s[i + 1].key, s[i].key)}

\* Mutant: partition_point with `<=`, stepping over an exact match.
ResolvePrefixRangeLe(prefix) ==
  LET pos  == PartitionPoint(index, LAMBDA e : ~BytesLess(MinPrefixBytes(prefix), e.key))
      rest == SubSeq(index, pos + 1, Len(index))
  IN  SubSeq(rest, 1, PartitionPoint(rest, LAMBDA e : PrefixMatches(prefix, e.key)))

\* IdIndex::resolve_prefix_range: from the first key not below
\* min_prefix_bytes, the run of keys that match the prefix.
ResolvePrefixRange(prefix) ==
  LET pos  == PartitionPoint(index, LAMBDA e : BytesLess(e.key, MinPrefixBytes(prefix)))
      rest == SubSeq(index, pos + 1, Len(index))
  IN  SubSeq(rest, 1, PartitionPoint(rest, LAMBDA e : PrefixMatches(prefix, e.key)))

NoMatch        == [kind |-> "NoMatch"]
AmbiguousMatch == [kind |-> "AmbiguousMatch"]
SingleMatch(vals) == [kind |-> "SingleMatch", vals |-> vals]

\* IdIndex::resolve_prefix_with, the value mapper being the identity.
ResolvePrefixWith(prefix) ==
  LET range == ResolvePrefixRange(prefix) IN
  IF range = <<>> THEN NoMatch
  ELSE IF \A i \in 1 .. Len(range) : range[i].key = range[1].key
       THEN SingleMatch({range[i].val : i \in 1 .. Len(range)})
       ELSE AmbiguousMatch

\* Mutant: the right neighbour taken without skipping exact matches.
ShortestUniquePrefixLenNoSkip(key) ==
  LET pos   == PartitionPoint(index, LAMBDA e : BytesLess(e.key, key))
      left  == IF pos > 0 THEN {index[pos].key} ELSE {}
      right == IF pos < Len(index) THEN {index[pos + 1].key} ELSE {}
      lens  == {CommonHexLen(key, n) + 1 : n \in left \cup right}
  IN  IF lens = {} THEN 0 ELSE Max(lens)

(***************************************************************************)
(* IdIndex::shortest_unique_prefix_len: the last key below `key` and the  *)
(* first key after it that differs from it are its neighbours; the answer *)
(* is one more than the longest common prefix with a neighbour, 0 if none.*)
(***************************************************************************)
ShortestUniquePrefixLen(key) ==
  LET pos   == PartitionPoint(index, LAMBDA e : BytesLess(e.key, key))
      after == {i \in pos + 1 .. Len(index) : index[i].key # key}
      left  == IF pos > 0 THEN {index[pos].key} ELSE {}
      right == IF after = {} THEN {} ELSE {index[Min(after)].key}
      lens  == {CommonHexLen(key, n) + 1 : n \in left \cup right}
  IN  IF lens = {} THEN 0 ELSE Max(lens)

\* change_id_index collects (change_id, position) of every entry of the set.
Init ==
  /\ input \in UNION {[1 .. n -> Keys] : n \in 0 .. MaxEntries}
  /\ index = <<>>
  /\ built = FALSE
  /\ out = [op |-> "none"]

\* IdIndex::from_vec
FromVec ==
  /\ ~built
  /\ index' \in SortedByKey([i \in DOMAIN input |-> [key |-> input[i], val |-> i]])
  /\ built' = TRUE
  /\ UNCHANGED <<input, out>>

\* ChangeIdIndexImpl::resolve_prefix
ResolvePrefix(prefix) ==
  /\ built
  /\ out' = [op |-> "resolve", arg |-> prefix, res |-> ResolvePrefixWith(prefix)]
  /\ UNCHANGED <<input, index, built>>

\* ChangeIdIndexImpl::shortest_unique_prefix_len
ShortestLen(key) ==
  /\ built
  /\ out' = [op |-> "shortest", arg |-> key, res |-> ShortestUniquePrefixLen(key)]
  /\ UNCHANGED <<input, index, built>>

Next ==
  \/ FromVec
  \/ \E prefix \in HexPrefixes : ResolvePrefix(prefix)
  \/ \E key \in Keys : ShortestLen(key)

Spec == Init /\ [][Next]_vars

-----------------------------------------------------------------------------
\* Reference: the entries whose key has the prefix, whatever their order.
ResolveRef(prefix) ==
  LET M == {i \in 1 .. Len(index) : PrefixMatches(prefix, index[i].key)} IN
  IF M = {} THEN NoMatch
  ELSE IF \A i, j \in M : index[i].key = index[j].key
       THEN SingleMatch({index[i].val : i \in M})
       ELSE AmbiguousMatch

\* Reference: one more than the longest prefix `key` shares with another key.
ShortestRef(key) ==
  LET others == {index[i].key : i \in 1 .. Len(index)} \ {key} IN
  IF others = {} THEN 0 ELSE Max({CommonHexLen(key, k) + 1 : k \in others})

(***************************************************************************)
(* resolve_prefix finds every entry whose change id has the prefix, and   *)
(* calls it ambiguous exactly when two such keys differ (spec 4.1): the   *)
(* binary search to min_prefix_bytes and the take_while lose no entry,     *)
(* for odd-length prefixes and duplicate keys too.                         *)
(***************************************************************************)
ResolveMatchesRef ==
  out.op = "resolve" => out.res = ResolveRef(out.arg)

(***************************************************************************)
(* shortest_unique_prefix_len, which looks only at two neighbours in the  *)
(* sorted vector, gives the length a comparison with every other key      *)
(* gives (spec 4.1), whether or not the key is in the index.              *)
(***************************************************************************)
ShortestMatchesRef ==
  out.op = "shortest" => out.res = ShortestRef(out.arg)

=============================================================================
