---------------------------- MODULE ShardRouting ----------------------------
(***************************************************************************)
(* Which shard an n-gram goes to (sharding/routing.rs, sharding/config.rs):*)
(* by the first letters of its first word, or by a hash of that word       *)
(* modulo a number of shards that depends on the CPUs of the machine.      *)
(***************************************************************************)
EXTENDS Naturals, Sequences

CONSTANTS
    Words,      \* the words of the corpus
    Letters,    \* the alphabetic characters of a word, in lower case
    Hash,       \* DefaultHasher, of a word
    PrefixHash  \* and of the prefix of a file

ASSUME HashAssumption ==
    /\ \A x \in Words : Hash[x] \in Nat
    /\ \A x \in DOMAIN PrefixHash : PrefixHash[x] \in Nat
ASSUME LettersAssumption == Letters \in [Words -> Seq(STRING)]

Granularities ==
    [kind : {"FirstChar", "TwoChar", "Adaptive"}]
        \cup [kind : {"Custom"}, len : Nat]
        \cup [kind : {"CpuProportional"}, multiplier : Nat \ {0},
              minimum : Nat \ {0}]

IsHashBased(granularity) == granularity.kind = "CpuProportional"

PrefixLen(granularity, order) ==
    CASE granularity.kind = "FirstChar"       -> 1
      [] granularity.kind = "TwoChar"         -> 2
      [] granularity.kind = "Adaptive"        -> IF order = 1 THEN 1 ELSE 2
      [] granularity.kind = "Custom"          -> granularity.len
      [] granularity.kind = "CpuProportional" -> 0

\* compute_cpu_proportional_shards
NumShards(granularity, cpus) ==
    IF cpus * granularity.multiplier > granularity.minimum
    THEN cpus * granularity.multiplier ELSE granularity.minimum

HashKey(hash, granularity, cpus) == <<hash % NumShards(granularity, cpus)>>

\* The first n letters, filled up with "a".
Padded(letters, n) ==
    [i \in 1 .. n |-> IF i <= Len(letters) THEN letters[i] ELSE "a"]

KeyOfToken(token, order, granularity, cpus) ==
    IF IsHashBased(granularity)
    THEN HashKey(Hash[token], granularity, cpus)
    ELSE LET n == PrefixLen(granularity, order)
         IN  IF Letters[token] = <<>>
             THEN [i \in 1 .. n |-> "_"]
             ELSE Padded(Letters[token], n)

KeyOfFile(prefix, order, granularity, cpus) ==
    IF IsHashBased(granularity)
    THEN HashKey(PrefixHash[prefix], granularity, cpus)
    ELSE Padded(prefix, PrefixLen(granularity, order))

\* Mutant of RouteTokens: the order is not passed on.
RouteTokensAnyOrder(words, granularity, cpus) ==
    KeyOfToken(words[1], 2, granularity, cpus)

\* route_tokens
RouteTokens(words, granularity, cpus) ==
    KeyOfToken(words[1], Len(words), granularity, cpus)
=============================================================================
