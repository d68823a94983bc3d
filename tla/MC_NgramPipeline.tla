-------------------------- MODULE MC_NgramPipeline --------------------------
(* A file of words and one of pairs, in every kind of storage.             *)
EXTENDS NgramPipeline

CONSTANTS w1, w2

MCWords == {"ant", "art", "bee", "tag_", "42"}

MCLetters == "ant" :> <<"a", "n", "t">> @@ "art" :> <<"a", "r", "t">>
          @@ "bee" :> <<"b">> @@ "tag_" :> <<"a", "g">> @@ "42" :> <<>>

MCHash == "ant" :> 3 @@ "art" :> 6 @@ "bee" :> 2 @@ "tag_" :> 1 @@ "42" :> 5
MCPrefixHash == <<"a">> :> 0 @@ <<"a", "n">> :> 1 @@ <<"o", "t", "h", "e", "r">> :> 2

MCOrderOf == "words" :> 1 @@ "pairs" :> 2

Line4(ngram, year, count) ==
    [kind |-> "ok", ngram |-> ngram, year |-> year, count |-> count]
Other(kind) == [kind |-> kind, ngram |-> <<>>, year |-> 0, count |-> 0]

Ant(year, count) == Line4(<<"ant">>, year, count)

\* Of the words, "art" is rare in one year and "tag_" is tagged; of the pairs,
\* one is out of the range of years.
Whole == "words" :> <<Ant(1, 2), Ant(2, 2), Line4(<<"tag_">>, 2, 5),
                      Line4(<<"art">>, 1, 1), Line4(<<"art">>, 2, 3)>>
      @@ "pairs" :> <<Line4(<<"ant", "art">>, 2, 2), Other("empty"),
                      Line4(<<"ant", "bee">>, 2, 3), Line4(<<"ant", "bee">>, 9, 7)>>
Broken == [Whole EXCEPT !["pairs"] = Append(@, Other("bad"))]
Short  == "words" :> <<Ant(1, 2), Ant(2, 2), Line4(<<"art">>, 2, 3)>>
       @@ "pairs" :> <<Line4(<<"ant", "bee">>, 2, 3)>>
Tiny   == [Short EXCEPT !["words"] = <<Ant(1, 2)>>]
Others == [Tiny EXCEPT !["pairs"] = <<Line4(<<"42", "ant">>, 2, 4)>>]

\* The pairs of Others begin with no letter.
Names(input) == "words" :> <<"a">>
             @@ "pairs" :> IF input = Others THEN <<"o", "t", "h", "e", "r">> ELSE <<"a", "n">>

Setup(granularity, chunk, maxCpus, keep, errors, input) ==
    [granularity |-> granularity, chunk |-> chunk, cpus |-> 1 .. maxCpus,
     keepShards |-> keep, errors |-> errors, follow |-> errors \subseteq {"shard"},
     input |-> input, names |-> Names(input),
     minCount |-> 2, years |-> 1 .. 3, skipTags |-> TRUE]

Adaptive == [kind |-> "Adaptive"]
TwoChar  == [kind |-> "TwoChar"]
Hashed   == [kind |-> "CpuProportional", multiplier |-> 2, minimum |-> 3]

\* One trie, letters with and without chunks, hashed with one or two CPUs; a
\* file "other", beside one whose name is too short for TwoChar; and shards
\* that may fail to open.
MCSetups == {
    Setup(None, 0, 1, TRUE, {"job"}, Whole),
    Setup(Adaptive, 0, 1, FALSE, {"session"}, Whole),
    Setup(Adaptive, 1, 1, TRUE, {"job"}, Broken),
    Setup(Hashed, 0, 1, FALSE, {}, Whole),
    Setup(Hashed, 0, 2, FALSE, {"job"}, Short),
    Setup(Hashed, 0, 2, FALSE, {"session"}, Short),
    Setup(Adaptive, 0, 1, TRUE, {"job"}, Others),
    Setup(TwoChar, 1, 2, TRUE, {}, Others),
    Setup(Adaptive, 0, 1, TRUE, {"shard"}, Tiny)}

WorkersAlike == Permutations(Workers)
=============================================================================
