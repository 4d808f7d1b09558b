---------------------------- MODULE JsonGrammar -----------------------------
(* The reference for JsonReader: the JSON texts of up to MaxTokens tokens,    *)
(* each as the sequence of the types of its tokens, see JsonReader.           *)
EXTENDS Integers, SequencesExt

CONSTANT MaxTokens   \* bound on the tokens of a text

\* The values of n tokens, lists of values with commas, and lists of members.
RECURSIVE Values(_), Items(_), Pairs(_)
Between(open, lists, close) == {<<open>> \o l \o <<close>> : l \in lists}
Listed(n, One(_), Rest(_)) ==
  One(n) \cup UNION {{v \o <<",">> \o l : v \in One(k), l \in Rest(n - k - 1)} : k \in 1 .. n - 2}
Pair(n) == IF n < 3 THEN {} ELSE {<<"string", ":">> \o v : v \in Values(n - 2)}
Items(n) == IF n < 1 THEN {} ELSE Listed(n, Values, Items)
Pairs(n) == IF n < 3 THEN {} ELSE Listed(n, Pair, Pairs)
Values(n) ==
  CASE n = 1 -> {<<"string">>, <<"number">>, <<"null">>}
    [] n = 2 -> {<<"[", "]">>, <<"{", "}">>}
    [] OTHER -> Between("[", Items(n - 2), "]") \cup Between("{", Pairs(n - 2), "}")

\* The texts, and what a text may begin with.
Documents == UNION {Values(n) : n \in 1 .. MaxTokens}
Viable == UNION {Prefixes(d) : d \in Documents}
=============================================================================
