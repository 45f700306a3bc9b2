------------------------------ MODULE MCRecommender ------------------------------
(***************************************************************************)
(* An instance of Recommender: four users, answers of two, words that are  *)
(* repeated, common to all, or spelled with a capital, and two documents   *)
(* with a field that is no string, of which the script repairs one.        *)
(***************************************************************************)
EXTENDS Recommender

CONSTANTS u1, u2, u3, u4,
          a, Acap, b, c        \* words: Acap is a with a capital

LowerCase == [w \in Words |-> IF w = Acap THEN a ELSE w]

D(address, budget) == [address |-> address, budget |-> budget]

Docs(d1, d2, d3, d4) ==
  [u \in Users |-> CASE u = u1 -> d1 [] u = u2 -> d2 [] u = u3 -> d3 [] u = u4 -> d4]

SomeCorpora == {
  \* u2 has the words of u1, u4 more of them; a is everywhere, b rarer
  Docs(D(<<a>>, <<b>>), D(<<b, Acap>>, <<>>), D(<<a, a>>, <<a>>), D(<<a, b>>, <<b>>)),
  \* u3 has no words, u4 repeats a rare one
  Docs(D(<<a, b>>, <<>>), D(<<b>>, <<b>>), D(<<>>, <<>>), D(<<c, c>>, <<a>>)),
  \* two fields that are no strings
  Docs(D(<<a, b>>, <<>>), D(NotText, <<a>>), D(<<c>>, <<b>>), D(<<a>>, NotText)),
  Docs(D(<<a>>, <<b>>), D(NotText, <<a>>), D(<<c>>, <<b>>), D(<<>>, <<c>>)) }

NewAddresses ==
  [u \in Users |-> CASE u = u1 -> <<a>> [] u = u2 -> <<b>> []
                        u = u3 -> <<a, b>> [] u = u4 -> <<c>>]

(* 5 * (1 + ln(5 / (df + 1))), rounded: the weights among four profiles;   *)
(* the columns past the fourth are for counts that no code computes.       *)
Weights == <<10, 8, 6, 5, 4, 3, 3, 2>>

\* 5 * (1 + ln((n + 1) / (df + 1))), rounded, for fewer profiles.
FewWeights == << <<5>>, <<7, 5>>, <<8, 6, 5>> >>

SomeIdf(df, n) == IF n = 4 THEN Weights[df] ELSE FewWeights[n][df]

=============================================================================
