----------------------------- MODULE MCSlsRecord -----------------------------
(***************************************************************************)
(* A small instance of SlsRecord: values nested up to two levels below the *)
(* limit, empty containers and empty keys, containers as keys, text with a *)
(* NUL in it and at its start; bodies with no, one and two pairs, other    *)
(* bodies and none. Any two of the first allocations may fail.             *)
(***************************************************************************)
EXTENDS SlsRecord, FiniteSetsExt

MCToken == {"a", "b", "{", "}", "[", "]", ",", ":", "<nested>", "message", "NUL"}

Scalar(text) == [kind |-> "scalar", text |-> text, parts |-> <<>>]
Holding(kind, parts) == [kind |-> kind, text |-> <<>>, parts |-> parts]

A == Scalar(<<"a">>)
B == Scalar(<<"b">>)
Empty == Scalar(<<>>)
Cut == Scalar(<<"a", "NUL", "b">>)
Nul == Scalar(<<"NUL", "a">>)

Nestings ==
  LET list == Holding("array", <<<<A>>, <<B>>>>)
      pair == Holding("map", <<<<A, B>>>>)
  IN  {Holding("array", <<>>), Holding("array", <<<<A>>>>), list, pair,
       Holding("map", <<<<A, B>>, <<B, Empty>>>>),
       Holding("map", <<<<A, list>>>>), Holding("array", <<<<Cut>>, <<B>>>>),
       Holding("array", <<<<pair>>, <<Holding("array", <<<<list>>>>)>>>>)}

Values == {A, B, Empty, Cut, Nul} \cup Nestings

Pairs == ({A, Empty} \X Values) \cup (Nestings \X {A}) \cup ({Cut, Nul} \X {A, Nul})

Bodies ==
  {Holding("map", <<>>)}
  \cup {Holding("map", <<pair>>) : pair \in Pairs}
  \cup {Holding("map", <<pair, <<B, A>>>>) : pair \in Pairs}
  \cup (Values \ {v \in Values : v.kind = "map"})
  \cup {Holding("none", <<>>)}

\* Every body, and every part of one.
MCValue == Values \cup Bodies \cup {Holding("array", <<<<Holding("array", <<<<A>>, <<B>>>>)>>>>)}

\* Every body, and times below zero, at zero and over the width.
MCEvent ==
  [sec : {7}, body : Bodies]
  \cup [sec : {-9, -1, 0, 1, 15, 16, 17, 40}, body : {Holding("map", <<<<A, B>>>>)}]

MCFailing == UNION {kSubset(k, 1 .. 14) : k \in 0 .. 2}

=============================================================================
