-------------------------- MODULE MCRefinementCache --------------------------
(***************************************************************************)
(* Values of the constants for TLC. The names, by their places in the      *)
(* order, are 1 "a.x", 2 "ab", 3 "abc", 4 "abcd", 5 "b.x" and 6 "bxyz",    *)
(* whose trigram "xyz" has the row of "abc".                               *)
(***************************************************************************)
EXTENDS RefinementCache

NameSet == 1 .. 6
MCHasTerm ==
  (NameSet \X {""}) \cup ((1 .. 4) \X {"a"}) \cup ((2 .. 4) \X {"ab"}) \cup ((3 .. 4) \X {"abc"})
    \cup ((2 .. 6) \X {"b"})
MCStartsWith == MCHasTerm \ ((2 .. 4) \X {"b"})
MCEquals == {<<2, "ab">>, <<3, "abc">>}
MCBefore == {<<1, "ab">>, <<1, "abc">>, <<2, "abc">>} \cup ((1 .. 4) \X {"b"})
MCShort == {"", "a", "ab", "b"}
MCNameTrigrams == [n \in NameSet |-> IF n \in {3, 4, 6} THEN {"row"} ELSE {}]
MCTermTrigrams == [t \in {"abc"} |-> {"row"}]
MCNameLen == <<3, 2, 3, 4, 3, 4>>
MCExtension == [n \in NameSet |-> IF n \in {1, 5} THEN "x" ELSE ""]
MCExtends ==
  {<<t, t>> : t \in MCShort \cup {"abc"}} \cup {<<"ab", "a">>, <<"abc", "a">>, <<"abc", "ab">>}
    \cup {<<t, "">> : t \in {"a", "ab", "abc", "b"}}

\* FRN 1 to 3 are directories.
MCFileOf ==
  [f \in 1 .. 6 |-> [is_dir |-> f \in 1 .. 3, mtime |-> (f * 2) % 5,
                     size |-> IF f \in 1 .. 3 THEN 0 ELSE f, exact |-> f # 4]]

Rec(frn, name, parent) == [frn |-> frn, name |-> name, parent |-> parent]

\* Three directories, with every parent column there is, and a file.
BaseOf4(column) == Arena([i \in 1 .. 4 |-> Rec(i, <<1, 2, 3, 5>>[i], column[i])])
OddBases == {BaseOf4(dirs @@ (4 :> 1)) : dirs \in [1 .. 3 -> 0 .. 3]}
SmallBase == Arena(<<Rec(3, 5, 0)>>)

Chain == BaseOf4(<<0, 1, 2, 2>>)
MCFirstBases == <<OddBases, {SmallBase}>>
MCLaterBases == <<{Chain}, {}>>

Event(kind, frn, parent, name) == [kind |-> kind, frn |-> frn, parent |-> parent, name |-> name]

\* A directory is renamed, then once more with a file made in it in between; a
\* file is deleted and another one made.
MCBatches ==
  << { <<Event("renamed", 2, 1, 6)>>,
       <<Event("renamed", 2, 1, 6), Event("created", 6, 2, 4), Event("renamed", 2, 1, 1)>>,
       <<Event("deleted", 4, 1, 5), Event("created", 6, 2, 3)>> },
     { <<Event("created", 6, 3, 2)>> } >>

Q(kind, terms, order, limit) ==
  [kind |-> kind, terms |-> terms, filter |-> NoFilter, order |-> order, limit |-> limit]

Large == [NoFilter EXCEPT !.sizes = 1 .. U32_MAX]
Files == [NoFilter EXCEPT !.extensions = {"x"}]

MCQueries ==
  { Q("prefix", <<"a">>, "relevance", 2), Q("prefix", <<"ab">>, "relevance", 2),
    Q("substring", <<"b">>, "relevance", 4), Q("substring", <<"abc">>, "recent", 3),
    Q("path", <<"a">>, "relevance", 2), Q("path", <<"ab">>, "largest", 2),
    Q("path", <<"ab", "b">>, "relevance", 3), Q("path", <<"a", "b">>, "relevance", 2),
    [Q("path", <<"">>, "largest", 3) EXCEPT !.filter = Large],
    [Q("path", <<"a">>, "relevance", 2) EXCEPT !.filter = Files],
    Q("substring", <<"">>, "relevance", 5) }
=============================================================================
