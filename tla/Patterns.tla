------------------------------ MODULE Patterns ------------------------------
(***************************************************************************)
(* Searches by pattern: the literals that every match of a pattern must    *)
(* contain, by which blocks of names are left out, and the scan of what    *)
(* is left. A pattern is the tree its parser makes of it. A condition in   *)
(* conjunctive form is a set of clauses, each a set of literals of which   *)
(* one is there; no clauses at all stand for None.                         *)
(***************************************************************************)
EXTENDS NameColumn

CONSTANTS
  MAX_CLAUSES,       \* 16 in the code
  MAX_ALTERNATIVES   \* literals of a clause (32)

AnyOne == [kind |-> "any"]
AtStart == [kind |-> "start"]
AtEnd == [kind |-> "end"]
Literal(bytes) == [kind |-> "literal", bytes |-> bytes]
Concat(parts) == [kind |-> "concat", parts |-> parts]
Alternation(branches) == [kind |-> "alternation", branches |-> branches]
Capture(sub) == [kind |-> "capture", sub |-> sub]
Repeated(min, sub) == [kind |-> "repetition", min |-> min, bounded |-> FALSE, sub |-> sub]
Optional(sub) == [kind |-> "repetition", min |-> 0, bounded |-> TRUE, sub |-> sub]

-----------------------------------------------------------------------------
(* What a pattern matches: the regular expressions of regex_automata, with  *)
(* case_insensitive(true). External.                                       *)

LONG_S == <<197, 191>>

\* Characters, one letter for all that are the same but for case: the long s
\* of two bytes is an s.
Text(bytes) ==
  LET text[i \in Nat] ==
        IF i > Len(bytes) THEN <<>>
        ELSE IF bytes[i] < 192 THEN <<Lowered(<<bytes[i]>>)>> \o text[i + 1]
        ELSE LET character == SubSeq(bytes, i, i + 1)
             IN  <<IF character = LONG_S THEN <<115>> ELSE character>> \o text[i + 2]
  IN  text[1]

\* Where a match that begins after so many characters may end.
RECURSIVE MatchEnds(_, _, _)
MatchEnds(p, text, i) ==
  CASE p.kind = "literal" ->
         LET word == Text(p.bytes)
         IN  {end \in {i + Len(word)} : IsPrefix(word, SubSeq(text, i + 1, Len(text)))}
    [] p.kind = "any"   -> {end \in {i + 1} : end <= Len(text)}
    [] p.kind = "start" -> {end \in {i} : i = 0}
    [] p.kind = "end"   -> {end \in {i} : i = Len(text)}
    [] p.kind = "capture" -> MatchEnds(p.sub, text, i)
    [] p.kind = "repetition" ->
         LET after[n \in Nat] ==
               IF n = 0 THEN {i} ELSE UNION {MatchEnds(p.sub, text, j) : j \in after[n - 1]}
         IN  UNION {after[n] : n \in p.min .. (IF p.bounded THEN 1 ELSE p.min + Len(text))}
    [] p.kind = "concat" ->
         FoldLeft(LAMBDA ends, part : UNION {MatchEnds(part, text, j) : j \in ends}, {i}, p.parts)
    [] p.kind = "alternation" -> UNION {MatchEnds(branch, text, i) : branch \in ToSet(p.branches)}

is_match(p, name) ==
  LET text == Text(name) IN \E i \in 0 .. Len(text) : MatchEnds(p, text, i) # {}

-----------------------------------------------------------------------------
(* required_literals *)

clause_score(clause) == (Lowest({Len(literal) : literal \in clause}) * 64) \div Cardinality(clause)

\* The clauses that promise most, when there are too many.
normalize_clauses(clauses) ==
  IF Cardinality(clauses) <= MAX_CLAUSES THEN clauses
  ELSE CHOOSE kept \in SUBSET clauses :
         /\ Cardinality(kept) = MAX_CLAUSES
         /\ \A a \in kept, b \in clauses \ kept : clause_score(a) >= clause_score(b)

literal_clause(bytes) ==
  IF Len(bytes) < 3 \/ (\E i \in DOMAIN bytes : bytes[i] > 127) THEN {} ELSE {{Lowered(bytes)}}

\* One clause, made of the best one of each branch.
alternation_fallback(branches) ==
  LET Best(clauses) == CHOOSE c \in clauses : \A d \in clauses : clause_score(c) >= clause_score(d)
      clause == UNION {Best(branches[b]) : b \in DOMAIN branches}
  IN  IF Cardinality(clause) <= MAX_ALTERNATIVES THEN {clause} ELSE {}

\* Mutant: what a branch needs is taken for what every match needs.
analyze_alternation_Each(branches) == normalize_clauses(UNION {branches[b] : b \in DOMAIN branches})

\* Each choice of a clause per branch makes one: a match is of some branch.
analyze_alternation(branches) ==
  LET choices  == {choice \in [DOMAIN branches -> UNION ToSet(branches)] :
                     \A b \in DOMAIN branches : choice[b] \in branches[b]}
      combined == {UNION ToSet(choice) : choice \in choices}
  IN  IF {} \in ToSet(branches) THEN {}
      ELSE IF \/ Cardinality(choices) > MAX_CLAUSES
              \/ \E clause \in combined : Cardinality(clause) > MAX_ALTERNATIVES
      THEN alternation_fallback(branches)
      ELSE normalize_clauses(combined)

RECURSIVE required_literals(_)
required_literals(p) ==
  CASE p.kind = "literal" -> literal_clause(p.bytes)
    [] p.kind = "capture" -> required_literals(p.sub)
    [] p.kind = "repetition" /\ p.min > 0 -> required_literals(p.sub)
    [] p.kind = "concat" -> normalize_clauses(UNION {required_literals(part) : part \in ToSet(p.parts)})
    [] p.kind = "alternation" ->
         analyze_alternation([b \in DOMAIN p.branches |-> required_literals(p.branches[b])])
    [] OTHER -> {}

-----------------------------------------------------------------------------
(* Query::wildcard, scan_regex_impl *)

STAR == 42
QUESTION_MARK == 63

\* Whatever is neither star nor question mark is escaped if need be; the parser
\* makes one literal of neighbours.
wildcard(pattern) ==
  LET Part(c) == IF c = STAR THEN Repeated(0, AnyOne) ELSE IF c = QUESTION_MARK THEN AnyOne ELSE Literal(<<c>>)
      Push_str(parts, c) ==
        IF Part(c).kind = "literal" /\ Last(parts).kind = "literal"
        THEN [parts EXCEPT ![Len(parts)].bytes = Append(@, c)]
        ELSE Append(parts, Part(c))
  IN  Concat(Append(FoldLeft(Push_str, <<AtStart>>, pattern), AtEnd))

\* The blocks in order; a name that is the one before again matches if that did.
scan_regex_impl(column, p) ==
  LET Check(state, seen) ==
        LET matched == IF seen.repeated THEN state.matched ELSE is_match(p, seen.name)
        IN  [matched |-> matched,
             hits |-> IF matched THEN state.hits \cup {seen.record} ELSE state.hits]
      Names(b) == for_each_name_in(column, b * TRIGRAM_BLOCK, (b + 1) * TRIGRAM_BLOCK)
      InBlock(state, b) == FoldLeft(Check, state, Names(b))
      blocks == candidate_blocks_for_clauses(column, required_literals(p))
  IN  FoldLeft(InBlock, [matched |-> FALSE, hits |-> {}], SetToSortSeq(blocks, <)).hits
=============================================================================
