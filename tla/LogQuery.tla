------------------------------ MODULE LogQuery ------------------------------
(***************************************************************************)
(* The log query language (src/domain/query): lexer, recursive-descent     *)
(* parser, semantic validation, planner and executor, as operators.        *)
(*                                                                         *)
(* A text is a sequence of lexemes.  How characters make a lexeme is left  *)
(* out: Punctuation, Word, Quoted and Duration say what the lexer takes a  *)
(* lexeme for, and what is none of them is an unexpected character.  A     *)
(* regular expression is the set of words it matches; a pattern without    *)
(* one is unsafe or does not compile.  A line is the set of its words and  *)
(* the fields of the JSON object it may be.                                *)
(***************************************************************************)
EXTENDS Integers, FiniteSets, SequencesExt, FiniteSetsExt

CONSTANTS
  Word,        \* lexemes the lexer takes for identifiers
  Quoted,      \* the value of a lexeme that is a string literal
  Duration,    \* the time a lexeme such as [5m] stands for
  Matches,     \* the words a safe regular expression matches
  MaxRange,    \* maxTimeRangeMs
  MinStep      \* 1000 ms, the least width of an aggregation's bucket

Refused == [type |-> "refused"]

-----------------------------------------------------------------------------
(* Lists.  The place of an element is its rank, which a proof can speak of, *)
(* where SelectSeq, SortSeq and FlattenSeq are recursive.                  *)

\* The elements of a set in an order, which is a set of pairs.
InOrder(S, before) ==
  [k \in 1 .. Cardinality(S) |->
    CHOOSE x \in S : Cardinality({y \in S : <<y, x>> \in before}) = k - 1]

\* The elements of s at the positions I, as Array.filter leaves them.
Pick(s, I) ==
  LET at == InOrder(I, {p \in I \X I : p[1] < p[2]}) IN [k \in DOMAIN at |-> s[at[k]]]

\* s sorted by the key of each position; like Array.sort it keeps ties in order.
SortedBy(s, key) ==
  LET Before(i, j) == key[i] < key[j] \/ (key[i] = key[j] /\ i < j)
      at == InOrder(DOMAIN s, {p \in (DOMAIN s) \X (DOMAIN s) : Before(p[1], p[2])})
  IN [k \in DOMAIN at |-> s[at[k]]]

\* The sequences of a sequence, one after the other.
Joined(seqs) ==
  LET places == UNION {{i} \X DOMAIN seqs[i] : i \in DOMAIN seqs}
      Before(a, b) == a[1] < b[1] \/ (a[1] = b[1] /\ a[2] < b[2])
      at == InOrder(places, {p \in places \X places : Before(p[1], p[2])})
  IN [k \in DOMAIN at |-> seqs[at[k][1]][at[k][2]]]

-----------------------------------------------------------------------------
(* Lexer.                                                                  *)

Punctuation ==
  [x \in {"{", "}", "(", ")", ",", "=", "!=", "=~", "!~", "|=", "|~", "|"} |->
    CASE x = "{" -> "lbrace"  [] x = "}" -> "rbrace" [] x = "(" -> "lparen"
      [] x = ")" -> "rparen"  [] x = "," -> "comma"  [] x = "=" -> "eq"
      [] x = "!=" -> "neq"    [] x = "=~" -> "re"    [] x = "!~" -> "nre"
      [] x = "|=" -> "pipeEq" [] x = "|~" -> "pipeRe" [] x = "|" -> "pipe"]

Token(x) ==
  CASE x \in DOMAIN Punctuation -> [kind |-> Punctuation[x], value |-> x]
    [] x \in Word -> [kind |-> "ident", value |-> x]
    [] x \in DOMAIN Quoted -> [kind |-> "string", value |-> Quoted[x]]
    [] x \in DOMAIN Duration -> [kind |-> "duration", value |-> x]
    [] OTHER -> [kind |-> "error", value |-> x]

Tokenize(text) == [i \in DOMAIN text |-> Token(text[i])]

-----------------------------------------------------------------------------
(* Parser: each operator reads the tokens ts from position i.              *)

Kind(ts, i) == IF i \in DOMAIN ts THEN ts[i].kind ELSE "eof"
Expect(ts, i, kinds) == \A k \in DOMAIN kinds : Kind(ts, i + k - 1) \in kinds[k]

MatcherOps == {"eq", "neq", "re", "nre"}
IsMatcher(ts, i) == Expect(ts, i, <<{"ident"}, MatcherOps, {"string"}>>)
ParseMatcher(ts, i) == [name |-> ts[i].value, op |-> ts[i + 1].value, value |-> ts[i + 2].value]

\* The stage that begins at i and the position after it; none, or one that is
\* malformed, ends the pipeline, and what follows is then refused.
StageAt(ts, i) ==
  CASE Expect(ts, i, <<{"pipeEq"}, {"string"}>>) ->
         <<i + 2, [type |-> "lineContains", value |-> ts[i + 1].value]>>
    [] Expect(ts, i, <<{"pipeRe"}, {"string"}>>) ->
         <<i + 2, [type |-> "lineRegex", value |-> ts[i + 1].value]>>
    [] Expect(ts, i, <<{"pipe"}, {"ident"}>>) /\ ts[i + 1].value = "json" ->
         <<i + 2, [type |-> "json"]>>
    [] /\ Expect(ts, i, <<{"pipe"}, {"ident"}, {"eq", "neq"}, {"string"}>>)
       /\ ts[i + 1].value # "json" ->
         <<i + 4, [type |-> "structured", field |-> ts[i + 1].value, op |-> ts[i + 2].value,
                   value |-> ts[i + 3].value]>>
    [] OTHER -> <<i, <<>>>>

ParsePipeline(ts, i) ==
  LET Stages[j \in 1 .. Len(ts) + 1] ==
        LET stage == StageAt(ts, j) IN
        IF stage[1] = j THEN [next |-> j, stages |-> <<>>]
        ELSE [Stages[stage[1]] EXCEPT !.stages = <<stage[2]>> \o @]
  IN Stages[i]

\* Matchers separated by commas, from i to the closing brace.
ParseSelector(ts, i) ==
  LET closes == {k \in DOMAIN ts : k > i /\ ts[k].kind = "rbrace"}
      close == Min(closes)
      n == (close - i) \div 4
      pipe == ParsePipeline(ts, close + 1)
  IN IF /\ Kind(ts, i) = "lbrace" /\ closes # {}
        /\ close = i + (IF n = 0 THEN 1 ELSE 4 * n)
        /\ \A k \in 1 .. n : IsMatcher(ts, i + 4 * k - 3)
        /\ \A k \in 1 .. n - 1 : Kind(ts, i + 4 * k) = "comma"
     THEN [next |-> pipe.next,
           ast |-> [type |-> "selector", pipeline |-> pipe.stages,
                    matchers |-> [k \in 1 .. n |-> ParseMatcher(ts, i + 4 * k - 3)]]]
     ELSE [next |-> i, ast |-> Refused]

\* parseQuery.
ParseLog(text) ==
  LET ts == Tokenize(text) IN
  IF \E t \in ToSet(ts) : t.kind = "error" THEN Refused
  ELSE IF Expect(ts, 1, <<{"ident"}, {"lparen"}>>) /\ ts[1].value \in {"count_over_time", "rate"}
  THEN LET inner == ParseSelector(ts, 3) IN
       IF inner.ast # Refused /\ Expect(ts, inner.next, <<{"duration"}, {"rparen"}, {"eof"}>>)
       THEN [type |-> "aggregation", fn |-> ts[1].value, selector |-> inner.ast,
             range |-> ts[inner.next].value]
       ELSE Refused
  ELSE LET whole == ParseSelector(ts, 1) IN
       IF Kind(ts, whole.next) = "eof" THEN whole.ast ELSE Refused

Selector(ast) == IF ast.type = "selector" THEN ast ELSE ast.selector

\* validateSemantics.
IsValid(ast) ==
  LET sel == Selector(ast) IN
  /\ sel.matchers # <<>>
  /\ \A m \in ToSet(sel.matchers) : m.op \in {"=~", "!~"} => m.value \in DOMAIN Matches
  /\ \A s \in ToSet(sel.pipeline) : s.type = "lineRegex" => s.value \in DOMAIN Matches
  /\ ast.type = "aggregation" => Duration[ast.range] \in 1 .. MaxRange

-----------------------------------------------------------------------------
(* Planner.                                                                *)

StreamMatches(stream, matchers) ==
  \A m \in ToSet(matchers) :
    IF m.name \notin DOMAIN stream.labels THEN m.op \in {"!=", "!~"}
    ELSE LET actual == stream.labels[m.name] IN
         \/ m.op = "=" /\ actual = m.value
         \/ m.op = "!=" /\ actual # m.value
         \/ m.op = "=~" /\ m.value \in DOMAIN Matches /\ actual \in Matches[m.value]
         \/ m.op = "!~" /\ m.value \in DOMAIN Matches /\ actual \notin Matches[m.value]

-----------------------------------------------------------------------------
(* Executor.                                                               *)

\* A json stage adds the fields of the line for the stages after it.
FieldsBefore(entry, pipeline, k) ==
  IF \E j \in 1 .. k - 1 : pipeline[j].type = "json"
  THEN [f \in DOMAIN entry.fields \union DOMAIN entry.json |->
         IF f \in DOMAIN entry.json THEN entry.json[f] ELSE entry.fields[f]]
  ELSE entry.fields

PassesStage(entry, pipeline, k) ==
  LET stage == pipeline[k]
      fields == FieldsBefore(entry, pipeline, k)
      equal == stage.field \in DOMAIN fields /\ fields[stage.field] = stage.value
  IN \/ stage.type = "json"
     \/ stage.type = "lineContains" /\ stage.value \in entry.words
     \/ /\ stage.type = "lineRegex" /\ stage.value \in DOMAIN Matches
        /\ Matches[stage.value] \intersect entry.words # {}
     \/ stage.type = "structured" /\ (stage.op = "=" <=> equal)

EntryPasses(entry, pipeline) == \A k \in DOMAIN pipeline : PassesStage(entry, pipeline, k)

Passing(sel, range, bundle) ==
  Pick(bundle, {i \in DOMAIN bundle : /\ bundle[i].timestamp \in range.start .. range.end
                                      /\ EntryPasses(bundle[i], sel.pipeline)})

Floor(t, step) == (t \div step) * step

\* executeEntries: bundles are the entries of the planned streams, in order.
\* The first maxRows that pass are kept, and only then sorted or counted; a
\* point is a fraction, the count over 1 or over the seconds of its bucket.
ExecuteEntries(ast, range, bundles, maxRows) ==
  LET found == Joined([i \in DOMAIN bundles |-> Passing(Selector(ast), range, bundles[i])])
      kept == SubSeq(found, 1, Min({maxRows, Len(found)}))
      hits == SortedBy(kept, [i \in DOMAIN kept |-> kept[i].timestamp])
      step == Max({MinStep, Duration[ast.range]})
      Bucket(e) == Floor(e.timestamp, step)
      series == [b \in {Bucket(e) : e \in ToSet(hits)} |->
                  <<Cardinality({i \in DOMAIN hits : Bucket(hits[i]) = b}),
                    IF ast.fn = "rate" THEN step \div MinStep ELSE 1>>]
  IN [type |-> "logs", truncated |-> Len(found) > maxRows,
      hits |-> IF ast.type = "selector" THEN hits ELSE <<>>,
      series |-> IF ast.type = "selector" THEN <<>> ELSE series]
=============================================================================
