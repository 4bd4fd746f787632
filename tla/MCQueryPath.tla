----------------------------- MODULE MCQueryPath -----------------------------
\* Streams, chunks and queries for the configurations of QueryPath.
EXTENDS QueryPath

W == {"app", "env", "level", "json", "count_over_time", "rate", "reqs", "lat", "hits", "sum", "by",
      "topk", "bottomk", "avg_over_time", "increase", "max_over_time", "sum_over_time",
      "histogram_quantile", "avg"}
Q == ("'api'" :> "api" @@ "'web'" :> "web" @@ "'prod'" :> "prod" @@ "'a.*'" :> "a.*"
      @@ "'err'" :> "err" @@ "'(a+)+'" :> "(a+)+")
D == ("[2s]" :> 2 @@ "[9d]" :> 99)
M == "a.*" :> {"api", "api2"} @@ "err" :> {"err"}
N == ("1" :> <<1, 1>> @@ "2" :> <<2, 1>> @@ "0.5" :> <<1, 2>> @@ "0" :> <<0, 1>>)

Labels(app, env) == [app |-> app, env |-> env]
LogStream(t, app, env) ==
  [tenant |-> t, signal |-> "logs", name |-> "", labels |-> Labels(app, env)]
Series(t, name, labels) ==
  [tenant |-> t, signal |-> "metrics", name |-> name, labels |-> labels]
Streams ==
  <<LogStream("t1", "api", "prod"), LogStream("t1", "api", "dev"), LogStream("t2", "api", "prod"),
    Series("t1", "reqs", Labels("api", "prod")), Series("t1", "reqs", Labels("web", "prod")),
    Series("t2", "reqs", Labels("api", "prod")),
    Series("t1", "hits", [app |-> "api", le |-> "1"]), Series("t1", "hits", [app |-> "api", le |-> "+Inf"]),
    Series("t1", "lat", [app |-> "api"])>>

Entry(id, t, words, json) ==
  [id |-> id, timestamp |-> t, words |-> words, json |-> json, fields |-> [level |-> "api"]]
Sample(t, v) == [timestamp |-> t, value |-> <<v, 1>>, buckets |-> <<>>]
Part(s, items) ==
  [stream |-> s, items |-> items,
   start |-> Min({x.timestamp : x \in ToSet(items)}), end |-> Max({x.timestamp : x \in ToSet(items)})]

\* The chunks of streams 1 and 4 overlap, the counter of 4 is reset, and an entry
\* lies outside the range of the queries.
Chunks ==
  <<Part(1, <<Entry(1, 1, {"err"}, <<>>), Entry(2, 4, {}, [level |-> "err"])>>),
   Part(1, <<Entry(3, 2, {"err"}, [level |-> "err"]), Entry(4, 7, {"err"}, <<>>)>>),
   Part(2, <<Entry(5, 3, {"err"}, <<>>)>>),
   Part(3, <<Entry(6, 3, {"err"}, <<>>)>>),
   Part(4, <<Sample(1, 5), Sample(4, 2)>>),
   Part(4, <<Sample(2, 8)>>),
   Part(5, <<Sample(2, 3), Sample(3, 6)>>),
   Part(7, <<Sample(2, 3)>>),
   Part(8, <<Sample(2, 4)>>),
   Part(9, <<[timestamp |-> 2, value |-> <<0, 1>>, buckets |-> (1 :> 2 @@ 2 :> 5 @@ Infinity :> 1)]>>)>>

Where(l, op, v) == [name |-> l, op |-> op, value |-> v]
Sel(ms, pipe) == [type |-> "selector", matchers |-> ms, pipeline |-> pipe]
Metric(name, ms) == <<[type |-> "selector", name |-> name, matchers |-> ms]>>
Func(fn, inner) == <<[type |-> "func", fn |-> fn, range |-> "[2s]"]>> \o inner
Agg(op, by, inner) == <<[type |-> "agg", op |-> op, by |-> by]>> \o inner
Top(k, bottom, inner) == <<[type |-> "topk", k |-> k, bottom |-> bottom]>> \o inner
Quantile(q, inner) == <<[type |-> "histogram_quantile", q |-> q]>> \o inner
Log(ast) == [signal |-> "logs", ast |-> ast]
Met(ast) == [signal |-> "metrics", ast |-> ast]
Api == Where("app", "=", "api")
ErrLine == [type |-> "lineContains", value |-> "err"]
Reqs == Metric("reqs", <<>>)

Expressions ==
  {Log(Sel(<<Api>>, <<>>)),
   Log(Sel(<<Where("app", "=~", "a.*"), Where("env", "!=", "prod")>>, <<[type |-> "lineRegex", value |-> "err"]>>)),
   Log(Sel(<<Api>>, <<[type |-> "json"], [type |-> "structured", field |-> "level", op |-> "=", value |-> "err"]>>)),
   Log(Sel(<<Where("app", "=~", "(a+)+")>>, <<>>)),
   Log([type |-> "aggregation", fn |-> "rate", range |-> "[2s]",
        selector |-> Sel(<<Where("env", "!~", "a.*")>>, <<ErrLine>>)]),
   Met(Metric("reqs", <<Where("app", "=~", "a.*"), Where("env", "=", "prod")>>)),
   Met(Func("rate", Reqs)),
   Met(Agg("sum", <<"env">>, Func("increase", Reqs))),
   Met(Agg("avg", <<"app", "env">>, Func("max_over_time", Reqs))),
   Met(Top(1, TRUE, Func("avg_over_time", Reqs))),
   Met(Top(1, FALSE, Agg("sum", <<"app", "env">>, Func("sum_over_time", Reqs)))),
   Met(Quantile(<<1, 2>>, Metric("hits", <<>>))), Met(Quantile(<<1, 2>>, Metric("lat", <<>>)))}

Ask(tenant, signal, text, limit) ==
  [tenant |-> tenant, signal |-> signal, text |-> text, limit |-> limit,
   range |-> [start |-> 1, end |-> 5], step |-> 2]
Remove1(text, i) == SubSeq(text, 1, i - 1) \o SubSeq(text, i + 1, Len(text))

\* Every expression, one of them also with a row limit and by another tenant,
\* and the texts of some with a lexeme less.
Broken == {e \in Expressions : IF e.signal = "logs" THEN e.ast.type = "aggregation" ELSE e.ast[1].type = "topk"}
Requests ==
  {Ask("t1", e.signal, Text(e.signal, e.ast), 9) : e \in Expressions}
  \union {Ask("t2", "logs", LogText(Sel(<<Api>>, <<>>)), 9), Ask("t1", "logs", LogText(Sel(<<Api>>, <<>>)), 1)}
  \union UNION {{Ask("t1", e.signal, Remove1(Text(e.signal, e.ast), i), 9) :
                  i \in DOMAIN Text(e.signal, e.ast)} : e \in Broken}
=============================================================================
