-------------------------------- MODULE Search --------------------------------
(***************************************************************************)
(* The search for time series in the hub. A filter is turned into a plan:  *)
(* which indexes to read, and which parts of the filter to apply to what   *)
(* each of them returns. The plan is executed one statement after the      *)
(* other, while static tags change and the Processor indexes new series:   *)
(* nothing isolates a query from them.                                     *)
(***************************************************************************)
EXTENDS StaticTags, Sequences, SequencesExt

CONSTANTS
  Series,     \* records [metric, tags] that the Processor may index
  Fresh,      \* pairs <<scope, series>> that are not indexed at first
  Shard,
  Global,     \* stands for the tables that are not sharded
  None,       \* no metric in a query
  Filter,     \* the filters of queries, and those met in evaluating them
  Weight,     \* Weight[f]: a measure of f, for the recursion on filters
  Query       \* records [metric, filter, scopes] that clients may ask

Scope == Shard \cup {Global}

ASSUME SearchAssumption ==
  /\ Series \subseteq [metric : Metric, tags : Tagset]
  /\ Fresh \subseteq Scope \X Series
  /\ Global \notin Shard /\ None \notin Metric
  /\ Query \subseteq
       [metric : Metric \cup {None}, filter : Filter, scopes : Seq(Scope)]

VARIABLES
  direct,     \* rows <<scope, series>> of the tables of tagsets
  reverse,    \* rows <<scope, series, name>> of the reverse tables
  asked,      \* the query being answered
  plan,       \* what remains of its plan
  step,       \* progress of the first term of the plan
  metrics,    \* metrics whose series, or static tags, are to be read
  got,        \* series returned by the reads of the term
  candidates, \* the same with static tags
  found,      \* candidates kept by the terms done so far
  known,      \* history: series fully indexed when the query began
  touched     \* history: metrics whose static tags changed since

queryVars == <<asked, plan, step, metrics, got, candidates, found, known>>
vars == <<staticVars, direct, reverse, queryVars, touched>>

-----------------------------------------------------------------------------
(* Filters: <<"all">>, <<"exist", n>>, <<"tag", n, v>>, <<"not", f>>,      *)
(* <<"and", f, g>> and <<"or", f, g>>.                                     *)

Is(kind, f) == f[1] = kind
IsIndexed(f) == f[1] \in {"tag", "exist"}
IsDoubleNegation(f) == Is("not", f) /\ Is("not", f[2])
IsPair(f) == f[1] \in {"and", "or"}

(* Evaluation first removes double negations and moves negations inwards.  *)
IsRewritten(f) ==
  \/ Is("not", f) /\ (Is("not", f[2]) \/ IsPair(f[2]))
  \/ IsPair(f) /\ (IsDoubleNegation(f[2]) \/ IsDoubleNegation(f[3]))

Rewritten(f) ==
  IF Is("not", f) THEN
    LET g == f[2] IN
    CASE Is("not", g) -> g[2]
      [] Is("and", g) -> <<"or", <<"not", g[2]>>, <<"not", g[3]>> >>
      [] Is("or", g)  -> <<"and", <<"not", g[2]>>, <<"not", g[3]>> >>
  ELSE IF IsDoubleNegation(f[2]) THEN <<f[1], f[2][2][2], f[3]>>
  ELSE <<f[1], f[2], f[3][2][2]>>

(* The parts of a filter, and what it is rewritten to, weigh less: there   *)
(* is such a measure for all filters (3 times the weight of g for the      *)
(* negation of g, 1 + the weights of the parts for the others).            *)
Lighter(f, g) == f \in Filter /\ Weight[f] < Weight[g]

ASSUME FilterAssumption ==
  /\ <<"all">> \in Filter
  /\ Weight \in [Filter -> Nat]
  /\ Filter \subseteq
       {<<"all">>} \cup ({"exist"} \X Name) \cup ({"tag"} \X Name \X Value)
         \cup ({"not"} \X Filter) \cup ({"and", "or"} \X Filter \X Filter)
  /\ \A f \in Filter :
       /\ Is("not", f) => Lighter(f[2], f)
       /\ IsPair(f) => Lighter(f[2], f) /\ Lighter(f[3], f)
       /\ IsRewritten(f) => Lighter(Rewritten(f), f)

(* A candidate has the dynamic tags of a series and the static tags of its *)
(* metric; a condition is met by any of them.                              *)
TagsOf(c) == Pairs(c.static) \cup Pairs(c.tags)

AcceptsStep(accepts, c, f) ==
  CASE Is("all", f)   -> TRUE
    [] Is("exist", f) -> \E p \in TagsOf(c) : p[1] = f[2]
    [] Is("tag", f)   -> <<f[2], f[3]>> \in TagsOf(c)
    [] Is("not", f)   -> ~ accepts[f[2]]
    [] Is("and", f)   -> accepts[f[2]] /\ accepts[f[3]]
    [] Is("or", f)    -> accepts[f[2]] \/ accepts[f[3]]

Accepts(c, f) ==
  LET accepts[g \in Filter] == AcceptsStep(accepts, c, g) IN accepts[f]

(* A term reads the index for one condition, and keeps what accepts some   *)
(* filters. A plan is the union of its terms.                              *)
TermAnywhere(f, scope) == [read |-> f, scope |-> None, keep |-> {}]
Term(f, scope) == [read |-> f, scope |-> scope, keep |-> {}]

FilteredFirst(terms, f) ==
  [i \in DOMAIN terms |->
     IF i = 1 THEN [terms[i] EXCEPT !.keep = @ \cup {f}] ELSE terms[i]]
Filtered(terms, f) ==
  [i \in DOMAIN terms |-> [terms[i] EXCEPT !.keep = @ \cup {f}]]

(* The cases are tried in the order of the code. The negation of a leaf is *)
(* evaluated as its conjunction with "all".                                *)
EvalStep(eval, f, s) ==
  LET a == f[2]
      b == f[3]
      left == Filtered(eval[a], b)
      right == Filtered(eval[b], a) IN
  IF IsIndexed(f) \/ Is("all", f) THEN <<Term(f, s)>>
  ELSE IF IsRewritten(f) THEN eval[Rewritten(f)]
  ELSE IF Is("not", f) THEN
    IF Is("all", a) THEN <<>> ELSE Filtered(<<Term(<<"all">>, s)>>, f)
  ELSE IF Is("and", f) THEN
    IF IsIndexed(a) THEN left
    ELSE IF IsIndexed(b) THEN right
    ELSE IF Is("not", b) THEN left
    ELSE IF Is("not", a) THEN right
    ELSE IF Is("or", b) THEN left
    ELSE IF Is("or", a) THEN right
    ELSE IF Is("all", b) THEN eval[a]
    ELSE IF Is("all", a) THEN eval[b]
    ELSE left
  ELSE
    IF Is("all", a) \/ Is("all", b) THEN eval[<<"all">>]
    ELSE eval[a] \o eval[b]

Eval(f, s) == LET eval[g \in Filter] == EvalStep(eval, g, s) IN eval[f]

(* A query for one metric reads its series and applies the whole filter.   *)
PlanIn(q, s) ==
  IF q.metric = None THEN Eval(q.filter, s)
  ELSE <<[read |-> <<"metric", q.metric>>, scope |-> s, keep |-> {q.filter}]>>

(* The shards of the time range are searched one after the other.          *)
PlanOf(q) == FlattenSeq([i \in DOMAIN q.scopes |-> PlanIn(q, q.scopes[i])])

-----------------------------------------------------------------------------
(* The tables of dynamic tags. The Processor inserts their rows one by one *)
(* and in any order.                                                       *)

DirectOf(s, m) == {x \in Series : x.metric = m /\ <<s, x>> \in direct}

(* Whether a condition on tags selects a pair of a name and a value.       *)
Selects(f, p) == f[2] = p[1] /\ (Is("tag", f) => f[3] = p[2])

ReverseOf(s, f) ==
  {x \in Series : \E n \in DOMAIN x.tags :
     <<s, x, n>> \in reverse /\ Selects(f, <<n, x.tags[n]>>)}

Indexed(s, x) ==
  <<s, x>> \in direct /\ \A n \in DOMAIN x.tags : <<s, x, n>> \in reverse

InsertDirect(s, x) ==
  /\ <<s, x>> \notin direct
  /\ direct' = direct \cup {<<s, x>>}
  /\ UNCHANGED <<staticVars, reverse, queryVars, touched>>

InsertReverse(s, x, n) ==
  /\ n \in DOMAIN x.tags
  /\ <<s, x, n>> \notin reverse
  /\ reverse' = reverse \cup {<<s, x, n>>}
  /\ UNCHANGED <<staticVars, direct, queryVars, touched>>

-----------------------------------------------------------------------------
(* The execution of a query.                                               *)

(* A time range that no shard covers leaves nothing to combine.            *)
Ask(q) ==
  /\ step = "idle"
  /\ asked' = q
  /\ plan' = PlanOf(q)
  /\ step' = IF q.scopes = <<>> THEN "failed" ELSE "read"
  /\ known' = {x \in Series : \E i \in DOMAIN q.scopes : Indexed(q.scopes[i], x)}
  /\ touched' = {m \in Metric : InView(m) # Pairs(Static(m))}
  /\ UNCHANGED <<staticVars, direct, reverse, metrics, got, candidates, found>>

(* A condition on tags begins with the metrics that have such a static     *)
(* tag.                                                                    *)
ReadView ==
  LET f == Head(plan).read IN
  /\ step = "read" /\ plan # <<>> /\ IsIndexed(f)
  /\ metrics' = {m \in Metric : \E p \in InView(m) : Selects(f, p)}
  /\ step' = "series"
  /\ UNCHANGED <<staticVars, direct, reverse, asked, plan, got, candidates,
                 found, known, touched>>

ReadSeriesOf(m) ==
  /\ step = "series" /\ m \in metrics
  /\ got' = got \cup DirectOf(Head(plan).scope, m)
  /\ metrics' = metrics \ {m}
  /\ UNCHANGED <<staticVars, direct, reverse, asked, plan, step, candidates,
                 found, known, touched>>

Got(S) ==
  /\ got' = S
  /\ metrics' = {x.metric : x \in S}
  /\ step' = "static"
  /\ UNCHANGED <<staticVars, direct, reverse, asked, plan, candidates, found,
                 known, touched>>

ReadReverse ==
  /\ step = "series" /\ metrics = {}
  /\ Got(got \cup ReverseOf(Head(plan).scope, Head(plan).read))

ReadMetric ==
  /\ step = "read" /\ plan # <<>> /\ Is("metric", Head(plan).read)
  /\ Got(DirectOf(Head(plan).scope, Head(plan).read[2]))

ReadAll ==
  /\ step = "read" /\ plan # <<>> /\ Is("all", Head(plan).read)
  /\ Head(plan).scope = Global
  /\ Got({x \in Series : <<Global, x>> \in direct})

(* The statement for all the series of a shard has no parameter to put the *)
(* shard in: the driver refuses it.                                        *)
ReadAllOfShard ==
  /\ step = "read" /\ plan # <<>> /\ Is("all", Head(plan).read)
  /\ Head(plan).scope # Global
  /\ step' = "failed"
  /\ UNCHANGED <<staticVars, direct, reverse, asked, plan, metrics, got,
                 candidates, found, known, touched>>

Candidate(x, static) == [metric |-> x.metric, static |-> static, tags |-> x.tags]

ReadStaticOf(m) ==
  /\ step = "static" /\ m \in metrics
  /\ candidates' = candidates
       \cup {Candidate(x, Static(m)) : x \in {y \in got : y.metric = m}}
  /\ metrics' = metrics \ {m}
  /\ UNCHANGED <<staticVars, direct, reverse, asked, plan, step, got, found,
                 known, touched>>

Keep(C, filters) == {c \in C : \A f \in filters : Accepts(c, f)}

EndTerm ==
  /\ step = "static" /\ metrics = {}
  /\ found' = found \cup Keep(candidates, Head(plan).keep)
  /\ plan' = Tail(plan)
  /\ step' = "read"
  /\ got' = {} /\ candidates' = {}
  /\ UNCHANGED <<staticVars, direct, reverse, asked, metrics, known, touched>>

Reply ==
  /\ step = "read" /\ plan = <<>>
  /\ step' = "answered"
  /\ UNCHANGED <<staticVars, direct, reverse, asked, plan, metrics, got,
                 candidates, found, known, touched>>

(* Static tags change during the query.                                    *)
ChangeTags ==
  /\ Next
  /\ touched' = touched \cup
       {m \in Metric : Static(m)' # Static(m) \/ InView(m)' # InView(m)}
  /\ UNCHANGED <<direct, reverse, queryVars>>

QueryStep ==
  \/ ReadView \/ ReadReverse \/ ReadMetric \/ ReadAll \/ ReadAllOfShard
  \/ \E m \in Metric : ReadSeriesOf(m) \/ ReadStaticOf(m)
  \/ EndTerm \/ Reply

SearchInit ==
  /\ Init
  /\ direct = (Scope \X Series) \ Fresh
  /\ reverse = {e \in Scope \X Series \X Name :
                  <<e[1], e[2]>> \notin Fresh /\ e[3] \in DOMAIN e[2].tags}
  /\ asked = [metric |-> None, filter |-> <<"all">>, scopes |-> <<>>]
  /\ plan = <<>> /\ step = "idle"
  /\ metrics = {} /\ got = {} /\ candidates = {} /\ found = {}
  /\ known = {} /\ touched = {}

SearchNext ==
  \/ \E q \in Query : Ask(q)
  \/ QueryStep
  \/ ChangeTags
  \/ \E s \in Scope, x \in Series :
       \/ InsertDirect(s, x)
       \/ \E n \in Name : InsertReverse(s, x, n)

SearchSpec == SearchInit /\ [][SearchNext]_vars

-----------------------------------------------------------------------------
SearchTypeOK ==
  /\ TypeOK
  /\ direct \subseteq Scope \X Series
  /\ reverse \subseteq Scope \X Series \X Name
  /\ asked.scopes \in Seq(Scope)
  /\ step \in {"idle", "read", "series", "static", "answered", "failed"}
  /\ \A i \in DOMAIN plan : plan[i].scope \in Scope
  /\ metrics \subseteq Metric
  /\ got \subseteq Series /\ known \subseteq Series
  /\ candidates \cup found \subseteq
       [metric : Metric, static : Tagset, tags : Tagset]
  /\ touched \subseteq Metric

(* The filter does not imply accessing all the time series: no index that  *)
(* it selects is that of everything.  The API documents that others return *)
(* nothing or are not accepted (swagger.yaml:138-145).                     *)
Selective(f) ==
  \A i \in DOMAIN Eval(f, Global) : ~ Is("all", Eval(f, Global)[i].read)

(* The answer to a selective filter is exact for every metric whose static *)
(* tags do not change during the query, nor wait in the reverse view when  *)
(* it begins: a series that was indexed in one of the searched shards when *)
(* the query began is in the answer if it meets the filter, and whatever   *)
(* is in the answer meets it, and carries the tags it has.                 *)
SteadyExact ==
  step = "answered" /\ Selective(asked.filter) =>
    \A x \in Series : x.metric \notin touched =>
      LET c == Candidate(x, Static(x.metric))
          wanted == asked.metric \in {None, x.metric}
                      /\ Accepts(c, asked.filter) IN
      /\ (x \in known /\ wanted) => c \in found
      /\ \A d \in found :
            (d.metric = x.metric /\ d.tags = x.tags) => d = c /\ wanted
=============================================================================
