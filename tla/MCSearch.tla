------------------------------- MODULE MCSearch -------------------------------
(***************************************************************************)
(* Instance of Search: two metrics, of which one has its static tagset     *)
(* replaced during a query, and filters that take every case of the        *)
(* evaluation.                                                             *)
(***************************************************************************)
EXTENDS Search

CONSTANTS m1, m2, owner, quality, good, bad, patch1, put1, s1, s2

MCKind == patch1 :> "patch" @@ put1 :> "put"
MCTarget == patch1 :> m1 @@ put1 :> m1
MCTags == patch1 :> (quality :> good) @@ put1 :> (quality :> bad)
MCInitial == m1 :> (owner :> good) @@ m2 :> (owner :> bad)

x1 == [metric |-> m1, tags |-> (quality :> good)]
x2 == [metric |-> m1, tags |-> (owner :> bad)]
x3 == [metric |-> m2, tags |-> <<>>]

MCSeries == {x1, x2, x3}
MCFresh == {<<Global, x2>>}

All == <<"all">>
Good == <<"tag", quality, good>>
Bad == <<"tag", quality, bad>>
Owned == <<"exist", owner>>
Mine == <<"tag", owner, good>>
No(f) == <<"not", f>>
And(f, g) == <<"and", f, g>>
Or(f, g) == <<"or", f, g>>

MCFilters == {
  Mine, No(All), No(Owned), And(Mine, No(Good)), And(No(Owned), Bad),
  And(No(Owned), No(Good)), And(No(No(Good)), Owned),
  And(Or(Good, Owned), No(Mine)), And(No(Mine), Or(Good, Bad)),
  And(Or(Good, Bad), And(Owned, Bad)), And(And(Owned, Good), And(Mine, Good)),
  And(And(Owned, Bad), All), And(All, No(No(And(Owned, Bad)))),
  Or(Good, All), Or(All, Owned), Or(No(No(Mine)), Good), Or(Mine, No(No(Bad))),
  No(And(Mine, Good)), No(Or(Mine, Bad)) }

(* The weight of a filter, and the filters met in evaluating some.         *)
RECURSIVE WeightOf(_), Closure(_)
WeightOf(f) ==
  CASE Is("not", f) -> 3 * WeightOf(f[2])
    [] IsPair(f)    -> 1 + WeightOf(f[2]) + WeightOf(f[3])
    [] OTHER        -> 1
Closure(F) ==
  LET parts == {f[2] : f \in {g \in F : Is("not", g) \/ IsPair(g)}}
                 \cup {f[3] : f \in {g \in F : IsPair(g)}}
      rewritten == {Rewritten(f) : f \in {g \in F : IsRewritten(g)}} IN
  IF parts \cup rewritten \subseteq F THEN F
  ELSE Closure(F \cup parts \cup rewritten)

Met == Closure(MCFilters \cup {All, No(Bad), And(No(Owned), Good)})
MCFilter == Met     \* TLC computes Met once
MCWeight == [f \in Met |-> WeightOf(f)]

Of(m, f, scopes) == [metric |-> m, filter |-> f, scopes |-> scopes]

MCQuery ==
  {Of(None, f, <<Global>>) : f \in MCFilters}
    \cup {Of(None, f, <<s1, s2>>) : f \in {Mine, Or(Good, Bad), And(No(Owned), Good)}}
    \cup {Of(m, No(Bad), r) : m \in {None, m1}, r \in {<<>>, <<Global>>, <<s2>>}}
    \cup {Of(m1, f, r) : f \in {Owned, And(No(Owned), Good)}, r \in {<<Global>>, <<s2>>}}
=============================================================================
