--------------------------- MODULE MCModuleLoading ---------------------------
(* Instances of ModuleLoading: an executable that imports base, and plug,  *)
(* which imports base and is the target of base's forwarder.               *)
EXTENDS ModuleLoading

PairImports == [exe |-> {"base"}, base |-> {}, plug |-> {"base"}]
PairForward == [base |-> "plug"]
PairModules == DOMAIN PairImports
PairCalls ==
  {Request("load", "base"), Request("load", "plug"), Request("image", "plug"),
   Request("export", "base"), Request("free", "base"), Request("free", "plug"),
   Request("exit", "exe")}

-----------------------------------------------------------------------------
(* The order the loader computes: depth first through the additions of a   *)
(* plan, in the order they were added and along their dependency lists.    *)

DepthFirst(additions, dependencies) ==
  LET Visits == [seen : SUBSET Modules, order : Seq(Modules)]
      visit[m \in Modules, v \in Visits] ==
        IF m \in v.seen THEN v
        ELSE LET below == FoldLeft(LAMBDA w, d : visit[d, w],
                                   [v EXCEPT !.seen = @ \cup {m}], dependencies[m])
             IN [below EXCEPT !.order = Append(@, m)]
  IN FoldLeft(LAMBDA v, m : visit[m, v], [seen |-> {}, order |-> <<>>], additions).order

\* All lists without repetition of some of the modules but m.
DependencyLists(m) ==
  UNION {{l \in [1..n -> Modules \ {m}] : \A i, j \in 1..n : i # j => l[i] # l[j]} :
           n \in 0..Cardinality(Modules) - 1}

\* Every order the code computes is among the ones the model considers.
ASSUME DepthFirstIsAnOrder ==
  LET Lists == [Modules -> UNION {DependencyLists(m) : m \in Modules}]
      Graphs == {g \in Lists : \A m \in Modules : g[m] \in DependencyLists(m)}
      Additions3 == {a \in [1..Cardinality(Modules) -> Modules] :
                       \A i, j \in DOMAIN a : i # j => a[i] # a[j]}
  IN \A g \in Graphs, a \in Additions3 :
       DepthFirst(a, g) \in
         InitializationOrders(Modules, [m \in Modules |-> ToSet(g[m])])

\* The list that a filter leaves is the library's selection.
ASSUME AmongIsSelectSeq ==
  \A S \in SUBSET Modules :
    \A n \in 0..Cardinality(Modules) : \A l \in [1..n -> Modules] :
      Among(l, S) = SelectSeq(l, LAMBDA m : m \in S)
=============================================================================
