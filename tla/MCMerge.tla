------------------------------ MODULE MCMerge ------------------------------
(* Inputs for model checking MergePipeline.                                  *)
EXTENDS MergePipeline, MCFiles

(* Two files of two organizations: identifiers shared in every way, chains *)
(* across the files, periods that exclude each other, same_as edges of     *)
(* each confidence, parallel edges, names that agree, differ or are absent.*)
IdLists == {<<>>, <<Duns(1)>>, <<Lei(1)>>, <<Lei(1), Duns(1)>>,
            <<Until(Duns(1), 1)>>,
            <<From(Duns(1), 2), [Id("internal", 1) EXCEPT !.auth = <<1, 0>>]>>}
PairsOfFiles(As, Bs, Cs, Ds, Links1, Links2) ==
  {<<File(<<Named(Org(101, a), 1), Named(Org(102, b), 2)>>, l1),
     File(<<Named(Org(101, c), None), Named(Org(102, d), 3)>>, l2)>> :
     a \in As, b \in Bs, c \in Cs, d \in Ds, l1 \in Links1, l2 \in Links2}
PairInputs ==
  PairsOfFiles({<<>>, <<Lei(1), Duns(1)>>, <<Until(Duns(1), 1)>>},
    {<<Duns(1)>>, <<Lei(1)>>}, IdLists, {<<>>, <<Duns(1)>>, <<Lei(1), Duns(1)>>},
    {<<>>, <<SameAs(101, 102, "definite")>>, <<Supply(1)>>},
    {<<>>, <<SameAs(102, 101, "probable")>>, <<SameAs(101, 102, None), Supply(1)>>,
     <<Supply(None)>>})

\* A few of them, for the properties that are slow to check, and no input.
FewInputs ==
  {<<>>} \cup
  PairsOfFiles({<<Lei(1), Duns(1)>>, <<Until(Duns(1), 1)>>}, {<<Duns(1)>>},
    IdLists, {<<>>, <<Lei(1)>>}, {<<>>, <<SameAs(101, 102, "definite")>>},
    {<<Supply(1)>>})

(* Parallel edges of two files between the same two organizations: with    *)
(* and without identifiers, with equal, different and absent properties,   *)
(* typed and not, of known and extension types; the last is dangling.      *)
EdgePool ==
  {EdgeRec(0, "supplies", 101, 102, p) :
     p \in {NoProperties, [commodity |-> 1], [commodity |-> 1, tier |-> 2],
            [commodity |-> 1, contract_ref |-> 1], [commodity |-> 1, note |-> 1]}}
  \cup {[EdgeRec(0, "supplies", 101, 102, Property1("commodity", c)) EXCEPT !.ids = i] :
          c \in {1, 2}, i \in {<<Duns(1)>>, <<Duns(2), Duns(1)>>,
            <<[Id("internal", 1) EXCEPT !.auth = <<1, 0>>]>>}}
  \cup {EdgeRec(0, t, 101, 102, Property1("percentage", 50)) :
          t \in {"ownership", "com.example"}}
  \cup {EdgeRec(0, "supplies", 101, 103, NoProperties)}
Numbered(es) == [k \in DOMAIN es |-> [es[k] EXCEPT !.id = k]]
TwoOrgs == <<Org(101, <<Duns(1)>>), Org(102, <<Duns(2)>>)>>
Swapped == <<Org(102, <<Duns(2)>>), Org(101, <<Duns(1)>>)>>
EdgeInputs ==
  {<<File(TwoOrgs, Numbered(<<e1, e2>>)), File(Swapped, <<e3>>)>> :
     e1 \in EdgePool, e2 \in EdgePool, e3 \in EdgePool}

(* Nodes of every kind that a rule on types looks at, joined by same_as or *)
(* by a shared identifier, and a declared reporting entity.                *)
Opaque(value) == Id("opaque", value)
Boundary(id, value) == NodeRec(id, "boundary_ref", <<Opaque(value)>>)
TypedNodes(id) ==
  {Org(id, <<Duns(1)>>), NodeRec(id, "facility", <<Duns(1)>>),
   NodeRec(id, "person", <<Duns(2)>>), NodeRec(id, "good", <<>>),
   Boundary(id, 1), Boundary(id, 2)}
TypeEdges == {"supplies", "operates", "composed_of", "beneficial_ownership", "same_as"}
ValidFiles ==
  {f \in {[File(<<m, n>>, <<EdgeRec(1, t, 101, 102, Property1("confidence", "definite"))>>)
             EXCEPT !.reporting = r] :
            m \in TypedNodes(101), n \in TypedNodes(102), t \in TypeEdges,
            r \in {None, 102}} :
     L1Valid(f)}
TypeInputs ==
  {<<f, File(<<n>>, <<>>)>> : f \in ValidFiles, n \in TypedNodes(101)}

(* Groups that several identifiers hold together, found in every order,    *)
(* beside a group with the same lowest identifier in another period.       *)
Chain(lists) ==
  <<File([k \in 1 .. 3 |-> Org(100 + k, lists[k])], <<EdgeRec(1, "supplies", 101, 103, NoProperties)>>),
    File(<<Org(101, lists[4])>>, <<>>)>>
ChainLists == {<<Duns(5)>>, <<Duns(5), Duns(6)>>, <<Duns(6), Duns(7)>>, <<Duns(7)>>, <<Duns(8), Duns(5)>>}
OrderInputs ==
  {OrderInput(<<>>), OrderInput(<<Duns(7)>>)} \cup {Chain(l) : l \in [1 .. 4 -> ChainLists]}

AllInputs == PairInputs \cup EdgeInputs \cup TypeInputs \cup OrderInputs
=============================================================================
