------------------------------ MODULE MCFiles ------------------------------
(* Constructors of the files that the merge is checked on.                   *)
EXTENDS Identity

\* Identifier records.  Numbers stand for texts and dates.
Id(scheme, value) ==
  [scheme |-> scheme, value |-> <<value, 0>>, auth |-> None, from |-> None,
   to |-> None, annulled |-> FALSE, sens |-> None]
Duns(value) == Id("duns", value)
Lei(value) == Id("lei", value)
Until(id, date) == [id EXCEPT !.to = date]
From(id, date) == [id EXCEPT !.from = date]

NodeRec(id, type, ids) ==
  [id |-> id, type |-> type, ids |-> ids, labels |-> {},
   scalars |-> [name |-> None, jurisdiction |-> None, status |-> None],
   conflicts |-> {}, operator |-> None, carried |-> 0]
Named(node, name) == [node EXCEPT !.scalars["name"] = name]
Org(id, ids) == NodeRec(id, "organization", ids)

EdgeRec(id, type, source, target, props) ==
  [id |-> id, type |-> type, source |-> source, target |-> target,
   ids |-> <<>>, labels |-> {}, props |-> props, extra |-> NoProperties]

File(ns, es) ==
  [nodes |-> ns, edges |-> es, reporting |-> None, scope |-> None, date |-> 1]

Property1(name, value) == [n \in {name} |-> value]
SameAs(source, target, confidence) ==
  EdgeRec(9, "same_as", source, target,
          IF confidence = None THEN NoProperties ELSE Property1("confidence", confidence))
Supply(commodity) ==
  EdgeRec(8, "supplies", 101, 102,
          IF commodity = None THEN NoProperties ELSE Property1("commodity", commodity))

(* Two periods of one identifier, and a group that two identifiers hold    *)
(* together: both have the lowest identifier duns 1.                       *)
OrderInput(extra) ==
  <<File(<<Org(101, <<Until(Duns(1), 1), Duns(5)>>), Org(102, <<From(Duns(1), 2)>>),
           Org(103, <<Duns(5), Duns(6)>>)>>, <<>>),
    File(<<Org(101, <<Duns(6)>> \o extra)>>, <<>>)>>
=============================================================================
